--------------------------- MODULE GaugeRegistry ---------------------------
(***************************************************************************)
(* The two gauge registries: ext_hooks.hpp Gauges (flavour "hooks") and    *)
(* acl_audit.hpp AuditGauges (flavour "acl").  Owners of a state register  *)
(* a reader of it, remove it when the state goes away and then free the    *)
(* state; scrapers take snapshots, calling the readers one by one under    *)
(* the registry's lock.                                                    *)
(*                                                                         *)
(* Register and Remove are one critical section each, so one step taken    *)
(* when the lock is free.  Snapshot keeps the lock across the calls into   *)
(* the readers, which are steps of their own: they are foreign code.       *)
(* A gauge's name stands for (name, attributes) in the hooks flavour.      *)
(***************************************************************************)
EXTENDS Naturals, Sequences, Functions

CONSTANTS
    Owners, Names, Scrapers,
    MaxEntries,         \* bound: registered gauges
    MaxSnapshots        \* bound: snapshots taken

ASSUME GaugeAssumption ==
    /\ MaxEntries \in Nat /\ MaxSnapshots \in Nat
    /\ "none" \notin Owners /\ "free" \notin Scrapers

VARIABLES
    flavour,            \* which registry this is
    entries, dynamics,  \* the registered readers: records [name, owner]; dynamics only in acl
    lock,               \* the scraper holding the registry's lock, or "free"
    mine,               \* per owner: the names it registered and has not removed
    life,               \* per owner: its state is live, or freed
    at,                 \* per scraper: the index of the reader it calls, 0 outside Snapshot
    inside,             \* per scraper: the owner whose reader is running, or "none"
    rows, thrown,       \* per scraper: indices rendered, indices whose reader threw
    began,              \* history, per scraper: the readers registered when it took the lock
    snapshots           \* history: snapshots begun

vars == <<flavour, entries, dynamics, lock, mine, life, at, inside, rows, thrown, began, snapshots>>
scrape == <<lock, at, inside, rows, thrown, began, snapshots>>

Init ==
    /\ flavour \in {"hooks", "acl"}
    /\ entries = <<>> /\ dynamics = <<>> /\ lock = "free"
    /\ mine = [o \in Owners |-> {}] /\ life = [o \in Owners |-> "live"]
    /\ at = [c \in Scrapers |-> 0] /\ inside = [c \in Scrapers |-> "none"]
    /\ rows = [c \in Scrapers |-> <<>>] /\ thrown = [c \in Scrapers |-> {}]
    /\ began = [c \in Scrapers |-> <<>>] /\ snapshots = 0

\* What a snapshot visits: the fixed gauges, then the dynamic ones.
Readers == entries \o dynamics

\* Register and Remove wait for a snapshot that is running.
Mut_NoWait == TRUE
Unlocked == lock = "free"

-----------------------------------------------------------------------------
\* The list after Register(n) by o: hooks replaces the reader of a gauge it has, acl appends.
Mut_AppendAlways(n, o) == Append(entries, [name |-> n, owner |-> o])
Registered(n, o) ==
    LET gauge == [name |-> n, owner |-> o]
        same  == {i \in DOMAIN entries : entries[i].name = n}
    IN  IF flavour = "hooks" /\ same # {}
          THEN [entries EXCEPT ![CHOOSE i \in same : \A j \in same : i <= j] = gauge]
          ELSE Append(entries, gauge)

Register(o, n) ==
    /\ life[o] = "live" /\ Unlocked /\ Len(Readers) < MaxEntries
    /\ entries' = Registered(n, o)
    /\ mine' = [mine EXCEPT ![o] = @ \union {n}]
    /\ UNCHANGED <<flavour, dynamics, life, scrape>>

RegisterDynamic(o, n) ==
    /\ flavour = "acl"
    /\ life[o] = "live" /\ Unlocked /\ Len(Readers) < MaxEntries
    /\ dynamics' = Append(dynamics, [name |-> n, owner |-> o])
    /\ mine' = [mine EXCEPT ![o] = @ \union {n}]
    /\ UNCHANGED <<flavour, entries, life, scrape>>

\* Remove(name) erases every gauge under the name, whoever registered it: kept[i] is what its loop
\* leaves of the first i.
Mut_WithoutFirst(list, n) ==
    LET kept[i \in 0 .. Len(list)] ==
          IF i = 0 THEN <<>>
          ELSE IF list[i].name = n /\ Len(kept[i - 1]) = i - 1 THEN kept[i - 1]
          ELSE Append(kept[i - 1], list[i])
    IN  kept[Len(list)]
Without(list, n) ==
    LET kept[i \in 0 .. Len(list)] ==
          IF i = 0 THEN <<>>
          ELSE IF list[i].name = n THEN kept[i - 1] ELSE Append(kept[i - 1], list[i])
    IN  kept[Len(list)]

Remove(o, n) ==
    /\ n \in mine[o] /\ Unlocked
    /\ entries' = Without(entries, n)
    /\ dynamics' = Without(dynamics, n)
    /\ mine' = [mine EXCEPT ![o] = @ \ {n}]
    /\ UNCHANGED <<flavour, life, scrape>>

\* External: an owner frees its state once it has removed what it registered.
Free(o) ==
    /\ life[o] = "live" /\ mine[o] = {}
    /\ life' = [life EXCEPT ![o] = "freed"]
    /\ UNCHANGED <<flavour, entries, dynamics, mine, scrape>>

-----------------------------------------------------------------------------
Lock(c) ==
    /\ at[c] = 0 /\ lock = "free" /\ snapshots < MaxSnapshots
    /\ lock' = c /\ snapshots' = snapshots + 1
    /\ at' = [at EXCEPT ![c] = 1]
    /\ began' = [began EXCEPT ![c] = Readers]
    /\ UNCHANGED <<flavour, entries, dynamics, mine, life, inside, rows, thrown>>

\* The loop enters the next reader ...
Call(c) ==
    /\ at[c] \in DOMAIN Readers /\ inside[c] = "none"
    /\ inside' = [inside EXCEPT ![c] = Readers[at[c]].owner]
    /\ UNCHANGED <<flavour, entries, dynamics, lock, mine, life, at, rows, thrown, began, snapshots>>

\* ... which returns a value ...
Return(c) ==
    /\ inside[c] # "none"
    /\ inside' = [inside EXCEPT ![c] = "none"]
    /\ rows' = [rows EXCEPT ![c] = Append(@, at[c])]
    /\ at' = [at EXCEPT ![c] = @ + 1]
    /\ UNCHANGED <<flavour, entries, dynamics, lock, mine, life, thrown, began, snapshots>>

\* ... or throws: hooks leaves it out and goes on; in acl the exception leaves Snapshot, and
\* the lock_guard releases on the way.
Mut_StaysAtThrow(c) == at[c]
Mut_SkipsRest(c) == Len(Readers) + 1
AfterThrow(c) == at[c] + 1

\* Snapshot is over, its rows are the caller's (or lost): nothing of it is left.
Leave(c) ==
    /\ at' = [at EXCEPT ![c] = 0]
    /\ rows' = [rows EXCEPT ![c] = <<>>] /\ thrown' = [thrown EXCEPT ![c] = {}]
    /\ began' = [began EXCEPT ![c] = <<>>]

Throw(c) ==
    /\ inside[c] # "none"
    /\ inside' = [inside EXCEPT ![c] = "none"]
    /\ \/ /\ flavour = "hooks"
          /\ thrown' = [thrown EXCEPT ![c] = @ \union {at[c]}]
          /\ at' = [at EXCEPT ![c] = AfterThrow(c)]
          /\ UNCHANGED <<lock, rows, began>>
       \/ /\ flavour = "acl"
          /\ Leave(c) /\ lock' = "free"
    /\ UNCHANGED <<flavour, entries, dynamics, mine, life, snapshots>>

Unlock(c) ==
    /\ at[c] > Len(Readers) /\ inside[c] = "none"
    /\ Leave(c) /\ lock' = "free"
    /\ UNCHANGED <<flavour, entries, dynamics, mine, life, inside, snapshots>>

-----------------------------------------------------------------------------
Scrape(c) == Call(c) \/ Return(c) \/ Throw(c) \/ Unlock(c)

\* Every owner is gone and no snapshot is left to take.
Finished ==
    /\ \A o \in Owners : life[o] = "freed"
    /\ lock = "free" /\ snapshots = MaxSnapshots
    /\ UNCHANGED vars

Next ==
    \/ \E o \in Owners, n \in Names : Register(o, n) \/ RegisterDynamic(o, n) \/ Remove(o, n)
    \/ \E o \in Owners : Free(o)
    \/ \E c \in Scrapers : Lock(c) \/ Scrape(c)
    \/ Finished

\* A thread inside Snapshot runs, and readers return or throw ("a reader must be cheap"); nobody
\* has to register, to remove or to scrape.
Fairness == \A c \in Scrapers : WF_vars(Scrape(c))

Spec == Init /\ [][Next]_vars
FairSpec == Spec /\ Fairness

-----------------------------------------------------------------------------
(* Properties *)

\* "Once Remove returns its reader never runs again and the owner may free the state": no reader
\* is running, and none is registered, whose owner freed what it reads.
NoDanglingReader ==
    \A o \in Owners : life[o] = "freed" =>
        /\ \A i \in DOMAIN Readers : Readers[i].owner # o
        /\ \A c \in Scrapers : inside[c] # o

\* A snapshot is of one moment: what it iterates does not change under it (a Register or a
\* Remove would also invalidate its iterator).
SnapshotOfOneMoment == \A c \in Scrapers : lock = c => Readers = began[c]

\* "A reader that throws is left out of this snapshot", it alone, and there is "one gauge per
\* (name, attributes)" (ext_hooks.hpp): when a hooks snapshot ends every gauge that was registered
\* and did not throw has its row, in order, and no gauge has two, whoever registered it again.
OneRowPerGauge ==
    flavour = "hooks" =>
        \A c \in Scrapers : lock = c /\ at[c] > Len(Readers) =>
            /\ Range(rows[c]) = DOMAIN began[c] \ thrown[c]
            /\ \A i, j \in DOMAIN rows[c] : i < j =>
                  /\ rows[c][i] < rows[c][j]
                  /\ began[c][rows[c][i]].name # began[c][rows[c][j]].name

\* Every snapshot gives the lock back, whatever its readers throw: an owner waiting to remove its
\* gauge gets its turn.
SnapshotEnds == \A c \in Scrapers : lock = c ~> lock # c

=============================================================================
