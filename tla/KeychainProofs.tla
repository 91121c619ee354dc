--------------------------- MODULE KeychainProofs ---------------------------
(***************************************************************************)
(* Theorems about Keychain: any number of callers, any requests and any    *)
(* timeout.                                                                *)
(***************************************************************************)
EXTENDS Keychain, SequenceTheorems, TLAPS

-----------------------------------------------------------------------------
(* Types *)

Places == {"idle", "lock", "probing", "ask", "reap", "join", "update", "add"}
Outcomes == {"none", "done", "absent", "found", "failed", "refused", "unavailable", "duplicate"}
Contents == {r.secret : r \in Requests} \union {CString(r.secret) : r \in Requests}
                \union {NoEntry, <<>>}

CallType == [at : Places, req : Requests, result : Outcomes, out : Contents, spent : Nat,
             applied : BOOLEAN, raced : BOOLEAN, seen : Contents]
DeadlineType == [watchdog : {"waiting", "ended"}, left : Nat, finished : BOOLEAN,
                 cancelled : BOOLEAN, live : BOOLEAN]

Typed ==
    /\ platform \in {"macos", "windows", "linux"} /\ reachable \in BOOLEAN
    /\ store \in [{Key(n) : n \in Names} -> Contents]
    /\ written \in [Names -> Contents]
    /\ probe \in [probed : BOOLEAN, available : BOOLEAN]
    /\ lock \in Callers \union {NoOne}
    /\ calls \in Nat
    /\ call \in [Callers -> CallType]
    /\ deadline \in [Callers -> DeadlineType]

\* A new call, and the two ends of a Deadline's life.
LEMMA RecordTypes ==
    /\ Idle \in CallType /\ Idle.at = "idle" /\ Idle.spent = 0 /\ Idle.result = "none"
    /\ Idle.applied = FALSE /\ Idle.out = <<>> /\ Idle.seen = <<>>
    /\ Armed \in DeadlineType /\ Armed.left = Timeout /\ Armed.live
    /\ Destroyed \in DeadlineType /\ ~Destroyed.live /\ Destroyed.watchdog = "ended"
<1>1. (CHOOSE r \in Requests : TRUE) \in Requests
  BY KeychainAssumption
<1>2. Idle \in CallType
  BY <1>1 DEF Idle, CallType, Places, Outcomes, Contents
<1>3. Timeout \in Nat
  BY KeychainAssumption
<1>4. Armed \in DeadlineType /\ Destroyed \in DeadlineType
  BY <1>3 DEF Armed, Destroyed, DeadlineType
<1>. QED BY <1>2, <1>4 DEF Idle, Armed, Destroyed

\* What a text's kept form may be.
LEMMA KeptType == \A r \in Requests : r.secret \in Contents /\ Kept(r.secret) \in Contents
BY DEF Kept, Contents

\* A step that asks the store, whatever the answer: only c's call moves on, and other calls at most
\* learn that they lost a race.
Others(c) ==
    \A d \in Callers \ {c} :
        /\ call'[d].at = call[d].at /\ call'[d].req = call[d].req /\ call'[d].result = call[d].result
        /\ call'[d].out = call[d].out /\ call'[d].spent = call[d].spent
        /\ call'[d].applied = call[d].applied /\ call'[d].seen = call[d].seen
        /\ call[d].raced => call'[d].raced

MovesOn(c, place, results) ==
    /\ call' \in [Callers -> CallType]
    /\ call'[c].at = place /\ call'[c].req = call[c].req /\ call'[c].spent = call[c].spent
    /\ call'[c].result \in results
    /\ Others(c)

\* Going on to another place changes nothing else.
LEMMA GoesMoves ==
    ASSUME Typed, NEW c \in Callers, NEW place \in Places, Goes(c, place)
    PROVE  /\ MovesOn(c, place, {call[c].result})
           /\ \A d \in Callers : /\ call'[d].applied = call[d].applied /\ call'[d].out = call[d].out
                                 /\ call'[d].seen = call[d].seen /\ call'[d].raced = call[d].raced
<1>1. call' = [call EXCEPT ![c] = [call[c] EXCEPT !.at = place]] /\ call \in [Callers -> CallType]
  BY DEF Goes, Typed
<1>2. [call[c] EXCEPT !.at = place] \in CallType
  BY <1>1 DEF CallType
<1>3. call' \in [Callers -> CallType]
  BY <1>1, <1>2
<1>. QED BY <1>1, <1>2, <1>3 DEF MovesOn, Others, CallType

\* A call that ends with a result of its own, or with an error.
LEMMA ResultMoves ==
    ASSUME Typed, NEW c \in Callers, NEW place \in Places, NEW result \in Outcomes,
           call' = [call EXCEPT ![c].at = place, ![c].result = result]
    PROVE  /\ MovesOn(c, place, {result})
           /\ \A d \in Callers : /\ call'[d].applied = call[d].applied /\ call'[d].out = call[d].out
                                 /\ call'[d].seen = call[d].seen /\ call'[d].raced = call[d].raced
<1>1. /\ call' = [call EXCEPT ![c] = [call[c] EXCEPT !.at = place, !.result = result]]
      /\ call \in [Callers -> CallType]
  BY DEF Typed
<1>2. [call[c] EXCEPT !.at = place, !.result = result] \in CallType
  BY <1>1 DEF CallType
<1>3. call' \in [Callers -> CallType]
  BY <1>1, <1>2
<1>. QED BY <1>1, <1>2, <1>3 DEF MovesOn, Others, CallType

\* A call that changed the store, or was cut off after the service did.
LEMMA AppliedMoves ==
    ASSUME Typed, NEW c \in Callers, NEW place \in Places, NEW result \in Outcomes,
           call' = [call EXCEPT ![c].at = place, ![c].result = result, ![c].applied = TRUE]
    PROVE  /\ MovesOn(c, place, {result}) /\ call'[c].applied
           /\ \A d \in Callers : /\ call'[d].out = call[d].out /\ call'[d].seen = call[d].seen
                                 /\ call'[d].raced = call[d].raced
<1>1. /\ call' = [call EXCEPT ![c] = [call[c] EXCEPT !.at = place, !.result = result, !.applied = TRUE]]
      /\ call \in [Callers -> CallType]
  BY DEF Typed
<1>2. [call[c] EXCEPT !.at = place, !.result = result, !.applied = TRUE] \in CallType
  BY <1>1 DEF CallType
<1>3. call' \in [Callers -> CallType]
  BY <1>1, <1>2
<1>. QED BY <1>1, <1>2, <1>3 DEF MovesOn, Others, CallType

\* A store that was done: the others between update and add of the same entry have lost.
LEMMA RacingMoves ==
    ASSUME Typed, NEW c \in Callers, NEW place \in Places,
           call' = [Racing(c) EXCEPT ![c].at = place, ![c].result = "done", ![c].applied = TRUE]
    PROVE  /\ MovesOn(c, place, {"done"}) /\ call'[c].applied
           /\ call'[c].out = call[c].out /\ call'[c].seen = call[c].seen
           /\ \A d \in Callers \ {c} : call[d].at = "add" /\ NameOf(d) = NameOf(c) => call'[d].raced
<1>1. call \in [Callers -> CallType]
  BY DEF Typed
<1>2. PICK others : others = Racing(c)
  OBVIOUS
<1>3. /\ others \in [Callers -> CallType] /\ others[c] = call[c]
      /\ \A d \in Callers \ {c} :
            \/ others[d] = call[d] /\ ~(call[d].at = "add" /\ NameOf(d) = NameOf(c))
            \/ others[d] = [call[d] EXCEPT !.raced = TRUE]
  <2>1. \A d \in Callers : others[d] = IF d # c /\ call[d].at = "add" /\ NameOf(d) = NameOf(c)
                                      THEN [call[d] EXCEPT !.raced = TRUE] ELSE call[d]
    BY <1>2 DEF Racing
  <2>2. \A d \in Callers : call[d] \in CallType /\ [call[d] EXCEPT !.raced = TRUE] \in CallType
    BY <1>1 DEF CallType
  <2>3. others \in [Callers -> CallType]
    <3>1. others = [d \in Callers |-> others[d]]
      BY <1>2 DEF Racing
    <3>2. \A d \in Callers : others[d] \in CallType
      BY <2>1, <2>2
    <3>. QED BY <3>1, <3>2
  <2>. QED BY <2>1, <2>3
<1>4. PICK served \in CallType :
          served = [call[c] EXCEPT !.at = place, !.result = "done", !.applied = TRUE]
  BY <1>1 DEF CallType, Outcomes
<1>5. call' = [others EXCEPT ![c] = served]
  BY <1>2, <1>3, <1>4
<1>6. call' \in [Callers -> CallType]
  BY <1>3, <1>5
<1>7. call'[c] = [call[c] EXCEPT !.at = place, !.result = "done", !.applied = TRUE]
  BY <1>3, <1>4, <1>5
<1>8. \A d \in Callers \ {c} : call'[d] = others[d]
  BY <1>3, <1>5
<1>9. Others(c)
  <2>. SUFFICES ASSUME NEW d \in Callers \ {c}
                PROVE  /\ call'[d].at = call[d].at /\ call'[d].req = call[d].req
                       /\ call'[d].result = call[d].result /\ call'[d].out = call[d].out
                       /\ call'[d].spent = call[d].spent /\ call'[d].applied = call[d].applied
                       /\ call'[d].seen = call[d].seen /\ (call[d].raced => call'[d].raced)
    BY DEF Others
  <2>1. call'[d] = call[d] \/ call'[d] = [call[d] EXCEPT !.raced = TRUE]
    BY <1>3, <1>8
  <2>2. call[d] \in CallType
    BY <1>1
  <2>. QED BY <2>1, <2>2 DEF CallType
<1>10. \A d \in Callers \ {c} : call[d].at = "add" /\ NameOf(d) = NameOf(c) => call'[d].raced
  BY <1>1, <1>3, <1>8 DEF CallType
<1>. QED BY <1>1, <1>6, <1>7, <1>9, <1>10 DEF MovesOn, CallType

\* A load that found something.
LEMMA FoundMoves ==
    ASSUME Typed, NEW c \in Callers, NEW place \in Places, NEW entry \in Contents, NEW was \in Contents,
           call' = [call EXCEPT ![c].at = place, ![c].result = "found", ![c].out = entry, ![c].seen = was]
    PROVE  /\ MovesOn(c, place, {"found"}) /\ call'[c].out = entry /\ call'[c].seen = was
           /\ \A d \in Callers : call'[d].applied = call[d].applied /\ call'[d].raced = call[d].raced
<1>1. /\ call' = [call EXCEPT ![c] = [call[c] EXCEPT !.at = place, !.result = "found", !.out = entry,
                                                     !.seen = was]]
      /\ call \in [Callers -> CallType]
  BY DEF Typed
<1>2. [call[c] EXCEPT !.at = place, !.result = "found", !.out = entry, !.seen = was] \in CallType
  BY <1>1 DEF CallType, Outcomes
<1>3. call' \in [Callers -> CallType]
  BY <1>1, <1>2
<1>. QED BY <1>1, <1>2, <1>3 DEF MovesOn, Others, CallType

\* The entry of a name is there, and holds a text or nothing.
LEMMA EntryType ==
    ASSUME Typed, NEW c \in Callers
    PROVE  /\ call[c].req \in Requests /\ NameOf(c) \in Names
           /\ Key(NameOf(c)) \in DOMAIN store /\ NameOf(c) \in DOMAIN written
           /\ store[Key(NameOf(c))] \in Contents /\ written[NameOf(c)] \in Contents
<1>1. call[c].req \in Requests
  BY DEF Typed, CallType
<1>2. NameOf(c) \in Names
  BY <1>1 DEF NameOf, Names
<1>. QED BY <1>1, <1>2 DEF Typed

\* Serving a request, or refusing it, moves its call on and keeps the types.
LEMMA ServeMoves ==
    ASSUME Typed, NEW c \in Callers, NEW place \in Places, UNCHANGED platform,
           Serve(c, place) \/ Refuse(c, place)
    PROVE  /\ MovesOn(c, place, {"done", "absent", "found", "failed"})
           /\ store' \in [{Key(n) : n \in Names}' -> Contents] /\ written' \in [Names -> Contents]
<1>1. {Key(n) : n \in Names}' = {Key(n) : n \in Names}
  BY DEF Key, KeyOn, Names
<1>2. /\ store \in [{Key(n) : n \in Names} -> Contents] /\ written \in [Names -> Contents]
      /\ Key(NameOf(c)) \in {Key(n) : n \in Names} /\ NameOf(c) \in Names
      /\ NoEntry \in Contents /\ call[c].req.secret \in Contents /\ Kept(call[c].req.secret) \in Contents
  BY EntryType, KeptType DEF Typed, Contents
<1>3. CASE Refuse(c, place)
  BY <1>1, <1>2, <1>3, ResultMoves DEF Refuse, MovesOn, Outcomes
<1>4. CASE Serve(c, place) /\ call[c].req.op = "store"
  <2>1. /\ store' = [store EXCEPT ![Key(NameOf(c))] = Kept(call[c].req.secret)]
        /\ written' = [written EXCEPT ![NameOf(c)] = call[c].req.secret]
        /\ call' = [Racing(c) EXCEPT ![c].at = place, ![c].result = "done", ![c].applied = TRUE]
    BY <1>4 DEF Serve
  <2>. QED BY <1>1, <1>2, <2>1, RacingMoves DEF MovesOn
<1>5. CASE Serve(c, place) /\ call[c].req.op = "remove"
  <2>1. /\ store' = [store EXCEPT ![Key(NameOf(c))] = NoEntry]
        /\ written' = [written EXCEPT ![NameOf(c)] = NoEntry]
        /\ call' = [call EXCEPT ![c].at = place, ![c].result = "done", ![c].applied = TRUE]
    BY <1>5 DEF Serve
  <2>. QED BY <1>1, <1>2, <2>1, AppliedMoves DEF MovesOn, Outcomes
<1>6. CASE Serve(c, place) /\ call[c].req.op = "load"
  <2>1. /\ UNCHANGED <<store, written>>
        /\ \/ call' = [call EXCEPT ![c].at = place, ![c].result = "absent"]
           \/ call' = [call EXCEPT ![c].at = place, ![c].result = "found",
                                   ![c].out = store[Key(NameOf(c))], ![c].seen = written[NameOf(c)]]
    BY <1>6 DEF Serve
  <2>2. CASE call' = [call EXCEPT ![c].at = place, ![c].result = "absent"]
    BY <1>1, <1>2, <2>1, <2>2, ResultMoves DEF MovesOn, Outcomes
  <2>3. CASE call' = [call EXCEPT ![c].at = place, ![c].result = "found",
                                  ![c].out = store[Key(NameOf(c))], ![c].seen = written[NameOf(c)]]
    <3>1. PICK entry \in Contents : entry = store[Key(NameOf(c))]
      BY EntryType
    <3>2. PICK was \in Contents : was = written[NameOf(c)]
      BY EntryType
    <3>3. call' = [call EXCEPT ![c].at = place, ![c].result = "found", ![c].out = entry, ![c].seen = was]
      BY <2>3, <3>1, <3>2
    <3>4. MovesOn(c, place, {"found"})
      BY <3>3, FoundMoves
    <3>5. MovesOn(c, place, {"done", "absent", "found", "failed"})
      BY <3>4 DEF MovesOn
    <3>. QED BY <1>1, <1>2, <2>1, <3>5
  <2>. QED BY <2>1, <2>2, <2>3
<1>. QED BY <1>3, <1>4, <1>5, <1>6 DEF Serve

-----------------------------------------------------------------------------
(* The probe, the watchdogs and the time a call takes *)

\* While the probe is not begun nobody has waited for it; while it runs nobody has waited for it
\* longer than the caller that runs it, whose own deadline limits it; and a request's deadline is
\* the only time a call spends after that.
Waited ==
    /\ ~probe.probed => lock = NoOne /\ \A c \in Callers : call[c].at = "lock" => call[c].spent = 0
    /\ lock # NoOne => \A c \in Callers : call[c].at = "lock" => call[c].spent <= call[lock].spent
    /\ \A c \in Callers :
          /\ call[c].at = "lock" => call[c].spent <= Timeout
          /\ call[c].at = "probing" => lock = c /\ call[c].spent + deadline[c].left <= Timeout
          /\ lock = c => call[c].at \in {"probing", "reap", "join"} /\ call[c].spent <= Timeout
          /\ call[c].at = "ask" /\ platform = "linux" =>
                call[c].spent + deadline[c].left <= 2 * Timeout
          /\ call[c].spent <= 2 * Timeout
          /\ call[c].result = "unavailable" => call[c].at = "idle" /\ call[c].spent <= Timeout

TimeInv == Typed /\ Waited /\ WatchdogOutlived

\* A call that moves on without waiting keeps to its time.
LEMMA MoveKeepsTime ==
    ASSUME TimeInv, NEW c \in Callers, NEW place \in {"idle", "reap", "join", "add"}, NEW results,
           MovesOn(c, place, results), "unavailable" \notin results,
           lock = c => place \in {"reap", "join"},
           UNCHANGED <<platform, probe, lock, deadline>>
    PROVE  Waited' /\ WatchdogOutlived'
<1>1. \A d \in Callers : /\ call'[d].spent = call[d].spent
                         /\ d # c => call'[d].at = call[d].at /\ call'[d].result = call[d].result
  BY DEF MovesOn, Others
<1>2. call'[c].at = place /\ call'[c].result # "unavailable"
  BY DEF MovesOn
<1>3. Waited'
  BY <1>1, <1>2 DEF TimeInv, Typed, Waited
<1>4. WatchdogOutlived'
  BY DEF TimeInv, WatchdogOutlived
<1>. QED BY <1>3, <1>4

\* The types of what such a step leaves alone.
LEMMA RestTyped ==
    ASSUME Typed, UNCHANGED <<platform, reachable, calls>>,
           call' \in [Callers -> CallType], deadline' \in [Callers -> DeadlineType],
           probe' \in [probed : BOOLEAN, available : BOOLEAN], lock' \in Callers \union {NoOne},
           \/ UNCHANGED <<store, written>>
           \/ store' \in [{Key(n) : n \in Names}' -> Contents] /\ written' \in [Names -> Contents]
    PROVE  Typed'
<1>1. {Key(n) : n \in Names}' = {Key(n) : n \in Names}
  BY DEF Key, KeyOn, Names
<1>. QED BY <1>1 DEF Typed

\* A call begins, or is refused at once.
LEMMA EnterTime ==
    ASSUME TimeInv, NEW c \in Callers, Enter(c)
    PROVE  TimeInv'
<1>1. PICK r \in Requests : EnterRefused(c, r) \/ EnterLinux(c, r) \/ EnterMacStore(c, r) \/ EnterDirect(c, r)
  BY DEF Enter
<1>2. PICK place \in {"idle", "lock", "update", "ask"}, result \in {"none", "refused", "unavailable"} :
          /\ Entered(c, r, place, result)
          /\ place = "ask" => platform # "linux"
          /\ result = "unavailable" => place = "idle"
  BY <1>1 DEF EnterRefused, EnterLinux, EnterMacStore, EnterDirect
<1>3. /\ UNCHANGED <<platform, reachable, store, probe, lock, deadline, written>>
      /\ call[c].at = "idle" /\ call \in [Callers -> CallType] /\ calls' \in Nat
  BY <1>1, <1>2
     DEF EnterRefused, EnterLinux, EnterMacStore, EnterDirect, MayEnter, TimeInv, Typed, Entered
<1>4. PICK fresh \in CallType : /\ call' = [call EXCEPT ![c] = fresh]
                                /\ fresh.at = place /\ fresh.result = result /\ fresh.spent = 0
  <2>1. Wiped(c, r) \in Contents
    BY <1>3 DEF Wiped, Contents, CallType
  <2>2. call' = [call EXCEPT ![c] = [Idle EXCEPT !.at = place, !.req = r, !.result = result,
                                                !.out = Wiped(c, r)]]
    BY <1>2 DEF Entered
  <2>3. PICK new \in CallType : new = Idle /\ new.spent = 0
    BY RecordTypes
  <2>4. PICK wiped \in Contents : wiped = Wiped(c, r)
    BY <2>1
  <2>5. PICK fresh : fresh = [new EXCEPT !.at = place, !.req = r, !.result = result, !.out = wiped]
    OBVIOUS
  <2>6. fresh \in CallType /\ fresh.at = place /\ fresh.result = result /\ fresh.spent = 0
    <3>1. place \in Places /\ result \in Outcomes
      BY DEF Places, Outcomes
    <3>2. fresh \in CallType
      BY <2>3, <2>5, <3>1 DEF CallType
    <3>3. fresh.at = place /\ fresh.result = result /\ fresh.spent = 0
      BY <2>3, <2>5 DEF CallType
    <3>. QED BY <3>2, <3>3
  <2>7. call' = [call EXCEPT ![c] = fresh]
    BY <2>2, <2>3, <2>4, <2>5
  <2>. QED BY <2>6, <2>7
<1>5. /\ call' \in [Callers -> CallType] /\ call'[c] = fresh
      /\ \A d \in Callers \ {c} : call'[d] = call[d]
  BY <1>3, <1>4
<1>6. Typed'
  <2>1. {Key(n) : n \in Names}' = {Key(n) : n \in Names}
    BY <1>3 DEF Key, KeyOn, Names
  <2>. QED BY <1>3, <1>5, <2>1 DEF TimeInv, Typed
<1>7. Waited'
  <2>1. lock # c /\ Timeout \in Nat
    BY <1>3, KeychainAssumption DEF TimeInv, Waited
  <2>2. lock # NoOne => lock \in Callers /\ call'[lock] = call[lock] /\ call[lock].spent \in Nat
    BY <1>3, <1>5, <2>1 DEF TimeInv, Typed, CallType
  <2>. QED BY <1>2, <1>3, <1>4, <1>5, <2>1, <2>2 DEF TimeInv, Waited
<1>8. WatchdogOutlived'
  BY <1>3 DEF TimeInv, WatchdogOutlived
<1>. QED BY <1>6, <1>7, <1>8 DEF TimeInv

\* macOS and Windows: no time is counted there.
LEMMA SystemTime ==
    ASSUME TimeInv, NEW c \in Callers, SecItemUpdate(c) \/ SecItemAdd(c) \/ SystemCall(c)
    PROVE  TimeInv'
<1>1. /\ UNCHANGED <<platform, reachable, calls, probe, lock, deadline>>
      /\ call[c].at \in {"update", "add", "ask"} /\ lock # c
  BY DEF SecItemUpdate, SecItemAdd, SystemCall, TimeInv, Waited
<1>2. \/ Serve(c, "idle") \/ Refuse(c, "idle")
      \/ Goes(c, "add") /\ UNCHANGED <<store, written>>
      \/ call' = [call EXCEPT ![c].at = "idle", ![c].result = "duplicate"] /\ UNCHANGED <<store, written>>
  BY DEF SecItemUpdate, SecItemAdd, SystemCall
<1>3. call[c].result # "unavailable"
  BY <1>1 DEF TimeInv, Waited
<1>4. PICK place, results :
          /\ place \in {"idle", "add"} /\ MovesOn(c, place, results) /\ "unavailable" \notin results
          /\ \/ UNCHANGED <<store, written>>
             \/ store' \in [{Key(n) : n \in Names}' -> Contents] /\ written' \in [Names -> Contents]
  <2>1. CASE Serve(c, "idle") \/ Refuse(c, "idle")
    BY <1>1, <2>1, ServeMoves DEF TimeInv, Places
  <2>2. CASE Goes(c, "add") /\ UNCHANGED <<store, written>>
    <3>1. MovesOn(c, "add", {call[c].result})
      BY <2>2, GoesMoves DEF TimeInv, Places
    <3>. QED BY <1>3, <2>2, <3>1
  <2>3. CASE call' = [call EXCEPT ![c].at = "idle", ![c].result = "duplicate"] /\ UNCHANGED <<store, written>>
    <3>1. MovesOn(c, "idle", {"duplicate"})
      BY <2>3, ResultMoves DEF TimeInv, Places, Outcomes
    <3>. QED BY <2>3, <3>1
  <2>. QED BY <1>2, <2>1, <2>2, <2>3
<1>5. Waited' /\ WatchdogOutlived'
  BY <1>1, <1>4, MoveKeepsTime
<1>6. Typed'
  <2>1. call' \in [Callers -> CallType]
    BY <1>4 DEF MovesOn
  <2>. QED BY <1>1, <1>4, <2>1, RestTyped DEF TimeInv, Typed
<1>. QED BY <1>5, <1>6 DEF TimeInv

\* A new Deadline for c, which nobody else's call notices.
LEMMA AsksMoves ==
    ASSUME Typed, NEW c \in Callers, NEW place \in Places, Asks(c, place)
    PROVE  /\ MovesOn(c, place, {call[c].result})
           /\ deadline' \in [Callers -> DeadlineType] /\ deadline'[c] = Armed
           /\ \A d \in Callers \ {c} : deadline'[d] = deadline[d]
BY GoesMoves, RecordTypes DEF Asks, Typed

\* The first to have the mutex probes; everybody after it has the answer.
LEMMA AvailableTime ==
    ASSUME TimeInv, NEW c \in Callers, KeychainAvailable(c)
    PROVE  TimeInv'
<1>1. /\ call[c].at = "lock" /\ lock = NoOne /\ c # NoOne
      /\ UNCHANGED <<platform, reachable, calls, store, written>>
      /\ call[c].spent \in Nat /\ call[c].spent <= Timeout /\ Timeout \in Nat
      /\ call[c].result # "unavailable"
  BY KeychainAssumption DEF KeychainAvailable, TimeInv, Typed, CallType, Waited
<1>2. CASE probe.probed /\ Asks(c, "ask") /\ UNCHANGED <<probe, lock>>
  <2>1. /\ MovesOn(c, "ask", {call[c].result})
        /\ deadline' \in [Callers -> DeadlineType] /\ deadline'[c] = Armed
        /\ \A d \in Callers \ {c} : deadline'[d] = deadline[d]
    BY <1>2, AsksMoves DEF TimeInv, Places
  <2>2. Typed'
    BY <1>1, <1>2, <2>1, RestTyped DEF TimeInv, Typed, MovesOn
  <2>3. deadline'[c].left = Timeout /\ deadline'[c].live
    BY <2>1, RecordTypes
  <2>4. Waited'
    BY <1>1, <1>2, <2>1, <2>3 DEF TimeInv, Waited, MovesOn, Others
  <2>5. WatchdogOutlived'
    BY <2>1, <2>3 DEF TimeInv, WatchdogOutlived
  <2>. QED BY <2>2, <2>4, <2>5 DEF TimeInv
<1>3. CASE ~probe.probed /\ lock' = c /\ Asks(c, "probing") /\ probe' = [probe EXCEPT !.probed = TRUE]
  <2>1. /\ MovesOn(c, "probing", {call[c].result})
        /\ deadline' \in [Callers -> DeadlineType] /\ deadline'[c] = Armed
        /\ \A d \in Callers \ {c} : deadline'[d] = deadline[d]
    BY <1>3, AsksMoves DEF TimeInv, Places
  <2>2. probe' \in [probed : BOOLEAN, available : BOOLEAN] /\ probe'.probed
    BY <1>3 DEF TimeInv, Typed
  <2>3. Typed'
    BY <1>1, <1>3, <2>1, <2>2, RestTyped DEF TimeInv, Typed, MovesOn
  <2>4. deadline'[c].left = Timeout /\ deadline'[c].live
    BY <2>1, RecordTypes
  <2>5. \A d \in Callers : call[d].at = "lock" => call[d].spent = 0
    BY <1>3 DEF TimeInv, Waited
  <2>6. Waited'
    <3>1. /\ \A d \in Callers : d # c => call'[d].at = call[d].at /\ call'[d].result = call[d].result
          /\ \A d \in Callers : call'[d].spent = call[d].spent
          /\ call'[c].at = "probing" /\ call'[c].result = call[c].result
      BY <2>1 DEF MovesOn, Others
    <3>2. call[c].spent = 0 /\ lock' = c /\ c \in Callers
      BY <1>1, <1>3, <2>5
    <3>3. \A d \in Callers : call'[d].at = "lock" => call'[d].spent = 0
      BY <2>5, <3>1
    <3>4. ASSUME NEW d \in Callers, d # c
          PROVE  /\ call'[d].at # "probing" /\ lock' # d /\ deadline'[d] = deadline[d]
                 /\ call'[d].spent = call[d].spent /\ call'[d].at = call[d].at
                 /\ call'[d].result = call[d].result
      BY <1>1, <2>1, <3>1, <3>2, <3>4, KeychainAssumption DEF TimeInv, Waited
    <3>5. call'[c].spent = 0 /\ deadline'[c].left = Timeout /\ call'[c].result # "unavailable"
      BY <1>1, <2>4, <3>1, <3>2
    <3>. QED BY <1>1, <2>2, <3>1, <3>2, <3>3, <3>4, <3>5 DEF TimeInv, Waited
  <2>7. WatchdogOutlived'
    BY <2>1, <2>4 DEF TimeInv, WatchdogOutlived
  <2>. QED BY <2>3, <2>6, <2>7 DEF TimeInv
<1>4. CASE /\ Unavailable(c) /\ UNCHANGED lock
           /\ probe' = probe \/ probe' = [probe EXCEPT !.probed = TRUE]
           /\ probe'.probed
  <2>1. MovesOn(c, "idle", {"unavailable"}) /\ UNCHANGED deadline
    BY <1>4, ResultMoves DEF Unavailable, TimeInv, Places, Outcomes
  <2>2. probe' \in [probed : BOOLEAN, available : BOOLEAN]
    BY <1>4 DEF TimeInv, Typed
  <2>3. Typed'
    BY <1>1, <1>4, <2>1, <2>2, RestTyped DEF TimeInv, Typed, MovesOn
  <2>4. Waited'
    BY <1>1, <1>4, <2>1 DEF TimeInv, Waited, MovesOn, Others
  <2>5. WatchdogOutlived'
    BY <2>1 DEF TimeInv, WatchdogOutlived
  <2>. QED BY <2>3, <2>4, <2>5 DEF TimeInv
<1>5. [probe EXCEPT !.probed = TRUE].probed
  BY DEF TimeInv, Typed
<1>. QED BY <1>2, <1>3, <1>4, <1>5 DEF KeychainAvailable

\* The service answers, or the watchdog's cancellation brings the call back: no time passes.
LEMMA AnswerTime ==
    ASSUME TimeInv, NEW c \in Callers,
           ProbeAnswered(c) \/ Answered(c) \/ CancelledReturn(c)
    PROVE  TimeInv'
<1>1. /\ UNCHANGED <<platform, reachable, calls, lock, deadline>>
      /\ call[c].at \in {"probing", "ask"} /\ call[c].result # "unavailable"
      /\ call[c].at = "ask" => lock # c
  BY DEF ProbeAnswered, Answered, CancelledReturn, TimeInv, Waited
<1>2. ASSUME NEW results, MovesOn(c, "reap", results), "unavailable" \notin results,
             probe' \in [probed : BOOLEAN, available : BOOLEAN], probe'.probed = probe.probed,
             \/ UNCHANGED <<store, written>>
             \/ store' \in [{Key(n) : n \in Names}' -> Contents] /\ written' \in [Names -> Contents]
      PROVE  TimeInv'
  <2>1. Typed'
    BY <1>1, <1>2, RestTyped DEF TimeInv, Typed, MovesOn
  <2>2. Waited'
    BY <1>1, <1>2 DEF TimeInv, Typed, Waited, MovesOn, Others
  <2>3. WatchdogOutlived'
    BY <1>1 DEF TimeInv, WatchdogOutlived
  <2>. QED BY <2>1, <2>2, <2>3 DEF TimeInv
<1>3. CASE ProbeAnswered(c)
  <2>1. MovesOn(c, "reap", {call[c].result}) /\ UNCHANGED <<store, written>>
    BY <1>3, GoesMoves DEF ProbeAnswered, TimeInv, Places
  <2>2. probe' \in [probed : BOOLEAN, available : BOOLEAN] /\ probe'.probed = probe.probed
    BY <1>3 DEF ProbeAnswered, TimeInv, Typed
  <2>. QED BY <1>1, <1>2, <2>1, <2>2
<1>4. probe \in [probed : BOOLEAN, available : BOOLEAN]
  BY DEF TimeInv, Typed
<1>5. CASE (Serve(c, "reap") \/ Refuse(c, "reap")) /\ UNCHANGED probe
  BY <1>1, <1>2, <1>4, <1>5, ServeMoves DEF TimeInv, Places
<1>6. CASE Goes(c, "reap") /\ UNCHANGED <<probe, store, written>>
  <2>1. MovesOn(c, "reap", {call[c].result})
    BY <1>6, GoesMoves DEF TimeInv, Places
  <2>. QED BY <1>1, <1>2, <1>4, <1>6, <2>1
<1>7. ASSUME NEW result \in {"absent"}, UNCHANGED <<probe, store, written>>,
             call' = [call EXCEPT ![c].at = "reap", ![c].result = result]
      PROVE  TimeInv'
  <2>1. MovesOn(c, "reap", {result})
    BY <1>7, ResultMoves DEF TimeInv, Places, Outcomes
  <2>. QED BY <1>1, <1>2, <1>4, <1>7, <2>1
<1>8. CASE /\ call' = [call EXCEPT ![c].at = "reap", ![c].result = "failed", ![c].applied = TRUE]
           /\ UNCHANGED probe
           /\ \E entry \in Contents, text \in Contents :
                 /\ store' = [store EXCEPT ![Key(NameOf(c))] = entry]
                 /\ written' = [written EXCEPT ![NameOf(c)] = text]
  <2>1. MovesOn(c, "reap", {"failed"})
    BY <1>8, AppliedMoves DEF TimeInv, Places, Outcomes
  <2>2. {Key(n) : n \in Names}' = {Key(n) : n \in Names}
    BY <1>1 DEF Key, KeyOn, Names
  <2>3. store' \in [{Key(n) : n \in Names}' -> Contents] /\ written' \in [Names -> Contents]
    BY <1>8, <2>2 DEF TimeInv, Typed
  <2>. QED BY <1>1, <1>2, <1>4, <1>8, <2>1, <2>3
<1>9. CASE Answered(c)
  BY <1>5, <1>7, <1>9 DEF Answered
<1>10. CASE CancelledReturn(c)
  <2>1. \A r \in Requests : r.secret \in Contents /\ Kept(r.secret) \in Contents
    BY KeptType
  <2>2. call[c].req \in Requests /\ NoEntry \in Contents
    BY DEF TimeInv, Typed, CallType, Contents
  <2>. QED BY <1>5, <1>6, <1>8, <1>10, <2>1, <2>2 DEF CancelledReturn
<1>. QED BY <1>3, <1>9, <1>10

\* ~Deadline tells its watchdog; a watchdog ends.
LEMMA DeadlineTime ==
    ASSUME TimeInv, NEW c \in Callers, Finish(c) \/ WatchdogEnds(c) \/ WatchdogCancels(c)
    PROVE  TimeInv'
<1>1. UNCHANGED <<platform, reachable, calls, store, probe, lock, written>>
  BY DEF Finish, WatchdogEnds, WatchdogCancels
<1>2. /\ deadline' \in [Callers -> DeadlineType]
      /\ \A d \in Callers : /\ deadline'[d].left = deadline[d].left /\ deadline'[d].live = deadline[d].live
                            /\ deadline'[d].watchdog \in {deadline[d].watchdog, "ended"}
  <2>1. deadline \in [Callers -> DeadlineType]
    BY DEF TimeInv, Typed
  <2>2. PICK b \in DeadlineType : /\ deadline' = [deadline EXCEPT ![c] = b]
                                  /\ b.left = deadline[c].left /\ b.live = deadline[c].live
                                  /\ b.watchdog \in {deadline[c].watchdog, "ended"}
    <3>1. CASE Finish(c)
      <4>1. PICK b : b = [deadline[c] EXCEPT !.finished = TRUE]
        OBVIOUS
      <4>2. deadline' = [deadline EXCEPT ![c] = b]
        BY <3>1, <4>1 DEF Finish
      <4>3. b \in DeadlineType /\ b.left = deadline[c].left /\ b.live = deadline[c].live
        BY <2>1, <4>1 DEF DeadlineType
      <4>4. b.watchdog \in {deadline[c].watchdog, "ended"}
        BY <2>1, <4>1 DEF DeadlineType
      <4>. QED BY <4>2, <4>3, <4>4
    <3>2. CASE WatchdogEnds(c)
      <4>1. PICK b : b = [deadline[c] EXCEPT !.watchdog = "ended"]
        OBVIOUS
      <4>2. deadline' = [deadline EXCEPT ![c] = b]
        BY <3>2, <4>1 DEF WatchdogEnds
      <4>3. b \in DeadlineType /\ b.left = deadline[c].left /\ b.live = deadline[c].live
        BY <2>1, <4>1 DEF DeadlineType
      <4>4. b.watchdog \in {deadline[c].watchdog, "ended"}
        BY <2>1, <4>1 DEF DeadlineType
      <4>. QED BY <4>2, <4>3, <4>4
    <3>3. CASE WatchdogCancels(c)
      <4>1. PICK b : b = [deadline[c] EXCEPT !.watchdog = "ended", !.cancelled = TRUE]
        OBVIOUS
      <4>2. deadline' = [deadline EXCEPT ![c] = b]
        BY <3>3, <4>1 DEF WatchdogCancels
      <4>3. b \in DeadlineType /\ b.left = deadline[c].left /\ b.live = deadline[c].live
        BY <2>1, <4>1 DEF DeadlineType
      <4>4. b.watchdog \in {deadline[c].watchdog, "ended"}
        BY <2>1, <4>1 DEF DeadlineType
      <4>. QED BY <4>2, <4>3, <4>4
    <3>. QED BY <3>1, <3>2, <3>3
  <2>. QED BY <2>1, <2>2
<1>3. WatchdogOutlived'
  BY <1>2 DEF TimeInv, WatchdogOutlived
<1>4. CASE UNCHANGED call
  BY <1>1, <1>2, <1>3, <1>4, RestTyped DEF TimeInv, Typed, Waited
<1>5. CASE Finish(c)
  <2>1. MovesOn(c, "join", {call[c].result}) /\ call[c].at = "reap"
    BY <1>5, GoesMoves DEF Finish, TimeInv, Places
  <2>2. call[c].result # "unavailable"
    BY <2>1 DEF TimeInv, Waited
  <2>3. Waited'
    BY <1>1, <1>2, <2>1, <2>2 DEF TimeInv, Typed, Waited, MovesOn, Others
  <2>. QED BY <1>1, <1>2, <1>3, <2>1, <2>3, RestTyped DEF TimeInv, Typed, MovesOn
<1>. QED BY <1>4, <1>5 DEF WatchdogEnds, WatchdogCancels

\* The cancellable is unreferenced only when its watchdog is over.
LEMMA UnrefOutlived ==
    ASSUME TimeInv, NEW c \in Callers, deadline[c].watchdog = "ended", Unref(c)
    PROVE  /\ WatchdogOutlived' /\ deadline' \in [Callers -> DeadlineType]
           /\ \A d \in Callers \ {c} : deadline'[d] = deadline[d]
<1>1. deadline \in [Callers -> DeadlineType]
  BY DEF TimeInv, Typed
<1>2. PICK b : b = [Destroyed EXCEPT !.watchdog = deadline[c].watchdog]
  OBVIOUS
<1>3. b \in DeadlineType /\ b.watchdog = "ended"
  BY <1>2, RecordTypes DEF DeadlineType
<1>4. deadline' = [deadline EXCEPT ![c] = b]
  BY <1>2 DEF Unref
<1>. QED BY <1>1, <1>3, <1>4 DEF TimeInv, WatchdogOutlived

\* ~Deadline returns: the probe unlocks and its caller goes on to its own request, or gives up; a
\* request is over.
LEMMA JoinTime ==
    ASSUME TimeInv, NEW c \in Callers, Join(c)
    PROVE  TimeInv'
<1>1. /\ call[c].at = "join" /\ deadline[c].watchdog = "ended"
      /\ UNCHANGED <<platform, reachable, calls, store, written>>
      /\ call[c].result # "unavailable" /\ call[c].spent \in Nat /\ Timeout \in Nat /\ c # NoOne
  BY KeychainAssumption DEF Join, TimeInv, Typed, CallType, Waited
<1>2. CASE lock # c
  <2>1. MovesOn(c, "idle", {call[c].result}) /\ Unref(c) /\ UNCHANGED <<probe, lock>>
    BY <1>2, GoesMoves DEF Join, Joined, TimeInv, Places
  <2>2. /\ WatchdogOutlived' /\ deadline' \in [Callers -> DeadlineType]
        /\ \A d \in Callers \ {c} : deadline'[d] = deadline[d]
    BY <1>1, <2>1, UnrefOutlived
  <2>3. Typed'
    BY <1>1, <2>1, <2>2, RestTyped DEF TimeInv, Typed, MovesOn
  <2>4. Waited'
    BY <1>1, <1>2, <2>1, <2>2 DEF TimeInv, Typed, Waited, MovesOn, Others
  <2>. QED BY <2>2, <2>3, <2>4 DEF TimeInv
<1>3. CASE lock = c
  <2>1. /\ lock' = NoOne /\ probe.probed /\ UNCHANGED probe /\ call[c].spent <= Timeout
        /\ ProbeFailed(c) \/ Asks(c, "ask")
    BY <1>1, <1>3 DEF Join, Joined, ProbeFailed, TimeInv, Waited
  <2>2. ASSUME NEW d \in Callers \ {c}
        PROVE  /\ call[d].at # "probing" /\ lock' # d
               /\ call[d].at = "lock" => call[d].spent <= Timeout
               /\ call[d].at = "ask" /\ platform = "linux" =>
                     call[d].spent + deadline[d].left <= 2 * Timeout
               /\ call[d].spent <= 2 * Timeout
               /\ call[d].result = "unavailable" => call[d].at = "idle" /\ call[d].spent <= Timeout
    BY <1>3, <2>1, KeychainAssumption DEF TimeInv, Waited
  <2>3. call[c].spent + Timeout <= 2 * Timeout /\ call[c].spent <= 2 * Timeout
    BY <1>1, <2>1
  <2>4. CASE ProbeFailed(c)
    <3>1. MovesOn(c, "idle", {"unavailable"}) /\ Unref(c)
      BY <2>4, ResultMoves DEF ProbeFailed, TimeInv, Places, Outcomes
    <3>2. /\ WatchdogOutlived' /\ deadline' \in [Callers -> DeadlineType]
          /\ \A d \in Callers \ {c} : deadline'[d] = deadline[d]
      BY <1>1, <3>1, UnrefOutlived
    <3>3. Typed'
      BY <1>1, <2>1, <3>1, <3>2, RestTyped DEF TimeInv, Typed, MovesOn
    <3>4. Waited'
      BY <1>1, <2>1, <2>2, <2>3, <3>1, <3>2 DEF Waited, MovesOn, Others
    <3>. QED BY <3>2, <3>3, <3>4 DEF TimeInv
  <2>5. CASE Asks(c, "ask")
    <3>1. /\ MovesOn(c, "ask", {call[c].result})
          /\ deadline' \in [Callers -> DeadlineType] /\ deadline'[c] = Armed
          /\ \A d \in Callers \ {c} : deadline'[d] = deadline[d]
      BY <2>5, AsksMoves DEF TimeInv, Places
    <3>2. deadline'[c].left = Timeout /\ deadline'[c].live
      BY <3>1, RecordTypes
    <3>3. Typed'
      BY <1>1, <2>1, <3>1, RestTyped DEF TimeInv, Typed, MovesOn
    <3>4. Waited'
      BY <1>1, <2>1, <2>2, <2>3, <3>1, <3>2 DEF Waited, MovesOn, Others
    <3>5. WatchdogOutlived'
      BY <3>1, <3>2 DEF TimeInv, WatchdogOutlived
    <3>. QED BY <3>3, <3>4, <3>5 DEF TimeInv
  <2>. QED BY <2>1, <2>4, <2>5
<1>. QED BY <1>2, <1>3

\* A second passes for everybody who waits: for the probe, whose caller's deadline comes closer, or
\* for an answer.
LEMMA TickTime == TimeInv /\ Tick => TimeInv'
<1>. SUFFICES ASSUME TimeInv, Tick PROVE TimeInv'
  OBVIOUS
<1>1. /\ UNCHANGED <<platform, reachable, calls, store, probe, lock, written>> /\ platform = "linux"
      /\ \A c \in Callers : Waits(c)
      /\ call \in [Callers -> CallType] /\ deadline \in [Callers -> DeadlineType] /\ Timeout \in Nat
  BY KeychainAssumption DEF Tick, TimeInv, Typed
<1>2. \A c \in Callers :
         /\ call'[c].at = call[c].at /\ call'[c].result = call[c].result
         /\ call[c].spent \in Nat
         /\ call'[c].spent = IF call[c].at = "idle" THEN call[c].spent ELSE call[c].spent + 1
  BY <1>1 DEF Tick, CallType
<1>3. \A c \in Callers :
         /\ deadline'[c].watchdog = deadline[c].watchdog /\ deadline'[c].live = deadline[c].live
         /\ deadline[c].left \in Nat
         /\ deadline'[c].left = IF call[c].at \in {"probing", "ask"} THEN deadline[c].left - 1
                                                                   ELSE deadline[c].left
  BY <1>1 DEF Tick, DeadlineType
<1>4. \A c \in Callers : call[c].at \in {"probing", "ask"} => deadline[c].left > 0
  BY <1>1 DEF Waits
<1>5. call' \in [Callers -> CallType]
  <2>1. \A c \in Callers : call[c] \in CallType /\ [call[c] EXCEPT !.spent = call[c].spent + 1] \in CallType
    BY <1>1 DEF CallType
  <2>. QED BY <2>1 DEF Tick
<1>6. deadline' \in [Callers -> DeadlineType]
  <2>1. \A c \in Callers : /\ deadline[c] \in DeadlineType
                           /\ call[c].at \in {"probing", "ask"} =>
                                 [deadline[c] EXCEPT !.left = deadline[c].left - 1] \in DeadlineType
    BY <1>1, <1>4 DEF DeadlineType
  <2>. QED BY <2>1 DEF Tick
<1>7. Typed'
  BY <1>1, <1>5, <1>6, RestTyped DEF TimeInv, Typed
<1>8. WatchdogOutlived'
  BY <1>3 DEF TimeInv, WatchdogOutlived
<1>9. Waited'
  <2>1. \A c \in Callers : call[c].at \in {"idle", "lock", "probing", "ask"}
                          /\ (call[c].at = "lock" => lock # NoOne)
    BY <1>1 DEF Waits
  <2>2. lock # NoOne =>
           /\ lock \in Callers /\ call[lock].at = "probing"
           /\ call'[lock].spent = call[lock].spent + 1 /\ call'[lock].spent <= Timeout
    <3>1. lock # NoOne => lock \in Callers /\ call[lock].at = "probing"
      BY <2>1 DEF TimeInv, Typed, Waited
    <3>2. lock # NoOne => call[lock].spent + deadline[lock].left <= Timeout
      BY <3>1 DEF TimeInv, Waited
    <3>. QED BY <1>1, <1>2, <1>3, <1>4, <3>1, <3>2
  <2>3. ASSUME NEW c \in Callers, call[c].at = "lock"
        PROVE  lock # NoOne /\ call'[c].spent <= call'[lock].spent /\ call'[c].spent <= Timeout
               /\ call'[c].spent <= 2 * Timeout
    <3>1. lock # NoOne /\ lock \in Callers /\ call[c].spent <= call[lock].spent
      BY <2>1, <2>2, <2>3 DEF TimeInv, Waited
    <3>2. call'[c].spent = call[c].spent + 1 /\ call[c].spent \in Nat /\ call[lock].spent \in Nat
      BY <1>2, <2>3, <3>1
    <3>. QED BY <1>1, <2>2, <3>1, <3>2
  <2>4. ASSUME NEW c \in Callers, call[c].at = "probing"
        PROVE  /\ lock = c /\ call'[c].spent + deadline'[c].left <= Timeout /\ call'[c].spent <= Timeout
               /\ call'[c].spent <= 2 * Timeout
    <3>1. lock = c /\ call[c].spent + deadline[c].left <= Timeout
      BY <2>4 DEF TimeInv, Waited
    <3>. QED BY <1>1, <1>2, <1>3, <1>4, <2>4, <3>1
  <2>5. ASSUME NEW c \in Callers, call[c].at = "ask"
        PROVE  /\ lock # c /\ call'[c].spent + deadline'[c].left <= 2 * Timeout
               /\ call'[c].spent <= 2 * Timeout
    <3>1. lock # c /\ call[c].spent + deadline[c].left <= 2 * Timeout
      BY <1>1, <2>5 DEF TimeInv, Waited
    <3>. QED BY <1>1, <1>2, <1>3, <1>4, <2>5, <3>1
  <2>6. ASSUME NEW c \in Callers, call[c].at = "idle"
        PROVE  /\ lock # c /\ call'[c].spent <= 2 * Timeout
               /\ call'[c].result = "unavailable" => call'[c].spent <= Timeout
    BY <1>2, <2>6 DEF TimeInv, Waited
  <2>7. \A c \in Callers : call'[c].result = "unavailable" => call'[c].at = "idle"
    BY <1>2 DEF TimeInv, Waited
  <2>8. probe.probed \/ (lock = NoOne /\ \A c \in Callers : call'[c].at # "lock")
    BY <1>2, <2>1 DEF TimeInv, Waited
  <2>. QED BY <1>1, <1>2, <2>1, <2>2, <2>3, <2>4, <2>5, <2>6, <2>7, <2>8 DEF Waited
<1>. QED BY <1>7, <1>8, <1>9 DEF TimeInv

\* The program starts with nobody asking.
LEMMA InitTime == Init => TimeInv
<1>. SUFFICES ASSUME Init PROVE TimeInv
  OBVIOUS
<1>1. /\ call = [c \in Callers |-> Idle] /\ deadline = [c \in Callers |-> Destroyed]
      /\ lock = NoOne /\ calls = 0 /\ probe = [probed |-> FALSE, available |-> FALSE]
      /\ platform \in {"macos", "windows", "linux"} /\ reachable \in BOOLEAN
  BY DEF Init
<1>2. \A c \in Callers : call[c] = Idle /\ deadline[c] = Destroyed
  BY <1>1
<1>3. Typed
  <2>1. store \in [{Key(n) : n \in Names} -> Contents] /\ written \in [Names -> Contents]
    BY DEF Init, Key, Contents
  <2>2. call \in [Callers -> CallType] /\ deadline \in [Callers -> DeadlineType]
    BY <1>1, RecordTypes
  <2>. QED BY <1>1, <2>1, <2>2 DEF Typed
<1>4. \A c \in Callers : /\ call[c].at = "idle" /\ call[c].spent = 0 /\ call[c].result = "none"
                         /\ deadline[c].watchdog = "ended"
  BY <1>2, RecordTypes
<1>5. Waited
  BY <1>1, <1>4, KeychainAssumption DEF Waited
<1>6. WatchdogOutlived
  BY <1>4 DEF WatchdogOutlived
<1>. QED BY <1>3, <1>5, <1>6 DEF TimeInv

\* Every step of every caller keeps them all to their time.
LEMMA NextTime == TimeInv /\ [Next]_vars => TimeInv'
<1>. SUFFICES ASSUME TimeInv, [Next]_vars PROVE TimeInv'
  OBVIOUS
<1>1. CASE UNCHANGED vars
  BY <1>1 DEF vars, TimeInv, Typed, Waited, WatchdogOutlived, Key, KeyOn, Names
<1>2. CASE \E c \in Callers : Enter(c) \/ Progress(c) \/ Outside(c)
  BY <1>2, EnterTime, AvailableTime, AnswerTime, DeadlineTime, JoinTime, SystemTime
     DEF Progress, Outside
<1>. QED BY <1>1, <1>2, TickTime DEF Next, Finished

\* ~Deadline joins its watchdog before it lets go of the cancellable, so that g_cancellable_cancel
\* never runs on one that is gone, whatever the moment the answer and the deadline come.
THEOREM CancellableOutlives == Spec => []WatchdogOutlived
<1>1. TimeInv => WatchdogOutlived
  BY DEF TimeInv
<1>. QED BY <1>1, InitTime, NextTime, PTL DEF Spec

\* However many callers queue for the one probe and whatever the Secret Service does, a call takes
\* two deadlines at most, and one at most to learn that there is no store.
THEOREM QueueCostsOneDeadline == Spec => []TwoDeadlinesAtMost
<1>1. TimeInv => TwoDeadlinesAtMost
  BY DEF TimeInv, Waited, TwoDeadlinesAtMost
<1>. QED BY <1>1, InitTime, NextTime, PTL DEF Spec

-----------------------------------------------------------------------------
(* Entries, and what a call reports *)

\* The C interfaces cut names at a NUL, which the checks of names let through: what follows is
\* about names without one (the run Keychain_nul shows a collision of two names with one).
NulFree == \A r \in Requests : ~Has(r.service, Nul) /\ ~Has(r.account, Nul)

\* On Windows no two names that requests use differ in case only.
CaseApart ==
    \A m, n \in Names :
        Folded(m.service) = Folded(n.service) /\ Folded(m.account) = Folded(n.account) => m = n
Apart == platform = "windows" => CaseApart

\* Under NulFree, a name's texts have none.
LEMMA NamesNulFree ==
    NulFree => \A n \in Names : ~Has(n.service, Nul) /\ ~Has(n.account, Nul)
BY DEF NulFree, Names, NamesOf

\* The characters of texts.
Chars == STRING \union {Slash}

\* A text is one of Chars, and so is a single '/'.
LEMMA CharTexts ==
    /\ \A s \in Seq(STRING) : s \in Seq(Chars)
    /\ <<Slash>> \in Seq(Chars) /\ Len(<<Slash>>) = 1 /\ <<Slash>>[1] = Slash
<1>1. ASSUME NEW S, NEW T PROVE \A s \in Seq(S) : s \in Seq(S \union T)
  OBVIOUS
<1>2. \A s \in Seq(STRING) : s \in Seq(Chars)
  BY <1>1 DEF Chars
<1>3. ASSUME NEW S, NEW x \in S PROVE <<x>> \in Seq(S) /\ Len(<<x>>) = 1 /\ <<x>>[1] = x
  OBVIOUS
<1>4. Slash \in Chars
  BY DEF Chars
<1>. QED BY <1>2, <1>3, <1>4

\* Names are texts.
LEMMA NamesAreTexts ==
    \A n \in Names : /\ n = [service |-> n.service, account |-> n.account]
                     /\ n.service \in Seq(Chars) /\ n.account \in Seq(Chars)
BY CharTexts, KeychainAssumption DEF Names, NamesOf

\* What Windows joins, character by character.
LEMMA JoinedText ==
    ASSUME NEW x \in Seq(Chars), NEW y \in Seq(Chars), NEW w, w = (x \o <<Slash>>) \o y
    PROVE  /\ Len(x) \in Nat /\ Len(y) \in Nat /\ w \in Seq(Chars)
           /\ Len(w) = Len(x) + 1 + Len(y)
           /\ \A i \in 1 .. Len(x) : w[i] = x[i]
           /\ w[Len(x) + 1] = Slash
           /\ \A i \in 1 .. Len(y) : w[Len(x) + 1 + i] = y[i]
<1>1. PICK q \in Seq(Chars) : q = <<Slash>> /\ Len(q) = 1 /\ q[1] = Slash
  BY CharTexts
<1>2. /\ x \o q \in Seq(Chars) /\ Len(x \o q) = Len(x) + 1
      /\ \A i \in 1 .. Len(x) + 1 : (x \o q)[i] = IF i <= Len(x) THEN x[i] ELSE q[i - Len(x)]
  BY <1>1, ConcatProperties
<1>3. PICK z \in Seq(Chars) : z = x \o q
  BY <1>2
<1>4. /\ z \o y \in Seq(Chars) /\ Len(z \o y) = Len(z) + Len(y)
      /\ \A i \in 1 .. Len(z) + Len(y) : (z \o y)[i] = IF i <= Len(z) THEN z[i] ELSE y[i - Len(z)]
  BY <1>3, ConcatProperties
<1>5. Len(x) \in Nat /\ Len(y) \in Nat /\ Len(z) = Len(x) + 1
  BY <1>2, <1>3
<1>6. (\A i \in 1 .. Len(x) : z[i] = x[i]) /\ z[Len(x) + 1] = Slash
  BY <1>1, <1>2, <1>3, <1>5
<1>7. w = z \o y
  BY <1>1, <1>3
<1>8. /\ \A i \in 1 .. Len(x) + 1 : w[i] = z[i]
      /\ \A i \in 1 .. Len(y) : w[Len(x) + 1 + i] = y[i]
  BY <1>4, <1>5, <1>7
<1>. QED BY <1>4, <1>5, <1>6, <1>7, <1>8

\* The first '/' ends the service, so that both names can be read back.
LEMMA JoinedApart ==
    ASSUME NEW s \in Seq(Chars), NEW a \in Seq(Chars), NEW t \in Seq(Chars), NEW b \in Seq(Chars),
           ~Has(s, Slash), ~Has(t, Slash), (s \o <<Slash>>) \o a = (t \o <<Slash>>) \o b
    PROVE  s = t /\ a = b
<1>1. PICK w : w = (s \o <<Slash>>) \o a /\ w = (t \o <<Slash>>) \o b
  OBVIOUS
<1>2. /\ Len(w) = Len(s) + 1 + Len(a) /\ w[Len(s) + 1] = Slash
      /\ \A i \in 1 .. Len(s) : w[i] = s[i]
      /\ \A i \in 1 .. Len(a) : w[Len(s) + 1 + i] = a[i]
  <2>1. w = (s \o <<Slash>>) \o a
    BY <1>1
  <2>. QED BY ONLY <2>1, s \in Seq(Chars), a \in Seq(Chars), JoinedText
<1>3. /\ Len(w) = Len(t) + 1 + Len(b) /\ w[Len(t) + 1] = Slash
      /\ \A i \in 1 .. Len(t) : w[i] = t[i]
      /\ \A i \in 1 .. Len(b) : w[Len(t) + 1 + i] = b[i]
  <2>1. w = (t \o <<Slash>>) \o b
    BY <1>1
  <2>. QED BY ONLY <2>1, t \in Seq(Chars), b \in Seq(Chars), JoinedText
<1>4. /\ Len(s) \in Nat /\ Len(t) \in Nat /\ Len(a) \in Nat /\ Len(b) \in Nat
      /\ DOMAIN s = 1 .. Len(s) /\ DOMAIN t = 1 .. Len(t)
  OBVIOUS
<1>5. (\A i \in 1 .. Len(s) : s[i] # Slash) /\ (\A i \in 1 .. Len(t) : t[i] # Slash)
  BY <1>4 DEF Has
<1>6. Len(s) = Len(t) /\ Len(a) = Len(b)
  <2>1. ~(Len(s) + 1 \in 1 .. Len(t)) /\ ~(Len(t) + 1 \in 1 .. Len(s))
    BY <1>2, <1>3, <1>5
  <2>2. Len(s) + 1 + Len(a) = Len(t) + 1 + Len(b)
    BY <1>2, <1>3
  <2>3. ASSUME NEW i \in Nat, NEW j \in Nat, NEW k \in Nat, NEW l \in Nat,
               ~(i + 1 \in 1 .. j), ~(j + 1 \in 1 .. i), i + 1 + k = j + 1 + l
        PROVE  i = j /\ k = l
    BY <2>3
  <2>. QED BY ONLY <1>4, <2>1, <2>2, <2>3
<1>7. s = t
  BY <1>2, <1>3, <1>6, SeqEqual
<1>8. a = b
  BY <1>2, <1>3, <1>6, SeqEqual
<1>. QED BY <1>7, <1>8

\* Texts without a NUL are joined to one without.
LEMMA JoinedNulFree ==
    ASSUME NEW x \in Seq(Chars), NEW y \in Seq(Chars), ~Has(x, Nul), ~Has(y, Nul)
    PROVE  ~Has((x \o <<Slash>>) \o y, Nul)
<1>1. PICK w : w = (x \o <<Slash>>) \o y
  OBVIOUS
<1>2. /\ Len(x) \in Nat /\ Len(y) \in Nat /\ w \in Seq(Chars) /\ Len(w) = Len(x) + 1 + Len(y)
      /\ \A i \in 1 .. Len(x) : w[i] = x[i]
      /\ w[Len(x) + 1] = Slash
      /\ \A i \in 1 .. Len(y) : w[Len(x) + 1 + i] = y[i]
  <2>1. w = (x \o <<Slash>>) \o y
    BY <1>1
  <2>2. Len(x) \in Nat /\ Len(y) \in Nat
    OBVIOUS
  <2>3. w \in Seq(Chars) /\ Len(w) = Len(x) + 1 + Len(y)
    BY ONLY <2>1, x \in Seq(Chars), y \in Seq(Chars), JoinedText
  <2>4. /\ \A i \in 1 .. Len(x) : w[i] = x[i]
        /\ w[Len(x) + 1] = Slash
        /\ \A i \in 1 .. Len(y) : w[Len(x) + 1 + i] = y[i]
    BY ONLY <2>1, x \in Seq(Chars), y \in Seq(Chars), JoinedText
  <2>. QED BY <2>2, <2>3, <2>4
<1>3. (\A i \in 1 .. Len(x) : x[i] # Nul) /\ (\A i \in 1 .. Len(y) : y[i] # Nul) /\ Slash # Nul
  BY DEF Has, Slash, Nul
<1>4. \A i \in 1 .. Len(w) : w[i] # Nul
  <2>. SUFFICES ASSUME NEW i \in 1 .. Len(w) PROVE w[i] # Nul
    OBVIOUS
  <2>1. CASE i <= Len(x) \/ i = Len(x) + 1
    BY <1>2, <1>3, <2>1
  <2>2. CASE i > Len(x) + 1
    <3>1. /\ i - (Len(x) + 1) \in 1 .. Len(y)
          /\ i = Len(x) + 1 + (i - (Len(x) + 1))
      BY <1>2, <2>2
    <3>. QED BY <1>2, <1>3, <3>1
  <2>. QED BY <1>2, <2>1, <2>2
<1>. QED BY <1>1, <1>2, <1>4 DEF Has

\* What the Credential Manager makes of a text has a NUL or a '/' only where the text has one.
LEMMA FoldedText ==
    ASSUME NEW x \in Seq(Chars)
    PROVE  /\ Folded(x) \in Seq(Chars)
           /\ \A char \in {Nul, Slash} : ~Has(x, char) => ~Has(Folded(x), char)
<1>1. PICK y : y = Folded(x)
  OBVIOUS
<1>2. Len(x) \in Nat /\ DOMAIN x = 1 .. Len(x) /\ \A i \in 1 .. Len(x) : x[i] \in Chars
  OBVIOUS
<1>3. /\ DOMAIN y = 1 .. Len(x)
      /\ \A i \in 1 .. Len(x) :
            y[i] = IF x[i] \in DOMAIN Lower THEN Lower[x[i]] ELSE x[i]
      /\ y = [i \in 1 .. Len(x) |-> y[i]]
  BY <1>1, <1>2 DEF Folded
<1>4. \A upper \in DOMAIN Lower : /\ Lower[upper] \in Chars
                                 /\ Lower[upper] # Nul /\ Lower[upper] # Slash
  BY KeychainAssumption DEF Chars
<1>5. \A i \in 1 .. Len(x) : y[i] \in Chars
  BY <1>2, <1>3, <1>4
<1>6. y \in Seq(Chars)
  BY <1>2, <1>3, <1>5, SeqDef
<1>7. ASSUME NEW char \in {Nul, Slash}, ~Has(x, char) PROVE ~Has(y, char)
  BY <1>2, <1>3, <1>4, <1>7 DEF Has
<1>. QED BY <1>1, <1>6, <1>7

\* No platform reads two acceptable names as one.
LEMMA KeyTellsNamesApart ==
    ASSUME NulFree, Apart, NEW m \in Names, NEW n \in Names, NamesOk(m), NamesOk(n),
           platform \in {"macos", "windows", "linux"}, Key(m) = Key(n)
    PROVE  m = n
<1>1. /\ m = [service |-> m.service, account |-> m.account]
      /\ n = [service |-> n.service, account |-> n.account]
      /\ m.service \in Seq(Chars) /\ m.account \in Seq(Chars)
      /\ n.service \in Seq(Chars) /\ n.account \in Seq(Chars)
  BY NamesAreTexts
<1>2. ~Has(m.service, Nul) /\ ~Has(m.account, Nul) /\ ~Has(n.service, Nul) /\ ~Has(n.account, Nul)
  BY NamesNulFree
<1>3. m.service = n.service /\ m.account = n.account
  <2>1. CASE platform = "macos"
    BY <2>1 DEF Key, KeyOn
  <2>2. CASE platform = "linux"
    BY <1>2, <2>2 DEF Key, KeyOn, CString
  <2>3. CASE platform = "windows"
    <3>. DEFINE x == Folded(m.service)
                y == Folded(m.account)
                u == Folded(n.service)
                v == Folded(n.account)
    <3>1. x \in Seq(Chars) /\ y \in Seq(Chars) /\ u \in Seq(Chars) /\ v \in Seq(Chars)
      BY <1>1, FoldedText
    <3>2. ~Has(x, Nul) /\ ~Has(y, Nul) /\ ~Has(u, Nul) /\ ~Has(v, Nul)
      BY <1>1, <1>2, FoldedText
    <3>3. ~Has(x, Slash) /\ ~Has(u, Slash)
      BY <1>1, FoldedText DEF NamesOk
    <3>4. Key(m) = CString((x \o <<Slash>>) \o y) /\ Key(n) = CString((u \o <<Slash>>) \o v)
      BY <2>3 DEF Key, KeyOn
    <3>. HIDE DEF x, y, u, v
    <3>5. ~Has((x \o <<Slash>>) \o y, Nul) /\ ~Has((u \o <<Slash>>) \o v, Nul)
      BY <3>1, <3>2, JoinedNulFree
    <3>6. (x \o <<Slash>>) \o y = (u \o <<Slash>>) \o v
      BY <3>4, <3>5 DEF CString
    <3>7. x = u /\ y = v
      BY <3>1, <3>3, <3>6, JoinedApart
    <3>. QED BY <2>3, <3>7 DEF Apart, CaseApart, x, y, u, v
  <2>. QED BY <2>1, <2>2, <2>3
<1>. QED BY <1>1, <1>3

\* A call's request was accepted, what it reports is true so far, it has changed nothing before its
\* turn at the store, and it is between update and add only to store an entry on macOS, which was
\* not there, or another store has come between.
CallInv(c) ==
    /\ call[c].at # "idle" => Acceptable(call[c].req)
    /\ LoadHandsOut(c) /\ OkMeansDone(c) /\ DuplicateOnlyByRace(c)
    /\ call[c].at \in {"lock", "probing"} \/ lock = c => ~call[c].applied
    /\ call[c].at \in {"update", "add"} => call[c].req.op = "store" /\ platform = "macos"
    /\ call[c].at = "add" /\ store[Key(NameOf(c))] # NoEntry => call[c].raced

DataInv == EntryPerName /\ \A c \in Callers : CallInv(c)

Inv == TimeInv /\ DataInv /\ Apart

\* Of whoever does not move only its place, its request and what it reports matter.
LEMMA SameCall ==
    ASSUME Inv, NEW d \in Callers, UNCHANGED platform, lock' = d => lock = d,
           call'[d].at = call[d].at, call'[d].req = call[d].req, call'[d].result = call[d].result,
           call'[d].out = call[d].out, call'[d].applied = call[d].applied, call'[d].seen = call[d].seen,
           call[d].raced => call'[d].raced,
           call[d].at = "add" /\ store'[Key(NameOf(d))] # NoEntry =>
               store[Key(NameOf(d))] # NoEntry \/ call'[d].raced
    PROVE  CallInv(d)'
<1>1. CallInv(d) /\ NameOf(d)' = NameOf(d) /\ Key(NameOf(d))' = Key(NameOf(d))
  BY DEF Inv, DataInv, NameOf, NamesOf, Key
<1>2. (LoadHandsOut(d) /\ OkMeansDone(d) /\ DuplicateOnlyByRace(d))'
  BY <1>1 DEF CallInv, LoadHandsOut, OkMeansDone, DuplicateOnlyByRace
<1>3. (call[d].at # "idle" => Acceptable(call[d].req))'
  BY <1>1 DEF CallInv, Acceptable
<1>. QED BY <1>1, <1>2, <1>3 DEF CallInv

\* A step that leaves the store alone disturbs nobody else.
LEMMA QuietStep ==
    ASSUME Inv, NEW c \in Callers, Others(c), UNCHANGED <<platform, store, written>>,
           \A d \in Callers \ {c} : lock' = d => lock = d
    PROVE  EntryPerName' /\ \A d \in Callers \ {c} : CallInv(d)'
<1>1. EntryPerName'
  BY DEF Inv, DataInv, EntryPerName, Key
<1>2. ASSUME NEW d \in Callers \ {c} PROVE CallInv(d)'
  BY <1>2, SameCall DEF Others
<1>. QED BY <1>1, <1>2

\* An accepted call that puts a text under its names, or takes away what was there, reaches no
\* other entry.
LEMMA PutStep ==
    ASSUME NulFree, Inv, NEW c \in Callers, Others(c), call[c].at # "idle", UNCHANGED <<platform, lock>>,
           NEW text, store' = [store EXCEPT ![Key(NameOf(c))] = text],
           written' = [written EXCEPT ![NameOf(c)] = text],
           text # NoEntry => \A d \in Callers \ {c} :
               call[d].at = "add" /\ NameOf(d) = NameOf(c) => call'[d].raced
    PROVE  EntryPerName' /\ \A d \in Callers \ {c} : CallInv(d)'
<1>1. /\ NameOf(c) \in Names /\ NameOf(c) \in DOMAIN written /\ Key(NameOf(c)) \in DOMAIN store
      /\ platform \in {"macos", "windows", "linux"}
  BY EntryType DEF Inv, TimeInv, Typed
<1>2. NamesOk(NameOf(c)) /\ Apart
  BY DEF Inv, DataInv, CallInv, Acceptable, NameOf
<1>3. ASSUME NEW n \in Names, NamesOk(n), n # NameOf(c)
      PROVE  store'[Key(n)] = store[Key(n)] /\ written'[n] = written[n]
  <2>1. Key(n) # Key(NameOf(c))
    BY <1>1, <1>2, <1>3, KeyTellsNamesApart
  <2>2. Key(n) \in DOMAIN store /\ n \in DOMAIN written
    BY <1>3 DEF Inv, TimeInv, Typed
  <2>. QED BY <1>3, <2>1, <2>2
<1>4. store'[Key(NameOf(c))] = text /\ written'[NameOf(c)] = text
  BY <1>1
<1>5. EntryPerName'
  <2>. SUFFICES ASSUME NEW n \in Names, NamesOk(n) PROVE store'[Key(n)] = written'[n]
    BY DEF EntryPerName, Key
  <2>1. store[Key(n)] = written[n]
    BY DEF Inv, DataInv, EntryPerName
  <2>. QED BY <1>3, <1>4, <2>1
<1>6. ASSUME NEW d \in Callers \ {c} PROVE CallInv(d)'
  <2>1. call[d].at = "add" /\ store'[Key(NameOf(d))] # NoEntry =>
            store[Key(NameOf(d))] # NoEntry \/ call'[d].raced
    <3>. SUFFICES ASSUME call[d].at = "add", store'[Key(NameOf(d))] # NoEntry
                  PROVE  store[Key(NameOf(d))] # NoEntry \/ call'[d].raced
      OBVIOUS
    <3>1. CASE NameOf(d) = NameOf(c)
      BY <1>4, <1>6, <3>1
    <3>2. CASE NameOf(d) # NameOf(c)
      <4>1. NameOf(d) \in Names
        BY <1>6, EntryType DEF Inv, TimeInv
      <4>2. NamesOk(NameOf(d))
        BY <1>6 DEF Inv, DataInv, CallInv, Acceptable, NameOf
      <4>. QED BY <1>3, <3>2, <4>1, <4>2
    <3>. QED BY <3>1, <3>2
  <2>. QED BY <1>6, <2>1, SameCall DEF Others
<1>. QED BY <1>5, <1>6

\* What an accepted store keeps is the secret.
LEMMA KeptWhole ==
    ASSUME NEW r \in Requests, r.op = "store", Acceptable(r)
    PROVE  Kept(r.secret) = r.secret
BY DEF Acceptable, SecretOk, Kept, CString

\* A call that only goes on to another place.
LEMMA GoesData ==
    ASSUME Inv, NEW c \in Callers, NEW place \in Places \ {"lock", "update"}, Goes(c, place),
           call[c].at # "idle", UNCHANGED <<platform, store, written>>,
           place = "probing" \/ lock' = c => ~call[c].applied,
           place = "add" => call[c].at = "update" /\ store[Key(NameOf(c))] = NoEntry,
           \A d \in Callers \ {c} : lock' = d => lock = d
    PROVE  DataInv'
<1>1. /\ MovesOn(c, place, {call[c].result})
      /\ \A d \in Callers : /\ call'[d].applied = call[d].applied /\ call'[d].out = call[d].out
                            /\ call'[d].seen = call[d].seen /\ call'[d].raced = call[d].raced
  BY GoesMoves DEF Inv, TimeInv
<1>2. EntryPerName' /\ \A d \in Callers \ {c} : CallInv(d)'
  BY <1>1, QuietStep DEF MovesOn
<1>3. CallInv(c)'
  <2>1. CallInv(c) /\ NameOf(c)' = NameOf(c) /\ Key(NameOf(c))' = Key(NameOf(c))
    BY <1>1 DEF Inv, DataInv, NameOf, NamesOf, Key, MovesOn
  <2>2. (LoadHandsOut(c) /\ OkMeansDone(c) /\ DuplicateOnlyByRace(c))'
    BY <1>1, <2>1 DEF CallInv, LoadHandsOut, OkMeansDone, DuplicateOnlyByRace, MovesOn
  <2>3. Acceptable(call[c].req)'
    BY <1>1, <2>1 DEF CallInv, Acceptable, MovesOn
  <2>. QED BY <1>1, <2>1, <2>2, <2>3 DEF CallInv, MovesOn
<1>. QED BY <1>2, <1>3 DEF DataInv

\* A call that ends without having changed anything.
LEMMA ResultData ==
    ASSUME Inv, NEW c \in Callers, NEW place \in {"idle", "reap"},
           NEW result \in {"absent", "failed", "unavailable", "duplicate"},
           call' = [call EXCEPT ![c].at = place, ![c].result = result],
           call[c].at # "idle", UNCHANGED <<platform, store, written>>,
           lock' = c => ~call[c].applied,
           result = "unavailable" => ~call[c].applied,
           result = "duplicate" => call[c].raced,
           result = "absent" => call[c].req.op = "load" \/ (call[c].req.op = "remove" /\ platform = "linux"),
           \A d \in Callers \ {c} : lock' = d => lock = d
    PROVE  DataInv'
<1>1. /\ MovesOn(c, place, {result})
      /\ \A d \in Callers : /\ call'[d].applied = call[d].applied /\ call'[d].out = call[d].out
                            /\ call'[d].seen = call[d].seen /\ call'[d].raced = call[d].raced
  BY ResultMoves DEF Inv, TimeInv, Places, Outcomes
<1>2. EntryPerName' /\ \A d \in Callers \ {c} : CallInv(d)'
  BY <1>1, QuietStep DEF MovesOn
<1>3. CallInv(c)'
  <2>1. CallInv(c)
    BY DEF Inv, DataInv
  <2>2. (LoadHandsOut(c) /\ OkMeansDone(c) /\ DuplicateOnlyByRace(c))'
    BY <1>1, <2>1 DEF CallInv, LoadHandsOut, OkMeansDone, DuplicateOnlyByRace, MovesOn
  <2>3. Acceptable(call[c].req)'
    BY <1>1, <2>1 DEF CallInv, Acceptable, MovesOn
  <2>. QED BY <1>1, <2>1, <2>2, <2>3 DEF CallInv, MovesOn
<1>. QED BY <1>2, <1>3 DEF DataInv

\* A call that changed its entry, and says so unless it was cut off.
LEMMA PutData ==
    ASSUME NulFree, Inv, NEW c \in Callers, NEW place \in {"idle", "reap"}, NEW result \in {"done", "failed"},
           MovesOn(c, place, {result}), call'[c].applied,
           call'[c].out = call[c].out, call'[c].seen = call[c].seen,
           call[c].at # "idle", lock # c, UNCHANGED <<platform, lock>>,
           NEW text, store' = [store EXCEPT ![Key(NameOf(c))] = text],
           written' = [written EXCEPT ![NameOf(c)] = text],
           text # NoEntry => \A d \in Callers \ {c} :
               call[d].at = "add" /\ NameOf(d) = NameOf(c) => call'[d].raced
    PROVE  DataInv'
<1>1. EntryPerName' /\ \A d \in Callers \ {c} : CallInv(d)'
  BY PutStep DEF MovesOn
<1>2. CallInv(c)'
  <2>1. CallInv(c)
    BY DEF Inv, DataInv
  <2>2. (LoadHandsOut(c) /\ OkMeansDone(c) /\ DuplicateOnlyByRace(c))'
    BY <2>1 DEF CallInv, LoadHandsOut, OkMeansDone, DuplicateOnlyByRace, MovesOn
  <2>3. Acceptable(call[c].req)'
    BY <2>1 DEF CallInv, Acceptable, MovesOn
  <2>. QED BY <2>2, <2>3 DEF CallInv, MovesOn
<1>. QED BY <1>1, <1>2 DEF DataInv

\* The store serves an accepted request, or refuses it.
LEMMA ServeData ==
    ASSUME NulFree, Inv, NEW c \in Callers, NEW place \in {"idle", "reap"}, call[c].at # "idle", lock # c,
           UNCHANGED <<platform, lock>>, Serve(c, place) \/ Refuse(c, place)
    PROVE  DataInv'
<1>1. /\ CallInv(c) /\ call[c].req \in Requests /\ NameOf(c) \in Names /\ NamesOk(NameOf(c))
      /\ Typed /\ place \in Places
  BY EntryType DEF Inv, DataInv, CallInv, Acceptable, NameOf, TimeInv, Places
<1>2. CASE Refuse(c, place)
  BY <1>2, ResultData DEF Refuse
<1>3. CASE Serve(c, place) /\ call[c].req.op = "store"
  <2>1. /\ store' = [store EXCEPT ![Key(NameOf(c))] = Kept(call[c].req.secret)]
        /\ written' = [written EXCEPT ![NameOf(c)] = call[c].req.secret]
        /\ call' = [Racing(c) EXCEPT ![c].at = place, ![c].result = "done", ![c].applied = TRUE]
    BY <1>3 DEF Serve
  <2>2. Kept(call[c].req.secret) = call[c].req.secret
    BY <1>1, <1>3, KeptWhole DEF CallInv
  <2>3. /\ MovesOn(c, place, {"done"}) /\ call'[c].applied
        /\ call'[c].out = call[c].out /\ call'[c].seen = call[c].seen
        /\ \A d \in Callers \ {c} : call[d].at = "add" /\ NameOf(d) = NameOf(c) => call'[d].raced
    BY <1>1, <2>1, RacingMoves
  <2>4. PICK text : text = call[c].req.secret
    OBVIOUS
  <2>. QED BY <2>1, <2>2, <2>3, <2>4, PutData
<1>4. CASE Serve(c, place) /\ call[c].req.op = "remove"
  <2>1. /\ store' = [store EXCEPT ![Key(NameOf(c))] = NoEntry]
        /\ written' = [written EXCEPT ![NameOf(c)] = NoEntry]
        /\ call' = [call EXCEPT ![c].at = place, ![c].result = "done", ![c].applied = TRUE]
    BY <1>4 DEF Serve
  <2>2. /\ MovesOn(c, place, {"done"}) /\ call'[c].applied
        /\ call'[c].out = call[c].out /\ call'[c].seen = call[c].seen
    BY <1>1, <2>1, AppliedMoves DEF Outcomes
  <2>. QED BY <2>1, <2>2, PutData
<1>5. CASE Serve(c, place) /\ call[c].req.op = "load"
  <2>1. /\ UNCHANGED <<store, written>>
        /\ \/ call' = [call EXCEPT ![c].at = place, ![c].result = "absent"]
           \/ call' = [call EXCEPT ![c].at = place, ![c].result = "found",
                                   ![c].out = store[Key(NameOf(c))], ![c].seen = written[NameOf(c)]]
    BY <1>5 DEF Serve
  <2>2. CASE call' = [call EXCEPT ![c].at = place, ![c].result = "absent"]
    BY <1>5, <2>1, <2>2, ResultData
  <2>3. CASE call' = [call EXCEPT ![c].at = place, ![c].result = "found",
                                  ![c].out = store[Key(NameOf(c))], ![c].seen = written[NameOf(c)]]
    <3>1. /\ MovesOn(c, place, {"found"}) /\ call'[c].out = store[Key(NameOf(c))]
          /\ call'[c].seen = written[NameOf(c)] /\ call'[c].applied = call[c].applied
      <4>1. PICK entry \in Contents, was \in Contents :
                entry = store[Key(NameOf(c))] /\ was = written[NameOf(c)]
        BY <1>1, EntryType
      <4>2. call' = [call EXCEPT ![c].at = place, ![c].result = "found", ![c].out = entry, ![c].seen = was]
        BY <2>3, <4>1
      <4>3. /\ MovesOn(c, place, {"found"}) /\ call'[c].out = entry /\ call'[c].seen = was
            /\ \A d \in Callers : call'[d].applied = call[d].applied /\ call'[d].raced = call[d].raced
        <5>1. Typed /\ c \in Callers /\ place \in Places /\ entry \in Contents /\ was \in Contents
          BY <1>1, <4>1
        <5>. QED BY ONLY <4>2, <5>1, FoundMoves
      <4>. QED BY <4>1, <4>3
    <3>2. call'[c].out = call'[c].seen
      BY <1>1, <3>1 DEF Inv, DataInv, EntryPerName
    <3>3. EntryPerName' /\ \A d \in Callers \ {c} : CallInv(d)'
      BY <2>1, <3>1, QuietStep DEF MovesOn
    <3>4. (LoadHandsOut(c) /\ OkMeansDone(c) /\ DuplicateOnlyByRace(c))'
      BY <3>1, <3>2 DEF LoadHandsOut, OkMeansDone, DuplicateOnlyByRace, MovesOn
    <3>5. Acceptable(call[c].req)'
      BY <1>1, <3>1 DEF CallInv, Acceptable, MovesOn
    <3>6. CallInv(c)'
      BY <3>1, <3>4, <3>5 DEF CallInv, MovesOn
    <3>. QED BY <3>3, <3>6 DEF DataInv
  <2>. QED BY <2>1, <2>2, <2>3
<1>. QED BY <1>2, <1>3, <1>4, <1>5 DEF Serve

\* A new call has an accepted request, or is over; a load forgets what its caller held.
LEMMA EnterData ==
    ASSUME Inv, NEW c \in Callers, Enter(c)
    PROVE  DataInv'
<1>1. PICK r \in Requests : EnterRefused(c, r) \/ EnterLinux(c, r) \/ EnterMacStore(c, r) \/ EnterDirect(c, r)
  BY DEF Enter
<1>2. PICK place \in {"idle", "lock", "update", "ask"}, result \in {"none", "refused", "unavailable"} :
          /\ Entered(c, r, place, result)
          /\ place # "idle" => Acceptable(r)
          /\ place = "update" => r.op = "store" /\ platform = "macos"
  BY <1>1 DEF EnterRefused, EnterLinux, EnterMacStore, EnterDirect
<1>3. /\ UNCHANGED <<platform, reachable, store, probe, lock, deadline, written>>
      /\ call[c].at = "idle" /\ call \in [Callers -> CallType] /\ lock # c
  BY <1>1 DEF EnterRefused, EnterLinux, EnterMacStore, EnterDirect, MayEnter, Inv, TimeInv, Typed, Waited
<1>4. PICK new \in CallType : /\ new = Idle /\ new.applied = FALSE /\ new.seen = <<>>
  BY RecordTypes
<1>5. PICK wiped : wiped = Wiped(c, r)
  OBVIOUS
<1>6. PICK fresh : fresh = [new EXCEPT !.at = place, !.req = r, !.result = result, !.out = wiped]
  OBVIOUS
<1>7. /\ fresh.at = place /\ fresh.req = r /\ fresh.result = result /\ fresh.out = wiped
      /\ fresh.applied = FALSE /\ fresh.seen = <<>>
  BY <1>4, <1>6 DEF CallType
<1>8. call' = [call EXCEPT ![c] = fresh]
  BY <1>2, <1>4, <1>5, <1>6 DEF Entered
<1>9. call'[c] = fresh /\ \A d \in Callers \ {c} : call'[d] = call[d]
  BY <1>3, <1>8
<1>10. EntryPerName' /\ \A d \in Callers \ {c} : CallInv(d)'
  BY <1>3, <1>9, QuietStep DEF Others
<1>11. CallInv(c)'
  <2>1. LoadHandsOut(c)'
    BY <1>5, <1>7, <1>9 DEF LoadHandsOut, Wiped
  <2>2. (OkMeansDone(c) /\ DuplicateOnlyByRace(c))'
    BY <1>7, <1>9 DEF OkMeansDone, DuplicateOnlyByRace
  <2>3. (call[c].at # "idle" => Acceptable(call[c].req))'
    BY <1>2, <1>3, <1>7, <1>9 DEF Acceptable
  <2>. QED BY <1>2, <1>3, <1>7, <1>9, <2>1, <2>2, <2>3 DEF CallInv
<1>. QED BY <1>10, <1>11 DEF DataInv

\* macOS and Windows.
LEMMA SystemData ==
    ASSUME NulFree, Inv, NEW c \in Callers, SecItemUpdate(c) \/ SecItemAdd(c) \/ SystemCall(c)
    PROVE  DataInv'
<1>1. /\ UNCHANGED <<platform, reachable, calls, probe, lock, deadline>>
      /\ call[c].at \in {"update", "add", "ask"} /\ lock # c /\ CallInv(c)
      /\ \A d \in Callers \ {c} : lock' = d => lock = d
  BY DEF SecItemUpdate, SecItemAdd, SystemCall, Inv, TimeInv, Waited, DataInv
<1>2. CASE Serve(c, "idle") \/ Refuse(c, "idle")
  BY <1>1, <1>2, ServeData
<1>3. CASE SecItemUpdate(c) /\ Goes(c, "add") /\ UNCHANGED <<store, written>>
           /\ store[Key(NameOf(c))] = NoEntry
  BY <1>1, <1>3, GoesData DEF Places, SecItemUpdate
<1>4. CASE /\ SecItemAdd(c) /\ UNCHANGED <<store, written>> /\ store[Key(NameOf(c))] # NoEntry
           /\ call' = [call EXCEPT ![c].at = "idle", ![c].result = "duplicate"]
  <2>1. call[c].raced
    BY <1>1, <1>4 DEF SecItemAdd, CallInv
  <2>. QED BY <1>1, <1>4, <2>1, ResultData
<1>. QED BY <1>2, <1>3, <1>4 DEF SecItemUpdate, SecItemAdd, SystemCall

\* The Linux steps: the probe, the answers, what is cut off, and the destructor.
LEMMA LinuxData ==
    ASSUME NulFree, Inv, NEW c \in Callers,
           \/ KeychainAvailable(c) \/ ProbeAnswered(c) \/ Answered(c) \/ CancelledReturn(c)
           \/ Finish(c) \/ Join(c)
    PROVE  DataInv'
<1>1. /\ CallInv(c) /\ UNCHANGED platform /\ NoOne \notin Callers
      /\ call[c].at = "ask" => lock # c
      /\ call[c].at = "probing" => lock = c
  BY KeychainAssumption DEF KeychainAvailable, ProbeAnswered, Answered, CancelledReturn, Finish, Join, Inv, TimeInv,
         Waited, DataInv
<1>2. CASE KeychainAvailable(c)
  <2>1. /\ call[c].at = "lock" /\ ~call[c].applied /\ UNCHANGED <<store, written>>
        /\ \A d \in Callers \ {c} : lock' = d => lock = d
    BY <1>1, <1>2 DEF KeychainAvailable, CallInv
  <2>2. CASE \E place \in {"ask", "probing"} : Goes(c, place)
    BY <1>1, <2>1, <2>2, GoesData DEF Places
  <2>3. CASE Unavailable(c)
    BY <1>1, <2>1, <2>3, ResultData DEF Unavailable
  <2>. QED BY <1>2, <2>2, <2>3 DEF KeychainAvailable, Asks
<1>3. CASE ProbeAnswered(c) \/ Finish(c)
  BY <1>1, <1>3, GoesData DEF ProbeAnswered, Finish, Places, CallInv
<1>4. CASE Answered(c)
  <2>1. /\ call[c].at = "ask" /\ UNCHANGED lock /\ lock # c
        /\ \A d \in Callers \ {c} : lock' = d => lock = d
    BY <1>1, <1>4 DEF Answered
  <2>2. CASE Serve(c, "reap") \/ Refuse(c, "reap")
    BY <1>1, <2>1, <2>2, ServeData
  <2>3. CASE /\ call[c].req.op \in {"load", "remove"}
             /\ call' = [call EXCEPT ![c].at = "reap", ![c].result = "absent"]
             /\ UNCHANGED <<store, written>>
    BY <1>1, <1>4, <2>1, <2>3, ResultData DEF Answered
  <2>. QED BY <1>4, <2>2, <2>3 DEF Answered
<1>5. CASE CancelledReturn(c)
  <2>1. /\ call[c].at \in {"ask", "probing"} /\ UNCHANGED lock
        /\ \A d \in Callers \ {c} : lock' = d => lock = d
    BY <1>5 DEF CancelledReturn
  <2>2. CASE call[c].at = "probing" /\ Goes(c, "reap") /\ UNCHANGED <<store, written>>
    BY <1>1, <2>1, <2>2, GoesData DEF Places, CallInv
  <2>3. CASE call[c].at = "ask" /\ Refuse(c, "reap")
    BY <1>1, <2>1, <2>3, ServeData
  <2>4. CASE /\ platform = "linux" /\ call[c].at = "ask"
             /\ store' = [store EXCEPT ![Key(NameOf(c))] =
                            IF call[c].req.op = "store" THEN Kept(call[c].req.secret) ELSE NoEntry]
             /\ written' = [written EXCEPT ![NameOf(c)] =
                            IF call[c].req.op = "store" THEN call[c].req.secret ELSE NoEntry]
             /\ call' = [call EXCEPT ![c].at = "reap", ![c].result = "failed", ![c].applied = TRUE]
    <3>1. call[c].req.op = "store" => Kept(call[c].req.secret) = call[c].req.secret
      <4>1. call[c].req \in Requests /\ Acceptable(call[c].req)
        BY <1>1, <2>4, EntryType DEF Inv, TimeInv, CallInv
      <4>. QED BY <4>1, KeptWhole
    <3>2. PICK text : text = IF call[c].req.op = "store" THEN call[c].req.secret ELSE NoEntry
      OBVIOUS
    <3>3. /\ store' = [store EXCEPT ![Key(NameOf(c))] = text]
          /\ written' = [written EXCEPT ![NameOf(c)] = text]
      BY <2>4, <3>1, <3>2
    <3>4. /\ MovesOn(c, "reap", {"failed"}) /\ call'[c].applied
          /\ call'[c].out = call[c].out /\ call'[c].seen = call[c].seen
      BY <2>4, AppliedMoves DEF Inv, TimeInv, Places, Outcomes
    <3>5. \A d \in Callers \ {c} : call[d].at # "add"
      BY <2>4 DEF Inv, DataInv, CallInv
    <3>6. lock # c /\ call[c].at # "idle" /\ UNCHANGED <<platform, lock>>
      BY <1>1, <2>1, <2>4
    <3>. QED BY <3>3, <3>4, <3>5, <3>6, PutData
  <2>. QED BY <1>5, <2>2, <2>3, <2>4 DEF CancelledReturn
<1>6. CASE Join(c)
  <2>1. call[c].at = "join" /\ UNCHANGED <<store, written>>
    BY <1>6 DEF Join
  <2>2. CASE lock = c
    <3>1. ~call[c].applied /\ lock' = NoOne
      BY <1>1, <1>6, <2>2 DEF Join, Joined, CallInv
    <3>2. \A d \in Callers : lock' # d
      BY <1>1, <3>1
    <3>3. CASE Goes(c, "ask")
      BY <1>1, <2>1, <3>2, <3>3, GoesData DEF Places
    <3>4. CASE ProbeFailed(c)
      BY <1>1, <2>1, <3>1, <3>2, <3>4, ResultData DEF ProbeFailed
    <3>. QED BY <1>6, <2>2, <3>3, <3>4 DEF Join, Joined, Asks
  <2>3. CASE lock # c
    <3>1. Goes(c, "idle") /\ UNCHANGED lock
      BY <1>6, <2>3 DEF Join, Joined
    <3>. QED BY <1>1, <2>1, <2>3, <3>1, GoesData DEF Places
  <2>. QED BY <2>2, <2>3
<1>. QED BY <1>2, <1>3, <1>4, <1>5, <1>6

\* Watchdogs and time touch no entry and no report.
LEMMA OtherData ==
    ASSUME Inv, (\E c \in Callers : WatchdogEnds(c) \/ WatchdogCancels(c)) \/ Tick \/ UNCHANGED vars
    PROVE  DataInv'
<1>1. UNCHANGED <<platform, store, lock, written>>
  BY DEF WatchdogEnds, WatchdogCancels, Tick, vars
<1>2. \A d \in Callers :
         /\ call'[d].at = call[d].at /\ call'[d].req = call[d].req /\ call'[d].result = call[d].result
         /\ call'[d].out = call[d].out /\ call'[d].applied = call[d].applied
         /\ call'[d].seen = call[d].seen /\ (call[d].raced => call'[d].raced)
  <2>1. CASE UNCHANGED call
    BY <2>1
  <2>2. CASE Tick
    <3>1. \A d \in Callers : /\ call[d] \in CallType
                             /\ \/ call'[d] = call[d]
                                \/ call'[d] = [call[d] EXCEPT !.spent = call[d].spent + 1]
      BY <2>2 DEF Tick, Inv, TimeInv, Typed
    <3>. QED BY <3>1 DEF CallType
  <2>. QED BY <2>1, <2>2 DEF WatchdogEnds, WatchdogCancels, vars
<1>3. ASSUME NEW d \in Callers PROVE CallInv(d)'
  <2>1. call[d].at = "add" /\ store'[Key(NameOf(d))] # NoEntry => store[Key(NameOf(d))] # NoEntry
    BY <1>1
  <2>. QED BY <1>1, <1>2, <2>1, SameCall
<1>4. EntryPerName'
  BY <1>1 DEF Inv, DataInv, EntryPerName, Key
<1>. QED BY <1>3, <1>4 DEF DataInv

\* An empty store, and nobody asking.
LEMMA InitData == Init => DataInv
<1>. SUFFICES ASSUME Init PROVE DataInv
  OBVIOUS
<1>1. EntryPerName
  BY DEF Init, EntryPerName, Key
<1>2. lock = NoOne /\ \A c \in Callers : call[c] = Idle /\ c # NoOne
  BY KeychainAssumption DEF Init
<1>3. ASSUME NEW c \in Callers PROVE CallInv(c)
  <2>1. LoadHandsOut(c) /\ OkMeansDone(c) /\ DuplicateOnlyByRace(c)
    BY <1>2, <1>3, RecordTypes DEF LoadHandsOut, OkMeansDone, DuplicateOnlyByRace
  <2>2. call[c].at = "idle" /\ lock # c
    BY <1>2, <1>3, RecordTypes
  <2>. QED BY <2>1, <2>2 DEF CallInv
<1>. QED BY <1>1, <1>3 DEF DataInv

\* Every step keeps entries and reports true.
LEMMA NextData ==
    ASSUME NulFree, Inv, [Next]_vars
    PROVE  DataInv'
<1>1. CASE \E c \in Callers : Enter(c) \/ Progress(c) \/ Outside(c)
  BY <1>1, EnterData, SystemData, LinuxData, OtherData DEF Progress, Outside
<1>. QED BY <1>1, OtherData DEF Next, Finished

\* Every step keeps the names apart and all the rest.
LEMMA InvKept == NulFree /\ Inv /\ [Next]_vars => Inv'
<1>. SUFFICES ASSUME NulFree, Inv, [Next]_vars PROVE Inv'
  OBVIOUS
<1>1. UNCHANGED platform
  BY DEF Next, vars, Enter, EnterRefused, EnterLinux, EnterMacStore, EnterDirect, Progress,
         KeychainAvailable, CancelledReturn, Finish, Join, WatchdogEnds, WatchdogCancels, Outside,
         SecItemUpdate, SecItemAdd, SystemCall, ProbeAnswered, Answered, Tick, Finished
<1>2. TimeInv' /\ DataInv'
  BY NextTime, NextData DEF Inv
<1>3. Apart'
  BY <1>1 DEF Inv, Apart, CaseApart, Names
<1>. QED BY <1>2, <1>3 DEF Inv

\* On macOS and Linux whatever names without a NUL are used, and on Windows when no two of them
\* differ in case only: each (service, account) has an entry of its own that holds exactly what
\* was last put there, whoever stores, replaces and removes at once and whatever is cut off
\* half-way (KeychainStore, KeychainRemove).
THEOREM EveryNameItsEntry ==
    ASSUME NulFree
    PROVE  Spec /\ Apart => []EntryPerName
<1>1. Init /\ Apart => Inv
  BY InitTime, InitData DEF Inv
<1>2. Inv /\ [Next]_vars => Inv'
  BY InvKept
<1>3. Inv => EntryPerName
  BY DEF Inv, DataInv
<1>. QED BY <1>1, <1>2, <1>3, PTL DEF Spec

\* What a call that returned told its caller is what happened to the entry: the secret of a load,
\* the ok of a store or of a remove that raced with its watchdog - save the ok of a remove from a
\* locked Secret Service collection - and a duplicate item (KeychainStore, KeychainLoad,
\* KeychainRemove).
THEOREM ReportsStandUp ==
    ASSUME NulFree
    PROVE  Spec /\ Apart => []ReportIsTrue
<1>1. Init /\ Apart => Inv
  BY InitTime, InitData DEF Inv
<1>2. Inv /\ [Next]_vars => Inv'
  BY InvKept
<1>3. Inv => ReportIsTrue
  BY DEF Inv, DataInv, CallInv, ReportIsTrue
<1>. QED BY <1>1, <1>2, <1>3, PTL DEF Spec

=============================================================================
