------------------------ MODULE GaugeRegistryProofs ------------------------
(***************************************************************************)
(* Theorems about GaugeRegistry: any owners, names and scrapers, any       *)
(* number of gauges and snapshots, either registry.                        *)
(***************************************************************************)
EXTENDS GaugeRegistry, Induction, SequenceTheorems, TLAPS

Gauge == [name : Names, owner : Owners]

-----------------------------------------------------------------------------
(* Remove's loop *)

\* k[i] is what the loop leaves of the first i gauges.
KeptAt(k, list, n, i) ==
    k[i] = IF i = 0 THEN <<>> ELSE IF list[i].name = n THEN k[i - 1] ELSE Append(k[i - 1], list[i])

\* The loop can be run: there is such a function.
LEMMA LoopRuns ==
    ASSUME NEW list \in Seq(Gauge), NEW n
    PROVE  \E k \in [0 .. Len(list) -> Seq(Gauge)] : \A i \in 0 .. Len(list) : KeptAt(k, list, n, i)
<1>1. PICK S : S = {m \in Nat : m > Len(list) \/ \E k \in [0 .. m -> Seq(Gauge)] : \A i \in 0 .. m : KeptAt(k, list, n, i)}
  OBVIOUS
<1>2. 0 \in S
  <2>1. PICK k : k = [i \in 0 .. 0 |-> <<>>]
    OBVIOUS
  <2>2. k \in [0 .. 0 -> Seq(Gauge)] /\ \A i \in 0 .. 0 : KeptAt(k, list, n, i)
    BY <2>1 DEF KeptAt
  <2>. QED BY <1>1, <2>2
<1>3. ASSUME NEW m \in Nat, m \in S
      PROVE  m + 1 \in S
  <2>1. CASE m + 1 > Len(list)
    BY <1>1, <2>1
  <2>2. CASE m + 1 <= Len(list)
    <3>1. Len(list) \in Nat /\ m + 1 \in 1 .. Len(list) /\ list[m + 1] \in Gauge
      BY <2>2
    <3>2. PICK k \in [0 .. m -> Seq(Gauge)] : \A i \in 0 .. m : KeptAt(k, list, n, i)
      <4>1. ~(m > Len(list))
        BY <2>2, <3>1
      <4>. QED BY <1>1, <1>3, <4>1
    <3>3. PICK last : last = IF list[m + 1].name = n THEN k[m] ELSE Append(k[m], list[m + 1])
      OBVIOUS
    <3>4. last \in Seq(Gauge)
      BY <3>1, <3>2, <3>3
    <3>5. PICK l : l = [i \in 0 .. m + 1 |-> IF i <= m THEN k[i] ELSE last]
      OBVIOUS
    <3>6. l \in [0 .. m + 1 -> Seq(Gauge)] /\ l[m + 1] = last /\ \A i \in 0 .. m : l[i] = k[i]
      BY <3>2, <3>4, <3>5
    <3>7. ASSUME NEW i \in 0 .. m + 1
          PROVE  KeptAt(l, list, n, i)
      <4>1. CASE i = m + 1
        BY <3>3, <3>6, <4>1 DEF KeptAt
      <4>2. CASE i \in 0 .. m
        <5>1. i = 0 \/ i - 1 \in 0 .. m
          BY <4>2
        <5>2. KeptAt(k, list, n, i)
          BY <3>2, <4>2
        <5>. QED BY <3>6, <4>2, <5>1, <5>2 DEF KeptAt
      <4>. QED BY <4>1, <4>2
    <3>8. PICK next \in Nat : next = m + 1
      OBVIOUS
    <3>9. l \in [0 .. next -> Seq(Gauge)] /\ \A i \in 0 .. next : KeptAt(l, list, n, i)
      BY <3>6, <3>7, <3>8
    <3>10. next \in S
      BY <1>1, <3>9
    <3>. QED BY <3>8, <3>10
  <2>. QED BY <2>1, <2>2
<1>4. Nat \subseteq S
  BY <1>2, <1>3, SetInduction
<1>5. Len(list) \in S /\ Len(list) \in Nat
  BY <1>4
<1>. QED BY <1>1, <1>5

\* No two gauges of a list have the same name.
Distinct(list) == \A a, b \in 1 .. Len(list) : list[a].name = list[b].name => a = b

\* What is left are gauges of the list, none of the name, and no new pair with a common name.
Survivors(w, list, n) ==
    /\ w \in Seq(Gauge)
    /\ \A j \in 1 .. Len(w) : w[j].name # n /\ \E a \in 1 .. Len(list) : w[j] = list[a]
    /\ Distinct(list) => Distinct(w)

\* One turn of the loop: the survivors of the first i, all of them from the first i.
Left(k, list, n, i) ==
    /\ \A j \in 1 .. Len(k[i]) : k[i][j].name # n /\ \E a \in 1 .. i : k[i][j] = list[a]
    /\ Distinct(list) => Distinct(k[i])

LEMMA LoopTurns ==
    ASSUME NEW list \in Seq(Gauge), NEW n, NEW k \in [0 .. Len(list) -> Seq(Gauge)],
           \A i \in 0 .. Len(list) : KeptAt(k, list, n, i),
           NEW m \in Nat, m + 1 <= Len(list), Left(k, list, n, m)
    PROVE  Left(k, list, n, m + 1)
<1>1. /\ Len(list) \in Nat /\ m \in 0 .. Len(list) /\ m + 1 \in 0 .. Len(list) /\ m + 1 \in 1 .. Len(list)
      /\ list[m + 1] \in Gauge
  OBVIOUS
<1>2. PICK s \in Seq(Gauge) : s = k[m]
  BY <1>1
<1>3. PICK u \in Seq(Gauge) : u = k[m + 1]
  BY <1>1
<1>4. KeptAt(k, list, n, m + 1)
  BY <1>1
<1>5. u = IF list[m + 1].name = n THEN s ELSE Append(s, list[m + 1])
  BY <1>2, <1>3, <1>4 DEF KeptAt
<1>6. ASSUME NEW j \in 1 .. Len(s)
      PROVE  s[j].name # n /\ \E a \in 1 .. m : s[j] = list[a]
  BY <1>2 DEF Left
<1>7. CASE list[m + 1].name = n
  <2>1. u = s
    BY <1>5, <1>7
  <2>2. ASSUME NEW j \in 1 .. Len(u)
        PROVE  u[j].name # n /\ \E a \in 1 .. m + 1 : u[j] = list[a]
    <3>1. u[j].name # n /\ \E a \in 1 .. m : u[j] = list[a]
      BY <1>6, <2>1
    <3>2. PICK a \in 1 .. m : u[j] = list[a]
      BY <3>1
    <3>3. a \in 1 .. m + 1
      OBVIOUS
    <3>. QED BY <3>1, <3>2, <3>3
  <2>3. Distinct(list) => Distinct(u)
    BY <1>2, <2>1 DEF Left
  <2>. QED BY <1>3, <2>2, <2>3 DEF Left
<1>8. CASE list[m + 1].name # n
  <2>1. PICK l \in Nat : l = Len(s)
    OBVIOUS
  <2>2. Len(u) = l + 1 /\ u[l + 1] = list[m + 1] /\ \A j \in 1 .. l : u[j] = s[j]
    BY <1>1, <1>5, <1>8, <2>1, AppendProperties
  <2>3. ASSUME NEW j \in 1 .. Len(u)
        PROVE  u[j].name # n /\ \E a \in 1 .. m + 1 : u[j] = list[a]
    <3>1. CASE j = l + 1
      <4>1. u[j] = list[m + 1] /\ m + 1 \in 1 .. m + 1
        BY <2>2, <3>1
      <4>. QED BY <1>8, <4>1
    <3>2. CASE j \in 1 .. l
      <4>1. u[j] = s[j] /\ j \in 1 .. Len(s)
        BY <2>1, <2>2, <3>2
      <4>2. u[j].name # n /\ \E a \in 1 .. m : u[j] = list[a]
        BY <1>6, <4>1
      <4>3. PICK a \in 1 .. m : u[j] = list[a]
        BY <4>2
      <4>4. a \in 1 .. m + 1
        OBVIOUS
      <4>. QED BY <4>2, <4>3, <4>4
    <3>. QED BY <2>2, <3>1, <3>2
  <2>4. ASSUME Distinct(list)
        PROVE  Distinct(u)
    <3>1. Distinct(s)
      BY <1>2, <2>4 DEF Left
    <3>2. ASSUME NEW j \in 1 .. l
          PROVE  u[j].name # u[l + 1].name
      <4>1. PICK a \in 1 .. m : s[j] = list[a]
        BY <1>6, <2>1
      <4>2. a \in 1 .. Len(list) /\ a # m + 1
        BY <1>1
      <4>. QED BY <1>1, <2>2, <2>4, <4>1, <4>2 DEF Distinct
    <3>3. ASSUME NEW a \in 1 .. Len(u), NEW b \in 1 .. Len(u), u[a].name = u[b].name
          PROVE  a = b
      <4>1. CASE a \in 1 .. l /\ b \in 1 .. l
        BY <2>1, <2>2, <3>1, <3>3, <4>1 DEF Distinct
      <4>2. CASE a = l + 1 \/ b = l + 1
        BY <2>2, <3>2, <3>3, <4>2
      <4>. QED BY <2>2, <4>1, <4>2
    <3>. QED BY <3>3 DEF Distinct
  <2>. QED BY <1>3, <2>3, <2>4 DEF Left
<1>. QED BY <1>7, <1>8

\* What Remove leaves of a list.
LEMMA RemoveLeaves ==
    ASSUME NEW list \in Seq(Gauge), NEW n
    PROVE  Survivors(Without(list, n), list, n)
<1>1. PICK length \in Nat : length = Len(list)
  OBVIOUS
<1>2. PICK k : /\ Without(list, n) = k[length]
               /\ k = [i \in 0 .. length |-> IF i = 0 THEN <<>> ELSE IF list[i].name = n THEN k[i - 1]
                                             ELSE Append(k[i - 1], list[i])]
  <2>1. PICK k \in [0 .. length -> Seq(Gauge)] : \A i \in 0 .. length : KeptAt(k, list, n, i)
    BY <1>1, LoopRuns
  <2>2. k = [i \in 0 .. length |-> IF i = 0 THEN <<>> ELSE IF list[i].name = n THEN k[i - 1]
                                  ELSE Append(k[i - 1], list[i])]
    BY <2>1 DEF KeptAt
  <2>. QED BY <1>1, <2>2 DEF Without
<1>3. \A i \in 0 .. length : KeptAt(k, list, n, i)
  BY <1>2 DEF KeptAt
<1>4. PICK S : S = {m \in Nat : m > length \/ k[m] \in Seq(Gauge)}
  OBVIOUS
<1>5. Nat \subseteq S
  <2>1. 0 \in S
    <3>1. KeptAt(k, list, n, 0)
      BY <1>3
    <3>2. k[0] = <<>> /\ <<>> \in Seq(Gauge)
      BY <3>1 DEF KeptAt
    <3>. QED BY <1>4, <3>2
  <2>2. ASSUME NEW m \in Nat, m \in S
        PROVE  m + 1 \in S
    <3>1. CASE m + 1 > length
      BY <1>4, <3>1
    <3>2. CASE m + 1 <= length
      <4>1. m + 1 \in 1 .. length /\ m + 1 \in 0 .. length /\ k[m] \in Seq(Gauge) /\ list[m + 1] \in Gauge
        BY <1>1, <1>4, <2>2, <3>2
      <4>2. KeptAt(k, list, n, m + 1)
        BY <1>3, <4>1
      <4>3. k[m + 1] = IF list[m + 1].name = n THEN k[m] ELSE Append(k[m], list[m + 1])
        BY <4>2 DEF KeptAt
      <4>4. k[m + 1] \in Seq(Gauge)
        BY <4>1, <4>3
      <4>. QED BY <1>4, <4>4
    <3>. QED BY <1>1, <3>1, <3>2
  <2>. QED BY <2>1, <2>2, SetInduction
<1>6. k \in [0 .. length -> Seq(Gauge)]
  <2>1. \A i \in 0 .. length : k[i] \in Seq(Gauge)
    BY <1>4, <1>5
  <2>. QED BY <1>2, <2>1
<1>7. PICK T : T = {m \in Nat : m > length \/ Left(k, list, n, m)}
  OBVIOUS
<1>8. Nat \subseteq T
  <2>1. 0 \in T
    <3>1. k[0] = <<>>
      BY <1>3 DEF KeptAt
    <3>2. Left(k, list, n, 0)
      BY <3>1 DEF Left, Distinct
    <3>. QED BY <1>7, <3>2
  <2>2. ASSUME NEW m \in Nat, m \in T
        PROVE  m + 1 \in T
    <3>1. CASE m + 1 > length
      BY <1>7, <3>1
    <3>2. CASE m + 1 <= length
      <4>1. Left(k, list, n, m)
        BY <1>7, <2>2, <3>2
      <4>2. Left(k, list, n, m + 1)
        BY <1>1, <1>3, <1>6, <3>2, <4>1, LoopTurns
      <4>. QED BY <1>7, <4>2
    <3>. QED BY <1>1, <3>1, <3>2
  <2>. QED BY <2>1, <2>2, SetInduction
<1>9. Left(k, list, n, length)
  BY <1>7, <1>8
<1>10. PICK w \in Seq(Gauge) : w = k[length] /\ w = Without(list, n)
  <2>1. k[length] \in Seq(Gauge)
    BY <1>6
  <2>2. k[length] = Without(list, n)
    BY <1>2
  <2>. QED BY ONLY <2>1, <2>2
<1>11. \A j \in 1 .. Len(w) : w[j].name # n /\ \E a \in 1 .. Len(list) : w[j] = list[a]
  BY <1>1, <1>9, <1>10 DEF Left
<1>12. Distinct(list) => Distinct(w)
  BY <1>9, <1>10 DEF Left
<1>. QED BY <1>10, <1>11, <1>12 DEF Survivors

-----------------------------------------------------------------------------
(* The invariant *)

Typed ==
    /\ flavour \in {"hooks", "acl"}
    /\ entries \in Seq(Gauge) /\ dynamics \in Seq(Gauge)
    /\ mine \in [Owners -> SUBSET Names] /\ life \in [Owners -> {"live", "freed"}]
    /\ at \in [Scrapers -> Nat] /\ inside \in [Scrapers -> Owners \union {"none"}]
    /\ rows \in [Scrapers -> Seq(Nat)] /\ thrown \in [Scrapers -> SUBSET Nat]
    /\ began \in [Scrapers -> Seq(Gauge)]

\* Who registered a gauge still lists its name, and who freed its state lists none.
Owned(list) == \A i \in 1 .. Len(list) : list[i].name \in mine[list[i].owner]
OwnersInv ==
    /\ Owned(entries) /\ Owned(dynamics)
    /\ \A o \in Owners : life[o] = "freed" => mine[o] = {}

\* In the hooks flavour no name is twice in the list.
NamesInv == flavour = "hooks" => Distinct(entries) /\ dynamics = <<>>

\* A scraper is inside Snapshot exactly while it holds the lock, and then nothing else changes the
\* list; the reader it is in is that of its place.
LockInv ==
    \A c \in Scrapers :
        /\ at[c] # 0 <=> lock = c
        /\ lock = c => Readers = began[c] /\ at[c] <= Len(Readers) + 1
        /\ inside[c] # "none" => at[c] \in 1 .. Len(Readers) /\ inside[c] = Readers[at[c]].owner

\* The rows of a snapshot so far: one for each reader behind it that did not throw, in order.
RowsOf(r, t, place) ==
    /\ Range(r) = (1 .. place - 1) \ t
    /\ \A i, j \in 1 .. Len(r) : i < j => r[i] < r[j]
RowsInv ==
    \A c \in Scrapers : /\ at[c] = 0 => rows[c] = <<>> /\ thrown[c] = {}
                        /\ at[c] # 0 => RowsOf(rows[c], thrown[c], at[c]) /\ thrown[c] \subseteq 1 .. at[c] - 1

Inv == Typed /\ OwnersInv /\ NamesInv /\ LockInv /\ RowsInv

\* Each reader a snapshot visits belongs to somebody who has it registered.
LEMMA ReadersOwned ==
    ASSUME Typed, OwnersInv
    PROVE  /\ Readers \in Seq(Gauge) /\ Len(Readers) \in Nat /\ DOMAIN Readers = 1 .. Len(Readers)
           /\ \A i \in 1 .. Len(Readers) : /\ Readers[i] \in Gauge
                                           /\ Readers[i].name \in mine[Readers[i].owner]
<1>1. Readers \in Seq(Gauge) /\ Len(Readers) = Len(entries) + Len(dynamics)
  BY ConcatProperties DEF Typed, Readers
<1>2. Len(entries) \in Nat /\ Len(dynamics) \in Nat
  BY DEF Typed
<1>3. ASSUME NEW i \in 1 .. Len(Readers)
      PROVE  Readers[i] \in Gauge /\ Readers[i].name \in mine[Readers[i].owner]
  <2>1. Readers[i] = IF i <= Len(entries) THEN entries[i] ELSE dynamics[i - Len(entries)]
    BY <1>1, ConcatProperties DEF Typed, Readers
  <2>2. CASE i <= Len(entries)
    <3>1. i \in 1 .. Len(entries) /\ Readers[i] = entries[i]
      BY <1>1, <1>2, <2>1, <2>2
    <3>. QED BY <1>1, <3>1 DEF OwnersInv, Owned
  <2>3. CASE ~(i <= Len(entries))
    <3>1. PICK j \in 1 .. Len(dynamics) : Readers[i] = dynamics[j]
      BY <1>1, <1>2, <2>1, <2>3
    <3>. QED BY <1>1, <3>1 DEF OwnersInv, Owned
  <2>. QED BY <2>2, <2>3
<1>. QED BY <1>1, <1>3

-----------------------------------------------------------------------------
(* Owners *)

\* A step outside Snapshot, with the lock free, keeps what is said of snapshots.
LEMMA OutsideSnapshot ==
    ASSUME Inv, lock = "free", UNCHANGED scrape
    PROVE  LockInv' /\ RowsInv'
<1>1. \A c \in Scrapers : lock # c /\ at[c] = 0 /\ inside[c] = "none"
  BY GaugeAssumption DEF Inv, LockInv
<1>2. LockInv'
  BY <1>1 DEF LockInv, scrape
<1>3. RowsInv'
  BY DEF Inv, RowsInv, RowsOf, scrape
<1>. QED BY <1>2, <1>3

\* Register: a gauge of the name replaced in place, or one more at the end.
LEMMA RegisteredList ==
    ASSUME Inv, NEW o \in Owners, NEW n \in Names
    PROVE  /\ Registered(n, o) \in Seq(Gauge)
           /\ \A i \in 1 .. Len(Registered(n, o)) :
                 \/ Registered(n, o)[i] = [name |-> n, owner |-> o]
                 \/ \E j \in 1 .. Len(entries) : Registered(n, o)[i] = entries[j]
           /\ flavour = "hooks" => Distinct(Registered(n, o))
<1>1. PICK gauge : gauge = [name |-> n, owner |-> o]
  OBVIOUS
<1>2. gauge \in Gauge /\ gauge.name = n
  BY <1>1 DEF Gauge
<1>3. PICK same : same = {i \in DOMAIN entries : entries[i].name = n}
  OBVIOUS
<1>4. entries \in Seq(Gauge) /\ DOMAIN entries = 1 .. Len(entries) /\ Len(entries) \in Nat
  BY DEF Inv, Typed
<1>5. PICK list : list = Registered(n, o)
  OBVIOUS
<1>6. CASE flavour = "hooks" /\ same # {}
  <2>1. same \subseteq Nat
    BY <1>3, <1>4
  <2>2. \E i \in same : \A j \in same : i <= j
    BY <1>6, <2>1, LeastElement
  <2>3. PICK i \in same : i = CHOOSE l \in same : \A j \in same : l <= j
    BY <2>2
  <2>4. list = [entries EXCEPT ![i] = gauge]
    BY <1>1, <1>3, <1>5, <1>6, <2>3 DEF Registered
  <2>5. i \in 1 .. Len(entries) /\ entries[i].name = n
    BY <1>3, <1>4
  <2>6. list \in Seq(Gauge) /\ Len(list) = Len(entries) /\ list[i] = gauge
    BY <1>2, <1>4, <2>4, <2>5
  <2>7. \A j \in 1 .. Len(entries) : j # i => list[j] = entries[j]
    BY <1>4, <2>4
  <2>8. \A j \in 1 .. Len(entries) : list[j].name = entries[j].name
    BY <1>2, <2>5, <2>6, <2>7
  <2>9. Distinct(list)
    BY <1>6, <2>6, <2>8 DEF Inv, NamesInv, Distinct
  <2>. QED BY <1>1, <1>5, <2>6, <2>7, <2>9
<1>7. CASE ~(flavour = "hooks" /\ same # {})
  <2>1. list = Append(entries, gauge)
    BY <1>1, <1>3, <1>5, <1>7 DEF Registered
  <2>2. PICK l \in Nat : l = Len(entries)
    BY <1>4
  <2>3. /\ list \in Seq(Gauge) /\ Len(list) = l + 1 /\ list[l + 1] = gauge
        /\ \A j \in 1 .. l : list[j] = entries[j]
    BY <1>2, <1>4, <2>1, <2>2, AppendProperties
  <2>4. ASSUME flavour = "hooks"
        PROVE  Distinct(list)
    <3>1. \A j \in 1 .. l : list[j].name # n
      BY <1>3, <1>4, <1>7, <2>2, <2>3, <2>4
    <3>2. Distinct(entries)
      BY <2>4 DEF Inv, NamesInv
    <3>3. ASSUME NEW a \in 1 .. Len(list), NEW b \in 1 .. Len(list), list[a].name = list[b].name
          PROVE  a = b
      <4>1. CASE a \in 1 .. l /\ b \in 1 .. l
        BY <2>2, <2>3, <3>2, <3>3, <4>1 DEF Distinct
      <4>2. CASE a = l + 1 \/ b = l + 1
        BY <1>2, <2>3, <3>1, <3>3, <4>2
      <4>. QED BY <2>3, <4>1, <4>2
    <3>. QED BY <3>3 DEF Distinct
  <2>5. ASSUME NEW i \in 1 .. Len(list)
        PROVE  list[i] = gauge \/ \E j \in 1 .. Len(entries) : list[i] = entries[j]
    BY <2>2, <2>3
  <2>. QED BY <1>1, <1>5, <2>3, <2>4, <2>5
<1>. QED BY <1>6, <1>7

\* Who a gauge of a list belongs to.
LEMMA OwnerOf ==
    ASSUME NEW list \in Seq(Gauge), NEW i \in 1 .. Len(list)
    PROVE  list[i].owner \in Owners
<1>1. list[i] \in Gauge
  OBVIOUS
<1>. QED BY <1>1 DEF Gauge

\* An owner registers a gauge or removes a name.
LEMMA OwnerSteps ==
    ASSUME Inv, NEW o \in Owners, NEW n \in Names
    PROVE  /\ Register(o, n) => Inv'
           /\ RegisterDynamic(o, n) => Inv'
           /\ Remove(o, n) => Inv'
<1>1. ASSUME NEW list \in Seq(Gauge), Owned(list), mine' = [mine EXCEPT ![o] = @ \union {n}]
      PROVE  Owned(list)'
  <2>1. mine \in [Owners -> SUBSET Names]
    BY DEF Inv, Typed
  <2>2. \A p \in Owners : mine[p] \subseteq mine'[p]
    BY <1>1, <2>1
  <2>3. \A i \in 1 .. Len(list) : list[i].owner \in Owners
    BY OwnerOf
  <2>. QED BY <1>1, <2>2, <2>3 DEF Owned
<1>2. ASSUME Register(o, n)
      PROVE  Inv'
  <2>1. LockInv' /\ RowsInv'
    BY <1>2, OutsideSnapshot DEF Register, Unlocked
  <2>2. PICK list : list = Registered(n, o)
    OBVIOUS
  <2>3. /\ list \in Seq(Gauge)
        /\ \A i \in 1 .. Len(list) : \/ list[i] = [name |-> n, owner |-> o]
                                     \/ \E j \in 1 .. Len(entries) : list[i] = entries[j]
        /\ flavour = "hooks" => Distinct(list)
    BY <2>2, RegisteredList
  <2>4. /\ entries' = list /\ dynamics' = dynamics /\ flavour' = flavour /\ life' = life
        /\ mine' = [mine EXCEPT ![o] = @ \union {n}] /\ life[o] = "live"
    BY <1>2, <2>2 DEF Register
  <2>5. Typed'
    BY <1>2, <2>3, <2>4 DEF Inv, Typed, Register, scrape
  <2>6. NamesInv'
    BY <2>3, <2>4 DEF Inv, NamesInv
  <2>7. Owned(entries)'
    <3>1. entries \in Seq(Gauge) /\ mine \in [Owners -> SUBSET Names]
      BY DEF Inv, Typed
    <3>2. n \in mine'[o] /\ \A p \in Owners : mine[p] \subseteq mine'[p]
      BY <2>4, <3>1
    <3>3. ASSUME NEW i \in 1 .. Len(list)
          PROVE  list[i].name \in mine'[list[i].owner]
      <4>1. CASE list[i] = [name |-> n, owner |-> o]
        BY <3>2, <4>1
      <4>2. ASSUME NEW j \in 1 .. Len(entries), list[i] = entries[j]
            PROVE  list[i].name \in mine'[list[i].owner]
        <5>1. entries[j].owner \in Owners /\ entries[j].name \in mine[entries[j].owner]
          BY <3>1, OwnerOf DEF Inv, OwnersInv, Owned
        <5>. QED BY <3>2, <4>2, <5>1
      <4>. QED BY <2>3, <4>1, <4>2
    <3>. QED BY <2>4, <3>3 DEF Owned
  <2>8. Owned(dynamics)'
    <3>1. dynamics \in Seq(Gauge) /\ Owned(dynamics)
      BY DEF Inv, Typed, OwnersInv
    <3>2. PICK d : d = dynamics
      OBVIOUS
    <3>. QED BY <1>1, <2>4, <3>1 DEF Owned
  <2>9. \A p \in Owners : life'[p] = "freed" => mine'[p] = {}
    BY <2>4 DEF Inv, Typed, OwnersInv
  <2>. QED BY <2>1, <2>5, <2>6, <2>7, <2>8, <2>9 DEF Inv, OwnersInv
<1>3. ASSUME RegisterDynamic(o, n)
      PROVE  Inv'
  <2>1. LockInv' /\ RowsInv'
    BY <1>3, OutsideSnapshot DEF RegisterDynamic, Unlocked
  <2>2. PICK gauge : gauge = [name |-> n, owner |-> o]
    OBVIOUS
  <2>3. gauge \in Gauge /\ gauge.name = n /\ gauge.owner = o
    BY <2>2 DEF Gauge
  <2>4. /\ dynamics' = Append(dynamics, gauge) /\ entries' = entries /\ flavour' = flavour /\ life' = life
        /\ mine' = [mine EXCEPT ![o] = @ \union {n}] /\ life[o] = "live" /\ flavour = "acl"
    BY <1>3, <2>2 DEF RegisterDynamic
  <2>5. dynamics \in Seq(Gauge) /\ mine \in [Owners -> SUBSET Names] /\ Len(dynamics) \in Nat
    BY DEF Inv, Typed
  <2>6. /\ dynamics' \in Seq(Gauge) /\ Len(dynamics') = Len(dynamics) + 1
        /\ dynamics'[Len(dynamics) + 1] = gauge
        /\ \A i \in 1 .. Len(dynamics) : dynamics'[i] = dynamics[i]
    BY <2>3, <2>4, <2>5, AppendProperties
  <2>7. Typed'
    BY <1>3, <2>4, <2>6 DEF Inv, Typed, RegisterDynamic, scrape
  <2>8. NamesInv'
    BY <2>4 DEF NamesInv
  <2>9. n \in mine'[o] /\ \A p \in Owners : mine[p] \subseteq mine'[p]
    BY <2>4, <2>5
  <2>10. Owned(dynamics)'
    <3>1. ASSUME NEW i \in 1 .. Len(dynamics')
          PROVE  dynamics'[i].name \in mine'[dynamics'[i].owner]
      <4>1. CASE i = Len(dynamics) + 1
        BY <2>3, <2>6, <2>9, <4>1
      <4>2. CASE i \in 1 .. Len(dynamics)
        <5>1. dynamics[i].owner \in Owners /\ dynamics[i].name \in mine[dynamics[i].owner]
          BY <2>5, <4>2, OwnerOf DEF Inv, OwnersInv, Owned
        <5>. QED BY <2>6, <2>9, <4>2, <5>1
      <4>. QED BY <2>5, <2>6, <4>1, <4>2
    <3>. QED BY <3>1 DEF Owned
  <2>11. Owned(entries)'
    <3>1. entries \in Seq(Gauge) /\ Owned(entries)
      BY DEF Inv, Typed, OwnersInv
    <3>. QED BY <1>1, <2>4, <3>1 DEF Owned
  <2>12. \A p \in Owners : life'[p] = "freed" => mine'[p] = {}
    BY <2>4 DEF Inv, Typed, OwnersInv
  <2>. QED BY <2>1, <2>7, <2>8, <2>10, <2>11, <2>12 DEF Inv, OwnersInv
<1>4. ASSUME Remove(o, n)
      PROVE  Inv'
  <2>1. LockInv' /\ RowsInv'
    BY <1>4, OutsideSnapshot DEF Remove, Unlocked
  <2>2. PICK e : e = Without(entries, n)
    OBVIOUS
  <2>3. PICK d : d = Without(dynamics, n)
    OBVIOUS
  <2>4. /\ entries' = e /\ dynamics' = d /\ flavour' = flavour /\ life' = life
        /\ mine' = [mine EXCEPT ![o] = @ \ {n}]
    BY <1>4, <2>2, <2>3 DEF Remove
  <2>5. entries \in Seq(Gauge) /\ dynamics \in Seq(Gauge) /\ mine \in [Owners -> SUBSET Names]
    BY DEF Inv, Typed
  <2>6. Survivors(e, entries, n) /\ Survivors(d, dynamics, n)
    BY <2>2, <2>3, <2>5, RemoveLeaves
  <2>7. Typed'
    BY <1>4, <2>4, <2>6 DEF Inv, Typed, Remove, scrape, Survivors
  <2>8. NamesInv'
    <3>1. ASSUME flavour = "hooks"
          PROVE  Distinct(e) /\ d = <<>>
      <4>1. Distinct(e)
        BY <2>6, <3>1 DEF Inv, NamesInv, Survivors
      <4>2. dynamics = <<>> /\ Len(dynamics) = 0
        BY <3>1 DEF Inv, NamesInv
      <4>3. d \in Seq(Gauge) /\ \A j \in 1 .. Len(d) : \E a \in 1 .. Len(dynamics) : d[j] = dynamics[a]
        BY <2>6 DEF Survivors
      <4>4. Len(d) = 0
        BY <4>2, <4>3
      <4>. QED BY <4>1, <4>3, <4>4, EmptySeq
    <3>. QED BY <2>4, <3>1 DEF NamesInv
  <2>9. ASSUME NEW w, NEW list \in Seq(Gauge), Survivors(w, list, n), Owned(list)
        PROVE  \A j \in 1 .. Len(w) : w[j].name \in mine'[w[j].owner]
    <3>. SUFFICES ASSUME NEW j \in 1 .. Len(w)
                  PROVE  w[j].name \in mine'[w[j].owner]
      OBVIOUS
    <3>1. PICK a \in 1 .. Len(list) : w[j] = list[a] /\ list[a].name # n
      BY <2>9 DEF Survivors
    <3>2. list[a].owner \in Owners /\ list[a].name \in mine[list[a].owner]
      BY <2>9, OwnerOf DEF Owned
    <3>. QED BY <2>4, <2>5, <3>1, <3>2
  <2>10. Owned(entries)' /\ Owned(dynamics)'
    <3>1. Owned(entries) /\ Owned(dynamics)
      BY DEF Inv, OwnersInv
    <3>2. \A j \in 1 .. Len(e) : e[j].name \in mine'[e[j].owner]
      BY <2>5, <2>6, <2>9, <3>1
    <3>3. \A j \in 1 .. Len(d) : d[j].name \in mine'[d[j].owner]
      BY <2>5, <2>6, <2>9, <3>1
    <3>. QED BY <2>4, <3>2, <3>3 DEF Owned
  <2>11. \A p \in Owners : life'[p] = "freed" => mine'[p] = {}
    BY <2>4, <2>5 DEF Inv, OwnersInv
  <2>. QED BY <2>1, <2>7, <2>8, <2>10, <2>11 DEF Inv, OwnersInv
<1>. QED BY <1>2, <1>3, <1>4

-----------------------------------------------------------------------------
(* Scrapers *)

\* A reader that returns adds its row at the end, and one that throws adds none.
LEMMA RowAdded ==
    ASSUME NEW r \in Seq(Nat), NEW t, NEW place \in Nat, place # 0, t \subseteq 1 .. place - 1,
           RowsOf(r, t, place)
    PROVE  /\ RowsOf(Append(r, place), t, place + 1)
           /\ RowsOf(r, t \union {place}, place + 1)
           /\ t \subseteq 1 .. place /\ t \union {place} \subseteq 1 .. place
<1>1. PICK l \in Nat : l = Len(r)
  OBVIOUS
<1>2. PICK u \in Seq(Nat) : u = Append(r, place)
  BY AppendProperties
<1>3. Len(u) = l + 1 /\ u[l + 1] = place /\ \A j \in 1 .. l : u[j] = r[j]
  BY <1>1, <1>2, AppendProperties
<1>4. DOMAIN u = 1 .. l + 1 /\ DOMAIN r = 1 .. l
  BY <1>1, <1>2, <1>3
<1>5. (place + 1) - 1 = place /\ 1 .. place = (1 .. place - 1) \union {place} /\ place \notin 1 .. place - 1
  OBVIOUS
<1>6. Range(r) = {r[j] : j \in 1 .. l} /\ Range(r) = (1 .. place - 1) \ t
  BY <1>4 DEF RowsOf, Range
<1>7. Range(u) = Range(r) \union {place}
  <2>1. Range(u) = {u[j] : j \in 1 .. l + 1}
    BY <1>4 DEF Range
  <2>2. 1 .. l + 1 = (1 .. l) \union {l + 1}
    OBVIOUS
  <2>3. {u[j] : j \in 1 .. l} = {r[j] : j \in 1 .. l}
    BY <1>3
  <2>4. {u[j] : j \in (1 .. l) \union {l + 1}} = {u[j] : j \in 1 .. l} \union {u[l + 1]}
    OBVIOUS
  <2>. QED BY <1>3, <1>6, <2>1, <2>2, <2>3, <2>4
<1>8. Range(u) = (1 .. place) \ t
  BY <1>5, <1>6, <1>7
<1>9. ASSUME NEW i \in 1 .. Len(u), NEW j \in 1 .. Len(u), i < j
      PROVE  u[i] < u[j]
  <2>1. i \in 1 .. l
    BY <1>3, <1>9
  <2>2. CASE j \in 1 .. l
    BY <1>1, <1>3, <1>9, <2>1, <2>2 DEF RowsOf
  <2>3. CASE j = l + 1
    <3>1. r[i] \in Range(r)
      BY <1>6, <2>1
    <3>2. r[i] \in 1 .. place - 1
      BY <1>6, <3>1
    <3>. QED BY <1>3, <2>1, <2>3, <3>2
  <2>. QED BY <1>3, <2>2, <2>3
<1>10. RowsOf(u, t, place + 1)
  BY <1>5, <1>8, <1>9 DEF RowsOf
<1>11. RowsOf(r, t \union {place}, place + 1)
  <2>1. (1 .. place) \ (t \union {place}) = (1 .. place - 1) \ t
    BY <1>5
  <2>. QED BY <1>5, <1>6, <2>1 DEF RowsOf
<1>. QED BY <1>2, <1>5, <1>10, <1>11

\* A scraper enters or leaves Snapshot, or takes a step inside it.
LEMMA ScraperSteps ==
    ASSUME Inv, NEW c \in Scrapers
    PROVE  /\ Lock(c) => Inv'
           /\ Call(c) => Inv'
           /\ Return(c) => Inv'
           /\ Throw(c) => Inv'
           /\ Unlock(c) => Inv'
<1>1. /\ Readers \in Seq(Gauge) /\ Len(Readers) \in Nat /\ DOMAIN Readers = 1 .. Len(Readers)
      /\ \A i \in 1 .. Len(Readers) : Readers[i] \in Gauge
  BY ReadersOwned DEF Inv
<1>2. ASSUME UNCHANGED <<flavour, entries, dynamics, mine, life>>
      PROVE  OwnersInv' /\ NamesInv' /\ Readers' = Readers
  BY <1>2 DEF Inv, OwnersInv, Owned, NamesInv, Readers
<1>3. /\ at \in [Scrapers -> Nat] /\ inside \in [Scrapers -> Owners \union {"none"}]
      /\ rows \in [Scrapers -> Seq(Nat)] /\ thrown \in [Scrapers -> SUBSET Nat]
      /\ began \in [Scrapers -> Seq(Gauge)]
  BY DEF Inv, Typed
<1>4. \A d \in Scrapers : at[d] # 0 <=> lock = d
  BY DEF Inv, LockInv
<1>5. ASSUME NEW d \in Scrapers
      PROVE  /\ lock = d => Readers = began[d] /\ at[d] <= Len(Readers) + 1
             /\ inside[d] # "none" => at[d] \in 1 .. Len(Readers) /\ inside[d] = Readers[at[d]].owner
  BY DEF Inv, LockInv
<1>6. ASSUME NEW d \in Scrapers
      PROVE  /\ at[d] = 0 => rows[d] = <<>> /\ thrown[d] = {}
             /\ at[d] # 0 => RowsOf(rows[d], thrown[d], at[d]) /\ thrown[d] \subseteq 1 .. at[d] - 1
  BY DEF Inv, RowsInv
<1>7. ASSUME Lock(c)
      PROVE  Inv'
  <2>1. /\ at[c] = 0 /\ lock = "free" /\ lock' = c /\ at' = [at EXCEPT ![c] = 1]
        /\ began' = [began EXCEPT ![c] = Readers]
        /\ UNCHANGED <<flavour, entries, dynamics, mine, life, inside, rows, thrown>>
    BY <1>7 DEF Lock
  <2>2. OwnersInv' /\ NamesInv' /\ Readers' = Readers
    BY <1>2, <2>1
  <2>3. Typed'
    BY <1>1, <1>3, <2>1 DEF Inv, Typed
  <2>4. \A d \in Scrapers : at[d] = 0 /\ inside[d] = "none"
    BY <1>1, <1>3, <1>4, <1>5, <2>1, GaugeAssumption
  <2>5. LockInv'
    BY <1>1, <1>3, <2>1, <2>2, <2>4 DEF LockInv
  <2>6. RowsOf(<<>>, {}, 1)
    BY DEF RowsOf, Range
  <2>7. ASSUME NEW d \in Scrapers
        PROVE  /\ at'[d] = 0 => rows'[d] = <<>> /\ thrown'[d] = {}
               /\ at'[d] # 0 => RowsOf(rows'[d], thrown'[d], at'[d]) /\ thrown'[d] \subseteq 1 .. at'[d] - 1
    <3>1. rows'[d] = <<>> /\ thrown'[d] = {}
      BY <1>6, <2>1, <2>4
    <3>2. at'[d] = IF d = c THEN 1 ELSE 0
      BY <1>3, <2>1, <2>4
    <3>. QED BY <2>6, <3>1, <3>2
  <2>. QED BY <2>2, <2>3, <2>5, <2>7 DEF Inv, RowsInv
<1>8. ASSUME Call(c)
      PROVE  Inv'
  <2>1. /\ at[c] \in 1 .. Len(Readers) /\ inside' = [inside EXCEPT ![c] = Readers[at[c]].owner]
        /\ UNCHANGED <<flavour, entries, dynamics, lock, mine, life, at, rows, thrown, began>>
    BY <1>1, <1>8 DEF Call
  <2>2. OwnersInv' /\ NamesInv' /\ Readers' = Readers
    BY <1>2, <2>1
  <2>3. Readers[at[c]].owner \in Owners
    BY <1>1, <2>1, OwnerOf
  <2>4. Typed'
    BY <1>3, <2>1, <2>3 DEF Inv, Typed
  <2>5. LockInv'
    BY <1>3, <1>4, <1>5, <2>1, <2>2 DEF LockInv
  <2>6. RowsInv'
    BY <2>1 DEF Inv, RowsInv
  <2>. QED BY <2>2, <2>4, <2>5, <2>6 DEF Inv
<1>9. ASSUME inside[c] # "none"
      PROVE  /\ at[c] \in 1 .. Len(Readers) /\ at[c] \in Nat /\ at[c] # 0 /\ lock = c
             /\ \A d \in Scrapers \ {c} : at[d] = 0 /\ inside[d] = "none"
             /\ RowsOf(rows[c], thrown[c], at[c]) /\ thrown[c] \subseteq 1 .. at[c] - 1
  <2>1. at[c] \in 1 .. Len(Readers) /\ at[c] \in Nat /\ at[c] # 0
    BY <1>3, <1>5, <1>9
  <2>2. lock = c
    BY <1>4, <2>1
  <2>3. \A d \in Scrapers \ {c} : at[d] = 0
    BY <1>3, <1>4, <2>2
  <2>4. \A d \in Scrapers \ {c} : inside[d] = "none"
    BY <1>1, <1>5, <2>3
  <2>. QED BY <1>6, <2>1, <2>2, <2>3, <2>4
<1>10. ASSUME Return(c)
      PROVE  Inv'
  <2>1. /\ inside[c] # "none" /\ inside' = [inside EXCEPT ![c] = "none"]
        /\ rows' = [rows EXCEPT ![c] = Append(@, at[c])] /\ at' = [at EXCEPT ![c] = @ + 1]
        /\ UNCHANGED <<flavour, entries, dynamics, lock, mine, life, thrown, began>>
    BY <1>10 DEF Return
  <2>2. OwnersInv' /\ NamesInv' /\ Readers' = Readers
    BY <1>2, <2>1
  <2>3. /\ at[c] \in 1 .. Len(Readers) /\ at[c] \in Nat /\ at[c] # 0 /\ lock = c
        /\ \A d \in Scrapers \ {c} : at[d] = 0 /\ inside[d] = "none"
        /\ RowsOf(rows[c], thrown[c], at[c]) /\ thrown[c] \subseteq 1 .. at[c] - 1
    BY <1>9, <2>1
  <2>4. Typed'
    BY <1>3, <2>1 DEF Inv, Typed
  <2>5. LockInv'
    BY <1>1, <1>3, <1>4, <1>5, <2>1, <2>2, <2>3 DEF LockInv
  <2>6. ASSUME NEW d \in Scrapers
        PROVE  /\ at'[d] = 0 => rows'[d] = <<>> /\ thrown'[d] = {}
               /\ at'[d] # 0 => RowsOf(rows'[d], thrown'[d], at'[d]) /\ thrown'[d] \subseteq 1 .. at'[d] - 1
    <3>1. CASE d = c
      <4>1. /\ RowsOf(Append(rows[c], at[c]), thrown[c], at[c] + 1) /\ thrown[c] \subseteq 1 .. at[c]
        BY <1>3, <2>3, RowAdded
      <4>2. rows'[c] = Append(rows[c], at[c]) /\ at'[c] = at[c] + 1 /\ thrown'[c] = thrown[c]
        BY <1>3, <2>1
      <4>3. at'[c] # 0 /\ at'[c] - 1 = at[c]
        BY <2>3, <4>2
      <4>. QED BY <3>1, <4>1, <4>2, <4>3
    <3>2. CASE d # c
      <4>1. at'[d] = at[d] /\ rows'[d] = rows[d] /\ thrown'[d] = thrown[d]
        BY <1>3, <2>1, <3>2
      <4>. QED BY <1>6, <4>1
    <3>. QED BY <3>1, <3>2
  <2>. QED BY <2>2, <2>4, <2>5, <2>6 DEF Inv, RowsInv
<1>11. ASSUME Leave(c), lock' = "free", lock = c, inside' = [inside EXCEPT ![c] = "none"],
              UNCHANGED <<flavour, entries, dynamics, mine, life>>,
              \A d \in Scrapers \ {c} : at[d] = 0 /\ inside[d] = "none"
       PROVE  Inv'
  <2>1. OwnersInv' /\ NamesInv' /\ Readers' = Readers
    BY <1>2, <1>11
  <2>2. Typed'
    BY <1>3, <1>11 DEF Inv, Typed, Leave
  <2>3. \A d \in Scrapers : at'[d] = 0 /\ inside'[d] = "none"
    BY <1>3, <1>11 DEF Leave
  <2>4. LockInv'
    BY <1>11, <2>3, GaugeAssumption DEF LockInv
  <2>5. ASSUME NEW d \in Scrapers
        PROVE  rows'[d] = <<>> /\ thrown'[d] = {}
    <3>1. CASE d = c
      BY <1>3, <1>11, <3>1 DEF Leave
    <3>2. CASE d # c
      <4>1. at[d] = 0 /\ rows'[d] = rows[d] /\ thrown'[d] = thrown[d]
        BY <1>3, <1>11, <3>2 DEF Leave
      <4>. QED BY <1>6, <4>1
    <3>. QED BY <3>1, <3>2
  <2>6. RowsInv'
    BY <2>3, <2>5 DEF RowsInv
  <2>. QED BY <2>1, <2>2, <2>4, <2>6 DEF Inv
<1>12. ASSUME Throw(c)
       PROVE  Inv'
  <2>1. /\ inside[c] # "none" /\ inside' = [inside EXCEPT ![c] = "none"]
        /\ UNCHANGED <<flavour, entries, dynamics, mine, life>>
    BY <1>12 DEF Throw
  <2>2. OwnersInv' /\ NamesInv' /\ Readers' = Readers
    BY <1>2, <2>1
  <2>3. /\ at[c] \in 1 .. Len(Readers) /\ at[c] \in Nat /\ at[c] # 0 /\ lock = c
        /\ \A d \in Scrapers \ {c} : at[d] = 0 /\ inside[d] = "none"
        /\ RowsOf(rows[c], thrown[c], at[c]) /\ thrown[c] \subseteq 1 .. at[c] - 1
    BY <1>9, <2>1
  <2>4. CASE /\ thrown' = [thrown EXCEPT ![c] = @ \union {at[c]}] /\ at' = [at EXCEPT ![c] = @ + 1]
             /\ UNCHANGED <<lock, rows, began>>
    <3>1. Typed'
      BY <1>3, <2>1, <2>3, <2>4 DEF Inv, Typed
    <3>2. LockInv'
      BY <1>1, <1>3, <1>4, <1>5, <2>1, <2>2, <2>3, <2>4 DEF LockInv
    <3>3. ASSUME NEW d \in Scrapers
          PROVE  /\ at'[d] = 0 => rows'[d] = <<>> /\ thrown'[d] = {}
                 /\ at'[d] # 0 => RowsOf(rows'[d], thrown'[d], at'[d]) /\ thrown'[d] \subseteq 1 .. at'[d] - 1
      <4>1. CASE d = c
        <5>1. /\ RowsOf(rows[c], thrown[c] \union {at[c]}, at[c] + 1) /\ thrown[c] \union {at[c]} \subseteq 1 .. at[c]
          BY <1>3, <2>3, RowAdded
        <5>2. rows'[c] = rows[c] /\ at'[c] = at[c] + 1 /\ thrown'[c] = thrown[c] \union {at[c]}
          BY <1>3, <2>4
        <5>3. at'[c] # 0 /\ at'[c] - 1 = at[c]
          BY <2>3, <5>2
        <5>. QED BY <4>1, <5>1, <5>2, <5>3
      <4>2. CASE d # c
        <5>1. at'[d] = at[d] /\ rows'[d] = rows[d] /\ thrown'[d] = thrown[d]
          BY <1>3, <2>4, <4>2
        <5>. QED BY <1>6, <5>1
      <4>. QED BY <4>1, <4>2
    <3>. QED BY <2>2, <3>1, <3>2, <3>3 DEF Inv, RowsInv
  <2>5. CASE Leave(c) /\ lock' = "free"
    BY <1>11, <2>1, <2>3, <2>5
  <2>. QED BY <1>3, <1>12, <2>4, <2>5 DEF Throw, AfterThrow
<1>13. ASSUME Unlock(c)
       PROVE  Inv'
  <2>1. /\ at[c] > Len(Readers) /\ inside[c] = "none" /\ Leave(c) /\ lock' = "free"
        /\ UNCHANGED <<flavour, entries, dynamics, mine, life, inside>>
    BY <1>13 DEF Unlock
  <2>2. lock = c
    BY <1>1, <1>3, <1>4, <2>1
  <2>3. \A d \in Scrapers \ {c} : at[d] = 0
    BY <1>3, <1>4, <2>2
  <2>4. \A d \in Scrapers \ {c} : inside[d] = "none"
    BY <1>1, <1>5, <2>3
  <2>5. inside' = [inside EXCEPT ![c] = "none"]
    BY <1>3, <2>1
  <2>. QED BY <1>11, <2>1, <2>2, <2>3, <2>4, <2>5
<1>. QED BY <1>7, <1>8, <1>10, <1>12, <1>13

-----------------------------------------------------------------------------
(* The theorems *)

\* Nothing is registered and nobody scrapes.
LEMMA InitInv ==
    ASSUME Init
    PROVE  Inv
<1>1. Typed
  BY DEF Init, Typed
<1>2. OwnersInv /\ NamesInv
  BY DEF Init, OwnersInv, Owned, NamesInv, Distinct
<1>3. LockInv
  BY GaugeAssumption DEF Init, LockInv
<1>4. RowsInv
  BY DEF Init, RowsInv
<1>. QED BY <1>1, <1>2, <1>3, <1>4 DEF Inv

\* Every step of an owner or a scraper keeps the invariant.
LEMMA NextInv ==
    ASSUME Inv, [Next]_vars
    PROVE  Inv'
<1>1. CASE UNCHANGED vars
  BY <1>1 DEF vars, Inv, Typed, OwnersInv, Owned, NamesInv, LockInv, Readers, RowsInv
<1>2. CASE \E o \in Owners, n \in Names : Register(o, n) \/ RegisterDynamic(o, n) \/ Remove(o, n)
  BY <1>2, OwnerSteps
<1>3. ASSUME NEW o \in Owners, Free(o)
      PROVE  Inv'
  <2>1. Typed'
    BY <1>3 DEF Inv, Typed, Free, scrape
  <2>2. OwnersInv'
    BY <1>3 DEF Inv, Typed, Free, scrape, OwnersInv, Owned
  <2>3. NamesInv' /\ LockInv' /\ RowsInv'
    BY <1>3 DEF Inv, Free, scrape, NamesInv, LockInv, Readers, RowsInv, RowsOf
  <2>. QED BY <2>1, <2>2, <2>3 DEF Inv
<1>4. CASE \E c \in Scrapers : Lock(c) \/ Scrape(c)
  BY <1>4, ScraperSteps DEF Scrape
<1>. QED BY <1>1, <1>2, <1>3, <1>4 DEF Next, Finished

\* What is said of the registry follows.
LEMMA InvSafe ==
    ASSUME Inv
    PROVE  NoDanglingReader /\ SnapshotOfOneMoment /\ OneRowPerGauge
<1>1. /\ Readers \in Seq(Gauge) /\ Len(Readers) \in Nat /\ DOMAIN Readers = 1 .. Len(Readers)
      /\ \A i \in 1 .. Len(Readers) : Readers[i].name \in mine[Readers[i].owner]
  BY ReadersOwned DEF Inv
<1>2. NoDanglingReader
  <2>. SUFFICES ASSUME NEW o \in Owners, life[o] = "freed"
                PROVE  /\ \A i \in DOMAIN Readers : Readers[i].owner # o
                       /\ \A c \in Scrapers : inside[c] # o
    BY DEF NoDanglingReader
  <2>1. mine[o] = {}
    BY DEF Inv, OwnersInv
  <2>2. \A i \in DOMAIN Readers : Readers[i].owner # o
    BY <1>1, <2>1
  <2>3. \A c \in Scrapers : inside[c] # o
    BY <1>1, <2>2, GaugeAssumption DEF Inv, LockInv
  <2>. QED BY <2>2, <2>3
<1>3. SnapshotOfOneMoment
  BY DEF SnapshotOfOneMoment, Inv, LockInv
<1>4. OneRowPerGauge
  <2>. SUFFICES ASSUME flavour = "hooks", NEW c \in Scrapers, lock = c, at[c] > Len(Readers)
                PROVE  /\ Range(rows[c]) = DOMAIN began[c] \ thrown[c]
                       /\ \A i, j \in DOMAIN rows[c] : i < j =>
                             /\ rows[c][i] < rows[c][j]
                             /\ began[c][rows[c][i]].name # began[c][rows[c][j]].name
    BY DEF OneRowPerGauge
  <2>1. at[c] = Len(Readers) + 1 /\ at[c] # 0 /\ began[c] = Readers /\ at[c] - 1 = Len(Readers)
    BY <1>1 DEF Inv, LockInv, Typed
  <2>2. RowsOf(rows[c], thrown[c], at[c])
    BY <2>1 DEF Inv, RowsInv
  <2>3. Range(rows[c]) = DOMAIN began[c] \ thrown[c]
    BY <1>1, <2>1, <2>2 DEF RowsOf
  <2>4. rows[c] \in Seq(Nat) /\ DOMAIN rows[c] = 1 .. Len(rows[c])
    BY DEF Inv, Typed
  <2>5. Readers = entries /\ Distinct(entries)
    <3>1. entries \in Seq(Gauge) /\ dynamics = <<>> /\ Distinct(entries)
      BY DEF Inv, Typed, NamesInv
    <3>. QED BY <3>1, ConcatEmptySeq DEF Readers
  <2>6. ASSUME NEW i \in DOMAIN rows[c], NEW j \in DOMAIN rows[c], i < j
        PROVE  /\ rows[c][i] < rows[c][j]
               /\ began[c][rows[c][i]].name # began[c][rows[c][j]].name
    <3>1. rows[c][i] < rows[c][j]
      BY <2>2, <2>4, <2>6 DEF RowsOf
    <3>2. rows[c][i] \in Range(rows[c]) /\ rows[c][j] \in Range(rows[c])
      BY DEF Range
    <3>3. rows[c][i] \in 1 .. Len(entries) /\ rows[c][j] \in 1 .. Len(entries)
      BY <1>1, <2>1, <2>3, <2>5, <3>2
    <3>. QED BY <2>1, <2>5, <3>1, <3>3 DEF Distinct
  <2>. QED BY <2>3, <2>6
<1>. QED BY <1>2, <1>3, <1>4

\* Once Remove returns, the owner may free its state: no reader of freed state is registered or
\* running, whoever registered what under the same name, in either registry (Register, Remove,
\* Snapshot under the lock).
THEOREM FreedIsUnread == Spec => []NoDanglingReader
<1>1. Inv => NoDanglingReader
  BY InvSafe
<1>. QED BY <1>1, InitInv, NextInv, PTL DEF Spec

\* What a snapshot iterates does not change under it, at any number of owners waiting.
THEOREM OneMoment == Spec => []SnapshotOfOneMoment
<1>1. Inv => SnapshotOfOneMoment
  BY InvSafe
<1>. QED BY <1>1, InitInv, NextInv, PTL DEF Spec

\* A hooks snapshot that is done has one row, in order, for each gauge that did not throw, and no
\* two rows of one (name, attributes): Register replaces, Remove leaves no second.
THEOREM RowPerGauge == Spec => []OneRowPerGauge
<1>1. Inv => OneRowPerGauge
  BY InvSafe
<1>. QED BY <1>1, InitInv, NextInv, PTL DEF Spec

=============================================================================
