------------------------- MODULE ContractUseProofs -------------------------
(***************************************************************************)
(* Theorems about ContractUse: the stamped objects, for any extensions     *)
(* built from any revisions and loaded in any order, and what is done      *)
(* through them.                                                           *)
(***************************************************************************)
EXTENDS ContractUse, SequenceTheorems, Induction, TLAPS

-----------------------------------------------------------------------------
(* Reach *)

\* What the cache may hold under the key.
Objects == [id : Nat \ {0}, build : Builds(contract)]

ReachTyped ==
    /\ contract \in Contracts
    /\ build \in [Extensions -> Builds(contract)]
    /\ object = None \/ object \in Objects
    /\ held \in [Extensions -> Nat]
    /\ refused \subseteq Extensions
    /\ created \in Nat

\* Before the first Reach nobody holds an object and nobody was refused; afterwards the object is
\* the one everybody was answered about, and it answers everybody again as it did then.
Answered ==
    /\ object = None => created = 0
    /\ \A e \in Extensions : held[e] # 0 =>
          object # None /\ held[e] = object.id /\ Uses(e, object)
    /\ \A e \in refused : object # None /\ ~Uses(e, object)

ReachInv == ReachTyped /\ Answered

\* At first there is no object and nobody was answered.
LEMMA InitReachInv == InitReach => ReachInv
BY DEF InitReach, ReachInv, ReachTyped, Answered, Contracts

\* The object a Reach finds or makes.
LEMMA GetOrCreateObject ==
    ASSUME ReachInv, NEW e \in Extensions
    PROVE  /\ GetOrCreate(e) \in Objects /\ GetOrCreate(e) # None
           /\ object # None => GetOrCreate(e) = object
           /\ object = None => \A d \in Extensions : held[d] = 0 /\ d \notin refused
<1>1. object # None => object \in Objects
  BY DEF ReachInv, ReachTyped
<1>2. [id |-> created + 1, build |-> build[e]] \in Objects
  BY DEF ReachInv, ReachTyped, Objects
<1>3. \A o \in Objects : o # None
  BY DEF Objects, None
<1>. QED BY <1>1, <1>2, <1>3 DEF GetOrCreate, ReachInv, Answered

\* A reach, a stamp read or cache pressure keeps the invariant: what is stored stays.
LEMMA NextReachInv == ReachInv /\ [NextReach]_reachVars => ReachInv'
<1>. SUFFICES ASSUME ReachInv, [NextReach]_reachVars PROVE ReachInv'
  OBVIOUS
<1>. USE DEF given
<1>1. ASSUME NEW e \in Extensions, Reach(e) PROVE ReachInv'
  <2>1. PICK o \in Objects : o = GetOrCreate(e) /\ o # None
    BY GetOrCreateObject
  <2>2. object' = o /\ UNCHANGED <<contract, build>>
    BY <1>1, <2>1 DEF Reach, Stored
  <2>3. created' \in Nat /\ o.id \in Nat \ {0}
    BY <1>1, <2>1 DEF Reach, Stored, ReachInv, ReachTyped, Objects
  <2>4. /\ Uses(e, o) => held' = [held EXCEPT ![e] = o.id] /\ refused' = refused
        /\ ~Uses(e, o) => refused' = refused \union {e} /\ held' = held
    BY <1>1, <2>1 DEF Reach
  <2>5. \A d \in Extensions : Uses(d, o)' <=> Uses(d, o)
    BY <2>2 DEF Uses, Accepts
  <2>6. ReachTyped'
    BY <2>2, <2>3, <2>4 DEF ReachInv, ReachTyped, Objects, Builds
  <2>7. \A d \in Extensions : /\ held[d] # 0 => held[d] = o.id /\ Uses(d, o)
                              /\ d \in refused => ~Uses(d, o)
    <3>1. CASE object = None
      BY <3>1, GetOrCreateObject
    <3>2. CASE object # None
      BY <3>2, <2>1, GetOrCreateObject DEF ReachInv, Answered
    <3>. QED BY <3>1, <3>2
  <2>8. Answered'
    BY <2>1, <2>2, <2>4, <2>5, <2>7 DEF Answered, ReachInv, ReachTyped
  <2>. QED BY <2>6, <2>8 DEF ReachInv
<1>2. ASSUME NEW e \in Extensions, StampOf(e) PROVE ReachInv'
  <2>1. PICK o \in Objects : o = GetOrCreate(e) /\ o # None
    BY GetOrCreateObject
  <2>2. object' = o /\ UNCHANGED <<contract, build, held, refused>>
    BY <1>2, <2>1 DEF StampOf, Stored
  <2>3. created' \in Nat
    BY <1>2, <2>1 DEF StampOf, Stored, ReachInv, ReachTyped, Objects
  <2>4. \A d \in Extensions : Uses(d, o)' <=> Uses(d, o)
    BY <2>2 DEF Uses, Accepts
  <2>5. ReachTyped'
    BY <2>2, <2>3 DEF ReachInv, ReachTyped, Objects, Builds
  <2>6. Answered'
    <3>1. CASE object = None
      BY <3>1, <2>1, <2>2, GetOrCreateObject DEF Answered, ReachInv, ReachTyped
    <3>2. CASE object # None
      BY <3>2, <2>1, <2>2, <2>4, GetOrCreateObject DEF Answered, ReachInv, ReachTyped
    <3>. QED BY <3>1, <3>2
  <2>. QED BY <2>5, <2>6 DEF ReachInv
<1>3. CASE Pressure \/ UNCHANGED reachVars
  <2>1. UNCHANGED reachVars
    BY <1>3 DEF Pressure, Evictable, reachVars
  <2>2. \A d \in Extensions : Uses(d, object)' <=> Uses(d, object)
    BY <2>1 DEF Uses, Accepts, reachVars
  <2>. QED BY <2>1, <2>2 DEF reachVars, ReachInv, ReachTyped, Answered, Objects, Builds
<1>. QED BY <1>1, <1>2, <1>3 DEF NextReach

\* A stamped extension that uses an object has its layout.
LEMMA UsesLayout ==
    ASSUME ReachTyped, NEW e \in Extensions, build[e].magic, object \in Objects, Uses(e, object)
    PROVE  object.build.type = build[e].type /\ Layout(object.build) = Layout(build[e])
BY DEF ReachTyped, Contracts, Uses, Accepts, ReachAs, AuditReach, SessionHooksReach, LineageReach,
       SameType, Layout

\* What the invariant says of everyone who was answered.
LEMMA ReachSafe == ReachInv => OneObjectOneLayout /\ ReachIsStable
<1>. SUFFICES ASSUME ReachInv PROVE OneObjectOneLayout /\ ReachIsStable
  OBVIOUS
<1>1. OneObjectOneLayout
  <2>. SUFFICES ASSUME NEW e \in Extensions, build[e].magic, held[e] # 0
                PROVE  /\ held[e] = object.id /\ object.build.type = build[e].type
                       /\ Layout(object.build) = Layout(build[e])
    BY DEF OneObjectOneLayout, Stamped
  <2>1. object \in Objects /\ held[e] = object.id /\ Uses(e, object)
    BY DEF ReachInv, ReachTyped, Answered
  <2>. QED BY <2>1, UsesLayout DEF ReachInv
<1>2. ReachIsStable
  BY DEF ReachInv, Answered, ReachIsStable
<1>. QED BY <1>1, <1>2

-----------------------------------------------------------------------------
(* Sessions *)

\* acl can use the connection's state o, and writes the session of each statement to it.
Usable(o) == build[Acl].magic /\ o.build.magic /\ o.build.version = build[Acl].version

\* While acl has not been refused the registry, whatever it can read of the connection is the
\* session of the running statement; a statement with a session has put it there.
Shown ==
    Acl \notin refused =>
        /\ connection = None => statement \in {Idle, Node}
        /\ connection # None /\ Usable(connection) =>
              Current(connection) = IF statement = Idle THEN Node ELSE statement

SessionInv ==
    /\ connection = None \/ connection \in [build : Builds(contract), active : BOOLEAN,
                                            view : Sessions \union {Node}]
    /\ statement \in Sessions \union {Idle, Node}
    /\ publisher => User(Acl) /\ contract = "session"
    /\ statement \notin {Idle, Node} => Loaded
    /\ Shown
    /\ ActsForItsSession

\* At first there is no connection state and no statement.
LEMMA InitSessionInv == InitReach /\ InitSession => SessionInv
BY DEF InitReach, InitSession, SessionInv, Shown, ActsForItsSession, None, Idle, Node

\* Whoever reached the same registry as acl was built from the same version.
LEMMA SameVersion ==
    ASSUME ReachInv, contract = "session", NEW e \in Extensions, User(e), User(Acl)
    PROVE  build[e].version = build[Acl].version /\ Acl \notin refused
<1>1. OneObjectOneLayout /\ ReachIsStable /\ Acl \in Extensions
  BY ReachSafe, AclAssumption
<1>2. Layout(object.build) = Layout(build[e]) /\ Layout(object.build) = Layout(build[Acl])
  BY <1>1 DEF OneObjectOneLayout, Stamped, User
<1>3. <<build[e].version>> = <<build[Acl].version>>
  BY <1>2 DEF Layout
<1>. QED BY <1>1, <1>3 DEF ReachIsStable, User

\* Reaches leave what was published as it is: they only add to the refused.
LEMMA ReachKeepsSession ==
    ASSUME ReachInv, SessionInv, NextReach, UNCHANGED sessionVars
    PROVE  SessionInv'
<1>1. UNCHANGED <<contract, build>> /\ refused \subseteq refused'
  BY DEF NextReach, Reach, StampOf, Pressure, given
<1>2. \A e \in Extensions : held[e] # 0 => held'[e] # 0
  <2>1. ASSUME NEW e \in Extensions, Reach(e), NEW d \in Extensions, held[d] # 0
        PROVE  held'[d] # 0
    <3>1. GetOrCreate(e).id # 0
      BY GetOrCreateObject DEF Objects
    <3>. QED BY <2>1, <3>1 DEF Reach, ReachInv, ReachTyped
  <2>. QED BY <2>1 DEF NextReach, StampOf, Pressure
<1>3. publisher => User(Acl)'
  BY <1>1, <1>2, AclAssumption DEF SessionInv, User
<1>4. Loaded => Loaded'
  BY <1>1 DEF Loaded, sessionVars
<1>5. Shown'
  BY <1>1 DEF SessionInv, Shown, Usable, Current, sessionVars
<1>. QED BY <1>1, <1>3, <1>4, <1>5 DEF SessionInv, sessionVars, Builds, ActsForItsSession

\* The connection's state as it is reached, or as it is created: without a session.
LEMMA ReachedConnection ==
    ASSUME ReachInv, SessionInv, NEW e \in Extensions
    PROVE  /\ ReachedBy(e) \in [build : Builds(contract), active : BOOLEAN,
                                view : Sessions \union {Node}]
           /\ ReachedBy(e) # None
           /\ connection # None => ReachedBy(e) = connection
           /\ connection = None => ReachedBy(e).build = build[e] /\ Current(ReachedBy(e)) = Node
BY DEF ReachInv, ReachTyped, SessionInv, ReachedBy, Current, None, Node

\* QueryBegin publishes the statement's session, or withdraws the one before it.
LEMMA QueryBeginInv ==
    ASSUME ReachInv, SessionInv, contract = "session", UNCHANGED reachVars,
           NEW s \in Sessions \union {Node}, QueryBegin(s)
    PROVE  SessionInv'
<1>. DEFINE o == ReachedBy(Acl)
<1>1. UNCHANGED <<contract, build, refused, held, publisher, acts>>
  BY DEF QueryBegin, reachVars, given
<1>2. /\ statement = Idle /\ (s \in Sessions => Loaded) /\ statement' = s
      /\ s # Idle /\ (s # Node => s \in Sessions)
  BY AclAssumption DEF QueryBegin, Idle, Node
<1>3. /\ o \in [build : Builds(contract), active : BOOLEAN, view : Sessions \union {Node}]
      /\ o # None /\ (connection # None => o = connection)
      /\ (connection = None => o.build = build[Acl] /\ Current(o) = Node)
  BY ReachedConnection, AclAssumption
<1>4. CASE Loaded /\ ConnectionReach(Acl)
  <2>1. PICK c : c = IF s \in Sessions THEN Publish(o, s) ELSE Withdraw(o)
    OBVIOUS
  <2>2. c \in [build : Builds(contract), active : BOOLEAN, view : Sessions \union {Node}]
    BY <1>3, <2>1 DEF Publish, Withdraw
  <2>3. connection' = c /\ Current(c) = s /\ c # None
    BY <1>2, <1>3, <1>4, <2>1, <2>2 DEF QueryBegin, Publish, Withdraw, Current, None
  <2>4. Shown'
    BY <1>2, <2>3 DEF Shown, Current
  <2>. QED BY <1>1, <1>2, <2>2, <2>3, <2>4 DEF SessionInv, Builds, User, Loaded, ActsForItsSession
<1>5. CASE ~(Loaded /\ ConnectionReach(Acl))
  <2>1. connection' = connection
    BY <1>5 DEF QueryBegin
  <2>2. Acl \notin refused => (connection = None => s = Node)
    <3>1. ASSUME Acl \notin refused, connection = None, s \in Sessions PROVE FALSE
      <4>1. publisher /\ build[Acl].magic
        BY <1>2, <3>1 DEF Loaded, SessionInv, User
      <4>2. ConnectionReach(Acl)
        BY <1>3, <3>1, <4>1 DEF ConnectionReach
      <4>. QED BY <1>2, <1>5, <3>1, <4>2
    <3>. QED BY <3>1, <1>2
  <2>3. Acl \notin refused /\ connection # None /\ Usable(connection) => s = Node
    <3>1. ASSUME Usable(connection), connection # None PROVE ConnectionReach(Acl)
      BY <1>3, <3>1 DEF ConnectionReach, Usable
    <3>. QED BY <3>1, <1>2, <1>5
  <2>4. Shown'
    BY <1>1, <1>2, <2>1, <2>2, <2>3 DEF SessionInv, Shown, Usable, Current
  <2>. QED BY <1>1, <1>2, <2>1, <2>4 DEF SessionInv, Builds, User, Loaded, ActsForItsSession
<1>. QED BY <1>4, <1>5

\* QueryEnd leaves no session behind.
LEMMA QueryEndInv ==
    ASSUME ReachInv, SessionInv, contract = "session", UNCHANGED reachVars, QueryEnd
    PROVE  SessionInv'
<1>. DEFINE o == ReachedBy(Acl)
<1>1. UNCHANGED <<contract, build, refused, held, publisher, acts>>
  BY DEF QueryEnd, reachVars, given
<1>2. statement # Idle /\ statement' = Idle
  BY DEF QueryEnd
<1>3. /\ o \in [build : Builds(contract), active : BOOLEAN, view : Sessions \union {Node}]
      /\ o # None /\ (connection # None => o = connection)
  BY ReachedConnection, AclAssumption
<1>4. CASE Loaded /\ ConnectionReach(Acl)
  <2>1. PICK c : c = Withdraw(o)
    OBVIOUS
  <2>2. c \in [build : Builds(contract), active : BOOLEAN, view : Sessions \union {Node}]
    BY <1>3, <2>1 DEF Withdraw
  <2>3. connection' = c /\ Current(c) = Node /\ c # None
    BY <1>3, <1>4, <2>1, <2>2 DEF QueryEnd, Withdraw, Current, None
  <2>4. Shown'
    BY <1>2, <2>3 DEF Shown, Current
  <2>. QED BY <1>1, <1>2, <2>2, <2>3, <2>4 DEF SessionInv, Builds, User, Loaded, ActsForItsSession
<1>5. CASE ~(Loaded /\ ConnectionReach(Acl))
  <2>1. connection' = connection
    BY <1>5 DEF QueryEnd
  <2>2. Acl \notin refused /\ connection # None /\ Usable(connection) => statement = Node
    <3>1. ASSUME Usable(connection), connection # None PROVE ConnectionReach(Acl)
      BY <1>3, <3>1 DEF ConnectionReach, Usable
    <3>. QED BY <3>1, <1>2, <1>5 DEF SessionInv
  <2>3. Shown'
    BY <1>1, <1>2, <2>1, <2>2 DEF SessionInv, Shown, Usable, Current
  <2>. QED BY <1>1, <1>2, <2>1, <2>3 DEF SessionInv, Builds, User, Loaded, ActsForItsSession
<1>. QED BY <1>4, <1>5

\* An extension acts for what it reads, which is the running statement's session.
LEMMA ActInv ==
    ASSUME ReachInv, SessionInv, contract = "session", UNCHANGED reachVars,
           NEW e \in Extensions, Act(e)
    PROVE  SessionInv'
<1>. DEFINE o == ReachedBy(e)
<1>1. UNCHANGED <<contract, build, refused, held, publisher, statement>>
  BY DEF Act, reachVars, given
<1>2. /\ o \in [build : Builds(contract), active : BOOLEAN, view : Sessions \union {Node}]
      /\ o # None /\ (connection # None => o = connection)
      /\ (connection = None => o.build = build[e] /\ Current(o) = Node)
  BY ReachedConnection
<1>3. connection' = o /\ statement # Idle /\ User(e)
  BY DEF Act
<1>4. Acl \notin refused /\ Usable(o) => Current(o) = statement
  BY <1>2, <1>3 DEF SessionInv, Shown
<1>5. Shown'
  BY <1>1, <1>2, <1>3, <1>4 DEF Shown, Usable, Current
<1>6. ActsForItsSession'
  <2>1. CASE ConnectionReach(e) /\ Publisher(e)
    <3>1. User(Acl) /\ build[e].version = build[Acl].version /\ Acl \notin refused
      BY <1>3, <2>1, SameVersion DEF Publisher, SessionInv
    <3>2. Usable(o)
      BY <2>1, <3>1 DEF ConnectionReach, Usable, User
    <3>3. acts' = acts \union {<<statement, Current(o)>>}
      BY <2>1 DEF Act
    <3>. QED BY <1>4, <3>1, <3>2, <3>3 DEF SessionInv, ActsForItsSession
  <2>2. CASE ~(ConnectionReach(e) /\ Publisher(e))
    BY <2>2 DEF Act, SessionInv, ActsForItsSession
  <2>. QED BY <2>1, <2>2
<1>. QED BY <1>1, <1>2, <1>3, <1>5, <1>6 DEF SessionInv, Builds, User, Loaded

\* Every step of the session contract keeps its invariant.
LEMMA UseSessionInv == ReachInv /\ SessionInv /\ UseSession => SessionInv'
<1>. SUFFICES ASSUME ReachInv, SessionInv, UseSession PROVE SessionInv'
  OBVIOUS
<1>1. contract = "session" /\ NextSession /\ UNCHANGED reachVars
  BY DEF UseSession
<1>2. CASE MarkPublisher
  BY <1>1, <1>2 DEF MarkPublisher, SessionInv, Shown, Usable, User, Loaded, Current, Builds,
                    ActsForItsSession, reachVars, given
<1>. QED BY <1>1, <1>2, QueryBeginInv, QueryEndInv, ActInv DEF NextSession

-----------------------------------------------------------------------------
(* Lineage sources *)

LineageTyped ==
    /\ providers \in Seq(Providers) /\ current \in Seq(Providers) /\ asked \in Seq(Providers)
    /\ answer \in Providers \union {"idle", "asking", "none"}

\* The providers asked are the first ones of Name's copy, and nobody who was registered when it was
\* taken is missing from it.
Copied ==
    /\ Len(asked) <= Len(current)
    /\ \A i \in 1 .. Len(asked) : asked[i] = current[i]
    /\ throughout \subseteq Range(current)

\* Name returns after the last of its copy, or with the answer of the one it asked last.
Ended ==
    /\ answer = "none" => Len(asked) = Len(current)
    /\ answer \in Providers => asked # << >> /\ answer = asked[Len(asked)]

LineageInv == LineageTyped /\ Copied /\ Ended

\* At first nobody is registered and nobody was asked.
LEMMA InitLineageInv == InitLineage => LineageInv
BY EmptySeq, LineageAssumption
   DEF InitLineage, LineageInv, LineageTyped, Copied, Ended

\* A new provider goes to the end of the list.
LEMMA AddProviderInv ==
    ASSUME LineageInv, NEW p \in Providers, AddProvider(p)
    PROVE  LineageInv'
<1>1. providers \in Seq(Providers) /\ Len(providers) \in Nat
  BY LenProperties DEF LineageInv, LineageTyped
<1>2. /\ providers' = Append(providers, p)
      /\ UNCHANGED <<current, asked, answer, throughout>>
  BY DEF AddProvider
<1>3. /\ providers' \in Seq(Providers) /\ Len(providers') = Len(providers) + 1
      /\ \A i \in 1 .. Len(providers) : providers'[i] = providers[i]
      /\ providers'[Len(providers) + 1] = p
  BY <1>1, <1>2, AppendProperties
<1>. QED BY <1>2, <1>3 DEF LineageInv, LineageTyped, Copied, Ended

\* Erasing an entry keeps the others, in order.
LEMMA RemoveProviderInv ==
    ASSUME LineageInv, NEW p \in Providers, RemoveProvider(p)
    PROVE  LineageInv'
<1>1. /\ providers \in Seq(Providers) /\ Len(providers) \in Nat
      /\ DOMAIN providers = 1 .. Len(providers)
      /\ (\A i \in 1 .. Len(providers) : providers[i] \in Providers)
  BY LenProperties DEF LineageInv, LineageTyped
<1>2. PICK i \in 1 .. Len(providers) :
          providers' = SubSeq(providers, 1, i - 1) \o SubSeq(providers, i + 1, Len(providers))
  BY <1>1 DEF RemoveProvider
<1>. DEFINE front == SubSeq(providers, 1, i - 1)
            back  == SubSeq(providers, i + 1, Len(providers))
<1>3. /\ front \in Seq(Providers) /\ Len(front) = i - 1
      /\ \A j \in 1 .. i - 1 : front[j] = providers[j]
  BY <1>1, SubSeqProperties
<1>4. /\ back \in Seq(Providers) /\ Len(back) = Len(providers) - i
      /\ \A j \in 1 .. Len(providers) - i : back[j] = providers[i + j]
  <2>1. PICK n \in Nat : n = Len(providers) /\ i \in 1 .. n
    BY <1>1
  <2>2. i + 1 \in 1 .. n + 1 /\ n \in i .. n /\ n - (i + 1) + 1 = n - i
    BY <2>1
  <2>3. /\ back \in Seq(Providers)
        /\ Len(back) = IF i + 1 <= n THEN n - (i + 1) + 1 ELSE 0
        /\ \A j \in 1 .. n - (i + 1) + 1 : back[j] = providers[(i + 1) + j - 1]
    BY <1>1, <2>1, <2>2, SubSeqProperties
  <2>. HIDE DEF back
  <2>4. \A j \in 1 .. n - i : (i + 1) + j - 1 = i + j
    BY <2>1
  <2>. QED BY <2>1, <2>2, <2>3, <2>4
<1>5. /\ providers' \in Seq(Providers) /\ Len(providers') = Len(providers) - 1
      /\ \A j \in 1 .. Len(providers) - 1 :
            providers'[j] = providers[IF j < i THEN j ELSE j + 1]
  <2>. HIDE DEF front, back
  <2>1. /\ front \o back \in Seq(Providers) /\ Len(front \o back) = Len(front) + Len(back)
        /\ \A j \in 1 .. Len(front) + Len(back) :
              (front \o back)[j] = IF j <= Len(front) THEN front[j] ELSE back[j - Len(front)]
    BY <1>3, <1>4, ConcatProperties
  <2>2. providers' = front \o back
    BY <1>2 DEF front, back
  <2>3. ASSUME NEW j \in 1 .. Len(providers) - 1
        PROVE  providers'[j] = providers[IF j < i THEN j ELSE j + 1]
    <3>1. CASE j < i
      BY <3>1, <1>1, <1>3, <1>4, <2>1, <2>2
    <3>2. CASE ~(j < i)
      <4>1. providers'[j] = back[j - (i - 1)]
        BY <3>2, <1>1, <1>3, <1>4, <2>1, <2>2
      <4>2. j - (i - 1) \in 1 .. Len(providers) - i /\ i + (j - (i - 1)) = j + 1
        BY <3>2, <1>1
      <4>3. back[j - (i - 1)] = providers[j + 1]
        BY <1>4, <4>2
      <4>. QED BY <3>2, <4>1, <4>3
    <3>. QED BY <3>1, <3>2
  <2>4. providers' \in Seq(Providers) /\ Len(providers') = Len(providers) - 1
    <3>1. Len(front) = i - 1 /\ Len(back) = Len(providers) - i
      BY <1>3, <1>4
    <3>2. Len(providers') = Len(front) + Len(back) /\ providers' \in Seq(Providers)
      BY <2>1, <2>2
    <3>. QED BY <1>1, <3>1, <3>2
  <2>. QED BY <2>3, <2>4
<1>6. throughout' \subseteq throughout /\ UNCHANGED <<current, asked, answer>>
  BY DEF RemoveProvider
<1>. QED BY <1>5, <1>6 DEF LineageInv, LineageTyped, Copied, Ended

\* Name starts over, with a copy of the list as it is.
LEMMA NameInv == LineageInv /\ Name => LineageInv'
BY EmptySeq, LineageAssumption DEF LineageInv, LineageTyped, Copied, Ended, Name

\* One call moves one further in the copy, which nobody else changes.
LEMMA CallInv ==
    ASSUME LineageInv, NEW outcome \in Outcomes, Call(outcome)
    PROVE  LineageInv'
<1>1. /\ asked \in Seq(Providers) /\ current \in Seq(Providers)
      /\ Len(asked) \in Nat /\ Len(current) \in Nat /\ Len(asked) < Len(current)
  BY LenProperties DEF LineageInv, LineageTyped, Call, Listed
<1>2. PICK p \in Providers : p = current[Len(asked) + 1]
  BY <1>1, ElementOfSeq
<1>3. /\ asked' = Append(asked, p) /\ answer' \in {p, answer} /\ answer = "asking"
      /\ UNCHANGED <<providers, current, throughout>>
  BY <1>2 DEF Call, Listed, Asking
<1>4. /\ asked' \in Seq(Providers) /\ asked' # << >> /\ Len(asked') = Len(asked) + 1
      /\ \A i \in 1 .. Len(asked) : asked'[i] = asked[i]
      /\ asked'[Len(asked) + 1] = p
  BY <1>1, <1>3, AppendProperties
<1>5. LineageTyped'
  BY <1>3, <1>4 DEF LineageInv, LineageTyped
<1>6. Copied'
  BY <1>1, <1>2, <1>3, <1>4 DEF LineageInv, Copied
<1>7. Ended'
  <2>1. answer' = p \/ answer' = "asking"
    BY <1>3
  <2>. QED BY <1>4, <2>1, LineageAssumption DEF Ended
<1>. QED BY <1>5, <1>6, <1>7 DEF LineageInv

\* Name gives up after the last of its copy.
LEMMA NoAnswerInv == LineageInv /\ NoAnswer => LineageInv'
<1>. SUFFICES ASSUME LineageInv, NoAnswer PROVE LineageInv'
  OBVIOUS
<1>1. Len(asked) \in Nat /\ Len(current) \in Nat /\ Len(asked) >= Len(current)
  BY LenProperties DEF LineageInv, LineageTyped, NoAnswer, Listed
<1>. QED BY <1>1, LineageAssumption
         DEF LineageInv, LineageTyped, Copied, Ended, NoAnswer

\* The providers asked are a prefix of a copy that holds everyone registered at the time.
LEMMA LineageSafe == LineageInv => FirstAnswerWins
<1>. SUFFICES ASSUME LineageInv PROVE FirstAnswerWins
  OBVIOUS
<1>1. /\ asked \in Seq(Providers) /\ Len(asked) \in Nat /\ DOMAIN asked = 1 .. Len(asked)
      /\ Len(current) \in Nat /\ DOMAIN current = 1 .. Len(current)
  BY LenProperties DEF LineageInv, LineageTyped
<1>2. /\ Len(asked) <= Len(current) /\ throughout \subseteq Range(current)
      /\ \A i \in 1 .. Len(asked) : asked[i] = current[i]
  BY DEF LineageInv, Copied
<1>3. ASSUME answer = "none" PROVE throughout \subseteq Range(asked)
  BY <1>1, <1>2, <1>3 DEF LineageInv, Ended, Range
<1>4. ASSUME answer \in Providers
      PROVE  answer = asked[Len(asked)] /\ Ahead(answer) \subseteq Range(asked)
  <2>1. Len(asked) \in 1 .. Len(asked) /\ answer = asked[Len(asked)]
    <3>1. asked # << >> /\ answer = asked[Len(asked)]
      BY <1>4 DEF LineageInv, Ended
    <3>2. Len(asked) # 0
      BY <1>1, <3>1, EmptySeq
    <3>. QED BY <1>1, <3>1, <3>2
  <2>2. Len(asked) \in DOMAIN current /\ current[Len(asked)] = answer
    BY <1>1, <1>2, <2>1
  <2>3. ASSUME NEW i \in DOMAIN current, \A j \in DOMAIN current : current[j] = answer => i < j
        PROVE  current[i] \in Range(asked)
    <3>1. i \in 1 .. Len(asked)
      BY <1>1, <2>2, <2>3
    <3>. QED BY <1>1, <1>2, <3>1 DEF Range
  <2>. QED BY <2>1, <2>3 DEF Ahead
<1>. QED BY <1>1, <1>2, <1>3, <1>4 DEF FirstAnswerWins

-----------------------------------------------------------------------------
(* The keys of the counters *)

\* What follows parts of the same length is the same if the whole is.
LEMMA EvenSplit ==
    ASSUME NEW S, NEW s \in Seq(S), NEW t \in Seq(S), NEW x \in Seq(S), NEW y \in Seq(S),
           s \o x = t \o y, Len(s) = Len(t)
    PROVE  s = t /\ x = y
<1>1. Len(s) \in Nat /\ Len(x) \in Nat /\ Len(y) \in Nat
  BY LenProperties
<1>2. /\ Len(s \o x) = Len(s) + Len(x)
      /\ \A i \in 1 .. Len(s) + Len(x) : (s \o x)[i] = IF i <= Len(s) THEN s[i] ELSE x[i - Len(s)]
  BY ConcatProperties
<1>3. /\ Len(t \o y) = Len(t) + Len(y)
      /\ \A i \in 1 .. Len(t) + Len(y) : (t \o y)[i] = IF i <= Len(t) THEN t[i] ELSE y[i - Len(t)]
  BY ConcatProperties
<1>4. \A i \in 1 .. Len(s) : s[i] = t[i]
  BY <1>1, <1>2, <1>3
<1>5. s = t
  BY <1>4, SeqEqual
<1>6. PICK n \in Nat : n = Len(x) /\ n = Len(y)
  BY <1>1, <1>2, <1>3
<1>7. ASSUME NEW i \in 1 .. n PROVE x[i] = y[i]
  <2>1. \A m \in Nat : m + i \in 1 .. m + n /\ ~(m + i <= m) /\ (m + i) - m = i
    OBVIOUS
  <2>. DEFINE j == Len(s) + i
  <2>2. (s \o x)[j] = x[i] /\ (t \o y)[j] = y[i]
    BY <1>1, <1>2, <1>3, <1>6, <2>1, Zenon
  <2>. QED BY <2>2
<1>8. x = y
  BY <1>6, <1>7, SeqEqual
<1>. QED BY <1>5, <1>8

\* A separator ends the text before it, if that text does not hold it.
LEMMA SeparatedApart ==
    ASSUME NEW S, NEW c \in S, NEW s \in Seq(S), NEW t \in Seq(S), NEW x \in Seq(S), NEW y \in Seq(S),
           c \notin Range(s), c \notin Range(t), (s \o <<c>>) \o x = (t \o <<c>>) \o y
    PROVE  s = t /\ x = y
<1>1. /\ Len(s) \in Nat /\ Len(t) \in Nat /\ Len(x) \in Nat /\ Len(y) \in Nat
      /\ DOMAIN s = 1 .. Len(s) /\ DOMAIN t = 1 .. Len(t)
  BY LenProperties
<1>2. <<c>> \in Seq(S) /\ Len(<<c>>) = 1 /\ <<c>>[1] = c
  OBVIOUS
<1>3. PICK p \in Seq(S) : p = s \o <<c>>
  BY <1>2, ConcatProperties
<1>4. PICK q \in Seq(S) : q = t \o <<c>>
  BY <1>2, ConcatProperties
<1>5. Len(p) = Len(s) + 1 /\ p[Len(s) + 1] = c /\ \A i \in 1 .. Len(s) : p[i] = s[i]
  <2>1. /\ Len(p) = Len(s) + Len(<<c>>)
        /\ \A i \in 1 .. Len(s) + Len(<<c>>) : p[i] = IF i <= Len(s) THEN s[i] ELSE <<c>>[i - Len(s)]
    BY <1>2, <1>3, ConcatProperties
  <2>. QED BY <1>1, <1>2, <2>1
<1>6. Len(q) = Len(t) + 1 /\ q[Len(t) + 1] = c /\ \A i \in 1 .. Len(t) : q[i] = t[i]
  <2>1. /\ Len(q) = Len(t) + Len(<<c>>)
        /\ \A i \in 1 .. Len(t) + Len(<<c>>) : q[i] = IF i <= Len(t) THEN t[i] ELSE <<c>>[i - Len(t)]
    BY <1>2, <1>4, ConcatProperties
  <2>. QED BY <1>1, <1>2, <2>1
<1>7. p \o x = q \o y
  BY <1>3, <1>4
<1>8. \A i \in 1 .. Len(p) : (p \o x)[i] = p[i]
  BY <1>1, <1>5, ConcatProperties
<1>9. \A i \in 1 .. Len(q) : (q \o y)[i] = q[i]
  BY <1>1, <1>6, ConcatProperties
<1>10. \A i \in 1 .. Len(s) : s[i] # c
  BY <1>1 DEF Range
<1>11. \A i \in 1 .. Len(t) : t[i] # c
  BY <1>1 DEF Range
<1>12. Len(s) = Len(t)
  <2>1. ASSUME Len(s) < Len(t) PROVE FALSE
    <3>1. PICK i \in 1 .. Len(t) : i = Len(s) + 1 /\ i \in 1 .. Len(p) /\ i \in 1 .. Len(q)
      BY <1>1, <1>5, <1>6, <2>1
    <3>2. p[i] = c /\ q[i] = t[i]
      BY <1>5, <1>6, <3>1
    <3>. QED BY <1>7, <1>8, <1>9, <1>11, <3>1, <3>2, Zenon
  <2>2. ASSUME Len(t) < Len(s) PROVE FALSE
    <3>1. PICK i \in 1 .. Len(s) : i = Len(t) + 1 /\ i \in 1 .. Len(p) /\ i \in 1 .. Len(q)
      BY <1>1, <1>5, <1>6, <2>2
    <3>2. q[i] = c /\ p[i] = s[i]
      BY <1>5, <1>6, <3>1
    <3>. QED BY <1>7, <1>8, <1>9, <1>10, <3>1, <3>2, Zenon
  <2>3. \A m, n \in Nat : m < n \/ n < m \/ m = n
    OBVIOUS
  <2>. QED BY <1>1, <2>1, <2>2, <2>3, Zenon
<1>13. p = q /\ x = y
  <2>1. Len(p) = Len(q)
    BY <1>5, <1>6, <1>12
  <2>. QED BY <1>7, <2>1, EvenSplit, Zenon
<1>14. s = t
  BY <1>5, <1>6, <1>12, <1>13, SeqEqual
<1>. QED BY <1>13, <1>14

\* Concatenation of Strings with its laws, for steps that need nothing else of it.
Strings == Seq(Chars)
Glue(s, t) == s \o t
Mark(c) == <<c>>

\* Two strings glued are a string.
LEMMA GlueIn == \A s, t \in Strings : Glue(s, t) \in Strings
BY ConcatProperties DEF Strings, Glue

\* How they are put together does not matter.
LEMMA GlueAssociates == \A s, t, u \in Strings : Glue(Glue(s, t), u) = Glue(s, Glue(t, u))
BY ConcatAssociative DEF Strings, Glue

\* One character is a string, and not the empty one.
LEMMA MarkIn == \A c \in Chars : Mark(c) \in Strings /\ Mark(c) # << >>
BY DEF Strings, Mark

\* Nothing vanishes by gluing.
LEMMA GlueNotEmpty == \A s, t \in Strings : s # << >> \/ t # << >> => Glue(s, t) # << >>
BY ConcatEqualIffEmpty DEF Strings, Glue

\* EvenSplit, of glued strings.
LEMMA GlueSplit ==
    \A s, t, x, y \in Strings : Glue(s, x) = Glue(t, y) /\ Len(s) = Len(t) => s = t /\ x = y
BY EvenSplit, Zenon DEF Strings, Glue

\* SeparatedApart, of glued strings.
LEMMA GlueMarked ==
    \A c \in Chars : \A s, t, x, y \in Strings :
        c \notin Range(s) /\ c \notin Range(t) /\ Glue(Glue(s, Mark(c)), x) = Glue(Glue(t, Mark(c)), y)
            => s = t /\ x = y
BY SeparatedApart, Zenon DEF Strings, Glue, Mark

\* What FlattenSeq has run together after each of the first k texts of its list.
IsRun(g, list, k, S) ==
    /\ g \in [0 .. k -> Seq(S)] /\ g[0] = << >>
    /\ \A i \in 1 .. k : g[i] = g[i - 1] \o list[i]

\* Nothing is run together at first.
LEMMA RunStart == ASSUME NEW S, NEW list PROVE \E g : IsRun(g, list, 0, S)
<1>1. PICK none \in Seq(S) : none = << >>
  BY EmptySeq
<1>2. PICK g : g = [i \in 0 .. 0 |-> none]
  OBVIOUS
<1>3. g \in [0 .. 0 -> Seq(S)] /\ g[0] = none /\ 1 .. 0 = {}
  BY <1>2
<1>. QED BY <1>1, <1>3 DEF IsRun

\* One text more goes behind the others.
LEMMA RunStep ==
    ASSUME NEW S, NEW list, NEW k \in Nat, NEW g, IsRun(g, list, k, S), list[k + 1] \in Seq(S)
    PROVE  \E h : IsRun(h, list, k + 1, S)
<1>1. g \in [0 .. k -> Seq(S)] /\ g[0] = << >> /\ \A i \in 1 .. k : g[i] = g[i - 1] \o list[i]
  BY DEF IsRun
<1>2. k \in 0 .. k /\ g[k] \in Seq(S)
  BY <1>1
<1>3. PICK last \in Seq(S) : last = g[k] \o list[k + 1]
  BY <1>2, ConcatProperties
<1>4. PICK h : h = [i \in 0 .. k + 1 |-> IF i = k + 1 THEN last ELSE g[i]]
  OBVIOUS
<1>5. /\ h \in [0 .. k + 1 -> Seq(S)] /\ h[k + 1] = last
      /\ \A i \in 0 .. k : h[i] = g[i]
  <2>1. \A i \in 0 .. k + 1 : i # k + 1 => i \in 0 .. k
    OBVIOUS
  <2>2. \A i \in 0 .. k : i \in 0 .. k + 1 /\ i # k + 1
    OBVIOUS
  <2>3. k + 1 \in 0 .. k + 1
    OBVIOUS
  <2>. QED BY <1>1, <1>3, <1>4, <2>1, <2>2, <2>3, Zenon
<1>6. h[0] = << >>
  <2>1. 0 \in 0 .. k
    OBVIOUS
  <2>. QED BY <1>1, <1>5, <2>1, Zenon
<1>7. ASSUME NEW i \in 1 .. k + 1 PROVE h[i] = h[i - 1] \o list[i]
  <2>1. CASE i = k + 1
    <3>1. i - 1 = k
      BY <2>1
    <3>. QED BY <1>2, <1>3, <1>5, <2>1, <3>1, Zenon
  <2>2. CASE i # k + 1
    <3>1. i \in 1 .. k /\ i \in 0 .. k /\ i - 1 \in 0 .. k
      BY <2>2
    <3>2. h[i] = g[i] /\ h[i - 1] = g[i - 1] /\ g[i] = g[i - 1] \o list[i]
      BY <1>1, <1>5, <3>1, Zenon
    <3>. QED BY <3>2, Zenon
  <2>. QED BY <2>1, <2>2
<1>8. IsRun(h, list, k + 1, S)
  BY <1>5, <1>6, <1>7, Zenon DEF IsRun
<1>. QED BY <1>8

\* Every list has its runs, to the end.
LEMMA RunsExist ==
    ASSUME NEW S, NEW list \in Seq(Seq(S))
    PROVE  \E g : IsRun(g, list, Len(list), S)
<1>1. PICK n \in Nat : n = Len(list) /\ \A i \in 1 .. n : list[i] \in Seq(S)
  BY LenProperties, ElementOfSeq
<1>2. PICK good : good = {k \in Nat : k <= n => \E g : IsRun(g, list, k, S)}
  OBVIOUS
<1>3. 0 \in good
  BY <1>2, RunStart
<1>4. ASSUME NEW k \in Nat, k \in good PROVE k + 1 \in good
  <2>. SUFFICES ASSUME k + 1 <= n PROVE \E h : IsRun(h, list, k + 1, S)
    <3>1. k + 1 \in Nat
      OBVIOUS
    <3>. QED BY <1>2, <3>1, Zenon
  <2>1. k <= n /\ k + 1 \in 1 .. n
    BY <1>1
  <2>2. PICK g : IsRun(g, list, k, S)
    BY <1>2, <1>4, <2>1
  <2>. QED BY <1>1, <2>1, <2>2, RunStep
<1>5. Nat \subseteq good
  BY <1>3, <1>4, SetInduction
<1>6. n \in good /\ n <= n
  BY <1>1, <1>5
<1>. QED BY <1>1, <1>2, <1>6, Zenon

\* FlattenSeq's result is the last of them.
LEMMA FlattenRuns ==
    ASSUME NEW S, NEW list \in Seq(Seq(S)), NEW g, IsRun(g, list, Len(list), S)
    PROVE  FlattenSeq(list) = g[Len(list)]
<1>1. PICK n \in Nat : n = Len(list) /\ \A i \in 1 .. n : list[i] \in Seq(S)
  BY LenProperties, ElementOfSeq
<1>2. g \in [0 .. n -> Seq(S)] /\ g[0] = << >> /\ \A i \in 1 .. n : g[i] = g[i - 1] \o list[i]
  BY <1>1 DEF IsRun
<1>3. CASE n = 0
  <2>1. list = << >>
    BY <1>1, <1>3, EmptySeq
  <2>2. FlattenSeq(list) = list
    BY <1>1, <1>3 DEF FlattenSeq
  <2>. QED BY <1>1, <1>2, <1>3, <2>1, <2>2, Zenon
<1>4. CASE n # 0
  <2>. DEFINE Flat(f) == f = [i \in 1 .. n |-> IF i = 1 THEN list[i] ELSE f[i - 1] \o list[i]]
              flatten == CHOOSE f : Flat(f)
  <2>1. PICK first : first = [i \in 1 .. n |-> g[i]]
    OBVIOUS
  <2>2. 1 \in 1 .. n /\ 0 \in 0 .. n
    BY <1>1, <1>4
  <2>3. g[1] = list[1]
    <3>1. 1 - 1 = 0 /\ list[1] \in Seq(S)
      BY <1>1, <2>2
    <3>2. << >> \o list[1] = list[1]
      BY <3>1, ConcatEmptySeq
    <3>3. g[1] = g[1 - 1] \o list[1]
      BY <1>2, <2>2, Zenon
    <3>. QED BY <1>2, <3>1, <3>2, <3>3, Zenon
  <2>4. \A i \in 1 .. n : i # 1 => i - 1 \in 1 .. n
    BY <1>1
  <2>5. Flat(first)
    <3>1. \A i \in 1 .. n : g[i] = IF i = 1 THEN list[i] ELSE first[i - 1] \o list[i]
      BY <1>2, <2>1, <2>3, <2>4, Zenon
    <3>. QED BY <2>1, <3>1, Zenon
  <2>6. Flat(flatten)
    BY <2>5, Zenon
  <2>7. FlattenSeq(list) = flatten[n]
    BY <1>1, <1>4 DEF FlattenSeq
  <2>. HIDE DEF flatten
  <2>8. /\ flatten[1] = list[1]
        /\ \A i \in 1 .. n : i # 1 => flatten[i] = flatten[i - 1] \o list[i]
    BY <2>2, <2>6, Zenon
  <2>9. PICK good : good = {k \in Nat : k + 1 <= n => flatten[k + 1] = g[k + 1]}
    OBVIOUS
  <2>10. 0 \in good
    <3>1. 0 + 1 = 1 /\ 0 \in Nat
      OBVIOUS
    <3>. QED BY <2>3, <2>8, <2>9, <3>1, Zenon
  <2>11. ASSUME NEW k \in Nat, k \in good PROVE k + 1 \in good
    <3>. SUFFICES ASSUME (k + 1) + 1 <= n PROVE flatten[(k + 1) + 1] = g[(k + 1) + 1]
      <4>1. k + 1 \in Nat
        OBVIOUS
      <4>. QED BY <2>9, <4>1, Zenon
    <3>1. PICK i \in 1 .. n : i = (k + 1) + 1 /\ i # 1 /\ i - 1 = k + 1 /\ k + 1 <= n
      BY <1>1
    <3>2. flatten[i - 1] = g[i - 1]
      BY <2>9, <2>11, <3>1, Zenon
    <3>. QED BY <1>2, <2>8, <3>1, <3>2, Zenon
  <2>12. Nat \subseteq good
    BY <2>10, <2>11, SetInduction
  <2>13. PICK k \in Nat : k + 1 = n /\ k + 1 <= n
    <3>1. n - 1 \in Nat /\ (n - 1) + 1 = n /\ (n - 1) + 1 <= n
      BY <1>1, <1>4
    <3>. QED BY <3>1, Zenon
  <2>14. flatten[n] = g[n]
    BY <2>9, <2>12, <2>13, Zenon
  <2>. QED BY <1>1, <2>7, <2>14, Zenon
<1>. QED BY <1>3, <1>4

\* A code of Strings for the members of a set, each followed by anything and still readable.
Readable(enc) ==
    /\ \A p \in DOMAIN enc : enc[p] \in Strings /\ enc[p] # << >>
    /\ \A p, q \in DOMAIN enc : \A x, y \in Strings :
            Glue(enc[p], x) = Glue(enc[q], y) => p = q /\ x = y

\* What was run together up to some place is a beginning of the whole.
AllBegin(g, n, S) == \A k \in 0 .. n : \E x \in Seq(S) : g[n] = g[k] \o x

\* It is so at every stage of a run.
LEMMA RunBegins ==
    ASSUME NEW S, NEW list, NEW n \in Nat, NEW g, IsRun(g, list, n, S),
           \A i \in 1 .. n : list[i] \in Seq(S)
    PROVE  AllBegin(g, n, S)
<1>1. /\ g \in [0 .. n -> Seq(S)]
      /\ \A i \in 1 .. n : g[i] = g[i - 1] \o list[i]
  BY DEF IsRun
<1>2. PICK good : good = {d \in Nat : d <= n => \E x \in Seq(S) : g[n] = g[n - d] \o x}
  OBVIOUS
<1>3. 0 \in good
  <2>1. n - 0 = n /\ n \in 0 .. n /\ 0 \in Nat
    OBVIOUS
  <2>2. g[n] \in Seq(S)
    BY <1>1, <2>1
  <2>3. g[n] = g[n] \o << >> /\ << >> \in Seq(S)
    BY <2>2, ConcatEmptySeq, EmptySeq
  <2>. QED BY <1>2, <2>1, <2>3, Zenon
<1>4. ASSUME NEW d \in Nat, d \in good PROVE d + 1 \in good
  <2>1. d + 1 \in Nat
    OBVIOUS
  <2>. SUFFICES ASSUME d + 1 <= n PROVE \E x \in Seq(S) : g[n] = g[n - (d + 1)] \o x
    BY <1>2, <2>1, Zenon
  <2>2. PICK i \in 1 .. n : /\ i = n - d /\ i - 1 = n - (d + 1) /\ d <= n
                            /\ i \in 0 .. n /\ i - 1 \in 0 .. n
    OBVIOUS
  <2>3. PICK x \in Seq(S) : g[n] = g[i] \o x
    BY <1>2, <1>4, <2>2, Zenon
  <2>4. PICK s \in Seq(S) : s = g[i - 1]
    BY <1>1, <2>2, Zenon
  <2>5. PICK t \in Seq(S) : t = list[i]
    BY <2>2, Zenon
  <2>6. g[n] = (s \o t) \o x
    BY <1>1, <2>2, <2>3, <2>4, <2>5, Zenon
  <2>7. (s \o t) \o x = s \o (t \o x) /\ t \o x \in Seq(S)
    BY ConcatAssociative, ConcatProperties
  <2>. QED BY <2>2, <2>4, <2>6, <2>7, Zenon
<1>5. Nat \subseteq good
  BY <1>3, <1>4, SetInduction
<1>6. ASSUME NEW k \in 0 .. n PROVE \E x \in Seq(S) : g[n] = g[k] \o x
  <2>1. PICK d \in Nat : d <= n /\ n - d = k
    <3>1. n - k \in Nat /\ n - k <= n /\ n - (n - k) = k
      OBVIOUS
    <3>. QED BY <3>1, Zenon
  <2>. QED BY <1>2, <1>5, <2>1, Zenon
<1>. QED BY <1>6 DEF AllBegin

\* The code of a list: its elements' codes run together.
Coded(enc, a) == [i \in DOMAIN a |-> enc[a[i]]]

\* How the code of a list is made: from the left, one element's code after the other, and every
\* stage is a beginning of the whole.
IsMade(g, enc, a) ==
    /\ g \in [0 .. Len(a) -> Strings] /\ g[0] = << >>
    /\ \A i \in 1 .. Len(a) : g[i] = g[i - 1] \o enc[a[i]]
    /\ \A k \in 0 .. Len(a) : \E x \in Strings : FlattenSeq(Coded(enc, a)) = g[k] \o x
    /\ FlattenSeq(Coded(enc, a)) = g[Len(a)]

\* Every list of readable elements has its code made in this way.
LEMMA CodeIsMade ==
    ASSUME NEW enc, Readable(enc), NEW a \in Seq(DOMAIN enc)
    PROVE  \E g : IsMade(g, enc, a)
<1>1. PICK n \in Nat : n = Len(a) /\ DOMAIN a = 1 .. n /\ \A i \in 1 .. n : a[i] \in DOMAIN enc
  BY LenProperties, ElementOfSeq
<1>2. PICK list : list = Coded(enc, a)
  OBVIOUS
<1>3. \A i \in 1 .. n : enc[a[i]] \in Strings
  BY <1>1 DEF Readable
<1>4. list = [i \in 1 .. n |-> enc[a[i]]] /\ list \in [1 .. n -> Strings]
  BY <1>1, <1>2, <1>3, Zenon DEF Coded
<1>5. list \in Seq(Strings) /\ Len(list) = n
  BY <1>4
<1>6. \A i \in 1 .. n : list[i] = enc[a[i]] /\ list[i] \in Strings
  BY <1>3, <1>4, Zenon
<1>7. PICK g : IsRun(g, list, Len(list), Chars)
  BY <1>5, RunsExist DEF Strings
<1>8. FlattenSeq(list) = g[n]
  BY <1>5, <1>7, FlattenRuns DEF Strings
<1>9. IsRun(g, list, n, Chars)
  BY <1>5, <1>7, Zenon
<1>10. \A k \in 0 .. n : \E x \in Strings : g[n] = g[k] \o x
  <2>1. \A i \in 1 .. n : list[i] \in Strings
    BY <1>6, Zenon
  <2>2. n \in Nat
    BY <1>1
  <2>3. AllBegin(g, n, Chars)
    BY <1>9, <2>1, <2>2, RunBegins DEF Strings
  <2>. QED BY <2>3, Zenon DEF AllBegin, Strings
<1>11. IsMade(g, enc, a)
  <2>1. g \in [0 .. n -> Strings] /\ g[0] = << >> /\ \A i \in 1 .. n : g[i] = g[i - 1] \o list[i]
    BY <1>9 DEF IsRun, Strings
  <2>2. \A i \in 1 .. n : g[i] = g[i - 1] \o enc[a[i]]
    BY <1>6, <2>1, Zenon
  <2>. QED BY <1>1, <1>2, <1>8, <1>10, <2>1, <2>2, Zenon DEF IsMade
<1>. QED BY <1>11, Zenon

\* Two lists with the same code have the same elements as far as both go.
LEMMA SameSoFar ==
    ASSUME NEW enc, Readable(enc), NEW a \in Seq(DOMAIN enc), NEW b \in Seq(DOMAIN enc),
           NEW g, IsMade(g, enc, a), NEW h, IsMade(h, enc, b),
           FlattenSeq(Coded(enc, a)) = FlattenSeq(Coded(enc, b)), Len(a) <= Len(b)
    PROVE  g[Len(a)] = h[Len(a)] /\ \A i \in 1 .. Len(a) : a[i] = b[i]
<1>1. PICK m \in Nat : m = Len(a) /\ \A i \in 1 .. m : a[i] \in DOMAIN enc
  BY LenProperties, ElementOfSeq
<1>2. PICK n \in Nat : n = Len(b) /\ \A i \in 1 .. n : b[i] \in DOMAIN enc
  BY LenProperties, ElementOfSeq
<1>3. PICK whole : whole = FlattenSeq(Coded(enc, a)) /\ whole = FlattenSeq(Coded(enc, b))
  OBVIOUS
<1>4. /\ g \in [0 .. m -> Strings] /\ g[0] = << >>
      /\ \A i \in 1 .. m : g[i] = g[i - 1] \o enc[a[i]]
      /\ \A k \in 0 .. m : \E x \in Strings : whole = g[k] \o x
  BY <1>1, <1>3, Zenon DEF IsMade
<1>5. /\ h \in [0 .. n -> Strings] /\ h[0] = << >>
      /\ \A i \in 1 .. n : h[i] = h[i - 1] \o enc[b[i]]
      /\ \A k \in 0 .. n : \E x \in Strings : whole = h[k] \o x
  BY <1>2, <1>3, Zenon DEF IsMade
<1>6. m <= n
  BY <1>1, <1>2
<1>7. ASSUME NEW i \in 1 .. m, g[i - 1] = h[i - 1]
      PROVE  a[i] = b[i] /\ g[i] = h[i]
  <2>1. i \in 0 .. m /\ i \in 1 .. n /\ i \in 0 .. n /\ i - 1 \in 0 .. m
    BY <1>6
  <2>2. PICK x \in Strings : whole = g[i] \o x
    BY <1>4, <2>1, Zenon
  <2>3. PICK y \in Strings : whole = h[i] \o y
    BY <1>5, <2>1, Zenon
  <2>4. PICK s \in Strings : s = g[i - 1] /\ s = h[i - 1]
    BY <1>4, <1>7, <2>1, Zenon
  <2>5. PICK p \in DOMAIN enc : p = a[i]
    BY <1>1, <2>1, Zenon
  <2>6. PICK q \in DOMAIN enc : q = b[i]
    BY <1>2, <2>1, Zenon
  <2>7. PICK v \in Strings : v = enc[p]
    BY <2>5, Zenon DEF Readable
  <2>8. PICK w \in Strings : w = enc[q]
    BY <2>6, Zenon DEF Readable
  <2>9. g[i] = Glue(s, v) /\ h[i] = Glue(s, w)
    BY <1>4, <1>5, <2>1, <2>4, <2>5, <2>6, <2>7, <2>8, Zenon DEF Glue
  <2>10. Glue(Glue(s, v), x) = Glue(Glue(s, w), y)
    BY <2>2, <2>3, <2>9, Zenon DEF Glue
  <2>11. Glue(v, x) = Glue(w, y)
    <3>1. Glue(v, x) \in Strings /\ Glue(w, y) \in Strings
      BY <2>2, <2>3, <2>7, <2>8, GlueIn
    <3>2. Glue(s, Glue(v, x)) = Glue(s, Glue(w, y))
      BY <2>2, <2>3, <2>4, <2>7, <2>8, <2>10, GlueAssociates
    <3>. QED BY <2>4, <3>1, <3>2, GlueSplit
  <2>12. p = q
    BY <2>2, <2>3, <2>5, <2>6, <2>7, <2>8, <2>11 DEF Readable
  <2>. QED BY <2>5, <2>6, <2>7, <2>8, <2>9, <2>12, Zenon
<1>8. PICK good : good = {k \in Nat : k <= m => g[k] = h[k] /\ \A i \in 1 .. k : a[i] = b[i]}
  OBVIOUS
<1>9. 0 \in good
  <2>1. 0 \in Nat /\ \A i \in 1 .. 0 : FALSE
    OBVIOUS
  <2>. QED BY <1>4, <1>5, <1>8, <2>1, Zenon
<1>10. ASSUME NEW k \in Nat, k \in good PROVE k + 1 \in good
  <2>1. k + 1 \in Nat
    OBVIOUS
  <2>. SUFFICES ASSUME k + 1 <= m PROVE g[k + 1] = h[k + 1] /\ \A i \in 1 .. k + 1 : a[i] = b[i]
    BY <1>8, <2>1, Zenon
  <2>2. k <= m /\ k + 1 \in 1 .. m /\ (k + 1) - 1 = k
    BY <1>1
  <2>3. g[k] = h[k] /\ \A i \in 1 .. k : a[i] = b[i]
    BY <1>8, <1>10, <2>2, Zenon
  <2>4. a[k + 1] = b[k + 1] /\ g[k + 1] = h[k + 1]
    BY <1>7, <2>2, <2>3, Zenon
  <2>5. \A i \in 1 .. k + 1 : i \in 1 .. k \/ i = k + 1
    OBVIOUS
  <2>. QED BY <2>3, <2>4, <2>5, Zenon
<1>11. Nat \subseteq good
  BY <1>9, <1>10, SetInduction
<1>12. m \in good /\ m <= m
  BY <1>11
<1>. QED BY <1>1, <1>8, <1>12, Zenon

\* A list whose elements can be read one by one can be read.
LEMMA ShorterRead ==
    ASSUME NEW enc, Readable(enc), NEW a \in Seq(DOMAIN enc), NEW b \in Seq(DOMAIN enc),
           FlattenSeq(Coded(enc, a)) = FlattenSeq(Coded(enc, b)), Len(a) <= Len(b)
    PROVE  a = b
<1>1. PICK g : IsMade(g, enc, a)
  BY CodeIsMade
<1>2. PICK h : IsMade(h, enc, b)
  BY CodeIsMade
<1>3. PICK m \in Nat : m = Len(a)
  BY LenProperties
<1>4. PICK n \in Nat : n = Len(b) /\ \A i \in 1 .. n : b[i] \in DOMAIN enc
  BY LenProperties, ElementOfSeq
<1>5. m <= n
  BY <1>3, <1>4
<1>6. g[m] = h[m] /\ \A i \in 1 .. m : a[i] = b[i]
  BY <1>1, <1>2, <1>3, SameSoFar
<1>7. CASE m = n
  BY <1>3, <1>4, <1>6, <1>7, SeqEqual
<1>8. CASE m # n
  <2>1. PICK i \in 1 .. n : i = m + 1 /\ i - 1 = m /\ i \in 0 .. n /\ m \in 0 .. n
    BY <1>5, <1>8
  <2>2. h \in [0 .. n -> Strings] /\ h[i] = h[i - 1] \o enc[b[i]]
    BY <1>2, <1>4, <2>1, Zenon DEF IsMade
  <2>3. PICK x \in Strings : FlattenSeq(Coded(enc, b)) = h[i] \o x
    BY <1>2, <1>4, <2>1, Zenon DEF IsMade
  <2>4. FlattenSeq(Coded(enc, a)) = g[m]
    BY <1>1, <1>3, Zenon DEF IsMade
  <2>5. PICK s \in Strings : s = h[m]
    BY <2>1, <2>2, Zenon
  <2>6. PICK more \in Strings : more = enc[b[i]] /\ more # << >>
    BY <1>4, <2>1, Zenon DEF Readable
  <2>7. s = (s \o more) \o x
    BY <1>6, <2>1, <2>2, <2>3, <2>4, <2>5, <2>6, Zenon
  <2>8. Len(s) \in Nat /\ Len(more) \in Nat \ {0} /\ Len(x) \in Nat
    BY <2>6, EmptySeq, LenProperties DEF Strings
  <2>9. s \o more \in Strings /\ Len(s \o more) = Len(s) + Len(more)
    BY ConcatProperties DEF Strings
  <2>10. Len((s \o more) \o x) = Len(s \o more) + Len(x)
    BY <2>9, ConcatProperties DEF Strings
  <2>11. Len(s) = Len(s) + Len(more) + Len(x)
    BY <2>7, <2>9, <2>10, Zenon
  <2>. QED BY <2>8, <2>11
<1>. QED BY <1>7, <1>8

\* ... whichever of two such lists is the longer.
LEMMA ListRead ==
    ASSUME NEW enc, Readable(enc), NEW a \in Seq(DOMAIN enc), NEW b \in Seq(DOMAIN enc),
           FlattenSeq(Coded(enc, a)) = FlattenSeq(Coded(enc, b))
    PROVE  a = b
<1>1. Len(a) \in Nat /\ Len(b) \in Nat
  BY LenProperties
<1>2. Len(a) <= Len(b) \/ Len(b) <= Len(a)
  BY <1>1
<1>. QED BY <1>2, ShorterRead

-----------------------------------------------------------------------------
Pairs == Texts \X Texts

\* The hooks' code of an attribute, and acl's.
HooksCode == [pair \in Pairs |-> Prefixed(pair[1]) \o Prefixed(pair[2])]
AuditCode == [pair \in {p \in Pairs : PlainPair(p)} |->
                 pair[1] \o <<Equals>> \o pair[2] \o <<Unit>>]

\* A list of one.
LEMMA Single ==
    ASSUME NEW S, NEW c \in S
    PROVE  <<c>> \in Seq(S) /\ Len(<<c>>) = 1 /\ <<c>>[1] = c /\ <<c>> # << >>
OBVIOUS

\* A text's length is one that can be written, in digits.
LEMMA LengthWritten ==
    ASSUME NEW a \in Texts
    PROVE  /\ a \in Strings /\ Len(a) \in 0 .. LongestText
           /\ Decimal[Len(a)] \in Strings /\ ":" \notin Range(Decimal[Len(a)])
<1>1. a \in Strings /\ Len(a) <= LongestText
  BY DEF Texts, Strings
<1>2. Len(a) \in Nat /\ LongestText \in Nat
  BY <1>1, LenProperties, TextAssumption DEF Strings
<1>3. Len(a) \in 0 .. LongestText
  BY <1>1, <1>2
<1>. QED BY <1>1, <1>3, TextAssumption, Zenon DEF Strings

\* A text after its length is a string with something in it.
LEMMA PrefixedText ==
    ASSUME NEW a \in Texts
    PROVE  Prefixed(a) \in Strings /\ Prefixed(a) # << >>
<1>1. PICK c \in Chars : c = ":"
  BY TextAssumption
<1>2. PICK k \in Strings : k = Decimal[Len(a)]
  BY LengthWritten, Zenon
<1>3. a \in Strings
  BY LengthWritten
<1>4. Prefixed(a) = Glue(Glue(k, Mark(c)), a)
  BY <1>1, <1>2, Zenon DEF Prefixed, Glue, Mark
<1>5. Glue(k, Mark(c)) \in Strings /\ Glue(k, Mark(c)) # << >>
  BY <1>1, <1>2, MarkIn, GlueIn, GlueNotEmpty
<1>. QED BY <1>3, <1>4, <1>5, GlueIn, GlueNotEmpty

\* What a text after its length was, and what follows it, can be told (Prefixed).
LEMMA PrefixedRead ==
    ASSUME NEW a \in Texts, NEW b \in Texts, NEW x \in Strings, NEW y \in Strings,
           Glue(Prefixed(a), x) = Glue(Prefixed(b), y)
    PROVE  a = b /\ x = y
<1>1. a \in Strings /\ b \in Strings
  BY LengthWritten
<1>2. PICK c \in Chars : c = ":"
  BY TextAssumption
<1>3. PICK k \in Strings : k = Decimal[Len(a)] /\ c \notin Range(k)
  BY <1>2, LengthWritten, Zenon
<1>4. PICK l \in Strings : l = Decimal[Len(b)] /\ c \notin Range(l)
  BY <1>2, LengthWritten, Zenon
<1>5. Prefixed(a) = Glue(Glue(k, Mark(c)), a) /\ Prefixed(b) = Glue(Glue(l, Mark(c)), b)
  BY <1>2, <1>3, <1>4, Zenon DEF Prefixed, Glue, Mark
<1>6. Glue(Glue(k, Mark(c)), Glue(a, x)) = Glue(Glue(l, Mark(c)), Glue(b, y))
  <2>1. Glue(k, Mark(c)) \in Strings /\ Glue(l, Mark(c)) \in Strings
    BY <1>2, <1>3, <1>4, MarkIn, GlueIn
  <2>. QED BY <1>1, <1>5, <2>1, GlueAssociates
<1>7. k = l /\ Glue(a, x) = Glue(b, y)
  <2>1. Glue(a, x) \in Strings /\ Glue(b, y) \in Strings
    BY <1>1, GlueIn
  <2>. QED BY <1>2, <1>3, <1>4, <1>6, <2>1, GlueMarked
<1>8. Len(a) = Len(b)
  <2>1. Len(a) \in 0 .. LongestText /\ Len(b) \in 0 .. LongestText
    BY LengthWritten
  <2>. QED BY <1>3, <1>4, <1>7, <2>1, TextAssumption, Zenon
<1>. QED BY <1>1, <1>7, <1>8, GlueSplit

\* The hooks' code of an attribute can be read.
LEMMA HooksReadable == Readable(HooksCode) /\ DOMAIN HooksCode = Pairs
<1>1. DOMAIN HooksCode = Pairs
  BY DEF HooksCode
<1>2. ASSUME NEW p \in Pairs
      PROVE  /\ HooksCode[p] = Prefixed(p[1]) \o Prefixed(p[2])
             /\ p[1] \in Texts /\ p[2] \in Texts /\ p = <<p[1], p[2]>>
  <2>1. p[1] \in Texts /\ p[2] \in Texts /\ p = <<p[1], p[2]>>
    BY DEF Pairs
  <2>. QED BY <2>1, Zenon DEF HooksCode
<1>3. ASSUME NEW p \in Pairs PROVE HooksCode[p] \in Strings /\ HooksCode[p] # << >>
  <2>1. PICK s \in Strings : s = Prefixed(p[1]) /\ s # << >>
    BY <1>2, PrefixedText
  <2>2. PICK t \in Strings : t = Prefixed(p[2])
    BY <1>2, PrefixedText
  <2>3. HooksCode[p] = Glue(s, t)
    BY <1>2, <2>1, <2>2, Zenon DEF Glue
  <2>. QED BY <2>1, <2>2, <2>3, GlueIn, GlueNotEmpty
<1>4. ASSUME NEW p \in Pairs, NEW q \in Pairs, NEW x \in Strings, NEW y \in Strings,
             Glue(HooksCode[p], x) = Glue(HooksCode[q], y)
      PROVE  p = q /\ x = y
  <2>1. HooksCode[p] = Glue(Prefixed(p[1]), Prefixed(p[2]))
    BY <1>2, Zenon DEF Glue
  <2>2. HooksCode[q] = Glue(Prefixed(q[1]), Prefixed(q[2]))
    BY <1>2, Zenon DEF Glue
  <2>3. \A t \in Texts : Prefixed(t) \in Strings
    BY PrefixedText
  <2>4. Glue(Prefixed(p[1]), Glue(Prefixed(p[2]), x)) = Glue(Prefixed(q[1]), Glue(Prefixed(q[2]), y))
    BY <1>2, <1>4, <2>1, <2>2, <2>3, GlueAssociates
  <2>5. p[1] = q[1] /\ Glue(Prefixed(p[2]), x) = Glue(Prefixed(q[2]), y)
    BY <1>2, <2>3, <2>4, GlueIn, PrefixedRead
  <2>6. p[2] = q[2] /\ x = y
    BY <1>2, <2>5, PrefixedRead
  <2>. QED BY <1>2, <2>5, <2>6, Zenon
<1>. QED BY <1>1, <1>3, <1>4, Zenon DEF Readable

\* acl's code of an attribute can be read, if neither text holds the separator that ends it.
LEMMA AuditReadable ==
    Readable(AuditCode) /\ DOMAIN AuditCode = {p \in Pairs : PlainPair(p)}
<1>1. DOMAIN AuditCode = {p \in Pairs : PlainPair(p)}
  BY DEF AuditCode
<1>2. Equals \in Chars /\ Unit \in Chars
  BY TextAssumption
<1>3. ASSUME NEW p \in Pairs, PlainPair(p)
      PROVE  \E a, b \in Strings :
                /\ p = <<a, b>> /\ Equals \notin Range(a) /\ Unit \notin Range(b)
                /\ AuditCode[p] = Glue(Glue(Glue(a, Mark(Equals)), b), Mark(Unit))
  <2>1. p[1] \in Strings /\ p[2] \in Strings /\ p = <<p[1], p[2]>>
    BY DEF Pairs, Texts, Strings
  <2>2. Equals \notin Range(p[1]) /\ Unit \notin Range(p[2])
    BY <1>3, Zenon DEF PlainPair
  <2>3. AuditCode[p] = Glue(Glue(Glue(p[1], Mark(Equals)), p[2]), Mark(Unit))
    BY <1>3, Zenon DEF AuditCode, Glue, Mark
  <2>. QED BY <2>1, <2>2, <2>3, Zenon
<1>4. ASSUME NEW p \in Pairs, PlainPair(p)
      PROVE  AuditCode[p] \in Strings /\ AuditCode[p] # << >>
  <2>1. PICK a, b \in Strings : AuditCode[p] = Glue(Glue(Glue(a, Mark(Equals)), b), Mark(Unit))
    BY <1>3, <1>4, Zenon
  <2>. QED BY <1>2, <2>1, MarkIn, GlueIn, GlueNotEmpty
<1>5. ASSUME NEW p \in Pairs, PlainPair(p), NEW q \in Pairs, PlainPair(q),
             NEW x \in Strings, NEW y \in Strings, Glue(AuditCode[p], x) = Glue(AuditCode[q], y)
      PROVE  p = q /\ x = y
  <2>1. PICK a, b \in Strings :
            /\ p = <<a, b>> /\ Equals \notin Range(a) /\ Unit \notin Range(b)
            /\ AuditCode[p] = Glue(Glue(Glue(a, Mark(Equals)), b), Mark(Unit))
    BY <1>3, <1>5, Zenon
  <2>2. PICK c, d \in Strings :
            /\ q = <<c, d>> /\ Equals \notin Range(c) /\ Unit \notin Range(d)
            /\ AuditCode[q] = Glue(Glue(Glue(c, Mark(Equals)), d), Mark(Unit))
    BY <1>3, <1>5, Zenon
  <2>3. PICK bx \in Strings : bx = Glue(Glue(b, Mark(Unit)), x)
    BY <1>2, <2>1, MarkIn, GlueIn
  <2>4. PICK dy \in Strings : dy = Glue(Glue(d, Mark(Unit)), y)
    BY <1>2, <2>2, MarkIn, GlueIn
  <2>5. ASSUME NEW s \in Strings, NEW t \in Strings, NEW z \in Strings
        PROVE  Glue(Glue(Glue(Glue(s, Mark(Equals)), t), Mark(Unit)), z)
                    = Glue(Glue(s, Mark(Equals)), Glue(Glue(t, Mark(Unit)), z))
    <3>1. Mark(Equals) \in Strings /\ Mark(Unit) \in Strings
      BY <1>2, MarkIn
    <3>2. PICK se \in Strings : se = Glue(s, Mark(Equals))
      BY <3>1, GlueIn
    <3>3. Glue(t, Mark(Unit)) \in Strings
      BY <3>1, GlueIn
    <3>4. Glue(Glue(se, t), Mark(Unit)) = Glue(se, Glue(t, Mark(Unit)))
      BY <3>1, <3>2, GlueAssociates
    <3>5. Glue(Glue(se, Glue(t, Mark(Unit))), z) = Glue(se, Glue(Glue(t, Mark(Unit)), z))
      BY <3>2, <3>3, GlueAssociates
    <3>. QED BY <3>2, <3>4, <3>5, Zenon
  <2>6. a = c /\ bx = dy
    <3>1. Glue(Glue(a, Mark(Equals)), bx) = Glue(Glue(c, Mark(Equals)), dy)
      BY <1>5, <2>1, <2>2, <2>3, <2>4, <2>5
    <3>. QED BY <1>2, <2>1, <2>2, <2>3, <2>4, <3>1, GlueMarked
  <2>7. b = d /\ x = y
    BY <1>2, <2>1, <2>2, <2>3, <2>4, <2>6, GlueMarked
  <2>. QED BY <2>1, <2>2, <2>6, <2>7, Zenon
<1>. QED BY <1>1, <1>4, <1>5, Zenon DEF Readable

\* The code of a list of readable elements is a text.
LEMMA CodeIsText ==
    ASSUME NEW enc, Readable(enc), NEW a \in Seq(DOMAIN enc)
    PROVE  FlattenSeq(Coded(enc, a)) \in Strings
<1>1. PICK g : IsMade(g, enc, a)
  BY CodeIsMade
<1>2. PICK n \in Nat : n = Len(a) /\ n \in 0 .. n
  BY LenProperties
<1>. QED BY <1>1, <1>2, Zenon DEF IsMade

\* The hooks' keys are the codes of their tuples' attributes, the name first.
LEMMA HooksKey ==
    ASSUME NEW a \in Seq(Pairs)
    PROVE  AttributesKey(a) = FlattenSeq(Coded(HooksCode, a)) /\ AttributesKey(a) \in Strings
<1>1. \A i \in DOMAIN a : a[i] \in Pairs
  BY LenProperties, ElementOfSeq
<1>2. Coded(HooksCode, a) = [i \in DOMAIN a |-> Prefixed(a[i][1]) \o Prefixed(a[i][2])]
  BY <1>1, Zenon DEF Coded, HooksCode
<1>3. AttributesKey(a) = FlattenSeq(Coded(HooksCode, a))
  BY <1>2, Zenon DEF AttributesKey
<1>4. FlattenSeq(Coded(HooksCode, a)) \in Strings
  BY HooksReadable, CodeIsText
<1>. QED BY <1>3, <1>4, Zenon

\* The name comes first, as an attribute without a value.
LEMMA HooksNameKey ==
    ASSUME NEW p \in Pairs
    PROVE  AttributesKey(<<p>>) = HooksCode[p]
<1>1. PICK a \in Seq(Pairs) : a = <<p>>
  BY Single
<1>2. Len(a) = 1 /\ a[1] = p
  BY <1>1, Single
<1>3. PICK g : IsMade(g, HooksCode, a)
  BY HooksReadable, CodeIsMade
<1>4. 1 \in 1 .. 1 /\ 1 - 1 = 0
  OBVIOUS
<1>5. FlattenSeq(Coded(HooksCode, a)) = << >> \o HooksCode[p]
  BY <1>2, <1>3, <1>4, Zenon DEF IsMade
<1>6. HooksCode[p] \in Strings
  BY HooksReadable, Zenon DEF Readable
<1>7. << >> \o HooksCode[p] = HooksCode[p]
  BY <1>6, ConcatEmptySeq
<1>. QED BY <1>1, <1>5, <1>7, HooksKey, Zenon

\* acl's keys are the codes of their tuples' attributes behind the name.
LEMMA AuditKey ==
    ASSUME NEW a \in Seq({p \in Pairs : PlainPair(p)})
    PROVE  /\ AuditAttributesKey(a) = FlattenSeq(Coded(AuditCode, a))
           /\ AuditAttributesKey(a) \in Strings
<1>1. \A i \in DOMAIN a : a[i] \in {p \in Pairs : PlainPair(p)}
  BY LenProperties, ElementOfSeq
<1>2. Coded(AuditCode, a) = [i \in DOMAIN a |-> a[i][1] \o <<Equals>> \o a[i][2] \o <<Unit>>]
  BY <1>1, Zenon DEF Coded, AuditCode
<1>3. AuditAttributesKey(a) = FlattenSeq(Coded(AuditCode, a))
  BY <1>2, Zenon DEF AuditAttributesKey
<1>4. FlattenSeq(Coded(AuditCode, a)) \in Strings
  BY AuditReadable, CodeIsText
<1>. QED BY <1>3, <1>4, Zenon

\* A tuple is its name and its attributes.
LEMMA TupleParts ==
    /\ \A u \in Tuples : u.name \in Texts /\ u.name \in Strings /\ u.attributes \in Seq(Pairs)
    /\ \A u, v \in Tuples : u.name = v.name /\ u.attributes = v.attributes => u = v
<1>1. ASSUME NEW u \in Tuples
      PROVE  /\ u.name \in Texts /\ u.attributes \in Seq(Pairs)
             /\ u = [name |-> u.name, attributes |-> u.attributes]
  <2>1. u \in [name : Texts, attributes : Seq(Pairs)]
    BY TuplesAssumption, Zenon DEF Pairs
  <2>. QED BY <2>1
<1>2. \A text \in Texts : text \in Strings
  BY DEF Texts, Strings
<1>3. ASSUME NEW u \in Tuples, NEW v \in Tuples, u.name = v.name, u.attributes = v.attributes
      PROVE  u = v
  BY <1>1, <1>3
<1>. QED BY <1>1, <1>2, <1>3, Zenon

\* No two of the hooks' counters have the same key.
LEMMA HooksKeysApart == KeysTellApart("registry")
<1>. SUFFICES ASSUME NEW u \in Tuples, NEW v \in Tuples, Key("registry", u) = Key("registry", v)
              PROVE  u = v
  BY DEF KeysTellApart, TuplesOf
<1>1. << >> \in Texts
  BY TextAssumption, EmptySeq DEF Texts
<1>2. PICK p \in Pairs : p = <<u.name, << >> >>
  BY <1>1, TupleParts DEF Pairs
<1>3. PICK q \in Pairs : q = <<v.name, << >> >>
  BY <1>1, TupleParts DEF Pairs
<1>4. PICK x \in Strings : x = AttributesKey(u.attributes)
  BY TupleParts, HooksKey
<1>5. PICK y \in Strings : y = AttributesKey(v.attributes)
  BY TupleParts, HooksKey
<1>6. Glue(AttributesKey(<<p>>), x) = Glue(AttributesKey(<<q>>), y)
  BY <1>2, <1>3, <1>4, <1>5, Zenon DEF Key, Glue
<1>7. Glue(HooksCode[p], x) = Glue(HooksCode[q], y)
  BY <1>6, HooksNameKey, Zenon
<1>8. p = q /\ x = y
  BY <1>2, <1>3, <1>4, <1>5, <1>7, HooksReadable DEF Readable
<1>9. u.name = v.name
  BY <1>2, <1>3, <1>8
<1>10. FlattenSeq(Coded(HooksCode, u.attributes)) = FlattenSeq(Coded(HooksCode, v.attributes))
  BY <1>4, <1>5, <1>8, TupleParts, HooksKey
<1>11. u.attributes = v.attributes
  BY <1>10, TupleParts, HooksReadable, ListRead
<1>. QED BY <1>9, <1>11, TupleParts

\* No two of acl's counters have, as long as no text holds the separator that ends it.
LEMMA AuditKeysApart == KeysTellApart("audit")
<1>. DEFINE Plains == {p \in Pairs : PlainPair(p)}
<1>. SUFFICES ASSUME NEW u \in Tuples, NEW v \in Tuples, Plain(u), Plain(v),
                     Key("audit", u) = Key("audit", v)
              PROVE  u = v
  BY DEF KeysTellApart, TuplesOf
<1>1. ASSUME NEW w \in Tuples, Plain(w)
      PROVE  w.attributes \in Seq(Plains) /\ Unit \notin Range(w.name)
  <2>1. PICK a \in Seq(Pairs) : a = w.attributes
    BY TupleParts
  <2>2. PICK n \in Nat : n = Len(a) /\ DOMAIN a = 1 .. n /\ a \in [1 .. n -> Pairs]
    BY LenProperties
  <2>3. \A i \in 1 .. n : PlainPair(a[i])
    BY <1>1, <2>1, <2>2, Zenon DEF Plain
  <2>4. a \in [1 .. n -> Plains]
    BY <2>2, <2>3, Zenon
  <2>5. a \in Seq(Plains)
    BY <2>4
  <2>. QED BY <1>1, <2>1, <2>5, Zenon DEF Plain
<1>2. PICK x \in Strings : x = AuditAttributesKey(u.attributes)
  BY <1>1, AuditKey
<1>3. PICK y \in Strings : y = AuditAttributesKey(v.attributes)
  BY <1>1, AuditKey
<1>4. (u.name \o <<Unit>>) \o x = (v.name \o <<Unit>>) \o y
  BY <1>2, <1>3, Zenon DEF Key
<1>5. PICK s \in Strings : s = u.name /\ Unit \notin Range(s)
  BY <1>1, TupleParts
<1>6. PICK t \in Strings : t = v.name /\ Unit \notin Range(t)
  BY <1>1, TupleParts
<1>7. PICK c \in Chars : c = Unit
  BY TextAssumption
<1>8. Glue(Glue(s, Mark(c)), x) = Glue(Glue(t, Mark(c)), y)
  BY <1>4, <1>5, <1>6, <1>7, Zenon DEF Glue, Mark
<1>9. s = t /\ x = y
  BY <1>2, <1>3, <1>5, <1>6, <1>7, <1>8, GlueMarked
<1>10. FlattenSeq(Coded(AuditCode, u.attributes)) = FlattenSeq(Coded(AuditCode, v.attributes))
  BY <1>1, <1>2, <1>3, <1>9, AuditKey
<1>11. u.attributes = v.attributes
  BY <1>1, <1>10, AuditReadable, ListRead
<1>. QED BY <1>5, <1>6, <1>9, <1>11, TupleParts

-----------------------------------------------------------------------------
(* Counters *)

\* The counters added to: one key each, with the tuple it stands for and what was added for it.
CounterInv ==
    LET seen == {u \in Tuples : added[u] > 0} IN
    /\ added \in [Tuples -> Nat]
    /\ seen \subseteq TuplesOf(contract)
    /\ DOMAIN values = {Key(contract, u) : u \in seen} /\ DOMAIN keys = DOMAIN values
    /\ \A u \in seen : /\ values[Key(contract, u)] = added[u]
                       /\ keys[Key(contract, u)] = u

\* At first nothing was added.
LEMMA InitCounterInv == InitCounters => CounterInv
BY EmptySeq DEF InitCounters, CounterInv

\* An addition goes to the counter of its own tuple, because no other one has its key.
LEMMA AddInv ==
    ASSUME CounterInv, KeysTellApart(contract), UNCHANGED contract,
           NEW u \in TuplesOf(contract), Add(contract, u)
    PROVE  CounterInv'
<1>. DEFINE seen == {v \in Tuples : added[v] > 0}
<1>1. u \in Tuples /\ added \in [Tuples -> Nat] /\ seen \subseteq TuplesOf(contract)
  BY DEF CounterInv, TuplesOf
<1>2. PICK key : key = Key(contract, u)
  OBVIOUS
<1>3. \A v \in seen : Key(contract, v) = key => v = u
  BY <1>1, <1>2 DEF KeysTellApart
<1>4. key \in DOMAIN values <=> added[u] > 0
  BY <1>1, <1>2, <1>3 DEF CounterInv
<1>5. added' \in [Tuples -> Nat] /\ seen' = seen \union {u} /\ added'[u] = added[u] + 1
  <2>1. added' = [added EXCEPT ![u] = added[u] + 1]
    BY DEF Add
  <2>2. /\ added' \in [Tuples -> Nat] /\ added'[u] = added[u] + 1
        /\ \A v \in Tuples : v # u => added'[v] = added[v]
    BY <1>1, <2>1
  <2>. QED BY <1>1, <2>2
<1>6. DOMAIN values' = DOMAIN values \union {key} /\ DOMAIN keys' = DOMAIN values'
  BY <1>2 DEF Add, CounterInv
<1>7. DOMAIN values' = {Key(contract, v) : v \in seen \union {u}}
  BY <1>2, <1>6 DEF CounterInv
<1>8. values'[key] = added'[u] /\ keys'[key] = u
  <2>1. CASE key \in DOMAIN values
    BY <1>1, <1>2, <1>4, <1>5, <2>1 DEF Add, CounterInv
  <2>2. CASE key \notin DOMAIN values
    <3>1. added[u] = 0 /\ key \notin DOMAIN keys
      BY <1>1, <1>4, <2>2 DEF CounterInv
    <3>2. values'[key] = 1 /\ keys'[key] = u
      BY <1>2, <2>2, <3>1 DEF Add
    <3>. QED BY <1>5, <3>1, <3>2
  <2>. QED BY <2>1, <2>2
<1>9. ASSUME NEW v \in seen, v # u
      PROVE  values'[Key(contract, v)] = added'[v] /\ keys'[Key(contract, v)] = v
  <2>1. PICK k \in DOMAIN values : k = Key(contract, v) /\ k # key
    BY <1>2, <1>3, <1>9 DEF CounterInv
  <2>2. values'[k] = values[k] /\ keys'[k] = keys[k] /\ added'[v] = added[v]
    BY <1>1, <1>2, <1>9, <2>1 DEF Add, CounterInv
  <2>. QED BY <2>1, <2>2, <1>9 DEF CounterInv
<1>. QED BY <1>1, <1>2, <1>5, <1>6, <1>7, <1>8, <1>9 DEF CounterInv

\* Get reads the counter of its tuple, and a snapshot has one row for each.
LEMMA CounterSafe == ASSUME CounterInv, KeysTellApart(contract) PROVE CountsOf(contract)
<1>. DEFINE seen == {v \in Tuples : added[v] > 0}
<1>1. /\ added \in [Tuples -> Nat] /\ TuplesOf(contract) \subseteq Tuples
      /\ seen \subseteq TuplesOf(contract)
  BY DEF CounterInv, TuplesOf
<1>2. ASSUME NEW u \in TuplesOf(contract) PROVE Get(contract, u) = added[u]
  <2>1. CASE u \in seen
    BY <1>1, <2>1 DEF CounterInv, Get
  <2>2. CASE u \notin seen
    <3>1. added[u] = 0
      BY <1>1, <2>2
    <3>2. Key(contract, u) \notin DOMAIN values
      BY <1>1, <2>2 DEF CounterInv, KeysTellApart
    <3>. QED BY <3>1, <3>2 DEF Get
  <2>. QED BY <2>1, <2>2
<1>3. Snapshot = {[counter |-> u, value |-> added[u]] : u \in seen}
  BY DEF Snapshot, CounterInv
<1>4. \A k, l \in DOMAIN values : keys[k] = keys[l] => k = l
  BY DEF CounterInv
<1>. QED BY <1>2, <1>3, <1>4 DEF CountsOf

-----------------------------------------------------------------------------
(* The contracts together *)

\* The invariant of every part.
Inv == ReachInv /\ SessionInv /\ LineageInv

\* The initial states satisfy the invariant.
LEMMA InitInv == Init => Inv
BY InitReachInv, InitSessionInv, InitLineageInv DEF Init, Inv

\* Whatever one extension does through one object leaves the other parts as they are.
LEMMA OthersKept ==
    /\ ReachInv /\ UNCHANGED reachVars => ReachInv'
    /\ SessionInv /\ UNCHANGED <<reachVars, sessionVars>> => SessionInv'
    /\ LineageInv /\ UNCHANGED lineageVars => LineageInv'
<1>1. ReachInv /\ UNCHANGED reachVars => ReachInv'
  BY NextReachInv
<1>2. SessionInv /\ UNCHANGED <<reachVars, sessionVars>> => SessionInv'
  BY DEF SessionInv, reachVars, sessionVars, given, Builds, User, Loaded, Shown, Usable, Current,
         ActsForItsSession
<1>3. LineageInv /\ UNCHANGED lineageVars => LineageInv'
  BY DEF LineageInv, LineageTyped, Copied, Ended, lineageVars
<1>. QED BY <1>1, <1>2, <1>3

\* Every step keeps the invariant.
LEMMA NextInv == Inv /\ [Next]_vars => Inv'
<1>. SUFFICES ASSUME ReachInv, SessionInv, LineageInv, [Next]_vars
              PROVE  ReachInv' /\ SessionInv' /\ LineageInv'
  BY DEF Inv
<1>1. CASE NextReach /\ UNCHANGED useVars
  <2>1. UNCHANGED sessionVars /\ UNCHANGED lineageVars
    BY <1>1 DEF useVars
  <2>. QED BY <1>1, <2>1, NextReachInv, ReachKeepsSession, OthersKept
<1>2. ASSUME NEW e \in Extensions, Count(e) PROVE ReachInv' /\ SessionInv' /\ LineageInv'
  <2>1. UNCHANGED <<reachVars, sessionVars, lineageVars>>
    BY <1>2 DEF Count
  <2>. QED BY <2>1, OthersKept
<1>3. ASSUME NEW p \in Providers, Register(p) PROVE ReachInv' /\ SessionInv' /\ LineageInv'
  <2>1. UNCHANGED <<reachVars, sessionVars>> /\ (AddProvider(p) \/ RemoveProvider(p))
    BY <1>3 DEF Register
  <2>. QED BY <2>1, AddProviderInv, RemoveProviderInv, OthersKept
<1>4. CASE AskForName
  <2>1. UNCHANGED <<reachVars, sessionVars>>
    BY <1>4 DEF AskForName
  <2>2. Name \/ (\E outcome \in Outcomes : Call(outcome)) \/ NoAnswer
    BY <1>4 DEF AskForName
  <2>. QED BY <2>1, <2>2, NameInv, CallInv, NoAnswerInv, OthersKept
<1>5. CASE UseSession
  <2>1. UNCHANGED reachVars /\ UNCHANGED lineageVars
    BY <1>5 DEF UseSession
  <2>. QED BY <1>5, <2>1, UseSessionInv, OthersKept
<1>6. CASE UNCHANGED vars
  <2>1. UNCHANGED <<reachVars, sessionVars>> /\ UNCHANGED lineageVars
    BY <1>6 DEF vars, useVars
  <2>. QED BY <2>1, OthersKept
<1>. QED BY <1>1, <1>2, <1>3, <1>4, <1>5, <1>6 DEF Next

\* The invariant holds throughout.
LEMMA InvHolds == Spec => []Inv
BY InitInv, NextInv, PTL DEF Spec

\* The object cache never hands a stamped extension an object of another layout: for any number of
\* extensions of any revisions, whoever created the object, whoever holds it was built with its
\* type and its layout, and all of them hold the same one (Reach and its *As forms).
THEOREM ReachedLayout == Spec => []OneObjectOneLayout
<1>1. Inv => OneObjectOneLayout
  BY ReachSafe DEF Inv
<1>. QED BY <1>1, InvHolds, PTL

\* Once answered, always answered the same: a second Reach of the same extension gives the object of
\* the first, and a refusal is repeated.
THEOREM ReachedForGood == Spec => []ReachIsStable
<1>1. Inv => ReachIsStable
  BY ReachSafe DEF Inv
<1>. QED BY <1>1, InvHolds, PTL

\* Nobody acts for a session that is not the running statement's: whatever an extension read of the
\* connection's state and took for the session, with acl's publication in place, is the session of
\* the statement it runs in (QueryBegin, QueryEnd, AclSessionHooks, AclConnectionState).
THEOREM ActsForNobodyElse == Spec => []ActsForItsSession
<1>1. Inv => ActsForItsSession
  BY DEF Inv, SessionInv
<1>. QED BY <1>1, InvHolds, PTL

\* Name asks in registration order and skips nobody who stayed registered, however providers come
\* and go between its calls (AclLineageSources).
THEOREM NameSkipsNobody == Spec => []FirstAnswerWins
<1>1. Inv => FirstAnswerWins
  BY LineageSafe DEF Inv
<1>. QED BY <1>1, InvHolds, PTL

\* A step of any contract keeps the counters' invariant.
LEMMA NextCounterInv == Inv /\ CounterInv /\ [Next]_vars => CounterInv'
<1>. SUFFICES ASSUME Inv, CounterInv, [Next]_vars PROVE CounterInv'
  OBVIOUS
<1>1. UNCHANGED contract
  BY DEF Next, vars, useVars, reachVars, given, NextReach, Reach, StampOf, Pressure, Count, Register,
         AskForName, UseSession
<1>2. ASSUME NEW e \in Extensions, Count(e) PROVE CounterInv'
  <2>1. KeysTellApart(contract)
    BY <1>2, HooksKeysApart, AuditKeysApart DEF Count
  <2>. QED BY <1>1, <1>2, <2>1, AddInv DEF Count
<1>3. ASSUME UNCHANGED counterVars PROVE CounterInv'
  BY <1>1, <1>3 DEF CounterInv, counterVars
<1>4. (\E e \in Extensions : Count(e)) \/ UNCHANGED counterVars
  BY DEF Next, vars, useVars, Register, AskForName, UseSession
<1>. QED BY <1>2, <1>3, <1>4

\* For any names, attributes and values the contract allows, Get and Snapshot answer, for each
\* tuple, what was added for it, by whichever extensions and in whichever order: no two tuples meet
\* under one text, the hooks' because each part follows its length (AttributesKey), acl's because
\* each is ended by a separator it does not hold (AuditAttributesKey).
THEOREM OneValuePerTuple == Spec => []CountPerTuple
<1>1. Init => CounterInv
  BY InitCounterInv DEF Init
<1>2. CounterInv => CountPerTuple
  BY CounterSafe, HooksKeysApart, AuditKeysApart DEF CountPerTuple
<1>. QED BY <1>1, <1>2, InvHolds, NextCounterInv, PTL DEF Spec

=============================================================================
