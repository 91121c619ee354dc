---------------------------- MODULE AclSession ----------------------------
(***************************************************************************)
(* What acl publishes for consumers that act for sessions: the publisher   *)
(* mark on the instance's AclSessionHooks, and one connection's            *)
(* AclConnection with the session its running statement is under.  acl and *)
(* the consumers were built from any revision (ContractReach) and reach    *)
(* the two objects separately, so one may be shared and the other refused. *)
(***************************************************************************)
EXTENDS ContractReach

CONSTANTS
    Acl,                \* the extension that publishes sessions
    Sessions            \* sessions statements run under

\* No session is taken for the lack of one.
ASSUME AclAssumption == Acl \in Extensions /\ Sessions \intersect {"idle", "node"} = {}

VARIABLES
    publisher,          \* acl marked the registry
    connection,         \* the AclConnection: None or [build, active, view]
    statement,          \* what runs on the connection: Idle, Node (no session) or a session
    acts                \* history: <<the statement's session, who a consumer acted as>>

sessionVars == <<publisher, connection, statement, acts>>

Idle == "idle"
Node == "node"

InitSession ==
    /\ publisher = FALSE /\ connection = None
    /\ statement = Idle /\ acts = {}

-----------------------------------------------------------------------------
(* The registry's mark *)

\* acl marks the registry it reached, when it loads.
MarkPublisher ==
    /\ User(Acl) /\ held[Acl] = object.id
    /\ publisher' = TRUE
    /\ UNCHANGED <<connection, statement, acts>>

\* What a consumer "that must act for sessions refuses to run without".
Mut_Unmarked(e) == TRUE
Publisher(e) == held[e] = object.id /\ publisher

-----------------------------------------------------------------------------
(* AclConnection *)

\* AclConnection::Reach: created when absent, refused when another revision made it.
ReachedBy(e) ==
    IF connection # None THEN connection
    ELSE [build |-> build[e], active |-> FALSE, view |-> Node]

ConnectionReach(e) ==
    LET o == ReachedBy(e).build IN
    build[e].magic /\ o.magic /\ o.version = build[e].version

Publish(o, s) == [o EXCEPT !.active = TRUE, !.view = s]

Mut_LeavesIt(o) == o
Withdraw(o) == [o EXCEPT !.active = FALSE, !.view = Node]

\* Current: the view, or no session.
Current(o) == IF o.active THEN o.view ELSE Node

-----------------------------------------------------------------------------
(* External: acl around a statement.  It has loaded when it found out whether it can mark. *)

Loaded == publisher \/ Acl \in refused

\* QueryBegin: Publish, or Withdraw when there is no session; on an object it may not use, neither.
QueryBegin(s) ==
    /\ statement = Idle /\ (s \in Sessions => Loaded)
    /\ statement' = s
    /\ connection' = IF Loaded /\ ConnectionReach(Acl)
                       THEN IF s \in Sessions THEN Publish(ReachedBy(Acl), s)
                            ELSE Withdraw(ReachedBy(Acl))
                       ELSE connection
    /\ UNCHANGED <<publisher, acts>>

QueryEnd ==
    /\ statement # Idle
    /\ statement' = Idle
    /\ connection' = IF Loaded /\ ConnectionReach(Acl) THEN Withdraw(ReachedBy(Acl)) ELSE connection
    /\ UNCHANGED <<publisher, acts>>

\* A consumer inside the running statement: it reaches the connection's state and, if that and
\* the registry may be used and a publisher is there, acts for the session it reads.
Act(e) ==
    /\ e # Acl /\ statement # Idle /\ User(e)
    /\ connection' = ReachedBy(e)
    /\ acts' = IF ConnectionReach(e) /\ Publisher(e)
                 THEN acts \union {<<statement, Current(ReachedBy(e))>>}
                 ELSE acts
    /\ UNCHANGED <<publisher, statement>>

NextSession ==
    \/ MarkPublisher
    \/ \E s \in Sessions \union {Node} : QueryBegin(s)
    \/ QueryEnd
    \/ \E e \in Extensions : Act(e)

-----------------------------------------------------------------------------
(* Properties *)

\* A consumer that finds a publisher and may use both objects never "silently act[s] as the
\* node", nor for the session of an earlier statement: it acts for the session of the statement
\* it runs in, whoever created the two objects and whenever acl was loaded.
ActsForItsSession == \A act \in acts : act[2] = act[1]

=============================================================================
