---------------------------- MODULE ContractUse ----------------------------
(***************************************************************************)
(* The contract objects in use: an extension that reached the object of a  *)
(* contract (ContractReach) counts in it (Counters, for the hooks registry *)
(* and acl's audit hooks), names lineage sources through it                *)
(* (LineageSources), or acts for the sessions published beside it          *)
(* (AclSession).                                                           *)
(***************************************************************************)
EXTENDS AclSession, Counters, LineageSources

useVars == <<sessionVars, counterVars, lineageVars>>
vars == <<reachVars, useVars>>

Init == InitReach /\ InitSession /\ InitCounters /\ InitLineage

Count(e) ==
    /\ contract \in {"registry", "audit"} /\ User(e)
    /\ \E u \in TuplesOf(contract) : Add(contract, u)
    /\ UNCHANGED <<reachVars, sessionVars, lineageVars>>

Register(p) ==
    /\ contract = "lineage" /\ User(p)
    /\ AddProvider(p) \/ RemoveProvider(p)
    /\ UNCHANGED <<reachVars, sessionVars, counterVars>>

AskForName ==
    /\ contract = "lineage" /\ User(Acl)
    /\ Name \/ (\E outcome \in Outcomes : Call(outcome)) \/ NoAnswer
    /\ UNCHANGED <<reachVars, sessionVars, counterVars>>

UseSession ==
    /\ contract = "session"
    /\ NextSession
    /\ UNCHANGED <<reachVars, counterVars, lineageVars>>

Next ==
    \/ NextReach /\ UNCHANGED useVars
    \/ \E e \in Extensions : Count(e)
    \/ \E p \in Providers : Register(p)
    \/ AskForName
    \/ UseSession

Spec == Init /\ [][Next]_vars

-----------------------------------------------------------------------------
\* Counters and AuditCounters keep "a value per (name, attribute tuple)": whichever extensions
\* add, every counter reads what was added for its own tuple, and a snapshot lists each once.
CountPerTuple == contract \in {"registry", "audit"} => CountsOf(contract)

=============================================================================
