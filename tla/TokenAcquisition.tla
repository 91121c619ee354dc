-------------------------- MODULE TokenAcquisition --------------------------
(***************************************************************************)
(* oidc_core.cpp: the ways a consumer obtains a token - a person in the    *)
(* browser (LoopbackLogin), a person on another device (DeviceFlow), or    *)
(* unattended by a grant, an exchange or a platform's identity (Grants).   *)
(* The ways share no state, so a behaviour is one of them.                 *)
(***************************************************************************)
EXTENDS LoopbackLogin, DeviceFlow, Grants

VARIABLE way            \* how this consumer obtains its token

vars == <<way, loginVars, deviceVars, grantVars>>

Ways == {"browser", "device", "grant"}

\* The choices of the other ways' initial states are made once.
Init ==
    /\ way \in Ways /\ InitLogin /\ InitDevice /\ InitGrants
    /\ way # "browser" => ~expired
    /\ way # "grant" => issuer = "https"

Browser(A) == way = "browser" /\ A /\ UNCHANGED <<way, deviceVars, grantVars>>
Device(A) == way = "device" /\ A /\ UNCHANGED <<way, loginVars, grantVars>>
Grant(A) == way = "grant" /\ A /\ UNCHANGED <<way, loginVars, deviceVars>>

Next == Browser(NextLogin) \/ Device(NextDevice) \/ Grant(NextGrants)

Spec == Init /\ [][Next]_vars

\* The browser login's thread and the server's pool run, a read times out after 2 s, time passes;
\* the device flow's thread runs and its requests are answered or time out.  Nobody has to answer
\* and nobody has to cancel.
Fairness ==
    /\ WF_vars(Browser(LoginStep))
    /\ WF_vars(Browser(DeadlinePasses))
    /\ \A r \in Requests : WF_vars(Browser(Handle(r) \/ Close(r)))
    /\ WF_vars(Device(DeviceStep))

FairSpec == Spec /\ Fairness

-----------------------------------------------------------------------------
\* Whoever waits for a person comes back: the browser login by its deadline and the server's
\* timeouts, whatever arrives at its port, the device poll by its deadline, whatever the server
\* answers.  (A request that takes no time at all, with an interval of 0, could poll for ever
\* within one second; neither happens.)
PersonIsNotAwaitedForEver ==
    <>(CASE way = "browser" -> pc = "returned"
         [] way = "device" -> stage = "returned"
         [] OTHER -> TRUE)

=============================================================================
