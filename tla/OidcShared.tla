----------------------------- MODULE OidcShared -----------------------------
(***************************************************************************)
(* oidc_core.cpp: what the threads of a process share - the transport and  *)
(* the CA bundle that requests go by (Transport), and the token cache      *)
(* (TokenCache).  The two share no state, so a behaviour is one of them.   *)
(***************************************************************************)
EXTENDS Transport, TokenCache

VARIABLE part           \* which of the two

vars == <<part, transportVars, cacheVars>>

\* The choices of the other part's initial states are made once.
Init ==
    /\ part \in {"transport", "cache"} /\ InitTransport /\ InitCache
    /\ part # "transport" => build = "tls"
    /\ part # "cache" => \A c, d \in Consumers : key[c] = key[d]

Next ==
    \/ part = "transport" /\ NextTransport /\ UNCHANGED <<part, cacheVars>>
    \/ part = "cache" /\ NextCache /\ UNCHANGED <<part, transportVars>>

Spec == Init /\ [][Next]_vars

=============================================================================
