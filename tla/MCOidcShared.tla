---------------------------- MODULE MCOidcShared ----------------------------
(* OidcShared for TLC: a thread deep enough for a scope inside a transport that calls back from   *)
(* it, and one that sends or holds a scope at the same time; tokens whose lives are already over, *)
(* short, and beyond what is believed.                                                            *)
EXTENDS OidcShared, TLC

CONSTANTS t1, t2

Depth == t1 :> 4 @@ t2 :> 1

SomeLives == {-1, 2, 6}
AllAnswers == [source : {"grant"}, form : {"in", "none"}]
              \union [source : {"platform"}, form : {"in", "on", "exp", "none"}]

Symmetric == Permutations(Transports) \union Permutations(Consumers)

=============================================================================
