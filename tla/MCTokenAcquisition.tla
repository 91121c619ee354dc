------------------------- MODULE MCTokenAcquisition -------------------------
(* TokenAcquisition for TLC: every grant with every input its decisions depend on, and device     *)
(* answers that are negative, absent, small and excessive.                                        *)
EXTENDS TokenAcquisition

U(scheme, userinfo, ok, host) == [scheme |-> scheme, userinfo |-> userinfo, ok |-> ok, host |-> host]

SomeUrls ==
    {U("http", FALSE, TRUE, h) : h \in {"localhost", "169.254/16", "lookalike", "remote"}} \union
    {U("https", FALSE, TRUE, "remote"), U("http", TRUE, TRUE, "127/8"),
     U("http", FALSE, FALSE, "127/8"), U("other", FALSE, FALSE, "::1")}

C(kind, proofs, subject, target, with_refresh, env, url) ==
    [flow |-> kind, proofs |-> proofs, subject |-> subject, target |-> target,
     with_refresh |-> with_refresh, env |-> env, url |-> url]

AnyUrl == U("https", FALSE, TRUE, "remote")
SomeProofs == {{}, {"secret"}, {"assertion", "secret"}, {"key", "assertion"}, {"bad key", "secret"}}

SomeCalls ==
    {C(f, p, s, g, w, FALSE, AnyUrl) : f \in Exchanges, p \in SomeProofs, s \in BOOLEAN, g \in BOOLEAN,
                                       w \in BOOLEAN} \union
    {C("client_credentials", p, FALSE, FALSE, FALSE, FALSE, AnyUrl) : p \in SomeProofs} \union
    {C(f, {}, TRUE, FALSE, FALSE, FALSE, AnyUrl) : f \in {"password", "refresh", "revoke"}} \union
    {C(f, {}, s, FALSE, FALSE, e, u) : f \in {"managed_identity", "github"}, s \in BOOLEAN, e \in BOOLEAN,
                                       u \in SomeUrls}

SomeIntervals == {-1, 0, 1, 2, 9}
SomeLifetimes == {-1, 0, 1, 4, 99}
OwnChoices == {-1, 0, 3, 7}

=============================================================================
