---------------------------- MODULE MCTokenCache ----------------------------
(* TokenCache for TLC: lives that end while their token is on its way to the cache. *)
EXTENDS TokenCache

ShortLives == {1, 2}
AllAnswers == [source : {"grant"}, form : {"in", "none"}]
              \union [source : {"platform"}, form : {"in", "on", "exp", "none"}]

=============================================================================
