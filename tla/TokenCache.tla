----------------------------- MODULE TokenCache -----------------------------
(***************************************************************************)
(* oidc_core.cpp: TokenCache with the two parsers that put an expiry on a  *)
(* token - ParseTokenResponse (a token endpoint's answer, source "grant")  *)
(* and ParsePlatformToken (managed identity, GitHub: source "platform").   *)
(* Consumers on their own threads Get, and on a miss ask the issuer, parse *)
(* its answer some time later and Set; others Invalidate and Clear.  Every *)
(* cache operation is one section under the cache's mutex.                 *)
(*                                                                         *)
(* A token dies at a moment its issuer decided.  The answer states it, as  *)
(* `expires_in`, `expires_on` or the JWT's `exp`, or does not.  Time is in *)
(* seconds on one clock; 0 is the epoch, long past.                        *)
(***************************************************************************)
EXTENDS Naturals, Integers

CONSTANTS
    Consumers, Keys,    \* threads; (owner, key) pairs
    Lives,              \* lifetimes an issuer grants: seconds from the issue
    Answers,            \* [source, form]: who grants, and how the answer states the life
    Margins,            \* margins consumers pass to Get
    AYear,              \* 366 days: the most a parser believes
    MaxLatency,         \* bound: seconds between an issue and the parse of its answer
    Start, MaxTime,     \* bounds: first and last second
    MaxDrops            \* bound: calls of Invalidate and Clear, per key

ASSUME CacheAssumption ==
    /\ Answers \subseteq [source : {"grant", "platform"}, form : {"in", "on", "exp", "none"}]
    /\ Lives \subseteq Int /\ Margins \subseteq Nat /\ AYear \in Nat /\ MaxLatency \in Nat
    /\ Start \in Nat \ {0} /\ MaxTime \in Nat /\ MaxDrops \in Nat

VARIABLES
    now,                \* NowSeconds()
    cache,              \* per key: a token, or NoToken
    at,                 \* per consumer: "idle", "asking", "answered", "parsed"
    key,                \* per consumer: the key it acts for
    token,              \* per consumer: the token it is acquiring
    drops,              \* history, per key: how often it was dropped
    served              \* history: what the last step's Get returned, and for which key and margin

cacheVars == <<now, cache, at, key, token, drops, served>>

\* A token: its answer, when it was issued, when it dies, and the expiry on it; and for the
\* properties: how often its key had been dropped when it was last on its way to the cache.
NoToken == [answer |-> [source |-> "", form |-> ""], issued |-> 0, dies |-> 0, expires_at |-> 0,
            epoch |-> 0]
NotServed == [token |-> NoToken, key |-> "none", margin |-> 0, when |-> 0]

InitCache ==
    /\ now = Start
    /\ cache = [k \in Keys |-> NoToken]
    /\ at = [c \in Consumers |-> "idle"]
    /\ key \in [Consumers -> Keys]
    /\ token = [c \in Consumers |-> NoToken]
    /\ drops = [k \in Keys |-> 0]
    /\ served = NotServed

-----------------------------------------------------------------------------
Lesser(a, b) == IF a < b THEN a ELSE b

\* The fields of an answer, as the parsers read them: 0 when absent.
ExpiresIn(t) == IF t.answer.form = "in" THEN t.dies - t.issued ELSE 0
ExpiresOn(t) == IF t.answer.form = "on" THEN t.dies ELSE 0
Exp(t) == IF t.answer.form = "exp" THEN t.dies ELSE 0

ParseTokenResponse(t) ==
    IF ExpiresIn(t) > 0 THEN now + Lesser(ExpiresIn(t), AYear) ELSE 0

Mut_Unclamped(t) == IF ExpiresIn(t) > 0 THEN now + ExpiresIn(t) ELSE 0
ParsePlatformToken(t) ==
    IF ExpiresIn(t) > 0 THEN now + Lesser(ExpiresIn(t), AYear)
    ELSE IF ExpiresOn(t) > now THEN Lesser(ExpiresOn(t), now + AYear)
    ELSE IF Exp(t) > now THEN Lesser(Exp(t), now + AYear)
    ELSE 0

Parsed(t) == IF t.answer.source = "grant" THEN ParseTokenResponse(t) ELSE ParsePlatformToken(t)

-----------------------------------------------------------------------------
\* 0 = the response carried no expiry: cached until invalidated.
Mut_NoMargin(t, margin) == t.expires_at # 0 /\ t.expires_at <= now
Stale(t, margin) == t.expires_at # 0 /\ t.expires_at - margin <= now

\* A miss (absent, or stale: erased) makes the consumer ask the issuer.
Get(c, k, margin) ==
    /\ at[c] = "idle"
    /\ IF cache[k] = NoToken \/ Stale(cache[k], margin)
         THEN /\ cache' = [cache EXCEPT ![k] = NoToken]
              /\ at' = [at EXCEPT ![c] = "asking"] /\ key' = [key EXCEPT ![c] = k]
              /\ served' = NotServed
         ELSE /\ served' = [token |-> cache[k], key |-> k, margin |-> margin, when |-> now]
              /\ UNCHANGED <<cache, at, key>>
    /\ UNCHANGED <<now, token, drops>>

\* External: the issuer grants a token.
Issue(c, life, answer) ==
    /\ at[c] = "asking"
    /\ token' = [token EXCEPT ![c] =
           [answer |-> answer, issued |-> now, dies |-> now + life, expires_at |-> 0,
            epoch |-> drops[key[c]]]]
    /\ at' = [at EXCEPT ![c] = "answered"]
    /\ served' = NotServed
    /\ UNCHANGED <<now, cache, key, drops>>

\* Its answer arrives and is parsed: the expiry counts from now.
Parse(c) ==
    /\ at[c] = "answered"
    /\ token' = [token EXCEPT ![c].expires_at = Parsed(token[c])]
    /\ at' = [at EXCEPT ![c] = "parsed"]
    /\ served' = NotServed
    /\ UNCHANGED <<now, cache, key, drops>>

Set(c) ==
    /\ at[c] = "parsed"
    /\ cache' = [cache EXCEPT ![key[c]] = token[c]]
    /\ at' = [at EXCEPT ![c] = "idle"] /\ token' = [token EXCEPT ![c] = NoToken]
    /\ served' = NotServed
    /\ UNCHANGED <<now, key, drops>>

\* What a drop leaves of an entry.
Mut_KeepsLive(t) == IF Stale(t, 0) THEN NoToken ELSE t
Erased(t) == NoToken

\* The entries under ks are gone; a consumer that missed before is not stopped from setting one.
Drop(ks) ==
    /\ \A k \in ks : drops[k] < MaxDrops
    /\ cache' = [k \in Keys |-> IF k \in ks THEN Erased(cache[k]) ELSE cache[k]]
    /\ drops' = [k \in Keys |-> IF k \in ks THEN drops[k] + 1 ELSE drops[k]]
    /\ token' = [c \in Consumers |->
                    IF key[c] \in ks /\ at[c] \in {"answered", "parsed"}
                    THEN [token[c] EXCEPT !.epoch = @ + 1] ELSE token[c]]
    /\ served' = NotServed
    /\ UNCHANGED <<now, at, key>>

Invalidate(k) == Drop({k})

Clear == Drop(Keys)

\* Time passes; an answer is not delayed beyond MaxLatency.
Tick ==
    /\ now < MaxTime
    /\ \A c \in Consumers : at[c] = "answered" => now - token[c].issued < MaxLatency
    /\ now' = now + 1
    /\ served' = NotServed
    /\ UNCHANGED <<cache, at, key, token, drops>>

NextCache ==
    \/ \E c \in Consumers :
          \/ \E k \in Keys, m \in Margins : Get(c, k, m)
          \/ \E life \in Lives, answer \in Answers : Issue(c, life, answer)
          \/ Parse(c) \/ Set(c)
    \/ \E k \in Keys : Invalidate(k)
    \/ Clear
    \/ Tick

CacheSpec == InitCache /\ [][NextCache]_cacheVars

-----------------------------------------------------------------------------
(* Properties *)

\* "A token is served only while it has more than `margin_seconds` of life left, so a consumer
\* never receives one about to die mid-use", for the tokens an expiry was put on: the life left
\* is the issuer's own, less the time its answer took to arrive; and however long the issuer says
\* it lives, it is served for a year at most.
ServedWithMargin ==
    served.token.expires_at # 0 =>
        /\ served.token.dies > served.when + served.margin - MaxLatency
        /\ served.token.expires_at <= served.when + AYear

\* What Invalidate and Clear promise a consumer whose token was rejected: of the tokens issued
\* before the last drop of a key only those come back that were on their way to the cache then
\* (the cache has no generations, and Set does not ask), however the consumers of the key
\* interleave, and not one that an earlier drop missed so; what else is served was issued since.
OnlyLateAnswersPassDrop ==
    served # NotServed => served.token.epoch = drops[served.key]

\* The same margin for every token whose answer stated its life: none of those is served for ever
\* ("a cache must not serve it forever").
ServedAlive ==
    served # NotServed /\ served.token.answer.form # "none" =>
        served.token.dies > served.when - MaxLatency

=============================================================================
