-------------------------- MODULE TokenCacheProofs --------------------------
(***************************************************************************)
(* Theorems about TokenCache, for any consumers, keys, lives, margins and  *)
(* latency.                                                                *)
(***************************************************************************)
EXTENDS TokenCache, TLAPS

-----------------------------------------------------------------------------
(* The inductive invariant *)

TokenType == [answer : Answers \union {NoToken.answer}, issued : Int, dies : Int,
              expires_at : Int, epoch : Nat]

\* Every variable has its type; the clock is an integer past the epoch.
Typed ==
    /\ now \in Int /\ now > 0
    /\ cache \in [Keys -> TokenType]
    /\ at \in [Consumers -> {"idle", "asking", "answered", "parsed"}]
    /\ key \in [Consumers -> Keys]
    /\ token \in [Consumers -> TokenType]
    /\ drops \in [Keys -> Nat]

\* The expiry on a token is at most the time its answer took later than its death, and at most a
\* year from now.
Dated(t) ==
    t.expires_at # 0 => t.expires_at <= t.dies + MaxLatency /\ t.expires_at <= now + AYear

\* Until it is parsed a token has no expiry on it, and its answer is not older than MaxLatency.
Underway ==
    \A c \in Consumers :
        /\ at[c] = "answered" => now - token[c].issued <= MaxLatency
        /\ at[c] # "parsed" => token[c].expires_at = 0

\* A token in the cache, or on its way there, was issued since the last drop of its key or was on
\* its way then.
Since(t, k) == t.epoch = drops[k]
Current ==
    /\ \A k \in Keys : cache[k] # NoToken => Since(cache[k], k)
    /\ \A c \in Consumers : at[c] \in {"answered", "parsed"} => Since(token[c], key[c])

Inv ==
    /\ Typed /\ Underway /\ Current
    /\ \A k \in Keys : Dated(cache[k])
    /\ \A c \in Consumers : Dated(token[c])
    /\ ServedWithMargin /\ OnlyLateAnswersPassDrop

-----------------------------------------------------------------------------
(* Tokens *)

\* The answer of an empty cache is typed like a token.
LEMMA NoTokenType == NoToken \in TokenType
BY DEF NoToken, TokenType

\* Neither parser puts an expiry on a token beyond its death, but for the time its answer took, nor
\* beyond a year.
LEMMA ParsedDated ==
    ASSUME NEW t \in TokenType, now \in Int, now > 0, now - t.issued <= MaxLatency
    PROVE  /\ Parsed(t) \in Int
           /\ Parsed(t) # 0 => Parsed(t) <= t.dies + MaxLatency /\ Parsed(t) <= now + AYear
<1>1. t.issued \in Int /\ t.dies \in Int
  BY DEF TokenType
<1>2. /\ ExpiresIn(t) = t.dies - t.issued \/ ExpiresIn(t) = 0
      /\ ExpiresOn(t) = t.dies \/ ExpiresOn(t) = 0
      /\ Exp(t) = t.dies \/ Exp(t) = 0
  BY DEF ExpiresIn, ExpiresOn, Exp
<1>3. AYear \in Nat /\ MaxLatency \in Nat
  BY CacheAssumption
<1>4. ExpiresIn(t) \in Int /\ ExpiresOn(t) \in Int /\ Exp(t) \in Int
  BY <1>1, <1>2
<1>5. CASE ExpiresIn(t) > 0
  <2>1. Parsed(t) = now + Lesser(ExpiresIn(t), AYear)
    BY <1>5 DEF Parsed, ParseTokenResponse, ParsePlatformToken
  <2>2. ExpiresIn(t) = t.dies - t.issued
    BY <1>2, <1>5
  <2>3. PICK l \in Int : /\ l = Lesser(ExpiresIn(t), AYear)
                         /\ l <= ExpiresIn(t) /\ l <= AYear
    BY <1>3, <1>4 DEF Lesser
  <2>. QED BY <2>1, <2>2, <2>3, <1>1, <1>3
<1>6. CASE ~(ExpiresIn(t) > 0)
  <2>1. \/ Parsed(t) = 0
        \/ ExpiresOn(t) > now /\ Parsed(t) = Lesser(ExpiresOn(t), now + AYear)
        \/ Exp(t) > now /\ Parsed(t) = Lesser(Exp(t), now + AYear)
    BY <1>6 DEF Parsed, ParseTokenResponse, ParsePlatformToken
  <2>. QED BY <2>1, <1>1, <1>2, <1>3, <1>4 DEF Lesser
<1>. QED BY <1>5, <1>6

\* To pass a drop changes nothing else of a token.
LEMMA PassedToken ==
    ASSUME NEW t \in TokenType
    PROVE  /\ [t EXCEPT !.epoch = t.epoch + 1] \in TokenType
           /\ [t EXCEPT !.epoch = t.epoch + 1].epoch = t.epoch + 1
           /\ [t EXCEPT !.epoch = t.epoch + 1].expires_at = t.expires_at
           /\ [t EXCEPT !.epoch = t.epoch + 1].issued = t.issued
           /\ [t EXCEPT !.epoch = t.epoch + 1].dies = t.dies
BY DEF TokenType

-----------------------------------------------------------------------------
(* Steps *)

\* NotServed satisfies both properties: a step that serves nothing keeps them.
LEMMA NotServedHolds == served = NotServed => ServedWithMargin /\ OnlyLateAnswersPassDrop
<1>. SUFFICES ASSUME served = NotServed PROVE ServedWithMargin /\ OnlyLateAnswersPassDrop
  OBVIOUS
<1>1. served.token.expires_at = 0
  BY DEF NotServed, NoToken
<1>. QED BY <1>1 DEF ServedWithMargin, OnlyLateAnswersPassDrop

\* A cache starts empty, with nobody asking.
LEMMA InitInv == InitCache => Inv
<1>. SUFFICES ASSUME InitCache PROVE Inv
  OBVIOUS
<1>1. Typed
  BY CacheAssumption, NoTokenType DEF InitCache, Typed
<1>2. Underway /\ Current
  BY DEF InitCache, Underway, Current, NoToken
<1>3. (\A k \in Keys : Dated(cache[k])) /\ (\A c \in Consumers : Dated(token[c]))
  BY DEF InitCache, Dated, NoToken
<1>. QED BY <1>1, <1>2, <1>3, NotServedHolds DEF InitCache, Inv

\* A hit hands out what the cache holds with more than the margin left; a miss erases it.
LEMMA GetInv ==
    ASSUME Inv, NEW c \in Consumers, NEW k \in Keys, NEW m \in Margins, Get(c, k, m)
    PROVE  Inv'
<1>1. m \in Nat /\ AYear \in Nat /\ MaxLatency \in Nat
  BY CacheAssumption
<1>2. UNCHANGED <<now, token, drops>> /\ at[c] = "idle"
  BY DEF Get
<1>3. /\ cache[k] \in TokenType /\ Dated(cache[k]) /\ now \in Int
      /\ cache[k] # NoToken => Since(cache[k], k)
  BY DEF Inv, Typed, Current
<1>4. CASE cache[k] = NoToken \/ Stale(cache[k], m)
  <2>1. /\ cache' = [cache EXCEPT ![k] = NoToken]
        /\ at' = [at EXCEPT ![c] = "asking"] /\ key' = [key EXCEPT ![c] = k]
        /\ served' = NotServed
    BY <1>4 DEF Get
  <2>2. Typed'
    BY <1>2, <2>1, NoTokenType DEF Inv, Typed
  <2>3. Underway'
    BY <1>2, <2>1 DEF Inv, Typed, Underway, Get
  <2>4. Current'
    BY <1>2, <2>1 DEF Inv, Typed, Current, Since
  <2>5. (\A j \in Keys : Dated(cache[j]))' /\ (\A d \in Consumers : Dated(token[d]))'
    BY <1>2, <2>1 DEF Inv, Typed, Dated, NoToken
  <2>6. (ServedWithMargin /\ OnlyLateAnswersPassDrop)'
    BY <2>1 DEF ServedWithMargin, OnlyLateAnswersPassDrop, NotServed, NoToken
  <2>. QED BY <2>2, <2>3, <2>4, <2>5, <2>6 DEF Inv
<1>5. CASE ~(cache[k] = NoToken \/ Stale(cache[k], m))
  <2>1. /\ served' = [token |-> cache[k], key |-> k, margin |-> m, when |-> now]
        /\ UNCHANGED <<cache, at, key>>
    BY <1>5 DEF Get
  <2>2. cache[k].expires_at # 0 => cache[k].expires_at - m > now
    BY <1>1, <1>3, <1>5 DEF Stale, TokenType
  <2>3. ServedWithMargin'
    BY <1>1, <1>3, <2>1, <2>2 DEF ServedWithMargin, Dated, TokenType
  <2>4. OnlyLateAnswersPassDrop'
    BY <1>2, <1>3, <1>5, <2>1 DEF OnlyLateAnswersPassDrop, Since
  <2>. QED BY <1>2, <2>1, <2>3, <2>4 DEF Inv, Typed, Underway, Current, Since, Dated
<1>. QED BY <1>4, <1>5

\* A token that was just issued has no expiry on it yet.
LEMMA IssueInv ==
    ASSUME Inv, NEW c \in Consumers, NEW life \in Lives, NEW answer \in Answers,
           Issue(c, life, answer)
    PROVE  Inv'
<1>. DEFINE t == [answer |-> answer, issued |-> now, dies |-> now + life, expires_at |-> 0,
                  epoch |-> drops[key[c]]]
<1>1. life \in Int /\ MaxLatency \in Nat /\ now \in Int /\ drops[key[c]] \in Nat
  BY CacheAssumption DEF Inv, Typed
<1>2. t \in TokenType
  BY <1>1 DEF TokenType
<1>3. /\ token' = [token EXCEPT ![c] = t] /\ at' = [at EXCEPT ![c] = "answered"]
      /\ served' = NotServed /\ UNCHANGED <<now, cache, key, drops>>
  BY DEF Issue
<1>4. t.expires_at = 0 /\ Since(t, key[c]) /\ now - t.issued <= MaxLatency
  BY <1>1 DEF Since
<1>. HIDE DEF t
<1>5. Typed'
  BY <1>2, <1>3 DEF Inv, Typed
<1>6. Underway' /\ Current'
  BY <1>3, <1>4 DEF Inv, Typed, Underway, Current, Since
<1>7. (\A k \in Keys : Dated(cache[k]))' /\ (\A d \in Consumers : Dated(token[d]))'
  BY <1>3, <1>4 DEF Inv, Typed, Dated
<1>8. (ServedWithMargin /\ OnlyLateAnswersPassDrop)'
  BY <1>3 DEF ServedWithMargin, OnlyLateAnswersPassDrop, NotServed, NoToken
<1>. QED BY <1>5, <1>6, <1>7, <1>8 DEF Inv

\* The parsers' expiry counts from now, which is at most MaxLatency after the issue.
LEMMA ParseInv ==
    ASSUME Inv, NEW c \in Consumers, Parse(c)
    PROVE  Inv'
<1>1. token[c] \in TokenType /\ now \in Int /\ now > 0 /\ now - token[c].issued <= MaxLatency
  BY DEF Inv, Typed, Underway, Parse
<1>2. PICK e \in Int : /\ e = Parsed(token[c])
                       /\ e # 0 => e <= token[c].dies + MaxLatency /\ e <= now + AYear
  BY <1>1, ParsedDated
<1>. DEFINE t == [token[c] EXCEPT !.expires_at = e]
<1>3. /\ token' = [token EXCEPT ![c] = t] /\ at' = [at EXCEPT ![c] = "parsed"]
      /\ served' = NotServed /\ UNCHANGED <<now, cache, key, drops>>
  BY <1>2 DEF Parse
<1>4. /\ t \in TokenType /\ t.expires_at = e /\ t.dies = token[c].dies
      /\ Since(token[c], key[c]) => Since(t, key[c])
  BY <1>1 DEF TokenType, Since
<1>5. Dated(t)
  BY <1>2, <1>4 DEF Dated
<1>. HIDE DEF t
<1>6. Typed'
  BY <1>3, <1>4 DEF Inv, Typed
<1>7. Underway' /\ Current'
  <2>1. Since(token[c], key[c]) /\ key[c] \in Keys
    BY DEF Inv, Typed, Current, Parse
  <2>2. Since(t, key[c])
    BY <1>4, <2>1
  <2>3. Underway'
    BY <1>3, <1>4 DEF Inv, Typed, Underway
  <2>4. ASSUME NEW d \in Consumers, at'[d] \in {"answered", "parsed"} PROVE Since(token[d], key[d])'
    <3>1. CASE d = c
      BY <1>3, <2>2, <3>1 DEF Inv, Typed, Since
    <3>2. CASE d # c
      BY <1>3, <2>4, <3>2 DEF Inv, Typed, Current, Since
    <3>. QED BY <3>1, <3>2
  <2>5. \A k \in Keys : cache'[k] # NoToken => Since(cache[k], k)'
    BY <1>3 DEF Inv, Current, Since
  <2>. QED BY <2>3, <2>4, <2>5 DEF Current
<1>8. (\A k \in Keys : Dated(cache[k]))' /\ (\A d \in Consumers : Dated(token[d]))'
  BY <1>3, <1>5 DEF Inv, Typed, Dated
<1>9. (ServedWithMargin /\ OnlyLateAnswersPassDrop)'
  BY <1>3 DEF ServedWithMargin, OnlyLateAnswersPassDrop, NotServed, NoToken
<1>. QED BY <1>6, <1>7, <1>8, <1>9 DEF Inv

\* Set moves a parsed token into the cache as it is.
LEMMA SetInv ==
    ASSUME Inv, NEW c \in Consumers, Set(c)
    PROVE  Inv'
<1>1. /\ cache' = [cache EXCEPT ![key[c]] = token[c]] /\ at' = [at EXCEPT ![c] = "idle"]
      /\ token' = [token EXCEPT ![c] = NoToken]
      /\ served' = NotServed /\ UNCHANGED <<now, key, drops>> /\ at[c] = "parsed"
  BY DEF Set
<1>2. NoToken.expires_at = 0
  BY DEF NoToken
<1>3. Typed'
  BY <1>1, NoTokenType DEF Inv, Typed
<1>4. Underway' /\ Current'
  BY <1>1, <1>2 DEF Inv, Typed, Underway, Current, Since
<1>5. (\A k \in Keys : Dated(cache[k]))' /\ (\A d \in Consumers : Dated(token[d]))'
  BY <1>1, <1>2 DEF Inv, Typed, Dated
<1>6. (ServedWithMargin /\ OnlyLateAnswersPassDrop)'
  BY <1>1 DEF ServedWithMargin, OnlyLateAnswersPassDrop, NotServed, NoToken
<1>. QED BY <1>3, <1>4, <1>5, <1>6 DEF Inv

\* Invalidate and Clear erase what is cached; what is on its way keeps its dates.
LEMMA DropInv ==
    ASSUME Inv, NEW ks \in SUBSET Keys, Drop(ks)
    PROVE  Inv'
<1>1. /\ cache' = [k \in Keys |-> IF k \in ks THEN NoToken ELSE cache[k]]
      /\ served' = NotServed /\ UNCHANGED <<now, at, key>>
  BY DEF Drop, Erased
<1>2. /\ token' = [c \in Consumers |->
                      IF key[c] \in ks /\ at[c] \in {"answered", "parsed"}
                      THEN [token[c] EXCEPT !.epoch = token[c].epoch + 1] ELSE token[c]]
      /\ drops' = [k \in Keys |-> IF k \in ks THEN drops[k] + 1 ELSE drops[k]]
  BY DEF Drop
<1>3. ASSUME NEW c \in Consumers
      PROVE  /\ token'[c] \in TokenType
             /\ token'[c].expires_at = token[c].expires_at
             /\ token'[c].issued = token[c].issued
             /\ token'[c].dies = token[c].dies
             /\ \/ token'[c] = token[c] /\ ~(key[c] \in ks /\ at[c] \in {"answered", "parsed"})
                \/ token'[c].epoch = token[c].epoch + 1 /\ key[c] \in ks
  <2>1. token[c] \in TokenType
    BY <1>3 DEF Inv, Typed
  <2>2. CASE key[c] \in ks /\ at[c] \in {"answered", "parsed"}
    <3>1. token'[c] = [token[c] EXCEPT !.epoch = token[c].epoch + 1]
      BY <1>2, <1>3, <2>2
    <3>. QED BY <2>1, <2>2, <3>1, PassedToken
  <2>3. CASE ~(key[c] \in ks /\ at[c] \in {"answered", "parsed"})
    BY <1>2, <1>3, <2>1, <2>3
  <2>. QED BY <2>2, <2>3
<1>4. NoToken.expires_at = 0
  BY DEF NoToken
<1>5. Typed'
  <2>1. token' \in [Consumers -> TokenType]
    BY <1>2, <1>3
  <2>2. drops' \in [Keys -> Nat]
    BY <1>2 DEF Inv, Typed
  <2>. QED BY <1>1, <2>1, <2>2, NoTokenType DEF Inv, Typed
<1>6. Underway'
  BY <1>1, <1>3 DEF Inv, Typed, Underway
<1>7. Current'
  <2>1. ASSUME NEW k \in Keys, cache'[k] # NoToken PROVE Since(cache[k], k)'
    <3>1. k \notin ks /\ cache'[k] = cache[k]
      BY <1>1, <2>1
    <3>2. drops'[k] = drops[k] /\ Since(cache[k], k)
      BY <1>2, <2>1, <3>1 DEF Inv, Current
    <3>. QED BY <3>1, <3>2 DEF Since
  <2>2. ASSUME NEW c \in Consumers, at'[c] \in {"answered", "parsed"}
        PROVE  Since(token[c], key[c])'
    <3>1. CASE token'[c].epoch = token[c].epoch + 1 /\ key[c] \in ks
      <4>1. key[c] \in Keys /\ at[c] \in {"answered", "parsed"}
        BY <1>1, <2>2 DEF Inv, Typed
      <4>2. drops'[key[c]] = drops[key[c]] + 1 /\ Since(token[c], key[c])
        BY <1>2, <2>2, <3>1, <4>1 DEF Inv, Current
      <4>. QED BY <1>1, <3>1, <4>2 DEF Since
    <3>2. CASE token'[c] = token[c] /\ key[c] \notin ks
      <4>1. key[c] \in Keys /\ at[c] \in {"answered", "parsed"}
        BY <1>1, <2>2 DEF Inv, Typed
      <4>2. drops'[key[c]] = drops[key[c]] /\ Since(token[c], key[c])
        BY <1>2, <2>2, <3>2, <4>1 DEF Inv, Current
      <4>. QED BY <1>1, <3>2, <4>2 DEF Since
    <3>. QED BY <1>1, <1>3, <2>2, <3>1, <3>2
  <2>. QED BY <2>1, <2>2 DEF Current
<1>8. (\A k \in Keys : Dated(cache[k]))' /\ (\A d \in Consumers : Dated(token[d]))'
  BY <1>1, <1>3, <1>4 DEF Inv, Typed, Dated
<1>9. (ServedWithMargin /\ OnlyLateAnswersPassDrop)'
  BY <1>1 DEF ServedWithMargin, OnlyLateAnswersPassDrop, NotServed, NoToken
<1>. QED BY <1>5, <1>6, <1>7, <1>8, <1>9 DEF Inv

\* The clock moves, but not past the latest moment an answer under way may be parsed.
LEMMA TickInv == Inv /\ Tick => Inv'
<1>. SUFFICES ASSUME Inv, Tick PROVE Inv'
  OBVIOUS
<1>1. now' = now + 1 /\ served' = NotServed /\ UNCHANGED <<cache, at, key, token, drops>>
  BY DEF Tick
<1>2. now \in Int /\ now > 0 /\ MaxLatency \in Nat /\ AYear \in Nat
  BY CacheAssumption DEF Inv, Typed
<1>3. Typed' /\ Current'
  BY <1>1, <1>2 DEF Inv, Typed, Current, Since
<1>4. Underway'
  <2>1. \A c \in Consumers : token[c].issued \in Int
    BY DEF Inv, Typed, TokenType
  <2>. QED BY <1>1, <1>2, <2>1 DEF Inv, Underway, Tick
<1>5. ASSUME NEW t \in TokenType, Dated(t) PROVE t.expires_at # 0 => t.expires_at <= now' + AYear
  BY <1>1, <1>2, <1>5 DEF Dated, TokenType
<1>6. (\A k \in Keys : Dated(cache[k]))' /\ (\A d \in Consumers : Dated(token[d]))'
  BY <1>1, <1>5 DEF Inv, Typed, Dated
<1>7. (ServedWithMargin /\ OnlyLateAnswersPassDrop)'
  BY <1>1 DEF ServedWithMargin, OnlyLateAnswersPassDrop, NotServed, NoToken
<1>. QED BY <1>3, <1>4, <1>6, <1>7 DEF Inv

\* Inv is inductive: one case for every action.
LEMMA NextInv == Inv /\ [NextCache]_cacheVars => Inv'
<1>. SUFFICES ASSUME Inv, [NextCache]_cacheVars PROVE Inv'
  OBVIOUS
<1>1. ASSUME NEW k \in Keys, Invalidate(k) PROVE Inv'
  BY <1>1, DropInv DEF Invalidate
<1>2. CASE Clear
  BY <1>2, DropInv DEF Clear
<1>3. CASE UNCHANGED cacheVars
  BY <1>3 DEF cacheVars, Inv, Typed, Underway, Current, Since, Dated, ServedWithMargin, OnlyLateAnswersPassDrop
<1>. QED BY <1>1, <1>2, <1>3, GetInv, IssueInv, ParseInv, SetInv, TickInv DEF NextCache

-----------------------------------------------------------------------------
(* Theorems *)

\* oidc_core.hpp promises of TokenCache::Get that a token is served "only while it has more than
\* margin_seconds of life left": it holds for every token with an expiry on it, whatever the
\* issuer grants and in whatever form, however consumers, invalidations and time interleave.
THEOREM NeverServedDying == CacheSpec => []ServedWithMargin
<1>1. Inv => ServedWithMargin
  BY DEF Inv
<1>. QED BY <1>1, InitInv, NextInv, PTL DEF CacheSpec

\* TokenCache::Invalidate and Clear: whatever is served for a key afterwards was issued since, but
\* for answers that were on their way when it was dropped, for any number of consumers and drops.
THEOREM DropsAreFelt == CacheSpec => []OnlyLateAnswersPassDrop
<1>1. Inv => OnlyLateAnswersPassDrop
  BY DEF Inv
<1>. QED BY <1>1, InitInv, NextInv, PTL DEF CacheSpec

=============================================================================
