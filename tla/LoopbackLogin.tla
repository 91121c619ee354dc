--------------------------- MODULE LoopbackLogin ---------------------------
(***************************************************************************)
(* oidc_core.cpp: AuthorizationCodeLogin and the LoopbackRedirect receiver *)
(* it runs.  Threads: the login's own, the http server's handlers (one per *)
(* request, run by the server's pool), the browser and other local         *)
(* processes that send requests, and whoever asks for cancellation.  A     *)
(* step is one section under Impl::mutex, or what happens outside it.      *)
(*                                                                         *)
(* The state parameter of this login is "ours"; "" is a request without    *)
(* one.  Only the person the login presented its URL to can cause a        *)
(* request with "ours" in it.  Codes and IdP errors are "" or a value.     *)
(***************************************************************************)
EXTENDS Naturals, Sequences

CONSTANT MaxRequests    \* bound: requests that reach the receiver's port

ASSUME LoginAssumption == MaxRequests \in Nat

Requests == 1 .. MaxRequests    \* numbered as they arrive

VARIABLES
    pc,             \* where the login is
    flow,           \* the steps of FlowOrder it has still to take
    expired,        \* NowSeconds() >= deadline
    cancel,         \* what cancelled() answers
    server,         \* "down", "up" or "stopping" (stop() called, thread not joined)
    expected,       \* Impl::expected_state
    done, result,   \* Impl::done, Impl::result
    request,        \* per request: its phase, its parameters (kept once it ended the login), its page
    out,            \* the Result Wait returns
    tokens,         \* what the login returns: "" until it does
    presented,      \* history: the URL went out
    lost            \* history: requests with "ours" refused although nothing had ended the login

loginVars == <<pc, flow, expired, cancel, server, expected, done, result, request, out, tokens,
          presented, lost>>
receiver == <<expected, done, result, request, lost>>

NoResult == [code |-> "", error |-> ""]
Ok(r) == r.error = "" /\ r.code # ""

Params == [state : {"", "ours", "other"}, code : {"", "code"}, error : {"", "denied"}]
NoParams == [state |-> "", code |-> "", error |-> ""]

InitLogin ==
    /\ pc = "check" /\ flow = <<>>
    /\ expired \in BOOLEAN /\ cancel = FALSE
    /\ server = "down" /\ expected = "" /\ done = FALSE /\ result = NoResult
    /\ request = [r \in Requests |-> [phase |-> "none", params |-> NoParams, page |-> ""]]
    /\ out = NoResult /\ tokens = "" /\ presented = FALSE /\ lost = {}

-----------------------------------------------------------------------------
(* The environment *)

DeadlinePasses ==
    /\ ~expired /\ expired' = TRUE
    /\ UNCHANGED <<pc, flow, cancel, server, out, tokens, presented, receiver>>

AskToCancel ==
    /\ ~cancel /\ cancel' = TRUE
    /\ UNCHANGED <<pc, flow, expired, server, out, tokens, presented, receiver>>

\* External (httplib): a connection is accepted while the server listens; its handler follows.
Arrive(r, params) ==
    /\ server = "up" /\ request[r].phase = "none"
    /\ \A q \in 1 .. r - 1 : request[q].phase # "none"
    /\ params.state = "ours" => presented
    /\ request' = [request EXCEPT ![r] = [phase |-> "accepted", params |-> params, page |-> ""]]
    /\ UNCHANGED <<pc, flow, expired, cancel, server, expected, done, result, out, tokens,
                   presented, lost>>

-----------------------------------------------------------------------------
(* The /callback handler *)

\* What the handler refuses with 400.
Mut_MatchesUnset(params) == done \/ params.state # expected
Mut_RefusesNoneAfterEnd(params) == expected = "" \/ params.state # expected
Refuses(params) == done \/ expected = "" \/ params.state # expected

\* The end an accepted callback brings: the IdP's error (printed), a missing code, or the code.
Answer(params) ==
    IF params.error # "" \/ params.code = ""
      THEN [code |-> "", error |-> IF params.error = "" THEN "invalid_request"
                                                       ELSE params.error]
      ELSE [code |-> params.code, error |-> ""]

Handle(r) ==
    /\ request[r].phase = "accepted"
    /\ LET params == request[r].params
           ended  == Answer(params)
           page   == IF Refuses(params) \/ ~Ok(ended) THEN "failed" ELSE "signed in"
           kept   == IF Refuses(params) THEN NoParams ELSE params
       IN /\ request' = [request EXCEPT ![r] = [phase |-> "answered", params |-> kept, page |-> page]]
          /\ done' = (done \/ ~Refuses(params))
          /\ result' = IF Refuses(params) THEN result ELSE ended
          /\ lost' = IF Refuses(params) /\ params.state = "ours" /\ ~done
                       THEN lost \union {r} ELSE lost
    /\ UNCHANGED <<pc, flow, expired, cancel, server, expected, out, tokens, presented>>

\* External (httplib): a connection still unread when the server stops is closed unanswered.
Close(r) ==
    /\ server = "stopping" /\ request[r].phase = "accepted"
    /\ request' = [request EXCEPT ![r] = [phase |-> "answered", params |-> NoParams, page |-> ""]]
    /\ UNCHANGED <<pc, flow, expired, cancel, server, expected, done, result, out, tokens,
                   presented, lost>>

-----------------------------------------------------------------------------
(* AuthorizationCodeLogin up to Wait *)

\* What follows a successful Start: the state is expected before the browser is sent anywhere.
Mut_PresentFirst == <<"present", "expect", "wait">>
FlowOrder == <<"expect", "present", "wait">>

Give(answer) == tokens' = answer /\ pc' = "returned"

\* The endpoints are checked before a port is bound.
Check ==
    /\ pc = "check"
    /\ \/ pc' = "start" /\ UNCHANGED tokens
       \/ Give("no browser flow")
    /\ UNCHANGED <<flow, expired, cancel, server, out, presented, receiver>>

Start ==
    /\ pc = "start"
    /\ \/ /\ pc' = "flow" /\ flow' = FlowOrder /\ server' = "up"
          /\ UNCHANGED tokens
       \/ Give("not bound") /\ UNCHANGED <<flow, server>>
    /\ UNCHANGED <<expired, cancel, out, presented, receiver>>

Doing(step) == pc = "flow" /\ Head(flow) = step /\ flow' = Tail(flow)

Expect ==
    /\ Doing("expect")
    /\ expected' = "ours"
    /\ UNCHANGED <<pc, expired, cancel, server, done, result, request, out, tokens, presented,
                   lost>>

\* present is the caller's: it may throw, before or after the browser has the URL, and
\* ~LoopbackRedirect stops the server then too.
Present ==
    /\ Doing("present")
    /\ \/ presented' = TRUE /\ UNCHANGED <<pc, tokens>>
       \/ pc' = "stop" /\ tokens' = "threw" /\ presented' \in BOOLEAN
    /\ UNCHANGED <<expired, cancel, server, out, receiver>>

BeginWait ==
    /\ Doing("wait")
    /\ pc' = "top"
    /\ UNCHANGED <<expired, cancel, server, out, tokens, presented, receiver>>

-----------------------------------------------------------------------------
(* LoopbackRedirect::Wait *)

\* The wait's own end: later callbacks are refused and a second Wait reports it.
EndWith(code) ==
    /\ out' = [code |-> "", error |-> code]
    /\ done' = TRUE /\ result' = out'
    /\ pc' = "stop"

\* The locked top of the loop: a callback that came in time wins over the deadline.
Mut_NoDeadline == FALSE
DeadlineReached == expired

Top ==
    /\ pc = "top"
    /\ \/ /\ done
          /\ out' = result /\ pc' = "stop"
          /\ UNCHANGED <<done, result>>
       \/ ~done /\ DeadlineReached /\ EndWith("expired_token")
       \/ /\ ~done /\ ~DeadlineReached
          /\ pc' = "sleep" /\ UNCHANGED <<out, done, result>>
    /\ UNCHANGED <<flow, expired, cancel, server, expected, request, tokens, presented, lost>>

\* arrived.wait_for(200 ms) returns: a callback, the timeout, or for no reason.
Wake ==
    /\ pc = "sleep"
    /\ pc' = IF done THEN "top" ELSE "poll"
    /\ UNCHANGED <<flow, expired, cancel, server, out, tokens, presented, receiver>>

\* cancelled() runs outside the lock the handler takes (and may throw) ...
Poll ==
    /\ pc = "poll"
    /\ \/ pc' = (IF cancel THEN "claim" ELSE "top") /\ UNCHANGED tokens
       \/ pc' = "stop" /\ tokens' = "threw"
    /\ UNCHANGED <<flow, expired, cancel, server, out, presented, receiver>>

\* ... so a callback may have ended the login before the lock is taken again.
Mut_ClaimBlindly == TRUE
NotEndedMeanwhile == ~done

Claim ==
    /\ pc = "claim"
    /\ IF NotEndedMeanwhile
         THEN EndWith("cancelled")
         ELSE pc' = "top" /\ UNCHANGED <<out, done, result>>
    /\ UNCHANGED <<flow, expired, cancel, server, expected, request, tokens, presented, lost>>

-----------------------------------------------------------------------------
(* Impl::Stop, from Wait or from the destructor, then the exchange *)

Stop ==
    /\ pc = "stop"
    /\ server' = "stopping" /\ pc' = "join"
    /\ UNCHANGED <<flow, expired, cancel, out, tokens, presented, receiver>>

\* thread.join: the listener ends when its pool has no request left.
Mut_NoJoin == TRUE
PoolDrained == \A r \in Requests : request[r].phase # "accepted"

Join ==
    /\ pc = "join" /\ PoolDrained
    /\ server' = "down"
    /\ IF tokens # "" THEN pc' = "returned" /\ UNCHANGED tokens
       ELSE IF Ok(out) THEN pc' = "exchange" /\ UNCHANGED tokens
       ELSE Give(out.error)
    /\ UNCHANGED <<flow, expired, cancel, out, presented, receiver>>

\* External: the token endpoint takes the code or refuses it.
Exchange ==
    /\ pc = "exchange"
    /\ \E answer \in {"token", "refused"} : Give(answer)
    /\ UNCHANGED <<flow, expired, cancel, server, out, presented, receiver>>

-----------------------------------------------------------------------------
LoginStep ==
    Check \/ Start \/ Expect \/ Present \/ BeginWait \/ Top \/ Wake \/ Poll \/ Claim \/ Stop
    \/ Join \/ Exchange

Returned == pc = "returned" /\ UNCHANGED loginVars

NextLogin ==
    \/ LoginStep
    \/ DeadlinePasses \/ AskToCancel
    \/ \E r \in Requests : (\E params \in Params : Arrive(r, params)) \/ Handle(r) \/ Close(r)
    \/ Returned

-----------------------------------------------------------------------------
(* Properties *)

SignedIn(r) == request[r].page = "signed in"

\* The browser and the caller agree: "Login complete." is shown for the callback whose code the
\* wait returns, at most once, and never when the login ends cancelled or expired (a login one
\* of whose callbacks threw may have shown it); and a code is exchanged only if it was.
PageAgreesWithLogin ==
    /\ \A r1, r2 \in Requests : SignedIn(r1) /\ SignedIn(r2) => r1 = r2
    /\ \A r \in Requests : SignedIn(r) => done /\ result.code = request[r].params.code
    /\ pc = "returned" /\ (\E r \in Requests : SignedIn(r)) => tokens \in {"token", "refused", "threw"}
    /\ pc = "exchange" => \E r \in Requests : SignedIn(r)

\* "Only the request carrying the state this login sent completes it": an end that came from a
\* callback came from one with our state, sent after the URL was presented.  And that request
\* does: "a callback that lands before [Expect] is refused, and a browser does not retry", so none
\* with our state is ever refused unless the login had already ended.
ResultIsOurCallback ==
    /\ done /\ result.error \notin {"expired_token", "cancelled"} =>
          /\ presented
          /\ \E r \in Requests : /\ request[r].params.state = "ours"
                                 /\ result = Answer(request[r].params)
    /\ lost = {}

\* Nothing touches the receiver once the login returned and destroyed it: no handler is in flight
\* and the server's thread was joined, on every path out.
NoHandlerOutlivesLogin ==
    pc \in {"exchange", "returned"} =>
        server = "down" /\ \A r \in Requests : request[r].phase # "accepted"

\* The end of a login is decided once: a second Wait "reports the first's end", so neither a
\* late callback nor a cancellation racing one changes it.
EndIsFinal == [][done => done' /\ result' = result]_<<done, result>>

=============================================================================
