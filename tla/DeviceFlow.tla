----------------------------- MODULE DeviceFlow -----------------------------
(***************************************************************************)
(* oidc_core.cpp: the device flow - DeviceBegin with its parser, a caller  *)
(* that shows the code and calls DevicePoll some time later with the       *)
(* begin's interval (or its own) and a deadline the begin's expires_in     *)
(* sets.  Time is in seconds; a request takes one of PostTimes             *)
(* (the built-in transport gives up after 30 s), a slice of sleep takes    *)
(* one, everything else takes none.  The numbers of the code are           *)
(* parameters, so that TLC can use small ones.                             *)
(***************************************************************************)
EXTENDS Naturals, Integers

CONSTANTS
    PostTimes,          \* how long a request may take
    RawIntervals,       \* `interval` in the device authorization answer; 0 when absent
    RawLifetimes,       \* `expires_in` in it; 0 when absent
    OwnIntervals,       \* intervals a caller passes instead of the answer's
    Delays,             \* how long a caller takes to call DevicePoll
    DefaultInterval,    \* 5
    IntervalCap,        \* 900: the most ParseDeviceAuthorization lets through
    DefaultLifetime,    \* 600
    LifetimeCap,        \* 86400
    SlowDown,           \* 5: what slow_down adds
    PollCap             \* 3600: what slow_down raises the interval to at most

ASSUME DeviceAssumption ==
    /\ PostTimes \subseteq Nat /\ \E t \in PostTimes : \A u \in PostTimes : u <= t
    /\ RawIntervals \subseteq Int /\ RawLifetimes \subseteq Int
    /\ OwnIntervals \subseteq Int /\ Delays \subseteq Nat
    /\ {DefaultInterval, IntervalCap, DefaultLifetime, LifetimeCap, SlowDown} \subseteq Nat \ {0}
    /\ PollCap \in Nat

VARIABLES
    stage,              \* "begin", "call", "top", "post", "answered", "sleep", "returned"
    now,                \* NowSeconds(), from 0
    interval, deadline, \* DevicePoll's
    slept,              \* seconds slept of the current interval
    interrupted,        \* what cancelled() answers
    outcome,            \* what DevicePoll returned: "" until it does
    started, first,     \* deviceHistory: when DevicePoll began, and with what interval
    slowDowns,          \* deviceHistory: slow_down answers
    cancelledAt,        \* deviceHistory: when cancellation was asked for
    answeredAt          \* deviceHistory: when the last answer came, -1 before the first

deviceHistory == <<started, first, slowDowns, cancelledAt, answeredAt>>
deviceVars == <<stage, now, interval, deadline, slept, interrupted, outcome, deviceHistory>>

InitDevice ==
    /\ stage = "begin" /\ now = 0
    /\ interval = 0 /\ deadline = 0 /\ slept = 0
    /\ interrupted = FALSE /\ outcome = ""
    /\ started = 0 /\ first = 0 /\ slowDowns = 0 /\ cancelledAt = 0 /\ answeredAt = -1

\* A positive value of the document, capped; otherwise the default.
Bounded(raw, cap, default) == IF raw > 0 THEN (IF raw > cap THEN cap ELSE raw) ELSE default

Return(what) == outcome' = what /\ stage' = "returned"

-----------------------------------------------------------------------------
\* DeviceBegin and ParseDeviceAuthorization: an error ends the flow.
Begin ==
    /\ stage = "begin"
    /\ \E t \in PostTimes : now' = now + t
    /\ \/ \E i \in RawIntervals, e \in RawLifetimes :
             /\ interval' = Bounded(i, IntervalCap, DefaultInterval)
             /\ deadline' = now' + Bounded(e, LifetimeCap, DefaultLifetime)
             /\ stage' = "call" /\ UNCHANGED outcome
       \/ Return("begin failed") /\ UNCHANGED <<interval, deadline>>
    /\ UNCHANGED <<slept, interrupted, deviceHistory>>

\* DevicePoll is called; a negative interval counts as none, and the caller's own has no cap.
CallPoll ==
    /\ stage = "call" /\ stage' = "top"
    /\ \E d \in Delays : now' = now + d
    /\ \E i \in {interval} \union OwnIntervals : interval' = IF i < 0 THEN 0 ELSE i
    /\ started' = now' /\ first' = interval'
    /\ UNCHANGED <<deadline, slept, interrupted, outcome, slowDowns, cancelledAt, answeredAt>>

\* The loop's first check.
PollTop ==
    /\ stage = "top"
    /\ IF interrupted THEN Return("cancelled") ELSE stage' = "post" /\ UNCHANGED outcome
    /\ UNCHANGED <<now, interval, deadline, slept, interrupted, deviceHistory>>

\* RFC 8628 3.5, bounded.
Mut_Uncapped == interval + SlowDown
Mut_ForgetsSlowDown == interval
Slower == IF interval + SlowDown > PollCap THEN PollCap ELSE interval + SlowDown

\* PostGrant: granted, told to wait, or any other error (denied, expired, transport).
Post ==
    /\ stage = "post"
    /\ \E t \in PostTimes : now' = now + t
    /\ answeredAt' = now'
    /\ \/ \E what \in {"granted", "refused"} :
             Return(what) /\ UNCHANGED <<interval, slowDowns>>
       \/ /\ stage' = "answered" /\ interval' = Slower /\ slowDowns' = slowDowns + 1
          /\ UNCHANGED outcome
       \/ stage' = "answered" /\ UNCHANGED <<interval, slowDowns, outcome>>
    /\ UNCHANGED <<deadline, slept, interrupted, started, first, cancelledAt>>

\* The wait must end before the deadline, or there is no point in waiting.
Mut_ComparesNow == now >= deadline
TooLate == interval >= deadline - now

Decide ==
    /\ stage = "answered"
    /\ IF TooLate THEN Return("expired_token") /\ UNCHANGED slept
       ELSE stage' = "sleep" /\ slept' = 0 /\ UNCHANGED outcome
    /\ UNCHANGED <<now, interval, deadline, interrupted, deviceHistory>>

\* One turn of the one-second slices: a cancellation is looked for before each.
Mut_SleepsThrough == FALSE
SeesCancel == interrupted

Mut_NoProgress == 0
SliceLength == 1

Slice ==
    /\ stage = "sleep"
    /\ \/ /\ slept >= interval
          /\ stage' = "top" /\ UNCHANGED <<now, slept, outcome>>
       \/ /\ slept < interval /\ SeesCancel
          /\ Return("cancelled") /\ UNCHANGED <<now, slept>>
       \/ /\ slept < interval /\ ~SeesCancel
          /\ now' = now + SliceLength /\ slept' = slept + SliceLength /\ UNCHANGED <<stage, outcome>>
    /\ UNCHANGED <<interval, deadline, interrupted, deviceHistory>>

\* Somebody interrupts the query.
Interrupt ==
    /\ stage # "returned" /\ ~interrupted
    /\ interrupted' = TRUE /\ cancelledAt' = now
    /\ UNCHANGED <<stage, now, interval, deadline, slept, outcome, started, first, slowDowns,
                   answeredAt>>

-----------------------------------------------------------------------------
PollStep == PollTop \/ Post \/ Decide \/ Slice

PollReturned == stage = "returned" /\ UNCHANGED deviceVars

NextDevice == Begin \/ CallPoll \/ PollStep \/ Interrupt \/ PollReturned

SpecDevice == InitDevice /\ [][NextDevice]_deviceVars

\* The thread runs and every request is answered or times out; nobody has to interrupt.
DeviceStep == Begin \/ CallPoll \/ PollStep

-----------------------------------------------------------------------------
(* Properties *)

\* No request lasts longer.
LongestPost == CHOOSE t \in PostTimes : \A u \in PostTimes : u <= t

Greater(a, b) == IF a > b THEN a ELSE b
Polling == stage \in {"top", "post", "answered", "sleep"}

\* The poll outlives its deadline (or a start that was late already) by less than one request,
\* however the server stretches the interval: it never sleeps to or past the deadline, and
\* posts after it at most once.
OutlivesByOneRequestAtMost ==
    Polling => now <= Greater(started, deadline - 1) + LongestPost

\* "The poll never outlives `deadline_epoch_seconds`" (oidc_core.hpp), "whatever the server
\* answers" (oidc_core.cpp).
NeverOutlivesDeadline == Polling /\ started <= deadline => now <= deadline

\* The interval that was asked for so far: the one DevicePoll was called with, and every slow_down
\* since, up to the cap.
AskedFor ==
    LET slowed == first + SlowDown * slowDowns
    IN  IF slowDowns > 0 /\ slowed > PollCap THEN PollCap ELSE slowed

\* RFC 8628 3.5: two polls are at least as far apart as was asked for so far, and however often the
\* server says slow_down no sleep is longer than the cap, nor than a caller's own longer interval
\* (which the first slow_down shortens to the cap).
PollsAreSpaced ==
    /\ stage = "post" /\ answeredAt # -1 => now >= answeredAt + AskedFor
    /\ stage = "sleep" => interval <= (IF slowDowns > 0 THEN PollCap ELSE Greater(PollCap, first))

\* "A cancellation (a query interrupt) is honoured promptly": within one slice, or one request
\* when one is under way or about to be.
CancelIsPrompt ==
    Polling /\ interrupted => now <= Greater(cancelledAt, started) + Greater(LongestPost, 1)

=============================================================================
