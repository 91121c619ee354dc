----------------------- MODULE TokenAcquisitionProofs -----------------------
(***************************************************************************)
(* Theorems about TokenAcquisition: the grants, for any calls and any      *)
(* answers; the device flow, for any numbers of the code and any times;    *)
(* the browser login, for any number of requests at its port.              *)
(***************************************************************************)
EXTENDS TokenAcquisition, TLAPS

-----------------------------------------------------------------------------
(* Grants *)

\* The endpoints are those of the last document; a request under way is the one its call asked for,
\* with the endpoints of the time, and nothing is discovered meanwhile.
Asked ==
    /\ issuer \in {"http", "https"}
    /\ document \in Documents
    /\ ep = ParseDiscoveryDocument(document)
    /\ at = "ready" => sent = NoRequest
    /\ at = "posted" => call \in GrantCall /\ Accepts(call) /\ sent = Request(call)
    /\ at \in {"ready", "posted"}

GrantsInv == Asked /\ GrantedAsAsked

\* At first nothing was discovered, asked or granted.
LEMMA InitGrantsInv == InitGrants => GrantsInv
BY DEF InitGrants, GrantsInv, Asked, GrantedAsAsked, NoDocument, Documents, Schemes, Exchanges,
       ParseDiscoveryDocument, NoRequest, Failed

\* A discovery replaces document and endpoints together.
LEMMA DiscoverInv ==
    ASSUME GrantsInv, NEW doc \in Documents, Discover(doc)
    PROVE  GrantsInv'
BY DEF GrantsInv, Asked, GrantedAsAsked, Discover, ParseDiscoveryDocument, Downgrade

\* A call is refused, or posts its request.
LEMMA StartCallInv ==
    ASSUME GrantsInv, NEW c \in Calls, StartCall(c)
    PROVE  GrantsInv'
<1>1. c \in GrantCall
  BY GrantsAssumption
<1>2. UNCHANGED <<issuer, document, ep>> /\ call' = c /\ at = "ready"
  BY DEF StartCall
<1>3. /\ ParseDiscoveryDocument(document)' = ParseDiscoveryDocument(document)
      /\ Accepts(c)' = Accepts(c) /\ Request(c)' = Request(c)
  BY <1>2 DEF ParseDiscoveryDocument, Downgrade, Accepts, Request, AddClientAuth, EndpointsOk
<1>4. CASE Accepts(c)
  BY <1>1, <1>2, <1>3, <1>4 DEF StartCall, GrantsInv, Asked, GrantedAsAsked
<1>5. CASE ~Accepts(c)
  BY <1>1, <1>2, <1>3, <1>5 DEF StartCall, GrantsInv, Asked, GrantedAsAsked, Failed
<1>. QED BY <1>4, <1>5

\* Answering a request, or not, leaves the endpoints as they are.
LEMMA AnsweredAsked ==
    ASSUME Asked, NEW r, Answered(r)
    PROVE  Asked'
BY DEF Asked, Answered, ParseDiscoveryDocument, Downgrade

\* Whatever body an issuer that follows RFC 8693 sends, what is taken from it for an access token
\* is one.
LEMMA AnswerGrantInv ==
    ASSUME GrantsInv, NEW b \in Bodies, AnswerGrant(b)
    PROVE  GrantsInv'
<1>. DEFINE r == IF call.flow \in Exchanges THEN FinishExchange(b) ELSE Parsed(b)
<1>1. Answered(r) /\ call' = call /\ granted' = r /\ Honest(b)
  BY DEF AnswerGrant, Answered
<1>2. CASE call.flow \notin Exchanges
  <2>1. granted' = Parsed(b) /\ b.access \in {"none", "access"}
    BY <1>1, <1>2 DEF Honest
  <2>2. granted'.ok => granted'.access = "access"
    BY <2>1 DEF Parsed
  <2>. QED BY <1>1, <1>2, <2>2, AnsweredAsked DEF GrantsInv, GrantedAsAsked
<1>3. CASE call.flow \in Exchanges
  <2>1. CASE granted' = Failed
    BY <1>1, <1>3, <2>1, AnsweredAsked DEF GrantsInv, GrantedAsAsked, Failed
  <2>2. CASE granted' # Failed
    <3>1. /\ granted' = FinishExchange(b) /\ b.access # "none"
          /\ ~OtherType(b) /\ ~RefreshAlone(b)
      BY <1>1, <1>3, <2>2 DEF FinishExchange, Cleared, Parsed
    <3>2. b.access = "access"
      BY <1>1, <3>1 DEF Honest, OtherType, RefreshAlone, Bodies
    <3>3. granted' = Cleared(Parsed(b)) /\ Parsed(b).ok /\ Parsed(b).access = "access"
      BY <3>1, <3>2 DEF FinishExchange, Parsed
    <3>4. granted'.access = "access" /\ (granted'.refresh # "none" => call.with_refresh)
      BY <3>3 DEF Cleared, Parsed
    <3>. QED BY <1>1, <3>4, AnsweredAsked DEF GrantsInv, GrantedAsAsked
  <2>. QED BY <2>1, <2>2
<1>. QED BY <1>2, <1>3

\* Every step of the grants keeps the invariant.
LEMMA NextGrantsInv == GrantsInv /\ [NextGrants]_grantVars => GrantsInv'
<1>. SUFFICES ASSUME GrantsInv, [NextGrants]_grantVars PROVE GrantsInv'
  OBVIOUS
<1>1. CASE Unanswered
  BY <1>1, AnsweredAsked DEF Unanswered, Answered, GrantsInv, GrantedAsAsked, Failed
<1>2. CASE Revoked
  BY <1>2, AnsweredAsked DEF Revoked, Answered, GrantsInv, GrantedAsAsked, Exchanges
<1>3. CASE UNCHANGED grantVars
  BY <1>3 DEF grantVars, GrantsInv, Asked, GrantedAsAsked, ParseDiscoveryDocument, Downgrade, Accepts,
              Request, AddClientAuth, EndpointsOk
<1>. QED BY <1>1, <1>2, <1>3, DiscoverInv, StartCallInv, AnswerGrantInv DEF NextGrants

\* What the checks before a request leave of the endpoints it can go to.
LEMMA GrantsSafe == GrantsInv => CredentialsGoWhereAllowed
<1>. SUFFICES ASSUME GrantsInv, sent # NoRequest
              PROVE  CredentialsGoWhereAllowed
  BY DEF CredentialsGoWhereAllowed
<1>1. at = "posted" /\ call \in GrantCall /\ Accepts(call) /\ sent = Request(call)
  BY DEF GrantsInv, Asked
<1>2. CASE call.flow \in {"managed_identity", "github"}
  <2>1. sent.to = "platform"
    BY <1>1, <1>2 DEF Request, Exchanges
  <2>2. \/ call.url.host \in {"localhost", "::1", "127/8", "169.254/16"} /\ ~call.url.userinfo
        \/ call.flow = "github" /\ call.url.scheme = "https"
    BY <1>1, <1>2 DEF Accepts, LocalEndpoint, Exchanges
  <2>. QED BY <2>1, <2>2 DEF CredentialsGoWhereAllowed
<1>3. CASE call.flow = "revoke"
  <2>1. ep.revocation # "none" /\ sent.to = ep.revocation /\ sent.proof = "refresh"
    BY <1>1, <1>3 DEF Accepts, Request, Exchanges
  <2>2. /\ document.answered /\ document.issuer = "asked" /\ document.revocation = ep.revocation
        /\ ep.revocation \in {"http", "https"}
    BY <2>1 DEF GrantsInv, Asked, ParseDiscoveryDocument, NoEndpoints, Documents, Schemes
  <2>. QED BY <1>3, <2>1, <2>2 DEF CredentialsGoWhereAllowed
<1>4. CASE call.flow \notin {"managed_identity", "github", "revoke"}
  <2>1. call.flow \in Exchanges \union {"client_credentials", "password", "refresh"}
    BY <1>1, <1>4 DEF GrantCall, Flows, Exchanges
  <2>2. EndpointsOk /\ sent.to = ep.token
    <3>1. CASE call.flow \in Exchanges
      BY <1>1, <3>1 DEF Accepts, Request, AddClientAuth, Exchanges
    <3>2. CASE call.flow = "client_credentials"
      BY <1>1, <3>2 DEF Accepts, Request, AddClientAuth, Exchanges
    <3>3. CASE call.flow \in {"password", "refresh"}
      BY <1>1, <3>3 DEF Accepts, Request, Exchanges
    <3>. QED BY <2>1, <3>1, <3>2, <3>3
  <2>3. /\ document.answered /\ document.issuer = "asked" /\ document.token = ep.token
        /\ ~Downgrade(document) /\ ep.token \in {"http", "https"}
    BY <2>2 DEF GrantsInv, Asked, ParseDiscoveryDocument, NoEndpoints, EndpointsOk, Documents, Schemes
  <2>4. call.proofs \intersect {"key", "bad key"} # {} => sent.proof \notin {"assertion", "secret", "none"}
    <3>1. CASE call.flow \in Exchanges
      BY <1>1, <3>1 DEF Accepts, Request, AddClientAuth, Proof, Exchanges
    <3>2. CASE call.flow = "client_credentials"
      BY <1>1, <3>2 DEF Accepts, Request, AddClientAuth, Proof, Exchanges
    <3>3. CASE call.flow \in {"password", "refresh"}
      BY <1>1, <3>3 DEF Request, Exchanges
    <3>. QED BY <2>1, <3>1, <3>2, <3>3
  <2>. QED BY <1>4, <2>2, <2>3, <2>4 DEF CredentialsGoWhereAllowed, Downgrade
<1>. QED BY <1>2, <1>3, <1>4

-----------------------------------------------------------------------------
(* The device flow *)

DeviceTyped ==
    /\ stage \in {"begin", "call", "top", "post", "answered", "sleep", "returned"}
    /\ now \in Nat /\ interval \in Nat /\ deadline \in Nat /\ slept \in Nat
    /\ interrupted \in BOOLEAN
    /\ started \in Nat /\ first \in Nat /\ slowDowns \in Nat /\ cancelledAt \in Nat
    /\ answeredAt \in Nat \union {-1}

\* Every sleep begins when an answer comes, lasts the interval in force, and ends before the
\* deadline; so the loop comes back to its top no later than that.
Timed ==
    /\ stage \in {"begin", "call"} => slowDowns = 0 /\ answeredAt = -1
    /\ Polling => interval = AskedFor /\ started <= now
    /\ stage \in {"top", "post"} =>
          /\ now <= Greater(started, deadline - 1)
          /\ answeredAt # -1 => now >= answeredAt + interval
    /\ stage = "answered" => answeredAt = now /\ now <= Greater(started, deadline - 1) + LongestPost
    /\ stage = "sleep" => /\ answeredAt # -1 /\ now = answeredAt + slept /\ slept <= interval
                          /\ answeredAt + interval < deadline

\* An interruption is found at the top and before each slice: a request is under way with one only
\* if it came during the request.
Noticed ==
    interrupted =>
        /\ cancelledAt <= now
        /\ stage = "post" => now <= Greater(cancelledAt, started)
        /\ Polling => now <= Greater(cancelledAt, started) + LongestPost

DeviceInv == DeviceTyped /\ Timed /\ Noticed

\* The longest request is one of them.
LEMMA LongestPostMeaning ==
    LongestPost \in PostTimes /\ LongestPost \in Nat /\ \A t \in PostTimes : t \in Nat /\ t <= LongestPost
BY DeviceAssumption DEF LongestPost

\* The numbers of the code.
LEMMA DeviceNumbers ==
    /\ DefaultInterval \in Nat /\ IntervalCap \in Nat /\ DefaultLifetime \in Nat
    /\ LifetimeCap \in Nat /\ SlowDown \in Nat /\ PollCap \in Nat
BY DeviceAssumption

\* What the parser lets through.
LEMMA BoundedType ==
    ASSUME NEW raw \in Int, NEW cap \in Nat, NEW default \in Nat
    PROVE  Bounded(raw, cap, default) \in Nat
BY DEF Bounded

\* The greater of two numbers is one of them and not less than either.
LEMMA GreaterType ==
    ASSUME NEW a \in Int, NEW b \in Int
    PROVE  /\ Greater(a, b) \in Int /\ Greater(a, b) >= a /\ Greater(a, b) >= b
           /\ Greater(a, b) \in {a, b}
BY DEF Greater

\* One more slow_down moves what is asked for as the code moves its interval.
LEMMA SlowerAsked ==
    ASSUME DeviceTyped, interval = AskedFor, interval' = Slower, slowDowns' = slowDowns + 1,
           UNCHANGED first
    PROVE  interval' = AskedFor' /\ interval' \in Nat
<1>1. SlowDown \in Nat /\ PollCap \in Nat /\ first \in Nat /\ slowDowns \in Nat
  BY DeviceAssumption DEF DeviceTyped
<1>2. PICK added \in Nat : added = SlowDown * slowDowns
  BY <1>1
<1>3. SlowDown * (slowDowns + 1) = added + SlowDown
  BY <1>1, <1>2
<1>4. interval = IF slowDowns > 0 /\ first + added > PollCap THEN PollCap ELSE first + added
  BY <1>2 DEF AskedFor
<1>5. AskedFor' = IF first + (added + SlowDown) > PollCap THEN PollCap ELSE first + (added + SlowDown)
  BY <1>1, <1>3 DEF AskedFor
<1>6. interval' = IF interval + SlowDown > PollCap THEN PollCap ELSE interval + SlowDown
  BY DEF Slower
<1>. QED BY <1>1, <1>4, <1>5, <1>6

\* At first no time has passed.
LEMMA InitDeviceInv == InitDevice => DeviceInv
<1>. SUFFICES ASSUME InitDevice PROVE DeviceInv
  OBVIOUS
<1>1. interrupted = FALSE /\ stage = "begin"
  BY DEF InitDevice
<1>2. DeviceTyped
  <2>1. interrupted \in BOOLEAN
    BY <1>1
  <2>2. answeredAt \in Nat \union {-1}
    BY DEF InitDevice
  <2>. QED BY <2>1, <2>2 DEF InitDevice, DeviceTyped
<1>3. Timed
  <2>1. slowDowns = 0 /\ answeredAt = -1 /\ stage = "begin"
    BY DEF InitDevice
  <2>. QED BY <2>1 DEF Timed, Polling
<1>4. Noticed
  BY <1>1 DEF Noticed
<1>. QED BY <1>2, <1>3, <1>4 DEF DeviceInv

\* DeviceBegin ends the flow, or sets an interval within the cap and the deadline.
LEMMA BeginInv == DeviceInv /\ Begin => DeviceInv'
<1>. SUFFICES ASSUME DeviceInv, Begin PROVE DeviceInv'
  OBVIOUS
<1>1. /\ stage = "begin" /\ now' \in Nat /\ now <= now'
      /\ UNCHANGED <<slept, interrupted, started, first, slowDowns, cancelledAt, answeredAt>>
  <2>1. PICK t \in PostTimes : now' = now + t
    BY DEF Begin
  <2>2. now' \in Nat /\ now <= now'
    BY <2>1, LongestPostMeaning DEF DeviceInv, DeviceTyped
  <2>. QED BY <2>2 DEF Begin, deviceHistory
<1>2. CASE stage' = "call"
  <2>1. PICK i \in RawIntervals, e \in RawLifetimes :
            /\ interval' = Bounded(i, IntervalCap, DefaultInterval)
            /\ deadline' = now' + Bounded(e, LifetimeCap, DefaultLifetime)
    BY <1>2 DEF Begin, Return
  <2>2. i \in Int /\ e \in Int
    BY DeviceAssumption
  <2>3. interval' \in Nat
    BY <2>1, <2>2, DeviceNumbers, BoundedType
  <2>4. deadline' \in Nat
    <3>1. Bounded(e, LifetimeCap, DefaultLifetime) \in Nat
      BY <2>2, DeviceNumbers, BoundedType
    <3>. QED BY <1>1, <2>1, <3>1
  <2>. QED BY <1>1, <1>2, <2>3, <2>4 DEF DeviceInv, DeviceTyped, Timed, Noticed, Polling
<1>3. CASE stage' # "call"
  <2>1. stage' = "returned" /\ UNCHANGED <<interval, deadline>>
    BY <1>3 DEF Begin, Return
  <2>. QED BY <1>1, <2>1 DEF DeviceInv, DeviceTyped, Timed, Noticed, Polling
<1>. QED BY <1>2, <1>3

\* DevicePoll begins, early or late.
LEMMA CallPollInv == DeviceInv /\ CallPoll => DeviceInv'
<1>. SUFFICES ASSUME DeviceInv, CallPoll PROVE DeviceInv'
  OBVIOUS
<1>1. /\ stage = "call" /\ stage' = "top" /\ now' \in Nat /\ now <= now' /\ started' = now'
      /\ UNCHANGED <<deadline, slept, interrupted, slowDowns, cancelledAt, answeredAt>>
  <2>1. PICK d \in Delays : now' = now + d
    BY DEF CallPoll
  <2>. QED BY <2>1, DeviceAssumption DEF CallPoll, DeviceInv, DeviceTyped
<1>2. interval' \in Nat /\ first' = interval'
  BY DeviceAssumption DEF CallPoll, DeviceInv, DeviceTyped, Timed
<1>3. slowDowns' = 0 /\ answeredAt' = -1
  BY <1>1 DEF DeviceInv, Timed
<1>4. AskedFor' = interval'
  <2>1. SlowDown * slowDowns' = 0
    BY <1>3, DeviceAssumption
  <2>2. ~(slowDowns' > 0)
    BY <1>3
  <2>3. AskedFor' = first' + SlowDown * slowDowns'
    BY <2>2 DEF AskedFor
  <2>4. first' \in Nat /\ first' = interval'
    BY <1>2
  <2>. QED BY <2>1, <2>3, <2>4
<1>5. /\ now' <= Greater(started', deadline' - 1)
      /\ interrupted' => now' <= Greater(cancelledAt', started') + LongestPost
  <2>1. started' \in Int /\ deadline' - 1 \in Int /\ cancelledAt' \in Int /\ LongestPost \in Nat
    BY <1>1, LongestPostMeaning DEF DeviceInv, DeviceTyped
  <2>2. /\ Greater(started', deadline' - 1) >= started'
        /\ Greater(cancelledAt', started') >= started' /\ Greater(cancelledAt', started') \in Int
    BY <2>1, GreaterType
  <2>3. started' = now'
    BY <1>1
  <2>. QED BY <2>1, <2>2, <2>3
<1>6. DeviceTyped'
  BY <1>1, <1>2 DEF DeviceInv, DeviceTyped
<1>7. Timed'
  BY <1>1, <1>2, <1>3, <1>4, <1>5 DEF Timed, Polling
<1>8. Noticed'
  BY <1>1, <1>5 DEF DeviceInv, DeviceTyped, Noticed, Polling
<1>. QED BY <1>6, <1>7, <1>8 DEF DeviceInv

\* The check at the top.
LEMMA PollTopInv == DeviceInv /\ PollTop => DeviceInv'
BY DEF DeviceInv, DeviceTyped, Timed, Noticed, Polling, AskedFor, PollTop, Return, deviceHistory

\* A request takes some time, and its answer may stretch the interval.
LEMMA PostInv == DeviceInv /\ Post => DeviceInv'
<1>. SUFFICES ASSUME DeviceInv, Post PROVE DeviceInv'
  OBVIOUS
<1>1. PICK t \in PostTimes : now' = now + t
  BY DEF Post
<1>2. /\ stage = "post" /\ stage' \in {"returned", "answered"} /\ answeredAt' = now'
      /\ UNCHANGED <<deadline, slept, interrupted, started, first, cancelledAt>>
  BY DEF Post, Return
<1>3. /\ now \in Nat /\ t \in Nat /\ t <= LongestPost /\ LongestPost \in Nat
      /\ started \in Nat /\ deadline \in Nat /\ cancelledAt \in Nat
      /\ now <= Greater(started, deadline - 1) /\ started <= now
      /\ interrupted => now <= Greater(cancelledAt, started) /\ cancelledAt <= now
      /\ interval = AskedFor
  BY <1>2, LongestPostMeaning DEF DeviceInv, DeviceTyped, Timed, Noticed, Polling
<1>4. /\ interval' \in Nat /\ slowDowns' \in Nat
      /\ stage' = "answered" => interval' = AskedFor'
  <2>1. CASE interval' = Slower /\ slowDowns' = slowDowns + 1
    BY <1>2, <1>3, <2>1, SlowerAsked DEF DeviceInv, DeviceTyped
  <2>2. CASE UNCHANGED <<interval, slowDowns>>
    BY <1>2, <2>2 DEF DeviceInv, DeviceTyped, Timed, Polling, AskedFor
  <2>. QED BY <2>1, <2>2 DEF Post
<1>5. /\ now' \in Nat /\ started <= now' /\ now' <= Greater(started, deadline - 1) + LongestPost
      /\ interrupted => now' <= Greater(cancelledAt, started) + LongestPost /\ cancelledAt <= now'
  BY <1>1, <1>3 DEF Greater
<1>6. DeviceTyped'
  BY <1>2, <1>4, <1>5 DEF DeviceInv, DeviceTyped
<1>7. Timed'
  BY <1>2, <1>4, <1>5 DEF Timed, Polling, Greater
<1>8. Noticed'
  BY <1>2, <1>5 DEF Noticed, Polling, Greater
<1>. QED BY <1>6, <1>7, <1>8 DEF DeviceInv

\* No sleep begins that would not end before the deadline.
LEMMA DecideInv == DeviceInv /\ Decide => DeviceInv'
<1>. SUFFICES ASSUME DeviceInv, Decide PROVE DeviceInv'
  OBVIOUS
<1>1. /\ stage = "answered" /\ answeredAt = now
      /\ UNCHANGED <<now, interval, deadline, interrupted, started, first, slowDowns, cancelledAt,
                     answeredAt>>
  BY DEF Decide, deviceHistory, DeviceInv, Timed
<1>2. CASE TooLate
  BY <1>1, <1>2 DEF Decide, Return, DeviceInv, DeviceTyped, Timed, Noticed, Polling, Greater
<1>3. CASE ~TooLate
  BY <1>1, <1>3 DEF Decide, TooLate, DeviceInv, DeviceTyped, Timed, Noticed, Polling, AskedFor, Greater
<1>. QED BY <1>2, <1>3

\* A slice passes, or the sleep ends: by itself, before the deadline, or by an interruption.
LEMMA SliceInv == DeviceInv /\ Slice => DeviceInv'
<1>. SUFFICES ASSUME DeviceInv, Slice PROVE DeviceInv'
  OBVIOUS
<1>1. /\ stage = "sleep"
      /\ UNCHANGED <<interval, deadline, interrupted, started, first, slowDowns, cancelledAt,
                     answeredAt>>
  BY DEF Slice, deviceHistory
<1>2. AskedFor' = AskedFor
  BY <1>1 DEF AskedFor
<1>3. CASE slept >= interval
  BY <1>1, <1>2, <1>3, LongestPostMeaning
     DEF Slice, DeviceInv, DeviceTyped, Timed, Noticed, Polling, Greater
<1>4. CASE slept < interval /\ SeesCancel
  BY <1>1, <1>4 DEF Slice, Return, DeviceInv, DeviceTyped, Timed, Noticed, Polling
<1>5. CASE slept < interval /\ ~SeesCancel
  BY <1>1, <1>2, <1>5
     DEF Slice, SeesCancel, SliceLength, DeviceInv, DeviceTyped, Timed, Noticed, Polling
<1>. QED BY <1>1, <1>3, <1>4, <1>5 DEF DeviceInv, DeviceTyped

\* An interruption, whatever is under way.
LEMMA InterruptInv == DeviceInv /\ Interrupt => DeviceInv'
<1>. SUFFICES ASSUME DeviceInv, Interrupt PROVE DeviceInv'
  OBVIOUS
<1>1. now <= Greater(now, started) /\ Greater(now, started) \in Nat
  BY DEF DeviceInv, DeviceTyped, Greater
<1>. QED BY <1>1, LongestPostMeaning
         DEF Interrupt, DeviceInv, DeviceTyped, Timed, Noticed, Polling, AskedFor, Greater

\* Every step of the device flow keeps the invariant.
LEMMA NextDeviceInv == DeviceInv /\ [NextDevice]_deviceVars => DeviceInv'
<1>1. DeviceInv /\ UNCHANGED deviceVars => DeviceInv'
  BY DEF deviceVars, deviceHistory, DeviceInv, DeviceTyped, Timed, Noticed, Polling, AskedFor, Greater
<1>. QED BY <1>1, BeginInv, CallPollInv, PollTopInv, PostInv, DecideInv, SliceInv, InterruptInv
         DEF NextDevice, PollStep, PollReturned

\* What the invariant says of the deadline, the spacing of the polls and cancellation.
LEMMA DeviceSafe == DeviceInv => OutlivesByOneRequestAtMost /\ PollsAreSpaced /\ CancelIsPrompt
<1>. SUFFICES ASSUME DeviceInv PROVE OutlivesByOneRequestAtMost /\ PollsAreSpaced /\ CancelIsPrompt
  OBVIOUS
<1>1. OutlivesByOneRequestAtMost
  BY LongestPostMeaning
     DEF OutlivesByOneRequestAtMost, DeviceInv, DeviceTyped, Timed, Polling, Greater
<1>2. PollsAreSpaced
  <2>1. /\ stage = "post" /\ answeredAt # -1 => now >= answeredAt + AskedFor
        /\ stage = "sleep" => interval = AskedFor
    BY DEF DeviceInv, Timed, Polling
  <2>2. SlowDown \in Nat /\ PollCap \in Nat /\ first \in Nat /\ slowDowns \in Nat
    BY DeviceAssumption DEF DeviceInv, DeviceTyped
  <2>3. slowDowns > 0 => AskedFor <= PollCap
    BY <2>2 DEF AskedFor
  <2>4. ~(slowDowns > 0) => AskedFor = first
    BY <2>2 DEF AskedFor
  <2>. QED BY <2>1, <2>2, <2>3, <2>4 DEF PollsAreSpaced, Greater
<1>3. CancelIsPrompt
  BY LongestPostMeaning DEF CancelIsPrompt, DeviceInv, DeviceTyped, Noticed, Greater
<1>. QED BY <1>1, <1>2, <1>3

-----------------------------------------------------------------------------
(* The browser login *)

Waiting == {"flow", "top", "sleep", "poll", "claim"}
Results == [code : {"", "code"}, error : {"", "denied", "invalid_request", "expired_token", "cancelled"}]
RequestType == [phase : {"none", "accepted", "answered"}, params : Params,
                page : {"", "failed", "signed in"}]

LoginTyped ==
    /\ pc \in Waiting \union {"check", "start", "stop", "join", "exchange", "returned"}
    /\ pc = "flow" => flow \in {FlowOrder, <<"present", "wait">>, <<"wait">>}
    /\ done \in BOOLEAN /\ presented \in BOOLEAN /\ expected \in {"", "ours"}
    /\ result \in Results /\ out \in Results
    /\ request \in [Requests -> RequestType]

\* The server is up exactly while the login waits; when it is down no handler runs.
ServerFollows ==
    /\ server = "up" => pc \in Waiting \union {"stop"}
    /\ pc \in {"check", "start"} => server = "down" /\ \A r \in Requests : request[r].phase = "none"
    /\ pc \in {"exchange", "returned"} => NoHandlerOutlivesLogin

\* Nobody can send our state before it is expected.
ExpectedFirst ==
    /\ pc = "flow" /\ flow = <<"present", "wait">> => expected = "ours"
    /\ presented => /\ expected = "ours" /\ pc \notin {"check", "start"}
                    /\ pc = "flow" => flow = <<"wait">>
    /\ \A r \in Requests : request[r].params.state = "ours" => presented
    /\ lost = {}

\* The callback that ended the login, and the page it was shown; nothing else ends it but Wait.
EndedBy(r) ==
    /\ request[r].phase = "answered" /\ request[r].params.state = "ours"
    /\ result = Answer(request[r].params)
    /\ request[r].page = IF Ok(result) THEN "signed in" ELSE "failed"

PagesTrue ==
    /\ \A r \in Requests : SignedIn(r) => done /\ EndedBy(r)
    /\ \A r1, r2 \in Requests : SignedIn(r1) /\ SignedIn(r2) => r1 = r2
    /\ done /\ result.error \notin {"expired_token", "cancelled"} =>
          \E r \in Requests : EndedBy(r)

\* What Wait returned is the end, unless something threw.
ReturnsEnd ==
    /\ pc \in Waiting \union {"check", "start"} => tokens = ""
    /\ pc \in {"stop", "join"} => tokens = "threw" \/ (tokens = "" /\ done /\ out = result)
    /\ pc = "exchange" => done /\ out = result /\ Ok(out)
    /\ pc = "returned" => \/ tokens \in {"token", "refused", "threw"}
                          \/ \A r \in Requests : ~SignedIn(r)

LoginInv == LoginTyped /\ ServerFollows /\ ExpectedFirst /\ PagesTrue /\ ReturnsEnd

\* The end an answer brings.
LEMMA AnswerType ==
    ASSUME NEW params \in Params
    PROVE  /\ Answer(params) \in Results /\ Answer(params).error \notin {"expired_token", "cancelled"}
           /\ Ok(Answer(params)) => Answer(params).code = params.code
BY DEF Params, Answer, Results, Ok

\* At first nothing listens and nothing was sent.
LEMMA InitLoginInv == InitLogin => LoginInv
<1>. SUFFICES ASSUME InitLogin PROVE LoginInv
  OBVIOUS
<1>1. NoParams \in Params /\ NoResult \in Results /\ NoParams.state = ""
  BY DEF NoParams, Params, NoResult, Results
<1>2. \A r \in Requests : /\ request[r] \in RequestType /\ request[r].phase = "none"
                          /\ request[r].page = "" /\ request[r].params.state = ""
  BY <1>1 DEF InitLogin, RequestType
<1>3. request \in [Requests -> RequestType]
  BY <1>2 DEF InitLogin
<1>4. done = FALSE /\ presented = FALSE
  BY DEF InitLogin
<1>5. LoginTyped
  BY <1>1, <1>3, <1>4 DEF InitLogin, LoginTyped
<1>6. ServerFollows /\ ExpectedFirst
  BY <1>2, <1>4 DEF InitLogin, ServerFollows, ExpectedFirst, Waiting
<1>7. PagesTrue /\ ReturnsEnd
  BY <1>2, <1>4 DEF InitLogin, PagesTrue, ReturnsEnd, SignedIn, Waiting
<1>. QED BY <1>5, <1>6, <1>7 DEF LoginInv

\* A request arrives: it has no page yet, and our state only once the person has it.
LEMMA ArriveInv ==
    ASSUME LoginInv, NEW r \in Requests, NEW params \in Params, Arrive(r, params)
    PROVE  LoginInv'
<1>1. /\ request' = [request EXCEPT ![r] = [phase |-> "accepted", params |-> params, page |-> ""]]
      /\ UNCHANGED <<pc, flow, server, expected, done, result, out, tokens, presented, lost>>
      /\ server = "up" /\ request[r].phase = "none" /\ (params.state = "ours" => presented)
  BY DEF Arrive
<1>2. /\ request' \in [Requests -> RequestType] /\ request \in [Requests -> RequestType]
      /\ request'[r] = [phase |-> "accepted", params |-> params, page |-> ""]
      /\ \A q \in Requests : q # r => request'[q] = request[q]
  BY <1>1 DEF LoginInv, LoginTyped, RequestType
<1>3. pc \in Waiting \union {"stop"}
  BY <1>1 DEF LoginInv, ServerFollows
<1>4. LoginTyped' /\ ServerFollows'
  BY <1>1, <1>2, <1>3 DEF LoginInv, LoginTyped, ServerFollows, Waiting
<1>5. ExpectedFirst'
  BY <1>1, <1>2 DEF LoginInv, ExpectedFirst
<1>6. \A q \in Requests : /\ SignedIn(q)' <=> SignedIn(q) /\ q # r
                          /\ EndedBy(q) => EndedBy(q)' /\ q # r
                          /\ SignedIn(q) => q # r
  BY <1>1, <1>2 DEF SignedIn, EndedBy, LoginInv, PagesTrue
<1>7. PagesTrue'
  BY <1>1, <1>6 DEF LoginInv, PagesTrue
<1>8. ReturnsEnd'
  BY <1>1, <1>3, <1>6 DEF LoginInv, ReturnsEnd, Waiting
<1>. QED BY <1>4, <1>5, <1>7, <1>8 DEF LoginInv

\* What a step keeps that answers request r without ending the login.
LEMMA UnendedInv ==
    ASSUME LoginInv, NEW r \in Requests, NEW page \in {"", "failed"}, request[r].phase = "accepted",
           request' = [request EXCEPT ![r] = [phase |-> "answered", params |-> NoParams, page |-> page]],
           UNCHANGED <<pc, flow, server, expected, done, result, out, tokens, presented, lost>>
    PROVE  LoginInv'
<1>1. NoParams \in Params /\ NoParams.state = ""
  BY DEF NoParams, Params
<1>2. /\ request' \in [Requests -> RequestType] /\ request \in [Requests -> RequestType]
      /\ request'[r] = [phase |-> "answered", params |-> NoParams, page |-> page]
      /\ \A q \in Requests : q # r => request'[q] = request[q]
  BY <1>1 DEF LoginInv, LoginTyped, RequestType
<1>3. LoginTyped' /\ ServerFollows'
  <2>1. LoginTyped'
    BY <1>2 DEF LoginInv, LoginTyped
  <2>2. pc \notin {"check", "start", "exchange", "returned"}
    BY DEF LoginInv, ServerFollows, NoHandlerOutlivesLogin
  <2>. QED BY <2>1, <2>2 DEF LoginInv, ServerFollows
<1>4. ExpectedFirst'
  BY <1>1, <1>2 DEF LoginInv, ExpectedFirst
<1>5. \A q \in Requests : /\ SignedIn(q)' <=> SignedIn(q) /\ q # r
                          /\ EndedBy(q) => EndedBy(q)' /\ q # r
                          /\ SignedIn(q) => q # r
  BY <1>2 DEF SignedIn, EndedBy, LoginInv, PagesTrue
<1>6. PagesTrue'
  BY <1>5 DEF LoginInv, PagesTrue
<1>7. ReturnsEnd'
  BY <1>5 DEF LoginInv, ReturnsEnd
<1>. QED BY <1>3, <1>4, <1>6, <1>7 DEF LoginInv

\* The handler refuses, or ends the login, which had no end before.
LEMMA HandleInv ==
    ASSUME LoginInv, NEW r \in Requests, Handle(r)
    PROVE  LoginInv'
<1>1. PICK params \in Params : params = request[r].params
  BY DEF LoginInv, LoginTyped, RequestType
<1>2. /\ request[r].phase = "accepted" /\ done \in BOOLEAN
      /\ params.state = "ours" => expected = "ours"
      /\ lost = {} /\ expected \in {"", "ours"}
      /\ UNCHANGED <<pc, flow, server, expected, out, tokens, presented>>
  BY <1>1 DEF Handle, LoginInv, LoginTyped, ExpectedFirst
<1>3. CASE Refuses(params)
  <2>1. /\ request' = [request EXCEPT ![r] = [phase |-> "answered", params |-> NoParams, page |-> "failed"]]
        /\ UNCHANGED <<result, done>>
    BY <1>1, <1>2, <1>3 DEF Handle
  <2>2. lost' = lost
    BY <1>1, <1>2, <1>3 DEF Handle, Refuses
  <2>. QED BY <1>2, <2>1, <2>2, UnendedInv
<1>4. CASE ~Refuses(params)
  <2>1. PICK ended \in Results : /\ ended = Answer(params)
                                 /\ ended.error \notin {"expired_token", "cancelled"}
    BY AnswerType
  <2>2. PICK page \in {"failed", "signed in"} : page = IF Ok(ended) THEN "signed in" ELSE "failed"
    OBVIOUS
  <2>3. /\ done = FALSE /\ params.state = "ours" /\ done' = TRUE /\ result' = ended /\ lost' = {}
        /\ request' = [request EXCEPT ![r] = [phase |-> "answered", params |-> params, page |-> page]]
    BY <1>1, <1>2, <1>4, <2>1, <2>2 DEF Handle, Refuses
  <2>4. /\ request' \in [Requests -> RequestType]
        /\ request'[r] = [phase |-> "answered", params |-> params, page |-> page]
        /\ \A q \in Requests : q # r => request'[q] = request[q]
    BY <2>3 DEF LoginInv, LoginTyped, RequestType
  <2>5. pc \notin {"check", "start", "exchange", "returned"}
    BY <1>2 DEF LoginInv, ServerFollows, NoHandlerOutlivesLogin
  <2>6. LoginTyped' /\ ServerFollows'
    BY <1>2, <2>3, <2>4, <2>5 DEF LoginInv, LoginTyped, ServerFollows
  <2>7. presented
    BY <1>1, <2>3 DEF LoginInv, ExpectedFirst
  <2>8. ExpectedFirst'
    BY <1>2, <2>3, <2>4, <2>7 DEF LoginInv, ExpectedFirst
  <2>9. EndedBy(r)' /\ \A q \in Requests : SignedIn(q)' => q = r
    BY <2>1, <2>2, <2>3, <2>4 DEF EndedBy, SignedIn, LoginInv, PagesTrue, Answer, Ok
  <2>10. PagesTrue'
    BY <2>3, <2>9 DEF PagesTrue
  <2>11. ReturnsEnd'
    BY <1>2, <2>3, <2>5 DEF LoginInv, ReturnsEnd
  <2>. QED BY <2>6, <2>8, <2>10, <2>11 DEF LoginInv
<1>. QED BY <1>3, <1>4

\* A connection closed unanswered brings no end.
LEMMA CloseInv ==
    ASSUME LoginInv, NEW r \in Requests, Close(r)
    PROVE  LoginInv'
BY UnendedInv DEF Close

\* The pages stay as they are while nobody touches the receiver.
LEMMA PagesKept ==
    ASSUME PagesTrue, UNCHANGED <<request, done, result>>
    PROVE  PagesTrue' /\ \A r \in Requests : SignedIn(r)' <=> SignedIn(r)
BY DEF PagesTrue, SignedIn, EndedBy

\* The steps before the server is up, and the one that brings it up.
LEMMA CheckStartInv == LoginInv /\ (Check \/ Start) => LoginInv'
<1>. SUFFICES ASSUME LoginInv, Check \/ Start PROVE LoginInv'
  OBVIOUS
<1>1. /\ UNCHANGED <<expected, done, result, request, lost, out, presented>>
      /\ pc \in {"check", "start"}
  BY DEF Check, Start, receiver
<1>2. PagesTrue' /\ \A r \in Requests : ~SignedIn(r) /\ request[r].phase = "none"
  BY <1>1, PagesKept DEF LoginInv, PagesTrue, ServerFollows, EndedBy
<1>3. \/ pc' \in {"start", "returned"} /\ UNCHANGED <<flow, server>>
      \/ pc' = "flow" /\ flow' = FlowOrder
  BY DEF Check, Start, Give
<1>4. LoginTyped'
  BY <1>1, <1>3 DEF LoginInv, LoginTyped, Waiting
<1>5. ExpectedFirst'
  <2>1. FlowOrder # <<"present", "wait">>
    BY DEF FlowOrder
  <2>. QED BY <1>1, <1>3, <2>1 DEF LoginInv, ExpectedFirst
<1>6. server = "down"
  BY <1>1 DEF LoginInv, ServerFollows
<1>7. ServerFollows'
  BY <1>1, <1>2, <1>3, <1>6 DEF ServerFollows, NoHandlerOutlivesLogin, Waiting
<1>8. ReturnsEnd'
  <2>1. pc' = "returned" => \A r \in Requests : ~SignedIn(r)'
    BY <1>1, <1>2 DEF SignedIn
  <2>2. pc' # "returned" => tokens' = tokens
    BY DEF Check, Start, Give
  <2>. QED BY <1>1, <1>3, <2>1, <2>2 DEF LoginInv, ReturnsEnd, Waiting
<1>. QED BY <1>2, <1>4, <1>5, <1>7, <1>8 DEF LoginInv

\* FlowOrder, step by step.
LEMMA FlowSteps ==
    ASSUME LoginTyped, pc = "flow", NEW step, Head(flow) = step
    PROVE  /\ step = "expect" => flow # <<"wait">> /\ Tail(flow) = <<"present", "wait">>
           /\ step = "present" => flow = <<"present", "wait">> /\ Tail(flow) = <<"wait">>
<1>1. Head(FlowOrder) = "expect" /\ Tail(FlowOrder) = <<"present", "wait">>
  BY DEF FlowOrder
<1>2. /\ Head(<<"present", "wait">>) = "present" /\ Tail(<<"present", "wait">>) = <<"wait">>
      /\ Head(<<"wait">>) = "wait"
  OBVIOUS
<1>3. flow \in {FlowOrder, <<"present", "wait">>, <<"wait">>}
  BY DEF LoginTyped
<1>. QED BY <1>1, <1>2, <1>3

\* The state is expected, and only then presented.
LEMMA FlowInv == LoginInv /\ (Expect \/ Present \/ BeginWait) => LoginInv'
<1>. SUFFICES ASSUME LoginInv, Expect \/ Present \/ BeginWait PROVE LoginInv'
  OBVIOUS
<1>1. UNCHANGED <<done, result, request, lost, out, server>> /\ pc = "flow"
  BY DEF Expect, Present, BeginWait, Doing, receiver
<1>2. PagesTrue' /\ \A r \in Requests : SignedIn(r)' <=> SignedIn(r)
  BY <1>1, PagesKept DEF LoginInv
<1>3. ServerFollows'
  <2>1. pc' \in {"flow", "top", "stop"}
    BY <1>1 DEF Expect, Present, BeginWait
  <2>. QED BY <1>1, <2>1 DEF ServerFollows, Waiting
<1>4. CASE Expect
  <2>1. /\ flow # <<"wait">> /\ flow' = <<"present", "wait">> /\ expected' = "ours"
        /\ UNCHANGED <<pc, tokens, presented>>
    BY <1>1, <1>4, FlowSteps DEF Expect, Doing, LoginInv
  <2>2. LoginTyped' /\ ExpectedFirst' /\ ReturnsEnd'
    BY <1>1, <2>1 DEF LoginInv, LoginTyped, ExpectedFirst, ReturnsEnd, Waiting
  <2>. QED BY <1>2, <1>3, <2>2 DEF LoginInv
<1>5. CASE Present
  <2>1. /\ flow = <<"present", "wait">> /\ flow' = <<"wait">> /\ UNCHANGED expected
    BY <1>1, <1>5, FlowSteps DEF Present, Doing, LoginInv, receiver
  <2>2. \/ presented' = TRUE /\ UNCHANGED <<pc, tokens>>
        \/ pc' = "stop" /\ tokens' = "threw" /\ presented' \in BOOLEAN
    BY <1>5 DEF Present
  <2>3. expected = "ours" /\ flow' # <<"present", "wait">> /\ presented' \in BOOLEAN
    <3>1. Len(<<"wait">>) # Len(<<"present", "wait">>)
      OBVIOUS
    <3>. QED BY <1>1, <2>1, <2>2, <3>1 DEF LoginInv, ExpectedFirst
  <2>4. LoginTyped'
    BY <1>1, <2>1, <2>2, <2>3 DEF LoginInv, LoginTyped
  <2>5. ExpectedFirst'
    <3>1. \A r \in Requests : request[r].params.state = "ours" => presented'
      <4>1. presented = FALSE
        BY <1>1, <2>1, <2>3 DEF LoginInv, ExpectedFirst, LoginTyped
      <4>. QED BY <4>1 DEF LoginInv, ExpectedFirst
    <3>. QED BY <1>1, <2>1, <2>2, <2>3, <3>1 DEF LoginInv, ExpectedFirst
  <2>6. ReturnsEnd'
    BY <1>1, <2>2 DEF LoginInv, ReturnsEnd, Waiting
  <2>. QED BY <1>2, <1>3, <2>4, <2>5, <2>6 DEF LoginInv
<1>6. CASE BeginWait
  BY <1>1, <1>2, <1>3, <1>6
     DEF BeginWait, receiver, LoginInv, LoginTyped, ExpectedFirst, ReturnsEnd, Waiting
<1>. QED BY <1>4, <1>5, <1>6

\* The wait's own end, which nothing had ended before.
LEMMA EndWithInv ==
    ASSUME LoginInv, NEW code \in {"expired_token", "cancelled"}, pc \in {"top", "claim"}, done = FALSE,
           EndWith(code),
           UNCHANGED <<flow, server, expected, request, tokens, presented, lost>>
    PROVE  LoginInv'
<1>1. /\ pc' = "stop" /\ done' = TRUE /\ result' = [code |-> "", error |-> code] /\ out' = result'
      /\ result' \in Results
  BY DEF EndWith, Results
<1>2. \A r \in Requests : ~SignedIn(r) /\ ~SignedIn(r)'
  BY DEF LoginInv, PagesTrue, SignedIn
<1>3. LoginTyped' /\ ServerFollows' /\ ExpectedFirst' /\ ReturnsEnd'
  BY <1>1 DEF LoginInv, LoginTyped, ServerFollows, ExpectedFirst, ReturnsEnd, Waiting
<1>4. PagesTrue'
  BY <1>1, <1>2 DEF PagesTrue
<1>. QED BY <1>3, <1>4 DEF LoginInv

\* The loop of Wait.
LEMMA WaitInv == LoginInv /\ (Top \/ Wake \/ Poll \/ Claim) => LoginInv'
<1>. SUFFICES ASSUME LoginInv, Top \/ Wake \/ Poll \/ Claim PROVE LoginInv'
  OBVIOUS
<1>1. /\ UNCHANGED <<flow, server, expected, request, presented, lost>>
      /\ pc \in {"top", "sleep", "poll", "claim"} /\ done \in BOOLEAN
  BY DEF Top, Wake, Poll, Claim, receiver, LoginInv, LoginTyped
<1>2. CASE done = FALSE /\ tokens' = tokens /\ \E code \in {"expired_token", "cancelled"} :
              pc \in {"top", "claim"} /\ EndWith(code)
  BY <1>1, <1>2, EndWithInv
<1>3. CASE /\ UNCHANGED <<done, result>>
           /\ \/ pc' \in {"top", "sleep", "poll", "claim"} /\ UNCHANGED <<out, tokens>>
              \/ pc' = "stop" /\ tokens' = "threw" /\ UNCHANGED out
              \/ pc' = "stop" /\ done /\ out' = result /\ UNCHANGED tokens
  <2>1. PagesTrue'
    BY <1>1, <1>3, PagesKept DEF LoginInv
  <2>2. LoginTyped' /\ ServerFollows' /\ ExpectedFirst'
    BY <1>1, <1>3 DEF LoginInv, LoginTyped, ServerFollows, ExpectedFirst, Waiting
  <2>3. ReturnsEnd'
    BY <1>1, <1>3 DEF LoginInv, ReturnsEnd, Waiting
  <2>. QED BY <2>1, <2>2, <2>3 DEF LoginInv
<1>4. CASE Top
  BY <1>1, <1>2, <1>3, <1>4 DEF Top
<1>5. CASE Wake \/ Poll
  BY <1>3, <1>5 DEF Wake, Poll, receiver
<1>6. CASE Claim
  BY <1>1, <1>2, <1>3, <1>6 DEF Claim, NotEndedMeanwhile
<1>. QED BY <1>4, <1>5, <1>6

\* The server stops; it is down once its pool is empty; the code is exchanged.
LEMMA StopInv == LoginInv /\ (Stop \/ Join \/ Exchange) => LoginInv'
<1>. SUFFICES ASSUME LoginInv, Stop \/ Join \/ Exchange PROVE LoginInv'
  OBVIOUS
<1>1. UNCHANGED <<flow, expected, done, result, request, lost, out, presented>>
  BY DEF Stop, Join, Exchange, receiver
<1>2. PagesTrue' /\ \A r \in Requests : SignedIn(r)' <=> SignedIn(r)
  BY <1>1, PagesKept DEF LoginInv
<1>3. ExpectedFirst' /\ LoginTyped'
  <2>1. pc' \in {"join", "exchange", "returned"}
    BY DEF Stop, Join, Exchange, Give
  <2>. QED BY <1>1, <2>1 DEF LoginInv, LoginTyped, ExpectedFirst
<1>4. ServerFollows'
  <2>1. CASE Stop
    BY <2>1 DEF Stop, ServerFollows
  <2>2. CASE Join
    <3>1. pc' \in {"exchange", "returned"} /\ server' = "down" /\ PoolDrained
      BY <2>2 DEF Join, Give
    <3>. QED BY <1>1, <3>1 DEF ServerFollows, NoHandlerOutlivesLogin, PoolDrained
  <2>3. CASE Exchange
    BY <1>1, <2>3 DEF Exchange, Give, LoginInv, ServerFollows, NoHandlerOutlivesLogin
  <2>. QED BY <2>1, <2>2, <2>3
<1>5. ReturnsEnd'
  <2>1. CASE Stop
    BY <1>1, <2>1 DEF Stop, LoginInv, ReturnsEnd, Waiting
  <2>2. CASE Join
    <3>1. tokens = "threw" \/ (tokens = "" /\ done /\ out = result)
      BY <2>2 DEF Join, LoginInv, ReturnsEnd
    <3>2. CASE tokens = "threw"
      BY <2>2, <3>2 DEF Join, ReturnsEnd, Waiting
    <3>3. CASE tokens = "" /\ done /\ out = result /\ Ok(out)
      BY <1>1, <2>2, <3>3 DEF Join, ReturnsEnd, Waiting, Ok
    <3>4. CASE tokens = "" /\ done /\ out = result /\ ~Ok(out)
      <4>1. \A r \in Requests : ~SignedIn(r)
        BY <3>4 DEF LoginInv, PagesTrue, EndedBy, SignedIn
      <4>. QED BY <1>2, <2>2, <3>4, <4>1 DEF Join, Give, ReturnsEnd, Waiting
    <3>. QED BY <3>1, <3>2, <3>3, <3>4
  <2>3. CASE Exchange
    BY <2>3 DEF Exchange, Give, ReturnsEnd, Waiting
  <2>. QED BY <2>1, <2>2, <2>3
<1>. QED BY <1>2, <1>3, <1>4, <1>5 DEF LoginInv

\* Every step of the browser login keeps the invariant.
LEMMA NextLoginInv == LoginInv /\ [NextLogin]_loginVars => LoginInv'
<1>1. ASSUME LoginInv,
             UNCHANGED <<pc, flow, server, expected, done, result, request, out, tokens, presented, lost>>
      PROVE  LoginInv'
  <2>1. PagesTrue' /\ \A r \in Requests : SignedIn(r)' <=> SignedIn(r)
    BY <1>1, PagesKept DEF LoginInv
  <2>2. LoginTyped' /\ ServerFollows' /\ ExpectedFirst'
    BY <1>1 DEF LoginInv, LoginTyped, ServerFollows, ExpectedFirst, NoHandlerOutlivesLogin
  <2>3. ReturnsEnd'
    BY <1>1, <2>1 DEF LoginInv, ReturnsEnd
  <2>. QED BY <2>1, <2>2, <2>3 DEF LoginInv
<1>2. LoginInv /\ (DeadlinePasses \/ AskToCancel \/ Returned \/ UNCHANGED loginVars) => LoginInv'
  BY <1>1 DEF DeadlinePasses, AskToCancel, Returned, loginVars, receiver
<1>. QED BY <1>2, ArriveInv, HandleInv, CloseInv, CheckStartInv, FlowInv, WaitInv, StopInv
         DEF NextLogin, LoginStep

\* What the invariant says of the page, the end and the handlers.
LEMMA LoginSafe == LoginInv => PageAgreesWithLogin /\ ResultIsOurCallback /\ NoHandlerOutlivesLogin
<1>. SUFFICES ASSUME LoginInv
              PROVE  PageAgreesWithLogin /\ ResultIsOurCallback /\ NoHandlerOutlivesLogin
  OBVIOUS
<1>1. ASSUME NEW r \in Requests, SignedIn(r) PROVE done /\ result.code = request[r].params.code
  <2>1. done /\ EndedBy(r) /\ request[r].params \in Params
    BY <1>1 DEF LoginInv, PagesTrue, LoginTyped, RequestType
  <2>2. Ok(result)
    BY <1>1, <2>1 DEF EndedBy, SignedIn
  <2>. QED BY <2>1, <2>2, AnswerType DEF EndedBy
<1>2. pc = "exchange" => \E r \in Requests : SignedIn(r)
  <2>. SUFFICES ASSUME pc = "exchange" PROVE \E r \in Requests : SignedIn(r)
    OBVIOUS
  <2>1. done /\ Ok(result) /\ result.error = ""
    BY DEF LoginInv, ReturnsEnd, Ok
  <2>2. PICK r \in Requests : EndedBy(r)
    BY <2>1 DEF LoginInv, PagesTrue
  <2>. QED BY <2>1, <2>2 DEF EndedBy, SignedIn
<1>3. PageAgreesWithLogin
  BY <1>1, <1>2 DEF PageAgreesWithLogin, LoginInv, PagesTrue, ReturnsEnd
<1>4. ResultIsOurCallback
  BY DEF ResultIsOurCallback, LoginInv, PagesTrue, EndedBy, ExpectedFirst
<1>5. NoHandlerOutlivesLogin
  BY DEF LoginInv, ServerFollows, NoHandlerOutlivesLogin
<1>. QED BY <1>3, <1>4, <1>5

\* An end is not replaced: the handler refuses after one, and Wait looks again under the lock.
LEMMA NextKeepsEnd == LoginInv /\ NextLogin => (done => done' /\ result' = result)
<1>. SUFFICES ASSUME LoginInv, NextLogin, done PROVE done' /\ result' = result
  OBVIOUS
<1>1. ASSUME NEW r \in Requests, Handle(r) PROVE done' /\ result' = result
  BY <1>1 DEF Handle, Refuses
<1>2. CASE Top \/ Claim
  BY <1>2 DEF Top, Claim, NotEndedMeanwhile
<1>3. CASE \/ Check \/ Start \/ Expect \/ Present \/ BeginWait \/ Wake \/ Poll \/ Stop \/ Join \/ Exchange
           \/ DeadlinePasses \/ AskToCancel \/ Returned
  BY <1>3 DEF Check, Start, Expect, Present, BeginWait, Wake, Poll, Stop, Join, Exchange,
              DeadlinePasses, AskToCancel, Returned, receiver, loginVars
<1>4. ASSUME NEW r \in Requests, (\E params \in Params : Arrive(r, params)) \/ Close(r)
      PROVE  done' /\ result' = result
  BY <1>4 DEF Arrive, Close
<1>. QED BY <1>1, <1>2, <1>3, <1>4 DEF NextLogin, LoginStep

-----------------------------------------------------------------------------
(* The ways together *)

Inv == LoginInv /\ DeviceInv /\ GrantsInv

\* The initial states satisfy the invariant.
LEMMA InitInv == Init => Inv
BY InitLoginInv, InitDeviceInv, InitGrantsInv DEF Init, Inv

\* Every step is one of one way, which leaves the others as they are.
LEMMA NextInv == Inv /\ [Next]_vars => Inv'
<1>. SUFFICES ASSUME Inv, [Next]_vars PROVE Inv'
  OBVIOUS
<1>1. [NextLogin]_loginVars /\ [NextDevice]_deviceVars /\ [NextGrants]_grantVars
  BY DEF Next, Browser, Device, Grant, vars
<1>. QED BY <1>1, NextLoginInv, NextDeviceInv, NextGrantsInv DEF Inv

\* The invariant holds throughout.
LEMMA InvHolds == Spec => []Inv
BY InitInv, NextInv, PTL DEF Spec

\* The browser's page and the caller agree, for any number of requests at the port and however they
\* race the deadline and a cancellation: "Login complete." is shown at most once, for the code the
\* login exchanges (the /callback handler against LoopbackRedirect::Wait).
THEOREM PageIsTrue == Spec => []PageAgreesWithLogin
<1>1. Inv => PageAgreesWithLogin
  BY LoginSafe DEF Inv
<1>. QED BY <1>1, InvHolds, PTL

\* Only a request with the state this login sent ends it, and no such request is refused while the
\* login has not ended (Expect before present, the handler's check).
THEOREM OnlyOurCallbackEnds == Spec => []ResultIsOurCallback
<1>1. Inv => ResultIsOurCallback
  BY LoginSafe DEF Inv
<1>. QED BY <1>1, InvHolds, PTL

\* No handler touches the receiver once the login has returned (Impl::Stop joins on every path).
THEOREM NoLateHandler == Spec => []NoHandlerOutlivesLogin
<1>1. Inv => NoHandlerOutlivesLogin
  BY LoginSafe DEF Inv
<1>. QED BY <1>1, InvHolds, PTL

\* Neither a late callback nor a cancellation that races one replaces the end of a login (Wait takes
\* the lock again after cancelled() and looks whether the login ended meanwhile).
THEOREM EndStands == Spec => EndIsFinal
<1>1. Inv /\ [Next]_vars => [done => done' /\ result' = result]_<<done, result>>
  BY NextKeepsEnd DEF Inv, Next, Browser, Device, Grant, vars, loginVars
<1>. QED BY <1>1, InvHolds, PTL DEF Spec, EndIsFinal

\* The device poll is over less than one request after its deadline (or its late start), for any
\* interval and any slow_downs (DevicePoll compares the interval with what is left).
THEOREM DeadlineHonoured == Spec => []OutlivesByOneRequestAtMost
<1>1. Inv => OutlivesByOneRequestAtMost
  BY DeviceSafe DEF Inv
<1>. QED BY <1>1, InvHolds, PTL

\* Two polls are as far apart as the server has asked for so far, up to the cap (RFC 8628 3.5).
THEOREM SpacedAsAsked == Spec => []PollsAreSpaced
<1>1. Inv => PollsAreSpaced
  BY DeviceSafe DEF Inv
<1>. QED BY <1>1, InvHolds, PTL

\* A cancellation is honoured within a slice of sleep or one request (DevicePoll's checks).
THEOREM CancelHonoured == Spec => []CancelIsPrompt
<1>1. Inv => CancelIsPrompt
  BY DeviceSafe DEF Inv
<1>. QED BY <1>1, InvHolds, PTL

\* In any sequence of discoveries and calls, with any documents, calls and platform URLs, a request
\* of any flow goes to its endpoint of a document that speaks for the issuer or to a local platform
\* endpoint, and a grant - not Revoke - never to a document with a downgrade to cleartext
\* (ParseDiscoveryDocument, PostGrant, Revoke, LocalEndpoint).
THEOREM CredentialsStay == Spec => []CredentialsGoWhereAllowed
<1>1. Inv => CredentialsGoWhereAllowed
  BY GrantsSafe DEF Inv
<1>. QED BY <1>1, InvHolds, PTL

\* Whatever an issuer that types its answers puts into them, a refresh or id token is never handed
\* out as an access token, and a refresh token only to who asked (FinishExchange).
THEOREM NothingElseGranted == Spec => []GrantedAsAsked
<1>1. Inv => GrantedAsAsked
  BY DEF Inv, GrantsInv
<1>. QED BY <1>1, InvHolds, PTL

=============================================================================
