----------------------------- MODULE Transport -----------------------------
(***************************************************************************)
(* oidc_core.cpp: who carries a request, and whom https trusts - the       *)
(* process's default transport and CA bundle, the scopes of each thread,   *)
(* HttpSend with consumers' transports that call back, open scopes of      *)
(* their own and throw, and the built-in client.                           *)
(*                                                                         *)
(* frames[t] is thread t's call stack, innermost last: the scopes it is in *)
(* (TransportScope, CaBundleScope: locals, so they end in order, by a      *)
(* return or by an exception alike) and the requests under way.  `now` is  *)
(* what the frame put in force or carries the request with, `was` the      *)
(* scope's `previous`, `seen` what a request found set for the process     *)
(* (history).  A transport is a shared_ptr: refs counts its owners, and 0  *)
(* means destroyed.  "none" is the null pointer, "empty" an empty          *)
(* transport, "system" the empty path: the system's roots alone.           *)
(***************************************************************************)
EXTENDS Naturals, Sequences, FiniteSets

CONSTANTS
    Threads, Transports, Bundles,
    MaxDepth            \* bound, per thread: the frames on it

ASSUME TransportAssumption ==
    /\ ({"none", "empty", "system"} \union Bundles) \intersect Transports = {}
    /\ {"none", "system", "clear"} \intersect Bundles = {}
    /\ MaxDepth \in [Threads -> Nat]

VARIABLES
    build,                                  \* "tls", "no tls", "no builtin"
    default_transport, default_ca_bundle,
    scoped_transport, scoped_ca_bundle,     \* thread_local
    in_transport,                           \* thread_local
    frames, refs,
    readable                                \* bundles whose file can be read now

transportVars == <<build, default_transport, default_ca_bundle, scoped_transport, scoped_ca_bundle,
          in_transport, frames, refs, readable>>

Builds == {"tls", "no tls", "no builtin"}
Unset == [transport |-> "none", bundle |-> "system", https |-> FALSE]

InitTransport ==
    /\ build \in Builds
    /\ default_transport = "none" /\ default_ca_bundle = "system"
    /\ scoped_transport = [t \in Threads |-> "none"]
    /\ scoped_ca_bundle = [t \in Threads |-> "none"]
    /\ in_transport = [t \in Threads |-> FALSE]
    /\ frames = [t \in Threads |-> <<>>]
    /\ refs = [x \in Transports |-> 0]
    /\ readable = Bundles

-----------------------------------------------------------------------------
Top(t) == frames[t][Len(frames[t])]
Is(t, kind) == frames[t] # <<>> /\ Top(t).kind = kind

\* The thread runs code of its own or of a transport: it is not blocked in the built-in client.
Runs(t) == ~Is(t, "builtin") /\ Len(frames[t]) < MaxDepth[t]

Pushed(t, f) == [frames EXCEPT ![t] = Append(@, f)]
Popped(t) == [frames EXCEPT ![t] = SubSeq(@, 1, Len(@) - 1)]

\* The owners after one takes `gained` and one lets go of `dropped`.
Counted(gained, dropped) ==
    [x \in Transports |-> refs[x] + (IF x = gained THEN 1 ELSE 0) - (IF x = dropped THEN 1 ELSE 0)]

\* External: make_shared gives an object nobody uses.
Fresh == {x \in Transports : /\ refs[x] = 0
                             /\ \A t \in Threads : \A i \in DOMAIN frames[t] : frames[t][i].now # x}

-----------------------------------------------------------------------------
SetDefaultTransport(x) ==
    /\ default_transport' = x
    /\ refs' = Counted(x, default_transport)
    /\ UNCHANGED <<build, default_ca_bundle, scoped_transport, scoped_ca_bundle, in_transport,
                   frames, readable>>

SetDefaultCaBundle(b) ==
    /\ default_ca_bundle' = b
    /\ UNCHANGED <<build, default_transport, scoped_transport, scoped_ca_bundle, in_transport,
                   frames, refs, readable>>

\* The constructor: the previous scope's transport is kept, the new one put in force.
TransportScope(t, x) ==
    /\ Runs(t)
    /\ frames' = Pushed(t, [kind |-> "scope", now |-> x, was |-> scoped_transport[t], seen |-> Unset])
    /\ scoped_transport' = [scoped_transport EXCEPT ![t] = x]
    /\ refs' = Counted(x, "none")
    /\ UNCHANGED <<build, default_transport, default_ca_bundle, scoped_ca_bundle, in_transport,
                   readable>>

Previous(t) == Top(t).was

\* The destructor, whether the scope returns or an exception leaves it.
EndTransportScope(t) ==
    /\ Is(t, "scope")
    /\ scoped_transport' = [scoped_transport EXCEPT ![t] = Previous(t)]
    /\ frames' = Popped(t)
    /\ refs' = Counted("none", scoped_transport[t])
    /\ UNCHANGED <<build, default_transport, default_ca_bundle, scoped_ca_bundle, in_transport,
                   readable>>

CaBundleScope(t, b) ==
    /\ Runs(t)
    /\ frames' = Pushed(t, [kind |-> "ca", now |-> b, was |-> scoped_ca_bundle[t], seen |-> Unset])
    /\ scoped_ca_bundle' = [scoped_ca_bundle EXCEPT ![t] = b]
    /\ UNCHANGED <<build, default_transport, default_ca_bundle, scoped_transport, in_transport,
                   refs, readable>>

EndCaBundleScope(t) ==
    /\ Is(t, "ca")
    /\ scoped_ca_bundle' = [scoped_ca_bundle EXCEPT ![t] = Previous(t)]
    /\ frames' = Popped(t)
    /\ UNCHANGED <<build, default_transport, default_ca_bundle, scoped_transport, in_transport,
                   refs, readable>>

\* External: a bundle's file is replaced, removed, put back.
FileChanges(b) ==
    /\ readable' = IF b \in readable THEN readable \ {b} ELSE readable \union {b}
    /\ UNCHANGED <<build, default_transport, default_ca_bundle, scoped_transport, scoped_ca_bundle,
                   in_transport, frames, refs>>

-----------------------------------------------------------------------------
\* The calling thread's scope, else the process's default.
CurrentTransport(t) ==
    IF scoped_transport[t] # "none" THEN scoped_transport[t] ELSE default_transport

CurrentCaBundle(t) ==
    IF scoped_ca_bundle[t] # "none" THEN scoped_ca_bundle[t] ELSE default_ca_bundle

\* HttpSend's choice: a transport that calls back into the module gets the built-in client.
Carrier(t) == IF in_transport[t] THEN "none" ELSE CurrentTransport(t)

\* A request: over https or not, to a URL that ParseUrl takes or not.
Requests == [https : BOOLEAN, ok : BOOLEAN]

Seen(r) == [transport |-> default_transport, bundle |-> default_ca_bundle, https |-> r.https]

\* A file that cannot be read fails the request: no fallback to the system's roots alone.
Mut_FallsBack(t, r) ==
    IF ~r.https THEN "clear" ELSE IF CurrentCaBundle(t) \in readable THEN CurrentCaBundle(t) ELSE "system"
Trusted(t, r) == IF r.https THEN CurrentCaBundle(t) ELSE "clear"

\* BuiltInSend and Run: what they refuse before anything is sent.
BuiltInRefuses(t, r) ==
    \/ build = "no builtin" \/ ~r.ok
    \/ r.https /\ (build # "tls" \/ Trusted(t, r) \notin readable \union {"system"})

BuiltInSend(t, r) ==
    /\ frames' = IF BuiltInRefuses(t, r) THEN frames
                 ELSE Pushed(t, [kind |-> "builtin", now |-> Trusted(t, r), was |-> "none",
                                 seen |-> Seen(r)])
    /\ UNCHANGED <<in_transport, refs>>

\* HttpSend keeps its own shared_ptr for as long as the transport runs.
Mut_KeepsNone(x) == refs
Kept(x) == Counted(x, "none")

HttpSend(t, r) ==
    /\ Runs(t)
    /\ \/ Carrier(t) \in {"none", "empty"} /\ BuiltInSend(t, r)
       \/ Carrier(t) \in Transports /\ ~r.ok /\ UNCHANGED <<frames, in_transport, refs>>
       \/ /\ Carrier(t) \in Transports /\ r.ok
          /\ frames' = Pushed(t, [kind |-> "send", now |-> Carrier(t), was |-> "none", seen |-> Seen(r)])
          /\ in_transport' = [in_transport EXCEPT ![t] = TRUE]
          /\ refs' = Kept(Carrier(t))
    /\ UNCHANGED <<build, default_transport, default_ca_bundle, scoped_transport, scoped_ca_bundle,
                   readable>>

BuiltInAnswers(t) ==
    /\ Is(t, "builtin")
    /\ frames' = Popped(t)
    /\ UNCHANGED <<build, default_transport, default_ca_bundle, scoped_transport, scoped_ca_bundle,
                   in_transport, refs, readable>>

\* Entered's destructor: the flag goes with the frame, whichever way the transport leaves.
Mut_OnlyByReturn(t, how) == [in_transport EXCEPT ![t] = how = "throws"]
Left(t, how) == [in_transport EXCEPT ![t] = FALSE]

TransportLeaves(t, how) ==
    /\ Is(t, "send")
    /\ in_transport' = Left(t, how)
    /\ refs' = Counted("none", Top(t).now)
    /\ frames' = Popped(t)
    /\ UNCHANGED <<build, default_transport, default_ca_bundle, scoped_transport, scoped_ca_bundle,
                   readable>>

-----------------------------------------------------------------------------
NextTransport ==
    \/ \E x \in Fresh \union {"none"} : SetDefaultTransport(x)
    \/ \E b \in Bundles \union {"system"} : SetDefaultCaBundle(b)
    \/ \E b \in Bundles : FileChanges(b)
    \/ \E t \in Threads :
          \/ \E x \in Fresh \union {"empty"} : TransportScope(t, x)
          \/ \E b \in Bundles \union {"system"} : CaBundleScope(t, b)
          \/ EndTransportScope(t) \/ EndCaBundleScope(t)
          \/ \E r \in Requests : HttpSend(t, r)
          \/ BuiltInAnswers(t)
          \/ \E how \in {"returns", "throws"} : TransportLeaves(t, how)

TransportSpec == InitTransport /\ [][NextTransport]_transportVars

-----------------------------------------------------------------------------
(* Properties *)

\* The frames of a kind below the i-th of a stack, and what the innermost of them put in force.
Below(stack, i, kind) == {j \in 1 .. i - 1 : stack[j].kind = kind}
Innermost(stack, i, kind, otherwise) ==
    LET under == Below(stack, i, kind)
    IN  IF under = {} THEN otherwise ELSE stack[CHOOSE j \in under : \A k \in under : k <= j].now

\* "The calling thread's transport while this lives: every request made on the thread ... Scopes
\* nest; the previous one is restored", after exceptions too and whatever other threads set, and
\* "a transport that calls back into this module reaches the built-in client, not itself"
\* (oidc_core.hpp): every request under way is carried by what the call stack says - the built-in
\* client inside a transport, else the innermost scope's, else the default it found.  Its https
\* trusts the innermost CA scope's bundle, else the default, never the system's roots in its place.
InnermostScopeCarries ==
    \A t \in Threads : \A i \in DOMAIN frames[t] :
        LET f == frames[t][i]
            asked == Innermost(frames[t], i, "scope", f.seen.transport)
            transports == Below(frames[t], i, "send")
        IN  /\ f.kind = "send" => transports = {} /\ f.now = asked
            /\ f.kind = "builtin" =>
                  /\ transports # {} \/ asked \in {"none", "empty"}
                  /\ f.now = IF f.seen.https THEN Innermost(frames[t], i, "ca", f.seen.bundle)
                                             ELSE "clear"

\* "Clearing a default does not wait for a request already running on another thread": a
\* transport is alive exactly as long as the default, a scope (in force or to be restored) or a
\* running request needs it - none is called after its destruction, none is kept for ever.
AliveWhileNeeded ==
    \A x \in Transports :
        refs[x] > 0 <=>
            \/ default_transport = x
            \/ \E t \in Threads : scoped_transport[t] = x
            \/ \E t \in Threads : \E i \in DOMAIN frames[t] :
                  \/ frames[t][i].was = x
                  \/ frames[t][i].kind = "send" /\ frames[t][i].now = x

=============================================================================
