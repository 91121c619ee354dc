------------------------------ MODULE Delivery ------------------------------
(***************************************************************************)
(* ext_hooks.hpp: Delivery<Event>, a bounded queue with one delivery       *)
(* thread that hands every accepted event, in push order, to the sinks the *)
(* Registry lists, and Registry::AddSink / RemoveSink / Sinks.             *)
(*                                                                         *)
(* A step is what one thread does between two points another thread can    *)
(* observe: a section under State::lock or under the registry's lock, a    *)
(* notification, one call into a sink, a join.  Producers push, the owner  *)
(* stops and destroys the object, a sink may call Stop from OnEvent (on    *)
(* the delivery thread).  An event is the number its producer stamped on   *)
(* it, under a lock around Push, as the class comment asks.                *)
(***************************************************************************)
EXTENDS Naturals, Sequences, FiniteSets, Functions

CONSTANTS
    Producers,      \* threads that call Push
    Sinks,          \* sinks extensions may register
    Capacity,       \* Delivery's capacity argument
    MaxPush,        \* bound: calls of Push
    MaxCopies,      \* bound: registrations of one sink that are live at once
    SinksMayFail,   \* may the `sinks` function throw (or be missing)
    SinkMayStop,    \* may a sink call Stop from OnEvent
    DtorWaits       \* does the owner destroy only while no sink is inside Stop

ASSUME DeliveryAssumption ==
    /\ Capacity \in Nat /\ MaxPush \in Nat /\ MaxCopies \in Nat
    /\ SinksMayFail \in BOOLEAN /\ SinkMayStop \in BOOLEAN /\ DtorWaits \in BOOLEAN

VARIABLES
    queue, stopping,        \* State::queue, State::stopping
    sinks,                  \* Registry::sinks
    thread,                 \* where the delivery thread is in Run
    todo,                   \* the sinks of its copy it has still to call
    pushing,                \* where each producer is in Push
    stop,                   \* where the owner and the delivery thread are in Stop
    dtor,                   \* the owner has entered ~Delivery
    worker,                 \* the std::thread member: joinable, joined or detached
    object,                 \* the Delivery object (or the process) itself
    dropped, sinkFailed,    \* what Tally counted
    \* history, read by no guard but the bounds:
    pushed,                 \* calls of Push so far; the last stamp
    accepted, taken,        \* events Push accepted; events Run popped
    seen, flushed,          \* per sink: events OnEvent was called with, calls of Flush
    regs,                   \* per sink: AddSink calls less RemoveSink calls
    since,                  \* per sink: events taken when it was (first) registered
    late                    \* per sink: OnEvent calls since its last RemoveSink

code == <<queue, stopping, sinks, thread, todo, pushing, stop, dtor, worker, object,
          dropped, sinkFailed>>
history == <<pushed, accepted, taken, seen, flushed, regs, since, late>>
vars == <<code, history>>

Callers == {"owner", "sink"}    \* who may be inside Stop: a sink is, on the delivery thread

ThreadStates == {"run", "waiting", "popped", "hand", "last", "flush", "ended"}

Init ==
    /\ queue = <<>> /\ stopping = FALSE
    /\ sinks = <<>>
    /\ thread = "run" /\ todo = <<>>
    /\ pushing = [p \in Producers |-> "idle"]
    /\ stop = [c \in Callers |-> "out"]
    /\ dtor = FALSE /\ worker = "joinable" /\ object = "alive"
    /\ dropped = 0 /\ sinkFailed = 0
    /\ pushed = 0 /\ accepted = <<>> /\ taken = <<>>
    /\ seen = [s \in Sinks |-> <<>>] /\ flushed = [s \in Sinks |-> 0]
    /\ regs = [s \in Sinks |-> 0] /\ since = [s \in Sinks |-> 0]
    /\ late = [s \in Sinks |-> 0]

\* std::terminate ends the process: no thread takes a step after it.
Up == object # "terminated"

-----------------------------------------------------------------------------
(* Registry *)

AddSink(s) ==
    /\ Up
    /\ regs[s] < MaxCopies
    /\ sinks' = Append(sinks, s)
    /\ regs' = [regs EXCEPT ![s] = @ + 1]
    /\ since' = [since EXCEPT ![s] = IF regs[s] = 0 THEN Len(taken) ELSE @]
    /\ late' = [late EXCEPT ![s] = 0]
    /\ UNCHANGED <<queue, stopping, thread, todo, pushing, stop, dtor, worker, object,
                   dropped, sinkFailed, pushed, accepted, taken, seen, flushed>>

\* The index RemoveSink erases: the first that holds the sink.
Mut_EraseFront(i, s) == i = 1
IsMatch(i, s) == sinks[i] = s /\ \A j \in 1 .. i - 1 : sinks[j] # s

EraseSink(s) ==
    \/ /\ s \notin Range(sinks)
       /\ UNCHANGED sinks
    \/ \E i \in DOMAIN sinks :
          /\ IsMatch(i, s)
          /\ sinks' = SubSeq(sinks, 1, i - 1) \o SubSeq(sinks, i + 1, Len(sinks))

RemoveSink(s) ==
    /\ Up
    /\ EraseSink(s)
    /\ regs' = [regs EXCEPT ![s] = IF @ = 0 THEN 0 ELSE @ - 1]
    /\ UNCHANGED <<queue, stopping, thread, todo, pushing, stop, dtor, worker, object,
                   dropped, sinkFailed, pushed, accepted, taken, seen, flushed, since, late>>

-----------------------------------------------------------------------------
(* Push: a section under State::lock, then a notification or a tally.  The *)
(* owner's producers do not push once it destroys the object.              *)

Mut_AcceptsBeyondCapacity == ~stopping
Mut_AcceptsAfterStop == Len(queue) < Capacity
Accepts == ~stopping /\ Len(queue) < Capacity

Mut_Unshift(e) == <<e>> \o queue
Enqueue(e) == Append(queue, e)

Push(p) ==
    /\ Up
    /\ ~dtor /\ pushing[p] = "idle" /\ pushed < MaxPush
    /\ pushed' = pushed + 1
    /\ IF Accepts
         THEN /\ queue' = Enqueue(pushed + 1)
              /\ accepted' = Append(accepted, pushed + 1)
              /\ pushing' = [pushing EXCEPT ![p] = "notify"]
         ELSE /\ pushing' = [pushing EXCEPT ![p] = "tally"]
              /\ UNCHANGED <<queue, accepted>>
    /\ UNCHANGED <<stopping, sinks, thread, todo, stop, dtor, worker, object, dropped,
                   sinkFailed, taken, seen, flushed, regs, since, late>>

\* condition_variable::notify_one / notify_all: there is one waiter at most.
Mut_NoNotify == UNCHANGED thread
Notify == thread' = IF thread = "waiting" THEN "run" ELSE thread

PushNotify(p) ==
    /\ Up
    /\ pushing[p] = "notify"
    /\ pushing' = [pushing EXCEPT ![p] = "idle"]
    /\ Notify
    /\ UNCHANGED <<queue, stopping, sinks, todo, stop, dtor, worker, object, dropped,
                   sinkFailed, history>>

Mut_TallyFullOnly == dropped' = IF stopping THEN dropped ELSE dropped + 1
TallyDropped == dropped' = dropped + 1

PushTally(p) ==
    /\ Up
    /\ pushing[p] = "tally"
    /\ pushing' = [pushing EXCEPT ![p] = "idle"]
    /\ TallyDropped
    /\ UNCHANGED <<queue, stopping, sinks, thread, todo, stop, dtor, worker, object,
                   sinkFailed, history>>

-----------------------------------------------------------------------------
(* Run: the delivery thread *)

\* The wait's predicate, and the loop's exit once it holds.
Awake == stopping \/ queue # <<>>
Mut_ExitWhenStopping == stopping
Exhausted == queue = <<>>

Wait ==
    /\ Up
    /\ thread = "run" /\ ~Awake
    /\ thread' = "waiting"
    /\ UNCHANGED <<queue, stopping, sinks, todo, pushing, stop, dtor, worker, object,
                   dropped, sinkFailed, history>>

\* A condition variable may wake without a notification.
SpuriousWakeup ==
    /\ Up
    /\ thread = "waiting"
    /\ thread' = "run"
    /\ UNCHANGED <<queue, stopping, sinks, todo, pushing, stop, dtor, worker, object,
                   dropped, sinkFailed, history>>

Pop ==
    /\ Up
    /\ thread = "run" /\ Awake /\ ~Exhausted
    /\ thread' = "popped"
    /\ taken' = Append(taken, Head(queue))
    /\ queue' = Tail(queue)
    /\ UNCHANGED <<stopping, sinks, todo, pushing, stop, dtor, worker, object, dropped,
                   sinkFailed, pushed, accepted, seen, flushed, regs, since, late>>

Leave ==
    /\ Up
    /\ thread = "run" /\ Awake /\ Exhausted
    /\ thread' = "last"
    /\ UNCHANGED <<queue, stopping, sinks, todo, pushing, stop, dtor, worker, object,
                   dropped, sinkFailed, history>>

\* Current: a copy of the registry's list, empty when the sinks function throws.
Current == {sinks} \union (IF SinksMayFail THEN {<<>>} ELSE {})

TakeCopy ==
    /\ Up
    /\ thread \in {"popped", "last"}
    /\ thread' = IF thread = "popped" THEN "hand" ELSE "flush"
    /\ todo' \in Current
    /\ UNCHANGED <<queue, stopping, sinks, pushing, stop, dtor, worker, object, dropped,
                   sinkFailed, history>>

\* What is left of the copy after a sink threw: the exception is caught inside the loop.
Mut_ThrowLeavesLoop == <<>>
Mut_ThrowRetries == todo
AfterThrow == Tail(todo)

\* One call of OnEvent on the head of the copy: it returns, it throws, or it calls Stop.  Assumed of a
\* sink: it calls Stop only on a Delivery that has not been destroyed (after a detach the thread
\* outlives the object, and runs on with its own share of State).
OnEvent ==
    /\ Up
    /\ thread = "hand" /\ todo # <<>> /\ stop["sink"] = "out"
    /\ LET s == Head(todo) IN
         /\ seen' = [seen EXCEPT ![s] = Append(@, taken[Len(taken)])]
         /\ late' = [late EXCEPT ![s] = IF regs[s] = 0 THEN @ + 1 ELSE @]
    /\ \/ /\ todo' = Tail(todo)
          /\ UNCHANGED <<sinkFailed, stopping, stop>>
       \/ /\ todo' = AfterThrow
          /\ sinkFailed' = sinkFailed + 1
          /\ UNCHANGED <<stopping, stop>>
       \/ /\ SinkMayStop /\ object = "alive"
          /\ todo' = Tail(todo)
          /\ stopping' = TRUE
          /\ stop' = [stop EXCEPT !["sink"] = IF stopping THEN "out" ELSE "notify"]
          /\ UNCHANGED sinkFailed
    /\ UNCHANGED <<queue, sinks, thread, pushing, dtor, worker, object, dropped, pushed,
                   accepted, taken, flushed, regs, since>>

Handed ==
    /\ Up
    /\ thread = "hand" /\ todo = <<>> /\ stop["sink"] = "out"
    /\ thread' = "run"
    /\ UNCHANGED <<queue, stopping, sinks, todo, pushing, stop, dtor, worker, object,
                   dropped, sinkFailed, history>>

Flush ==
    /\ Up
    /\ thread = "flush" /\ todo # <<>>
    /\ flushed' = [flushed EXCEPT ![Head(todo)] = @ + 1]
    /\ todo' = Tail(todo)
    /\ UNCHANGED <<queue, stopping, sinks, thread, pushing, stop, dtor, worker, object,
                   dropped, sinkFailed, pushed, accepted, taken, seen, regs, since, late>>

Exit ==
    /\ Up
    /\ thread = "flush" /\ todo = <<>>
    /\ thread' = "ended"
    /\ UNCHANGED <<queue, stopping, sinks, todo, pushing, stop, dtor, worker, object,
                   dropped, sinkFailed, history>>

-----------------------------------------------------------------------------
(* Stop and the destructor.  The owner calls Stop (destroying: FALSE) or   *)
(* enters ~Delivery, which calls it (destroying: TRUE).                    *)

OwnerStop(destroying) ==
    /\ object = "alive" /\ ~dtor /\ stop["owner"] = "out"
    /\ destroying => /\ \A p \in Producers : pushing[p] = "idle"
                     /\ DtorWaits => stop["sink"] = "out"
    /\ dtor' = destroying
    /\ stopping' = TRUE
    /\ stop' = [stop EXCEPT !["owner"] = IF stopping THEN "out" ELSE "notify"]
    /\ UNCHANGED <<queue, sinks, thread, todo, pushing, worker, object, dropped,
                   sinkFailed, history>>

StopNotify(c) ==
    /\ Up
    /\ stop[c] = "notify"
    /\ stop' = [stop EXCEPT ![c] = "reap"]
    /\ Notify
    /\ UNCHANGED <<queue, stopping, sinks, todo, pushing, dtor, worker, object, dropped,
                   sinkFailed, history>>

\* Is the caller of Stop the delivery thread itself (worker.get_id() == this_thread::get_id()).
Mut_JoinAlways(c) == FALSE
OnWorker(c) == c = "sink"

\* What becomes of the std::thread: left alone, detached, or joined.
Mut_NoDetach(c) == IF OnWorker(c) THEN worker ELSE "joined"
Reap(c) == IF worker # "joinable" THEN worker
           ELSE IF OnWorker(c) THEN "detached" ELSE "joined"

StopReap(c) ==
    /\ Up
    /\ stop[c] = "reap"
    /\ worker # "joinable" \/ OnWorker(c) \/ thread = "ended"
    /\ worker' = Reap(c)
    /\ stop' = [stop EXCEPT ![c] = "out"]
    /\ UNCHANGED <<queue, stopping, sinks, thread, todo, pushing, dtor, object, dropped,
                   sinkFailed, history>>

\* ~Delivery after its Stop returned: ~thread of a joinable thread is std::terminate.
Destroy ==
    /\ dtor /\ object = "alive" /\ stop["owner"] = "out"
    /\ object' = IF worker = "joinable" THEN "terminated" ELSE "destroyed"
    /\ UNCHANGED <<queue, stopping, sinks, thread, todo, pushing, stop, dtor, worker,
                   dropped, sinkFailed, history>>

-----------------------------------------------------------------------------

ThreadStep == Wait \/ Pop \/ Leave \/ TakeCopy \/ OnEvent \/ Handed \/ Flush \/ Exit

\* The thread has ended and the object is gone: what the environment may still do is nothing.
Finished ==
    /\ \/ object = "terminated"
       \/ object = "destroyed" /\ thread = "ended"
    /\ UNCHANGED vars

Next ==
    \/ \E s \in Sinks : AddSink(s) \/ RemoveSink(s)
    \/ \E p \in Producers : Push(p) \/ PushNotify(p) \/ PushTally(p)
    \/ ThreadStep
    \/ SpuriousWakeup
    \/ \E d \in BOOLEAN : OwnerStop(d)
    \/ \E c \in Callers : StopNotify(c) \/ StopReap(c)
    \/ Destroy
    \/ Finished

\* The scheduler runs every thread that can run and sinks return; nobody has to push, to
\* register, to stop or to destroy, and a spurious wakeup need never happen.
Fairness ==
    /\ WF_vars(ThreadStep)
    /\ \A p \in Producers : WF_vars(PushNotify(p) \/ PushTally(p))
    /\ \A c \in Callers : WF_vars(StopNotify(c) \/ StopReap(c))
    /\ WF_vars(Destroy)

Spec == Init /\ [][Next]_vars
FairSpec == Spec /\ Fairness

-----------------------------------------------------------------------------
(* Properties *)

\* Every variable has its type, and the queue never grows past its capacity.
TypeOK ==
    /\ queue \in Seq(Nat) /\ Len(queue) <= Capacity
    /\ stopping \in BOOLEAN
    /\ sinks \in Seq(Sinks) /\ todo \in Seq(Sinks)
    /\ thread \in ThreadStates
    /\ pushing \in [Producers -> {"idle", "notify", "tally"}]
    /\ stop \in [Callers -> {"out", "notify", "reap"}]
    /\ dtor \in BOOLEAN
    /\ worker \in {"joinable", "joined", "detached"}
    /\ object \in {"alive", "destroyed", "terminated"}
    /\ dropped \in Nat /\ sinkFailed \in Nat /\ pushed \in Nat
    /\ accepted \in Seq(Nat) /\ taken \in Seq(Nat)
    /\ seen \in [Sinks -> Seq(Nat)]
    /\ flushed \in [Sinks -> Nat] /\ regs \in [Sinks -> Nat]
    /\ since \in [Sinks -> Nat] /\ late \in [Sinks -> Nat]

\* No accepted event is lost, duplicated or reordered between Push and the delivery thread:
\* what Run popped followed by what is queued is what Push accepted, in that order.
Fifo == accepted = taken \o queue

\* A sink gets events "in the order the producer pushed them" (Sink), whatever sinks throw, come
\* and go meanwhile; registered once it gets none twice, not even when it is removed and
\* registered again while the event is handed out.
SinkOrder ==
    \A s \in Sinks : \A i, j \in DOMAIN seen[s] : i < j =>
        /\ seen[s][i] <= seen[s][j]
        /\ MaxCopies = 1 => seen[s][i] # seen[s][j]

\* The event in hand is still to be handed to s.
InHand(s) == thread = "popped" \/ (thread = "hand" /\ s \in Range(todo))

\* The event reached nobody.
Undelivered(e) == \A s \in Sinks : e \notin Range(seen[s])

\* A registered sink misses nothing: every event popped since it registered has reached it, or
\* is the one in hand and about to.  Neither another sink's exception nor a registration made
\* during the loop makes it skip one; only a sinks function that throws loses an event, and then
\* for every sink alike.
NoneMissed ==
    \A s \in Sinks : regs[s] > 0 =>
        \A i \in since[s] + 1 .. Len(taken) :
            \/ taken[i] \in Range(seen[s])
            \/ i = Len(taken) /\ InHand(s)
            \/ SinksMayFail /\ Undelivered(taken[i])

\* "OnEvent may still be running, or run once more, after RemoveSink returns": once per
\* registration, never for a second event.
OnceMoreAfterRemove == \A s \in Sinks : late[s] <= MaxCopies

\* Sink::Flush: "called when the producer's delivery stops, after the last event" - when any
\* sink has been flushed every accepted event has been handed out and none can follow.
FlushAfterLast ==
    (\E s \in Sinks : flushed[s] > 0) => stopping /\ queue = <<>> /\ taken = accepted

\* A Stop that joined delivered everything that was accepted, flushed, and left nothing running.
JoinedMeansDelivered ==
    worker = "joined" => /\ thread = "ended" /\ stopping
                         /\ queue = <<>> /\ taken = accepted

\* Every Push that returned false is counted, after Stop as well as on a full queue: the tally
\* lags only by the producers between their unlock and their Tally.
DropsCounted ==
    pushed = Len(accepted) + dropped
             + Cardinality({p \in Producers : pushing[p] = "tally"})

\* Stop from a sink never ends the process (test_hooks.cpp: "neither joins itself nor
\* terminates"): ~Delivery never destroys a joinable std::thread.
NeverTerminates == object # "terminated"

\* Stop returns, to the owner and to a sink: no thread waits for itself or for a thread that
\* was not woken.
StopReturns ==
    \A c \in Callers : stop[c] # "out" ~> (stop[c] = "out" \/ object = "terminated")

-----------------------------------------------------------------------------
(* The promise of EventStream, kept by the threads above: an event is      *)
(* delivered when Run pops it, the stream ends when the thread breaks out  *)
(* of its loop to flush.                                                   *)

Stream == INSTANCE EventStream WITH
    pending <- queue, delivered <- taken, offered <- pushed,
    open <- ~stopping, ended <- thread \in {"last", "flush", "ended"}

\* Delivery implements the safety half of EventStream.
ImplementsStreamSafety == Stream!SafeSpec

\* Delivery implements EventStream, its liveness included: every accepted event is popped, for no
\* wakeup is lost between Push's unlock and its notify_one, and a stopped delivery leaves its loop.
ImplementsStream == Stream!Spec

=============================================================================
