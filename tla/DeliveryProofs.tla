--------------------------- MODULE DeliveryProofs ---------------------------
(***************************************************************************)
(* Theorems about Delivery, for any producers, sinks, capacity and bounds. *)
(***************************************************************************)
EXTENDS Delivery, SequenceTheorems, FiniteSetTheorems, TLAPS

\* Appending to the second part of a concatenation appends to the whole: what Push does to
\* `accepted` and to the queue keeps Fifo.
LEMMA AppendConcat ==
    ASSUME NEW S, NEW s \in Seq(S), NEW t \in Seq(S), NEW e \in S
    PROVE  s \o Append(t, e) = Append(s \o t, e)
<1>1. Append(t, e) = t \o <<e>>
  BY AppendIsConcat
<1>2. s \o t \in Seq(S) /\ <<e>> \in Seq(S)
  BY ConcatProperties
<1>3. Append(s \o t, e) = (s \o t) \o <<e>>
  BY <1>2, AppendIsConcat
<1>4. s \o (t \o <<e>>) = (s \o t) \o <<e>>
  BY <1>2, ConcatAssociative
<1>. QED BY <1>1, <1>3, <1>4

\* Moving the head of the second part to the end of the first keeps the concatenation: what Pop
\* does to `taken` and to the queue.
LEMMA MoveHead ==
    ASSUME NEW S, NEW s \in Seq(S), NEW t \in Seq(S), t # <<>>
    PROVE  Append(s, Head(t)) \o Tail(t) = s \o t
<1>1. Head(t) \in S /\ Tail(t) \in Seq(S) /\ t = <<Head(t)>> \o Tail(t)
  BY HeadTailProperties
<1>2. Append(s, Head(t)) = s \o <<Head(t)>> /\ <<Head(t)>> \in Seq(S)
  BY <1>1, AppendIsConcat
<1>3. (s \o <<Head(t)>>) \o Tail(t) = s \o (<<Head(t)>> \o Tail(t))
  BY <1>1, <1>2, ConcatAssociative
<1>. QED BY <1>1, <1>2, <1>3

-----------------------------------------------------------------------------
(* Types *)

\* Between a pop and the end of its loop the delivery thread holds an event.
HoldsEvent == thread \in {"popped", "hand"} => taken # <<>>

\* TypeOK is inductive together with HoldsEvent: OnEvent hands out the last event taken.
Typed == TypeOK /\ HoldsEvent

\* A Delivery is constructed with an empty queue and its thread about to wait.
LEMMA InitTyped == Init => Typed
<1>. SUFFICES ASSUME Init PROVE Typed
  OBVIOUS
<1>1. queue \in Seq(Nat) /\ Len(queue) <= Capacity
  BY DeliveryAssumption, EmptySeq DEF Init
<1>2. sinks \in Seq(Sinks) /\ todo \in Seq(Sinks)
  BY EmptySeq DEF Init
<1>3. accepted \in Seq(Nat) /\ taken \in Seq(Nat) /\ seen \in [Sinks -> Seq(Nat)]
  BY EmptySeq DEF Init
<1>. QED BY <1>1, <1>2, <1>3 DEF Init, Typed, TypeOK, HoldsEvent, ThreadStates

\* Erasing a sink from the registry's list leaves a list of sinks.
LEMMA EraseTyped ==
    ASSUME NEW s \in Sinks, sinks \in Seq(Sinks), EraseSink(s)
    PROVE  sinks' \in Seq(Sinks)
<1>1. CASE UNCHANGED sinks
  BY <1>1
<1>2. ASSUME NEW i \in DOMAIN sinks,
             sinks' = SubSeq(sinks, 1, i - 1) \o SubSeq(sinks, i + 1, Len(sinks))
      PROVE  sinks' \in Seq(Sinks)
  <2>1. i \in 1 .. Len(sinks) /\ Len(sinks) \in Nat
    BY <1>2
  <2>2. \A k \in 1 .. Len(sinks) : sinks[k] \in Sinks
    BY <1>2
  <2>3. SubSeq(sinks, 1, i - 1) \in Seq(Sinks)
    BY <2>1, <2>2, SubSeqProperties
  <2>4. SubSeq(sinks, i + 1, Len(sinks)) \in Seq(Sinks)
    BY <2>1, <2>2, SubSeqProperties
  <2>. QED BY <1>2, <2>3, <2>4, ConcatProperties
<1>. QED BY <1>1, <1>2 DEF EraseSink

\* A registration appends one sink.
LEMMA AddSinkTyped ==
    ASSUME Typed, NEW s \in Sinks, AddSink(s)
    PROVE  Typed'
<1>1. /\ sinks \in Seq(Sinks) /\ taken \in Seq(Nat)
      /\ regs \in [Sinks -> Nat] /\ since \in [Sinks -> Nat] /\ late \in [Sinks -> Nat]
  BY DEF Typed, TypeOK
<1>2. sinks' \in Seq(Sinks)
  BY <1>1, AppendProperties DEF AddSink
<1>3. regs' \in [Sinks -> Nat] /\ late' \in [Sinks -> Nat]
  BY <1>1 DEF AddSink
<1>4. since' \in [Sinks -> Nat]
  <2>1. Len(taken) \in Nat
    BY <1>1, LenProperties
  <2>. QED BY <1>1, <2>1 DEF AddSink
<1>5. UNCHANGED <<queue, stopping, thread, todo, pushing, stop, dtor, worker, object,
                  dropped, sinkFailed, pushed, accepted, taken, seen, flushed>>
  BY DEF AddSink
<1>. QED BY <1>2, <1>3, <1>4, <1>5 DEF Typed, TypeOK, HoldsEvent

\* A removal erases one sink, or none.
LEMMA RemoveSinkTyped ==
    ASSUME Typed, NEW s \in Sinks, RemoveSink(s)
    PROVE  Typed'
<1>1. sinks \in Seq(Sinks) /\ regs \in [Sinks -> Nat]
  BY DEF Typed, TypeOK
<1>2. sinks' \in Seq(Sinks)
  BY <1>1, EraseTyped DEF RemoveSink
<1>3. regs' \in [Sinks -> Nat]
  BY <1>1 DEF RemoveSink
<1>4. UNCHANGED <<queue, stopping, thread, todo, pushing, stop, dtor, worker, object, dropped,
                  sinkFailed, pushed, accepted, taken, seen, flushed, since, late>>
  BY DEF RemoveSink
<1>. QED BY <1>2, <1>3, <1>4 DEF Typed, TypeOK, HoldsEvent

\* A Push appends within the capacity or counts a drop, and leaves every other type alone.
LEMMA PushTyped ==
    ASSUME Typed, NEW p \in Producers, Push(p)
    PROVE  Typed'
<1>1. /\ queue \in Seq(Nat) /\ Len(queue) <= Capacity /\ pushed \in Nat
      /\ accepted \in Seq(Nat) /\ pushing \in [Producers -> {"idle", "notify", "tally"}]
  BY DEF Typed, TypeOK
<1>2. pushed + 1 \in Nat /\ pushed' = pushed + 1
  BY <1>1 DEF Push
<1>3. pushing' \in [Producers -> {"idle", "notify", "tally"}]
  BY <1>1 DEF Push
<1>4. accepted' \in Seq(Nat)
  <2>1. accepted' = accepted \/ accepted' = Append(accepted, pushed + 1)
    BY DEF Push
  <2>2. Append(accepted, pushed + 1) \in Seq(Nat)
    BY <1>1, <1>2, AppendProperties
  <2>. QED BY <1>1, <2>1, <2>2
<1>5. queue' \in Seq(Nat) /\ Len(queue') <= Capacity
  <2>1. CASE Accepts
    <3>1. queue' = Append(queue, pushed + 1) /\ Len(queue) < Capacity
      BY <2>1 DEF Push, Accepts, Enqueue
    <3>2. Len(queue') = Len(queue) + 1 /\ queue' \in Seq(Nat)
      BY <3>1, <1>1, <1>2, AppendProperties
    <3>. QED BY <1>1, <3>1, <3>2, DeliveryAssumption, LenProperties
  <2>2. CASE ~Accepts
    BY <1>1, <2>2 DEF Push
  <2>. QED BY <2>1, <2>2
<1>. QED BY <1>2, <1>3, <1>4, <1>5 DEF Push, Typed, TypeOK, HoldsEvent

\* Taking the head of the queue leaves a queue, and the thread with an event to hand out.
LEMMA PopTyped == Typed /\ Pop => Typed'
<1>. SUFFICES ASSUME Typed, Pop PROVE Typed'
  OBVIOUS
<1>1. queue \in Seq(Nat) /\ Len(queue) <= Capacity /\ taken \in Seq(Nat) /\ queue # <<>>
  BY DEF Typed, TypeOK, Pop, Exhausted
<1>2. Head(queue) \in Nat /\ Tail(queue) \in Seq(Nat) /\ Len(Tail(queue)) = Len(queue) - 1
  BY <1>1, HeadTailProperties
<1>3. Len(Tail(queue)) <= Capacity
  BY <1>1, <1>2, DeliveryAssumption, LenProperties
<1>4. Append(taken, Head(queue)) \in Seq(Nat) /\ Append(taken, Head(queue)) # <<>>
  BY <1>1, <1>2, AppendProperties
<1>. QED BY <1>2, <1>3, <1>4 DEF Typed, TypeOK, HoldsEvent, ThreadStates, Pop

\* The copy of the sinks that Current returns, or nothing when it throws, is a list of sinks.
LEMMA TakeCopyTyped == Typed /\ TakeCopy => Typed'
<1>. SUFFICES ASSUME Typed, TakeCopy PROVE Typed'
  OBVIOUS
<1>1. <<>> \in Seq(Sinks) /\ sinks \in Seq(Sinks)
  BY EmptySeq DEF Typed, TypeOK
<1>2. todo' \in Seq(Sinks)
  BY <1>1 DEF TakeCopy, Current
<1>. QED BY <1>2 DEF Typed, TypeOK, HoldsEvent, ThreadStates, TakeCopy, history

\* A call of a sink, whether it returns, throws or stops delivery, moves on in the copied list.
LEMMA OnEventTyped == Typed /\ OnEvent => Typed'
<1>. SUFFICES ASSUME Typed, OnEvent PROVE Typed'
  OBVIOUS
<1>1. /\ todo \in Seq(Sinks) /\ taken \in Seq(Nat) /\ seen \in [Sinks -> Seq(Nat)]
      /\ late \in [Sinks -> Nat] /\ regs \in [Sinks -> Nat] /\ sinkFailed \in Nat
      /\ stop \in [Callers -> {"out", "notify", "reap"}] /\ stopping \in BOOLEAN
      /\ todo # <<>> /\ taken # <<>>
  BY DEF Typed, TypeOK, HoldsEvent, OnEvent
<1>2. PICK s \in Sinks : s = Head(todo)
  BY <1>1, HeadTailProperties
<1>3. Tail(todo) \in Seq(Sinks)
  BY <1>1, HeadTailProperties
<1>4. PICK e \in Nat : e = taken[Len(taken)]
  <2>1. Len(taken) \in Nat /\ Len(taken) # 0
    BY <1>1, EmptySeq, LenProperties
  <2>2. Len(taken) \in 1 .. Len(taken)
    BY <2>1
  <2>. QED BY <1>1, <2>2, ElementOfSeq
<1>5. seen' \in [Sinks -> Seq(Nat)]
  <2>1. seen' = [seen EXCEPT ![s] = Append(seen[s], e)]
    BY <1>2, <1>4 DEF OnEvent
  <2>2. Append(seen[s], e) \in Seq(Nat)
    BY <1>1, AppendProperties
  <2>. QED BY <1>1, <2>1, <2>2
<1>6. late' \in [Sinks -> Nat]
  <2>1. late' = [late EXCEPT ![s] = IF regs[s] = 0 THEN late[s] + 1 ELSE late[s]]
    BY <1>2 DEF OnEvent
  <2>. QED BY <1>1, <2>1
<1>7. /\ todo' \in Seq(Sinks) /\ sinkFailed' \in Nat /\ stopping' \in BOOLEAN
  <2>1. todo' = Tail(todo) /\ (stopping' = stopping \/ stopping' = TRUE)
    BY DEF OnEvent, AfterThrow
  <2>2. sinkFailed' = sinkFailed \/ sinkFailed' = sinkFailed + 1
    BY DEF OnEvent
  <2>3. sinkFailed' \in Nat
    BY <1>1, <2>2
  <2>. QED BY <1>1, <1>3, <2>1, <2>3
<1>8. stop' \in [Callers -> {"out", "notify", "reap"}]
  <2>1. stop' = stop \/ \E v \in {"out", "notify"} : stop' = [stop EXCEPT !["sink"] = v]
    BY DEF OnEvent
  <2>. QED BY <1>1, <2>1 DEF Callers
<1>9. UNCHANGED <<queue, sinks, thread, pushing, dtor, worker, object, dropped, pushed,
                  accepted, taken, flushed, regs, since>>
  BY DEF OnEvent
<1>. QED BY <1>5, <1>6, <1>7, <1>8, <1>9 DEF Typed, TypeOK, HoldsEvent

\* The flush of one sink moves on in the copied list.
LEMMA FlushTyped == Typed /\ Flush => Typed'
<1>. SUFFICES ASSUME Typed, Flush PROVE Typed'
  OBVIOUS
<1>1. todo \in Seq(Sinks) /\ todo # <<>> /\ flushed \in [Sinks -> Nat]
  BY DEF Typed, TypeOK, Flush
<1>2. PICK s \in Sinks : s = Head(todo)
  BY <1>1, HeadTailProperties
<1>3. Tail(todo) \in Seq(Sinks)
  BY <1>1, HeadTailProperties
<1>4. flushed' = [flushed EXCEPT ![s] = flushed[s] + 1]
  BY <1>2 DEF Flush
<1>5. flushed' \in [Sinks -> Nat]
  BY <1>1, <1>4
<1>. QED BY <1>3, <1>5 DEF Typed, TypeOK, HoldsEvent, Flush

\* Typed is inductive: one case for every action.
LEMMA NextTyped == Typed /\ [Next]_vars => Typed'
<1>. SUFFICES ASSUME Typed, [Next]_vars PROVE Typed'
  OBVIOUS
<1>. USE DEF Typed, TypeOK, HoldsEvent, ThreadStates, history, Callers
<1>1. ASSUME NEW s \in Sinks, AddSink(s) PROVE Typed'
  BY <1>1, AddSinkTyped
<1>2. ASSUME NEW s \in Sinks, RemoveSink(s) PROVE Typed'
  BY <1>2, RemoveSinkTyped
<1>3. ASSUME NEW p \in Producers, Push(p) PROVE Typed'
  BY <1>3, PushTyped
<1>4. ASSUME NEW p \in Producers, PushNotify(p) PROVE Typed'
  BY <1>4 DEF PushNotify, Notify
<1>5. ASSUME NEW p \in Producers, PushTally(p) PROVE Typed'
  BY <1>5 DEF PushTally, TallyDropped
<1>6. CASE Wait
  BY <1>6 DEF Wait
<1>7. CASE SpuriousWakeup
  BY <1>7 DEF SpuriousWakeup
<1>8. CASE Pop
  BY <1>8, PopTyped
<1>9. CASE Leave
  BY <1>9 DEF Leave
<1>10. CASE TakeCopy
  BY <1>10, TakeCopyTyped
<1>11. CASE OnEvent
  BY <1>11, OnEventTyped
<1>12. CASE Handed
  BY <1>12 DEF Handed
<1>13. CASE Flush
  BY <1>13, FlushTyped
<1>14. CASE Exit
  BY <1>14 DEF Exit
<1>15. ASSUME NEW d \in BOOLEAN, OwnerStop(d) PROVE Typed'
  BY <1>15 DEF OwnerStop
<1>16. ASSUME NEW c \in Callers, StopNotify(c) PROVE Typed'
  BY <1>16 DEF StopNotify, Notify
<1>17. ASSUME NEW c \in Callers, StopReap(c) PROVE Typed'
  BY <1>17 DEF StopReap, Reap
<1>18. CASE Destroy
  BY <1>18 DEF Destroy
<1>19. CASE UNCHANGED vars
  BY <1>19 DEF vars, code
<1>. QED
  BY <1>1, <1>2, <1>3, <1>4, <1>5, <1>6, <1>7, <1>8, <1>9, <1>10, <1>11, <1>12, <1>13,
     <1>14, <1>15, <1>16, <1>17, <1>18, <1>19 DEF Next, ThreadStep, Finished

\* Every reachable state of Delivery is well typed and its queue holds at most Capacity events.
THEOREM TypeCorrect == Spec => []TypeOK
<1>1. Typed => TypeOK
  BY DEF Typed
<1>. QED BY <1>1, InitTyped, NextTyped, PTL DEF Spec

-----------------------------------------------------------------------------
(* Order and completeness of the queue *)

\* Fifo is inductive: only Push and Pop touch the queue, each as the two lemmas above say.
LEMMA NextFifo == Typed /\ Fifo /\ [Next]_vars => Fifo'
<1>. SUFFICES ASSUME Typed, Fifo, [Next]_vars PROVE Fifo'
  OBVIOUS
<1>0. /\ accepted \in Seq(Nat) /\ taken \in Seq(Nat) /\ queue \in Seq(Nat) /\ pushed \in Nat
      /\ accepted = taken \o queue
  BY DEF Typed, TypeOK, Fifo
<1>1. ASSUME NEW p \in Producers, Push(p) PROVE Fifo'
  <2>1. CASE Accepts
    <3>1. /\ queue' = Append(queue, pushed + 1) /\ taken' = taken
          /\ accepted' = Append(accepted, pushed + 1)
      BY <1>1, <2>1 DEF Push, Enqueue
    <3>2. pushed + 1 \in Nat
      BY <1>0
    <3>3. taken \o Append(queue, pushed + 1) = Append(taken \o queue, pushed + 1)
      BY <1>0, <3>2, AppendConcat
    <3>. QED BY <1>0, <3>1, <3>3 DEF Fifo
  <2>2. CASE ~Accepts
    BY <1>1, <2>2, <1>0 DEF Push, Fifo
  <2>. QED BY <2>1, <2>2
<1>2. CASE Pop
  <2>1. /\ taken' = Append(taken, Head(queue)) /\ queue' = Tail(queue)
        /\ accepted' = accepted /\ queue # <<>>
    BY <1>2 DEF Pop, Exhausted
  <2>2. Append(taken, Head(queue)) \o Tail(queue) = taken \o queue
    BY <1>0, <2>1, MoveHead
  <2>. QED BY <1>0, <2>1, <2>2 DEF Fifo
<1>3. UNCHANGED <<accepted, taken, queue>> => Fifo'
  BY <1>0 DEF Fifo
<1>4. \/ \E p \in Producers : Push(p)
      \/ Pop
      \/ UNCHANGED <<accepted, taken, queue>>
  BY DEF Next, ThreadStep, Finished, vars, code, history, AddSink, RemoveSink, PushNotify,
         PushTally, Wait, SpuriousWakeup, Leave, TakeCopy, OnEvent, Handed, Flush, Exit,
         OwnerStop, StopNotify, StopReap, Destroy
<1>. QED BY <1>1, <1>2, <1>3, <1>4

\* What Run popped followed by what is queued is what Push accepted, in order, whatever the
\* capacity and however many producers push: Delivery loses, repeats and reorders nothing.
THEOREM FifoHolds == Spec => []Fifo
<1>1. Init => Fifo
  BY EmptySeq, ConcatEmptySeq DEF Init, Fifo
<1>. QED BY <1>1, InitTyped, NextTyped, NextFifo, PTL DEF Spec

-----------------------------------------------------------------------------
(* The end of delivery *)

\* Run leaves its loop only when stopping and drained, flushes only after that, and is joined
\* only at its end.
Ends ==
    /\ thread \in {"last", "flush", "ended"} => stopping /\ queue = <<>>
    /\ (\E s \in Sinks : flushed[s] > 0) => thread \in {"flush", "ended"}
    /\ worker = "joined" => thread = "ended"

\* Ends holds before anything was pushed.
LEMMA InitEnds == Init => Ends
  BY DEF Init, Ends

\* Ends is inductive: the thread leaves its loop only when stopping and drained, and nothing is
\* accepted once stopping is set.
LEMMA NextEnds == Typed /\ Ends /\ [Next]_vars => Ends'
<1>. SUFFICES ASSUME Typed, Ends, [Next]_vars PROVE Ends'
  OBVIOUS
<1>. USE DEF Ends, history
<1>1. ASSUME NEW s \in Sinks, AddSink(s) PROVE Ends'
  BY <1>1 DEF AddSink
<1>2. ASSUME NEW s \in Sinks, RemoveSink(s) PROVE Ends'
  BY <1>2 DEF RemoveSink
<1>3. ASSUME NEW p \in Producers, Push(p) PROVE Ends'
  BY <1>3 DEF Push, Accepts
<1>4. ASSUME NEW p \in Producers, PushNotify(p) PROVE Ends'
  BY <1>4 DEF PushNotify, Notify
<1>5. ASSUME NEW p \in Producers, PushTally(p) PROVE Ends'
  BY <1>5 DEF PushTally
<1>6. CASE Wait
  BY <1>6 DEF Wait
<1>7. CASE SpuriousWakeup
  BY <1>7 DEF SpuriousWakeup
<1>8. CASE Pop
  BY <1>8 DEF Pop
<1>9. CASE Leave
  BY <1>9 DEF Leave, Awake, Exhausted
<1>10. CASE TakeCopy
  BY <1>10 DEF TakeCopy
<1>11. CASE OnEvent
  BY <1>11 DEF OnEvent
<1>12. CASE Handed
  BY <1>12 DEF Handed
<1>13. CASE Flush
  BY <1>13 DEF Flush
<1>14. CASE Exit
  BY <1>14 DEF Exit
<1>15. ASSUME NEW d \in BOOLEAN, OwnerStop(d) PROVE Ends'
  BY <1>15 DEF OwnerStop
<1>16. ASSUME NEW c \in Callers, StopNotify(c) PROVE Ends'
  BY <1>16 DEF StopNotify, Notify
<1>17. ASSUME NEW c \in Callers, StopReap(c) PROVE Ends'
  BY <1>17 DEF StopReap, Reap, OnWorker
<1>18. CASE Destroy
  BY <1>18 DEF Destroy
<1>19. CASE UNCHANGED vars
  BY <1>19 DEF vars, code
<1>. QED
  BY <1>1, <1>2, <1>3, <1>4, <1>5, <1>6, <1>7, <1>8, <1>9, <1>10, <1>11, <1>12, <1>13,
     <1>14, <1>15, <1>16, <1>17, <1>18, <1>19 DEF Next, ThreadStep, Finished

\* The three inductive invariants together.
LEMMA SpecEnds == Spec => [](Typed /\ Fifo /\ Ends)
<1>1. Spec => []Typed
  BY InitTyped, NextTyped, PTL DEF Spec
<1>2. Spec => []Ends
  BY <1>1, InitEnds, NextEnds, PTL DEF Spec
<1>. QED BY <1>1, <1>2, FifoHolds, PTL

\* An empty queue means that all that was accepted was taken.
LEMMA DrainedMeansTaken == Typed /\ Fifo /\ queue = <<>> => taken = accepted
  BY ConcatEmptySeq DEF Typed, TypeOK, Fifo

\* Whoever stops, and however pushes race with it, no sink is flushed before the last accepted
\* event was handed out.
THEOREM FlushIsLast == Spec => []FlushAfterLast
<1>1. Typed /\ Fifo /\ Ends => FlushAfterLast
  BY DrainedMeansTaken DEF Ends, FlushAfterLast
<1>. QED BY <1>1, SpecEnds, PTL

\* When a Stop has joined the delivery thread, everything accepted was delivered.
THEOREM JoinDelivers == Spec => []JoinedMeansDelivered
<1>1. Typed /\ Fifo /\ Ends => JoinedMeansDelivered
  BY DrainedMeansTaken DEF Ends, JoinedMeansDelivered
<1>. QED BY <1>1, SpecEnds, PTL

-----------------------------------------------------------------------------
(* Stop, the destructor and the std::thread *)

\* The first Stop owns the std::thread: nobody has touched it before, and once that Stop is
\* over it is no longer joinable.  The destructor waits for it when DtorWaits.
FirstStopReaps ==
    /\ ~stopping => ~dtor /\ stop["owner"] = "out" /\ stop["sink"] = "out"
    /\ stopping /\ stop["owner"] = "out" /\ stop["sink"] = "out" => worker # "joinable"
    /\ DtorWaits /\ dtor => stopping /\ stop["sink"] = "out"
    /\ DtorWaits => NeverTerminates

\* FirstStopReaps holds before anyone stops.
LEMMA InitReaps == Init => FirstStopReaps
  BY DEF Init, FirstStopReaps, NeverTerminates, Callers

\* FirstStopReaps is inductive: whoever set stopping is the one to join or detach the thread.
LEMMA NextReaps == Typed /\ FirstStopReaps /\ [Next]_vars => FirstStopReaps'
<1>. SUFFICES ASSUME Typed, FirstStopReaps, [Next]_vars PROVE FirstStopReaps'
  OBVIOUS
<1>0. stop \in [Callers -> {"out", "notify", "reap"}]
  BY DEF Typed, TypeOK
<1>. USE DEF FirstStopReaps, NeverTerminates, Callers
<1>1. CASE OnEvent
  BY <1>0, <1>1 DEF OnEvent
<1>2. ASSUME NEW d \in BOOLEAN, OwnerStop(d) PROVE FirstStopReaps'
  BY <1>0, <1>2 DEF OwnerStop
<1>3. ASSUME NEW c \in Callers, StopNotify(c) PROVE FirstStopReaps'
  BY <1>0, <1>3 DEF StopNotify
<1>4. ASSUME NEW c \in Callers, StopReap(c) PROVE FirstStopReaps'
  BY <1>0, <1>4 DEF StopReap, Reap
<1>5. CASE Destroy
  BY <1>5 DEF Destroy
<1>6. UNCHANGED <<stopping, dtor, stop, worker, object>> => FirstStopReaps'
  OBVIOUS
<1>7. \/ OnEvent \/ Destroy \/ \E d \in BOOLEAN : OwnerStop(d)
      \/ \E c \in Callers : StopNotify(c) \/ StopReap(c)
      \/ UNCHANGED <<stopping, dtor, stop, worker, object>>
  BY DEF Next, ThreadStep, Finished, vars, code, AddSink, RemoveSink, Push, PushNotify,
         PushTally, Wait, SpuriousWakeup, Pop, Leave, TakeCopy, Handed, Flush, Exit
<1>. QED BY <1>1, <1>2, <1>3, <1>4, <1>5, <1>6, <1>7

\* As long as the owner does not destroy the object while a sink is inside Stop, a sink may stop
\* its own delivery, at any moment and whatever the owner does: the process is never terminated
\* by the destruction of a joinable thread.
THEOREM SafeStopFromSink == DtorWaits => (Spec => []NeverTerminates)
<1>. SUFFICES ASSUME DtorWaits PROVE Spec => []NeverTerminates
  OBVIOUS
<1>1. Spec => []Typed
  BY InitTyped, NextTyped, PTL DEF Spec
<1>2. Spec => []FirstStopReaps
  BY <1>1, InitReaps, NextReaps, PTL DEF Spec
<1>3. FirstStopReaps => NeverTerminates
  BY DEF FirstStopReaps
<1>. QED BY <1>2, <1>3, PTL

-----------------------------------------------------------------------------
(* The count of dropped events *)

\* The producers between the unlock of a refusing Push and its Tally.
Tallying == {p \in Producers : pushing[p] = "tally"}

\* The count of drops lags behind the refusals by the producers between unlock and Tally; both
\* sides of the equation change together in every step.
LEMMA NextDrops ==
    ASSUME IsFiniteSet(Producers)
    PROVE  Typed /\ DropsCounted /\ [Next]_vars => DropsCounted'
<1>. SUFFICES ASSUME Typed, DropsCounted, [Next]_vars PROVE DropsCounted'
  OBVIOUS
<1>0. /\ pushing \in [Producers -> {"idle", "notify", "tally"}]
      /\ accepted \in Seq(Nat) /\ Len(accepted) \in Nat /\ dropped \in Nat /\ pushed \in Nat
  BY LenProperties DEF Typed, TypeOK
<1>1. IsFiniteSet(Tallying) /\ Cardinality(Tallying) \in Nat
  BY FS_Subset, FS_CardinalityType DEF Tallying
<1>2. pushed = Len(accepted) + dropped + Cardinality(Tallying)
  BY DEF DropsCounted, Tallying
<1>3. SUFFICES pushed' = Len(accepted') + dropped' + Cardinality(Tallying')
  BY DEF DropsCounted, Tallying
<1>4. ASSUME NEW p \in Producers, Push(p)
      PROVE  pushed' = Len(accepted') + dropped' + Cardinality(Tallying')
  <2>1. pushed' = pushed + 1 /\ dropped' = dropped /\ p \notin Tallying
    BY <1>4 DEF Push, Tallying
  <2>2. CASE Accepts
    <3>1. Tallying' = Tallying
      BY <1>0, <1>4, <2>2 DEF Push, Tallying
    <3>2. accepted' = Append(accepted, pushed + 1) /\ pushed + 1 \in Nat
      BY <1>0, <1>4, <2>2 DEF Push
    <3>3. Len(accepted') = Len(accepted) + 1
      BY <1>0, <3>2, AppendProperties
    <3>. QED BY <1>0, <1>1, <1>2, <2>1, <3>1, <3>3
  <2>3. CASE ~Accepts
    <3>1. Tallying' = Tallying \union {p} /\ accepted' = accepted
      BY <1>0, <1>4, <2>3 DEF Push, Tallying
    <3>2. Cardinality(Tallying') = Cardinality(Tallying) + 1
      BY <1>1, <2>1, <3>1, FS_AddElement
    <3>. QED BY <1>0, <1>1, <1>2, <2>1, <3>1, <3>2
  <2>. QED BY <2>2, <2>3
<1>5. ASSUME NEW p \in Producers, PushTally(p)
      PROVE  pushed' = Len(accepted') + dropped' + Cardinality(Tallying')
  <2>1. /\ pushed' = pushed /\ accepted' = accepted /\ dropped' = dropped + 1
        /\ p \in Tallying
    BY <1>5 DEF PushTally, TallyDropped, history, Tallying
  <2>2. Tallying' = Tallying \ {p}
    BY <1>0, <1>5 DEF PushTally, Tallying
  <2>3. Cardinality(Tallying') = Cardinality(Tallying) - 1
    BY <1>1, <2>1, <2>2, FS_RemoveElement
  <2>. QED BY <1>0, <1>1, <1>2, <2>1, <2>3
<1>6. ASSUME NEW p \in Producers, PushNotify(p)
      PROVE  pushed' = Len(accepted') + dropped' + Cardinality(Tallying')
  <2>1. pushed' = pushed /\ accepted' = accepted /\ dropped' = dropped
    BY <1>6 DEF PushNotify, history
  <2>2. Tallying' = Tallying
    BY <1>0, <1>6 DEF PushNotify, Tallying
  <2>. QED BY <1>2, <2>1, <2>2
<1>7. UNCHANGED <<pushing, pushed, accepted, dropped>> =>
          pushed' = Len(accepted') + dropped' + Cardinality(Tallying')
  BY <1>2 DEF Tallying
<1>8. \/ \E p \in Producers : Push(p) \/ PushNotify(p) \/ PushTally(p)
      \/ UNCHANGED <<pushing, pushed, accepted, dropped>>
  BY DEF Next, ThreadStep, Finished, vars, code, history, AddSink, RemoveSink, Wait,
         SpuriousWakeup, Pop, Leave, TakeCopy, OnEvent, Handed, Flush, Exit, OwnerStop,
         StopNotify, StopReap, Destroy
<1>. QED BY <1>4, <1>5, <1>6, <1>7, <1>8

\* For any finite number of producers, every event Push refused is in the count of dropped
\* events as soon as the Push that refused it returned.
THEOREM DropsAreCounted == IsFiniteSet(Producers) => (Spec => []DropsCounted)
<1>. SUFFICES ASSUME IsFiniteSet(Producers) PROVE Spec => []DropsCounted
  OBVIOUS
<1>1. Init => DropsCounted
  <2>. SUFFICES ASSUME Init PROVE DropsCounted
    OBVIOUS
  <2>1. Tallying = {} /\ pushed = 0 /\ dropped = 0 /\ accepted = <<>>
    BY DEF Init, Tallying
  <2>2. Cardinality(Tallying) = 0 /\ Len(accepted) = 0
    BY <2>1, FS_EmptySet
  <2>. QED BY <2>1, <2>2 DEF DropsCounted, Tallying
<1>2. Typed /\ DropsCounted /\ [Next]_vars => DropsCounted'
  BY NextDrops
<1>3. Spec => []Typed
  BY InitTyped, NextTyped, PTL DEF Spec
<1>. QED BY <1>1, <1>2, <1>3, PTL DEF Spec

-----------------------------------------------------------------------------
(* Delivery implements EventStream *)

\* A new Delivery is a new stream.
LEMMA InitRefines == Init => Stream!Init
  BY DEF Init, Stream!Init

\* Every step of Delivery is a step of the stream or leaves it unchanged: a Push accepts or drops,
\* a Pop delivers, the first Stop closes, the thread's exit ends.
LEMMA NextRefines == Typed /\ [Next]_vars => [Stream!Next]_(Stream!vars)
<1>. SUFFICES ASSUME Typed, [Next]_vars PROVE [Stream!Next]_(Stream!vars)
  OBVIOUS
<1>0. stopping \in BOOLEAN
  BY DEF Typed, TypeOK
<1>. USE DEF Stream!Next, Stream!vars
<1>1. ASSUME NEW p \in Producers, Push(p) PROVE Stream!Offer
  BY <1>1 DEF Push, Accepts, Enqueue, Stream!Offer
<1>2. ASSUME Pop PROVE Stream!Deliver
  BY <1>2 DEF Pop, Exhausted, Stream!Deliver
<1>3. ASSUME Leave PROVE Stream!End
  BY <1>0, <1>3 DEF Leave, Awake, Exhausted, Stream!End, history
<1>4. ASSUME OnEvent PROVE Stream!Close \/ UNCHANGED Stream!vars
  BY <1>0, <1>4 DEF OnEvent, Stream!Close
<1>5. ASSUME NEW d \in BOOLEAN, OwnerStop(d) PROVE Stream!Close
  BY <1>0, <1>5 DEF OwnerStop, Stream!Close, history
<1>6. ASSUME UNCHANGED <<queue, taken, pushed, stopping>>,
             thread' \in {"last", "flush", "ended"} <=> thread \in {"last", "flush", "ended"}
      PROVE  UNCHANGED Stream!vars
  BY <1>6
<1>7. \/ \E p \in Producers : Push(p)
      \/ Pop \/ Leave \/ OnEvent
      \/ \E d \in BOOLEAN : OwnerStop(d)
      \/ /\ UNCHANGED <<queue, taken, pushed, stopping>>
         /\ thread' \in {"last", "flush", "ended"} <=> thread \in {"last", "flush", "ended"}
  BY DEF Next, ThreadStep, Finished, vars, code, history, AddSink, RemoveSink, PushNotify,
         PushTally, Notify, Wait, SpuriousWakeup, TakeCopy, Handed, Flush, Exit, StopNotify,
         StopReap, Destroy
<1>. QED BY <1>1, <1>2, <1>3, <1>4, <1>5, <1>6, <1>7

\* Threads, lock, condition variable and sinks together behave as the one-step-per-event stream
\* of EventStream: an event is delivered in order or dropped, and delivery ends only when
\* stopped and drained.
THEOREM RefinesStream == Spec => ImplementsStreamSafety
<1>1. Spec => []Typed
  BY InitTyped, NextTyped, PTL DEF Spec
<1>. QED BY <1>1, InitRefines, NextRefines, PTL
     DEF Spec, ImplementsStreamSafety, Stream!SafeSpec

-----------------------------------------------------------------------------
(* How often a sink is in a list *)

Places(list, s) == {i \in 1 .. Len(list) : list[i] = s}
Copies(list, s) == Cardinality(Places(list, s))

\* A list holds a sink a finite number of times, and 0 times means that it does not hold it.
LEMMA CopiesCount ==
    ASSUME NEW list \in Seq(Sinks), NEW s
    PROVE  /\ IsFiniteSet(Places(list, s)) /\ Copies(list, s) \in Nat
           /\ Copies(list, s) = 0 <=> s \notin Range(list)
<1>1. Len(list) \in Nat /\ DOMAIN list = 1 .. Len(list)
  OBVIOUS
<1>2. IsFiniteSet(1 .. Len(list))
  BY <1>1, FS_Interval
<1>3. IsFiniteSet(Places(list, s))
  BY <1>2, FS_Subset DEF Places
<1>4. Copies(list, s) \in Nat /\ (Copies(list, s) = 0 <=> Places(list, s) = {})
  BY <1>3, FS_CardinalityType, FS_EmptySet DEF Copies
<1>5. Places(list, s) = {} <=> s \notin Range(list)
  BY <1>1 DEF Places, Range
<1>. QED BY <1>3, <1>4, <1>5

\* AddSink puts one more into the list.
LEMMA CopiesAppended ==
    ASSUME NEW list \in Seq(Sinks), NEW x \in Sinks, NEW s
    PROVE  Copies(Append(list, x), s) = Copies(list, s) + IF x = s THEN 1 ELSE 0
<1>1. PICK n \in Nat : n = Len(list)
  OBVIOUS
<1>2. PICK u : u = Append(list, x)
  OBVIOUS
<1>3. Len(u) = n + 1 /\ u[n + 1] = x /\ \A i \in 1 .. n : u[i] = list[i]
  BY <1>1, <1>2, AppendProperties
<1>4. 1 .. n + 1 = (1 .. n) \union {n + 1} /\ n + 1 \notin 1 .. n
  OBVIOUS
<1>5. IsFiniteSet(Places(list, s)) /\ Copies(list, s) \in Nat
  BY CopiesCount
<1>6. CASE x = s
  <2>1. Places(u, s) = Places(list, s) \union {n + 1} /\ n + 1 \notin Places(list, s)
    BY <1>1, <1>3, <1>4, <1>6 DEF Places
  <2>2. Cardinality(Places(list, s) \union {n + 1}) = Cardinality(Places(list, s)) + 1
    BY <1>5, <2>1, FS_AddElement
  <2>. QED BY <1>2, <1>6, <2>1, <2>2 DEF Copies
<1>7. CASE x # s
  <2>1. Places(u, s) = Places(list, s)
    BY <1>1, <1>3, <1>4, <1>7 DEF Places
  <2>. QED BY <1>2, <1>5, <1>7, <2>1 DEF Copies
<1>. QED BY <1>6, <1>7

\* A list without the i-th of another: the others keep their order and move up.
Erased(u, list, i) ==
    /\ list \in Seq(Sinks) /\ u \in Seq(Sinks) /\ i \in 1 .. Len(list) /\ Len(u) = Len(list) - 1
    /\ \A j \in 1 .. i - 1 : u[j] = list[j]
    /\ \A j \in i .. Len(u) : u[j] = list[j + 1]

\* What was erased is in the list one time less, all else as often.
LEMMA CopiesErased ==
    ASSUME NEW list, NEW u, NEW i, NEW s, Erased(u, list, i)
    PROVE  Copies(list, s) = Copies(u, s) + IF list[i] = s THEN 1 ELSE 0
<1>. USE DEF Erased
<1>1. PICK n \in Nat : n = Len(u)
  OBVIOUS
<1>2. PICK move : move = [j \in Places(u, s) |-> IF j < i THEN j ELSE j + 1]
  OBVIOUS
<1>3. PICK T : T = Places(list, s) \ {i}
  OBVIOUS
<1>4. ASSUME NEW j \in Places(u, s)
      PROVE  move[j] \in T
  <2>1. j \in 1 .. n /\ u[j] = s
    BY <1>1 DEF Places
  <2>2. CASE j < i
    BY <1>1, <1>2, <1>3, <2>1, <2>2 DEF Places
  <2>3. CASE ~(j < i)
    BY <1>1, <1>2, <1>3, <2>1, <2>3 DEF Places
  <2>. QED BY <2>2, <2>3
<1>5. move \in [Places(u, s) -> T]
  BY <1>2, <1>4
<1>6. ASSUME NEW a \in Places(u, s), NEW b \in Places(u, s), move[a] = move[b]
      PROVE  a = b
  <2>1. a \in Nat /\ b \in Nat
    BY DEF Places
  <2>. QED BY <1>2, <1>6, <2>1
<1>7. ASSUME NEW k \in T
      PROVE  \E j \in Places(u, s) : move[j] = k
  <2>1. k \in 1 .. n + 1 /\ list[k] = s /\ k # i
    BY <1>1, <1>3 DEF Places
  <2>2. CASE k < i
    <3>1. k \in Places(u, s)
      BY <1>1, <2>1, <2>2 DEF Places
    <3>. QED BY <1>2, <2>2, <3>1
  <2>3. CASE k > i
    <3>1. k - 1 \in i .. n /\ (k - 1) + 1 = k
      BY <2>1, <2>3
    <3>2. k - 1 \in Places(u, s) /\ ~(k - 1 < i)
      BY <1>1, <2>1, <3>1 DEF Places
    <3>. QED BY <1>2, <3>1, <3>2
  <2>. QED BY <2>1, <2>2, <2>3
<1>8. ExistsBijection(Places(u, s), T)
  <2>1. move \in Injection(Places(u, s), T)
    BY <1>5, <1>6 DEF Injection, IsInjective
  <2>2. move \in Surjection(Places(u, s), T)
    BY <1>5, <1>7 DEF Surjection
  <2>. QED BY <2>1, <2>2 DEF ExistsBijection, Bijection
<1>9. /\ IsFiniteSet(Places(u, s)) /\ Copies(u, s) \in Nat
      /\ IsFiniteSet(Places(list, s)) /\ Copies(list, s) \in Nat
  BY CopiesCount
<1>10. Cardinality(T) = Copies(u, s)
  BY <1>8, <1>9, FS_Bijection DEF Copies
<1>11. Cardinality(T) = IF i \in Places(list, s) THEN Copies(list, s) - 1 ELSE Copies(list, s)
  BY <1>3, <1>9, FS_RemoveElement DEF Copies
<1>12. i \in Places(list, s) <=> list[i] = s
  BY DEF Places
<1>. QED BY <1>9, <1>10, <1>11, <1>12

\* The next sink of the copy is called: the copy loses its head.
LEMMA CopiesTail ==
    ASSUME NEW list \in Seq(Sinks), list # <<>>, NEW s
    PROVE  Copies(list, s) = Copies(Tail(list), s) + IF Head(list) = s THEN 1 ELSE 0
<1>1. PICK u \in Seq(Sinks) : u = Tail(list)
  BY HeadTailProperties
<1>2. Len(list) \in Nat \ {0} /\ Head(list) = list[1] /\ Len(u) = Len(list) - 1
  BY <1>1, HeadTailProperties, EmptySeq
<1>3. \A j \in 1 .. Len(u) : u[j] = list[j + 1]
  BY <1>1, <1>2, HeadTailProperties
<1>4. 1 \in 1 .. Len(list) /\ \A j \in 1 .. 1 - 1 : u[j] = list[j]
  BY <1>2
<1>5. Copies(list, s) = Copies(u, s) + IF list[1] = s THEN 1 ELSE 0
  <2>1. Erased(u, list, 1)
    BY <1>2, <1>3, <1>4 DEF Erased
  <2>. QED BY <2>1, CopiesErased
<1>. QED BY <1>1, <1>2, <1>5

\* RemoveSink takes one of the sink's places from the list, if there is one.
LEMMA CopiesRemoved ==
    ASSUME NEW x \in Sinks, sinks \in Seq(Sinks), EraseSink(x), NEW s
    PROVE  Copies(sinks', s) = IF x = s /\ Copies(sinks, s) # 0 THEN Copies(sinks, s) - 1 ELSE Copies(sinks, s)
<1>1. Copies(sinks, s) \in Nat /\ (Copies(sinks, s) = 0 <=> s \notin Range(sinks))
  BY CopiesCount
<1>2. CASE x \notin Range(sinks) /\ sinks' = sinks
  BY <1>1, <1>2
<1>3. ASSUME NEW i \in DOMAIN sinks, IsMatch(i, x),
             sinks' = SubSeq(sinks, 1, i - 1) \o SubSeq(sinks, i + 1, Len(sinks))
      PROVE  Copies(sinks', s) = IF x = s /\ Copies(sinks, s) # 0 THEN Copies(sinks, s) - 1 ELSE Copies(sinks, s)
  <2>1. PICK n \in Nat : n = Len(sinks) /\ i \in 1 .. n /\ sinks[i] = x
    BY <1>3 DEF IsMatch
  <2>2. PICK u : u = sinks'
    OBVIOUS
  <2>3. u \in Seq(Sinks)
    BY <2>2, EraseTyped
  <2>4. PICK front : front = SubSeq(sinks, 1, i - 1)
    OBVIOUS
  <2>5. PICK back : back = SubSeq(sinks, i + 1, n)
    OBVIOUS
  <2>6. front \in Seq(Sinks) /\ Len(front) = i - 1 /\ \A j \in 1 .. i - 1 : front[j] = sinks[j]
    BY <2>1, <2>4, SubSeqProperties
  <2>7. back \in Seq(Sinks) /\ Len(back) = n - i /\ \A j \in 1 .. n - i : back[j] = sinks[i + j]
    BY <2>1, <2>5, SubSeqProperties
  <2>8. u = front \o back
    BY <1>3, <2>1, <2>2, <2>4, <2>5
  <2>9. /\ Len(u) = n - 1
        /\ \A j \in 1 .. n - 1 : u[j] = IF j <= i - 1 THEN front[j] ELSE back[j - (i - 1)]
    <3>1. Len(u) = Len(front) + Len(back)
      BY <2>6, <2>7, <2>8, ConcatProperties
    <3>2. \A j \in 1 .. Len(front) + Len(back) :
              u[j] = IF j <= Len(front) THEN front[j] ELSE back[j - Len(front)]
      BY <2>6, <2>7, <2>8, ConcatProperties
    <3>3. Len(front) + Len(back) = n - 1
      <4>1. i \in Int /\ n \in Int /\ Len(front) = i - 1 /\ Len(back) = n - i
        BY <2>1, <2>6, <2>7
      <4>2. (i - 1) + (n - i) = n - 1
        BY <4>1
      <4>. QED BY <4>1, <4>2
    <3>4. ASSUME NEW j \in 1 .. n - 1
          PROVE  u[j] = IF j <= i - 1 THEN front[j] ELSE back[j - (i - 1)]
      <4>1. u[j] = IF j <= Len(front) THEN front[j] ELSE back[j - Len(front)]
        BY <3>2, <3>3
      <4>. QED BY <2>6, <4>1
    <3>. QED BY <3>1, <3>3, <3>4
  <2>10. \A j \in 1 .. i - 1 : u[j] = sinks[j]
    BY <2>1, <2>6, <2>9
  <2>11. ASSUME NEW j \in i .. n - 1
         PROVE  u[j] = sinks[j + 1]
    <3>1. j \in 1 .. n - 1 /\ ~(j <= i - 1) /\ j - (i - 1) \in 1 .. n - i /\ i + (j - (i - 1)) = j + 1
      BY <2>1
    <3>. QED BY <2>7, <2>9, <3>1
  <2>12. Copies(sinks, s) = Copies(u, s) + IF sinks[i] = s THEN 1 ELSE 0
    <3>1. Erased(u, sinks, i)
      BY <2>1, <2>3, <2>9, <2>10, <2>11 DEF Erased
    <3>. QED BY <3>1, CopiesErased
  <2>13. Copies(u, s) \in Nat
    BY <2>3, CopiesCount
  <2>. QED BY <1>1, <2>1, <2>2, <2>12, <2>13
<1>. QED BY <1>2, <1>3 DEF EraseSink

-----------------------------------------------------------------------------
(* OnEvent after RemoveSink *)

\* The list holds a sink as often as it is registered, and what a removed sink got since, with
\* what the copy in hand still holds for it, is within the registrations it may have.
Counted ==
    \A s \in Sinks :
        /\ Copies(sinks, s) = regs[s] /\ regs[s] <= MaxCopies
        /\ regs[s] > 0 => late[s] = 0
        /\ late[s] + Copies(todo, s) <= MaxCopies

\* Before any registration there is nothing to count.
LEMMA InitCounted == Init => Counted
<1>. SUFFICES ASSUME Init, NEW s \in Sinks
              PROVE  /\ Copies(sinks, s) = regs[s] /\ regs[s] <= MaxCopies
                     /\ regs[s] > 0 => late[s] = 0
                     /\ late[s] + Copies(todo, s) <= MaxCopies
  BY DEF Counted
<1>1. <<>> \in Seq(Sinks) /\ s \notin Range(<<>>)
  BY EmptySeq DEF Range
<1>2. Copies(<<>>, s) = 0
  BY <1>1, CopiesCount
<1>3. sinks = <<>> /\ todo = <<>> /\ regs[s] = 0 /\ late[s] = 0
  BY DEF Init
<1>. QED BY <1>2, <1>3, DeliveryAssumption

\* Counted is inductive: only the registry's operations, a new copy and the calls on it matter.
LEMMA NextCounted == Typed /\ Counted /\ [Next]_vars => Counted'
<1>. SUFFICES ASSUME Typed, Counted, [Next]_vars, NEW s \in Sinks
              PROVE  /\ Copies(sinks', s) = regs'[s] /\ regs'[s] <= MaxCopies
                     /\ regs'[s] > 0 => late'[s] = 0
                     /\ late'[s] + Copies(todo', s) <= MaxCopies
  BY DEF Counted, Copies, Places
<1>. DEFINE Goal == /\ Copies(sinks', s) = regs'[s] /\ regs'[s] <= MaxCopies
                    /\ regs'[s] > 0 => late'[s] = 0
                    /\ late'[s] + Copies(todo', s) <= MaxCopies
<1>0. /\ sinks \in Seq(Sinks) /\ todo \in Seq(Sinks) /\ MaxCopies \in Nat
      /\ regs \in [Sinks -> Nat] /\ late \in [Sinks -> Nat]
      /\ regs[s] \in Nat /\ late[s] \in Nat
  BY DeliveryAssumption DEF Typed, TypeOK
<1>c. /\ Copies(sinks, s) = regs[s] /\ regs[s] <= MaxCopies
      /\ regs[s] > 0 => late[s] = 0
      /\ late[s] + Copies(todo, s) <= MaxCopies
  BY DEF Counted
<1>n. Copies(todo, s) \in Nat /\ Copies(sinks, s) \in Nat
  BY <1>0, CopiesCount
<1>1. ASSUME NEW x \in Sinks, AddSink(x) PROVE Goal
  <2>1. Copies(sinks', s) = Copies(sinks, s) + IF x = s THEN 1 ELSE 0
    BY <1>0, <1>1, CopiesAppended DEF AddSink
  <2>2. todo' = todo /\ regs[x] < MaxCopies
    BY <1>1 DEF AddSink
  <2>3. /\ regs'[s] = IF x = s THEN regs[s] + 1 ELSE regs[s]
        /\ late'[s] = IF x = s THEN 0 ELSE late[s]
    BY <1>0, <1>1 DEF AddSink
  <2>4. CASE x = s
    BY <1>0, <1>c, <1>n, <2>1, <2>2, <2>3, <2>4
  <2>5. CASE x # s
    BY <1>0, <1>c, <1>n, <2>1, <2>2, <2>3, <2>5
  <2>. QED BY <2>4, <2>5
<1>2. ASSUME NEW x \in Sinks, RemoveSink(x) PROVE Goal
  <2>1. Copies(sinks', s) = IF x = s /\ Copies(sinks, s) # 0 THEN Copies(sinks, s) - 1 ELSE Copies(sinks, s)
    BY <1>0, <1>2, CopiesRemoved DEF RemoveSink
  <2>2. todo' = todo /\ late' = late
    BY <1>2 DEF RemoveSink
  <2>3. regs'[s] = IF x = s /\ regs[s] # 0 THEN regs[s] - 1 ELSE regs[s]
    BY <1>0, <1>2 DEF RemoveSink
  <2>. QED BY <1>0, <1>c, <1>n, <2>1, <2>2, <2>3
<1>3. CASE TakeCopy
  <2>1. sinks' = sinks /\ regs' = regs /\ late' = late
    BY <1>3 DEF TakeCopy, history
  <2>2. todo' = sinks \/ todo' = <<>>
    BY <1>3 DEF TakeCopy, Current
  <2>3. Copies(<<>>, s) = 0
    <3>1. <<>> \in Seq(Sinks) /\ s \notin Range(<<>>)
      BY EmptySeq DEF Range
    <3>. QED BY <3>1, CopiesCount
  <2>4. Copies(todo', s) = regs[s] \/ Copies(todo', s) = 0
    BY <1>c, <2>2, <2>3
  <2>5. late[s] <= MaxCopies
    BY <1>0, <1>c, <1>n
  <2>. QED BY <1>0, <1>c, <2>1, <2>4, <2>5
<1>4. CASE OnEvent
  <2>1. sinks' = sinks /\ regs' = regs /\ todo # <<>> /\ todo' = Tail(todo)
    BY <1>4 DEF OnEvent, AfterThrow
  <2>2. PICK x \in Sinks : x = Head(todo)
    BY <1>0, <2>1, HeadTailProperties
  <2>3. late'[s] = IF x = s /\ regs[s] = 0 THEN late[s] + 1 ELSE late[s]
    <3>1. late' = [late EXCEPT ![x] = IF regs[x] = 0 THEN late[x] + 1 ELSE late[x]]
      BY <1>4, <2>2 DEF OnEvent
    <3>. QED BY <1>0, <3>1
  <2>4. Copies(todo, s) = Copies(todo', s) + IF x = s THEN 1 ELSE 0
    BY <1>0, <2>1, <2>2, CopiesTail
  <2>5. Copies(todo', s) \in Nat
    BY <1>0, <2>1, HeadTailProperties, CopiesCount
  <2>. QED BY <1>0, <1>c, <2>1, <2>3, <2>4, <2>5
<1>5. CASE Flush
  <2>1. sinks' = sinks /\ regs' = regs /\ late' = late /\ todo # <<>> /\ todo' = Tail(todo)
    BY <1>5 DEF Flush
  <2>2. Copies(todo, s) = Copies(todo', s) + IF Head(todo) = s THEN 1 ELSE 0
    BY <1>0, <2>1, CopiesTail
  <2>3. Copies(todo', s) \in Nat
    BY <1>0, <2>1, HeadTailProperties, CopiesCount
  <2>. QED BY <1>0, <1>c, <2>1, <2>2, <2>3
<1>6. UNCHANGED <<sinks, regs, late, todo>> => Goal
  BY <1>c
<1>7. \/ \E x \in Sinks : AddSink(x) \/ RemoveSink(x)
      \/ TakeCopy \/ OnEvent \/ Flush
      \/ UNCHANGED <<sinks, regs, late, todo>>
  BY DEF Next, ThreadStep, Finished, vars, code, history, Push, PushNotify, PushTally, Wait,
         SpuriousWakeup, Pop, Leave, Handed, Exit, OwnerStop, StopNotify, StopReap, Destroy
<1>. QED BY <1>1, <1>2, <1>3, <1>4, <1>5, <1>6, <1>7

\* The registry's list and the copy in hand, counted, at every moment.
LEMMA SpecCounted == Spec => [](Typed /\ Counted)
<1>1. Spec => []Typed
  BY InitTyped, NextTyped, PTL DEF Spec
<1>. QED BY <1>1, InitCounted, NextCounted, PTL DEF Spec

\* However registrations race with the delivery thread's copy of the list, a sink gets at most
\* one more event for each registration after RemoveSink returned.
THEOREM OnceMoreAtMost == Spec => []OnceMoreAfterRemove
<1>1. Typed /\ Counted => OnceMoreAfterRemove
  <2>. SUFFICES ASSUME Typed, Counted, NEW s \in Sinks PROVE late[s] <= MaxCopies
    BY DEF OnceMoreAfterRemove
  <2>1. todo \in Seq(Sinks) /\ late[s] \in Nat /\ MaxCopies \in Nat
    BY DeliveryAssumption DEF Typed, TypeOK
  <2>2. Copies(todo, s) \in Nat
    BY <2>1, CopiesCount
  <2>. QED BY <2>1, <2>2 DEF Counted
<1>. QED BY <1>1, SpecCounted, PTL

-----------------------------------------------------------------------------
(* The order in which a sink gets events *)

Rises(list) == \A i, j \in 1 .. Len(list) : i < j => list[i] < list[j]

\* Stamps rise: producers stamp and push under one lock.
Stamped ==
    /\ \A i \in 1 .. Len(accepted) : accepted[i] <= pushed
    /\ Rises(accepted)

\* The stamp of an accepted event is above all that were accepted before.
LEMMA NextStamped == Typed /\ Stamped /\ [Next]_vars => Stamped'
<1>. SUFFICES ASSUME Typed, Stamped, [Next]_vars PROVE Stamped'
  OBVIOUS
<1>0. accepted \in Seq(Nat) /\ pushed \in Nat /\ pushed + 1 \in Nat
  BY DEF Typed, TypeOK
<1>1. ASSUME NEW p \in Producers, Push(p) PROVE Stamped'
  <2>1. pushed' = pushed + 1
    BY <1>1 DEF Push
  <2>2. CASE accepted' = accepted
    <3>1. ASSUME NEW i \in 1 .. Len(accepted) PROVE accepted[i] <= pushed + 1
      <4>1. accepted[i] \in Nat /\ accepted[i] <= pushed
        BY <1>0 DEF Stamped, Rises
      <4>. QED BY <1>0, <4>1
    <3>. QED BY <2>1, <2>2, <3>1 DEF Stamped, Rises
  <2>3. CASE accepted' = Append(accepted, pushed + 1)
    <3>1. PICK n \in Nat : n = Len(accepted)
      BY <1>0
    <3>2. PICK u : u = accepted'
      OBVIOUS
    <3>3. Len(u) = n + 1 /\ u[n + 1] = pushed + 1 /\ \A i \in 1 .. n : u[i] = accepted[i]
      BY <1>0, <2>3, <3>1, <3>2, AppendProperties
    <3>4. ASSUME NEW i \in 1 .. n PROVE u[i] \in Nat /\ u[i] <= pushed
      BY <1>0, <3>1, <3>3 DEF Stamped, Rises
    <3>5. ASSUME NEW i \in 1 .. n + 1 PROVE u[i] <= pushed + 1
      <4>1. CASE i = n + 1
        BY <1>0, <3>3, <4>1
      <4>2. CASE i \in 1 .. n
        <5>1. u[i] \in Nat /\ u[i] <= pushed
          BY <3>4, <4>2
        <5>. QED BY <1>0, <5>1
      <4>. QED BY <4>1, <4>2
    <3>6. ASSUME NEW i \in 1 .. n + 1, NEW j \in 1 .. n + 1, i < j
          PROVE  u[i] < u[j]
      <4>1. i \in 1 .. n /\ (j \in 1 .. n \/ j = n + 1)
        BY <3>6
      <4>2. CASE j = n + 1
        <5>1. u[i] \in Nat /\ u[i] <= pushed /\ u[j] = pushed + 1
          BY <3>3, <3>4, <4>1, <4>2
        <5>. QED BY <1>0, <5>1
      <4>3. CASE j \in 1 .. n
        BY <3>1, <3>3, <3>6, <4>1, <4>3 DEF Stamped, Rises
      <4>. QED BY <4>1, <4>2, <4>3
    <3>. QED BY <2>1, <3>2, <3>3, <3>5, <3>6 DEF Stamped, Rises
  <2>. QED BY <1>1, <2>2, <2>3 DEF Push
<1>2. UNCHANGED <<accepted, pushed>> => Stamped'
  BY DEF Stamped, Rises
<1>3. (\E p \in Producers : Push(p)) \/ UNCHANGED <<accepted, pushed>>
  BY DEF Next, ThreadStep, Finished, vars, code, history, AddSink, RemoveSink, PushNotify,
         PushTally, Wait, SpuriousWakeup, Pop, Leave, TakeCopy, OnEvent, Handed, Flush, Exit,
         OwnerStop, StopNotify, StopReap, Destroy
<1>. QED BY <1>1, <1>2, <1>3

\* What was taken is the beginning of what was accepted.
LEMMA TakenRises == Typed /\ Fifo /\ Stamped => Rises(taken)
<1>. SUFFICES ASSUME Typed, Fifo, Stamped, NEW i \in 1 .. Len(taken), NEW j \in 1 .. Len(taken),
                     i < j
              PROVE  taken[i] < taken[j]
  BY DEF Rises
<1>1. accepted = taken \o queue /\ taken \in Seq(Nat) /\ queue \in Seq(Nat)
  BY DEF Typed, TypeOK, Fifo
<1>2. Len(accepted) = Len(taken) + Len(queue) /\ Len(taken) \in Nat /\ Len(queue) \in Nat
  BY <1>1, ConcatProperties
<1>3. i \in 1 .. Len(taken) + Len(queue) /\ j \in 1 .. Len(taken) + Len(queue)
  BY <1>2
<1>4. accepted[i] = taken[i] /\ accepted[j] = taken[j]
  BY <1>1, <1>3, ConcatProperties
<1>. QED BY <1>2, <1>3, <1>4 DEF Stamped, Rises

\* The event the thread took last.
LastTaken == taken[Len(taken)]

\* The thread has not yet called s with the event it took last; s is registered once at most.
Ahead(s) == thread = "popped" \/ (MaxCopies = 1 /\ thread = "hand" /\ s \in Range(todo))

\* No sink got an event later than the one taken last, nor that one while it is ahead.
Heard ==
    \A s \in Sinks : \A i \in 1 .. Len(seen[s]) :
        /\ taken # <<>> /\ seen[s][i] <= LastTaken
        /\ Ahead(s) => seen[s][i] < LastTaken

\* A pop takes an event later than every event taken, and so than every event a sink got.
LEMMA PopHeard ==
    ASSUME Typed, Heard, Rises(taken'), Typed', Pop
    PROVE  Heard'
<1>1. taken \in Seq(Nat) /\ taken' \in Seq(Nat) /\ seen \in [Sinks -> Seq(Nat)] /\ seen' = seen
  BY DEF Typed, TypeOK, Pop
<1>2. queue \in Seq(Nat) /\ queue # <<>> /\ taken' = Append(taken, Head(queue))
  BY DEF Typed, TypeOK, Pop, Exhausted
<1>3. Head(queue) \in Nat
  BY <1>2, HeadTailProperties
<1>4. PICK n \in Nat : n = Len(taken)
  BY <1>1
<1>5. Len(taken') = n + 1 /\ \A i \in 1 .. n : taken'[i] = taken[i]
  BY <1>1, <1>2, <1>3, <1>4, AppendProperties
<1>6. ASSUME NEW s \in Sinks, NEW i \in 1 .. Len(seen[s])
      PROVE  taken' # <<>> /\ seen[s][i] <= taken'[n + 1] /\ seen[s][i] < taken'[n + 1]
  <2>1. taken # <<>> /\ seen[s][i] <= taken[n]
    BY <1>4 DEF Heard, LastTaken
  <2>2. n # 0
    BY <1>1, <1>4, <2>1, EmptySeq
  <2>3. n \in 1 .. n + 1 /\ n + 1 \in 1 .. n + 1 /\ n < n + 1 /\ n \in 1 .. n
    BY <2>2
  <2>4. taken[n] < taken'[n + 1]
    BY <1>5, <2>3 DEF Rises
  <2>5. seen[s][i] \in Nat /\ taken[n] \in Nat /\ taken'[n + 1] \in Nat
    <3>1. seen[s] \in Seq(Nat)
      BY <1>1
    <3>2. seen[s][i] \in Nat
      BY <3>1, ElementOfSeq
    <3>3. taken[n] \in Nat
      BY <1>1, <1>4, <2>3, ElementOfSeq
    <3>4. taken'[n + 1] \in Nat
      BY <1>1, <1>5, <2>3, ElementOfSeq
    <3>. QED BY <3>2, <3>3, <3>4
  <2>6. taken' # <<>>
    BY <1>5
  <2>. QED BY <2>1, <2>4, <2>5, <2>6
<1>. QED BY <1>1, <1>5, <1>6 DEF Heard, LastTaken, Ahead

\* A sink that is called is in the copy; registered once at most, it is there no second time.
LEMMA CalledOnce ==
    ASSUME Typed, Counted, OnEvent, MaxCopies = 1
    PROVE  Head(todo) \notin Range(todo')
<1>1. todo \in Seq(Sinks) /\ todo # <<>> /\ todo' = Tail(todo) /\ late \in [Sinks -> Nat]
  BY DEF Typed, TypeOK, OnEvent, AfterThrow
<1>2. PICK s \in Sinks : s = Head(todo)
  BY <1>1, HeadTailProperties
<1>3. Copies(todo, s) = Copies(todo', s) + 1
  BY <1>1, <1>2, CopiesTail
<1>4. late[s] \in Nat /\ late[s] + Copies(todo, s) <= 1
  BY <1>1 DEF Counted
<1>5. todo' \in Seq(Sinks)
  BY <1>1, HeadTailProperties
<1>6. Copies(todo', s) \in Nat /\ (Copies(todo', s) = 0 <=> s \notin Range(todo'))
  BY <1>5, CopiesCount
<1>. QED BY <1>2, <1>3, <1>4, <1>6

\* What is left of a list has no element that the list has not.
LEMMA RangeTail ==
    ASSUME NEW list \in Seq(Sinks), list # <<>>
    PROVE  Range(list) = {Head(list)} \union Range(Tail(list))
<1>1. PICK n \in Nat : n = Len(list) /\ n # 0
  BY EmptySeq
<1>2. PICK u \in Seq(Sinks) : u = Tail(list)
  BY HeadTailProperties
<1>3. /\ Len(u) = n - 1 /\ Head(list) = list[1]
      /\ \A j \in 1 .. n - 1 : u[j] = list[j + 1]
  BY <1>1, <1>2, HeadTailProperties
<1>4. DOMAIN list = 1 .. n /\ DOMAIN u = 1 .. n - 1
  BY <1>1, <1>2, <1>3
<1>5. ASSUME NEW i \in 1 .. n PROVE list[i] \in {Head(list)} \union Range(u)
  <2>1. CASE i = 1
    BY <1>3, <2>1
  <2>2. CASE i # 1
    <3>1. i - 1 \in 1 .. n - 1 /\ (i - 1) + 1 = i
      BY <2>2
    <3>2. u[i - 1] = list[i]
      BY <1>3, <3>1
    <3>. QED BY <1>4, <3>1, <3>2 DEF Range
  <2>. QED BY <2>1, <2>2
<1>6. ASSUME NEW j \in 1 .. n - 1 PROVE u[j] \in Range(list)
  <2>1. j + 1 \in 1 .. n /\ u[j] = list[j + 1]
    BY <1>3
  <2>. QED BY <1>4, <2>1 DEF Range
<1>7. Head(list) \in Range(list)
  <2>1. 1 \in 1 .. n
    BY <1>1
  <2>. QED BY <1>3, <1>4, <2>1 DEF Range
<1>. QED BY <1>2, <1>4, <1>5, <1>6, <1>7 DEF Range

\* What a call of OnEvent does to what the sinks got: the head of the copy gets the last event.
LEMMA OnEventSees ==
    ASSUME Typed, OnEvent
    PROVE  \E x \in Sinks, e \in Nat :
              /\ x = Head(todo) /\ e = LastTaken /\ taken # <<>> /\ LastTaken' = e /\ taken' = taken
              /\ seen' = [seen EXCEPT ![x] = Append(seen[x], e)]
              /\ Range(todo) = {x} \union Range(todo')
<1>1. /\ todo \in Seq(Sinks) /\ taken \in Seq(Nat) /\ taken # <<>> /\ todo # <<>>
      /\ taken' = taken /\ todo' = Tail(todo)
  BY DEF Typed, TypeOK, HoldsEvent, OnEvent, AfterThrow
<1>2. PICK x \in Sinks : x = Head(todo)
  BY <1>1, HeadTailProperties
<1>3. PICK e \in Nat : e = LastTaken
  <2>1. Len(taken) \in Nat /\ Len(taken) # 0
    BY <1>1, EmptySeq, LenProperties
  <2>2. Len(taken) \in 1 .. Len(taken)
    BY <2>1
  <2>. QED BY <1>1, <2>2, ElementOfSeq DEF LastTaken
<1>4. seen' = [seen EXCEPT ![x] = Append(seen[x], e)]
  BY <1>2, <1>3 DEF OnEvent, LastTaken
<1>5. Range(todo) = {x} \union Range(todo')
  BY <1>1, <1>2, RangeTail
<1>6. LastTaken' = e
  BY <1>1, <1>3 DEF LastTaken
<1>. QED BY <1>1, <1>2, <1>3, <1>4, <1>5, <1>6

\* A called sink has now got the last event; the others are where they were.
LEMMA OnEventHeard ==
    ASSUME Typed, Counted, Heard, OnEvent
    PROVE  Heard'
<1>1. PICK x \in Sinks, e \in Nat :
              /\ x = Head(todo) /\ e = LastTaken /\ taken # <<>> /\ LastTaken' = e /\ taken' = taken
              /\ seen' = [seen EXCEPT ![x] = Append(seen[x], e)]
              /\ Range(todo) = {x} \union Range(todo')
  BY OnEventSees
<1>2. thread = "hand" /\ thread' = "hand" /\ seen \in [Sinks -> Seq(Nat)]
  BY DEF OnEvent, Typed, TypeOK
<1>3. MaxCopies = 1 => x \notin Range(todo')
  BY <1>1, CalledOnce
<1>. SUFFICES ASSUME NEW s \in Sinks, NEW i \in 1 .. Len(seen'[s])
              PROVE  seen'[s][i] <= e /\ (MaxCopies = 1 /\ s \in Range(todo') => seen'[s][i] < e)
  BY <1>1, <1>2 DEF Heard, Ahead
<1>4. CASE s # x
  <2>1. seen'[s] = seen[s]
    BY <1>1, <1>2, <1>4
  <2>2. MaxCopies = 1 /\ s \in Range(todo') => Ahead(s)
    BY <1>1, <1>2 DEF Ahead
  <2>. QED BY <1>1, <2>1, <2>2 DEF Heard
<1>5. CASE s = x
  <2>1. seen'[s] = Append(seen[s], e) /\ seen[s] \in Seq(Nat)
    BY <1>1, <1>2, <1>5
  <2>2. PICK n \in Nat : n = Len(seen[s])
    BY <2>1
  <2>3. Len(seen'[s]) = n + 1 /\ seen'[s][n + 1] = e /\ \A k \in 1 .. n : seen'[s][k] = seen[s][k]
    BY <2>1, <2>2, AppendProperties
  <2>4. CASE i = n + 1
    BY <1>3, <1>5, <2>3, <2>4
  <2>5. CASE i \in 1 .. n
    BY <1>1, <1>3, <1>5, <2>2, <2>3, <2>5 DEF Heard
  <2>. QED BY <2>3, <2>4, <2>5
<1>. QED BY <1>4, <1>5

\* Heard is inductive.
LEMMA NextHeard ==
    ASSUME Typed, Counted, Heard, Typed', Rises(taken'), [Next]_vars
    PROVE  Heard'
<1>1. CASE Pop
  BY <1>1, PopHeard
<1>2. CASE OnEvent
  BY <1>2, OnEventHeard
<1>3. CASE TakeCopy
  <2>1. taken' = taken /\ seen' = seen
    BY <1>3 DEF TakeCopy, history
  <2>2. thread' = "hand" => thread = "popped"
    BY <1>3 DEF TakeCopy
  <2>3. thread' # "popped"
    BY <1>3 DEF TakeCopy
  <2>. QED BY <2>1, <2>2, <2>3 DEF Heard, Ahead, LastTaken
<1>4. ASSUME UNCHANGED <<taken, seen, todo>>, thread' \in {"popped", "hand"} => thread' = thread
      PROVE  Heard'
  BY <1>4 DEF Heard, Ahead, LastTaken
<1>5. ASSUME UNCHANGED <<taken, seen>>, thread' = "flush"
      PROVE  Heard'
  BY <1>5 DEF Heard, Ahead, LastTaken
<1>6. \/ Pop \/ OnEvent \/ TakeCopy
      \/ UNCHANGED <<taken, seen, todo>> /\ (thread' \in {"popped", "hand"} => thread' = thread)
      \/ UNCHANGED <<taken, seen>> /\ thread' = "flush"
  BY DEF Next, ThreadStep, Finished, vars, code, history, AddSink, RemoveSink, Push, PushNotify,
         PushTally, Notify, Wait, SpuriousWakeup, Leave, Handed, Flush, Exit, OwnerStop,
         StopNotify, StopReap, Destroy
<1>. QED BY <1>1, <1>2, <1>3, <1>4, <1>5, <1>6

\* A call appends an event that is not before any the sink got, and new if it is there once.
LEMMA NextOrder ==
    ASSUME Typed, Heard, SinkOrder, [Next]_vars
    PROVE  SinkOrder'
<1>1. CASE OnEvent
  <2>1. PICK x \in Sinks, e \in Nat :
              /\ x = Head(todo) /\ e = LastTaken /\ taken # <<>> /\ LastTaken' = e /\ taken' = taken
              /\ seen' = [seen EXCEPT ![x] = Append(seen[x], e)]
              /\ Range(todo) = {x} \union Range(todo')
    BY <1>1, OnEventSees
  <2>2. thread = "hand" /\ seen \in [Sinks -> Seq(Nat)]
    BY <1>1 DEF OnEvent, Typed, TypeOK
  <2>. SUFFICES ASSUME NEW s \in Sinks, NEW i \in DOMAIN seen'[s], NEW j \in DOMAIN seen'[s], i < j
                PROVE  seen'[s][i] <= seen'[s][j] /\ (MaxCopies = 1 => seen'[s][i] # seen'[s][j])
    BY DEF SinkOrder
  <2>3. CASE s # x
    <3>1. seen'[s] = seen[s]
      BY <2>1, <2>2, <2>3
    <3>. QED BY <3>1 DEF SinkOrder
  <2>4. CASE s = x
    <3>1. seen'[s] = Append(seen[s], e) /\ seen[s] \in Seq(Nat)
      BY <2>1, <2>2, <2>4
    <3>2. PICK n \in Nat : n = Len(seen[s]) /\ DOMAIN seen[s] = 1 .. n
      BY <3>1
    <3>3. PICK v \in Seq(Nat) : v = seen'[s]
      BY <3>1, AppendProperties
    <3>4. Len(v) = n + 1 /\ v[n + 1] = e /\ \A k \in 1 .. n : v[k] = seen[s][k]
      BY <3>1, <3>2, <3>3, AppendProperties
    <3>5. i \in 1 .. n + 1 /\ j \in 1 .. n + 1
      BY <3>3, <3>4
    <3>6. i \in 1 .. n /\ (j \in 1 .. n \/ j = n + 1)
      BY <3>5
    <3>7. CASE j \in 1 .. n
      <4>1. v[i] = seen[s][i] /\ v[j] = seen[s][j]
        BY <3>4, <3>6, <3>7
      <4>. QED BY <3>2, <3>3, <3>6, <3>7, <4>1 DEF SinkOrder
    <3>8. CASE j = n + 1
      <4>1. v[i] = seen[s][i] /\ v[j] = e
        BY <3>4, <3>6, <3>8
      <4>2. MaxCopies = 1 => Ahead(s)
        BY <2>1, <2>2, <2>4 DEF Ahead
      <4>3. seen[s][i] <= e /\ (MaxCopies = 1 => seen[s][i] < e)
        BY <2>1, <3>2, <3>6, <4>2 DEF Heard
      <4>4. seen[s][i] \in Nat
        BY <3>1, <3>2, <3>6, ElementOfSeq
      <4>. QED BY <2>1, <3>3, <4>1, <4>3, <4>4
    <3>. QED BY <3>6, <3>7, <3>8
  <2>. QED BY <2>3, <2>4
<1>2. seen' = seen => SinkOrder'
  BY DEF SinkOrder
<1>3. OnEvent \/ seen' = seen
  BY DEF Next, ThreadStep, Finished, vars, code, history, AddSink, RemoveSink, Push, PushNotify,
         PushTally, Wait, SpuriousWakeup, Pop, Leave, TakeCopy, Handed, Flush, Exit, OwnerStop,
         StopNotify, StopReap, Destroy
<1>. QED BY <1>1, <1>2, <1>3

\* The inductive invariant of the two theorems below.
Ordered == Typed /\ Fifo /\ Counted /\ Stamped /\ Heard /\ SinkOrder

\* A new Delivery is ordered: nothing was accepted and nobody got anything.
LEMMA InitOrdered == Init => Ordered
<1>. SUFFICES ASSUME Init PROVE Ordered
  OBVIOUS
<1>1. Typed /\ Counted
  BY InitTyped, InitCounted
<1>2. Fifo
  BY EmptySeq, ConcatEmptySeq DEF Init, Fifo
<1>3. Len(accepted) = 0 /\ \A s \in Sinks : Len(seen[s]) = 0 /\ DOMAIN seen[s] = {}
  BY EmptySeq DEF Init
<1>4. Stamped
  BY <1>3 DEF Stamped, Rises
<1>5. Heard
  BY <1>3 DEF Heard
<1>6. SinkOrder
  BY <1>3 DEF SinkOrder
<1>. QED BY <1>1, <1>2, <1>4, <1>5, <1>6 DEF Ordered

\* Ordered is inductive.
LEMMA NextOrdered == Ordered /\ [Next]_vars => Ordered' /\ Rises(taken')
<1>. SUFFICES ASSUME Ordered, [Next]_vars PROVE Ordered' /\ Rises(taken')
  OBVIOUS
<1>1. Typed' /\ Fifo' /\ Counted' /\ Stamped'
  BY NextTyped, NextFifo, NextCounted, NextStamped DEF Ordered
<1>2. (Typed /\ Fifo /\ Stamped => Rises(taken))'
  BY TakenRises, PTL
<1>3. Rises(taken')
  BY <1>1, <1>2 DEF Rises
<1>4. Heard'
  BY <1>1, <1>3, NextHeard DEF Ordered
<1>5. SinkOrder'
  BY NextOrder DEF Ordered
<1>. QED BY <1>1, <1>3, <1>4, <1>5 DEF Ordered

\* With any number of producers, sinks that throw, stop, come and go, every sink gets events in
\* the order of their stamps, and none twice while it may be registered only once.
THEOREM EachSinkInOrder == Spec => []SinkOrder
<1>1. Ordered => SinkOrder
  BY DEF Ordered
<1>2. Ordered /\ [Next]_vars => Ordered'
  BY NextOrdered
<1>. QED BY <1>1, <1>2, InitOrdered, PTL DEF Spec

-----------------------------------------------------------------------------
(* What a registered sink gets *)

\* NoneMissed for the i-th event taken and a sink s, and one thing more: an event that reached
\* nobody because the sinks function threw will reach nobody, the copy in hand being empty.
Reached(i, s) ==
    \/ taken[i] \in Range(seen[s])
    \/ i = Len(taken) /\ InHand(s)
    \/ /\ SinksMayFail /\ Undelivered(taken[i])
       /\ i = Len(taken) /\ thread = "hand" => todo = <<>>

\* Every event taken since a sink was registered is in that case.
AllReached == \A s \in Sinks : regs[s] > 0 => \A i \in since[s] + 1 .. Len(taken) : Reached(i, s)

\* The event just popped reached nobody yet.
LEMMA PoppedIsNew == Ordered /\ thread = "popped" => Undelivered(LastTaken)
<1>. SUFFICES ASSUME Ordered, thread = "popped", NEW s \in Sinks, LastTaken \in Range(seen[s])
              PROVE  FALSE
  BY DEF Undelivered
<1>1. seen[s] \in Seq(Nat) /\ taken \in Seq(Nat) /\ taken # <<>>
  BY DEF Ordered, Typed, TypeOK, HoldsEvent
<1>2. PICK i \in 1 .. Len(seen[s]) : seen[s][i] = LastTaken
  BY <1>1 DEF Range
<1>3. LastTaken < LastTaken
  BY <1>2 DEF Ordered, Heard, Ahead
<1>4. LastTaken \in Nat
  BY <1>1, <1>2, ElementOfSeq
<1>. QED BY <1>3, <1>4

\* The copy that is made after a pop holds every registered sink, unless the function threw.
LEMMA TakeCopyReaches ==
    ASSUME Ordered, TakeCopy, NEW s \in Sinks, regs[s] > 0, NEW i \in 1 .. Len(taken), Reached(i, s)
    PROVE  Reached(i, s)'
<1>1. sinks \in Seq(Sinks) /\ Copies(sinks, s) = regs[s] /\ regs[s] \in Nat
  BY DEF Ordered, Typed, TypeOK, Counted
<1>2. s \in Range(sinks) /\ sinks # <<>>
  <2>1. s \in Range(sinks)
    BY <1>1, CopiesCount
  <2>2. Range(<<>>) = {}
    BY EmptySeq DEF Range
  <2>. QED BY <2>1, <2>2
<1>3. UNCHANGED <<taken, seen>> /\ (todo' = sinks \/ (SinksMayFail /\ todo' = <<>>))
  BY DEF TakeCopy, history, Current
<1>4. CASE thread = "popped" /\ i = Len(taken)
  <2>1. thread' = "hand" /\ Undelivered(taken[i])
    BY <1>4, PoppedIsNew DEF TakeCopy, LastTaken
  <2>2. CASE todo' = sinks
    BY <1>2, <1>3, <1>4, <2>1, <2>2 DEF Reached, InHand
  <2>3. CASE SinksMayFail /\ todo' = <<>>
    BY <1>3, <1>4, <2>1, <2>3 DEF Reached, Undelivered
  <2>. QED BY <1>3, <2>2, <2>3
<1>5. CASE thread # "popped" \/ i # Len(taken)
  <2>1. ~(i = Len(taken) /\ InHand(s)) /\ (i = Len(taken) => thread' = "flush")
    BY <1>5 DEF TakeCopy, InHand
  <2>. QED BY <1>3, <2>1 DEF Reached, Undelivered
<1>. QED BY <1>4, <1>5

\* An appended element is in the list, and nothing else is new.
LEMMA RangeAppend ==
    ASSUME NEW list \in Seq(Nat), NEW e \in Nat
    PROVE  Range(Append(list, e)) = Range(list) \union {e}
<1>1. PICK n \in Nat : n = Len(list) /\ DOMAIN list = 1 .. n
  OBVIOUS
<1>2. PICK u \in Seq(Nat) : u = Append(list, e)
  BY AppendProperties
<1>3. Len(u) = n + 1 /\ u[n + 1] = e /\ \A i \in 1 .. n : u[i] = list[i]
  BY <1>1, <1>2, AppendProperties
<1>4. DOMAIN u = 1 .. n + 1 /\ 1 .. n + 1 = (1 .. n) \union {n + 1}
  BY <1>2, <1>3
<1>. QED BY <1>1, <1>2, <1>3, <1>4 DEF Range

\* A call of OnEvent reaches the head of the copy and leaves the others in it; an event that had
\* reached nobody is an earlier one.
LEMMA OnEventReaches ==
    ASSUME Ordered, Rises(taken), OnEvent, NEW s \in Sinks, NEW i \in 1 .. Len(taken), Reached(i, s)
    PROVE  Reached(i, s)'
<1>1. PICK x \in Sinks, e \in Nat :
              /\ x = Head(todo) /\ e = LastTaken /\ taken # <<>> /\ LastTaken' = e /\ taken' = taken
              /\ seen' = [seen EXCEPT ![x] = Append(seen[x], e)]
              /\ Range(todo) = {x} \union Range(todo')
  BY OnEventSees DEF Ordered
<1>2. /\ thread = "hand" /\ thread' = "hand" /\ seen \in [Sinks -> Seq(Nat)] /\ todo # <<>>
      /\ taken \in Seq(Nat)
  BY DEF OnEvent, Ordered, Typed, TypeOK
<1>3. ASSUME NEW y \in Sinks
      PROVE  Range(seen'[y]) = IF y = x THEN Range(seen[y]) \union {e} ELSE Range(seen[y])
  <2>1. CASE y # x
    BY <1>1, <1>2, <2>1
  <2>2. CASE y = x
    <3>1. seen'[y] = Append(seen[y], e) /\ seen[y] \in Seq(Nat)
      BY <1>1, <1>2, <2>2
    <3>. QED BY <2>2, <3>1, RangeAppend
  <2>. QED BY <2>1, <2>2
<1>t. taken'[i] = taken[i]
  BY <1>1
<1>4. CASE taken[i] \in Range(seen[s])
  <2>1. taken[i] \in Range(seen'[s])
    BY <1>3, <1>4
  <2>. QED BY <1>t, <2>1 DEF Reached
<1>5. CASE i = Len(taken) /\ InHand(s)
  <2>1. s \in Range(todo) /\ taken[i] = e
    BY <1>1, <1>2, <1>5 DEF InHand, LastTaken
  <2>2. CASE s = x
    <3>1. taken[i] \in Range(seen'[s])
      BY <1>3, <2>1, <2>2
    <3>. QED BY <1>t, <3>1 DEF Reached
  <2>3. CASE s # x
    BY <1>1, <1>2, <1>5, <2>1, <2>3 DEF Reached, InHand
  <2>. QED BY <2>2, <2>3
<1>6. CASE /\ SinksMayFail /\ Undelivered(taken[i])
           /\ i = Len(taken) /\ thread = "hand" => todo = <<>>
  <2>1. PICK n \in Nat : n = Len(taken)
    BY <1>2
  <2>2. i < n /\ n \in 1 .. n
    BY <1>2, <1>6, <2>1
  <2>3. taken[i] < e
    BY <1>1, <2>1, <2>2 DEF Rises, LastTaken
  <2>4. taken[i] \in Nat /\ taken[i] # e
    BY <1>1, <1>2, <2>3, ElementOfSeq
  <2>5. \A y \in Sinks : taken[i] \notin Range(seen'[y])
    BY <1>3, <1>6, <2>4 DEF Undelivered
  <2>6. Undelivered(taken[i])'
    BY <1>t, <2>5 DEF Undelivered
  <2>. QED BY <1>1, <1>6, <2>1, <2>2, <2>6 DEF Reached
<1>. QED BY <1>4, <1>5, <1>6 DEF Reached

\* The event popped is in hand, and those before it stay as they were: none was.
LEMMA PopReaches ==
    ASSUME Ordered, Pop, NEW s \in Sinks, NEW i \in 1 .. Len(taken'),
           i \in 1 .. Len(taken) => Reached(i, s)
    PROVE  Reached(i, s)'
<1>1. taken \in Seq(Nat) /\ queue \in Seq(Nat) /\ queue # <<>>
  BY DEF Ordered, Typed, TypeOK, Pop, Exhausted
<1>2. Head(queue) \in Nat
  BY <1>1, HeadTailProperties
<1>3. /\ taken' = Append(taken, Head(queue)) /\ seen' = seen /\ thread = "run" /\ thread' = "popped"
  BY DEF Pop
<1>4. PICK n \in Nat : n = Len(taken)
  BY <1>1
<1>5. Len(taken') = n + 1 /\ \A k \in 1 .. n : taken'[k] = taken[k]
  BY <1>1, <1>2, <1>3, <1>4, AppendProperties
<1>6. CASE i = n + 1
  BY <1>3, <1>5, <1>6 DEF Reached, InHand
<1>7. CASE i \in 1 .. n
  <2>1. Reached(i, s) /\ taken'[i] = taken[i] /\ ~InHand(s)
    BY <1>3, <1>4, <1>5, <1>7 DEF InHand
  <2>. QED BY <1>3, <2>1 DEF Reached, Undelivered
<1>. QED BY <1>5, <1>6, <1>7

\* A sink's first registration starts it with the next event; the registry's operations touch
\* nothing else that matters.
LEMMA RegistryReaches ==
    ASSUME Ordered, AllReached, NEW x \in Sinks, AddSink(x) \/ RemoveSink(x)
    PROVE  AllReached'
<1>1. UNCHANGED <<taken, seen, thread, todo>>
  BY DEF AddSink, RemoveSink
<1>2. regs \in [Sinks -> Nat] /\ since \in [Sinks -> Nat] /\ taken \in Seq(Nat)
  BY DEF Ordered, Typed, TypeOK
<1>. SUFFICES ASSUME NEW s \in Sinks, regs'[s] > 0, NEW i \in since'[s] + 1 .. Len(taken')
              PROVE  Reached(i, s)'
  BY DEF AllReached
<1>3. CASE regs[s] > 0
  <2>1. since'[s] = since[s]
    <3>1. CASE AddSink(x)
      BY <1>2, <1>3, <3>1 DEF AddSink
    <3>2. CASE RemoveSink(x)
      BY <3>2 DEF RemoveSink
    <3>. QED BY <3>1, <3>2
  <2>2. Reached(i, s)
    BY <1>1, <1>3, <2>1 DEF AllReached
  <2>. QED BY <1>1, <2>2 DEF Reached, InHand, Undelivered
<1>4. CASE regs[s] = 0
  <2>1. AddSink(x) /\ x = s
    BY <1>2, <1>4 DEF AddSink, RemoveSink
  <2>2. since'[s] = Len(taken) /\ Len(taken) \in Nat
    BY <1>2, <1>4, <2>1 DEF AddSink
  <2>. QED BY <1>1, <2>2
<1>5. regs[s] \in Nat
  BY <1>2
<1>. QED BY <1>3, <1>4, <1>5

\* AllReached is inductive over ordered states.
LEMMA NextReached ==
    ASSUME Ordered, Rises(taken), AllReached, [Next]_vars
    PROVE  AllReached'
<1>1. ASSUME NEW x \in Sinks, AddSink(x) \/ RemoveSink(x) PROVE AllReached'
  BY <1>1, RegistryReaches
<1>0. since \in [Sinks -> Nat] /\ taken \in Seq(Nat) /\ Len(taken) \in Nat
  BY DEF Ordered, Typed, TypeOK
<1>2. CASE TakeCopy
  <2>1. UNCHANGED <<taken, regs, since>>
    BY <1>2 DEF TakeCopy, history
  <2>2. ASSUME NEW s \in Sinks, regs[s] > 0, NEW i \in since[s] + 1 .. Len(taken)
        PROVE  Reached(i, s)'
    <3>1. i \in 1 .. Len(taken) /\ Reached(i, s)
      BY <1>0, <2>2 DEF AllReached
    <3>. QED BY <1>2, <2>2, <3>1, TakeCopyReaches
  <2>. QED BY <2>1, <2>2 DEF AllReached
<1>3. CASE OnEvent
  <2>1. UNCHANGED <<taken, regs, since>>
    BY <1>3 DEF OnEvent
  <2>2. ASSUME NEW s \in Sinks, regs[s] > 0, NEW i \in since[s] + 1 .. Len(taken)
        PROVE  Reached(i, s)'
    <3>1. i \in 1 .. Len(taken) /\ Reached(i, s)
      BY <1>0, <2>2 DEF AllReached
    <3>. QED BY <1>3, <3>1, OnEventReaches
  <2>. QED BY <2>1, <2>2 DEF AllReached
<1>4. CASE Pop
  <2>1. UNCHANGED <<regs, since>>
    BY <1>4 DEF Pop
  <2>2. ASSUME NEW s \in Sinks, regs[s] > 0, NEW i \in since[s] + 1 .. Len(taken')
        PROVE  Reached(i, s)'
    <3>1. i \in 1 .. Len(taken')
      BY <1>0, <2>2
    <3>2. i \in 1 .. Len(taken) => Reached(i, s)
      BY <1>0, <2>2 DEF AllReached
    <3>. QED BY <1>4, <3>1, <3>2, PopReaches
  <2>. QED BY <2>1, <2>2 DEF AllReached
<1>5. CASE Handed
  <2>1. UNCHANGED <<taken, seen, regs, since, todo>> /\ todo = <<>> /\ thread = "hand" /\ thread' = "run"
    BY <1>5 DEF Handed, history
  <2>2. \A s \in Sinks : ~InHand(s)
    BY <2>1, EmptySeq DEF InHand, Range
  <2>. QED BY <2>1, <2>2 DEF AllReached, Reached, Undelivered
<1>6. ASSUME UNCHANGED <<taken, seen, regs, since>>,
             \/ UNCHANGED <<todo, thread>>
             \/ thread \notin {"popped", "hand"} /\ thread' \notin {"popped", "hand"}
      PROVE  AllReached'
  BY <1>6 DEF AllReached, Reached, Undelivered, InHand
<1>7. \/ \E x \in Sinks : AddSink(x) \/ RemoveSink(x)
      \/ TakeCopy \/ OnEvent \/ Pop \/ Handed
      \/ /\ UNCHANGED <<taken, seen, regs, since>>
         /\ \/ UNCHANGED <<todo, thread>>
            \/ thread \notin {"popped", "hand"} /\ thread' \notin {"popped", "hand"}
  BY DEF Next, ThreadStep, Finished, vars, code, history, Push, PushNotify, PushTally, Notify,
         Wait, SpuriousWakeup, Leave, Flush, Exit, OwnerStop, StopNotify, StopReap, Destroy
<1>. QED BY <1>1, <1>2, <1>3, <1>4, <1>5, <1>6, <1>7

\* A registered sink gets every event popped since its registration, whatever other sinks throw
\* and however the list changes while the copy is handed out; only a sinks function that throws
\* costs an event, and costs it all sinks.
THEOREM NobodyMisses == Spec => []NoneMissed
<1>1. Ordered => Rises(taken)
  BY TakenRises DEF Ordered
<1>2. Init => AllReached
  BY DEF Init, AllReached
<1>3. Ordered /\ AllReached /\ [Next]_vars => Ordered' /\ AllReached'
  BY <1>1, NextOrdered, NextReached
<1>4. AllReached => NoneMissed
  BY DEF AllReached, Reached, NoneMissed
<1>. QED BY <1>2, <1>3, <1>4, InitOrdered, PTL DEF Spec

=============================================================================
