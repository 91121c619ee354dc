---------------------------- MODULE EventStream ----------------------------
(***************************************************************************)
(* What Delivery promises its producer, without threads, locks or sinks    *)
(* (ext_hooks.hpp, the comments of Delivery and Sink): Push never blocks;  *)
(* an event is either accepted, and then delivered in push order, or       *)
(* dropped; after Stop nothing is accepted, what was accepted is still     *)
(* delivered, and only then does delivery end.                             *)
(***************************************************************************)
EXTENDS Naturals, Sequences

CONSTANTS
    Capacity,   \* events that may wait
    MaxPush     \* bound: offers

VARIABLES
    pending,    \* accepted, not yet delivered
    delivered,  \* delivered, oldest first
    offered,    \* offers so far: the stamp of the last one
    open,       \* may an offer still be accepted
    ended       \* delivery is over

vars == <<pending, delivered, offered, open, ended>>

Init ==
    /\ pending = <<>> /\ delivered = <<>> /\ offered = 0
    /\ open = TRUE /\ ended = FALSE

\* An offer is accepted exactly when the stream is open and has room.
Offer ==
    /\ offered < MaxPush
    /\ offered' = offered + 1
    /\ pending' = IF open /\ Len(pending) < Capacity
                    THEN Append(pending, offered + 1) ELSE pending
    /\ UNCHANGED <<delivered, open, ended>>

Deliver ==
    /\ pending # <<>>
    /\ delivered' = Append(delivered, Head(pending))
    /\ pending' = Tail(pending)
    /\ UNCHANGED <<offered, open, ended>>

Close ==
    /\ open' = FALSE
    /\ UNCHANGED <<pending, delivered, offered, ended>>

\* Delivery ends only when closed and drained.
End ==
    /\ ~open /\ pending = <<>>
    /\ ended' = TRUE
    /\ UNCHANGED <<pending, delivered, offered, open>>

Next == Offer \/ Deliver \/ Close \/ End

\* Whatever was accepted is delivered, and a closed stream ends.
Spec == Init /\ [][Next]_vars /\ WF_vars(Deliver) /\ WF_vars(End)

\* The safety half, the part a refinement proof establishes.
SafeSpec == Init /\ [][Next]_vars

=============================================================================
