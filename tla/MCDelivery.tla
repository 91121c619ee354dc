----------------------------- MODULE MCDelivery -----------------------------
(* Delivery for TLC: symmetric sets of producers and sinks. *)
EXTENDS Delivery, TLC

ProducerAndSinkSymmetry == Permutations(Producers) \union Permutations(Sinks)

=============================================================================
