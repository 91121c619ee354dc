-------------------------- MODULE MCGaugeRegistry --------------------------
(* GaugeRegistry for TLC: no symmetry, its run checks liveness. *)
EXTENDS GaugeRegistry

=============================================================================
