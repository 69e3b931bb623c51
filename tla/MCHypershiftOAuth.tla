------------------------- MODULE MCHypershiftOAuth -------------------------
(* Model checking of HypershiftOAuth on a few ClusterOAuths.               *)
EXTENDS HypershiftOAuth

=============================================================================
