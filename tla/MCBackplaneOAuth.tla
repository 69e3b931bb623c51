-------------------------- MODULE MCBackplaneOAuth --------------------------
(* Model checking of BackplaneOAuth on a few ClusterOAuths.                *)
EXTENDS BackplaneOAuth, TLC

(* The ClusterOAuths are interchangeable: sound for the runs that check    *)
(* no liveness property.                                                   *)
Symmetry == Permutations(OAuths)

=============================================================================
