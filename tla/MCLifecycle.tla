---------------------------- MODULE MCLifecycle ----------------------------
(* Values of the constants of Lifecycle for model checking.                *)
EXTENDS Lifecycle, TLC

(* All the AuthRealms refer to the same Placement.                         *)
Shared == [r \in Realms |-> CHOOSE p \in Placements : TRUE]

(* AuthRealms are interchangeable; safety only.                            *)
Symmetry == Permutations(Realms)

=============================================================================
