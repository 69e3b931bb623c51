-------------------------- MODULE MCAuthRealmStatus --------------------------
(* Values of the constants of AuthRealmStatus for model checking.          *)
EXTENDS AuthRealmStatus

(* All the clusters are selected through the same Strategy.                *)
OneStrategy == [c \in Clusters |-> CHOOSE s \in Strategies : TRUE]

=============================================================================
