-------------------------- MODULE PlacementSelection --------------------------
(***************************************************************************)
(* Which clusters the Placements of an AuthRealm select.                   *)
(*                                                                         *)
(* The user's Placement selects clusters by a list of predicates; a        *)
(* cluster needs to satisfy one of them.  For each type of Strategy the    *)
(* Strategy controller derives a Placement with one predicate, which asks  *)
(* for the clusters of that type and for what the user asks for.  It is    *)
(* derived again whenever the user's Placement changes.                    *)
(*                                                                         *)
(* A requirement is modelled by the clusters that meet it.  When the       *)
(* derived Placements exist, and who owns them, is in Lifecycle.           *)
(***************************************************************************)
EXTENDS Integers, Sequences

CONSTANTS
  Clusters,  \* managed clusters
  MaxEdits,  \* how often the user edits the Placement (bound of the model)
  Absent,    \* no Placement
  Nobody,    \* no Strategy
  Scenarios  \* the sets of disturbances that a behaviour may meet

(***************************************************************************)
(* The disturbances:                                                       *)
(*   "alternatives" the user's Placement has more than one predicate       *)
(*   "resets"       the user changes more than the predicates: the cluster *)
(*                  sets, the number of clusters, the priorities           *)
(***************************************************************************)
AllDisturbances == {"alternatives", "resets"}

Types == {"backplane", "hypershift"}

(* MatchExpressions on claims and on labels, and MatchLabels.              *)
Predicate == [claims : SUBSET Clusters, exprs : SUBSET Clusters, labels : SUBSET Clusters]

Derived == [rest : SUBSET Clusters, claims : SUBSET Clusters,
            exprs : SUBSET Clusters, labels : SUBSET Clusters]

Placement == [rest : SUBSET Clusters, predicates : Seq(Predicate)]

ASSUME ConstantsAssumption ==
  /\ Scenarios \subseteq SUBSET AllDisturbances
  /\ MaxEdits \in Nat
  /\ Absent \notin Placement \cup Derived
  /\ Nobody \notin Types

VARIABLES
  scenario, \* the disturbances of this behaviour
  hosted,   \* the clusters whose claims say that they are hosted
  user,     \* the user's Placement
  edits,    \* how often it was edited
  derived,  \* the derived Placement of each type of Strategy
  worker,   \* the Strategy that the worker reconciles
  copy      \* the Placement of the user that it has read

vars == <<scenario, hosted, user, edits, derived, worker, copy>>

May(d) == d \in scenario
Without(ds) == scenario \cap ds = {}

(* hostedClusterRequirement and notHostedClusterRequirement.               *)
OfType(t) == IF t = "hypershift" THEN hosted ELSE Clusters \ hosted

(* What the user's Placement selects (external).                           *)
SelectedByUser(p) ==
  {c \in p.rest :
     \/ p.predicates = <<>>
     \/ \E i \in DOMAIN p.predicates :
          c \in p.predicates[i].claims \cap p.predicates[i].exprs \cap p.predicates[i].labels}

Selected(t, d) == OfType(t) \cap d.rest \cap d.claims \cap d.exprs \cap d.labels

(* Mutated form of addUserDefinedSelectors: only the first counts.         *)
AddFirstSelectors(rest, predicates) ==
  [rest   |-> rest,
   claims |-> IF predicates = <<>> THEN Clusters ELSE predicates[1].claims,
   exprs  |-> IF predicates = <<>> THEN Clusters ELSE predicates[1].exprs,
   labels |-> IF predicates = <<>> THEN Clusters ELSE predicates[Len(predicates)].labels]

(* addUserDefinedSelectors: the expressions of all predicates are required *)
(* together, and the labels of the last one.                               *)
AddUserDefinedSelectors(rest, predicates) ==
  [rest   |-> rest,
   claims |-> {c \in Clusters : \A i \in DOMAIN predicates : c \in predicates[i].claims},
   exprs  |-> {c \in Clusters : \A i \in DOMAIN predicates : c \in predicates[i].exprs},
   labels |-> IF predicates = <<>> THEN Clusters ELSE predicates[Len(predicates)].labels]

Lists == {<<>>} \cup [1 .. 1 -> Predicate]
           \cup (IF May("alternatives") THEN [1 .. 2 -> Predicate] ELSE {})

Init ==
  /\ scenario \in Scenarios
  /\ hosted \in SUBSET Clusters
  /\ user \in [rest : SUBSET Clusters, predicates : Lists]
  /\ edits = 0
  /\ derived = [t \in Types |-> Absent]
  /\ worker = Nobody
  /\ copy = Absent

(* The user edits the Placement.                                           *)
Edit ==
  /\ edits < MaxEdits
  /\ \E placement \in [rest : SUBSET Clusters, predicates : Lists] :
       /\ May("resets") \/ placement.rest = user.rest
       /\ user' = placement
  /\ edits' = edits + 1
  /\ UNCHANGED <<scenario, hosted, derived, worker, copy>>

(* A cluster reports another value of the claim.                           *)
Report ==
  /\ \E c \in Clusters : hosted' = IF c \in hosted THEN hosted \ {c} ELSE hosted \cup {c}
  /\ UNCHANGED <<scenario, user, edits, derived, worker, copy>>

(* processStrategyUpdate: read the user's Placement ...                    *)
Read(t) ==
  /\ worker = Nobody
  /\ worker' = t
  /\ copy' = user
  /\ UNCHANGED <<scenario, hosted, user, edits, derived>>

(* A new Placement starts with the specification of the user's, one that   *)
(* exists keeps its own.                                                   *)
Rest == IF derived[worker] = Absent THEN copy.rest ELSE derived[worker].rest

(* Mutated form of Write: what exists is left as it is.                    *)
WriteNew ==
  /\ worker \in Types
  /\ derived' = [derived EXCEPT ![worker] =
                   IF @ = Absent THEN AddUserDefinedSelectors(Rest, copy.predicates) ELSE @]
  /\ worker' = Nobody
  /\ copy' = Absent
  /\ UNCHANGED <<scenario, hosted, user, edits>>

(* ... and create or update the derived one.                               *)
Write ==
  /\ worker \in Types
  /\ derived' = [derived EXCEPT ![worker] =
                   AddUserDefinedSelectors(Rest, copy.predicates)]
  /\ worker' = Nobody
  /\ copy' = Absent
  /\ UNCHANGED <<scenario, hosted, user, edits>>

(* A call fails, or the manager restarts.                                  *)
Fail ==
  /\ worker \in Types
  /\ worker' = Nobody
  /\ copy' = Absent
  /\ UNCHANGED <<scenario, hosted, user, edits, derived>>

Next == Edit \/ Report \/ (\E t \in Types : Read(t)) \/ Write \/ Fail

Spec == Init /\ [][Next]_vars

(* Both Strategies are reconciled again and again, and calls do not fail   *)
(* for ever.                                                               *)
Fairness == \A t \in Types : SF_vars(Read(t)) /\ SF_vars(worker = t /\ Write)

FairSpec == Spec /\ Fairness

-----------------------------------------------------------------------------
(* Properties.                                                             *)

(* The type of every variable.                                             *)
TypeOK ==
  /\ scenario \in Scenarios
  /\ hosted \subseteq Clusters
  /\ user \in Placement
  /\ edits \in Nat
  /\ derived \in [Types -> Derived \cup {Absent}]
  /\ worker \in Types \cup {Nobody}
  /\ copy \in IF worker = Nobody THEN {Absent} ELSE Placement

(* No predicate of the user, nor a combination of them, makes a derived    *)
(* Placement select a cluster that the user's Placement did not select     *)
(* when it was read (comment of addUserDefinedSelectors: "the strategy     *)
(* check only on MatchExpression").                                        *)
OnlySelected ==
  [][Without({"resets"}) =>
       \A t \in Types :
         derived'[t] # derived[t] => Selected(t, derived'[t]) \subseteq SelectedByUser(copy)]_vars

(* Once the user stops, each derived Placement selects the clusters of its *)
(* type among those that the user's selects, whatever the Strategy         *)
(* controller read and wrote before.                                       *)
FollowsUser ==
  Without(AllDisturbances) =>
    \A t \in Types :
      <>[](derived[t] # Absent /\ Selected(t, derived[t]) = SelectedByUser(user) \cap OfType(t))

=============================================================================
