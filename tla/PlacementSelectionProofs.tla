----------------------- MODULE PlacementSelectionProofs -----------------------
(***************************************************************************)
(* Proofs about PlacementSelection, for any clusters and any Placements.   *)
(***************************************************************************)
EXTENDS PlacementSelection, SequenceTheorems, TLAPS

-----------------------------------------------------------------------------
(* The selection.                                                          *)

(* What the derived Placement selects, the last predicate of the user's    *)
(* alone selects.                                                          *)
LEMMA DerivedIsNarrower ==
  ASSUME NEW p \in Placement, NEW t \in Types
  PROVE  Selected(t, AddUserDefinedSelectors(p.rest, p.predicates)) \subseteq SelectedByUser(p)
<1> DEFINE ps == p.predicates
           d == AddUserDefinedSelectors(p.rest, ps)
<1>1. ps \in Seq(Predicate)
  BY DEF Placement
<1>2. d.rest = p.rest /\ d.claims = {c \in Clusters : \A i \in DOMAIN ps : c \in ps[i].claims}
  BY DEF AddUserDefinedSelectors
<1>3. d.exprs = {c \in Clusters : \A i \in DOMAIN ps : c \in ps[i].exprs}
  BY DEF AddUserDefinedSelectors
<1>4. CASE ps = <<>>
  BY <1>2, <1>4 DEF Selected, SelectedByUser
<1>5. CASE ps # <<>>
  <2>1. Len(ps) \in DOMAIN ps
    <3>1. Len(ps) \in Nat /\ Len(ps) # 0 /\ DOMAIN ps = 1 .. Len(ps)
      BY <1>1, <1>5, EmptySeq, LenProperties
    <3> QED
      BY <3>1
  <2>2. d.labels = ps[Len(ps)].labels
    BY <1>5 DEF AddUserDefinedSelectors
  <2> QED
    BY <1>2, <1>3, <2>1, <2>2 DEF Selected, SelectedByUser
<1> QED
  BY <1>4, <1>5

(* With at most one predicate nothing is lost: the derived Placement of a  *)
(* type selects just the clusters of that type which the user's selects    *)
(* (addUserDefinedSelectors).                                              *)
THEOREM OnePredicateIsExact ==
  ASSUME NEW p \in Placement, NEW t \in Types, p.predicates = <<>> \/ Len(p.predicates) = 1,
         hosted \subseteq Clusters
  PROVE  Selected(t, AddUserDefinedSelectors(p.rest, p.predicates))
           = SelectedByUser(p) \cap OfType(t)
<1> DEFINE ps == p.predicates
           d == AddUserDefinedSelectors(p.rest, ps)
<1>1. ps \in Seq(Predicate) /\ p.rest \subseteq Clusters
  BY DEF Placement
<1>2. /\ d.rest = p.rest
      /\ d.claims = {c \in Clusters : \A i \in DOMAIN ps : c \in ps[i].claims}
      /\ d.exprs = {c \in Clusters : \A i \in DOMAIN ps : c \in ps[i].exprs}
  BY DEF AddUserDefinedSelectors
<1>3. CASE ps = <<>>
  <2>1. d.labels = Clusters /\ DOMAIN ps = {}
    <3>1. DOMAIN ps = 1 .. Len(ps) /\ Len(ps) = 0
      BY <1>1, <1>3, EmptySeq, LenProperties
    <3> QED
      BY <1>3, <3>1 DEF AddUserDefinedSelectors
  <2> QED
    BY <1>1, <1>2, <1>3, <2>1 DEF Selected, SelectedByUser
<1>4. CASE Len(ps) = 1
  <2>1. DOMAIN ps = {1} /\ ps # <<>>
    <3> HIDE DEF ps
    <3>1. DOMAIN ps = 1 .. Len(ps) /\ (ps = <<>> <=> Len(ps) = 0)
      BY <1>1, EmptySeq, LenProperties
    <3> QED
      BY <1>4, <3>1
  <2>2. d.labels = ps[1].labels
    BY <1>4, <2>1 DEF AddUserDefinedSelectors
  <2> QED
    BY <1>1, <1>2, <2>1, <2>2 DEF Selected, SelectedByUser
<1> QED
  BY <1>3, <1>4

LEMMA DerivedType ==
  ASSUME NEW rest \in SUBSET Clusters, NEW ps \in Seq(Predicate)
  PROVE  AddUserDefinedSelectors(rest, ps) \in Derived
<1>1. ps # <<>> => ps[Len(ps)].labels \in SUBSET Clusters
  <2> SUFFICES ASSUME ps # <<>>  PROVE ps[Len(ps)] \in Predicate
    BY DEF Predicate
  <2>1. Len(ps) \in 1 .. Len(ps)
    BY EmptySeq, LenProperties
  <2> QED
    BY <2>1, ElementOfSeq
<1>2. (IF ps = <<>> THEN Clusters ELSE ps[Len(ps)].labels) \in SUBSET Clusters
  BY <1>1
<1> QED
  BY <1>2 DEF AddUserDefinedSelectors, Derived

LEMMA ListsAreLists ==
  Lists \subseteq Seq(Predicate)
<1>1. <<>> \in Seq(Predicate)
  BY EmptySeq
<1>2. [1 .. 1 -> Predicate] \subseteq Seq(Predicate)
  BY SeqDef
<1>3. [1 .. 2 -> Predicate] \subseteq Seq(Predicate)
  BY SeqDef
<1> QED
  BY <1>1, <1>2, <1>3 DEF Lists

-----------------------------------------------------------------------------
(* The inductive invariant: while the user changes nothing but predicates, *)
(* what the derived Placements keep of an earlier read is still right.     *)

RestIsKept ==
  Without({"resets"}) =>
    /\ \A t \in Types : derived[t] # Absent => derived[t].rest = user.rest
    /\ worker # Nobody => copy.rest = user.rest

IInv == TypeOK /\ RestIsKept

LEMMA InitStep ==
  Init => IInv
<1> SUFFICES ASSUME Init  PROVE IInv
  OBVIOUS
<1>1. user \in Placement
  BY ListsAreLists DEF Init, Placement
<1>2. derived \in [Types -> Derived \cup {Absent}]
  BY DEF Init
<1>3. TypeOK
  BY <1>1, <1>2 DEF Init, TypeOK
<1>4. RestIsKept
  BY DEF Init, RestIsKept
<1> QED
  BY <1>3, <1>4 DEF IInv

(* What a Write writes.                                                    *)
LEMMA WriteStep ==
  ASSUME IInv, Write
  PROVE  /\ copy \in Placement
         /\ Rest \in SUBSET Clusters
         /\ AddUserDefinedSelectors(Rest, copy.predicates) \in Derived
         /\ Without({"resets"}) => Rest = copy.rest
         /\ \A t \in Types : derived'[t] =
              IF t = worker THEN AddUserDefinedSelectors(Rest, copy.predicates) ELSE derived[t]
<1>1. worker \in Types /\ worker # Nobody /\ copy \in Placement
  BY ConstantsAssumption DEF IInv, TypeOK, Write
<1>2. copy.rest \in SUBSET Clusters /\ copy.predicates \in Seq(Predicate)
  BY <1>1 DEF Placement
<1>3. derived[worker] # Absent => derived[worker].rest \in SUBSET Clusters
  BY <1>1 DEF IInv, TypeOK, Derived
<1>4. Rest \in SUBSET Clusters
  BY <1>2, <1>3 DEF Rest
<1>5. AddUserDefinedSelectors(Rest, copy.predicates) \in Derived
  BY <1>2, <1>4, DerivedType
<1>6. Without({"resets"}) => Rest = copy.rest
  BY <1>1 DEF IInv, RestIsKept, Rest
<1>7. \A t \in Types : derived'[t] =
        IF t = worker THEN AddUserDefinedSelectors(Rest, copy.predicates) ELSE derived[t]
  BY DEF IInv, TypeOK, Write
<1> QED
  BY <1>1, <1>4, <1>5, <1>6, <1>7

LEMMA NextStep ==
  IInv /\ [Next]_vars => IInv'
<1> SUFFICES ASSUME IInv, [Next]_vars  PROVE IInv'
  OBVIOUS
<1> USE DEF IInv, Without
<1>1. CASE Edit
  <2>1. PICK placement \in [rest : SUBSET Clusters, predicates : Lists] :
          /\ May("resets") \/ placement.rest = user.rest
          /\ user' = placement
    BY <1>1 DEF Edit
  <2>2. user' \in Placement
    BY <2>1, ListsAreLists DEF Placement
  <2>3. TypeOK'
    BY <1>1, <2>2 DEF Edit, TypeOK
  <2>4. "resets" \notin scenario => user'.rest = user.rest
    BY <2>1 DEF May
  <2>5. RestIsKept'
    BY <1>1, <2>4 DEF Edit, RestIsKept
  <2> QED
    BY <2>3, <2>5
<1>2. CASE Report
  <2>1. PICK c \in Clusters : hosted' = IF c \in hosted THEN hosted \ {c} ELSE hosted \cup {c}
    BY <1>2 DEF Report
  <2>2. TypeOK'
    BY <1>2, <2>1 DEF Report, TypeOK
  <2>3. RestIsKept'
    BY <1>2 DEF Report, RestIsKept
  <2> QED
    BY <2>2, <2>3
<1>3. ASSUME NEW t \in Types, Read(t)  PROVE IInv'
  <2>1. TypeOK'
    BY <1>3, ConstantsAssumption DEF Read, TypeOK
  <2>2. RestIsKept'
    BY <1>3 DEF Read, RestIsKept
  <2> QED
    BY <2>1, <2>2
<1>4. CASE Write
  <2>1. derived' \in [Types -> Derived \cup {Absent}]
    BY <1>4, WriteStep DEF Write, TypeOK
  <2>2. TypeOK'
    BY <1>4, <2>1 DEF Write, TypeOK
  <2>3. worker \in Types /\ worker # Nobody
    BY <1>4, ConstantsAssumption DEF Write
  <2>4. "resets" \notin scenario =>
          AddUserDefinedSelectors(Rest, copy.predicates).rest = user.rest
    BY <1>4, <2>3, WriteStep DEF RestIsKept, AddUserDefinedSelectors
  <2>5. RestIsKept'
    BY <1>4, <2>4, WriteStep DEF Write, RestIsKept
  <2> QED
    BY <2>2, <2>5
<1>5. CASE Fail
  <2>1. TypeOK'
    BY <1>5 DEF Fail, TypeOK
  <2>2. RestIsKept'
    BY <1>5 DEF Fail, RestIsKept
  <2> QED
    BY <2>1, <2>2
<1>6. CASE UNCHANGED vars
  BY <1>6 DEF vars, TypeOK, RestIsKept
<1> QED
  BY <1>1, <1>2, <1>3, <1>4, <1>5, <1>6 DEF Next

(* The variables keep their types, and a derived Placement the rest of the *)
(* specification that the user's has.                                      *)
THEOREM Invariance == Spec => []IInv
<1> QED
  BY InitStep, NextStep, PTL DEF Spec

(* Whatever the predicates, the Strategy controller never makes a          *)
(* Placement select a cluster that the user's did not select when it was   *)
(* read.                                                                   *)
THEOREM NeverMoreThanTheUser == Spec => OnlySelected
<1> DEFINE Narrow ==
      Without({"resets"}) =>
        \A t \in Types :
          derived'[t] # derived[t] => Selected(t, derived'[t]) \subseteq SelectedByUser(copy)
<1>1. IInv /\ [Next]_vars => [Narrow]_vars
  <2> SUFFICES ASSUME IInv, Next, Without({"resets"}),
                      NEW t \in Types, derived'[t] # derived[t]
               PROVE  Selected(t, derived'[t]) \subseteq SelectedByUser(copy)
    BY DEF vars
  <2>1. Write
    BY DEF Next, Edit, Report, Read, Fail
  <2>2. /\ copy \in Placement
        /\ derived'[t] = AddUserDefinedSelectors(copy.rest, copy.predicates)
    BY <2>1, WriteStep
  <2> QED
    BY <2>2, DerivedIsNarrower
<1> QED
  BY <1>1, Invariance, PTL DEF Spec, OnlySelected

=============================================================================
