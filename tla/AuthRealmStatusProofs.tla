------------------------ MODULE AuthRealmStatusProofs ------------------------
(***************************************************************************)
(* Theorems about AuthRealmStatus: whatever the controllers overwrite, the *)
(* status keeps its types and one entry for each strategy and cluster.     *)
(***************************************************************************)
EXTENDS AuthRealmStatus, SequenceTheorems, WellFoundedInduction, TLAPS

-----------------------------------------------------------------------------
(* The lists.                                                              *)

(* A set of numbers that is not empty has a least one.                     *)
LEMMA LeastNumber ==
  ASSUME NEW T, T \subseteq Nat, T # {}
  PROVE  \E x \in T : \A y \in T : ~(y < x)
<1>1. \E x \in T : \A y \in T : ~(<<y, x>> \in OpToRel(<, Nat))
  BY NatLessThanWellFounded, WFMin
<1>2. PICK x \in T : \A y \in T : ~(<<y, x>> \in OpToRel(<, Nat))
  BY <1>1
<1>3. \A y \in T : y < x => <<y, x>> \in OpToRel(<, Nat)
  BY DEF OpToRel
<1> QED
  BY <1>2, <1>3

(* The index of a name: that of its first entry, or zero if there is none. *)
LEMMA IndexRange ==
  ASSUME NEW S, NEW list \in Seq(S), NEW name
  PROVE  /\ Index(list, name) = 0 => \A i \in 1 .. Len(list) : list[i].name # name
         /\ Index(list, name) # 0 => /\ Index(list, name) \in 1 .. Len(list)
                                     /\ list[Index(list, name)].name = name
<1> DEFINE T == {i \in 1 .. Len(list) : list[i].name = name}
<1>1. DOMAIN list = 1 .. Len(list) /\ Len(list) \in Nat
  BY LenProperties
<1>2. CASE T = {}
  BY <1>1, <1>2 DEF Index
<1>3. CASE T # {}
  <2>0. T \subseteq Nat
    BY <1>1
  <2>1. PICK x \in T : \A y \in T : ~(y < x)
    <3> HIDE DEF T
    <3> QED
      BY <1>3, <2>0, LeastNumber
  <2>2. \A j \in 1 .. x - 1 : list[j].name # name
    BY <1>1, <2>1
  <2> DEFINE IsIndex(i) == /\ list[i].name = name
                           /\ \A j \in 1 .. i - 1 : list[j].name # name
  <2>3. x \in DOMAIN list /\ IsIndex(x)
    BY <1>1, <2>2
  <2>4. Index(list, name) = CHOOSE i \in DOMAIN list : IsIndex(i)
    BY <2>3 DEF Index
  <2>5. Index(list, name) \in DOMAIN list /\ IsIndex(Index(list, name))
    <3> HIDE DEF IsIndex
    <3> QED
      BY <2>3, <2>4
  <2> QED
    BY <1>1, <2>5
<1> QED
  BY <1>2, <1>3

(* An entry is added at most once.                                         *)
LEMMA EntryAdded ==
  ASSUME NEW S, NEW list \in Seq(S), NEW new \in S, Unique(list)
  PROVE  /\ WithEntry(list, new) \in Seq(S)
         /\ Unique(WithEntry(list, new))
         /\ Index(WithEntry(list, new), new.name) \in 1 .. Len(WithEntry(list, new))
         /\ WithEntry(list, new)[Index(WithEntry(list, new), new.name)].name = new.name
         /\ \A j \in 1 .. Len(WithEntry(list, new)) :
              \/ WithEntry(list, new)[j] = new
              \/ \E i \in 1 .. Len(list) : WithEntry(list, new)[j] = list[i]
<1>1. CASE Index(list, new.name) # 0
  BY <1>1, IndexRange DEF WithEntry
<1>2. CASE Index(list, new.name) = 0
  <2> DEFINE longer == Append(list, new)
  <2>1. WithEntry(list, new) = longer
    BY <1>2 DEF WithEntry
  <2>2. /\ longer \in Seq(S)
        /\ Len(longer) = Len(list) + 1
        /\ Len(list) \in Nat
        /\ \A i \in 1 .. Len(list) : longer[i] = list[i]
        /\ longer[Len(list) + 1] = new
    BY AppendProperties, LenProperties
  <2>3. DOMAIN list = 1 .. Len(list) /\ DOMAIN longer = 1 .. Len(longer)
    BY <2>2, LenProperties
  <2>4. \A i \in 1 .. Len(list) : list[i].name # new.name
    BY <1>2, IndexRange
  <2> HIDE DEF longer
  <2>5. Unique(longer)
    BY <2>2, <2>3, <2>4 DEF Unique
  <2>6. Index(longer, new.name) # 0
    <3>1. Len(list) + 1 \in 1 .. Len(longer)
      BY <2>2
    <3> QED
      BY <2>2, <3>1, IndexRange
  <2>7. \A j \in 1 .. Len(longer) :
          longer[j] = new \/ \E i \in 1 .. Len(list) : longer[j] = list[i]
    BY <2>2
  <2> QED
    BY <2>1, <2>2, <2>5, <2>6, <2>7, IndexRange
<1> QED
  BY <1>1, <1>2

(* Taking an entry away brings no two entries of one name about.           *)
LEMMA EntryTakenAway ==
  ASSUME NEW S, NEW list \in Seq(S), NEW name, Unique(list)
  PROVE  WithoutEntry(list, name) \in Seq(S) /\ Unique(WithoutEntry(list, name))
<1>1. CASE Index(list, name) = 0
  BY <1>1 DEF WithoutEntry
<1>2. CASE Index(list, name) # 0
  <2> DEFINE k == Index(list, name)
             before == SubSeq(list, 1, k - 1)
             after == SubSeq(list, k + 1, Len(list))
  <2>1. k \in 1 .. Len(list) /\ Len(list) \in Nat /\ DOMAIN list = 1 .. Len(list)
    BY <1>2, IndexRange, LenProperties
  <2>0. WithoutEntry(list, name) = before \o after
    BY <1>2 DEF WithoutEntry
  <2> HIDE DEF k
  <2>2. /\ before \in Seq(S)
        /\ Len(before) = k - 1
        /\ \A i \in 1 .. k - 1 : before[i] = list[i]
    <3>1. \A i \in 1 .. k - 1 : list[i] \in S
      BY <2>1, ElementOfSeq
    <3> QED
      BY <2>1, <3>1, SubSeqProperties
  <2>3. /\ after \in Seq(S)
        /\ Len(after) = Len(list) - k
        /\ \A i \in 1 .. Len(list) - k : after[i] = list[k + i]
    <3>1. \A i \in k + 1 .. Len(list) : list[i] \in S
      BY <2>1, ElementOfSeq
    <3>2. /\ after \in Seq(S)
          /\ Len(after) = IF k + 1 <= Len(list) THEN Len(list) - (k + 1) + 1 ELSE 0
          /\ \A i \in 1 .. Len(list) - (k + 1) + 1 : after[i] = list[(k + 1) + i - 1]
      BY <2>1, <3>1, SubSeqProperties
    <3> HIDE DEF after
    <3>3. Len(after) = Len(list) - k
      <4>1. Len(after) = IF k + 1 <= Len(list) THEN Len(list) - (k + 1) + 1 ELSE 0
        BY <3>2
      <4>2. k \in Int /\ Len(list) \in Int /\ k <= Len(list)
        BY <2>1
      <4>3. CASE k + 1 <= Len(list)
        BY <4>1, <4>2, <4>3
      <4>4. CASE ~(k + 1 <= Len(list))
        BY <4>1, <4>2, <4>4
      <4> QED
        BY <4>3, <4>4
    <3>4. ASSUME NEW i \in 1 .. Len(list) - k  PROVE after[i] = list[k + i]
      <4>1. i \in 1 .. Len(list) - (k + 1) + 1 /\ (k + 1) + i - 1 = k + i
        BY <2>1
      <4> QED
        BY <3>2, <4>1
    <3> QED
      BY <3>2, <3>3, <3>4
  <2> DEFINE shorter == before \o after
  <2> HIDE DEF before, after
  <2>4. /\ shorter \in Seq(S)
        /\ Len(shorter) = Len(list) - 1
        /\ \A i \in 1 .. Len(list) - 1 :
             shorter[i] = IF i <= k - 1 THEN before[i] ELSE after[i - (k - 1)]
    <3>1. /\ shorter \in Seq(S)
          /\ Len(shorter) = Len(before) + Len(after)
          /\ \A i \in 1 .. Len(before) + Len(after) :
               shorter[i] = IF i <= Len(before) THEN before[i] ELSE after[i - Len(before)]
      BY <2>2, <2>3, ConcatProperties
    <3>2. Len(before) + Len(after) = Len(list) - 1
      BY <2>1, <2>2, <2>3
    <3> QED
      BY <2>2, <3>1, <3>2
  <2>5. DOMAIN shorter = 1 .. Len(list) - 1
    BY <2>4, LenProperties
  <2> HIDE DEF shorter
  <2>6. \A i \in 1 .. Len(list) - 1 : shorter[i] = list[IF i <= k - 1 THEN i ELSE i + 1]
    <3> SUFFICES ASSUME NEW i \in 1 .. Len(list) - 1
                 PROVE  shorter[i] = list[IF i <= k - 1 THEN i ELSE i + 1]
      OBVIOUS
    <3>1. CASE i <= k - 1
      BY <2>1, <2>2, <2>4, <3>1
    <3>2. CASE ~(i <= k - 1)
      <4>1. i - (k - 1) \in 1 .. Len(list) - k
        BY <2>1, <3>2
      <4>2. k + (i - (k - 1)) = i + 1
        BY <2>1
      <4>3. after[i - (k - 1)] = list[i + 1]
        BY <2>3, <4>1, <4>2
      <4> QED
        BY <2>4, <3>2, <4>3
    <3> QED
      BY <3>1, <3>2
  <2>7. Unique(shorter)
    <3> SUFFICES ASSUME NEW i \in 1 .. Len(list) - 1, NEW j \in 1 .. Len(list) - 1,
                        shorter[i].name = shorter[j].name
                 PROVE  i = j
      BY <2>5 DEF Unique
    <3> DEFINE at(n) == IF n <= k - 1 THEN n ELSE n + 1
    <3>1. at(i) \in 1 .. Len(list) /\ at(j) \in 1 .. Len(list)
      BY <2>1
    <3>2. list[at(i)].name = list[at(j)].name
      BY <2>6
    <3>3. at(i) = at(j)
      BY <2>1, <3>1, <3>2 DEF Unique
    <3> QED
      BY <2>1, <3>3
  <2> QED
    BY <2>0, <2>4, <2>7 DEF shorter
<1> QED
  BY <1>1, <1>2

(* Nor does a change of an entry that leaves its name.                     *)
LEMMA EntryChanged ==
  ASSUME NEW S, NEW list \in Seq(S), NEW i \in 1 .. Len(list), NEW e \in S,
         Unique(list), e.name = list[i].name
  PROVE  [list EXCEPT ![i] = e] \in Seq(S) /\ Unique([list EXCEPT ![i] = e])
<1> DEFINE changed == [list EXCEPT ![i] = e]
<1>1. /\ changed \in Seq(S)
      /\ Len(changed) = Len(list)
      /\ \A j \in 1 .. Len(list) : changed[j] = IF j = i THEN e ELSE list[j]
  BY ExceptSeq
<1>2. DOMAIN list = 1 .. Len(list) /\ DOMAIN changed = 1 .. Len(list)
  BY <1>1, LenProperties
<1> HIDE DEF changed
<1>3. \A j \in 1 .. Len(list) : changed[j].name = list[j].name
  BY <1>1
<1>4. Unique(changed)
  BY <1>2, <1>3 DEF Unique
<1> QED
  BY <1>1, <1>4 DEF changed

-----------------------------------------------------------------------------
(* The status.                                                             *)

(* A status of the right type, with one entry for each name.               *)
Good(list) ==
  /\ list \in Lists
  /\ Unique(list)
  /\ \A i \in DOMAIN list : Unique(list[i].clusters)

(* A report about a strategy.                                              *)
LEMMA StrategyReported ==
  ASSUME NEW list, Good(list), NEW s \in Strategies
  PROVE  LET new == WithEntry(list, NewStrategy(s))
             i == Index(new, s)
         IN /\ \A v \in Conditions : Good([new EXCEPT ![i].applied = v])
            /\ \A v \in Values : Good([new EXCEPT ![i].placement = v])
<1> DEFINE longer == WithEntry(list, NewStrategy(s))
           at == Index(longer, s)
<1>1. NewStrategy(s) \in StrategyEntries
  <2>1. <<>> \in Seq(ClusterEntries)
    BY EmptySeq
  <2> QED
    BY <2>1 DEF NewStrategy, StrategyEntries
<1>2. Unique(NewStrategy(s).clusters)
  BY DEF NewStrategy, Unique
<1>3. NewStrategy(s).name = s
  BY DEF NewStrategy
<1>4. /\ list \in Seq(StrategyEntries)
      /\ Unique(list)
      /\ \A j \in 1 .. Len(list) : Unique(list[j].clusters)
  BY LenProperties DEF Good, Lists
<1>5. /\ longer \in Seq(StrategyEntries)
      /\ Unique(longer)
      /\ at \in 1 .. Len(longer)
      /\ longer[at].name = s
      /\ \A j \in 1 .. Len(longer) : longer[j] = NewStrategy(s) \/ \E k \in 1 .. Len(list) : longer[j] = list[k]
  <2> DEFINE added == NewStrategy(s)
  <2> HIDE DEF added
  <2>1. added \in StrategyEntries /\ added.name = s
    BY <1>1, <1>3 DEF added
  <2>2. /\ WithEntry(list, added) \in Seq(StrategyEntries)
        /\ Unique(WithEntry(list, added))
        /\ Index(WithEntry(list, added), added.name) \in 1 .. Len(WithEntry(list, added))
        /\ WithEntry(list, added)[Index(WithEntry(list, added), added.name)].name = added.name
        /\ \A j \in 1 .. Len(WithEntry(list, added)) :
             \/ WithEntry(list, added)[j] = added
             \/ \E k \in 1 .. Len(list) : WithEntry(list, added)[j] = list[k]
    <3>1. list \in Seq(StrategyEntries) /\ Unique(list)
      BY <1>4
    <3>2. WithEntry(list, added) \in Seq(StrategyEntries) /\ Unique(WithEntry(list, added))
      BY <2>1, <3>1, EntryAdded
    <3>3. Index(WithEntry(list, added), added.name) \in 1 .. Len(WithEntry(list, added))
      BY <2>1, <3>1, EntryAdded
    <3>4. WithEntry(list, added)[Index(WithEntry(list, added), added.name)].name = added.name
      BY <2>1, <3>1, EntryAdded
    <3>5. \A j \in 1 .. Len(WithEntry(list, added)) :
            \/ WithEntry(list, added)[j] = added
            \/ \E k \in 1 .. Len(list) : WithEntry(list, added)[j] = list[k]
      BY <2>1, <3>1, EntryAdded
    <3> QED
      BY <3>2, <3>3, <3>4, <3>5
  <2> QED
    BY <2>1, <2>2 DEF added
<1>6. \A j \in 1 .. Len(longer) : Unique(longer[j].clusters)
  BY <1>2, <1>4, <1>5
<1> HIDE DEF longer, at
<1>7. longer[at] \in StrategyEntries
  BY <1>5, ElementOfSeq
<1>8. ASSUME NEW e \in StrategyEntries, e.name = s, Unique(e.clusters)
      PROVE  Good([longer EXCEPT ![at] = e])
  <2>1. /\ [longer EXCEPT ![at] = e] \in Seq(StrategyEntries)
        /\ Unique([longer EXCEPT ![at] = e])
    BY <1>5, <1>8, EntryChanged
  <2>2. /\ DOMAIN [longer EXCEPT ![at] = e] = 1 .. Len(longer)
        /\ \A j \in 1 .. Len(longer) : [longer EXCEPT ![at] = e][j] = IF j = at THEN e ELSE longer[j]
    BY <1>5, <1>8, ExceptSeq, LenProperties
  <2> QED
    BY <1>6, <1>8, <2>1, <2>2 DEF Good, Lists
<1>9. ASSUME NEW v \in Conditions  PROVE Good([longer EXCEPT ![at].applied = v])
  <2> DEFINE e == [longer[at] EXCEPT !.applied = v]
  <2>1. e \in StrategyEntries /\ e.name = s /\ e.clusters = longer[at].clusters
    BY <1>5, <1>7 DEF StrategyEntries
  <2>2. Good([longer EXCEPT ![at] = e])
    <3> HIDE DEF e
    <3> QED
      BY <1>5, <1>6, <1>8, <2>1
  <2> QED
    BY <2>2
<1>10. ASSUME NEW v \in Values  PROVE Good([longer EXCEPT ![at].placement = v])
  <2> DEFINE e == [longer[at] EXCEPT !.placement = v]
  <2>1. e \in StrategyEntries /\ e.name = s /\ e.clusters = longer[at].clusters
    BY <1>5, <1>7 DEF StrategyEntries
  <2>2. Good([longer EXCEPT ![at] = e])
    <3> HIDE DEF e
    <3> QED
      BY <1>5, <1>6, <1>8, <2>1
  <2> QED
    BY <2>2
<1> QED
  BY <1>9, <1>10 DEF longer, at

(* The clusters of a strategy.                                             *)
LEMMA ClustersGood ==
  ASSUME NEW list, Good(list), NEW c \in Clusters, Has(list, c)
  PROVE  /\ ClustersOf(list, c) \in Seq(ClusterEntries)
         /\ Unique(ClustersOf(list, c))
         /\ \A clusters \in Seq(ClusterEntries) :
              Unique(clusters) => Good(WithClusters(list, c, clusters))
<1> DEFINE i == Index(list, StrategyOf[c])
<1>1. /\ list \in Seq(StrategyEntries)
      /\ Unique(list)
      /\ DOMAIN list = 1 .. Len(list)
      /\ \A j \in 1 .. Len(list) : Unique(list[j].clusters)
  BY LenProperties DEF Good, Lists
<1>2. i \in 1 .. Len(list)
  BY <1>1, IndexRange DEF Has
<1> HIDE DEF i
<1>3. list[i] \in StrategyEntries
  BY <1>1, <1>2, ElementOfSeq
<1>4. list[i].clusters \in Seq(ClusterEntries) /\ Unique(list[i].clusters)
  BY <1>1, <1>2, <1>3 DEF StrategyEntries
<1>5. ASSUME NEW clusters \in Seq(ClusterEntries), Unique(clusters)
      PROVE  Good([list EXCEPT ![i].clusters = clusters])
  <2> DEFINE e == [list[i] EXCEPT !.clusters = clusters]
  <2>1. e \in StrategyEntries /\ e.name = list[i].name /\ e.clusters = clusters
    BY <1>3, <1>5 DEF StrategyEntries
  <2>2. [list EXCEPT ![i].clusters = clusters] = [list EXCEPT ![i] = e]
    OBVIOUS
  <2> HIDE DEF e
  <2>3. /\ [list EXCEPT ![i] = e] \in Seq(StrategyEntries)
        /\ Unique([list EXCEPT ![i] = e])
    BY <1>1, <1>2, <2>1, EntryChanged
  <2>4. /\ DOMAIN [list EXCEPT ![i] = e] = 1 .. Len(list)
        /\ \A j \in 1 .. Len(list) : [list EXCEPT ![i] = e][j] = IF j = i THEN e ELSE list[j]
    BY <1>1, <1>2, <2>1, ExceptSeq, LenProperties
  <2> QED
    BY <1>1, <1>5, <2>1, <2>2, <2>3, <2>4 DEF Good, Lists
<1> QED
  BY <1>4, <1>5 DEF ClustersOf, WithClusters, i

-----------------------------------------------------------------------------
(* The inductive invariant: the copies that the workers hold are as good   *)
(* as the status they were taken from.                                     *)

CopiesGood == \A w \in Controllers : copy[w] # Nothing => Good(copy[w].list)

IInv == TypeOK /\ UniqueEntries /\ CopiesGood

LEMMA StatusGood ==
  ASSUME IInv  PROVE Good(status)
BY DEF IInv, TypeOK, UniqueEntries, Good

(* It is enough that the status stays good, and the new copy is of it.     *)
CopyOK(w) == copy[w] # Nothing => copy[w] \in Copies(w) /\ Good(copy[w].list)

LEMMA Copying ==
  ASSUME IInv, NEW w \in Controllers, NEW object \in Objects(w), NEW value \in Reports[w],
         Copied(w, object, value)
  PROVE  /\ copy' = [u \in Controllers |-> copy'[u]]
         /\ \A u \in Controllers : CopyOK(u)'
<1>1. [of |-> object, value |-> value, list |-> status] \in Copies(w)
  BY StatusGood DEF Copies, Good
<1>2. \A u \in Controllers : copy'[u] = IF u = w THEN [of |-> object, value |-> value, list |-> status]
                                                 ELSE copy[u]
  BY DEF Copied, IInv, TypeOK
<1>3. copy' = [u \in Controllers |-> copy'[u]]
  BY DEF Copied, IInv, TypeOK
<1> QED
  BY <1>1, <1>2, <1>3, StatusGood DEF CopyOK, IInv, TypeOK, CopiesGood, Copies

LEMMA Dropping ==
  ASSUME IInv, NEW w \in Controllers, Dropped(w)
  PROVE  /\ copy' = [u \in Controllers |-> copy'[u]]
         /\ \A u \in Controllers : CopyOK(u)'
BY DEF Dropped, CopyOK, IInv, TypeOK, CopiesGood

(* The step that sends a report leaves the status good.                    *)
LEMMA Patching ==
  ASSUME IInv, NEW w \in Controllers, copy[w] # Nothing, NEW list, Good(list), Patched(w, list)
  PROVE  Good(status)'
BY StatusGood DEF Patched, Good

LEMMA HoldsCopy ==
  ASSUME IInv, NEW w \in Controllers, copy[w] # Nothing
  PROVE  /\ copy[w].of \in Objects(w)
         /\ copy[w].value \in Reports[w]
         /\ Good(copy[w].list)
BY DEF IInv, TypeOK, CopiesGood, Copies

ObjectsOK ==
  /\ scenario \in Scenarios
  /\ hosted \subseteq Clusters
  /\ strategy \in [Strategies -> Conditions \cup {Unset}]
  /\ placement \in [Strategies -> Values]
  /\ oauth \in [Clusters -> [phase : {"none", "live", "terminating"},
                            applied : Conditions \cup {Unset}]]
  /\ work \in [Clusters -> Values \cup {Unset, Nothing}]
  /\ hd \in [Clusters -> Values \cup {Unset, Nothing}]
  /\ pending \subseteq Clusters \X {"own", "alien"}

Parts ==
  /\ ObjectsOK
  /\ Good(status)
  /\ copy = [w \in Controllers |-> copy[w]]
  /\ \A w \in Controllers : CopyOK(w)

LEMMA PartsNow == IInv => Parts
BY DEF Parts, IInv, TypeOK, ObjectsOK, UniqueEntries, Good, CopiesGood, CopyOK

LEMMA PartsThen == Parts' => IInv'
BY DEF Parts, IInv, TypeOK, ObjectsOK, UniqueEntries, Good, CopiesGood, CopyOK

LEMMA ReportsOf ==
  /\ Reports["Strategy"] = Conditions
  /\ Reports["Placement"] = Values
  /\ Reports["ClusterOAuth"] = Conditions \cup {Nothing}
  /\ Reports["ManifestWork"] = Values \cup {Unset, Alien}
  /\ Reports["HypershiftDeployment"] = Values \cup {Unset}
  /\ Objects("Strategy") = Strategies
  /\ Objects("Placement") = Strategies
  /\ Objects("ClusterOAuth") = Clusters
  /\ Objects("ManifestWork") = Clusters
  /\ Objects("HypershiftDeployment") = Clusters
BY DEF Reports, Objects

-----------------------------------------------------------------------------
(* The steps.                                                              *)

(* Steps that only change objects.                                         *)
LEMMA ObjectsStep ==
  ASSUME IInv, ObjectsOK', UNCHANGED <<status, copy>>  PROVE IInv'
<1>1. Parts'
  BY PartsNow DEF Parts, CopyOK, Good
<1> QED
  BY <1>1, PartsThen

(* Steps that take a copy.                                                 *)
LEMMA CopyStep ==
  ASSUME IInv, ObjectsOK', UNCHANGED status,
         NEW w \in Controllers, NEW object \in Objects(w), NEW value \in Reports[w],
         Copied(w, object, value)
  PROVE  IInv'
<1>1. Good(status)'
  BY StatusGood DEF Good
<1>2. Parts'
  BY <1>1, Copying DEF Parts
<1> QED
  BY <1>2, PartsThen

(* Steps that send a report.                                               *)
LEMMA ReportStep ==
  ASSUME IInv, ObjectsOK', Good(status)', NEW w \in Controllers, Dropped(w)
  PROVE  IInv'
<1>1. Parts'
  BY Dropping DEF Parts
<1> QED
  BY <1>1, PartsThen

LEMMA ReconcileStrategyInv ==
  ASSUME IInv, NEW s \in Strategies, ReconcileStrategy(s)  PROVE IInv'
<1>1. PICK applied \in Conditions : /\ strategy' = [strategy EXCEPT ![s] = applied]
                                     /\ Copied("Strategy", s, applied)
  BY DEF ReconcileStrategy, Outcomes, Conditions
<1>2. ObjectsOK'
  BY <1>1, PartsNow DEF Parts, ObjectsOK, ReconcileStrategy
<1>3. "Strategy" \in Controllers /\ s \in Objects("Strategy") /\ applied \in Reports["Strategy"]
  BY ReportsOf DEF Controllers
<1> QED
  BY <1>1, <1>2, <1>3, CopyStep DEF ReconcileStrategy

LEMMA ReconcilePlacementInv ==
  ASSUME IInv, NEW s \in Strategies, ReconcilePlacement(s)  PROVE IInv'
<1>1. ObjectsOK'
  BY PartsNow DEF Parts, ObjectsOK, ReconcilePlacement, objVars
<1>2. /\ "Placement" \in Controllers
      /\ s \in Objects("Placement")
      /\ placement[s] \in Reports["Placement"]
  BY PartsNow, ReportsOf DEF Parts, ObjectsOK, Controllers
<1> QED
  BY <1>1, <1>2, CopyStep DEF ReconcilePlacement

LEMMA ReportStrategyInv ==
  ASSUME IInv, ReportStrategy  PROVE IInv'
<1> DEFINE held == copy["Strategy"]
           longer == WithEntry(held.list, NewStrategy(held.of))
<1>1. ObjectsOK'
  BY PartsNow DEF Parts, ObjectsOK, ReportStrategy, objVars
<1>2. "Strategy" \in Controllers
  BY DEF Controllers
<1>3. held.of \in Strategies /\ held.value \in Conditions /\ Good(held.list)
  BY <1>2, HoldsCopy, ReportsOf DEF ReportStrategy
<1>4. Good([longer EXCEPT ![Index(longer, held.of)].applied = held.value])
  BY <1>3, StrategyReported
<1>5. Patched("Strategy", [longer EXCEPT ![Index(longer, held.of)].applied = held.value])
  BY DEF ReportStrategy
<1>6. held # Nothing /\ Dropped("Strategy")
  BY DEF ReportStrategy
<1>7. Good(status)'
  <2> HIDE DEF longer
  <2> QED
    BY <1>2, <1>4, <1>5, <1>6, Patching
<1> QED
  BY <1>1, <1>2, <1>6, <1>7, ReportStep

LEMMA ReportPlacementInv ==
  ASSUME IInv, ReportPlacement  PROVE IInv'
<1> DEFINE held == copy["Placement"]
           longer == WithEntry(held.list, NewStrategy(held.of))
<1>1. ObjectsOK'
  BY PartsNow DEF Parts, ObjectsOK, ReportPlacement, objVars
<1>2. "Placement" \in Controllers
  BY DEF Controllers
<1>3. held.of \in Strategies /\ held.value \in Values /\ Good(held.list)
  BY <1>2, HoldsCopy, ReportsOf DEF ReportPlacement
<1>4. Good([longer EXCEPT ![Index(longer, held.of)].placement = held.value])
  BY <1>3, StrategyReported
<1>5. Patched("Placement", [longer EXCEPT ![Index(longer, held.of)].placement = held.value])
  BY DEF ReportPlacement
<1>6. held # Nothing /\ Dropped("Placement")
  BY DEF ReportPlacement
<1>7. Good(status)'
  <2> HIDE DEF longer
  <2> QED
    BY <1>2, <1>4, <1>5, <1>6, Patching
<1> QED
  BY <1>1, <1>2, <1>6, <1>7, ReportStep

(* The clusters of a strategy with another entry for the i-th.             *)
LEMMA ClusterReported ==
  ASSUME NEW list, Good(list), NEW c \in Clusters, Has(list, c),
         NEW clusters \in Seq(ClusterEntries), Unique(clusters),
         NEW i \in 1 .. Len(clusters),
         NEW e \in ClusterEntries, e.name = clusters[i].name
  PROVE  Good(WithClusters(list, c, [clusters EXCEPT ![i] = e]))
<1>1. /\ [clusters EXCEPT ![i] = e] \in Seq(ClusterEntries)
      /\ Unique([clusters EXCEPT ![i] = e])
  BY EntryChanged
<1> QED
  BY <1>1, ClustersGood

LEMMA FirstValue == First \in Values
BY ConstantsAssumption DEF First

LEMMA ReconcileOAuthInv ==
  ASSUME IInv, NEW c \in Clusters, ReconcileOAuth(c)  PROVE IInv'
<1>1. PICK applied \in Conditions : /\ oauth' = [oauth EXCEPT ![c].applied = applied]
                                     /\ Copied("ClusterOAuth", c, applied)
  BY DEF ReconcileOAuth, Outcomes, Conditions
<1>2. work' = work \/ work' = [work EXCEPT ![c] = First]
  BY DEF ReconcileOAuth
<1>3. pending' = pending \/ pending' = pending \cup {<<c, "own">>}
  BY DEF ReconcileOAuth
<1>4. ObjectsOK'
  BY <1>1, <1>2, <1>3, FirstValue, PartsNow DEF Parts, ObjectsOK, ReconcileOAuth
<1>5. /\ "ClusterOAuth" \in Controllers
      /\ c \in Objects("ClusterOAuth")
      /\ applied \in Reports["ClusterOAuth"]
  BY ReportsOf DEF Controllers
<1> QED
  BY <1>1, <1>4, <1>5, CopyStep DEF ReconcileOAuth

LEMMA ReportOAuthInv ==
  ASSUME IInv, ReportOAuth  PROVE IInv'
<1> DEFINE held == copy["ClusterOAuth"]
           longer == WithEntry(ClustersOf(held.list, held.of), NewCluster(held.of))
           at == Index(longer, held.of)
<1>1. ObjectsOK'
  BY PartsNow DEF Parts, ObjectsOK, ReportOAuth, objVars
<1>2. "ClusterOAuth" \in Controllers
  BY DEF Controllers
<1>3. held # Nothing /\ held.value # Nothing /\ Dropped("ClusterOAuth")
  BY DEF ReportOAuth
<1>4. held.of \in Clusters /\ held.value \in Conditions /\ Good(held.list)
  BY <1>2, <1>3, HoldsCopy, ReportsOf
<1>5. CASE ~Has(held.list, held.of)
  BY <1>1, <1>2, <1>3, <1>5, StatusGood, ReportStep DEF ReportOAuth, Good
<1>6. CASE Has(held.list, held.of)
  <2>1. /\ ClustersOf(held.list, held.of) \in Seq(ClusterEntries)
        /\ Unique(ClustersOf(held.list, held.of))
    BY <1>4, <1>6, ClustersGood
  <2>2. NewCluster(held.of) \in ClusterEntries /\ NewCluster(held.of).name = held.of
    BY <1>4 DEF NewCluster, ClusterEntries
  <2>3. longer \in Seq(ClusterEntries) /\ Unique(longer)
    BY <2>1, <2>2, EntryAdded
  <2>4. at \in 1 .. Len(longer)
    BY <2>1, <2>2, EntryAdded
  <2>5. Patched("ClusterOAuth",
                WithClusters(held.list, held.of, [longer EXCEPT ![at].oauth = held.value]))
    BY <1>6 DEF ReportOAuth
  <2> DEFINE e == [longer[at] EXCEPT !.oauth = held.value]
  <2>6. [longer EXCEPT ![at].oauth = held.value] = [longer EXCEPT ![at] = e]
    OBVIOUS
  <2>7. e \in ClusterEntries /\ e.name = longer[at].name
    <3>1. longer[at] \in ClusterEntries
      BY <2>3, <2>4, ElementOfSeq
    <3> QED
      BY <1>4, <3>1 DEF ClusterEntries
  <2> HIDE DEF longer, at, e
  <2>8. Good(WithClusters(held.list, held.of, [longer EXCEPT ![at] = e]))
    BY <1>4, <1>6, <2>3, <2>4, <2>7, ClusterReported
  <2>9. Good(status)'
    BY <1>2, <1>3, <2>5, <2>6, <2>8, Patching
  <2> QED
    BY <1>1, <1>2, <1>3, <2>9, ReportStep
<1> QED
  BY <1>5, <1>6

LEMMA ReconcileDeletedInv ==
  ASSUME IInv, NEW c \in Clusters, ReconcileDeleted(c)  PROVE IInv'
<1>1. ObjectsOK'
  BY PartsNow DEF Parts, ObjectsOK, ReconcileDeleted, objVars
<1>2. /\ "ClusterOAuth" \in Controllers
      /\ c \in Objects("ClusterOAuth")
      /\ Nothing \in Reports["ClusterOAuth"]
  BY ReportsOf DEF Controllers
<1> QED
  BY <1>1, <1>2, CopyStep DEF ReconcileDeleted

LEMMA WithdrawReportInv ==
  ASSUME IInv, WithdrawReport  PROVE IInv'
<1> DEFINE held == copy["ClusterOAuth"]
           c == held.of
<1>2. "ClusterOAuth" \in Controllers
  BY DEF Controllers
<1>3. held # Nothing
  BY DEF WithdrawReport
<1>4. c \in Clusters /\ Good(held.list)
  BY <1>2, <1>3, HoldsCopy, ReportsOf
<1>1. ObjectsOK'
  BY <1>4, PartsNow DEF Parts, ObjectsOK, WithdrawReport, NoCluster, Conditions
<1>5. Good(status)'
  <2>1. CASE ~Has(held.list, c)
    BY <2>1, StatusGood DEF WithdrawReport, Good
  <2>2. CASE Has(held.list, c)
    <3> DEFINE fewer == WithoutEntry(ClustersOf(held.list, c), c)
    <3>1. fewer \in Seq(ClusterEntries) /\ Unique(fewer)
      BY <1>4, <2>2, ClustersGood, EntryTakenAway
    <3>2. Good(WithClusters(held.list, c, fewer))
      BY <1>4, <2>2, <3>1, ClustersGood
    <3>3. Patched("ClusterOAuth", WithClusters(held.list, c, fewer))
      BY <2>2 DEF WithdrawReport
    <3> HIDE DEF fewer
    <3> QED
      BY <1>2, <1>3, <3>2, <3>3, Patching
  <2> QED
    BY <2>1, <2>2
<1>6. CASE Dropped("ClusterOAuth")
  BY <1>1, <1>2, <1>5, <1>6, ReportStep
<1>7. CASE copy' = [copy EXCEPT !["ClusterOAuth"] = [of |-> c, value |-> "False", list |-> status']]
  <2>1. [of |-> c, value |-> "False", list |-> status'] \in Copies("ClusterOAuth")'
    BY <1>4, <1>5, ReportsOf DEF Copies, Good, Conditions
  <2>2. /\ copy' = [u \in Controllers |-> copy'[u]]
        /\ \A u \in Controllers : CopyOK(u)'
    BY <1>2, <1>5, <1>7, <2>1, PartsNow DEF Parts, CopyOK, Copies
  <2>3. Parts'
    BY <1>1, <1>5, <2>2 DEF Parts
  <2> QED
    BY <2>3, PartsThen
<1> QED
  BY <1>6, <1>7 DEF WithdrawReport

LEMMA HandleInVainInv ==
  ASSUME IInv, NEW c \in Clusters, NEW which \in {"own", "alien"}, HandleInVain(c, which)
  PROVE  IInv'
<1>1. ObjectsOK'
  BY PartsNow DEF Parts, ObjectsOK, HandleInVain, Handled, objVars
<1> QED
  BY <1>1, ObjectsStep DEF HandleInVain

LEMMA ReconcileWorkInv ==
  ASSUME IInv, NEW c \in Clusters, NEW which \in {"own", "alien"}, ReconcileWork(c, which)
  PROVE  IInv'
<1>1. ObjectsOK'
  BY PartsNow DEF Parts, ObjectsOK, ReconcileWork, Handled, objVars
<1>2. work[c] \in Values \cup {Unset, Nothing}
  BY PartsNow DEF Parts, ObjectsOK
<1>3. /\ "ManifestWork" \in Controllers
      /\ c \in Objects("ManifestWork")
      /\ (IF which = "own" THEN work[c] ELSE Alien) \in Reports["ManifestWork"]
  BY <1>2, ReportsOf DEF Controllers, ReconcileWork
<1> QED
  BY <1>1, <1>3, CopyStep DEF ReconcileWork

LEMMA ReconcileHdInv ==
  ASSUME IInv, NEW c \in Clusters, ReconcileHd(c)  PROVE IInv'
<1>1. ObjectsOK'
  BY PartsNow DEF Parts, ObjectsOK, ReconcileHd, Handled, objVars
<1>2. hd[c] \in Values \cup {Unset, Nothing}
  BY PartsNow DEF Parts, ObjectsOK
<1>3. /\ "HypershiftDeployment" \in Controllers
      /\ c \in Objects("HypershiftDeployment")
      /\ hd[c] \in Reports["HypershiftDeployment"]
  BY <1>2, ReportsOf DEF Controllers, ReconcileHd
<1> QED
  BY <1>1, <1>3, CopyStep DEF ReconcileHd

LEMMA ReportWorkInv ==
  ASSUME IInv, ReportWork  PROVE IInv'
<1> DEFINE held == copy["ManifestWork"]
           clusters == ClustersOf(held.list, held.of)
           at == Index(clusters, held.of)
<1>1. "ManifestWork" \in Controllers
  BY DEF Controllers
<1>2. held # Nothing /\ Dropped("ManifestWork")
  BY DEF ReportWork
<1>3. held.of \in Clusters /\ held.value \in Values \cup {Unset, Alien} /\ Good(held.list)
  BY <1>1, <1>2, HoldsCopy, ReportsOf
<1>4. ObjectsOK'
  BY <1>3, PartsNow DEF Parts, ObjectsOK, ReportWork, Retried, objVars
<1>5. CASE ~(Has(held.list, held.of) /\ at # 0)
  BY <1>1, <1>2, <1>4, <1>5, StatusGood, ReportStep DEF ReportWork, Good
<1>6. CASE Has(held.list, held.of) /\ at # 0
  <2>1. clusters \in Seq(ClusterEntries) /\ Unique(clusters)
    BY <1>3, <1>6, ClustersGood
  <2>2. at \in 1 .. Len(clusters)
    BY <1>6, <2>1, IndexRange
  <2>3. Patched("ManifestWork",
                WithClusters(held.list, held.of, [clusters EXCEPT ![at].work = held.value]))
    BY <1>6 DEF ReportWork
  <2> DEFINE e == [clusters[at] EXCEPT !.work = held.value]
  <2>4. [clusters EXCEPT ![at].work = held.value] = [clusters EXCEPT ![at] = e]
    OBVIOUS
  <2>5. e \in ClusterEntries /\ e.name = clusters[at].name
    <3>1. clusters[at] \in ClusterEntries
      BY <2>1, <2>2, ElementOfSeq
    <3> QED
      BY <1>3, <3>1 DEF ClusterEntries
  <2> HIDE DEF clusters, at, e
  <2>6. Good(WithClusters(held.list, held.of, [clusters EXCEPT ![at] = e]))
    BY <1>3, <1>6, <2>1, <2>2, <2>5, ClusterReported
  <2>7. Good(status)'
    BY <1>1, <1>2, <2>3, <2>4, <2>6, Patching
  <2> QED
    BY <1>1, <1>2, <1>4, <2>7, ReportStep
<1> QED
  BY <1>5, <1>6

LEMMA ObjectsStay ==
  ASSUME ObjectsOK, UNCHANGED <<scenario, hosted>>, UNCHANGED objVars,
         pending' \subseteq Clusters \X {"own", "alien"}
  PROVE  ObjectsOK'
BY DEF ObjectsOK, objVars

LEMMA ReportHdInv ==
  ASSUME IInv, ReportHd  PROVE IInv'
<1> DEFINE held == copy["HypershiftDeployment"]
           clusters == ClustersOf(held.list, held.of)
           at == Index(clusters, held.of)
           of == work[held.of]
           ready == Has(held.list, held.of) /\ at # 0 /\ (held.value # Unset => of # Nothing)
           shown == IF held.value = Unset THEN Unset ELSE of
<1>1. "HypershiftDeployment" \in Controllers
  BY DEF Controllers
<1>2. held # Nothing /\ Dropped("HypershiftDeployment")
  BY DEF ReportHd
<1>3. held.of \in Clusters /\ held.value \in Values \cup {Unset} /\ Good(held.list)
  BY <1>1, <1>2, HoldsCopy, ReportsOf
<1>4. ObjectsOK'
  <2>1. UNCHANGED <<scenario, hosted>> /\ UNCHANGED objVars
    BY DEF ReportHd
  <2>2. ObjectsOK
    BY PartsNow DEF Parts
  <2>3. pending' \subseteq Clusters \X {"own", "alien"}
    <3>1. UNCHANGED pending \/ pending' = pending \cup {<<held.of, "own">>}
      BY DEF ReportHd, Retried
    <3> HIDE DEF held
    <3> QED
      BY <1>3, <2>2, <3>1 DEF ObjectsOK
  <2> QED
    BY <2>1, <2>2, <2>3, ObjectsStay
<1>5. CASE ~ready
  BY <1>1, <1>2, <1>4, <1>5, StatusGood, ReportStep DEF ReportHd, Good
<1>6. CASE ready
  <2>1. clusters \in Seq(ClusterEntries) /\ Unique(clusters)
    BY <1>3, <1>6, ClustersGood
  <2>2. at \in 1 .. Len(clusters)
    BY <1>6, <2>1, IndexRange
  <2>3. Patched("HypershiftDeployment", WithClusters(held.list, held.of,
                [clusters EXCEPT ![at].hd = held.value, ![at].work = shown]))
    BY <1>6 DEF ReportHd
  <2>4. shown \in Values \cup {Unset}
    BY <1>3, <1>6, PartsNow DEF Parts, ObjectsOK
  <2> DEFINE e == [clusters[at] EXCEPT !.hd = held.value, !.work = shown]
  <2> HIDE DEF shown
  <2>5. [clusters EXCEPT ![at].hd = held.value, ![at].work = shown] = [clusters EXCEPT ![at] = e]
    BY <2>1, <2>2, LenProperties
  <2>6. e \in ClusterEntries /\ e.name = clusters[at].name
    <3>1. clusters[at] \in ClusterEntries
      BY <2>1, <2>2, ElementOfSeq
    <3> QED
      BY <1>3, <2>4, <3>1 DEF ClusterEntries
  <2> HIDE DEF clusters, at, e
  <2>7. Good(WithClusters(held.list, held.of, [clusters EXCEPT ![at] = e]))
    BY <1>3, <1>6, <2>1, <2>2, <2>6, ClusterReported
  <2>8. Good(status)'
    BY <1>1, <1>2, <2>3, <2>5, <2>7, Patching
  <2> QED
    BY <1>1, <1>2, <1>4, <2>8, ReportStep
<1> QED
  BY <1>5, <1>6

LEMMA ChangeInv ==
  ASSUME IInv, Change  PROVE IInv'
<1>1. ObjectsOK'
  <2>1. ASSUME NEW s \in Strategies, PlacementChanges(s)  PROVE ObjectsOK'
    BY <2>1, PartsNow DEF Parts, ObjectsOK, PlacementChanges
  <2>2. ASSUME NEW c \in Clusters, CreateOAuth(c) \/ DeleteOAuth(c)  PROVE ObjectsOK'
    BY <2>2, PartsNow DEF Parts, ObjectsOK, CreateOAuth, DeleteOAuth
  <2>3. ASSUME NEW c \in Clusters, WorkChanges(c) \/ WorkGone(c) \/ HostedWork(c)
        PROVE  ObjectsOK'
    BY <2>3, FirstValue, PartsNow DEF Parts, ObjectsOK, WorkChanges, WorkGone, HostedWork
  <2>4. ASSUME NEW c \in Clusters, AlienWork(c) \/ HdChanges(c) \/ HdGoes(c)
        PROVE  ObjectsOK'
    BY <2>4, PartsNow DEF Parts, ObjectsOK, AlienWork, HdChanges, HdGoes, objVars
  <2> QED
    BY <2>1, <2>2, <2>3, <2>4 DEF Change
<1>2. UNCHANGED <<status, copy>>
  BY DEF Change, PlacementChanges, CreateOAuth, DeleteOAuth, WorkChanges, WorkGone, HostedWork,
         AlienWork, HdChanges, HdGoes
<1> QED
  BY <1>1, <1>2, ObjectsStep

-----------------------------------------------------------------------------
LEMMA InitInv == Init => IInv
<1> SUFFICES ASSUME Init  PROVE IInv
  OBVIOUS
<1>1. <<>> \in Seq(StrategyEntries)
  BY EmptySeq
<1> QED
  BY <1>1, FirstValue DEF Init, IInv, TypeOK, UniqueEntries, Unique, CopiesGood, Lists, NoCluster

LEMMA NextInv == IInv /\ [Next]_vars => IInv'
<1> SUFFICES ASSUME IInv, [Next]_vars  PROVE IInv'
  OBVIOUS
<1>1. CASE UNCHANGED vars
  <2>1. ObjectsOK'
    BY <1>1, PartsNow DEF vars, Parts, ObjectsOK
  <2> QED
    BY <1>1, <2>1, ObjectsStep DEF vars
<1>2. CASE Resync
  BY <1>2, ReconcileStrategyInv, ReconcilePlacementInv, ReconcileOAuthInv, ReconcileDeletedInv
     DEF Resync
<1>3. CASE \E c \in Clusters : Handle(c)
  BY <1>3, HandleInVainInv, ReconcileWorkInv, ReconcileHdInv DEF Handle
<1>4. CASE Report
  BY <1>4, ReportStrategyInv, ReportPlacementInv, ReportOAuthInv, WithdrawReportInv,
     ReportWorkInv, ReportHdInv DEF Report
<1>5. CASE Change
  BY <1>5, ChangeInv
<1> QED
  BY <1>1, <1>2, <1>3, <1>4, <1>5 DEF Next

(* The status and the copies that are taken of it always have their types, *)
(* and, with any number of copies out of date, each strategy and each      *)
(* cluster has one entry: no report can be split between two.              *)
THEOREM StatusInvariance == Spec => [](TypeOK /\ UniqueEntries)
<1>1. IInv => TypeOK /\ UniqueEntries
  BY DEF IInv
<1> QED
  BY <1>1, InitInv, NextInv, PTL DEF Spec

=============================================================================
