-------------------------- MODULE LifecycleProofs --------------------------
(***************************************************************************)
(* Proofs about Lifecycle, for any AuthRealms, clusters and Placements:    *)
(* what is left when AuthRealms are deleted (nothing that was created for  *)
(* them, no DexClient without the Dex operator that finalizes it, and no   *)
(* Dex operator without an AuthRealm), and that an AuthRealm that is       *)
(* reported as Applied has the Dex operator, but for one that was created  *)
(* when deleteDexOperator had listed the AuthRealms (late).                *)
(***************************************************************************)
EXTENDS Lifecycle, SequenceTheorems, TLAPS

(* An arrangement of the types that says more of the workers than TypeOK.  *)
RealmType == [phase : Phase, fin : BOOLEAN, applied : BOOLEAN]
StrategyType == [phase : Phase, fin : BOOLEAN, placed : BOOLEAN]

(* A Placement that exists has owners, one that does not has nothing.      *)
PlacementType ==
  {x \in [phase : Phase, fin : BOOLEAN, owners : Seq(Realms)] :
     IF x.phase = "none" THEN x = NoPlacement ELSE x.owners # <<>>}

ArTypes ==
  /\ ar \in [pc : {"idle", "operator", "server", "strategy", "emptied", "needed", "unneeded"},
             r : Realms \cup {Nobody}]
  /\ IF ar.pc = "idle" THEN ar = IdleAr ELSE ar.r \in Realms

StTypes ==
  /\ st \in [pc : {"idle", "read", "place", "own"}, r : Realms \cup {Nobody}, pl : PlacementType]
  /\ IF st.pc = "idle" THEN st = IdleSt ELSE st.r \in Realms

PwTypes ==
  /\ pw \in [pc : {"idle", "next", "obsolete", "create", "client", "oauth"},
             p : Placements \cup {Nobody}, owners : SUBSET Realms, todo : SUBSET Realms,
             r : Realms \cup {Nobody}, live : BOOLEAN, clusters : SUBSET Clusters,
             c : SUBSET Clusters]
  /\ IF pw.pc = "idle" THEN pw = IdlePw ELSE pw.p \in Placements
  /\ pw.pc \notin {"idle", "next"} => pw.r \in Realms

Types ==
  /\ scenario \in Scenarios
  /\ realm \in [Realms -> RealmType]
  /\ operator \in [OperatorParts -> Phase]
  /\ ns \in [Realms -> Phase]
  /\ server \in [Realms -> Phase]
  /\ strategy \in [Realms -> StrategyType]
  /\ userPl \subseteq Placements
  /\ pl \in [Placements -> PlacementType]
  /\ decisions \in [Placements -> SUBSET Clusters]
  /\ secrets \subseteq Realms \X Clusters
  /\ client \in [Realms \X Clusters -> Phase]
  /\ oauth \in [Realms \X Clusters -> Phase]
  /\ late \subseteq Realms
  /\ ArTypes /\ StTypes /\ PwTypes

-----------------------------------------------------------------------------
(* The parts of the invariant that hold under all disturbances.            *)

RealmShape ==
  \A r \in Realms :
    /\ realm[r].phase = "none" => ~realm[r].fin /\ ~realm[r].applied
    /\ realm[r].phase = "terminating" \/ realm[r].applied => realm[r].fin

ArShape ==
  /\ ar.pc \in {"operator", "server", "strategy"} => realm[ar.r].phase # "none" /\ realm[ar.r].fin
  /\ ar.pc \in {"emptied", "needed", "unneeded"} => realm[ar.r].phase = "terminating"
  /\ ar.pc \in {"needed", "unneeded"} =>
       server[ar.r] = "none" /\ ns[ar.r] = "none" /\ strategy[ar.r].phase = "none"

(* What there is of Dex has its AuthRealm, and is in its namespace.        *)
DexShape ==
  \A r \in Realms :
    /\ ns[r] # "none" \/ strategy[r].phase # "none" => realm[r].phase # "none" /\ realm[r].fin
    /\ ns[r] = "terminating" \/ strategy[r].phase = "terminating" =>
         realm[r].phase = "terminating"
    /\ server[r] # "none" => ns[r] # "none"
    /\ \A c \in Clusters : client[<<r, c>>] # "none" => ns[r] # "none"
    /\ realm[r].phase = "live" /\ realm[r].applied => strategy[r].phase = "live"

(* The Placement that is reconciled stays, and so does its finalizer.      *)
PwShape ==
  /\ pw.pc # "idle" => pl[pw.p].phase # "none" /\ pl[pw.p].fin
  /\ \A r \in pw.todo : Ref(r) = pw.p
  /\ pw.pc \in {"obsolete", "create", "client", "oauth"} => Ref(pw.r) = pw.p

(* The operator goes after the AuthRealms, unless they go in haste: the    *)
(* AuthRealm that was listed is there as long as the list is used.         *)
OperatorOwned ==
  \/ May("hasty")
  \/ /\ operator = NoOperator \/ \E r \in Realms : realm[r].phase # "none"
     /\ ar.pc = "needed" => \E r \in Realms \ {ar.r} : realm[r].phase # "none"

(* The operator is there before the namespace of a DexServer, and goes     *)
(* after it, unless the AuthRealm came when the operator was doomed, or    *)
(* goes together with others.                                              *)
OneByOne ==
  Without({"together"}) =>
    \A r, s \in Realms :
      realm[r].phase = "terminating" /\ realm[s].phase = "terminating" => r = s

OperatorFirst ==
  \A r \in Realms \ late :
    /\ ns[r] # "none"
    /\ realm[r].phase = "live" \/ Without({"together"})
    => operator["namespace"] = "live"

(* ClusterOAuths come from a Placement with a finalizer, for AuthRealms    *)
(* that live.                                                              *)
FirstFinalized ==
  Without({"reselect"}) =>
    \A r \in Realms, c \in Clusters :
      c \in decisions[Ref(r)] /\ ~pl[Ref(r)].fin => oauth[<<r, c>>] = "none"

CreatesForLive ==
  Without({"hasty", "reselect"}) =>
    (pw.pc \in {"create", "client", "oauth"} \/ (pw.pc = "obsolete" /\ pw.live)
       => realm[pw.r].phase = "live")

(* The ClusterOAuths of an AuthRealm in deletion are still within the      *)
(* reach of the Placement, and still have what keeps the AuthRealm waiting.*)
Reachable(r, c) ==
  /\ pl[Ref(r)].fin
  /\ r \in Owners(pl[Ref(r)])
  /\ c \in decisions[Ref(r)]
  /\ client[<<r, c>>] = "live"
  /\ ns[r] = "live"
  /\ strategy[r].phase = "live"
  /\ pw.p = Ref(r) => r \in pw.owners

StillReachable ==
  Without({"hasty", "reselect"}) =>
    \A r \in Realms, c \in Clusters :
      oauth[<<r, c>>] # "none" =>
        /\ realm[r].phase # "none"
        /\ realm[r].phase = "terminating" => Reachable(r, c) /\ ~(ar.pc = "emptied" /\ ar.r = r)

CleanupInv ==
  /\ Types /\ RealmShape /\ ArShape /\ DexShape /\ PwShape
  /\ OperatorInv /\ OperatorOwned /\ OneByOne /\ OperatorFirst
  /\ FirstFinalized /\ CreatesForLive /\ StillReachable

-----------------------------------------------------------------------------
(* The steps of each controller, and what each leaves alone.               *)

ArStep == ArContinues \/ ArDeletes \/ \E r \in Realms : ArWorks(r)
StStep == StContinues \/ \E r \in Realms : StWorks(r)
PwStep == PwContinues \/ \E p \in Placements : PwWorks(p)

LEMMA NextCases ==
  ASSUME [Next]_vars
  PROVE  \/ ArStep \/ StStep \/ PwStep \/ User \/ Cleaners \/ UNCHANGED vars
BY DEF Next, Controllers, ArStep, StStep, PwStep

LEMMA ArLeaves ==
  ASSUME ArStep
  PROVE  UNCHANGED <<scenario, plVars, configVars, st, pw>>
BY DEF ArStep, ArContinues, ArDeletes, ArWorks, Prepare, InstallDexOperator, CreateDexServer,
       CreateStrategy, FindNoClient, DeleteDexServer, DeleteDexNamespace, DeleteStrategy,
       ListAuthRealms, DeleteDexOperator, Finish, plVars, configVars

LEMMA StLeaves ==
  ASSUME StStep
  PROVE  UNCHANGED <<scenario, realm, dexVars, userPl, configVars, ar, pw>>
BY DEF StStep, StContinues, StWorks, TakeStrategy, SkipStrategy, DeleteStrategyPlacement,
       GetStrategyPlacement, PlaceStrategy, OwnPlacement, DeletePlacement, FinishStrategy,
       plVars, configVars, dexVars

LEMMA PwLeaves ==
  ASSUME PwStep
  PROVE  UNCHANGED <<scenario, realm, dexVars, strategy, userPl, ar, st>>
BY DEF PwStep, PwContinues, PwWorks, TakePlacement, NextStrategy, DeleteObsoleteOAuth,
       DeleteObsoleteClient, NothingObsolete, CreateClientSecret, CreateDexClient,
       CreateClusterOAuth, ConfigsCreated, DeleteSelectedOAuth, FinishPlacement,
       plVars, configVars, dexVars

LEMMA UserLeaves ==
  ASSUME User
  PROVE  UNCHANGED <<scenario, operator, ns, server, strategy, pl, configVars, ar, st, pw>>
BY DEF User, CreateRealm, DeleteRealm, Unplace, Replace, Select, Deselect, plVars, configVars,
       dexVars

LEMMA CleanersLeave ==
  ASSUME Cleaners
  PROVE  UNCHANGED <<scenario, realm, strategy, userPl, secrets, ar, st, pw, late>>
BY DEF Cleaners, OAuthGone, ClientGone, ServerGone, SweepNamespace, OperatorGone, Collect,
       plVars, configVars, dexVars

-----------------------------------------------------------------------------
(* Types.                                                                  *)

LEMMA InitTypes == Init => Types
BY ConstantsAssumption
   DEF Init, Types, RealmType, StrategyType, PlacementType, ArTypes, StTypes, PwTypes,
       NoRealm, NoOperator, NoStrategy, NoPlacement, IdleAr, IdleSt, IdlePw, Phase, OperatorParts

(* The condition at the end of a Reconcile.                                *)
LEMMA ArEndsTypes ==
  ASSUME Types, ar.pc # "idle", NEW a \in BOOLEAN, ArEnds(a)
  PROVE  /\ realm' \in [Realms -> RealmType]
         /\ ar' = IdleAr
         /\ ar.r \in Realms
         /\ \A r \in Realms : /\ realm'[r].phase = realm[r].phase
                              /\ realm'[r].fin = realm[r].fin
                              /\ realm'[r].applied = IF r = ar.r THEN a ELSE realm[r].applied
<1>1. ar.r \in Realms
  BY DEF Types, ArTypes
<1>2. realm' = [realm EXCEPT ![ar.r] = [realm[ar.r] EXCEPT !.applied = a]]
  BY DEF ArEnds
<1>3. [realm[ar.r] EXCEPT !.applied = a] \in RealmType
  <2>1. realm[ar.r] \in RealmType
    BY <1>1 DEF Types
  <2> QED
    BY <2>1 DEF RealmType
<1>4. realm' \in [Realms -> RealmType]
  BY <1>2, <1>3 DEF Types
<1>5. \A r \in Realms : realm'[r] = IF r = ar.r THEN [realm[r] EXCEPT !.applied = a] ELSE realm[r]
  BY <1>2 DEF Types
<1>6. ASSUME NEW r \in Realms
      PROVE  /\ realm'[r].phase = realm[r].phase
             /\ realm'[r].fin = realm[r].fin
             /\ realm'[r].applied = IF r = ar.r THEN a ELSE realm[r].applied
  BY <1>5 DEF Types, RealmType
<1> QED
  BY <1>1, <1>4, <1>6 DEF ArEnds

LEMMA IdleArTypes == ASSUME ar' = IdleAr PROVE ArTypes'
BY DEF ArTypes, IdleAr

LEMMA ArGoesTypes ==
  ASSUME Types, ar.pc # "idle",
         NEW pc \in {"operator", "server", "strategy", "emptied", "needed", "unneeded"},
         ArGoes(pc)
  PROVE  /\ ArTypes' /\ ar'.pc = pc /\ ar'.r = ar.r
BY DEF Types, ArTypes, ArGoes

(* The steps of the AuthRealm controller.                                  *)
ArVarsTyped ==
  /\ realm \in [Realms -> RealmType]
  /\ operator \in [OperatorParts -> Phase]
  /\ ns \in [Realms -> Phase]
  /\ server \in [Realms -> Phase]
  /\ strategy \in [Realms -> StrategyType]
  /\ late \subseteq Realms
  /\ ArTypes

LEMMA ArStepTypes == ASSUME Types, ArStep PROVE ArVarsTyped'
<1> USE DEF ArVarsTyped
<1>1. ASSUME NEW r \in Realms, Prepare(r) PROVE ArVarsTyped'
  BY <1>1 DEF Prepare, dexVars, Types, ArTypes, RealmType
<1>2. CASE InstallDexOperator
  <2>1. operator' \in [OperatorParts -> Phase]
    BY <1>2 DEF InstallDexOperator, Types, AppliedInVain, Phase
  <2>2. realm' \in [Realms -> RealmType] /\ ArTypes'
    BY <1>2, ArEndsTypes, ArGoesTypes, IdleArTypes DEF InstallDexOperator, Types
  <2> QED
    BY <1>2, <2>1, <2>2 DEF InstallDexOperator, Types
<1>3. CASE CreateDexServer
  <2>1. realm' \in [Realms -> RealmType] /\ ArTypes'
    BY <1>3, ArEndsTypes, ArGoesTypes, IdleArTypes DEF CreateDexServer, Types
  <2>2. \/ UNCHANGED <<ns, server>>
        \/ /\ ns' = [ns EXCEPT ![ar.r] = IF @ = "none" THEN "live" ELSE @]
           /\ server' = [server EXCEPT ![ar.r] = IF @ = "none" THEN "live" ELSE @]
    BY <1>3 DEF CreateDexServer
  <2>3. ns' \in [Realms -> Phase] /\ server' \in [Realms -> Phase]
    BY <2>2 DEF Types, Phase
  <2> QED
    BY <1>3, <2>1, <2>3 DEF CreateDexServer, Types
<1>4. CASE CreateStrategy
  <2>1. realm' \in [Realms -> RealmType] /\ ArTypes' /\ ar.r \in Realms
    BY <1>4, ArEndsTypes, IdleArTypes DEF CreateStrategy, Types
  <2>2. strategy[ar.r] \in StrategyType
    BY <2>1 DEF Types
  <2>3. ASSUME NEW s \in StrategyType
        PROVE  [s EXCEPT !.phase = IF @ = "none" THEN "live" ELSE @] \in StrategyType
    BY DEF StrategyType, Phase
  <2>4. strategy' \in [Realms -> StrategyType]
    BY <1>4, <2>1, <2>2, <2>3 DEF CreateStrategy, Types
  <2> QED
    BY <1>4, <2>1, <2>4 DEF CreateStrategy, Types, dexVars
<1>5. ASSUME NEW r \in Realms, FindNoClient(r) PROVE ArVarsTyped'
  BY <1>5 DEF FindNoClient, Types, ArTypes, dexVars
<1>6. CASE DeleteDexServer
  BY <1>6, IdleArTypes DEF DeleteDexServer, Types, Phase
<1>7. CASE DeleteDexNamespace
  BY <1>7, IdleArTypes DEF DeleteDexNamespace, Types, Phase
<1>8. CASE DeleteStrategy
  <2>1. DeletedStrategy(ar.r) \in StrategyType
    BY <1>8 DEF DeleteStrategy, Types, ArTypes, DeletedStrategy, StrategyType, NoStrategy, Phase
  <2> QED
    BY <1>8, <2>1, IdleArTypes DEF DeleteStrategy, Types, dexVars
<1>9. CASE DeleteDexOperator
  BY <1>9, IdleArTypes DEF DeleteDexOperator, Types, Phase
<1>10. CASE Finish
  BY <1>10, IdleArTypes DEF Finish, Types, NoRealm, RealmType, Phase, dexVars
<1>11. CASE ListAuthRealms
  BY <1>11, ArGoesTypes DEF ListAuthRealms, Types, dexVars
<1> QED
  BY <1>1, <1>2, <1>3, <1>4, <1>5, <1>6, <1>7, <1>8, <1>9, <1>10, <1>11
     DEF ArStep, ArContinues, ArDeletes, ArWorks

(* What the controllers make of a Placement.                               *)
LEMMA Deleted ==
  ASSUME Types, NEW p \in Placements
  PROVE  /\ DeletedPlacement(p) \in PlacementType
         /\ DeletedPlacement(p).phase # "live"
         /\ pl[p].fin => /\ DeletedPlacement(p).phase = "terminating"
                         /\ DeletedPlacement(p).fin
                         /\ DeletedPlacement(p).owners = pl[p].owners
         /\ ~pl[p].fin => DeletedPlacement(p) = NoPlacement
BY DEF Types, PlacementType, DeletedPlacement, NoPlacement, Phase

LEMMA NotEmpty ==
  ASSUME NEW S, NEW s \in Seq(S), NEW n \in Nat, n > 1, Len(s) = n - 1
  PROVE  s # <<>>
OBVIOUS

(* A sequence of n elements without its element i, and what it consists of.*)
Cut(s, i, n) == SubSeq(s, 1, i - 1) \o SubSeq(s, i + 1, n)

IsCut(t, S, s, i, n) ==
  /\ t \in Seq(S)
  /\ Len(t) = n - 1
  /\ \A j \in 1 .. n - 1 : t[j] = IF j < i THEN s[j] ELSE s[j + 1]

LEMMA CutSequence ==
  ASSUME NEW S, NEW s \in Seq(S), NEW n \in Nat, n = Len(s), NEW i \in 1 .. n
  PROVE  IsCut(Cut(s, i, n), S, s, i, n)
<1>. DEFINE before == SubSeq(s, 1, i - 1)
            after == SubSeq(s, i + 1, n)
<1>0. i \in Int /\ i - 1 \in Int /\ i + 1 \in Int /\ n \in Int /\ 1 \in Int
  OBVIOUS
<1>1. /\ before \in Seq(S) /\ Len(before) = i - 1
      /\ \A j \in 1 .. i - 1 : before[j] = s[j]
  <2>1. \A j \in 1 .. i - 1 : s[j] \in S
    BY ElementOfSeq
  <2>2. /\ before \in Seq(S) /\ Len(before) = IF 1 <= i - 1 THEN (i - 1) - 1 + 1 ELSE 0
        /\ \A j \in 1 .. (i - 1) - 1 + 1 : before[j] = s[1 + j - 1]
    BY <1>0, <2>1, SubSeqProperties
  <2> HIDE DEF before
  <2> QED
    BY <2>2
<1>2. /\ after \in Seq(S)
      /\ Len(after) = IF i + 1 <= n THEN n - (i + 1) + 1 ELSE 0
      /\ \A j \in 1 .. n - (i + 1) + 1 : after[j] = s[(i + 1) + j - 1]
  <2>1. \A j \in i + 1 .. n : s[j] \in S
    BY ElementOfSeq
  <2> DEFINE first == i + 1
  <2>2. first \in Int /\ \A j \in first .. n : s[j] \in S
    BY <1>0, <2>1
  <2> HIDE DEF first
  <2>3. /\ SubSeq(s, first, n) \in Seq(S)
        /\ Len(SubSeq(s, first, n)) = IF first <= n THEN n - first + 1 ELSE 0
        /\ \A j \in 1 .. n - first + 1 : SubSeq(s, first, n)[j] = s[first + j - 1]
    BY <1>0, <2>2, SubSeqProperties
  <2> QED
    BY <2>3 DEF first
<1>4. Cut(s, i, n) = before \o after
  BY DEF Cut
<1> HIDE DEF before, after
<1>3. Len(after) = n - i
  <2>1. CASE i + 1 <= n
    BY <1>2, <2>1
  <2>2. CASE ~(i + 1 <= n)
    BY <1>2, <2>2
  <2> QED
    BY <2>1, <2>2
<1>5. /\ Cut(s, i, n) \in Seq(S) /\ Len(Cut(s, i, n)) = Len(before) + Len(after)
      /\ \A j \in 1 .. Len(before) + Len(after) :
           Cut(s, i, n)[j] = IF j <= Len(before) THEN before[j] ELSE after[j - Len(before)]
  <2>1. before \in Seq(S) /\ after \in Seq(S)
    BY <1>1, <1>2
  <2>2. /\ before \o after \in Seq(S) /\ Len(before \o after) = Len(before) + Len(after)
        /\ \A j \in 1 .. Len(before) + Len(after) :
             (before \o after)[j] = IF j <= Len(before) THEN before[j] ELSE after[j - Len(before)]
    BY <2>1, ConcatProperties
  <2> QED
    BY <2>2, <1>4
<1>6. ASSUME NEW j \in 1 .. n - 1
      PROVE  Cut(s, i, n)[j] = IF j < i THEN s[j] ELSE s[j + 1]
  <2>1. Cut(s, i, n)[j] = IF j <= i - 1 THEN before[j] ELSE after[j - (i - 1)]
    BY <1>1, <1>3, <1>5
  <2>2. CASE j < i
    BY <1>1, <2>1, <2>2
  <2>3. CASE ~(j < i)
    <3>1. /\ ~(j <= i - 1)
          /\ j - (i - 1) \in 1 .. n - (i + 1) + 1
          /\ (i + 1) + (j - (i - 1)) - 1 = j + 1
      BY <2>3
    <3>2. after[j - (i - 1)] = s[(i + 1) + (j - (i - 1)) - 1]
      BY <1>2, <3>1
    <3> QED
      BY <2>1, <2>3, <3>1, <3>2
  <2> QED
    BY <2>2, <2>3
<1>7. Cut(s, i, n) \in Seq(S)
  BY <1>5
<1>8. Len(Cut(s, i, n)) = n - 1
  <2>1. (i - 1) + (n - i) = n - 1
    OBVIOUS
  <2> QED
    BY <1>1, <1>3, <1>5, <2>1
<1> HIDE DEF Cut
<1> QED
  BY <1>6, <1>7, <1>8, Zenon DEF IsCut

LEMMA OwnerRemoved ==
  ASSUME NEW x \in PlacementType, NEW r
  PROVE  /\ RemoveOwner(x, r) \in PlacementType
         /\ RemoveOwner(x, r).phase = x.phase
         /\ RemoveOwner(x, r).fin = x.fin
         /\ \A s \in Owners(x) : s # r => s \in Owners(RemoveOwner(x, r))
<1>. DEFINE last == Len(x.owners)
            left == [i \in 1 .. last - 1 |-> IF x.owners[i] = r THEN x.owners[last]
                                                                ELSE x.owners[i]]
<1>1. CASE r \notin Owners(x) \/ x.owners[last] = r
  BY <1>1 DEF RemoveOwner
<1>2. CASE ~(r \notin Owners(x) \/ x.owners[last] = r)
  <2>1. x.owners \in Seq(Realms) /\ x \in [phase : Phase, fin : BOOLEAN, owners : Seq(Realms)]
    BY DEF PlacementType
  <2>2. RemoveOwner(x, r) = [x EXCEPT !.owners = left]
    BY <1>2 DEF RemoveOwner
  <2>3. PICK i \in 1 .. last : x.owners[i] = r
    BY <1>2, <2>1 DEF Owners
  <2>4. last \in Nat /\ last > 1
    BY <1>2, <2>1, <2>3
  <2>5. left \in Seq(Realms) /\ Len(left) = last - 1
    BY <2>1, <2>4
  <2>6. left # <<>>
    BY <2>4, <2>5, NotEmpty
  <2>7. x.phase # "none"
    BY <2>1, <2>4 DEF PlacementType, NoPlacement
  <2>8. ASSUME NEW s \in Owners(x), s # r
        PROVE  \E j \in 1 .. last - 1 : left[j] = s
    <3>1. PICK k \in 1 .. last : x.owners[k] = s
      BY <2>1 DEF Owners
    <3>2. CASE k = last
      <4>1. i \in 1 .. last - 1
        BY <1>2, <2>3, <2>4
      <4> QED
        BY <3>1, <3>2, <2>3, <4>1
    <3>3. CASE k # last
      <4>1. k \in 1 .. last - 1
        BY <3>3, <2>4
      <4> QED
        BY <3>1, <2>8, <4>1
    <3> QED
      BY <3>2, <3>3
  <2>9. Owners([x EXCEPT !.owners = left]) = {left[j] : j \in 1 .. last - 1}
    BY <2>1, <2>5 DEF Owners
  <2>10. [x EXCEPT !.owners = left] \in PlacementType
    BY <2>1, <2>5, <2>6, <2>7 DEF PlacementType
  <2> DEFINE y == [x EXCEPT !.owners = left]
  <2>11. y.phase = x.phase /\ y.fin = x.fin
    BY <2>1
  <2>12. \A s \in Owners(x) : s # r => s \in Owners(y)
    BY <2>8, <2>9
  <2> HIDE DEF left, y
  <2> QED
    BY <2>2, <2>10, <2>11, <2>12 DEF y
<1> QED
  BY <1>1, <1>2

WithOwner(x, r) == [x EXCEPT !.phase = IF @ = "none" THEN "live" ELSE @,
                             !.owners = IF r \in Owners(x) THEN @ ELSE Append(@, r)]

LEMMA OwnerAdded ==
  ASSUME NEW x \in PlacementType, NEW r \in Realms
  PROVE  /\ WithOwner(x, r) \in PlacementType
         /\ WithOwner(x, r).fin = x.fin
         /\ Owners(x) \subseteq Owners(WithOwner(x, r))
<1>. DEFINE y == WithOwner(x, r)
<1>0. y = [x EXCEPT !.phase = IF @ = "none" THEN "live" ELSE @,
                    !.owners = IF r \in Owners(x) THEN @ ELSE Append(@, r)]
  BY DEF WithOwner
<1> HIDE DEF y
<1>1. x.owners \in Seq(Realms) /\ x \in [phase : Phase, fin : BOOLEAN, owners : Seq(Realms)]
  BY DEF PlacementType
<1>2. y.owners \in Seq(Realms) /\ y.owners # <<>> /\ DOMAIN x.owners \subseteq DOMAIN y.owners
      /\ \A i \in DOMAIN x.owners : y.owners[i] = x.owners[i]
  <2>1. CASE r \in Owners(x)
    <3>1. y.owners = x.owners
      BY <1>0, <1>1, <2>1
    <3> QED
      BY <1>1, <2>1, <3>1 DEF Owners
  <2>2. CASE r \notin Owners(x)
    <3>1. y.owners = Append(x.owners, r)
      BY <1>0, <1>1, <2>2
    <3> QED
      BY <1>1, <3>1
  <2> QED
    BY <2>1, <2>2
<1>3. y.phase = (IF x.phase = "none" THEN "live" ELSE x.phase) /\ y.fin = x.fin
  BY <1>0, <1>1
<1>4. y \in [phase : Phase, fin : BOOLEAN, owners : Seq(Realms)]
  <2>1. y = [phase |-> y.phase, fin |-> y.fin, owners |-> y.owners]
    BY <1>0, <1>1
  <2> QED
    BY <1>1, <1>2, <1>3, <2>1 DEF Phase
<1>5. Owners(x) \subseteq Owners(y)
  BY <1>2 DEF Owners
<1>6. y \in PlacementType
  BY <1>2, <1>3, <1>4, <1>1 DEF PlacementType
<1> QED
  BY <1>3, <1>5, <1>6 DEF y

WithoutOwner(x, i) == [x EXCEPT !.owners = Cut(x.owners, i, Len(x.owners))]

LEMMA OwnerCut ==
  ASSUME NEW x \in PlacementType, NEW i \in DOMAIN x.owners, Len(x.owners) # 1
  PROVE  /\ WithoutOwner(x, i) \in PlacementType
         /\ WithoutOwner(x, i).fin = x.fin
         /\ \A s \in Owners(x) : s # x.owners[i] => s \in Owners(WithoutOwner(x, i))
<1>. DEFINE t == Cut(x.owners, i, Len(x.owners))
            y == WithoutOwner(x, i)
<1>0. t = Cut(x.owners, i, Len(x.owners)) /\ y = [x EXCEPT !.owners = t]
  BY DEF WithoutOwner
<1> HIDE DEF t, y
<1>1. x.owners \in Seq(Realms) /\ x \in [phase : Phase, fin : BOOLEAN, owners : Seq(Realms)]
  BY DEF PlacementType
<1>2. PICK n \in Nat : n = Len(x.owners)
  BY <1>1, LenProperties
<1>3. i \in 1 .. n /\ n > 1
  <2>1. DOMAIN x.owners = 1 .. n
    BY <1>1, <1>2, LenProperties
  <2>2. i \in 1 .. n
    BY <2>1
  <2>3. n # 1
    BY <1>2
  <2> QED
    BY <2>2, <2>3
<1>4. /\ t \in Seq(Realms) /\ Len(t) = n - 1
      /\ \A j \in 1 .. n - 1 : t[j] = IF j < i THEN x.owners[j] ELSE x.owners[j + 1]
  <2>1. t = Cut(x.owners, i, n) /\ x.owners \in Seq(Realms) /\ n = Len(x.owners) /\ i \in 1 .. n
    BY <1>0, <1>1, <1>2, <1>3
  <2>2. IsCut(t, Realms, x.owners, i, n)
    BY <2>1, CutSequence
  <2> QED
    BY <2>2 DEF IsCut
<1>5. ASSUME NEW s \in Owners(x), s # x.owners[i]
      PROVE  \E j \in 1 .. n - 1 : t[j] = s
  <2>1. PICK k \in 1 .. n : x.owners[k] = s
    BY <1>1, <1>2, LenProperties DEF Owners
  <2>2. k # i
    BY <1>5, <2>1
  <2>3. CASE k < i
    <3>1. k \in 1 .. n - 1
      BY <1>3, <2>3
    <3> QED
      BY <1>4, <2>1, <2>3, <3>1
  <2>4. CASE k > i
    <3>1. k - 1 \in 1 .. n - 1 /\ ~(k - 1 < i) /\ k - 1 + 1 = k
      BY <1>3, <2>1, <2>4
    <3>2. t[k - 1] = s
      BY <1>4, <2>1, <3>1
    <3> QED
      BY <3>1, <3>2
  <2> QED
    BY <1>3, <2>2, <2>3, <2>4
<1>6. y.owners = t /\ y.phase = x.phase /\ y.fin = x.fin
      /\ y \in [phase : Phase, fin : BOOLEAN, owners : Seq(Realms)]
  BY <1>0, <1>1, <1>4
<1>7. t # <<>>
  BY <1>3, <1>4, NotEmpty
<1>8. x.phase # "none"
  <2>1. ASSUME x.phase = "none"
        PROVE  FALSE
    <3>1. x.owners = <<>>
      BY <2>1 DEF PlacementType, NoPlacement
    <3> QED
      BY <1>2, <1>3, <3>1, EmptySeq
  <2> QED
    BY <2>1
<1>9. y \in PlacementType
  BY <1>6, <1>7, <1>8 DEF PlacementType
<1>10. DOMAIN t = 1 .. n - 1
  BY <1>3, <1>4, LenProperties
<1> QED
  BY <1>5, <1>6, <1>9, <1>10 DEF Owners, y

(* What a step leaves of the Placements: one with a finalizer stays, with  *)
(* its decisions and the owners whose Strategy lives.                      *)
PlacementsKept ==
  /\ pl' \in [Placements -> PlacementType]
  /\ decisions' \in [Placements -> SUBSET Clusters]
  /\ \A p \in Placements :
       /\ decisions'[p] \subseteq decisions[p]
       /\ pl[p].fin =>
            /\ pl'[p].fin
            /\ decisions'[p] = decisions[p]
            /\ \A s \in Owners(pl[p]) : strategy[s].phase = "live" => s \in Owners(pl'[p])

LEMMA PlFin ==
  ASSUME NEW x \in PlacementType, x.fin
  PROVE  x.phase # "none"
BY DEF PlacementType, NoPlacement

(* One Placement is replaced by one that is not less.                      *)
LEMMA OnePlacement ==
  ASSUME Types, NEW p \in Placements, NEW y \in PlacementType,
         pl' = [pl EXCEPT ![p] = y],
         DecisionsFollow \/ UNCHANGED decisions,
         pl[p].fin => /\ y.fin
                      /\ \A s \in Owners(pl[p]) : strategy[s].phase = "live" => s \in Owners(y)
  PROVE  PlacementsKept
<1>1. pl' \in [Placements -> PlacementType]
  BY DEF Types
<1>2. ASSUME NEW q \in Placements
      PROVE  pl'[q] = IF q = p THEN y ELSE pl[q]
  BY DEF Types
<1>3. ASSUME NEW q \in Placements, pl[q].fin
      PROVE  /\ pl'[q].fin /\ pl'[q].phase # "none"
             /\ \A s \in Owners(pl[q]) : strategy[s].phase = "live" => s \in Owners(pl'[q])
  <2>1. pl'[q].fin
    BY <1>2, <1>3
  <2>2. pl'[q].phase # "none"
    BY <1>1, <2>1, PlFin
  <2> QED
    BY <1>2, <1>3, <2>1, <2>2
<1>4. ASSUME NEW q \in Placements
      PROVE  /\ decisions'[q] \subseteq decisions[q]
             /\ pl[q].fin => decisions'[q] = decisions[q]
  BY <1>3 DEF DecisionsFollow
<1>5. decisions' \in [Placements -> SUBSET Clusters]
  BY DEF DecisionsFollow, Types
<1> QED
  BY <1>1, <1>3, <1>4, <1>5 DEF PlacementsKept

LEMMA SamePlacements ==
  ASSUME Types, UNCHANGED <<pl, decisions>>
  PROVE  PlacementsKept
BY DEF PlacementsKept, Types

LEMMA PlacementDeleted ==
  ASSUME Types, NEW p \in Placements, pl' = [pl EXCEPT ![p] = DeletedPlacement(p)],
         DecisionsFollow
  PROVE  PlacementsKept
<1>1. DeletedPlacement(p) \in PlacementType
  BY Deleted
<1>2. pl[p].fin => DeletedPlacement(p).fin /\ Owners(pl[p]) = Owners(DeletedPlacement(p))
  BY Deleted DEF Owners
<1> QED
  BY <1>1, <1>2, OnePlacement

(* The steps of the Strategy controller.                                   *)
StEffect ==
  /\ strategy' \in [Realms -> StrategyType]
  /\ StTypes'
  /\ PlacementsKept
  /\ \A r \in Realms : /\ strategy[r].phase = "live" => strategy'[r].phase = "live"
                       /\ strategy[r].phase = "none" => strategy'[r].phase = "none"
                       /\ strategy'[r].phase = "terminating" => strategy[r].phase = "terminating"

LEMMA RefType == ASSUME NEW r \in Realms PROVE Ref(r) \in Placements
BY ConstantsAssumption DEF Ref

LEMMA NoPlacementType == NoPlacement \in PlacementType
BY DEF NoPlacement, PlacementType, Phase

LEMMA IdleStTypes == ASSUME st' = IdleSt PROVE StTypes'
BY NoPlacementType DEF StTypes, IdleSt

LEMMA StStepEffect == ASSUME Types, StStep PROVE StEffect
<1>0. ASSUME UNCHANGED strategy
      PROVE  /\ strategy' \in [Realms -> StrategyType]
             /\ \A r \in Realms : /\ strategy[r].phase = "live" => strategy'[r].phase = "live"
                                  /\ strategy[r].phase = "none" => strategy'[r].phase = "none"
                                  /\ strategy'[r].phase = "terminating" =>
                                       strategy[r].phase = "terminating"
  BY <1>0 DEF Types
<1>1. ASSUME NEW r \in Realms, TakeStrategy(r) PROVE StEffect
  <2>1. PlacementsKept
    BY <1>1, SamePlacements DEF TakeStrategy, plVars
  <2>2. StTypes'
    BY <1>1 DEF TakeStrategy, StTypes, NoPlacement, PlacementType, Phase
  <2> QED
    BY <1>1, <2>1, <2>2 DEF TakeStrategy, StEffect, Types, StrategyType
<1>2. CASE SkipStrategy
  <2>1. PlacementsKept /\ StTypes'
    BY <1>2, SamePlacements, IdleStTypes DEF SkipStrategy, plVars
  <2> QED
    BY <1>0, <1>2, <2>1 DEF SkipStrategy, StEffect
<1>3. CASE DeleteStrategyPlacement
  <2>1. st.r \in Realms
    BY <1>3 DEF DeleteStrategyPlacement, Types, StTypes
  <2>2. PlacementsKept /\ StTypes'
    BY <1>3, <2>1, RefType, PlacementDeleted, IdleStTypes DEF DeleteStrategyPlacement
  <2> QED
    BY <1>0, <1>3, <2>2 DEF DeleteStrategyPlacement, StEffect
<1>4. CASE GetStrategyPlacement
  <2>1. st.r \in Realms
    BY <1>4 DEF GetStrategyPlacement, Types, StTypes
  <2>2. pl[Ref(st.r)] \in PlacementType
    BY <2>1, RefType DEF Types
  <2>3. StTypes'
    BY <1>4, <2>1, <2>2 DEF GetStrategyPlacement, Types, StTypes
  <2>4. PlacementsKept
    BY <1>4, SamePlacements DEF GetStrategyPlacement, plVars
  <2> QED
    BY <1>0, <1>4, <2>3, <2>4 DEF GetStrategyPlacement, StEffect
<1>5. CASE PlaceStrategy
  <2>1. st.r \in Realms
    BY <1>5 DEF PlaceStrategy, Types, StTypes
  <2>2. PlacementsKept
    BY <1>5, SamePlacements DEF PlaceStrategy, plVars
  <2>3. StTypes'
    BY <1>5, IdleStTypes DEF PlaceStrategy, Types, StTypes
  <2>4. CASE UNCHANGED strategy
    BY <1>0, <2>2, <2>3, <2>4 DEF StEffect
  <2>5. CASE strategy' = [strategy EXCEPT ![st.r].placed = TRUE]
    BY <2>1, <2>2, <2>3, <2>5 DEF StEffect, Types, StrategyType
  <2> QED
    BY <1>5, <2>4, <2>5 DEF PlaceStrategy
<1>6. CASE OwnPlacement
  <2>1. st.r \in Realms /\ Ref(st.r) \in Placements
    BY <1>6, RefType DEF OwnPlacement, Types, StTypes
  <2>2. StTypes'
    BY <1>6, IdleStTypes DEF OwnPlacement
  <2>3. CASE pl[Ref(st.r)] # st.pl
    <3>1. PlacementsKept
      BY <1>6, <2>3, SamePlacements DEF OwnPlacement
    <3> QED
      BY <1>0, <1>6, <2>2, <3>1 DEF OwnPlacement, StEffect
  <2>4. CASE pl[Ref(st.r)] = st.pl
    <3>. DEFINE x == pl[Ref(st.r)]
                y == WithOwner(x, st.r)
    <3>1. pl' = [pl EXCEPT ![Ref(st.r)] = y]
      BY <1>6, <2>1, <2>4 DEF OwnPlacement, Types, PlacementType, WithOwner
    <3>2. x \in PlacementType
      BY <2>1 DEF Types
    <3>3. y \in PlacementType /\ y.fin = x.fin /\ Owners(x) \subseteq Owners(y)
      BY <2>1, <3>2, OwnerAdded
    <3>4. UNCHANGED decisions
      BY <1>6 DEF OwnPlacement
    <3> HIDE DEF y
    <3>5. PlacementsKept
      BY <2>1, <3>1, <3>3, <3>4, OnePlacement
    <3> QED
      BY <1>0, <1>6, <2>2, <3>5 DEF OwnPlacement, StEffect
  <2> QED
    BY <2>3, <2>4
<1>7. ASSUME NEW r \in Realms, DeletePlacement(r) PROVE StEffect
  <2>1. PlacementsKept
    BY <1>7, RefType, PlacementDeleted DEF DeletePlacement
  <2>2. StTypes'
    BY <1>7 DEF DeletePlacement, Types, StTypes
  <2> QED
    BY <1>0, <1>7, <2>1, <2>2 DEF DeletePlacement, StEffect
<1>8. ASSUME NEW r \in Realms, FinishStrategy(r) PROVE StEffect
  <2>. DEFINE p == Ref(r)
              y == RemoveOwner(pl[p], r)
  <2>1. p \in Placements /\ pl[p] \in PlacementType
    BY RefType DEF Types
  <2>2. pl' = [pl EXCEPT ![p] = y] /\ UNCHANGED decisions
    BY <1>8, <2>1 DEF FinishStrategy
  <2>3. /\ y \in PlacementType /\ y.fin = pl[p].fin
        /\ \A s \in Owners(pl[p]) : s # r => s \in Owners(y)
    BY <2>1, OwnerRemoved
  <2>4. strategy[r].phase = "terminating"
    BY <1>8 DEF FinishStrategy
  <2> HIDE DEF y, p
  <2>5. PlacementsKept
    BY <2>1, <2>2, <2>3, <2>4, OnePlacement
  <2>6. StTypes'
    BY <1>8 DEF FinishStrategy, Types, StTypes
  <2> QED
    BY <1>8, <2>4, <2>5, <2>6 DEF FinishStrategy, StEffect, Types, NoStrategy, StrategyType, Phase
<1> QED
  BY <1>1, <1>2, <1>3, <1>4, <1>5, <1>6, <1>7, <1>8 DEF StStep, StContinues, StWorks

(* The steps of the Placement controller.                                  *)
PwVarsTyped ==
  /\ pl \in [Placements -> PlacementType]
  /\ decisions \in [Placements -> SUBSET Clusters]
  /\ secrets \subseteq Realms \X Clusters
  /\ client \in [Realms \X Clusters -> Phase]
  /\ oauth \in [Realms \X Clusters -> Phase]
  /\ PwTypes

LEMMA IdlePwTypes == ASSUME pw' = IdlePw PROVE PwTypes'
BY DEF PwTypes, IdlePw

LEMMA DeletedOAuths ==
  ASSUME Types, NEW c \in Clusters, NEW owners \in SUBSET Realms,
         DeleteClusterOAuthConfig(c, owners)
  PROVE  /\ secrets' \subseteq secrets
         /\ oauth' \in [Realms \X Clusters -> Phase]
         /\ \A rc \in Realms \X Clusters : oauth'[rc] # "none" <=> oauth[rc] # "none"
<1>1. \A rc \in Realms \X Clusters :
        oauth'[rc] = IF rc \in Matched(c, owners) \X {c} THEN "terminating" ELSE oauth[rc]
  BY DEF DeleteClusterOAuthConfig
<1>2. \A rc \in Matched(c, owners) \X {c} : oauth[rc] # "none"
  BY DEF Matched
<1> QED
  BY <1>1, <1>2 DEF DeleteClusterOAuthConfig, Types, Phase

LEMMA OwnersType == ASSUME NEW x \in PlacementType PROVE Owners(x) \in SUBSET Realms
BY ElementOfSeq, LenProperties DEF Owners, PlacementType

LEMMA TakePlacementTypes ==
  ASSUME Types, NEW p \in Placements, TakePlacement(p)
  PROVE  /\ PwVarsTyped' /\ PlacementsKept
         /\ \A q \in Placements : /\ pl'[q].fin = (pl[q].fin \/ q = p)
                                  /\ Owners(pl'[q]) = Owners(pl[q])
<1>. DEFINE y == [pl[p] EXCEPT !.fin = TRUE]
<1>1. pl[p] \in PlacementType
  BY DEF Types
<1>2. /\ y \in PlacementType /\ y.fin /\ Owners(y) = Owners(pl[p])
  BY <1>1 DEF TakePlacement, PlacementType, Owners
<1>3. pl' = [pl EXCEPT ![p] = y] /\ UNCHANGED decisions
  BY DEF TakePlacement
<1> HIDE DEF y
<1>4. PlacementsKept
  BY <1>2, <1>3, OnePlacement
<1>5. PwTypes'
  <2>1. Owners(pl[p]) \in SUBSET Realms
    BY <1>1, OwnersType
  <2>2. StrategiesOf(p) \in SUBSET Realms
    BY DEF StrategiesOf
  <2> QED
    BY <2>1, <2>2 DEF TakePlacement, PwTypes, IdlePw
<1>6. ASSUME NEW q \in Placements
      PROVE  /\ pl'[q].fin = (pl[q].fin \/ q = p) /\ Owners(pl'[q]) = Owners(pl[q])
  BY <1>2, <1>3 DEF Types, PlacementType
<1> QED
  BY <1>4, <1>5, <1>6 DEF PwVarsTyped, PlacementsKept, TakePlacement, Types, configVars

LEMMA PwStepTypes == ASSUME Types, PwStep PROVE PwVarsTyped'
<1> USE DEF PwVarsTyped
<1>1. ASSUME NEW p \in Placements, TakePlacement(p) PROVE PwVarsTyped'
  BY <1>1, TakePlacementTypes
<1>2. CASE NextStrategy
  <2>1. PwTypes'
    <3>1. ASSUME NEW r \in pw.todo,
                 pw' = [pw EXCEPT !.pc = "obsolete", !.r = r, !.todo = @ \ {r},
                                  !.live = realm[r].phase = "live"]
          PROVE  PwTypes'
      <4>1. r \in Realms
        BY DEF Types, PwTypes
      <4> QED
        BY <1>2, <3>1, <4>1 DEF NextStrategy, Types, PwTypes
    <3> QED
      BY <1>2, <3>1, IdlePwTypes DEF NextStrategy
  <2> QED
    BY <1>2, <2>1 DEF NextStrategy, Types, plVars, configVars
<1>3. CASE DeleteObsoleteOAuth
  <2>1. PICK c \in Obsolete : DeleteClusterOAuthConfig(c, pw.owners)
    BY <1>3 DEF DeleteObsoleteOAuth
  <2>2. c \in Clusters /\ pw.owners \in SUBSET Realms
    BY <2>1 DEF Obsolete, Types, PwTypes
  <2>3. secrets' \subseteq secrets /\ oauth' \in [Realms \X Clusters -> Phase]
    BY <2>1, <2>2, DeletedOAuths
  <2> QED
    BY <1>3, <2>3, IdlePwTypes DEF DeleteObsoleteOAuth, Types, plVars
<1>4. CASE DeleteObsoleteClient
  BY <1>4, IdlePwTypes DEF DeleteObsoleteClient, Types, Phase, plVars
<1>5. CASE NothingObsolete
  <2>1. decisions[pw.p] \in SUBSET Clusters
    BY <1>5 DEF NothingObsolete, Types, PwTypes
  <2>2. PwTypes'
    BY <1>5, <2>1 DEF NothingObsolete, Types, PwTypes
  <2> QED
    BY <1>5, <2>2 DEF NothingObsolete, Types, plVars, configVars
<1>6. CASE CreateClientSecret
  <2>1. PICK c \in pw.clusters :
          /\ secrets' = secrets \cup {<<pw.r, c>>}
          /\ pw' = [pw EXCEPT !.pc = "client", !.c = {c}, !.clusters = @ \ {c}]
    BY <1>6 DEF CreateClientSecret
  <2>2. c \in Clusters /\ pw.r \in Realms
    BY <1>6 DEF CreateClientSecret, Types, PwTypes
  <2>3. PwTypes'
    BY <1>6, <2>1, <2>2 DEF CreateClientSecret, Types, PwTypes
  <2> QED
    BY <1>6, <2>1, <2>2, <2>3 DEF CreateClientSecret, Types, plVars
<1>7. CASE CreateDexClient
  <2>1. PwTypes'
    BY <1>7, IdlePwTypes DEF CreateDexClient, Types, PwTypes
  <2>2. client' \in [Realms \X Clusters -> Phase]
    <3>1. PICK c \in pw.c :
            \/ UNCHANGED client
            \/ client' = [client EXCEPT ![<<pw.r, c>>] = IF @ = "none" THEN "live" ELSE @]
      BY <1>7 DEF CreateDexClient
    <3> QED
      BY <3>1 DEF Types, Phase
  <2> QED
    BY <1>7, <2>1, <2>2 DEF CreateDexClient, Types, plVars
<1>8. CASE CreateClusterOAuth
  <2>1. PwTypes'
    BY <1>8 DEF CreateClusterOAuth, Types, PwTypes
  <2>2. oauth' \in [Realms \X Clusters -> Phase]
    BY <1>8 DEF CreateClusterOAuth, Types, Phase
  <2> QED
    BY <1>8, <2>1, <2>2 DEF CreateClusterOAuth, Types, plVars
<1>9. CASE ConfigsCreated
  BY <1>9 DEF ConfigsCreated, Types, PwTypes, plVars, configVars
<1>10. ASSUME NEW p \in Placements, DeleteSelectedOAuth(p) PROVE PwVarsTyped'
  <2>1. PICK c \in decisions[p] : DeleteClusterOAuthConfig(c, Owners(pl[p]))
    BY <1>10 DEF DeleteSelectedOAuth
  <2>2. c \in Clusters /\ Owners(pl[p]) \in SUBSET Realms
    BY <2>1, OwnersType DEF Types
  <2>3. secrets' \subseteq secrets /\ oauth' \in [Realms \X Clusters -> Phase]
    BY <2>1, <2>2, DeletedOAuths
  <2> QED
    BY <1>10, <2>3 DEF DeleteSelectedOAuth, Types, PwTypes, plVars
<1>11. ASSUME NEW p \in Placements, FinishPlacement(p) PROVE PwVarsTyped'
  BY <1>11, NoPlacementType DEF FinishPlacement, DecisionsFollow, Types, PwTypes, configVars
<1> QED
  BY <1>1, <1>2, <1>3, <1>4, <1>5, <1>6, <1>7, <1>8, <1>9, <1>10, <1>11
     DEF PwStep, PwContinues, PwWorks

(* The user, and what finishes deletions.                                  *)
UserVarsTyped ==
  /\ realm \in [Realms -> RealmType]
  /\ userPl \subseteq Placements
  /\ decisions \in [Placements -> SUBSET Clusters]
  /\ late \subseteq Realms

LEMMA UserTypes == ASSUME Types, User PROVE UserVarsTyped'
<1>1. ASSUME NEW r \in Realms, CreateRealm(r) PROVE UserVarsTyped'
  BY <1>1 DEF CreateRealm, Types, UserVarsTyped, RealmType, Phase, plVars
<1>2. ASSUME NEW r \in Realms, DeleteRealm(r) PROVE UserVarsTyped'
  BY <1>2 DEF DeleteRealm, Types, UserVarsTyped, RealmType, NoRealm, Phase, plVars,
                  dexVars
<1>3. ASSUME NEW p \in Placements, Unplace(p) \/ Replace(p) PROVE UserVarsTyped'
  BY <1>3 DEF Unplace, Replace, Types, UserVarsTyped, dexVars
<1>4. ASSUME NEW p \in Placements, NEW c \in Clusters, Select(p, c) \/ Deselect(p, c)
      PROVE  UserVarsTyped'
  BY <1>4 DEF Select, Deselect, Types, UserVarsTyped, dexVars
<1> QED
  BY <1>1, <1>2, <1>3, <1>4 DEF User

CleanedTyped ==
  /\ operator \in [OperatorParts -> Phase]
  /\ ns \in [Realms -> Phase]
  /\ server \in [Realms -> Phase]
  /\ client \in [Realms \X Clusters -> Phase]
  /\ oauth \in [Realms \X Clusters -> Phase]

LEMMA CollectKeeps ==
  ASSUME Types, NEW p \in Placements, Collect(p)
  PROVE  PlacementsKept
<1>1. pl[p] \in PlacementType
  BY DEF Types
<1>2. PICK i \in DOMAIN pl[p].owners :
        /\ strategy[pl[p].owners[i]].phase = "none"
        /\ pl' = [pl EXCEPT ![p] =
                     IF Len(pl[p].owners) = 1 THEN DeletedPlacement(p)
                     ELSE [@ EXCEPT !.owners = SubSeq(pl[p].owners, 1, i - 1)
                                                 \o SubSeq(pl[p].owners, i + 1, Len(pl[p].owners))]]
  BY DEF Collect
<1>3. DecisionsFollow
  BY DEF Collect
<1>4. CASE Len(pl[p].owners) = 1
  BY <1>2, <1>3, <1>4, PlacementDeleted
<1>5. CASE Len(pl[p].owners) # 1
  <2>. DEFINE y == WithoutOwner(pl[p], i)
  <2>1. pl' = [pl EXCEPT ![p] = y]
    BY <1>2, <1>5 DEF Cut, WithoutOwner
  <2>2. /\ y \in PlacementType /\ y.fin = pl[p].fin
        /\ \A s \in Owners(pl[p]) : s # pl[p].owners[i] => s \in Owners(y)
    BY <1>1, <1>5, OwnerCut
  <2> HIDE DEF y
  <2> QED
    BY <1>2, <1>3, <2>1, <2>2, OnePlacement
<1> QED
  BY <1>4, <1>5

LEMMA CleanersTypes == ASSUME Types, Cleaners PROVE CleanedTyped' /\ PlacementsKept
<1> USE DEF CleanedTyped
<1>1. ASSUME NEW r \in Realms, NEW c \in Clusters, OAuthGone(r, c) \/ ClientGone(r, c)
      PROVE  CleanedTyped' /\ PlacementsKept
  <2>1. CASE OAuthGone(r, c)
    BY <2>1, SamePlacements DEF OAuthGone, Types, Phase, dexVars, plVars
  <2>2. CASE ClientGone(r, c)
    BY <2>2, SamePlacements DEF ClientGone, Types, Phase, dexVars, plVars
  <2> QED
    BY <1>1, <2>1, <2>2
<1>2. ASSUME NEW r \in Realms, ServerGone(r) PROVE CleanedTyped' /\ PlacementsKept
  BY <1>2, SamePlacements DEF ServerGone, Types, Phase, plVars, configVars
<1>3. ASSUME NEW r \in Realms, SweepNamespace(r) PROVE CleanedTyped' /\ PlacementsKept
  BY <1>3, SamePlacements DEF SweepNamespace, Types, Phase, plVars
<1>4. CASE OperatorGone
  BY <1>4, SamePlacements DEF OperatorGone, Types, Phase, plVars, configVars
<1>5. ASSUME NEW p \in Placements, Collect(p) PROVE CleanedTyped' /\ PlacementsKept
  BY <1>5, CollectKeeps DEF Collect, Types, dexVars, configVars
<1> QED
  BY <1>1, <1>2, <1>3, <1>4, <1>5 DEF Cleaners

LEMMA TypesStep == ASSUME Types, [Next]_vars PROVE Types'
<1>1. CASE ArStep
  <2>1. ArVarsTyped'
    BY <1>1, ArStepTypes
  <2>2. UNCHANGED <<scenario, plVars, configVars, st, pw>>
    BY <1>1, ArLeaves
  <2>3. StTypes' /\ PwTypes'
    BY <2>2 DEF Types, StTypes, PwTypes
  <2> QED
    BY <2>1, <2>2, <2>3 DEF Types, ArVarsTyped, plVars, configVars
<1>2. CASE StStep
  <2>1. StEffect
    BY <1>2, StStepEffect
  <2>2. UNCHANGED <<scenario, realm, dexVars, userPl, configVars, ar, pw>>
    BY <1>2, StLeaves
  <2>3. ArTypes' /\ PwTypes'
    BY <2>2 DEF Types, ArTypes, PwTypes
  <2> QED
    BY <2>1, <2>2, <2>3 DEF Types, StEffect, PlacementsKept, dexVars, configVars
<1>3. CASE PwStep
  <2>1. PwVarsTyped'
    BY <1>3, PwStepTypes
  <2>2. UNCHANGED <<scenario, realm, dexVars, strategy, userPl, ar, st>>
    BY <1>3, PwLeaves
  <2>3. ArTypes' /\ StTypes'
    BY <2>2 DEF Types, ArTypes, StTypes
  <2> QED
    BY <2>1, <2>2, <2>3 DEF Types, PwVarsTyped, dexVars
<1>4. CASE User
  <2>1. UserVarsTyped'
    BY <1>4, UserTypes
  <2>2. UNCHANGED <<scenario, operator, ns, server, strategy, pl, configVars, ar, st, pw>>
    BY <1>4, UserLeaves
  <2>3. ArTypes' /\ StTypes' /\ PwTypes'
    BY <2>2 DEF Types, ArTypes, StTypes, PwTypes
  <2> QED
    BY <2>1, <2>2, <2>3 DEF Types, UserVarsTyped, configVars
<1>5. CASE Cleaners
  <2>1. CleanedTyped' /\ PlacementsKept
    BY <1>5, CleanersTypes
  <2>2. UNCHANGED <<scenario, realm, strategy, userPl, secrets, ar, st, pw, late>>
    BY <1>5, CleanersLeave
  <2>3. ArTypes' /\ StTypes' /\ PwTypes'
    BY <2>2 DEF Types, ArTypes, StTypes, PwTypes
  <2> QED
    BY <2>1, <2>2, <2>3 DEF Types, CleanedTyped, PlacementsKept
<1>6. CASE UNCHANGED vars
  <2>1. ArTypes' /\ StTypes' /\ PwTypes'
    BY <1>6 DEF Types, ArTypes, StTypes, PwTypes, vars
  <2> QED
    BY <1>6, <2>1 DEF Types, vars
<1> QED
  BY <1>1, <1>2, <1>3, <1>4, <1>5, <1>6, NextCases

-----------------------------------------------------------------------------
(* The AuthRealms, and the worker that reconciles them.                    *)

(* What a step of the AuthRealm controller does to the AuthRealms.         *)
LEMMA ArRealms ==
  ASSUME Types, RealmShape, ArShape, ArStep
  PROVE  \A r \in Realms :
           \/ /\ realm'[r].phase = realm[r].phase
              /\ realm[r].fin => realm'[r].fin
              /\ realm[r].phase = "none" \/ realm[r].phase = "terminating" =>
                   realm'[r].fin = realm[r].fin
              /\ realm'[r].applied => realm[r].applied \/ (ar.pc = "strategy" /\ r = ar.r)
           \/ Finish /\ r = ar.r /\ realm'[r] = NoRealm
<1>1. ASSUME NEW q \in Realms, Prepare(q), NEW r \in Realms
      PROVE  /\ realm'[r].phase = realm[r].phase
             /\ realm[r].fin => realm'[r].fin
             /\ realm[r].phase = "none" \/ realm[r].phase = "terminating" =>
                  realm'[r].fin = realm[r].fin
             /\ realm'[r].applied => realm[r].applied
  BY <1>1 DEF Prepare, Types, RealmType
<1>2. ASSUME InstallDexOperator \/ CreateDexServer, NEW r \in Realms
      PROVE  /\ realm'[r].phase = realm[r].phase /\ realm'[r].fin = realm[r].fin
             /\ realm'[r].applied => realm[r].applied
  <2>1. CASE UNCHANGED realm
    BY <2>1
  <2>2. CASE ArEnds(FALSE)
    <3>1. ar.pc # "idle"
      BY <1>2 DEF InstallDexOperator, CreateDexServer
    <3> QED
      BY <2>2, <3>1, ArEndsTypes
  <2> QED
    BY <1>2, <2>1, <2>2 DEF InstallDexOperator, CreateDexServer
<1>3. ASSUME CreateStrategy, NEW r \in Realms
      PROVE  /\ realm'[r].phase = realm[r].phase /\ realm'[r].fin = realm[r].fin
             /\ realm'[r].applied => realm[r].applied \/ (ar.pc = "strategy" /\ r = ar.r)
  <2>1. ar.pc = "strategy" /\ ArEnds(TRUE)
    BY <1>3 DEF CreateStrategy
  <2> QED
    BY <2>1, ArEndsTypes
<1>4. CASE Finish
  BY <1>4 DEF Finish, Types, ArTypes
<1>5. ASSUME \/ \E r \in Realms : FindNoClient(r)
             \/ DeleteDexServer \/ DeleteDexNamespace \/ DeleteStrategy
             \/ ListAuthRealms \/ DeleteDexOperator
      PROVE  UNCHANGED realm
  BY <1>5 DEF FindNoClient, DeleteDexServer, DeleteDexNamespace, DeleteStrategy,
              ListAuthRealms, DeleteDexOperator
<1> QED
  BY <1>1, <1>2, <1>3, <1>4, <1>5 DEF ArStep, ArContinues, ArDeletes, ArWorks

LEMMA UserRealms ==
  ASSUME Types, RealmShape, User
  PROVE  \A r \in Realms :
           \/ realm'[r] = realm[r]
           \/ /\ CreateRealm(r)
              /\ realm'[r].phase = "live" /\ ~realm'[r].fin /\ ~realm'[r].applied
           \/ /\ DeleteRealm(r) /\ realm[r].fin
              /\ realm'[r].phase = "terminating" /\ realm'[r].fin
           \/ DeleteRealm(r) /\ ~realm[r].fin /\ realm'[r] = NoRealm
<1>1. ASSUME NEW q \in Realms, CreateRealm(q), NEW r \in Realms
      PROVE  \/ realm'[r] = realm[r]
             \/ /\ r = q
                /\ realm'[r].phase = "live" /\ ~realm'[r].fin /\ ~realm'[r].applied
  BY <1>1 DEF CreateRealm, Types, RealmType, RealmShape
<1>2. ASSUME NEW q \in Realms, DeleteRealm(q), NEW r \in Realms
      PROVE  \/ realm'[r] = realm[r]
             \/ /\ r = q /\ realm[r].fin
                /\ realm'[r].phase = "terminating" /\ realm'[r].fin
             \/ r = q /\ ~realm[r].fin /\ realm'[r] = NoRealm
  BY <1>2 DEF DeleteRealm, Types, RealmType
<1>3. ASSUME NEW p \in Placements,
             Unplace(p) \/ Replace(p) \/ \E c \in Clusters : Select(p, c) \/ Deselect(p, c)
      PROVE  UNCHANGED realm
  BY <1>3 DEF Unplace, Replace, Select, Deselect
<1> QED
  BY <1>1, <1>2, <1>3 DEF User

LEMMA RealmShapeStep ==
  ASSUME Types, RealmShape, ArShape, [Next]_vars
  PROVE  RealmShape'
<1>1. CASE ArStep
  <2>1. ASSUME NEW r \in Realms, ar.pc = "strategy", r = ar.r
        PROVE  realm[r].phase # "none" /\ realm[r].fin
    BY <2>1 DEF ArShape
  <2> QED
    BY <1>1, <2>1, ArRealms DEF RealmShape, NoRealm
<1>2. CASE StStep
  BY <1>2, StLeaves DEF RealmShape
<1>3. CASE PwStep
  BY <1>3, PwLeaves DEF RealmShape
<1>4. CASE User
  BY <1>4, UserRealms DEF RealmShape, NoRealm
<1>5. CASE Cleaners
  BY <1>5, CleanersLeave DEF RealmShape
<1>6. CASE UNCHANGED vars
  BY <1>6 DEF RealmShape, vars
<1> QED
  BY <1>1, <1>2, <1>3, <1>4, <1>5, <1>6, NextCases

(* What a step of the worker leaves it with.                               *)
LEMMA ArWorker ==
  ASSUME Types, ArStep
  PROVE  \/ ar' = IdleAr
         \/ \E r \in Realms : Prepare(r) /\ ar' = [pc |-> "operator", r |-> r]
         \/ ar.pc = "operator" /\ ar' = [ar EXCEPT !.pc = "server"] /\ UNCHANGED realm
         \/ ar.pc = "server" /\ ar' = [ar EXCEPT !.pc = "strategy"] /\ UNCHANGED realm
         \/ \E r \in Realms : FindNoClient(r) /\ ar' = [pc |-> "emptied", r |-> r]
         \/ /\ ListAuthRealms
            /\ ar' = [ar EXCEPT !.pc = "needed"] \/ ar' = [ar EXCEPT !.pc = "unneeded"]
BY DEF ArStep, ArContinues, ArDeletes, ArWorks, Prepare, InstallDexOperator, CreateDexServer,
       CreateStrategy, FindNoClient, DeleteDexServer, DeleteDexNamespace, DeleteStrategy,
       ListAuthRealms, DeleteDexOperator, Finish, ArEnds, ArGoes

(* What finishes deletions creates nothing.                                *)
LEMMA CleanersCreateNothing ==
  ASSUME Types, Cleaners
  PROVE  /\ \A r \in Realms : server[r] = "none" => server'[r] = "none"
         /\ \A r \in Realms : ns[r] = "none" => ns'[r] = "none"
         /\ operator["namespace"] = "live" => operator'["namespace"] = "live"
<1>1. ASSUME NEW q \in Realms, ServerGone(q)
      PROVE  /\ \A r \in Realms : server[r] = "none" => server'[r] = "none"
             /\ UNCHANGED <<ns, operator>>
  BY <1>1 DEF ServerGone, Types
<1>2. ASSUME NEW q \in Realms, SweepNamespace(q)
      PROVE  /\ \A r \in Realms : server[r] = "none" => server'[r] = "none"
             /\ \A r \in Realms : ns[r] = "none" => ns'[r] = "none"
             /\ UNCHANGED operator
  BY <1>2 DEF SweepNamespace, Types
<1>3. CASE OperatorGone
  BY <1>3 DEF OperatorGone
<1>4. CASE UNCHANGED <<server, ns, operator>>
  BY <1>4
<1> QED
  BY <1>1, <1>2, <1>3, <1>4 DEF Cleaners, OAuthGone, ClientGone, Collect, dexVars

LEMMA ArShapeStep ==
  ASSUME Types, RealmShape, ArShape, [Next]_vars
  PROVE  ArShape'
<1>0. ar.pc # "idle" => ar.r \in Realms
  BY DEF Types, ArTypes
<1>1. CASE ArStep
  <2>1. CASE ar' = IdleAr
    BY <2>1 DEF ArShape, IdleAr
  <2>2. ASSUME NEW r \in Realms, Prepare(r), ar' = [pc |-> "operator", r |-> r]
        PROVE  ArShape'
    BY <2>2 DEF ArShape, Prepare, Types, RealmType
  <2>3. CASE /\ ar.pc \in {"operator", "server"} /\ UNCHANGED realm
             /\ ar' = [ar EXCEPT !.pc = "server"] \/ ar' = [ar EXCEPT !.pc = "strategy"]
    BY <2>3 DEF ArShape, Types, ArTypes
  <2>4. ASSUME NEW r \in Realms, FindNoClient(r), ar' = [pc |-> "emptied", r |-> r]
        PROVE  ArShape'
    BY <2>4 DEF ArShape, FindNoClient
  <2>5. CASE /\ ListAuthRealms
             /\ ar' = [ar EXCEPT !.pc = "needed"] \/ ar' = [ar EXCEPT !.pc = "unneeded"]
    <3>1. ar.pc = "emptied" /\ UNCHANGED <<realm, server, ns, strategy>>
      BY <2>5 DEF ListAuthRealms, dexVars
    <3>2. server[ar.r] = "none" /\ ns[ar.r] = "none" /\ strategy[ar.r].phase = "none"
      BY <2>5 DEF ListAuthRealms, DexIsGone
    <3>3. ar'.r = ar.r /\ ar'.pc \in {"needed", "unneeded"}
      BY <2>5 DEF Types, ArTypes
    <3> QED
      BY <3>1, <3>2, <3>3 DEF ArShape
  <2> QED
    BY <1>1, <2>1, <2>2, <2>3, <2>4, <2>5, ArWorker
<1>2. CASE StStep
  BY <1>0, <1>2, StLeaves, StStepEffect DEF ArShape, StEffect, dexVars
<1>3. CASE PwStep
  BY <1>3, PwLeaves DEF ArShape, dexVars
<1>4. CASE User
  <2>1. UNCHANGED <<ar, server, ns, strategy>>
    BY <1>4, UserLeaves
  <2>2. ASSUME NEW r \in Realms, realm[r].phase # "none", realm[r].fin
        PROVE  realm'[r].phase # "none" /\ realm'[r].fin
    BY <1>4, <2>2, UserRealms DEF CreateRealm
  <2>3. ASSUME NEW r \in Realms, realm[r].phase = "terminating"
        PROVE  realm'[r].phase = "terminating"
    BY <1>4, <2>3, UserRealms DEF CreateRealm, DeleteRealm
  <2> QED
    BY <1>0, <2>1, <2>2, <2>3 DEF ArShape
<1>5. CASE Cleaners
  <2>1. UNCHANGED <<realm, strategy, ar>>
    BY <1>5, CleanersLeave
  <2>2. /\ \A r \in Realms : server[r] = "none" => server'[r] = "none"
        /\ \A r \in Realms : ns[r] = "none" => ns'[r] = "none"
    BY <1>5, CleanersCreateNothing
  <2>3. /\ ar'.pc = ar.pc /\ ar'.r = ar.r
        /\ realm'[ar'.r] = realm[ar.r] /\ strategy'[ar'.r] = strategy[ar.r]
    BY <2>1
  <2>4. ar.pc \in {"needed", "unneeded"} => server'[ar.r] = "none" /\ ns'[ar.r] = "none"
    BY <1>0, <2>2 DEF ArShape
  <2> QED
    BY <2>3, <2>4 DEF ArShape
<1>6. CASE UNCHANGED vars
  BY <1>6 DEF ArShape, vars
<1> QED
  BY <1>1, <1>2, <1>3, <1>4, <1>5, <1>6, NextCases

-----------------------------------------------------------------------------
(* Dex: namespaces, DexServers, DexClients, Strategies.                    *)

LEMMA DexShapeArStep ==
  ASSUME Types, RealmShape, ArShape, DexShape, ArStep
  PROVE  DexShape'
<1>0. UNCHANGED client /\ (ar.pc # "idle" => ar.r \in Realms)
  BY ArLeaves DEF configVars, Types, ArTypes
<1>1. ASSUME ~Finish, ar.pc # "strategy", NEW r \in Realms
      PROVE  /\ realm'[r].phase = realm[r].phase
             /\ realm[r].fin => realm'[r].fin
             /\ realm'[r].applied => realm[r].applied
  BY <1>1, ArRealms
<1>2. CASE /\ \/ \E r \in Realms : Prepare(r) \/ FindNoClient(r)
             \/ InstallDexOperator \/ ListAuthRealms \/ DeleteDexOperator
  <2>1. ~Finish /\ ar.pc # "strategy" /\ UNCHANGED <<ns, server, strategy>>
    BY <1>2 DEF Prepare, FindNoClient, InstallDexOperator, ListAuthRealms, DeleteDexOperator,
                Finish, dexVars, NoOperator, OperatorParts
  <2> QED
    BY <1>0, <1>1, <2>1 DEF DexShape
<1>3. CASE CreateDexServer
  <2>1. ~Finish /\ ar.pc = "server" /\ UNCHANGED strategy
    BY <1>3 DEF CreateDexServer, Finish
  <2>2. ar.r \in Realms /\ realm[ar.r].phase # "none" /\ realm[ar.r].fin
    BY <1>0, <2>1 DEF ArShape
  <2>3. ASSUME NEW r \in Realms
        PROVE  /\ ns'[r] = ns[r] \/ (r = ar.r /\ ns[r] = "none" /\ ns'[r] = "live")
               /\ ns'[r] # "none" \/ server'[r] = server[r]
    BY <1>3 DEF CreateDexServer, Types
  <2> QED
    BY <1>0, <1>1, <2>1, <2>2, <2>3 DEF DexShape
<1>4. CASE CreateStrategy
  <2>1. ~Finish /\ ar.pc = "strategy" /\ UNCHANGED <<ns, server>> /\ ArEnds(TRUE)
    BY <1>4 DEF CreateStrategy, Finish, dexVars
  <2>2. ar.r \in Realms /\ realm[ar.r].phase # "none" /\ realm[ar.r].fin
    BY <1>0, <2>1 DEF ArShape
  <2>3. ASSUME NEW r \in Realms
        PROVE  strategy'[r].phase = IF r = ar.r /\ strategy[r].phase = "none" THEN "live"
                                    ELSE strategy[r].phase
    BY <1>4, <2>2 DEF CreateStrategy, Types, StrategyType
  <2>4. ASSUME NEW r \in Realms
        PROVE  /\ realm'[r].phase = realm[r].phase /\ realm'[r].fin = realm[r].fin
               /\ realm'[r].applied => realm[r].applied \/ r = ar.r
    BY <2>1, ArEndsTypes
  <2>5. strategy[ar.r].phase \in Phase
    BY <2>2 DEF Types, StrategyType
  <2> QED
    BY <1>0, <2>1, <2>2, <2>3, <2>4, <2>5 DEF DexShape, Phase
<1>5. CASE DeleteDexServer \/ DeleteDexNamespace \/ DeleteStrategy
  <2>1. UNCHANGED realm /\ ar.pc = "emptied"
    BY <1>5 DEF DeleteDexServer, DeleteDexNamespace, DeleteStrategy
  <2>2. ar.r \in Realms /\ realm[ar.r].phase = "terminating"
    BY <1>0, <2>1 DEF ArShape
  <2>3. CASE DeleteDexServer
    BY <1>0, <2>1, <2>2, <2>3 DEF DeleteDexServer, DexShape, Types
  <2>4. CASE DeleteDexNamespace
    BY <1>0, <2>1, <2>2, <2>4 DEF DeleteDexNamespace, DexShape, Types
  <2>5. CASE DeleteStrategy
    <3>1. ASSUME NEW r \in Realms
          PROVE  \/ strategy'[r] = strategy[r]
                 \/ r = ar.r /\ strategy[r].phase # "none" /\ strategy'[r].phase # "live"
      BY <2>5 DEF DeleteStrategy, DeletedStrategy, NoStrategy, Types, StrategyType
    <3> QED
      BY <1>0, <2>1, <2>2, <2>5, <3>1 DEF DeleteStrategy, DexShape, dexVars, Types, StrategyType,
                                          Phase
  <2> QED
    BY <1>5, <2>3, <2>4, <2>5
<1>6. CASE Finish
  <2>1. UNCHANGED <<ns, server, strategy>> /\ ar.r \in Realms
    BY <1>0, <1>6 DEF Finish, dexVars
  <2>2. ns[ar.r] = "none" /\ strategy[ar.r].phase = "none"
    BY <1>6 DEF Finish, ArShape
  <2>3. ASSUME NEW r \in Realms
        PROVE  realm'[r] = IF r = ar.r THEN NoRealm ELSE realm[r]
    BY <1>6 DEF Finish, Types
  <2> QED
    BY <1>0, <2>1, <2>2, <2>3 DEF DexShape, NoRealm
<1> QED
  BY <1>2, <1>3, <1>4, <1>5, <1>6 DEF ArStep, ArContinues, ArDeletes, ArWorks

(* DexClients are only created in a namespace that is there.               *)
LEMMA PwClients ==
  ASSUME Types, PwStep
  PROVE  \A r \in Realms, c \in Clusters :
           /\ client'[<<r, c>>] # "none" => client[<<r, c>>] # "none" \/ ns[r] = "live"
           /\ client[<<r, c>>] # "live" \/ client'[<<r, c>>] = "live"
              \/ (/\ DeleteObsoleteClient /\ r = pw.r /\ c \in Obsolete)
<1>1. CASE DeleteObsoleteClient
  BY <1>1 DEF DeleteObsoleteClient, Obsolete, Types
<1>2. CASE CreateDexClient
  <2>1. PICK d \in pw.c :
          \/ UNCHANGED client
          \/ /\ client[<<pw.r, d>>] # "none" \/ ns[pw.r] = "live"
             /\ client' = [client EXCEPT ![<<pw.r, d>>] = IF @ = "none" THEN "live" ELSE @]
    BY <1>2 DEF CreateDexClient
  <2>2. ASSUME NEW r \in Realms, NEW c \in Clusters
        PROVE  \/ client'[<<r, c>>] = client[<<r, c>>]
               \/ client[<<r, c>>] = "none" /\ ns[r] = "live"
    BY <2>1 DEF Types
  <2> QED
    BY <2>2
<1>3. CASE ~DeleteObsoleteClient /\ ~CreateDexClient
  <2>1. UNCHANGED client
    BY <1>3 DEF PwStep, PwContinues, PwWorks, TakePlacement, NextStrategy, DeleteObsoleteOAuth,
                NothingObsolete, CreateClientSecret, CreateClusterOAuth, ConfigsCreated,
                DeleteSelectedOAuth, FinishPlacement, configVars
  <2> QED
    BY <2>1
<1> QED
  BY <1>1, <1>2, <1>3

LEMMA DexShapeStep ==
  ASSUME Types, RealmShape, ArShape, DexShape, [Next]_vars
  PROVE  DexShape'
<1>1. CASE ArStep
  BY <1>1, DexShapeArStep
<1>2. CASE StStep
  <2>1. UNCHANGED <<realm, ns, server, client>>
    BY <1>2, StLeaves DEF dexVars, configVars
  <2>2. StEffect
    BY <1>2, StStepEffect
  <2> QED
    BY <2>1, <2>2 DEF DexShape, StEffect
<1>3. CASE PwStep
  <2>1. UNCHANGED <<realm, ns, server, strategy>>
    BY <1>3, PwLeaves DEF dexVars
  <2> QED
    BY <1>3, <2>1, PwClients DEF DexShape
<1>4. CASE User
  <2>1. UNCHANGED <<ns, server, strategy, client>>
    BY <1>4, UserLeaves DEF configVars
  <2>2. ASSUME NEW r \in Realms
        PROVE  /\ ns[r] # "none" \/ strategy[r].phase # "none" =>
                    realm'[r].phase # "none" /\ realm'[r].fin
               /\ ns[r] = "terminating" \/ strategy[r].phase = "terminating" =>
                    realm'[r].phase = "terminating"
               /\ realm'[r].phase = "live" /\ realm'[r].applied => strategy[r].phase = "live"
    BY <1>4, UserRealms DEF DexShape, CreateRealm, DeleteRealm, NoRealm
  <2> QED
    BY <2>1, <2>2 DEF DexShape
<1>5. CASE Cleaners
  <2>1. UNCHANGED <<realm, strategy>>
    BY <1>5, CleanersLeave
  <2>2. ASSUME NEW r \in Realms, NEW c \in Clusters, OAuthGone(r, c) \/ ClientGone(r, c)
        PROVE  DexShape'
    BY <2>1, <2>2 DEF OAuthGone, ClientGone, DexShape, Types, dexVars
  <2>3. ASSUME NEW r \in Realms, ServerGone(r)
        PROVE  DexShape'
    BY <2>1, <2>3 DEF ServerGone, DexShape, Types, configVars
  <2>4. ASSUME NEW q \in Realms, SweepNamespace(q)
        PROVE  DexShape'
    <3>1. ASSUME NEW r \in Realms
          PROVE  /\ ns'[r] # "none" => ns[r] # "none"
                 /\ ns'[r] = "terminating" => ns[r] = "terminating"
                 /\ server'[r] # "none" => server[r] # "none"
                 /\ \A c \in Clusters : client'[<<r, c>>] # "none" => client[<<r, c>>] # "none"
                 /\ ns'[r] = "none" =>
                      \/ ns[r] = "none"
                      \/ /\ server[r] = "none"
                         /\ \A c \in Clusters : client[<<r, c>>] = "none"
      <4>1. ASSUME NEW c \in Clusters
            PROVE  client'[<<r, c>>] # "none" => client[<<r, c>>] # "none"
        BY <2>4 DEF SweepNamespace
      <4>2. ns'[r] = IF r # q THEN ns[r]
                     ELSE IF server[r] = "none" /\ \A c \in Clusters : client[<<r, c>>] = "none"
                          THEN "none" ELSE ns[r]
        BY <2>4 DEF SweepNamespace, Types
      <4>3. server'[r] # "none" => server[r] # "none"
        BY <2>4 DEF SweepNamespace, Types
      <4> QED
        BY <4>1, <4>2, <4>3
    <3> QED
      BY <2>1, <3>1 DEF DexShape
  <2>5. CASE OperatorGone \/ \E p \in Placements : Collect(p)
    BY <2>1, <2>5 DEF OperatorGone, Collect, DexShape, dexVars, configVars
  <2> QED
    BY <1>5, <2>2, <2>3, <2>4, <2>5 DEF Cleaners
<1>6. CASE UNCHANGED vars
  BY <1>6 DEF DexShape, vars
<1> QED
  BY <1>1, <1>2, <1>3, <1>4, <1>5, <1>6, NextCases

-----------------------------------------------------------------------------
(* The Dex operator of the AuthRealms that are Applied: OperatorInv holds  *)
(* at the start, and every step keeps it, one lemma for each action that   *)
(* touches what it is about.                                               *)

LEMMA InitOperator == Init => OperatorInv
BY DEF Init, OperatorInv, ArType, InstallsForReal, KeepsWhatItInstalled, RemovesUnneeded,
       NewIsNotApplied, OperatorServes, NoRealm, NoOperator, OperatorParts, Phase, IdleAr,
       LiveRealms, Doomed

LEMMA Untouched ==
  ASSUME OperatorInv, UNCHANGED <<realm, operator, ar, late>>
  PROVE  OperatorInv'
BY DEF OperatorInv, ArType, InstallsForReal, KeepsWhatItInstalled, RemovesUnneeded,
       NewIsNotApplied, OperatorServes, LiveRealms, Doomed, Installed, IdleAr

(* A step that ends a Reconcile, at most after reporting that it failed.   *)
LEMMA Ended ==
  ASSUME OperatorInv, UNCHANGED <<operator, late>>, ar' = IdleAr,
         realm' \in [Realms -> [phase : Phase, fin : BOOLEAN, applied : BOOLEAN]],
         \A r \in Realms : /\ realm'[r].phase = realm[r].phase
                           /\ realm'[r].applied => realm[r].applied
  PROVE  OperatorInv'
<1> USE DEF OperatorInv
<1>1. ArType' /\ InstallsForReal' /\ KeepsWhatItInstalled'
  BY DEF ArType, InstallsForReal, KeepsWhatItInstalled, IdleAr
<1>2. Doomed' => Doomed
  BY DEF Doomed, IdleAr
<1>3. RemovesUnneeded' /\ NewIsNotApplied' /\ OperatorServes'
  BY <1>2 DEF RemovesUnneeded, NewIsNotApplied, OperatorServes, LiveRealms, Installed
<1> QED
  BY <1>1, <1>3

-----------------------------------------------------------------------------
(* The steps of the AuthRealm controller.                                  *)

(* The report at the end of a Reconcile touches the condition Applied of   *)
(* the AuthRealm that is reconciled, and nothing else of any AuthRealm.    *)
LEMMA ArEndsUpdates ==
  ASSUME ArType, ar.pc # "idle", NEW a \in BOOLEAN, ArEnds(a)
  PROVE  /\ realm' \in [Realms -> [phase : Phase, fin : BOOLEAN, applied : BOOLEAN]]
         /\ ar' = IdleAr
         /\ \A r \in Realms : /\ realm'[r].phase = realm[r].phase
                              /\ realm'[r].fin = realm[r].fin
                              /\ realm'[r].applied = IF r = ar.r THEN a ELSE realm[r].applied
<1>1. ar.r \in Realms
  BY DEF ArType
<1>2. realm' = [realm EXCEPT ![ar.r] = [realm[ar.r] EXCEPT !.applied = a]]
  BY DEF ArEnds
<1>3. [realm[ar.r] EXCEPT !.applied = a] \in [phase : Phase, fin : BOOLEAN, applied : BOOLEAN]
  BY <1>1 DEF ArType
<1>4. realm' \in [Realms -> [phase : Phase, fin : BOOLEAN, applied : BOOLEAN]]
  BY <1>2, <1>3 DEF ArType
<1>5. \A r \in Realms : realm'[r] = IF r = ar.r THEN [realm[r] EXCEPT !.applied = a] ELSE realm[r]
  BY <1>2 DEF ArType
<1>6. ASSUME NEW r \in Realms
      PROVE  /\ realm'[r].phase = realm[r].phase
             /\ realm'[r].fin = realm[r].fin
             /\ realm'[r].applied = IF r = ar.r THEN a ELSE realm[r].applied
  BY <1>5 DEF ArType
<1> QED
  BY <1>4, <1>6 DEF ArEnds

(* The worker goes on with what it is doing.                               *)
LEMMA ArGoesOn ==
  ASSUME ArType, ar.pc # "idle", UNCHANGED realm, operator' \in [OperatorParts -> Phase],
         NEW pc \in {"operator", "server", "strategy", "emptied", "needed", "unneeded"},
         ArGoes(pc)
  PROVE  ArType' /\ ar'.pc = pc /\ ar'.r = ar.r
<1>1. ar.r \in Realms
  BY DEF ArType
<1>2. ar' = [pc |-> pc, r |-> ar.r]
  BY DEF ArType, ArGoes
<1> QED
  BY <1>1, <1>2 DEF ArType

LEMMA PrepareKeeps ==
  ASSUME OperatorInv, NEW r \in Realms, Prepare(r)
  PROVE  OperatorInv'
<1> USE DEF OperatorInv
<1>1. UNCHANGED <<operator, late>> /\ ar.pc = "idle" /\ ar' = [pc |-> "operator", r |-> r]
  BY DEF Prepare, dexVars
<1>2. \A s \in Realms : /\ realm'[s].phase = realm[s].phase
                        /\ realm'[s].applied = realm[s].applied
  BY DEF Prepare, ArType
<1>3. ArType' /\ InstallsForReal'
  <2>1. realm' = [realm EXCEPT ![r].fin = TRUE] /\ realm[r].phase = "live"
    BY DEF Prepare
  <2>2. /\ realm' \in [Realms -> [phase : Phase, fin : BOOLEAN, applied : BOOLEAN]]
        /\ realm'[r].phase = "live" /\ realm'[r].fin
    BY <2>1 DEF ArType
  <2> QED
    BY <1>1, <2>2 DEF ArType, InstallsForReal
<1>4. KeepsWhatItInstalled'
  <2>1. r \in LiveRealms
    BY DEF Prepare, LiveRealms
  <2>2. r \notin late => operator["namespace"] # "terminating"
    BY <2>1 DEF RemovesUnneeded, Doomed
  <2> QED
    BY <1>1, <2>2 DEF KeepsWhatItInstalled
<1>5. RemovesUnneeded' /\ NewIsNotApplied' /\ OperatorServes'
  BY <1>1, <1>2 DEF RemovesUnneeded, Doomed, NewIsNotApplied, OperatorServes, LiveRealms, Installed
<1> QED
  BY <1>3, <1>4, <1>5

LEMMA InstallKeeps ==
  ASSUME OperatorInv, InstallDexOperator
  PROVE  OperatorInv'
<1> USE DEF OperatorInv
<1>0. ar.pc = "operator" /\ ar.r \in Realms /\ "namespace" \in OperatorParts
  BY DEF InstallDexOperator, ArType, OperatorParts
<1>1. CASE operator["namespace"] # "terminating"
  <2>1. Installed' /\ ArGoes("server") /\ UNCHANGED realm
    BY <1>1 DEF InstallDexOperator, Installed
  <2>2. operator' \in [OperatorParts -> Phase] /\ operator'["namespace"] = "live"
    BY <2>1 DEF Installed, OperatorParts, Phase
  <2>3. ArType' /\ ar'.pc = "server" /\ ar'.r = ar.r
    BY <1>0, <2>1, <2>2, ArGoesOn
  <2>4. InstallsForReal' /\ KeepsWhatItInstalled'
    BY <1>0, <2>1, <2>3 DEF InstallsForReal, KeepsWhatItInstalled
  <2>5. RemovesUnneeded' /\ NewIsNotApplied' /\ OperatorServes'
    BY <2>1, <2>2, <2>3 DEF RemovesUnneeded, Doomed, NewIsNotApplied, OperatorServes
  <2> QED
    BY <2>3, <2>4, <2>5
<1>2. CASE operator["namespace"] = "terminating"
  <2>1. LiveRealms \subseteq late /\ ar.r \in late /\ UNCHANGED late
    BY <1>0, <1>2 DEF InstallDexOperator, RemovesUnneeded, Doomed, KeepsWhatItInstalled
  <2>2. operator' \in [OperatorParts -> Phase] /\ operator'["namespace"] = "terminating"
    BY <1>2 DEF InstallDexOperator, AppliedInVain, ArType, OperatorParts, Phase
  <2>3. CASE ArGoes("server") /\ UNCHANGED realm
    <3>1. ArType' /\ ar'.pc = "server" /\ ar'.r = ar.r
      BY <1>0, <2>2, <2>3, ArGoesOn
    <3> QED
      BY <1>0, <2>1, <2>3, <3>1 DEF InstallsForReal, KeepsWhatItInstalled, RemovesUnneeded,
                                    NewIsNotApplied, OperatorServes, LiveRealms
  <2>4. CASE ArEnds(FALSE)
    <3>1. /\ realm' \in [Realms -> [phase : Phase, fin : BOOLEAN, applied : BOOLEAN]]
          /\ ar' = IdleAr
          /\ \A r \in Realms : /\ realm'[r].phase = realm[r].phase
                               /\ realm'[r].applied => realm[r].applied
      BY <1>0, <2>4, ArEndsUpdates
    <3> QED
      BY <2>1, <2>2, <3>1 DEF ArType, InstallsForReal, KeepsWhatItInstalled, RemovesUnneeded,
                              NewIsNotApplied, OperatorServes, LiveRealms, IdleAr
  <2> QED
    BY <1>2, <2>3, <2>4 DEF InstallDexOperator
<1> QED
  BY <1>1, <1>2

LEMMA CreateDexServerKeeps ==
  ASSUME OperatorInv, CreateDexServer
  PROVE  OperatorInv'
<1>0. ar.pc = "server" /\ UNCHANGED <<operator, late>>
  BY DEF CreateDexServer
<1>1. CASE ArEnds(FALSE)
  <2>1. /\ realm' \in [Realms -> [phase : Phase, fin : BOOLEAN, applied : BOOLEAN]]
        /\ ar' = IdleAr
        /\ \A r \in Realms : /\ realm'[r].phase = realm[r].phase
                             /\ realm'[r].applied => realm[r].applied
    BY <1>0, <1>1, ArEndsUpdates DEF OperatorInv
  <2> QED
    BY <1>0, <2>1, Ended
<1>2. CASE ArGoes("strategy") /\ UNCHANGED realm
  <2> USE DEF OperatorInv
  <2>1. ArType' /\ ar'.pc = "strategy" /\ ar'.r = ar.r
    BY <1>0, <1>2, ArGoesOn DEF ArType
  <2> QED
    BY <1>0, <1>2, <2>1 DEF InstallsForReal, KeepsWhatItInstalled, RemovesUnneeded, Doomed,
                            NewIsNotApplied, OperatorServes, LiveRealms, Installed
<1> QED
  BY <1>1, <1>2 DEF CreateDexServer

(* Only here an AuthRealm becomes Applied: the operator it has installed   *)
(* at the beginning of the Reconcile is still there.                       *)
LEMMA CreateStrategyKeeps ==
  ASSUME OperatorInv, CreateStrategy
  PROVE  OperatorInv'
<1> USE DEF OperatorInv
<1>1. /\ realm' \in [Realms -> [phase : Phase, fin : BOOLEAN, applied : BOOLEAN]]
      /\ ar' = IdleAr
      /\ \A r \in Realms : /\ realm'[r].phase = realm[r].phase
                           /\ r # ar.r => realm'[r].applied = realm[r].applied
  BY ArEndsUpdates DEF CreateStrategy
<1>2. UNCHANGED <<operator, late>> /\ ar.r \in Realms /\ realm[ar.r].phase # "none"
  BY DEF CreateStrategy, dexVars, ArType, InstallsForReal
<1>3. ar.r \notin late => Installed
  BY DEF CreateStrategy, KeepsWhatItInstalled
<1>4. OperatorServes'
  BY <1>1, <1>2, <1>3 DEF OperatorServes, Installed
<1>5. RemovesUnneeded'
  BY <1>1, <1>2 DEF RemovesUnneeded, Doomed, LiveRealms, IdleAr
<1> QED
  BY <1>1, <1>2, <1>4, <1>5 DEF ArType, InstallsForReal, KeepsWhatItInstalled, NewIsNotApplied,
                                IdleAr

LEMMA FindNoClientKeeps ==
  ASSUME OperatorInv, NEW r \in Realms, FindNoClient(r)
  PROVE  OperatorInv'
<1> USE DEF OperatorInv
<1>1. ar' = [pc |-> "emptied", r |-> r] /\ UNCHANGED <<realm, operator, late>>
  BY DEF FindNoClient, dexVars
<1> QED
  BY <1>1 DEF ArType, InstallsForReal, KeepsWhatItInstalled, RemovesUnneeded, Doomed,
              NewIsNotApplied, OperatorServes, LiveRealms, Installed

LEMMA DeletesKeep ==
  ASSUME OperatorInv, DeleteDexServer \/ DeleteDexNamespace \/ DeleteStrategy
  PROVE  OperatorInv'
<1>1. ar' = IdleAr /\ UNCHANGED <<realm, operator, late>>
  BY DEF DeleteDexServer, DeleteDexNamespace, DeleteStrategy, dexVars
<1>2. realm' \in [Realms -> [phase : Phase, fin : BOOLEAN, applied : BOOLEAN]]
  BY <1>1 DEF OperatorInv, ArType
<1> QED
  BY <1>1, <1>2, Ended

(* The operator is found unneeded when every AuthRealm is being deleted.   *)
LEMMA ListAuthRealmsKeeps ==
  ASSUME OperatorInv, ListAuthRealms
  PROVE  OperatorInv'
<1> USE DEF OperatorInv
<1>1. /\ UNCHANGED <<realm, operator, late>> /\ ar.pc = "emptied"
      /\ ArGoes(IF OperatorIsNeeded THEN "needed" ELSE "unneeded")
  BY DEF ListAuthRealms, dexVars
<1>2. /\ ArType' /\ ar'.pc \in {"needed", "unneeded"}
      /\ ar'.pc = "unneeded" => LiveRealms = {}
  BY <1>1, ArGoesOn DEF ArType, OperatorIsNeeded
<1>3. RemovesUnneeded'
  BY <1>1, <1>2 DEF RemovesUnneeded, Doomed, LiveRealms
<1> QED
  BY <1>1, <1>2, <1>3 DEF InstallsForReal, KeepsWhatItInstalled, NewIsNotApplied, OperatorServes,
                          Installed

(* When the operator is removed, the AuthRealms that are not being deleted *)
(* are those that came after the list was made.                            *)
LEMMA DeleteDexOperatorKeeps ==
  ASSUME OperatorInv, DeleteDexOperator
  PROVE  OperatorInv'
<1> USE DEF OperatorInv
<1>1. ar' = IdleAr /\ UNCHANGED <<realm, late>> /\ ar.pc = "unneeded"
  BY DEF DeleteDexOperator
<1>2. PICK part \in OperatorParts :
        /\ operator[part] # "none"
        /\ part # "namespace" => operator["namespace"] = "none"
        /\ operator' = [operator EXCEPT ![part] = IF part = "namespace" THEN "terminating"
                                                                       ELSE "none"]
  BY DEF DeleteDexOperator
<1>3. operator' \in [OperatorParts -> Phase]
  BY <1>2 DEF ArType, Phase
<1>4. operator["namespace"] = "none" \/ LiveRealms \subseteq late
  BY <1>1 DEF RemovesUnneeded, Doomed, ArType, OperatorParts, Phase
<1>5. CASE LiveRealms \subseteq late
  BY <1>1, <1>3, <1>5 DEF ArType, InstallsForReal, KeepsWhatItInstalled, RemovesUnneeded,
                          NewIsNotApplied, OperatorServes, LiveRealms, IdleAr
<1>6. CASE operator["namespace"] = "none"
  <2>1. ~Installed
    BY <1>6 DEF Installed, OperatorParts
  <2>2. operator'["namespace"] = "none"
    BY <1>2, <1>6 DEF ArType
  <2>3. ~Doomed'
    BY <2>2 DEF Doomed
  <2> QED
    BY <1>1, <1>3, <2>1, <2>3 DEF ArType, InstallsForReal, KeepsWhatItInstalled, RemovesUnneeded,
                                  NewIsNotApplied, OperatorServes, IdleAr
<1> QED
  BY <1>4, <1>5, <1>6

LEMMA FinishKeeps ==
  ASSUME OperatorInv, Finish
  PROVE  OperatorInv'
<1> USE DEF OperatorInv
<1>1. ar' = IdleAr /\ UNCHANGED <<operator, late>>
  BY DEF Finish, dexVars
<1>2. realm' = [realm EXCEPT ![ar.r] = NoRealm] /\ ar.r \in Realms
  BY DEF Finish, ArType
<1>3. ArType'
  BY <1>1, <1>2 DEF ArType, NoRealm, Phase, IdleAr
<1>4. LiveRealms' \subseteq LiveRealms
  BY <1>2 DEF LiveRealms, ArType, NoRealm
<1>5. RemovesUnneeded'
  BY <1>1, <1>4 DEF RemovesUnneeded, Doomed, IdleAr
<1> QED
  BY <1>1, <1>2, <1>3, <1>5 DEF ArType, InstallsForReal, KeepsWhatItInstalled, NewIsNotApplied,
                                OperatorServes, Installed, NoRealm, IdleAr

-----------------------------------------------------------------------------
(* The steps of users and of the API server that touch an AuthRealm or the *)
(* operator.                                                               *)

(* A new AuthRealm is not yet Applied, and the AuthRealm controller is not *)
(* in the middle of setting it up; when the operator is doomed, it is late.*)
LEMMA CreateRealmKeeps ==
  ASSUME OperatorInv, NEW r \in Realms, CreateRealm(r)
  PROVE  OperatorInv'
<1> USE DEF OperatorInv
<1>1. UNCHANGED <<operator, ar>>
  BY DEF CreateRealm
<1>2. realm[r].phase = "none" /\ ~realm[r].applied
  BY DEF CreateRealm, NewIsNotApplied
<1>3. realm' = [realm EXCEPT ![r].phase = "live"]
  BY DEF CreateRealm
<1>4. late' = IF Doomed THEN late \cup {r} ELSE late \ {r}
  BY DEF CreateRealm
<1>5. ArType' /\ InstallsForReal' /\ NewIsNotApplied'
  BY <1>1, <1>2, <1>3 DEF ArType, InstallsForReal, NewIsNotApplied, Phase
<1>6. LiveRealms' \subseteq LiveRealms \cup {r} /\ Doomed' = Doomed
  BY <1>1, <1>2, <1>3 DEF LiveRealms, Doomed, ArType
<1>7. RemovesUnneeded'
  BY <1>4, <1>6 DEF RemovesUnneeded
<1>8. KeepsWhatItInstalled'
  <2>1. ar.pc \in {"operator", "server", "strategy"} => ar.r # r
    BY <1>2 DEF InstallsForReal
  <2> QED
    BY <1>1, <1>4, <2>1 DEF KeepsWhatItInstalled, Installed
<1>9. OperatorServes'
  <2>1. ASSUME NEW s \in Realms, s # r
        PROVE  realm'[s] = realm[s] /\ (s \notin late' => s \notin late)
    BY <1>3, <1>4, <2>1 DEF ArType
  <2>2. ~realm'[r].applied
    BY <1>2, <1>3 DEF ArType
  <2> QED
    BY <1>1, <2>1, <2>2 DEF OperatorServes, Installed
<1> QED
  BY <1>5, <1>7, <1>8, <1>9

LEMMA DeleteRealmKeeps ==
  ASSUME OperatorInv, NEW r \in Realms, DeleteRealm(r)
  PROVE  OperatorInv'
<1> USE DEF OperatorInv
<1>1. UNCHANGED <<operator, ar, late>>
  BY DEF DeleteRealm, dexVars
<1>2. realm' = [realm EXCEPT ![r] = IF realm[r].fin THEN [realm[r] EXCEPT !.phase = "terminating"]
                                                    ELSE NoRealm]
  BY DEF DeleteRealm
<1>3. ArType'
  BY <1>1, <1>2 DEF ArType, NoRealm, Phase
<1>4. LiveRealms' \subseteq LiveRealms
  BY <1>2 DEF LiveRealms, ArType, NoRealm
<1>5. RemovesUnneeded' /\ KeepsWhatItInstalled'
  BY <1>1, <1>4 DEF RemovesUnneeded, Doomed, KeepsWhatItInstalled, Installed
<1> QED
  BY <1>1, <1>2, <1>3, <1>5 DEF ArType, InstallsForReal, NewIsNotApplied, OperatorServes,
                                Installed, NoRealm

LEMMA OperatorGoneKeeps ==
  ASSUME OperatorInv, OperatorGone
  PROVE  OperatorInv'
<1> USE DEF OperatorInv
<1>1. operator["namespace"] = "terminating" /\ UNCHANGED <<realm, ar, late>>
  BY DEF OperatorGone
<1>2. operator' = [operator EXCEPT !["namespace"] = "none"]
  BY DEF OperatorGone
<1>3. /\ operator' \in [OperatorParts -> Phase] /\ operator'["namespace"] = "none"
      /\ ~Installed
  BY <1>1, <1>2 DEF ArType, OperatorParts, Phase, Installed
<1> QED
  BY <1>1, <1>3 DEF ArType, InstallsForReal, KeepsWhatItInstalled, RemovesUnneeded, Doomed,
                    NewIsNotApplied, OperatorServes

-----------------------------------------------------------------------------
(* The other steps: none of them touches an AuthRealm or the operator.     *)

LEMMA OthersLeaveAlone ==
  ASSUME \/ StContinues \/ PwContinues
         \/ \E r \in Realms : StWorks(r) \/ ServerGone(r) \/ SweepNamespace(r)
         \/ \E r \in Realms, c \in Clusters : OAuthGone(r, c) \/ ClientGone(r, c)
         \/ \E p \in Placements : \/ PwWorks(p) \/ Unplace(p) \/ Replace(p) \/ Collect(p)
                                  \/ \E c \in Clusters : Select(p, c) \/ Deselect(p, c)
  PROVE  UNCHANGED <<realm, operator, ar, late>>
<1>1. StContinues => UNCHANGED <<realm, operator, ar, late>>
  BY DEF StContinues, SkipStrategy, DeleteStrategyPlacement, GetStrategyPlacement,
         PlaceStrategy, OwnPlacement, dexVars
<1>2. PwContinues => UNCHANGED <<realm, operator, ar, late>>
  BY DEF PwContinues, NextStrategy, DeleteObsoleteOAuth, DeleteObsoleteClient, NothingObsolete,
         CreateClientSecret, CreateDexClient, CreateClusterOAuth, ConfigsCreated, dexVars
<1>3. ASSUME NEW r \in Realms
      PROVE  StWorks(r) \/ ServerGone(r) \/ SweepNamespace(r) => UNCHANGED <<realm, operator, ar, late>>
  BY DEF StWorks, TakeStrategy, DeletePlacement, FinishStrategy, ServerGone, SweepNamespace, dexVars
<1>4. ASSUME NEW r \in Realms, NEW c \in Clusters
      PROVE  OAuthGone(r, c) \/ ClientGone(r, c) => UNCHANGED <<realm, operator, ar, late>>
  BY DEF OAuthGone, ClientGone, dexVars
<1>5. ASSUME NEW p \in Placements
      PROVE  PwWorks(p) \/ Unplace(p) \/ Replace(p) \/ Collect(p) => UNCHANGED <<realm, operator, ar, late>>
  BY DEF PwWorks, TakePlacement, DeleteSelectedOAuth, FinishPlacement, Unplace, Replace, Collect,
         dexVars
<1>6. ASSUME NEW p \in Placements, NEW c \in Clusters
      PROVE  Select(p, c) \/ Deselect(p, c) => UNCHANGED <<realm, operator, ar, late>>
  BY DEF Select, Deselect, dexVars
<1> QED
  BY <1>1, <1>2, <1>3, <1>4, <1>5, <1>6

LEMMA NextKeeps ==
  ASSUME OperatorInv, [Next]_vars
  PROVE  OperatorInv'
<1>1. CASE ArContinues
  BY <1>1, InstallKeeps, CreateDexServerKeeps, CreateStrategyKeeps DEF ArContinues
<1>2. CASE ArDeletes
  BY <1>2, DeletesKeep, ListAuthRealmsKeeps, DeleteDexOperatorKeeps, FinishKeeps DEF ArDeletes
<1>3. CASE \E r \in Realms : ArWorks(r)
  BY <1>3, PrepareKeeps, FindNoClientKeeps DEF ArWorks
<1>4. CASE \E r \in Realms : CreateRealm(r) \/ DeleteRealm(r)
  BY <1>4, CreateRealmKeeps, DeleteRealmKeeps
<1>5. CASE OperatorGone
  BY <1>5, OperatorGoneKeeps
<1>6. CASE UNCHANGED vars
  BY <1>6, Untouched DEF vars
<1>7. CASE \/ StContinues \/ PwContinues
           \/ \E r \in Realms : StWorks(r) \/ ServerGone(r) \/ SweepNamespace(r)
           \/ \E r \in Realms, c \in Clusters : OAuthGone(r, c) \/ ClientGone(r, c)
           \/ \E p \in Placements : \/ PwWorks(p) \/ Unplace(p) \/ Replace(p) \/ Collect(p)
                                    \/ \E c \in Clusters : Select(p, c) \/ Deselect(p, c)
  BY <1>7, OthersLeaveAlone, Untouched
<1> QED
  BY <1>1, <1>2, <1>3, <1>4, <1>5, <1>6, <1>7 DEF Next, Controllers, User, Cleaners

-----------------------------------------------------------------------------
(* The Dex operator.                                                       *)

LEMMA OperatorOwnedStep ==
  ASSUME Types, RealmShape, ArShape, OperatorOwned, [Next]_vars
  PROVE  OperatorOwned'
<1>0. UNCHANGED scenario
  BY NextCases, ArLeaves, StLeaves, PwLeaves, UserLeaves, CleanersLeave DEF vars
<1>1. SUFFICES ASSUME ~May("hasty")
               PROVE  /\ operator' = NoOperator \/ \E r \in Realms : realm'[r].phase # "none"
                      /\ ar'.pc = "needed" => \E r \in Realms \ {ar'.r} : realm'[r].phase # "none"
  BY <1>0 DEF OperatorOwned, May, NoOperator, OperatorParts
<1>2. /\ operator = NoOperator \/ \E r \in Realms : realm[r].phase # "none"
      /\ ar.pc = "needed" => \E r \in Realms \ {ar.r} : realm[r].phase # "none"
  BY <1>1 DEF OperatorOwned
<1>3. CASE ArStep
  <2>1. CASE Finish
    <3>1. /\ ar.r \in Realms /\ realm[ar.r].phase = "terminating" /\ UNCHANGED operator
          /\ ar' = IdleAr
      BY <2>1 DEF Finish, Types, ArTypes, ArShape, dexVars
    <3>2. CASE operator = NoOperator
      BY <3>1, <3>2 DEF IdleAr
    <3>3. CASE ar.pc = "needed"
      <4>1. PICK s \in Realms \ {ar.r} : realm[s].phase # "none"
        BY <1>2, <3>3
      <4>2. realm'[s] = realm[s]
        BY <2>1, <3>1, <4>1 DEF Finish, Types
      <4> QED
        BY <3>1, <4>1, <4>2 DEF IdleAr
    <3> QED
      BY <2>1, <3>2, <3>3 DEF Finish
  <2>2. CASE ~Finish
    <3>1. \A r \in Realms : realm'[r].phase = realm[r].phase
      BY <1>3, <2>2, ArRealms
    <3>2. CASE ListAuthRealms
      <4>1. /\ UNCHANGED <<realm, operator>> /\ ar'.r = ar.r
            /\ ar'.pc = "needed" => OperatorIsNeeded
            /\ realm[ar.r].phase = "terminating"
        BY <3>2 DEF ListAuthRealms, ArGoes, ArShape, dexVars, Types, ArTypes
      <4> QED
        BY <1>2, <4>1 DEF OperatorIsNeeded, LiveRealms
    <3>3. CASE InstallDexOperator \/ DeleteDexOperator
      <4>1. ar.r \in Realms /\ realm[ar.r].phase # "none"
        BY <3>3 DEF InstallDexOperator, DeleteDexOperator, Types, ArTypes, ArShape
      <4>2. ar'.pc # "needed"
        BY <3>3 DEF InstallDexOperator, DeleteDexOperator, ArGoes, ArEnds, IdleAr, Types, ArTypes
      <4> QED
        BY <3>1, <4>1, <4>2
    <3>4. CASE ~ListAuthRealms /\ ~InstallDexOperator /\ ~DeleteDexOperator
      <4>1. UNCHANGED operator
        BY <1>3, <2>2, <3>4
           DEF ArStep, ArContinues, ArDeletes, ArWorks, Prepare, CreateDexServer, CreateStrategy,
               FindNoClient, DeleteDexServer, DeleteDexNamespace, DeleteStrategy, dexVars
      <4>2. ar'.pc # "needed"
        BY <1>3, <3>4, ArWorker DEF IdleAr, Types, ArTypes
      <4> QED
        BY <1>2, <3>1, <4>1, <4>2
    <3> QED
      BY <3>2, <3>3, <3>4
  <2> QED
    BY <2>1, <2>2
<1>4. CASE StStep
  BY <1>2, <1>4, StLeaves DEF dexVars
<1>5. CASE PwStep
  BY <1>2, <1>5, PwLeaves DEF dexVars
<1>6. CASE User
  <2>1. UNCHANGED <<operator, ar>>
    BY <1>6, UserLeaves
  <2>2. ASSUME NEW r \in Realms, realm[r].phase # "none"
        PROVE  realm'[r].phase # "none"
    <3>1. DeleteRealm(r) => realm[r].fin
      BY <1>1, <2>2 DEF DeleteRealm, Idle, Settled, RealmShape
    <3> QED
      BY <1>6, <2>2, <3>1, UserRealms
  <2> QED
    BY <1>2, <2>1, <2>2
<1>7. CASE Cleaners
  <2>1. UNCHANGED <<realm, ar>>
    BY <1>7, CleanersLeave
  <2>2. CASE UNCHANGED operator
    BY <1>2, <2>1, <2>2
  <2>3. CASE OperatorGone
    <3>1. operator # NoOperator
      BY <2>3 DEF OperatorGone, NoOperator, OperatorParts
    <3> QED
      BY <1>2, <2>1, <3>1
  <2> QED
    BY <1>7, <2>2, <2>3 DEF Cleaners, OAuthGone, ClientGone, ServerGone, SweepNamespace, Collect,
                            dexVars
<1>8. CASE UNCHANGED vars
  BY <1>2, <1>8 DEF vars
<1> QED
  BY <1>3, <1>4, <1>5, <1>6, <1>7, <1>8, NextCases

(* AuthRealms that are not deleted together are deleted one by one.        *)
LEMMA OneByOneStep ==
  ASSUME Types, RealmShape, ArShape, OneByOne, [Next]_vars
  PROVE  OneByOne'
<1>0. UNCHANGED scenario
  BY NextCases, ArLeaves, StLeaves, PwLeaves, UserLeaves, CleanersLeave DEF vars
<1>1. SUFFICES ASSUME Without({"together"}),
                      NEW r \in Realms, realm'[r].phase = "terminating",
                      NEW s \in Realms, realm'[s].phase = "terminating"
               PROVE  r = s
  BY <1>0 DEF OneByOne, Without
<1>2. CASE realm[r].phase = "terminating" /\ realm[s].phase = "terminating"
  BY <1>1, <1>2 DEF OneByOne
<1>3. CASE ~(realm[r].phase = "terminating" /\ realm[s].phase = "terminating")
  <2>1. User
    BY <1>1, <1>3, NextCases, ArRealms, StLeaves, PwLeaves, CleanersLeave DEF vars, NoRealm
  <2>2. PICK q \in Realms : DeleteRealm(q)
    BY <1>1, <1>3, <2>1, UserRealms DEF NoRealm
  <2>3. \A t \in Realms : realm[t].phase # "terminating"
    BY <1>1, <2>2 DEF DeleteRealm, May, Without
  <2>4. \A t \in Realms : t # q => realm'[t] = realm[t]
    BY <2>2 DEF DeleteRealm, Types
  <2> QED
    BY <1>1, <2>3, <2>4
<1> QED
  BY <1>2, <1>3

(* What a step of the AuthRealm controller leaves of the operator.         *)
LEMMA OperatorFirstArStep ==
  ASSUME Types, RealmShape, ArShape, DexShape, OperatorInv, OneByOne, OperatorFirst, ArStep
  PROVE  OperatorFirst'
<1>0. "namespace" \in OperatorParts /\ (ar.pc # "idle" => ar.r \in Realms) /\ UNCHANGED scenario
  BY ArLeaves DEF OperatorParts, Types, ArTypes
<1>1. ASSUME NEW r \in Realms
      PROVE  realm'[r].phase = "live" => realm[r].phase = "live"
  BY ArRealms DEF NoRealm
<1>2. ASSUME UNCHANGED <<operator, late>>, \A r \in Realms : ns'[r] # "none" => ns[r] # "none"
      PROVE  OperatorFirst'
  BY <1>0, <1>1, <1>2 DEF OperatorFirst, Without
<1>3. CASE InstallDexOperator
  <2>1. UNCHANGED ns
    BY <1>3 DEF InstallDexOperator
  <2>2. CASE operator["namespace"] # "terminating"
    <3>1. operator'["namespace"] = "live"
      BY <1>0, <1>3, <2>2 DEF InstallDexOperator
    <3> QED
      BY <3>1 DEF OperatorFirst
  <2>3. CASE operator["namespace"] = "terminating"
    <3>1. UNCHANGED late
      BY <1>3, <2>3 DEF InstallDexOperator
    <3> QED
      BY <1>0, <1>1, <2>1, <2>3, <3>1 DEF OperatorFirst, Without
  <2> QED
    BY <2>2, <2>3
<1>4. CASE CreateDexServer
  <2>1. UNCHANGED <<operator, late>> /\ ar.pc = "server"
    BY <1>4 DEF CreateDexServer
  <2>2. ASSUME NEW r \in Realms, r # ar.r
        PROVE  ns'[r] = ns[r]
    BY <1>4, <2>2 DEF CreateDexServer, Types
  <2>3. ar.r \notin late => operator["namespace"] = "live"
    BY <1>0, <2>1 DEF OperatorInv, KeepsWhatItInstalled, Installed
  <2> QED
    BY <1>0, <1>1, <2>1, <2>2, <2>3 DEF OperatorFirst, Without
<1>5. CASE DeleteDexOperator
  <2>1. /\ UNCHANGED <<realm, ns, late>> /\ ar.pc = "unneeded" /\ ar.r \in Realms
        /\ realm[ar.r].phase = "terminating" /\ ns[ar.r] = "none"
    BY <1>0, <1>5 DEF DeleteDexOperator, ArShape
  <2>2. ASSUME NEW r \in Realms \ late, ns[r] # "none",
               realm[r].phase = "live" \/ Without({"together"})
        PROVE  FALSE
    <3>1. operator["namespace"] = "live"
      BY <2>2 DEF OperatorFirst
    <3>2. realm[r].phase # "live"
      BY <2>1, <2>2, <3>1 DEF OperatorInv, RemovesUnneeded, Doomed, LiveRealms
    <3>3. realm[r].phase = "terminating"
      BY <2>2, <3>2 DEF DexShape, Types, RealmType, Phase
    <3> QED
      BY <2>1, <2>2, <3>2, <3>3 DEF OneByOne
  <2> QED
    BY <1>0, <2>1, <2>2 DEF OperatorFirst, Without
<1>6. CASE /\ ~InstallDexOperator /\ ~CreateDexServer /\ ~DeleteDexOperator
  <2>1. UNCHANGED <<operator, late>>
    BY <1>6 DEF ArStep, ArContinues, ArDeletes, ArWorks, Prepare, CreateStrategy, FindNoClient,
                DeleteDexServer, DeleteDexNamespace, DeleteStrategy, ListAuthRealms, Finish,
                dexVars
  <2>2. ASSUME NEW r \in Realms
        PROVE  ns'[r] # "none" => ns[r] # "none"
    BY <1>6 DEF ArStep, ArContinues, ArDeletes, ArWorks, Prepare, CreateStrategy, FindNoClient,
                DeleteDexServer, DeleteDexNamespace, DeleteStrategy, ListAuthRealms, Finish,
                dexVars, Types
  <2> QED
    BY <1>2, <2>1, <2>2
<1> QED
  BY <1>3, <1>4, <1>5, <1>6

LEMMA OperatorFirstStep ==
  ASSUME Types, RealmShape, ArShape, DexShape, OperatorInv, OneByOne, OperatorFirst, [Next]_vars
  PROVE  OperatorFirst'
<1>0. UNCHANGED scenario
  BY NextCases, ArLeaves, StLeaves, PwLeaves, UserLeaves, CleanersLeave DEF vars
<1>1. CASE ArStep
  BY <1>1, OperatorFirstArStep
<1>2. CASE StStep
  BY <1>0, <1>2, StLeaves DEF OperatorFirst, Without, dexVars
<1>3. CASE PwStep
  BY <1>0, <1>3, PwLeaves DEF OperatorFirst, Without, dexVars
<1>4. CASE User
  <2>1. UNCHANGED <<operator, ns>>
    BY <1>4, UserLeaves
  <2>2. ASSUME NEW r \in Realms, ns[r] # "none"
        PROVE  /\ r \notin late' => r \notin late
               /\ realm'[r].phase = "live" => realm[r].phase = "live"
    <3>1. ~CreateRealm(r)
      BY <2>2 DEF CreateRealm
    <3>2. realm'[r].phase = "live" => realm[r].phase = "live"
      BY <1>4, <3>1, UserRealms DEF NoRealm
    <3>3. r \notin late' => r \notin late
      BY <1>4, <3>1 DEF User, CreateRealm, DeleteRealm, Unplace, Replace, Select, Deselect, dexVars
    <3> QED
      BY <3>2, <3>3
  <2> QED
    BY <1>0, <2>1, <2>2 DEF OperatorFirst, Without
<1>5. CASE Cleaners
  <2>1. UNCHANGED <<realm, late>>
    BY <1>5, CleanersLeave
  <2>2. /\ \A r \in Realms : ns[r] = "none" => ns'[r] = "none"
        /\ operator["namespace"] = "live" => operator'["namespace"] = "live"
    BY <1>5, CleanersCreateNothing
  <2> QED
    BY <1>0, <2>1, <2>2 DEF OperatorFirst, Without
<1>6. CASE UNCHANGED vars
  BY <1>0, <1>6 DEF OperatorFirst, Without, vars
<1> QED
  BY <1>1, <1>2, <1>3, <1>4, <1>5, <1>6, NextCases

-----------------------------------------------------------------------------
(* The Placement that is reconciled.                                       *)

LEMMA PwShapeStep ==
  ASSUME Types, PwShape, [Next]_vars
  PROVE  PwShape'
<1>0. Types'
  BY TypesStep
<1>1. ASSUME UNCHANGED pw, PlacementsKept
      PROVE  PwShape'
  <2>1. ASSUME pw.pc # "idle"
        PROVE  pl'[pw.p].phase # "none" /\ pl'[pw.p].fin
    <3>1. pw.p \in Placements /\ pl[pw.p].fin
      BY <2>1 DEF Types, PwTypes, PwShape
    <3>2. pl'[pw.p].fin /\ pl'[pw.p] \in PlacementType
      BY <1>1, <3>1 DEF PlacementsKept
    <3> QED
      BY <3>2, PlFin
  <2> QED
    BY <1>1, <2>1 DEF PwShape
<1>2. CASE pw' = IdlePw
  BY <1>2 DEF PwShape, IdlePw
<1>3. ASSUME UNCHANGED <<pw, pl>>
      PROVE  PwShape'
  BY <1>3 DEF PwShape
<1>4. CASE ArStep
  BY <1>3, <1>4, ArLeaves DEF plVars
<1>5. CASE StStep
  BY <1>1, <1>5, StStepEffect, StLeaves DEF StEffect
<1>6. CASE PwStep
  <2>1. ASSUME NEW p \in Placements, TakePlacement(p) PROVE PwShape'
    <3>1. pw' = [IdlePw EXCEPT !.pc = "next", !.p = p, !.owners = Owners(pl[p]),
                               !.todo = StrategiesOf(p)]
      BY <2>1 DEF TakePlacement
    <3>2. pw'.pc = "next" /\ pw'.p = p /\ pw'.todo = StrategiesOf(p)
      BY <3>1 DEF IdlePw
    <3>3. pl'[p].fin /\ pl'[p] \in PlacementType
      BY <2>1, TakePlacementTypes DEF PlacementsKept
    <3>4. pl'[p].phase # "none"
      BY <3>3, PlFin
    <3> QED
      BY <3>2, <3>3, <3>4 DEF PwShape, StrategiesOf
  <2>2. CASE NextStrategy
    <3>1. ASSUME NEW r \in pw.todo,
                 pw' = [pw EXCEPT !.pc = "obsolete", !.r = r, !.todo = @ \ {r},
                                  !.live = realm[r].phase = "live"]
          PROVE  PwShape'
      <4>1. UNCHANGED pl /\ pw.pc = "next" /\ pw.p \in Placements
        BY <2>2 DEF NextStrategy, plVars, Types, PwTypes
      <4>2. pw'.pc = "obsolete" /\ pw'.r = r /\ pw'.p = pw.p /\ pw'.todo = pw.todo \ {r}
        BY <3>1 DEF Types, PwTypes
      <4> QED
        BY <4>1, <4>2 DEF PwShape
    <3> QED
      BY <1>2, <2>2, <3>1 DEF NextStrategy
  <2>3. CASE DeleteObsoleteOAuth \/ DeleteObsoleteClient
    BY <1>2, <2>3 DEF DeleteObsoleteOAuth, DeleteObsoleteClient
  <2>4. CASE NothingObsolete \/ CreateClientSecret \/ CreateClusterOAuth \/ ConfigsCreated
    <3>1. UNCHANGED pl /\ pw.pc \in {"obsolete", "create", "client", "oauth"}
      BY <2>4 DEF NothingObsolete, CreateClientSecret, CreateClusterOAuth, ConfigsCreated, plVars
    <3>2. pw'.p = pw.p /\ pw'.todo = pw.todo /\ pw'.r = pw.r
      BY <2>4 DEF NothingObsolete, CreateClientSecret, CreateClusterOAuth, ConfigsCreated,
                  Types, PwTypes
    <3> QED
      BY <3>1, <3>2 DEF PwShape
  <2>5. CASE CreateDexClient
    <3>1. UNCHANGED pl /\ pw.pc = "client"
      BY <2>5 DEF CreateDexClient, plVars
    <3>2. pw' = IdlePw \/ pw' = [pw EXCEPT !.pc = "oauth"]
      BY <2>5 DEF CreateDexClient
    <3>3. CASE pw' = [pw EXCEPT !.pc = "oauth"]
      <4>1. pw'.p = pw.p /\ pw'.todo = pw.todo /\ pw'.r = pw.r
        BY <3>3 DEF Types, PwTypes
      <4> QED
        BY <3>1, <4>1 DEF PwShape
    <3> QED
      BY <1>2, <3>2, <3>3
  <2>6. ASSUME NEW p \in Placements, DeleteSelectedOAuth(p) PROVE PwShape'
    BY <1>3, <2>6 DEF DeleteSelectedOAuth, plVars
  <2>7. ASSUME NEW p \in Placements, FinishPlacement(p) PROVE PwShape'
    <3>1. pw = IdlePw /\ UNCHANGED pw
      BY <2>7 DEF FinishPlacement, Types, PwTypes
    <3> QED
      BY <1>2, <3>1
  <2> QED
    BY <1>6, <2>1, <2>2, <2>3, <2>4, <2>5, <2>6, <2>7 DEF PwStep, PwContinues, PwWorks
<1>7. CASE User
  BY <1>3, <1>7, UserLeaves
<1>8. CASE Cleaners
  BY <1>1, <1>8, CleanersTypes, CleanersLeave
<1>9. CASE UNCHANGED vars
  BY <1>3, <1>9 DEF vars
<1> QED
  BY <1>4, <1>5, <1>6, <1>7, <1>8, <1>9, NextCases

(* Only of a live AuthRealm are ClusterOAuths created.                     *)
LEMMA PwOAuths ==
  ASSUME Types, PwStep
  PROVE  \A r \in Realms, c \in Clusters :
           oauth'[<<r, c>>] # "none" =>
             \/ oauth[<<r, c>>] # "none"
             \/ /\ CreateClusterOAuth /\ r = pw.r
<1>1. CASE CreateClusterOAuth
  <2>1. PICK d \in pw.c : oauth' = [oauth EXCEPT ![<<pw.r, d>>] = IF @ = "none" THEN "live" ELSE @]
    BY <1>1 DEF CreateClusterOAuth
  <2>2. ASSUME NEW r \in Realms, NEW c \in Clusters
        PROVE  oauth'[<<r, c>>] = oauth[<<r, c>>] \/ r = pw.r
    BY <2>1 DEF Types
  <2> QED
    BY <1>1, <2>2
<1>2. CASE DeleteObsoleteOAuth
  <2>1. PICK c \in Obsolete : DeleteClusterOAuthConfig(c, pw.owners)
    BY <1>2 DEF DeleteObsoleteOAuth
  <2>2. c \in Clusters /\ pw.owners \in SUBSET Realms
    BY <2>1 DEF Obsolete, Types, PwTypes
  <2>3. \A rc \in Realms \X Clusters : oauth'[rc] # "none" <=> oauth[rc] # "none"
    BY <2>1, <2>2, DeletedOAuths
  <2> QED
    BY <2>3
<1>3. ASSUME NEW p \in Placements, DeleteSelectedOAuth(p)
      PROVE  \A rc \in Realms \X Clusters : oauth'[rc] # "none" <=> oauth[rc] # "none"
  <2>1. PICK c \in decisions[p] : DeleteClusterOAuthConfig(c, Owners(pl[p]))
    BY <1>3 DEF DeleteSelectedOAuth
  <2>2. c \in Clusters /\ Owners(pl[p]) \in SUBSET Realms
    BY <2>1, OwnersType DEF Types
  <2> QED
    BY <2>1, <2>2, DeletedOAuths
<1>4. CASE /\ ~CreateClusterOAuth /\ ~DeleteObsoleteOAuth
           /\ ~\E p \in Placements : DeleteSelectedOAuth(p)
  <2>1. UNCHANGED oauth
    BY <1>4 DEF PwStep, PwContinues, PwWorks, TakePlacement, NextStrategy, DeleteObsoleteClient,
                NothingObsolete, CreateClientSecret, CreateDexClient, ConfigsCreated,
                FinishPlacement, configVars
  <2> QED
    BY <2>1
<1> QED
  BY <1>1, <1>2, <1>3, <1>4

(* Steps after which less is decided, and what is has a finalizer.         *)
LEMMA StillFinalized ==
  ASSUME Types, FirstFinalized, UNCHANGED scenario, PlacementsKept,
         \A rc \in Realms \X Clusters : oauth'[rc] # "none" => oauth[rc] # "none"
  PROVE  FirstFinalized'
<1>1. SUFFICES ASSUME Without({"reselect"}), NEW r \in Realms, NEW c \in Clusters,
                      c \in decisions'[Ref(r)], ~pl'[Ref(r)].fin
               PROVE  oauth'[<<r, c>>] = "none"
  BY DEF FirstFinalized, Without, Ref
<1>2. c \in decisions[Ref(r)] /\ ~pl[Ref(r)].fin
  BY <1>1, RefType DEF PlacementsKept
<1> QED
  BY <1>1, <1>2 DEF FirstFinalized

LEMMA FirstFinalizedStep ==
  ASSUME Types, PwShape, FirstFinalized, [Next]_vars
  PROVE  FirstFinalized'
<1>1. CASE ArStep
  BY <1>1, ArLeaves, SamePlacements, StillFinalized DEF plVars, configVars
<1>2. CASE StStep
  BY <1>2, StLeaves, StStepEffect, StillFinalized DEF StEffect, configVars
<1>3. CASE PwStep
  <2>1. SUFFICES ASSUME Without({"reselect"}), NEW r \in Realms, NEW c \in Clusters,
                        c \in decisions'[Ref(r)], ~pl'[Ref(r)].fin
                 PROVE  oauth'[<<r, c>>] = "none"
    BY <1>3, PwLeaves DEF FirstFinalized, Without, Ref
  <2>2. Ref(r) \in Placements
    BY RefType
  <2>3. CASE \E p \in Placements : FinishPlacement(p)
    <3>1. PICK p \in Placements : FinishPlacement(p)
      BY <2>3
    <3>2. /\ pl'[p].phase = "none" /\ decisions'[p] = {}
          /\ Ref(r) # p => pl'[Ref(r)] = pl[Ref(r)]
          /\ UNCHANGED oauth
          /\ \A q \in Placements : decisions'[q] \subseteq decisions[q]
      BY <2>2, <3>1 DEF FinishPlacement, DecisionsFollow, NoPlacement, Types, configVars
    <3> QED
      BY <2>1, <2>2, <3>2 DEF FirstFinalized
  <2>4. CASE CreateClusterOAuth
    <3>1. UNCHANGED <<pl, decisions>> /\ pw.pc = "oauth"
      BY <2>4 DEF CreateClusterOAuth, plVars
    <3>2. r # pw.r
      BY <2>1, <3>1 DEF PwShape
    <3>3. oauth[<<r, c>>] = "none"
      BY <2>1, <3>1 DEF FirstFinalized
    <3> QED
      BY <1>3, <3>2, <3>3, PwOAuths
  <2>5. CASE ~CreateClusterOAuth /\ ~\E p \in Placements : FinishPlacement(p)
    <3>1. PlacementsKept
      <4>1. CASE \E p \in Placements : TakePlacement(p)
        BY <4>1, TakePlacementTypes
      <4>2. CASE UNCHANGED <<pl, decisions>>
        BY <4>2, SamePlacements
      <4> QED
        BY <1>3, <2>5, <4>1, <4>2
           DEF PwStep, PwContinues, PwWorks, NextStrategy, DeleteObsoleteOAuth,
               DeleteObsoleteClient, NothingObsolete, CreateClientSecret, CreateDexClient,
               ConfigsCreated, DeleteSelectedOAuth, plVars
    <3>2. c \in decisions[Ref(r)] /\ ~pl[Ref(r)].fin
      BY <2>1, <2>2, <3>1 DEF PlacementsKept
    <3>3. oauth[<<r, c>>] = "none"
      BY <2>1, <3>2 DEF FirstFinalized
    <3> QED
      BY <1>3, <2>5, <3>3, PwOAuths
  <2> QED
    BY <2>3, <2>4, <2>5
<1>4. CASE User
  <2>1. UNCHANGED <<scenario, pl, oauth>>
    BY <1>4, UserLeaves DEF configVars
  <2>2. SUFFICES ASSUME Without({"reselect"}), NEW r \in Realms, NEW c \in Clusters,
                        c \in decisions'[Ref(r)], ~pl[Ref(r)].fin
                 PROVE  oauth[<<r, c>>] = "none"
    BY <2>1 DEF FirstFinalized, Without, Ref
  <2>3. CASE c \in decisions[Ref(r)]
    BY <2>2, <2>3 DEF FirstFinalized
  <2>4. CASE c \notin decisions[Ref(r)]
    <3>1. PICK p \in Placements, d \in Clusters : Select(p, d) \/ Deselect(p, d)
      BY <1>4, <2>2, <2>4 DEF User, CreateRealm, DeleteRealm, Unplace, Replace, plVars
    <3>2. p = Ref(r)
      BY <2>2, <2>4, <3>1, RefType DEF Select, Deselect, Types
    <3>3. Configured(r, c)
      BY <2>2, <3>1, <3>2 DEF Select, Deselect, Quiet, Idle, May, Without
    <3> QED
      BY <2>4, <3>3 DEF Configured
  <2> QED
    BY <2>3, <2>4
<1>5. CASE Cleaners
  <2>1. \A rc \in Realms \X Clusters : oauth'[rc] # "none" => oauth[rc] # "none"
    <3>1. ASSUME NEW r \in Realms, NEW c \in Clusters, OAuthGone(r, c)
          PROVE  \A rc \in Realms \X Clusters : oauth'[rc] # "none" => oauth[rc] # "none"
      BY <3>1 DEF OAuthGone, Types
    <3>2. CASE UNCHANGED oauth
      BY <3>2
    <3> QED
      BY <1>5, <3>1, <3>2 DEF Cleaners, ClientGone, ServerGone, SweepNamespace, OperatorGone,
                              Collect, configVars
  <2> QED
    BY <1>5, <2>1, CleanersTypes, CleanersLeave, StillFinalized
<1>6. CASE UNCHANGED vars
  BY <1>6, SamePlacements, StillFinalized DEF vars
<1> QED
  BY <1>1, <1>2, <1>3, <1>4, <1>5, <1>6, NextCases

LEMMA CreatesForLiveStep ==
  ASSUME Types, RealmShape, ArShape, PwShape, CreatesForLive, [Next]_vars
  PROVE  CreatesForLive'
<1>0. UNCHANGED scenario
  BY NextCases, ArLeaves, StLeaves, PwLeaves, UserLeaves, CleanersLeave DEF vars
<1>1. SUFFICES ASSUME Without({"hasty", "reselect"}),
                      \/ pw'.pc \in {"create", "client", "oauth"}
                      \/ pw'.pc = "obsolete" /\ pw'.live
               PROVE  realm'[pw'.r].phase = "live"
  BY <1>0 DEF CreatesForLive, Without
<1>2. ~May("hasty")
  BY <1>1 DEF May, Without
<1>3. ASSUME UNCHANGED pw
      PROVE  /\ pw.r \in Realms /\ pw.p = Ref(pw.r) /\ realm[pw.r].phase = "live"
  BY <1>1, <1>3 DEF CreatesForLive, PwShape, Types, PwTypes
<1>4. CASE ArStep
  <2>1. UNCHANGED pw
    BY <1>4, ArLeaves
  <2>2. Finish => realm[ar.r].phase = "terminating"
    BY DEF Finish, ArShape
  <2> QED
    BY <1>3, <1>4, <2>1, <2>2, ArRealms
<1>5. CASE StStep \/ Cleaners \/ UNCHANGED vars
  <2>1. UNCHANGED <<pw, realm>>
    BY <1>5, StLeaves, CleanersLeave DEF vars
  <2> QED
    BY <1>3, <2>1
<1>6. CASE PwStep
  <2>1. UNCHANGED realm
    BY <1>6, PwLeaves
  <2>2. ASSUME NEW p \in Placements, TakePlacement(p) PROVE pw'.pc = "next"
    BY <2>2 DEF TakePlacement, IdlePw
  <2>3. CASE NextStrategy
    <3>1. pw' # IdlePw
      BY <1>1 DEF IdlePw
    <3>2. PICK r \in pw.todo : pw' = [pw EXCEPT !.pc = "obsolete", !.r = r, !.todo = @ \ {r},
                                                !.live = realm[r].phase = "live"]
      BY <2>3, <3>1 DEF NextStrategy
    <3>3. pw'.pc = "obsolete" /\ pw'.r = r /\ pw'.live = (realm[r].phase = "live")
      BY <3>2 DEF Types, PwTypes
    <3> QED
      BY <1>1, <2>1, <3>3
  <2>4. CASE DeleteObsoleteOAuth \/ DeleteObsoleteClient
    BY <1>1, <2>4 DEF DeleteObsoleteOAuth, DeleteObsoleteClient, IdlePw
  <2>5. CASE NothingObsolete
    <3>1. /\ pw'.pc = (IF pw.live THEN "create" ELSE "next") /\ pw'.r = pw.r
          /\ pw.pc = "obsolete"
      BY <2>5 DEF NothingObsolete, Types, PwTypes
    <3> QED
      BY <1>1, <2>1, <3>1 DEF CreatesForLive
  <2>6. CASE CreateClientSecret \/ CreateClusterOAuth
    <3>1. pw.pc \in {"create", "oauth"} /\ pw'.r = pw.r
      BY <2>6 DEF CreateClientSecret, CreateClusterOAuth, Types, PwTypes
    <3> QED
      BY <1>1, <2>1, <3>1 DEF CreatesForLive
  <2>7. CASE CreateDexClient
    <3>1. pw' # IdlePw
      BY <1>1 DEF IdlePw
    <3>2. pw.pc = "client" /\ pw' = [pw EXCEPT !.pc = "oauth"]
      BY <2>7, <3>1 DEF CreateDexClient
    <3>3. pw'.r = pw.r
      BY <3>2 DEF Types, PwTypes
    <3> QED
      BY <1>1, <2>1, <3>2, <3>3 DEF CreatesForLive
  <2>8. CASE ConfigsCreated
    <3>1. pw'.pc = "next"
      BY <2>8 DEF ConfigsCreated, Types, PwTypes
    <3> QED
      BY <1>1, <3>1
  <2>9. ASSUME NEW p \in Placements, DeleteSelectedOAuth(p) \/ FinishPlacement(p)
        PROVE  realm'[pw'.r].phase = "live"
    <3>1. UNCHANGED pw
      BY <2>9 DEF DeleteSelectedOAuth, FinishPlacement
    <3> QED
      BY <1>3, <2>1, <3>1
  <2> QED
    BY <1>1, <1>6, <2>2, <2>3, <2>4, <2>5, <2>6, <2>7, <2>8, <2>9
       DEF PwStep, PwContinues, PwWorks
<1>7. CASE User
  <2>1. UNCHANGED pw
    BY <1>7, UserLeaves
  <2>2. ~DeleteRealm(pw.r)
    BY <1>2, <1>3, <2>1 DEF DeleteRealm, Idle
  <2>3. ~CreateRealm(pw.r)
    BY <1>3, <2>1 DEF CreateRealm
  <2> QED
    BY <1>3, <1>7, <2>1, <2>2, <2>3, UserRealms
<1> QED
  BY <1>4, <1>5, <1>6, <1>7, NextCases

-----------------------------------------------------------------------------
(* The ClusterOAuths of AuthRealms in deletion.                            *)

Held(r, c) ==
  /\ realm[r].phase # "none"
  /\ realm[r].phase = "terminating" => Reachable(r, c) /\ ~(ar.pc = "emptied" /\ ar.r = r)

LEMMA HeldByAr ==
  ASSUME Types, RealmShape, ArShape, NEW r \in Realms, NEW c \in Clusters, Held(r, c), ArStep
  PROVE  Held(r, c)'
<1>1. UNCHANGED <<pl, decisions, client, pw>>
  BY ArLeaves DEF plVars, configVars
<1>2. realm'[r].phase = realm[r].phase
  <2>1. ~(Finish /\ r = ar.r)
    BY DEF Finish, ArShape, Held, Reachable
  <2> QED
    BY <2>1, ArRealms
<1>3. ASSUME realm[r].phase = "terminating"
      PROVE  Reachable(r, c)' /\ ~(ar.pc = "emptied" /\ ar.r = r)'
  <2>1. Reachable(r, c) /\ ~(ar.pc = "emptied" /\ ar.r = r)
    BY <1>3 DEF Held
  <2>2. ns'[r] = "live"
    <3>1. CASE UNCHANGED ns
      BY <2>1, <3>1 DEF Reachable
    <3>2. CASE CreateDexServer
      BY <2>1, <3>2 DEF CreateDexServer, Reachable, Types
    <3>3. CASE DeleteDexNamespace
      BY <2>1, <3>3 DEF DeleteDexNamespace, Reachable, Types
    <3> QED
      BY <3>1, <3>2, <3>3 DEF ArStep, ArContinues, ArDeletes, ArWorks, Prepare,
         InstallDexOperator, CreateStrategy, FindNoClient, DeleteDexServer, DeleteStrategy,
         ListAuthRealms, DeleteDexOperator, Finish, dexVars
  <2>3. strategy'[r].phase = "live"
    <3>1. CASE UNCHANGED strategy
      BY <2>1, <3>1 DEF Reachable
    <3>2. CASE CreateStrategy
      BY <2>1, <3>2 DEF CreateStrategy, Reachable, Types, StrategyType
    <3>3. CASE DeleteStrategy
      BY <2>1, <3>3 DEF DeleteStrategy, Reachable, Types
    <3> QED
      BY <3>1, <3>2, <3>3 DEF ArStep, ArContinues, ArDeletes, ArWorks, Prepare,
         InstallDexOperator, CreateDexServer, FindNoClient, DeleteDexServer, DeleteDexNamespace,
         ListAuthRealms, DeleteDexOperator, Finish
  <2>4. ~(ar'.pc = "emptied" /\ ar'.r = r)
    <3>1. ~FindNoClient(r)
      BY <2>1 DEF FindNoClient, Reachable
    <3> QED
      BY <3>1, ArWorker DEF IdleAr, Types, ArTypes
  <2> QED
    BY <1>1, <2>1, <2>2, <2>3, <2>4 DEF Reachable, Ref
<1> QED
  BY <1>2, <1>3 DEF Held

LEMMA HeldBySt ==
  ASSUME Types, NEW r \in Realms, NEW c \in Clusters, Held(r, c), StStep
  PROVE  Held(r, c)'
<1>1. UNCHANGED <<realm, ns, client, ar, pw>>
  BY StLeaves DEF dexVars, configVars
<1>2. ASSUME Reachable(r, c)
      PROVE  Reachable(r, c)'
  BY <1>1, <1>2, StStepEffect, RefType DEF StEffect, PlacementsKept, Reachable, Ref
<1> QED
  BY <1>1, <1>2 DEF Held

LEMMA HeldByPw ==
  ASSUME Types, PwShape, NEW r \in Realms, NEW c \in Clusters, Held(r, c), PwStep,
         oauth[<<r, c>>] # "none"
  PROVE  Held(r, c)'
<1>0. Ref(r) \in Placements /\ Ref(r) # Nobody
  BY RefType, ConstantsAssumption
<1>1. UNCHANGED <<realm, ns, strategy, ar>>
  BY PwLeaves DEF dexVars
<1>2. ASSUME Reachable(r, c)
      PROVE  Reachable(r, c)'
  <2>1. client'[<<r, c>>] = "live"
    <3>1. ASSUME DeleteObsoleteClient, r = pw.r, c \in Obsolete
          PROVE  FALSE
      <4>1. pw.p = Ref(r) /\ r \in pw.owners
        BY <1>2, <3>1 DEF DeleteObsoleteClient, PwShape, Reachable
      <4> QED
        BY <3>1, <4>1 DEF DeleteObsoleteClient, Matched
    <3> QED
      BY <1>2, <3>1, PwClients DEF Reachable
  <2>2. CASE \E p \in Placements : TakePlacement(p)
    <3>1. PICK p \in Placements : TakePlacement(p)
      BY <2>2
    <3>2. /\ pl'[Ref(r)].fin /\ r \in Owners(pl'[Ref(r)])
      BY <1>0, <1>2, <3>1, TakePlacementTypes DEF Reachable
    <3>3. UNCHANGED decisions /\ pw'.p = p /\ pw'.owners = Owners(pl[p])
      BY <3>1 DEF TakePlacement, IdlePw
    <3> QED
      BY <1>1, <1>2, <2>1, <3>2, <3>3 DEF Reachable, Ref
  <2>3. ASSUME NEW p \in Placements, FinishPlacement(p)
        PROVE  Reachable(r, c)'
    <3>1. p # Ref(r)
      BY <1>2, <2>3 DEF FinishPlacement, Reachable, Matched
    <3>2. UNCHANGED pw /\ pl'[Ref(r)] = pl[Ref(r)]
      BY <1>0, <2>3, <3>1 DEF FinishPlacement, Types
    <3>3. pl'[Ref(r)].phase # "none"
      BY <1>0, <1>2, <3>2, PlFin DEF Reachable, Types
    <3>4. decisions'[Ref(r)] = decisions[Ref(r)]
      BY <1>0, <2>3, <3>3 DEF FinishPlacement, DecisionsFollow
    <3> QED
      BY <1>1, <1>2, <2>1, <3>2, <3>4 DEF Reachable, Ref
  <2>4. CASE UNCHANGED <<pl, decisions>> /\ (pw' = IdlePw \/ UNCHANGED pw)
    BY <1>0, <1>1, <1>2, <2>1, <2>4 DEF Reachable, Ref, IdlePw
  <2>5. CASE UNCHANGED <<pl, decisions>> /\ pw'.p = pw.p /\ pw'.owners = pw.owners
    BY <1>1, <1>2, <2>1, <2>5 DEF Reachable, Ref
  <2>6. CASE NextStrategy
    <3>1. UNCHANGED <<pl, decisions>>
      BY <2>6 DEF NextStrategy, plVars
    <3>2. \/ pw' = IdlePw
          \/ pw'.p = pw.p /\ pw'.owners = pw.owners
      BY <2>6 DEF NextStrategy, Types, PwTypes
    <3> QED
      BY <2>4, <2>5, <3>1, <3>2
  <2>7. CASE NothingObsolete \/ CreateClientSecret \/ CreateClusterOAuth \/ ConfigsCreated
    <3>1. UNCHANGED <<pl, decisions>> /\ pw'.p = pw.p /\ pw'.owners = pw.owners
      BY <2>7 DEF NothingObsolete, CreateClientSecret, CreateClusterOAuth, ConfigsCreated,
                  plVars, Types, PwTypes
    <3> QED
      BY <2>5, <3>1
  <2>8. CASE CreateDexClient
    <3>1. UNCHANGED <<pl, decisions>> /\ (pw' = IdlePw \/ pw' = [pw EXCEPT !.pc = "oauth"])
      BY <2>8 DEF CreateDexClient, plVars
    <3>2. CASE pw' = [pw EXCEPT !.pc = "oauth"]
      <4>1. pw'.p = pw.p /\ pw'.owners = pw.owners
        BY <3>2 DEF Types, PwTypes
      <4> QED
        BY <2>5, <3>1, <4>1
    <3> QED
      BY <2>4, <3>1, <3>2
  <2>9. CASE \/ DeleteObsoleteOAuth \/ DeleteObsoleteClient
             \/ \E p \in Placements : DeleteSelectedOAuth(p)
    <3>1. UNCHANGED <<pl, decisions>> /\ (pw' = IdlePw \/ UNCHANGED pw)
      BY <2>9 DEF DeleteObsoleteOAuth, DeleteObsoleteClient, DeleteSelectedOAuth, plVars
    <3> QED
      BY <2>4, <3>1
  <2> QED
    BY <2>2, <2>3, <2>6, <2>7, <2>8, <2>9 DEF PwStep, PwContinues, PwWorks
<1> QED
  BY <1>1, <1>2 DEF Held

(* An AuthRealm is only deleted when what was asked for is done.           *)
LEMMA HeldByUser ==
  ASSUME Types, RealmShape, ArShape, DexShape, FirstFinalized, Without({"hasty", "reselect"}),
         NEW r \in Realms, NEW c \in Clusters, Held(r, c), User, oauth[<<r, c>>] # "none"
  PROVE  Held(r, c)'
<1>0. Ref(r) \in Placements /\ ~May("hasty") /\ ~May("reselect") /\ Without({"reselect"})
  BY RefType DEF May, Without
<1>1. UNCHANGED <<ns, strategy, pl, client, ar, pw>>
  BY UserLeaves DEF dexVars, configVars
<1>2. CASE DeleteRealm(r)
  <2>1. /\ realm[r].phase = "live" /\ realm[r].applied /\ r \in Owners(pl[Ref(r)])
        /\ pw.p # Ref(r) /\ Configured(r, c)
    BY <1>0, <1>2 DEF DeleteRealm, Idle, Settled
  <2>2. c \in decisions[Ref(r)] /\ client[<<r, c>>] = "live"
    BY <2>1 DEF Configured, Held
  <2>3. pl[Ref(r)].fin
    BY <1>0, <2>2 DEF FirstFinalized
  <2>4. realm[r].fin /\ strategy[r].phase = "live"
    BY <2>1 DEF RealmShape, DexShape
  <2>5. ns[r] = "live"
    <3>1. ns[r] \in Phase
      BY DEF Types
    <3> QED
      BY <2>1, <2>2, <3>1 DEF DexShape, Phase
  <2>6. UNCHANGED decisions /\ realm'[r].phase = "terminating"
    BY <1>2, <2>4 DEF DeleteRealm, plVars, Types, RealmType
  <2>7. ~(ar.pc = "emptied" /\ ar.r = r)
    BY <2>1 DEF ArShape
  <2> QED
    BY <1>1, <2>1, <2>2, <2>3, <2>4, <2>5, <2>6, <2>7 DEF Held, Reachable, Ref
<1>3. CASE ~DeleteRealm(r)
  <2>1. realm'[r].phase = realm[r].phase
    <3>1. ~CreateRealm(r)
      BY DEF CreateRealm, Held
    <3> QED
      BY <1>3, <3>1, UserRealms
  <2>2. ASSUME realm[r].phase = "terminating"
        PROVE  decisions'[Ref(r)] = decisions[Ref(r)]
    <3>1. ASSUME NEW p \in Placements, NEW d \in Clusters, Select(p, d) \/ Deselect(p, d)
          PROVE  decisions'[Ref(r)] = decisions[Ref(r)]
      <4>1. p # Ref(r)
        BY <1>0, <2>2, <3>1 DEF Select, Deselect, Quiet, Idle, Settled
      <4> QED
        BY <1>0, <3>1, <4>1 DEF Select, Deselect, Types
    <3>2. CASE UNCHANGED decisions
      BY <3>2
    <3> QED
      BY <3>1, <3>2 DEF User, CreateRealm, DeleteRealm, Unplace, Replace, plVars
  <2> QED
    BY <1>1, <2>1, <2>2 DEF Held, Reachable, Ref
<1> QED
  BY <1>2, <1>3

LEMMA HeldByCleaners ==
  ASSUME Types, NEW r \in Realms, NEW c \in Clusters, Held(r, c), Cleaners
  PROVE  Held(r, c)'
<1>1. UNCHANGED <<realm, strategy, ar, pw>>
  BY CleanersLeave
<1>2. ASSUME Reachable(r, c)
      PROVE  Reachable(r, c)'
  <2>1. ns'[r] = "live" /\ client'[<<r, c>>] = "live"
    <3>1. ASSUME NEW q \in Realms, NEW d \in Clusters, OAuthGone(q, d) \/ ClientGone(q, d)
          PROVE  ns'[r] = "live" /\ client'[<<r, c>>] = "live"
      BY <1>2, <3>1 DEF OAuthGone, ClientGone, Reachable, Types, dexVars
    <3>2. ASSUME NEW q \in Realms, SweepNamespace(q)
          PROVE  ns'[r] = "live" /\ client'[<<r, c>>] = "live"
      BY <1>2, <3>2 DEF SweepNamespace, Reachable, Types
    <3>3. CASE UNCHANGED <<ns, client>>
      BY <1>2, <3>3 DEF Reachable
    <3> QED
      BY <3>1, <3>2, <3>3 DEF Cleaners, ServerGone, OperatorGone, Collect, dexVars, configVars
  <2>2. PlacementsKept
    BY CleanersTypes
  <2> QED
    BY <1>1, <1>2, <2>1, <2>2, RefType DEF PlacementsKept, Reachable, Ref
<1> QED
  BY <1>1, <1>2 DEF Held

LEMMA StillReachableStep ==
  ASSUME CleanupInv, [Next]_vars
  PROVE  StillReachable'
<1> USE DEF CleanupInv
<1>0. UNCHANGED scenario
  BY NextCases, ArLeaves, StLeaves, PwLeaves, UserLeaves, CleanersLeave DEF vars
<1>1. SUFFICES ASSUME Without({"hasty", "reselect"}), NEW r \in Realms, NEW c \in Clusters,
                      oauth'[<<r, c>>] # "none"
               PROVE  Held(r, c)'
  BY <1>0 DEF StillReachable, Held, Without
<1>2. oauth[<<r, c>>] # "none" => Held(r, c)
  BY <1>1 DEF StillReachable, Held
<1>3. CASE ArStep
  BY <1>1, <1>2, <1>3, HeldByAr, ArLeaves DEF configVars
<1>4. CASE StStep
  BY <1>1, <1>2, <1>4, HeldBySt, StLeaves DEF configVars
<1>5. CASE PwStep
  <2>1. CASE oauth[<<r, c>>] # "none"
    BY <1>2, <1>5, <2>1, HeldByPw
  <2>2. CASE oauth[<<r, c>>] = "none"
    <3>1. CreateClusterOAuth /\ r = pw.r
      BY <1>1, <1>5, <2>2, PwOAuths
    <3>2. realm[r].phase = "live"
      BY <1>1, <3>1 DEF CreateClusterOAuth, CreatesForLive
    <3> QED
      BY <1>5, <3>2, PwLeaves DEF Held
  <2> QED
    BY <2>1, <2>2
<1>6. CASE User
  BY <1>1, <1>2, <1>6, HeldByUser, UserLeaves DEF configVars
<1>7. CASE Cleaners
  <2>1. oauth[<<r, c>>] # "none"
    <3>1. ASSUME NEW q \in Realms, NEW d \in Clusters, OAuthGone(q, d)
          PROVE  oauth[<<r, c>>] # "none"
      BY <1>1, <3>1 DEF OAuthGone, Types
    <3>2. CASE UNCHANGED oauth
      BY <1>1, <3>2
    <3> QED
      BY <1>7, <3>1, <3>2 DEF Cleaners, ClientGone, ServerGone, SweepNamespace, OperatorGone,
                              Collect, configVars
  <2> QED
    BY <1>2, <1>7, <2>1, HeldByCleaners
<1>8. CASE UNCHANGED vars
  BY <1>1, <1>2, <1>8 DEF Held, Reachable, Ref, vars
<1> QED
  BY <1>3, <1>4, <1>5, <1>6, <1>7, <1>8, NextCases

-----------------------------------------------------------------------------
(* The theorems.                                                           *)

LEMMA InitCleanup == Init => CleanupInv
<1>1. SUFFICES ASSUME Init PROVE CleanupInv
  OBVIOUS
<1>2. Types
  BY <1>1, InitTypes
<1>3. RealmShape /\ ArShape /\ DexShape /\ PwShape
  BY <1>1 DEF Init, RealmShape, ArShape, DexShape, PwShape, NoRealm, NoStrategy, IdleAr, IdlePw
<1>4. OperatorInv /\ OperatorOwned /\ OneByOne /\ OperatorFirst
  BY <1>1, InitOperator DEF Init, OperatorOwned, OneByOne, OperatorFirst, NoRealm, NoOperator, IdleAr
<1>5. FirstFinalized /\ CreatesForLive /\ StillReachable
  BY <1>1 DEF Init, FirstFinalized, CreatesForLive, StillReachable, IdlePw
<1> QED
  BY <1>2, <1>3, <1>4, <1>5 DEF CleanupInv

LEMMA CleanupStep == CleanupInv /\ [Next]_vars => CleanupInv'
<1>1. SUFFICES ASSUME CleanupInv, [Next]_vars PROVE CleanupInv'
  OBVIOUS
<1>2. Types' /\ RealmShape' /\ ArShape' /\ DexShape' /\ PwShape'
  BY <1>1, TypesStep, RealmShapeStep, ArShapeStep, DexShapeStep, PwShapeStep DEF CleanupInv
<1>3. OperatorInv' /\ OperatorOwned' /\ OneByOne' /\ OperatorFirst'
  BY <1>1, NextKeeps, OperatorOwnedStep, OneByOneStep, OperatorFirstStep DEF CleanupInv
<1>4. FirstFinalized' /\ CreatesForLive'
  BY <1>1, FirstFinalizedStep, CreatesForLiveStep DEF CleanupInv
<1>5. StillReachable'
  BY <1>1, StillReachableStep
<1> QED
  BY <1>2, <1>3, <1>4, <1>5 DEF CleanupInv

(* What controllers, user and clean-up do to the objects of AuthRealms     *)
(* keeps to the invariant, however many AuthRealms, Placements and clusters*)
(* there are.                                                              *)
THEOREM CleanupInvHolds == Spec => []CleanupInv
<1>1. Init => CleanupInv
  BY InitCleanup
<1>2. CleanupInv /\ [Next]_vars => CleanupInv'
  BY CleanupStep
<1> QED
  BY <1>1, <1>2, PTL DEF Spec

(* Every variable keeps to its type, and a Placement that exists has an    *)
(* owner, on which isLastOwnerReference relies.                            *)
THEOREM LifecycleTypes == Spec => []TypeOK
<1>1. CleanupInv => TypeOK
  <2>1. ASSUME Types PROVE TypeOK
    <3>1. ASSUME NEW p \in Placements
          PROVE  /\ pl[p] \in [phase : Phase, fin : BOOLEAN, owners : Seq(Realms)]
                 /\ pl[p].phase # "none" => pl[p].owners # <<>>
      BY <2>1 DEF Types, PlacementType
    <3>2. pl \in [Placements -> [phase : Phase, fin : BOOLEAN, owners : Seq(Realms)]]
      BY <2>1, <3>1 DEF Types
    <3>3. /\ ar.r \in Realms \/ ar = IdleAr
          /\ st.r \in Realms \/ st = IdleSt
          /\ pw.p \in Placements \/ pw = IdlePw
      BY <2>1 DEF Types, ArTypes, StTypes, PwTypes
    <3> QED
      BY <2>1, <3>1, <3>2, <3>3 DEF TypeOK, Types, RealmType, StrategyType
  <2> QED
    BY <2>1 DEF CleanupInv
<1> QED
  BY <1>1, CleanupInvHolds, PTL

(* With the last AuthRealm the Dex operator goes (deleteDexOperator).      *)
THEOREM OperatorUninstalled == Spec => []UninstalledWithTheLast
<1>1. CleanupInv => UninstalledWithTheLast
  BY DEF CleanupInv, OperatorOwned, UninstalledWithTheLast, Without, May
<1> QED
  BY <1>1, CleanupInvHolds, PTL

(* A DexClient has the Dex operator that removes its finalizer, unless its *)
(* AuthRealm came when deleteDexOperator had listed the AuthRealms, or is  *)
(* deleted together with others.                                           *)
THEOREM DexClientsFinalized == Spec => []ClientsFinalized
<1>1. CleanupInv => ClientsFinalized
  <2>1. SUFFICES ASSUME CleanupInv, NEW rc \in Realms \X Clusters,
                        client[rc] # "none", rc[1] \notin late,
                        realm[rc[1]].phase = "live" \/ Without({"together"})
                 PROVE  operator["namespace"] = "live"
    BY DEF ClientsFinalized
  <2>2. PICK r \in Realms, c \in Clusters : rc = <<r, c>>
    OBVIOUS
  <2>3. ns[r] # "none"
    BY <2>1, <2>2 DEF CleanupInv, DexShape
  <2> QED
    BY <2>1, <2>2, <2>3 DEF CleanupInv, OperatorFirst
<1> QED
  BY <1>1, CleanupInvHolds, PTL

(* Of an AuthRealm that is gone nothing is left (processAuthRealmDeletion).*)
THEOREM DeletionComplete == Spec => []NothingLeftBehind
<1>1. CleanupInv => NothingLeftBehind
  <2>1. SUFFICES ASSUME CleanupInv, Without({"hasty", "reselect"}), NEW r \in Realms,
                        realm[r].phase = "none"
                 PROVE  /\ server[r] = "none" /\ ns[r] = "none" /\ strategy[r].phase = "none"
                        /\ \A c \in Clusters : client[<<r, c>>] = "none" /\ oauth[<<r, c>>] = "none"
    BY DEF NothingLeftBehind
  <2>2. /\ ns[r] = "none" /\ strategy[r].phase = "none" /\ server[r] = "none"
        /\ \A c \in Clusters : client[<<r, c>>] = "none"
    BY <2>1 DEF CleanupInv, DexShape
  <2>3. \A c \in Clusters : oauth[<<r, c>>] = "none"
    BY <2>1 DEF CleanupInv, StillReachable
  <2> QED
    BY <2>2, <2>3
<1> QED
  BY <1>1, CleanupInvHolds, PTL

-----------------------------------------------------------------------------
(* The Dex operator of the AuthRealms that are Applied, whatever users do. *)

(* From its List until the operator is gone or installed again,            *)
(* deleteDexOperator works against no AuthRealm that was created before,   *)
(* and what a Reconcile has installed stays installed.                     *)
THEOREM OperatorInvariance == Spec => []OperatorInv
<1>1. CleanupInv => OperatorInv
  BY DEF CleanupInv
<1> QED
  BY <1>1, CleanupInvHolds, PTL

(* deleteDexOperator never takes the operator from an AuthRealm that is    *)
(* Applied, unless it was created when the AuthRealms had been listed.     *)
THEOREM OperatorProtected == Spec => []OperatorServes
<1>1. OperatorInv => OperatorServes
  BY DEF OperatorInv
<1> QED
  BY OperatorInvariance, <1>1, PTL

=============================================================================
