----------------------- MODULE LifecycleSecretsProofs -----------------------
(***************************************************************************)
(* Proof that no client secret is left when an AuthRealm is gone.          *)
(*                                                                         *)
(* A secret is only deleted along with a ClusterOAuth, and the Placement   *)
(* controller makes it two steps before.  So each secret has its           *)
(* ClusterOAuth, or the worker is about to create that, or (the secret was *)
(* made for a ClusterOAuth on its way out) the next Reconcile of the       *)
(* Placement creates it, before the AuthRealm can be deleted.  This last   *)
(* case holds only because the Placement of an AuthRealm that is worked    *)
(* for keeps the AuthRealm among its owners and is not deleted.            *)
(***************************************************************************)
EXTENDS LifecycleProofs

Calm == Without({"hasty", "reselect", "unplace"})

(* Four parts hold under all disturbances.  A Strategy that is gone has no *)
(* Placement, and one that the worker is at is not gone.                   *)
StShape ==
  /\ \A r \in Realms : strategy[r].phase = "none" => ~strategy[r].placed
  /\ st.pc # "idle" => strategy[st.r].phase # "none" /\ strategy[st.r].fin

(* The owners of a derived Placement are Strategies that refer to it.      *)
OwnersRefer ==
  /\ \A p \in Placements : \A r \in Owners(pl[p]) : Ref(r) = p
  /\ \A r \in pw.owners : Ref(r) = pw.p

(* A Strategy comes after the namespace of the DexServer.                  *)
NamespaceFirst ==
  \A r \in Realms : realm[r].phase = "live" =>
    /\ strategy[r].phase # "none" => ns[r] # "none"
    /\ ar.pc = "strategy" /\ ar.r = r => ns[r] # "none"

(* createConfigs works for one cluster at a time.                          *)
OneCluster == pw.pc \in {"client", "oauth"} => \A c, d \in pw.c : c = d

(* The Placement of the user outlives the Strategies derived from it.      *)
UserPlaced ==
  Calm =>
    /\ \A r \in Realms : strategy[r].placed => Ref(r) \in userPl
    /\ st.pc \in {"place", "own"} => Ref(st.r) \in userPl

(* The AuthRealms the Placement controller works for or has worked for.    *)
Working(r) == pw.pc \notin {"idle", "next"} /\ pw.r = r

Engaged(r) ==
  \/ r \in pw.todo
  \/ Working(r)
  \/ \E c \in Clusters : <<r, c>> \in secrets \/ oauth[<<r, c>>] # "none"

(* They have placed their Strategy, they stay owners of the Placement that *)
(* is reconciled, and what is created for them is for selected clusters.   *)
EngagedPlaced ==
  Calm => \A r \in Realms : realm[r].phase = "live" /\ Engaged(r) => strategy[r].placed

OwnersStay ==
  Calm => \A r \in pw.owners : realm[r].phase = "live" /\ Engaged(r) => r \in Owners(pl[pw.p])

CreatesSelected ==
  Calm => /\ pw.pc \in {"create", "client", "oauth"} => pw.clusters \subseteq decisions[pw.p]
          /\ pw.pc \in {"client", "oauth"} => pw.c \subseteq decisions[pw.p]

(* A ClusterOAuth that goes while its cluster is selected is made again.   *)
Remade(r, c) ==
  realm[r].phase = "live" /\ oauth[<<r, c>>] = "terminating" /\ c \in decisions[Ref(r)] =>
    /\ r \in Owners(pl[Ref(r)])
    /\ pl[Ref(r)].phase = "live" \/ pw.p # Ref(r)

GoingRemade == Calm => \A r \in Realms, c \in Clusters : Remade(r, c)

(* What keeps a secret: the ClusterOAuth, its creation, or the next one.   *)
Pending(r, c) == pw.pc \in {"client", "oauth"} /\ pw.r = r /\ c \in pw.c

ToBeMade(r, c) ==
  /\ realm[r].phase = "live"
  /\ c \in decisions[Ref(r)]
  /\ r \in Owners(pl[Ref(r)])
  /\ pl[Ref(r)].phase = "live"
  /\ pl[Ref(r)].fin

Kept(r, c) == oauth[<<r, c>>] = "live" \/ Pending(r, c) \/ ToBeMade(r, c)

SecretsKept == Calm => \A r \in Realms, c \in Clusters : <<r, c>> \in secrets => Kept(r, c)

Shapes == StShape /\ OwnersRefer /\ NamespaceFirst /\ OneCluster

SecretsInv ==
  /\ CleanupInv /\ Shapes
  /\ UserPlaced /\ EngagedPlaced /\ OwnersStay /\ CreatesSelected /\ GoingRemade /\ SecretsKept

LEMMA CalmKept ==
  ASSUME [Next]_vars
  PROVE  UNCHANGED scenario /\ (Calm' <=> Calm)
<1>1. UNCHANGED scenario
  BY NextCases, ArLeaves, StLeaves, PwLeaves, UserLeaves, CleanersLeave DEF vars
<1> QED
  BY <1>1 DEF Calm, Without

LEMMA CalmIs ==
  ASSUME Calm
  PROVE  /\ ~May("hasty") /\ ~May("reselect") /\ ~May("unplace")
         /\ Without({"reselect"}) /\ Without({"hasty", "reselect"})
BY DEF Calm, Without, May

-----------------------------------------------------------------------------
(* What the steps do to the Strategies.                                    *)

LEMMA ArStrategies ==
  ASSUME Types, ArShape, ArStep
  PROVE  \A r \in Realms :
           /\ realm[r].phase = "live" => strategy'[r].placed = strategy[r].placed
           /\ strategy'[r].placed => strategy[r].placed
           /\ strategy'[r].phase = "none" => strategy'[r] = strategy[r] \/ ~strategy'[r].placed
           /\ strategy[r].phase # "none" /\ strategy[r].fin =>
                strategy'[r].phase # "none" /\ strategy'[r].fin
           /\ strategy'[r].phase # "none" =>
                strategy[r].phase # "none" \/ (ar.pc = "strategy" /\ r = ar.r)
<1>1. CASE CreateStrategy
  BY <1>1 DEF CreateStrategy, Types, ArTypes, StrategyType
<1>2. CASE DeleteStrategy
  BY <1>2 DEF DeleteStrategy, DeletedStrategy, NoStrategy, ArShape, Types, ArTypes, StrategyType
<1>3. CASE UNCHANGED strategy
  BY <1>3
<1> QED
  BY <1>1, <1>2, <1>3 DEF ArStep, ArContinues, ArDeletes, ArWorks, Prepare, InstallDexOperator,
     CreateDexServer, FindNoClient, DeleteDexServer, DeleteDexNamespace,
     ListAuthRealms, DeleteDexOperator, Finish

LEMMA StStrategies ==
  ASSUME Types, StStep
  PROVE  \A r \in Realms :
           /\ strategy[r].phase = "live" /\ strategy[r].placed => strategy'[r].placed
           /\ strategy'[r].placed => strategy[r].placed \/ (PlaceStrategy /\ r = st.r)
           /\ strategy'[r].phase = "none" => strategy'[r] = strategy[r] \/ ~strategy'[r].placed
<1>1. ASSUME NEW q \in Realms, TakeStrategy(q), NEW r \in Realms
      PROVE  strategy'[r].placed = strategy[r].placed /\ strategy'[r].phase = strategy[r].phase
             /\ (strategy'[r].phase = "none" => strategy'[r] = strategy[r])
  BY <1>1 DEF TakeStrategy, Types, StrategyType
<1>2. ASSUME PlaceStrategy, NEW r \in Realms
      PROVE  /\ strategy[r].placed => strategy'[r].placed
             /\ strategy'[r].placed => strategy[r].placed \/ r = st.r
             /\ strategy'[r].phase = "none" => strategy'[r] = strategy[r]
  BY <1>2 DEF PlaceStrategy, Types, StrategyType
<1>3. ASSUME NEW q \in Realms, FinishStrategy(q), NEW r \in Realms
      PROVE  /\ strategy[r].phase = "live" => strategy'[r] = strategy[r]
             /\ strategy'[r] = strategy[r] \/ ~strategy'[r].placed
  BY <1>3 DEF FinishStrategy, NoStrategy, Types
<1>4. CASE UNCHANGED strategy
  BY <1>4
<1> QED
  BY <1>1, <1>2, <1>3, <1>4 DEF StStep, StContinues, StWorks, SkipStrategy,
     DeleteStrategyPlacement, GetStrategyPlacement, OwnPlacement, DeletePlacement

(* What a step of the Strategy controller leaves its worker with.          *)
LEMMA StWorker ==
  ASSUME Types, StStep
  PROVE  \/ st' = IdleSt
         \/ /\ st'.pc = "read" /\ st'.r \in Realms
            /\ strategy'[st'.r].phase = "live" /\ strategy'[st'.r].fin
         \/ /\ GetStrategyPlacement
            /\ st'.pc = "place" /\ st'.r = st.r /\ Ref(st.r) \in userPl /\ UNCHANGED strategy
         \/ /\ PlaceStrategy /\ st.pc = "place"
            /\ st'.pc = "own" /\ st'.r = st.r
            /\ strategy'[st.r].phase = "live" /\ strategy'[st.r].fin = strategy[st.r].fin
<1>1. ASSUME NEW q \in Realms, TakeStrategy(q)
      PROVE  /\ st'.pc = "read" /\ st'.r \in Realms
             /\ strategy'[st'.r].phase = "live" /\ strategy'[st'.r].fin
  BY <1>1 DEF TakeStrategy, Types, StrategyType
<1>2. CASE GetStrategyPlacement
  BY <1>2 DEF GetStrategyPlacement, Types, StTypes
<1>3. CASE PlaceStrategy
  BY <1>3 DEF PlaceStrategy, Types, StTypes, StrategyType
<1>4. CASE \E q \in Realms : DeletePlacement(q) \/ FinishStrategy(q)
  BY <1>4 DEF DeletePlacement, FinishStrategy, Types, StTypes
<1>5. CASE SkipStrategy \/ DeleteStrategyPlacement \/ OwnPlacement
  BY <1>5 DEF SkipStrategy, DeleteStrategyPlacement, OwnPlacement
<1> QED
  BY <1>1, <1>2, <1>3, <1>4, <1>5 DEF StStep, StContinues, StWorks

LEMMA StShapeStep ==
  ASSUME Types, ArShape, StShape, [Next]_vars
  PROVE  StShape'
<1>0. st.pc # "idle" => st.r \in Realms
  BY DEF Types, StTypes
<1>1. CASE ArStep
  <2>1. UNCHANGED st
    BY <1>1, ArLeaves
  <2>2. \A r \in Realms : strategy'[r].phase = "none" => ~strategy'[r].placed
    BY <1>1, ArStrategies DEF StShape
  <2>3. st.pc # "idle" => strategy'[st.r].phase # "none" /\ strategy'[st.r].fin
    BY <1>0, <1>1, ArStrategies DEF StShape
  <2> QED
    BY <2>1, <2>2, <2>3 DEF StShape
<1>2. CASE StStep
  <2>1. \A r \in Realms : strategy'[r].phase = "none" => ~strategy'[r].placed
    BY <1>2, StStrategies DEF StShape
  <2>2. ASSUME st'.pc # "idle"
        PROVE  strategy'[st'.r].phase # "none" /\ strategy'[st'.r].fin
    <3>1. st' # IdleSt
      BY <2>2 DEF IdleSt
    <3>2. GetStrategyPlacement \/ PlaceStrategy => st.pc # "idle"
      BY DEF GetStrategyPlacement, PlaceStrategy
    <3> QED
      BY <1>2, <3>1, <3>2, StWorker DEF StShape
  <2> QED
    BY <2>1, <2>2 DEF StShape
<1>3. CASE UNCHANGED <<strategy, st>>
  BY <1>3 DEF StShape
<1> QED
  BY <1>1, <1>2, <1>3, NextCases, PwLeaves, UserLeaves, CleanersLeave DEF vars

-----------------------------------------------------------------------------
(* The owners of a Placement are Strategies that refer to it.              *)

LEMMA OwnersRemoved ==
  ASSUME NEW x \in PlacementType, NEW r
  PROVE  Owners(RemoveOwner(x, r)) \subseteq Owners(x)
<1>. DEFINE last == Len(x.owners)
            left == [i \in 1 .. last - 1 |-> IF x.owners[i] = r THEN x.owners[last]
                                                                ELSE x.owners[i]]
<1>1. CASE r \notin Owners(x) \/ x.owners[last] = r
  BY <1>1 DEF RemoveOwner
<1>2. CASE ~(r \notin Owners(x) \/ x.owners[last] = r)
  <2>1. x.owners \in Seq(Realms) /\ x \in [phase : Phase, fin : BOOLEAN, owners : Seq(Realms)]
    BY DEF PlacementType
  <2>2. RemoveOwner(x, r) = [x EXCEPT !.owners = left]
    BY <1>2 DEF RemoveOwner
  <2>3. RemoveOwner(x, r).owners = left
    BY <2>1, <2>2
  <2>4. Owners(x) = {x.owners[i] : i \in 1 .. last} /\ last \in Nat
    BY <2>1, LenProperties DEF Owners
  <2>5. Owners(RemoveOwner(x, r)) = {left[i] : i \in 1 .. last - 1}
    BY <2>3 DEF Owners
  <2>6. 1 .. last # {}
    BY <1>2, <2>4
  <2>7. last \in 1 .. last /\ 1 .. last - 1 \subseteq 1 .. last
    BY <2>4, <2>6
  <2>8. ASSUME NEW i \in 1 .. last - 1
        PROVE  left[i] \in Owners(x)
    BY <2>4, <2>7
  <2> HIDE DEF left
  <2> QED
    BY <2>5, <2>8
<1> QED
  BY <1>1, <1>2

LEMMA OwnersAdded ==
  ASSUME NEW x \in PlacementType, NEW r \in Realms
  PROVE  Owners(WithOwner(x, r)) \subseteq Owners(x) \cup {r}
<1>1. x.owners \in Seq(Realms) /\ x \in [phase : Phase, fin : BOOLEAN, owners : Seq(Realms)]
  BY DEF PlacementType
<1>2. WithOwner(x, r).owners = IF r \in Owners(x) THEN x.owners ELSE Append(x.owners, r)
  BY <1>1 DEF WithOwner
<1>3. CASE r \in Owners(x)
  BY <1>2, <1>3 DEF Owners
<1>4. CASE r \notin Owners(x)
  <2>. DEFINE s == x.owners
              t == Append(s, r)
  <2>1. s \in Seq(Realms) /\ WithOwner(x, r).owners = t
    BY <1>1, <1>2, <1>4
  <2>2. DOMAIN t = 1 .. Len(s) + 1 /\ DOMAIN s = 1 .. Len(s) /\ Len(s) \in Nat
    BY <2>1, AppendProperties, LenProperties
  <2>3. \A i \in 1 .. Len(s) + 1 : t[i] = IF i <= Len(s) THEN s[i] ELSE r
    BY <2>1
  <2>4. ASSUME NEW i \in DOMAIN t
        PROVE  t[i] \in Owners(x) \cup {r}
    BY <2>2, <2>3 DEF Owners
  <2> HIDE DEF s, t
  <2> QED
    BY <2>1, <2>4 DEF Owners
<1> QED
  BY <1>3, <1>4

LEMMA OwnersCut ==
  ASSUME NEW x \in PlacementType, NEW i \in DOMAIN x.owners
  PROVE  Owners(WithoutOwner(x, i)) \subseteq Owners(x)
<1>. DEFINE s == x.owners
            n == Len(s)
            t == Cut(s, i, n)
<1>1. s \in Seq(Realms) /\ x \in [phase : Phase, fin : BOOLEAN, owners : Seq(Realms)]
  BY DEF PlacementType
<1>2. n \in Nat /\ DOMAIN s = 1 .. n
  BY <1>1, LenProperties
<1>3. WithoutOwner(x, i).owners = t
  BY <1>1 DEF WithoutOwner
<1>4. i \in 1 .. n
  BY <1>2
<1>5. IsCut(t, Realms, s, i, n)
  <2> HIDE DEF s
  <2> QED
    BY <1>1, <1>2, <1>4, CutSequence
<1> HIDE DEF s, n, t
<1>6. DOMAIN t = 1 .. n - 1
  BY <1>2, <1>4, <1>5, LenProperties DEF IsCut
<1>7. ASSUME NEW j \in 1 .. n - 1
      PROVE  t[j] \in Owners(x)
  <2>1. j \in 1 .. n /\ j + 1 \in 1 .. n
    BY <1>2
  <2>2. t[j] = s[j] \/ t[j] = s[j + 1]
    BY <1>5 DEF IsCut
  <2> QED
    BY <1>2, <2>1, <2>2 DEF Owners, s
<1> QED
  BY <1>3, <1>6, <1>7 DEF Owners

(* What a step adds to the owners of a Placement; and the Placement of a   *)
(* Strategy that lives, and whose Placement of the user is there, is not   *)
(* deleted.                                                                *)
Rooted(r) ==
  /\ strategy[r].phase = "live"
  /\ Ref(r) \in userPl
  /\ r \in Owners(pl[Ref(r)])
  /\ pl[Ref(r)].phase = "live"

PlacementsLast ==
  /\ \A p \in Placements : \A r \in Owners(pl'[p]) : r \in Owners(pl[p]) \/ Ref(r) = p
  /\ \A r \in Realms : Rooted(r) => pl'[Ref(r)].phase = "live"

LEMMA OneLasts ==
  ASSUME Types, NEW p \in Placements, NEW y, pl' = [pl EXCEPT ![p] = y],
         \A r \in Owners(y) : r \in Owners(pl[p]) \/ Ref(r) = p,
         \/ pl[p].phase = "live" => y.phase = "live"
         \/ \A r \in Realms : ~(Rooted(r) /\ Ref(r) = p)
  PROVE  PlacementsLast
<1>1. ASSUME NEW q \in Placements
      PROVE  pl'[q] = IF q = p THEN y ELSE pl[q]
  BY DEF Types
<1>2. ASSUME NEW q \in Placements, NEW r \in Owners(pl'[q])
      PROVE  r \in Owners(pl[q]) \/ Ref(r) = q
  BY <1>1, <1>2
<1>3. ASSUME NEW r \in Realms, Rooted(r)
      PROVE  pl'[Ref(r)].phase = "live"
  <2>1. Ref(r) \in Placements /\ pl[Ref(r)].phase = "live"
    BY <1>3, RefType DEF Rooted
  <2> QED
    BY <1>1, <1>3, <2>1
<1> QED
  BY <1>2, <1>3 DEF PlacementsLast

LEMMA SameLast ==
  ASSUME UNCHANGED pl
  PROVE  PlacementsLast
BY DEF PlacementsLast, Rooted

LEMMA DeletedOwners ==
  ASSUME Types, NEW p \in Placements
  PROVE  Owners(DeletedPlacement(p)) \subseteq Owners(pl[p])
<1>1. CASE pl[p].fin
  BY <1>1, Deleted DEF Owners
<1>2. CASE ~pl[p].fin
  BY <1>2, Deleted DEF Owners, NoPlacement
<1> QED
  BY <1>1, <1>2

(* A Placement with one owner is deleted along with it.                    *)
LEMMA OnlyOwner ==
  ASSUME NEW x \in PlacementType, Len(x.owners) = 1, NEW i \in DOMAIN x.owners, NEW r \in Owners(x)
  PROVE  r = x.owners[i]
<1>1. x.owners \in Seq(Realms)
  BY DEF PlacementType
<1>2. DOMAIN x.owners = 1 .. 1
  BY <1>1, LenProperties
<1> QED
  BY <1>2 DEF Owners

LEMMA StLasts ==
  ASSUME Types, StStep
  PROVE  PlacementsLast
<1>1. CASE DeleteStrategyPlacement
  <2>1. Ref(st.r) \in Placements /\ Ref(st.r) \notin userPl
    BY <1>1, RefType DEF DeleteStrategyPlacement, Types, StTypes
  <2>2. pl' = [pl EXCEPT ![Ref(st.r)] = DeletedPlacement(Ref(st.r))]
    BY <1>1 DEF DeleteStrategyPlacement
  <2>3. \A r \in Realms : ~(Rooted(r) /\ Ref(r) = Ref(st.r))
    BY <2>1 DEF Rooted
  <2> QED
    BY <2>1, <2>2, <2>3, DeletedOwners, OneLasts
<1>2. ASSUME NEW q \in Realms, DeletePlacement(q)
      PROVE  PlacementsLast
  <2>1. Ref(q) \in Placements
    BY RefType
  <2>2. pl' = [pl EXCEPT ![Ref(q)] = DeletedPlacement(Ref(q))]
    BY <1>2 DEF DeletePlacement
  <2>3. pl[Ref(q)].owners = <<q>> /\ strategy[q].phase = "terminating"
    BY <1>2 DEF DeletePlacement, IsLastOwner
  <2>4. \A r \in Realms : ~(Rooted(r) /\ Ref(r) = Ref(q))
    BY <2>3 DEF Rooted, Owners
  <2> QED
    BY <2>1, <2>2, <2>4, DeletedOwners, OneLasts
<1>3. ASSUME NEW q \in Realms, FinishStrategy(q)
      PROVE  PlacementsLast
  <2>. DEFINE p == Ref(q)
              y == RemoveOwner(pl[p], q)
  <2>1. p \in Placements /\ pl[p] \in PlacementType
    BY RefType DEF Types
  <2>2. pl' = [pl EXCEPT ![p] = y]
    BY <1>3, <2>1 DEF FinishStrategy
  <2>3. y.phase = pl[p].phase /\ Owners(y) \subseteq Owners(pl[p])
    BY <2>1, OwnerRemoved, OwnersRemoved
  <2> HIDE DEF y, p
  <2> QED
    BY <2>1, <2>2, <2>3, OneLasts
<1>4. CASE OwnPlacement /\ pl[Ref(st.r)] = st.pl
  <2>. DEFINE p == Ref(st.r)
              y == WithOwner(pl[p], st.r)
  <2>1. p \in Placements /\ pl[p] \in PlacementType /\ st.r \in Realms
    BY <1>4, RefType DEF OwnPlacement, Types, StTypes
  <2>2. pl' = [pl EXCEPT ![p] = y]
    BY <1>4, <2>1 DEF OwnPlacement, Types, PlacementType, WithOwner
  <2>3. pl[p].phase = "live" => y.phase = "live"
    BY <2>1 DEF WithOwner, PlacementType
  <2>4. Owners(y) \subseteq Owners(pl[p]) \cup {st.r}
    BY <2>1, OwnersAdded
  <2>5. \A r \in Owners(y) : r \in Owners(pl[p]) \/ Ref(r) = p
    BY <2>4
  <2> HIDE DEF y, p
  <2> QED
    BY <2>1, <2>2, <2>3, <2>5, OneLasts
<1>5. CASE UNCHANGED pl
  BY <1>5, SameLast
<1> QED
  BY <1>1, <1>2, <1>3, <1>4, <1>5 DEF StStep, StContinues, StWorks, TakeStrategy, SkipStrategy,
     GetStrategyPlacement, PlaceStrategy, OwnPlacement, plVars

LEMMA PwLasts ==
  ASSUME Types, PwStep
  PROVE  PlacementsLast
<1>1. ASSUME NEW p \in Placements, TakePlacement(p)
      PROVE  PlacementsLast
  <2>. DEFINE y == [pl[p] EXCEPT !.fin = TRUE]
  <2>1. pl' = [pl EXCEPT ![p] = y]
    BY <1>1 DEF TakePlacement
  <2>2. pl[p] \in PlacementType
    BY DEF Types
  <2>3. y.phase = pl[p].phase /\ Owners(y) = Owners(pl[p])
    BY <2>2 DEF PlacementType, Owners
  <2> HIDE DEF y
  <2> QED
    BY <2>1, <2>3, OneLasts
<1>2. ASSUME NEW p \in Placements, FinishPlacement(p)
      PROVE  PlacementsLast
  <2>1. pl' = [pl EXCEPT ![p] = NoPlacement] /\ pl[p].phase # "live"
    BY <1>2 DEF FinishPlacement
  <2>2. Owners(NoPlacement) = {}
    BY DEF Owners, NoPlacement
  <2> QED
    BY <2>1, <2>2, OneLasts
<1>3. CASE UNCHANGED pl
  BY <1>3, SameLast
<1> QED
  BY <1>1, <1>2, <1>3 DEF PwStep, PwContinues, PwWorks, NextStrategy, DeleteObsoleteOAuth,
     DeleteObsoleteClient, NothingObsolete, CreateClientSecret, CreateDexClient,
     CreateClusterOAuth, ConfigsCreated, DeleteSelectedOAuth, plVars

LEMMA CleanersLast ==
  ASSUME Types, Cleaners
  PROVE  PlacementsLast
<1>1. ASSUME NEW p \in Placements, Collect(p)
      PROVE  PlacementsLast
  <2>1. pl[p] \in PlacementType
    BY DEF Types
  <2>2. PICK i \in DOMAIN pl[p].owners :
          /\ strategy[pl[p].owners[i]].phase = "none"
          /\ pl' = [pl EXCEPT ![p] =
                       IF Len(pl[p].owners) = 1 THEN DeletedPlacement(p)
                       ELSE [@ EXCEPT !.owners = SubSeq(pl[p].owners, 1, i - 1)
                                                   \o SubSeq(pl[p].owners, i + 1, Len(pl[p].owners))]]
    BY <1>1 DEF Collect
  <2>3. CASE Len(pl[p].owners) = 1
    <3>1. pl' = [pl EXCEPT ![p] = DeletedPlacement(p)]
      BY <2>2, <2>3
    <3>2. \A r \in Realms : ~(Rooted(r) /\ Ref(r) = p)
      BY <2>1, <2>2, <2>3, OnlyOwner DEF Rooted
    <3> QED
      BY <3>1, <3>2, DeletedOwners, OneLasts
  <2>4. CASE Len(pl[p].owners) # 1
    <3>. DEFINE y == WithoutOwner(pl[p], i)
    <3>1. pl' = [pl EXCEPT ![p] = y]
      BY <2>2, <2>4 DEF Cut, WithoutOwner
    <3>2. Owners(y) \subseteq Owners(pl[p])
      BY <2>1, OwnersCut
    <3>3. y.phase = pl[p].phase
      BY <2>1 DEF WithoutOwner, PlacementType
    <3> HIDE DEF y
    <3> QED
      BY <3>1, <3>2, <3>3, OneLasts
  <2> QED
    BY <2>3, <2>4
<1>2. CASE UNCHANGED pl
  BY <1>2, SameLast
<1> QED
  BY <1>1, <1>2 DEF Cleaners, OAuthGone, ClientGone, ServerGone, SweepNamespace, OperatorGone, plVars

LEMMA EachLasts ==
  ASSUME Types, [Next]_vars
  PROVE  PlacementsLast
BY NextCases, StLasts, PwLasts, CleanersLast, SameLast, ArLeaves, UserLeaves DEF plVars, vars

(* What a step of the Placement controller leaves its worker with.         *)
Continues == pw'.p = pw.p /\ pw'.owners = pw.owners /\ UNCHANGED <<pl, decisions>>

LEMMA PwWorker ==
  ASSUME Types, PwStep
  PROVE  \/ pw' = IdlePw
         \/ \E p \in Placements : /\ TakePlacement(p)
                                  /\ pw'.pc = "next" /\ pw'.p = p /\ pw'.owners = Owners(pl[p])
                                  /\ pw'.todo = StrategiesOf(p)
         \/ /\ Continues /\ NextStrategy
            /\ pw'.pc = "obsolete" /\ pw'.r \in pw.todo /\ pw'.todo \subseteq pw.todo
         \/ /\ Continues /\ pw'.r = pw.r /\ pw'.todo = pw.todo
            /\ pw.pc \in {"obsolete", "create", "client", "oauth"}
            /\ \/ pw'.pc = "next"
               \/ NothingObsolete /\ pw'.pc = "create" /\ pw'.clusters = decisions[pw.p]
               \/ /\ CreateClientSecret
                  /\ pw.pc = "create" /\ pw'.pc = "client" /\ pw'.clusters \subseteq pw.clusters
                  /\ \E c \in pw.clusters : pw'.c = {c} /\ secrets' = secrets \cup {<<pw.r, c>>}
               \/ /\ CreateDexClient
                  /\ pw.pc = "client" /\ pw'.pc = "oauth"
                  /\ pw'.clusters = pw.clusters /\ pw'.c = pw.c
               \/ /\ CreateClusterOAuth
                  /\ pw.pc = "oauth" /\ pw'.pc = "create" /\ pw'.clusters = pw.clusters
<1> USE DEF Continues
<1>1. ASSUME NEW p \in Placements, TakePlacement(p)
      PROVE  /\ pw'.pc = "next" /\ pw'.p = p /\ pw'.owners = Owners(pl[p])
             /\ pw'.todo = StrategiesOf(p)
  BY <1>1 DEF TakePlacement, IdlePw
<1>2. CASE NextStrategy
  <2>1. ASSUME NEW r \in pw.todo,
               pw' = [pw EXCEPT !.pc = "obsolete", !.r = r, !.todo = @ \ {r},
                                !.live = realm[r].phase = "live"]
        PROVE  /\ Continues
               /\ pw'.pc = "obsolete" /\ pw'.r \in pw.todo /\ pw'.todo \subseteq pw.todo
    BY <1>2, <2>1 DEF NextStrategy, plVars, Types, PwTypes
  <2> QED
    BY <1>2, <2>1 DEF NextStrategy
<1>3. CASE NothingObsolete
  <2>1. pw' = (IF pw.live THEN [pw EXCEPT !.pc = "create", !.clusters = decisions[pw.p]]
                          ELSE [pw EXCEPT !.pc = "next"])
    BY <1>3 DEF NothingObsolete
  <2>2. /\ Continues /\ pw'.r = pw.r /\ pw'.todo = pw.todo
        /\ pw'.pc = "next" \/ (pw'.pc = "create" /\ pw'.clusters = decisions[pw.p])
    BY <1>3, <2>1 DEF NothingObsolete, plVars, Types, PwTypes
  <2> QED
    BY <1>3, <2>2 DEF NothingObsolete
<1>4. CASE CreateClientSecret
  <2>1. PICK c \in pw.clusters :
          /\ secrets' = secrets \cup {<<pw.r, c>>}
          /\ pw' = [pw EXCEPT !.pc = "client", !.c = {c}, !.clusters = @ \ {c}]
    BY <1>4 DEF CreateClientSecret
  <2>2. /\ Continues /\ pw'.r = pw.r /\ pw'.todo = pw.todo
        /\ pw'.pc = "client" /\ pw'.clusters \subseteq pw.clusters /\ pw'.c = {c}
    BY <1>4, <2>1 DEF CreateClientSecret, plVars, Types, PwTypes
  <2> QED
    BY <1>4, <2>1, <2>2 DEF CreateClientSecret
<1>5. CASE CreateDexClient
  <2>1. pw' = IdlePw \/ pw' = [pw EXCEPT !.pc = "oauth"]
    BY <1>5 DEF CreateDexClient
  <2>2. ASSUME pw' = [pw EXCEPT !.pc = "oauth"]
        PROVE  /\ Continues /\ pw'.r = pw.r /\ pw'.todo = pw.todo
               /\ pw'.pc = "oauth" /\ pw'.clusters = pw.clusters /\ pw'.c = pw.c
    BY <1>5, <2>2 DEF CreateDexClient, plVars, Types, PwTypes
  <2> QED
    BY <1>5, <2>1, <2>2 DEF CreateDexClient
<1>6. CASE CreateClusterOAuth
  <2>1. /\ Continues /\ pw'.r = pw.r /\ pw'.todo = pw.todo
        /\ pw'.pc = "create" /\ pw'.clusters = pw.clusters
    BY <1>6 DEF CreateClusterOAuth, plVars, Types, PwTypes
  <2> QED
    BY <1>6, <2>1 DEF CreateClusterOAuth
<1>7. CASE ConfigsCreated
  <2>1. Continues /\ pw'.r = pw.r /\ pw'.todo = pw.todo /\ pw'.pc = "next"
    BY <1>7 DEF ConfigsCreated, plVars, Types, PwTypes
  <2> QED
    BY <1>7, <2>1 DEF ConfigsCreated
<1>8. CASE \/ DeleteObsoleteOAuth \/ DeleteObsoleteClient
           \/ \E p \in Placements : DeleteSelectedOAuth(p) \/ FinishPlacement(p)
  BY <1>8 DEF DeleteObsoleteOAuth, DeleteObsoleteClient, DeleteSelectedOAuth, FinishPlacement,
              Types, PwTypes
<1> HIDE DEF Continues
<1> QED
  BY <1>1, <1>2, <1>3, <1>4, <1>5, <1>6, <1>7, <1>8 DEF PwStep, PwContinues, PwWorks

(* In particular, of what it reconciles and for whom.                      *)
LEMMA PwPlacement ==
  ASSUME Types, [Next]_vars
  PROVE  \/ pw' = IdlePw
         \/ \E p \in Placements : /\ TakePlacement(p) /\ PwStep
                                  /\ pw'.pc = "next" /\ pw'.p = p /\ pw'.owners = Owners(pl[p])
         \/ pw.pc # "idle" /\ pw'.p = pw.p /\ pw'.owners = pw.owners
<1>1. CASE PwStep
  BY <1>1, PwWorker DEF Continues, NextStrategy
<1>2. CASE UNCHANGED pw
  BY <1>2 DEF Types, PwTypes
<1> QED
  BY <1>1, <1>2, NextCases, ArLeaves, StLeaves, UserLeaves, CleanersLeave DEF vars

LEMMA OwnersReferStep ==
  ASSUME Types, OwnersRefer, [Next]_vars
  PROVE  OwnersRefer'
<1>1. \A p \in Placements : \A r \in Owners(pl'[p]) : Ref(r) = p
  BY EachLasts DEF PlacementsLast, OwnersRefer
<1>2. \A r \in pw'.owners : Ref(r) = pw'.p
  BY PwPlacement DEF OwnersRefer, IdlePw
<1> QED
  BY <1>1, <1>2 DEF OwnersRefer, Owners, Ref

LEMMA OneClusterStep ==
  ASSUME Types, OneCluster, [Next]_vars
  PROVE  OneCluster'
<1>1. CASE PwStep
  BY <1>1, PwWorker DEF OneCluster, IdlePw
<1>2. CASE UNCHANGED pw
  BY <1>2 DEF OneCluster
<1> QED
  BY <1>1, <1>2, NextCases, ArLeaves, StLeaves, UserLeaves, CleanersLeave DEF vars

(* An AuthRealm that is live was live before, or has just been created.    *)
LEMMA LiveBefore ==
  ASSUME Types, RealmShape, ArShape, [Next]_vars, NEW r \in Realms, realm'[r].phase = "live"
  PROVE  realm[r].phase = "live" \/ (User /\ CreateRealm(r))
<1>1. CASE ArStep
  BY <1>1, ArRealms DEF NoRealm
<1>2. CASE User
  BY <1>2, UserRealms DEF NoRealm
<1>3. CASE UNCHANGED realm
  BY <1>3
<1> QED
  BY <1>1, <1>2, <1>3, NextCases, StLeaves, PwLeaves, CleanersLeave DEF vars

(* The namespace of a DexServer is only deleted along with its AuthRealm.  *)
LEMMA NamespacesStay ==
  ASSUME Types, DexShape, ArShape, [Next]_vars, NEW r \in Realms, realm[r].phase = "live",
         ns[r] # "none"
  PROVE  ns'[r] # "none"
<1>1. CASE CreateDexServer \/ DeleteDexNamespace
  BY <1>1 DEF CreateDexServer, DeleteDexNamespace, Types, ArTypes
<1>2. ASSUME NEW q \in Realms, SweepNamespace(q)
      PROVE  ns'[r] # "none"
  BY <1>2 DEF SweepNamespace, DexShape, Types
<1>3. CASE UNCHANGED ns
  BY <1>3
<1>4. ArStep => CreateDexServer \/ DeleteDexNamespace \/ UNCHANGED ns
  BY DEF ArStep, ArContinues, ArDeletes, ArWorks, Prepare, InstallDexOperator, CreateStrategy,
         FindNoClient, DeleteDexServer, DeleteStrategy, ListAuthRealms,
         DeleteDexOperator, Finish, dexVars
<1>5. Cleaners => (\E q \in Realms : SweepNamespace(q)) \/ UNCHANGED ns
  BY DEF Cleaners, OAuthGone, ClientGone, ServerGone, OperatorGone, Collect, dexVars
<1> QED
  BY <1>1, <1>2, <1>3, <1>4, <1>5, NextCases, StLeaves, PwLeaves, UserLeaves DEF vars, dexVars

LEMMA NamespaceFirstStep ==
  ASSUME Types, RealmShape, ArShape, DexShape, NamespaceFirst, [Next]_vars
  PROVE  NamespaceFirst'
<1>1. SUFFICES ASSUME NEW r \in Realms, realm'[r].phase = "live",
                      strategy'[r].phase # "none" \/ (ar'.pc = "strategy" /\ ar'.r = r)
               PROVE  ns'[r] # "none"
  BY DEF NamespaceFirst
<1>2. CASE User /\ CreateRealm(r)
  <2>1. UNCHANGED <<strategy, ar>> /\ realm[r].phase = "none"
    BY <1>2, UserLeaves DEF CreateRealm
  <2> QED
    BY <1>1, <2>1 DEF DexShape, ArShape
<1>3. CASE realm[r].phase = "live"
  <2>1. CASE strategy[r].phase # "none" \/ (ar.pc = "strategy" /\ ar.r = r)
    BY <1>3, <2>1, NamespacesStay DEF NamespaceFirst
  <2>2. CASE ~(strategy[r].phase # "none" \/ (ar.pc = "strategy" /\ ar.r = r))
    <3>1. ar.pc = "server" /\ CreateDexServer /\ ar'.pc = "strategy" /\ ar'.r = r
      <4>1. ArStep
        BY <1>1, <2>2, NextCases, StStepEffect, StLeaves, PwLeaves, UserLeaves, CleanersLeave
           DEF StEffect, vars
      <4>2. strategy'[r].phase = "none"
        BY <2>2, <4>1, ArStrategies
      <4>3. ar'.pc = "strategy" /\ ar'.r = r
        BY <1>1, <4>2
      <4>4. ar.pc = "server"
        BY <2>2, <4>1, <4>3, ArWorker DEF IdleAr, Types, ArTypes
      <4> QED
        BY <4>1, <4>3, <4>4 DEF ArStep, ArContinues, ArDeletes, ArWorks, Prepare,
           InstallDexOperator, CreateStrategy, FindNoClient, DeleteDexServer, DeleteDexNamespace,
           DeleteStrategy, ListAuthRealms, DeleteDexOperator, Finish
    <3>2. ar.r = r
      BY <3>1 DEF CreateDexServer, ArGoes, ArEnds, IdleAr, Types, ArTypes
    <3> QED
      BY <3>1, <3>2 DEF CreateDexServer, ArEnds, IdleAr, Types
  <2> QED
    BY <2>1, <2>2
<1> QED
  BY <1>1, <1>2, <1>3, LiveBefore

LEMMA ShapesStep ==
  ASSUME CleanupInv, Shapes, [Next]_vars
  PROVE  Shapes'
BY StShapeStep, OwnersReferStep, NamespaceFirstStep, OneClusterStep DEF Shapes, CleanupInv

-----------------------------------------------------------------------------
(* What holds unless the user interferes.                                  *)

LEMMA UserPlacedStep ==
  ASSUME CleanupInv, Shapes, UserPlaced, [Next]_vars
  PROVE  UserPlaced'
<1> USE DEF CleanupInv, Shapes
<1>1. SUFFICES ASSUME Calm
               PROVE  /\ \A r \in Realms : strategy'[r].placed => Ref(r) \in userPl'
                      /\ st'.pc \in {"place", "own"} => Ref(st'.r) \in userPl'
  BY CalmKept DEF UserPlaced, Ref
<1>2. /\ \A r \in Realms : strategy[r].placed => Ref(r) \in userPl
      /\ st.pc \in {"place", "own"} => Ref(st.r) \in userPl
  BY <1>1 DEF UserPlaced
<1>3. CASE ArStep
  BY <1>2, <1>3, ArStrategies, ArLeaves DEF plVars
<1>4. CASE StStep
  <2>1. UNCHANGED userPl
    BY <1>4, StLeaves
  <2>2. \A r \in Realms : strategy'[r].placed => Ref(r) \in userPl
    <3>1. PlaceStrategy => st.pc = "place"
      BY DEF PlaceStrategy
    <3> QED
      BY <1>2, <1>4, <3>1, StStrategies
  <2>3. st'.pc \in {"place", "own"} => Ref(st'.r) \in userPl
    BY <1>2, <1>4, StWorker DEF IdleSt
  <2> QED
    BY <2>1, <2>2, <2>3
<1>5. CASE User
  <2>1. UNCHANGED <<strategy, st>>
    BY <1>5, UserLeaves
  <2>2. ASSUME NEW p \in Placements, Unplace(p)
        PROVE  /\ \A r \in Realms : strategy[r].placed => Ref(r) # p
               /\ st.pc \in {"place", "own"} => Ref(st.r) # p
               /\ userPl' = userPl \ {p}
    <3>1. \A r \in Realms : Ref(r) = p => realm[r].phase = "none"
      BY <1>1, <2>2, CalmIs DEF Unplace
    <3>2. \A r \in Realms : Ref(r) = p => strategy[r].phase = "none" /\ ~strategy[r].placed
      BY <3>1 DEF DexShape, StShape
    <3>3. st.pc # "idle" => st.r \in Realms /\ strategy[st.r].phase # "none"
      BY DEF StShape, Types, StTypes
    <3> QED
      BY <2>2, <3>2, <3>3 DEF Unplace
  <2>3. (\A p \in Placements : ~Unplace(p)) => userPl \subseteq userPl'
    BY <1>5 DEF User, CreateRealm, DeleteRealm, Replace, Select, Deselect, plVars
  <2> QED
    BY <1>2, <2>1, <2>2, <2>3
<1>6. CASE UNCHANGED <<strategy, userPl, st>>
  BY <1>2, <1>6
<1> QED
  BY <1>3, <1>4, <1>5, <1>6, NextCases, PwLeaves, CleanersLeave DEF vars

(* What a step adds to the secrets and ClusterOAuths.                      *)
LEMMA ConfigsBefore ==
  ASSUME Types, [Next]_vars, NEW r \in Realms, NEW c \in Clusters
  PROVE  /\ <<r, c>> \in secrets' => \/ <<r, c>> \in secrets
                                     \/ CreateClientSecret /\ PwStep /\ r = pw.r
         /\ oauth'[<<r, c>>] # "none" => \/ oauth[<<r, c>>] # "none"
                                         \/ CreateClusterOAuth /\ PwStep /\ r = pw.r
<1>1. CASE PwStep
  <2>1. secrets' \subseteq secrets \/ CreateClientSecret
    BY <1>1 DEF PwStep, PwContinues, PwWorks, TakePlacement, NextStrategy, DeleteObsoleteOAuth,
       DeleteObsoleteClient, NothingObsolete, CreateDexClient, CreateClusterOAuth,
       ConfigsCreated, DeleteSelectedOAuth, FinishPlacement, DeleteClusterOAuthConfig, configVars
  <2>2. CreateClientSecret => \E d \in pw.clusters : secrets' = secrets \cup {<<pw.r, d>>}
    BY DEF CreateClientSecret
  <2> QED
    BY <1>1, <2>1, <2>2, PwOAuths
<1>2. CASE Cleaners
  <2>1. \/ UNCHANGED oauth
        \/ \E q \in Realms, d \in Clusters : oauth' = [oauth EXCEPT ![<<q, d>>] = "none"]
    BY <1>2 DEF Cleaners, OAuthGone, ClientGone, ServerGone, SweepNamespace, OperatorGone,
       Collect, configVars
  <2>2. oauth'[<<r, c>>] # "none" => oauth[<<r, c>>] # "none"
    BY <2>1 DEF Types
  <2> QED
    BY <1>2, <2>2, CleanersLeave
<1>3. CASE UNCHANGED <<secrets, oauth>>
  BY <1>3
<1> QED
  BY <1>1, <1>2, <1>3, NextCases, ArLeaves, StLeaves, UserLeaves DEF vars, configVars

(* The work for an AuthRealm begins when its Placement is taken.           *)
LEMMA EngagedBefore ==
  ASSUME Types, [Next]_vars, NEW r \in Realms, Engaged(r)'
  PROVE  \/ Engaged(r)
         \/ \E p \in Placements : TakePlacement(p) /\ PwStep /\ r \in StrategiesOf(p)
<1>1. CASE r \in pw'.todo \/ Working(r)'
  <2>1. CASE PwStep
    <3>1. pw' # IdlePw
      BY <1>1 DEF Working, IdlePw
    <3>2. CASE r \in pw'.todo
      BY <2>1, <3>1, <3>2, PwWorker DEF Engaged
    <3>3. CASE Working(r)'
      BY <2>1, <3>1, <3>3, PwWorker DEF Engaged, Working
    <3> QED
      BY <1>1, <3>2, <3>3
  <2>2. CASE UNCHANGED pw
    BY <1>1, <2>2 DEF Engaged, Working
  <2> QED
    BY <2>1, <2>2, NextCases, ArLeaves, StLeaves, UserLeaves, CleanersLeave DEF vars
<1>2. ASSUME NEW c \in Clusters, <<r, c>> \in secrets' \/ oauth'[<<r, c>>] # "none"
      PROVE  Engaged(r)
  <2>1. CASE <<r, c>> \in secrets \/ oauth[<<r, c>>] # "none"
    BY <2>1 DEF Engaged
  <2>2. CASE (CreateClientSecret \/ CreateClusterOAuth) /\ r = pw.r
    BY <2>2 DEF CreateClientSecret, CreateClusterOAuth, Engaged, Working
  <2> QED
    BY <1>2, <2>1, <2>2, ConfigsBefore
<1> QED
  BY <1>1, <1>2 DEF Engaged

(* When an AuthRealm is created there is no work for it.                   *)
LEMMA NewNotEngaged ==
  ASSUME CleanupInv, SecretsKept, Calm, NEW r \in Realms, CreateRealm(r)
  PROVE  ~Engaged(r)
<1> USE DEF CleanupInv
<1>1. realm[r].phase = "none" /\ pw.p # Ref(r)
  BY CalmIs DEF CreateRealm
<1>2. r \notin pw.todo /\ ~Working(r)
  BY <1>1 DEF PwShape, Working, Types, PwTypes
<1>3. \A c \in Clusters : oauth[<<r, c>>] = "none"
  BY <1>1, CalmIs DEF StillReachable
<1>4. \A c \in Clusters : <<r, c>> \notin secrets
  <2>1. ASSUME NEW c \in Clusters, <<r, c>> \in secrets
        PROVE  FALSE
    <3>1. Kept(r, c)
      BY <2>1 DEF SecretsKept
    <3> QED
      BY <1>1, <1>2, <1>3, <3>1 DEF Kept, Pending, Working, ToBeMade
  <2> QED
    BY <2>1
<1> QED
  BY <1>2, <1>3, <1>4 DEF Engaged

LEMMA EngagedLive ==
  ASSUME CleanupInv, SecretsKept, Calm, [Next]_vars, NEW r \in Realms, realm'[r].phase = "live",
         Engaged(r) \/ Engaged(r)'
  PROVE  realm[r].phase = "live"
<1>1. SUFFICES ASSUME User /\ CreateRealm(r)
               PROVE  FALSE
  BY LiveBefore DEF CleanupInv
<1>2. ~Engaged(r)
  BY <1>1, NewNotEngaged
<1>3. UNCHANGED <<secrets, oauth, pw>>
  BY <1>1, UserLeaves DEF configVars
<1>4. ~Engaged(r)'
  BY <1>2, <1>3 DEF Engaged, Working
<1> QED
  BY <1>2, <1>4

(* What an AuthRealm has once there is work for it.                        *)
LEMMA Established ==
  ASSUME CleanupInv, Shapes, UserPlaced, Calm, NEW r \in Realms, realm[r].phase = "live",
         strategy[r].placed
  PROVE  strategy[r].phase = "live" /\ ns[r] = "live" /\ Ref(r) \in userPl
<1> USE DEF CleanupInv, Shapes
<1>1. strategy[r].phase = "live"
  <2>1. strategy[r].phase \in Phase
    BY DEF Types, StrategyType
  <2> QED
    BY <2>1 DEF StShape, DexShape, Phase
<1>2. ns[r] = "live"
  <2>1. ns[r] \in Phase
    BY DEF Types
  <2> QED
    BY <1>1, <2>1 DEF NamespaceFirst, DexShape, Phase
<1> QED
  BY <1>1, <1>2 DEF UserPlaced

LEMMA EngagedPlacedStep ==
  ASSUME CleanupInv, Shapes, UserPlaced, EngagedPlaced, SecretsKept, [Next]_vars
  PROVE  EngagedPlaced'
<1> USE DEF CleanupInv, Shapes
<1>1. SUFFICES ASSUME Calm, NEW r \in Realms, realm'[r].phase = "live", Engaged(r)'
               PROVE  strategy'[r].placed
  BY CalmKept DEF EngagedPlaced
<1>2. realm[r].phase = "live"
  BY <1>1, EngagedLive
<1>3. CASE Engaged(r)
  <2>1. strategy[r].placed /\ strategy[r].phase = "live"
    BY <1>1, <1>2, <1>3, Established DEF EngagedPlaced
  <2>2. CASE ArStep
    BY <1>2, <2>1, <2>2, ArStrategies
  <2>3. CASE StStep
    BY <2>1, <2>3, StStrategies
  <2> QED
    BY <2>1, <2>2, <2>3, NextCases, PwLeaves, UserLeaves, CleanersLeave DEF vars
<1>4. CASE \E p \in Placements : TakePlacement(p) /\ PwStep /\ r \in StrategiesOf(p)
  BY <1>4, PwLeaves DEF StrategiesOf
<1> QED
  BY <1>1, <1>3, <1>4, EngagedBefore

(* A Placement with a finalizer keeps it until it is removed, and its      *)
(* owners; the clusters it selects only the user changes.                  *)
LEMMA EachKeeps ==
  ASSUME Types, [Next]_vars, NEW p \in Placements, pl[p].fin
  PROVE  \/ FinishPlacement(p) /\ PwStep
         \/ /\ pl'[p].fin
            /\ \A s \in Owners(pl[p]) : strategy[s].phase = "live" => s \in Owners(pl'[p])
            /\ decisions'[p] = decisions[p] \/ User
<1>1. CASE PlacementsKept
  BY <1>1 DEF PlacementsKept
<1>2. CASE PwStep
  <2>1. ASSUME NEW q \in Placements, FinishPlacement(q), q # p
        PROVE  pl'[p] = pl[p] /\ decisions'[p] = decisions[p]
    <3>1. pl'[p] = pl[p]
      BY <2>1 DEF FinishPlacement, Types
    <3>2. pl'[p].phase # "none"
      BY <3>1, PlFin DEF Types
    <3> QED
      BY <2>1, <3>1, <3>2 DEF FinishPlacement, DecisionsFollow
  <2>2. CASE \E q \in Placements : TakePlacement(q)
    BY <1>1, <2>2, TakePlacementTypes
  <2>3. CASE UNCHANGED <<pl, decisions>>
    BY <2>3
  <2> QED
    BY <1>2, <2>1, <2>2, <2>3 DEF PwStep, PwContinues, PwWorks, NextStrategy, DeleteObsoleteOAuth,
       DeleteObsoleteClient, NothingObsolete, CreateClientSecret, CreateDexClient,
       CreateClusterOAuth, ConfigsCreated, DeleteSelectedOAuth, plVars
<1>3. CASE UNCHANGED <<pl, decisions>>
  BY <1>3
<1>4. CASE User
  BY <1>4, UserLeaves
<1> QED
  BY <1>1, <1>2, <1>3, <1>4, NextCases, ArLeaves, StStepEffect, CleanersTypes
     DEF StEffect, plVars, vars

LEMMA OwnersStayStep ==
  ASSUME CleanupInv, Shapes, UserPlaced, EngagedPlaced, OwnersStay, SecretsKept, [Next]_vars
  PROVE  OwnersStay'
<1> USE DEF CleanupInv, Shapes
<1>1. SUFFICES ASSUME Calm, NEW r \in pw'.owners, realm'[r].phase = "live", Engaged(r)'
               PROVE  r \in Owners(pl'[pw'.p])
  BY CalmKept DEF OwnersStay, Owners
<1>2. CASE \E p \in Placements : /\ TakePlacement(p)
                                 /\ pw'.p = p /\ pw'.owners = Owners(pl[p])
  BY <1>2, TakePlacementTypes
<1>3. CASE pw.pc # "idle" /\ pw'.p = pw.p /\ pw'.owners = pw.owners
  <2>1. r \in Realms /\ pw.p \in Placements /\ pl[pw.p].fin
    BY <1>3 DEF Types, PwTypes, PwShape
  <2>2. realm[r].phase = "live"
    BY <1>1, <2>1, EngagedLive
  <2>3. ~\E p \in Placements : TakePlacement(p) \/ FinishPlacement(p)
    BY <1>3 DEF TakePlacement, FinishPlacement
  <2>4. Engaged(r)
    BY <1>1, <2>1, <2>3, EngagedBefore
  <2>5. r \in Owners(pl[pw.p]) /\ strategy[r].placed
    BY <1>1, <1>3, <2>1, <2>2, <2>4 DEF OwnersStay, EngagedPlaced
  <2>6. strategy[r].phase = "live"
    BY <1>1, <2>1, <2>2, <2>5, Established
  <2> QED
    BY <1>3, <2>1, <2>3, <2>5, <2>6, EachKeeps
<1> QED
  BY <1>1, <1>2, <1>3, PwPlacement DEF IdlePw

(* The clusters of a Placement change when nothing is to be done for it.   *)
LEMMA UserSelects ==
  ASSUME CleanupInv, Calm, User, NEW p \in Placements, decisions'[p] # decisions[p]
  PROVE  Quiet(p)
<1>1. ASSUME NEW q \in Placements, NEW c \in Clusters, Select(q, c) \/ Deselect(q, c)
      PROVE  q = p /\ Quiet(q)
  BY <1>1, CalmIs DEF Select, Deselect, CleanupInv, Types
<1> QED
  BY <1>1 DEF User, CreateRealm, DeleteRealm, Unplace, Replace, plVars

LEMMA CreatesSelectedStep ==
  ASSUME CleanupInv, Shapes, CreatesSelected, [Next]_vars
  PROVE  CreatesSelected'
<1> USE DEF CleanupInv, Shapes
<1>1. SUFFICES ASSUME Calm
               PROVE  /\ pw'.pc \in {"create", "client", "oauth"} =>
                           pw'.clusters \subseteq decisions'[pw'.p]
                      /\ pw'.pc \in {"client", "oauth"} => pw'.c \subseteq decisions'[pw'.p]
  BY CalmKept DEF CreatesSelected
<1>2. CASE PwStep
  BY <1>1, <1>2, PwWorker DEF CreatesSelected, Continues, IdlePw
<1>3. CASE UNCHANGED pw /\ ~PwStep
  <2>1. ASSUME pw.pc \in {"create", "client", "oauth"}
        PROVE  decisions'[pw.p] = decisions[pw.p]
    <3>1. pw.p \in Placements /\ pw.r \in Realms /\ Ref(pw.r) = pw.p /\ pl[pw.p].fin
      BY <2>1 DEF Types, PwTypes, PwShape
    <3>2. ~Quiet(pw.p)
      BY <3>1 DEF Quiet, Idle
    <3> QED
      BY <1>1, <1>3, <3>1, <3>2, EachKeeps, UserSelects
  <2> QED
    BY <1>1, <1>3, <2>1 DEF CreatesSelected
<1> QED
  BY <1>2, <1>3, NextCases, ArLeaves, StLeaves, UserLeaves, CleanersLeave DEF vars

(* The secrets of the ClusterOAuths that are deleted go with them.         *)
LEMMA OAuthsDeleted ==
  ASSUME Types, [Next]_vars, NEW r \in Realms, NEW c \in Clusters,
         oauth'[<<r, c>>] # oauth[<<r, c>>]
  PROVE  \/ oauth[<<r, c>>] = "none" /\ oauth'[<<r, c>>] = "live" /\ CreateClusterOAuth
         \/ oauth[<<r, c>>] = "terminating" /\ oauth'[<<r, c>>] = "none"
         \/ /\ oauth[<<r, c>>] # "none" /\ <<r, c>> \notin secrets'
            /\ \/ DeleteObsoleteOAuth /\ r \in pw.owners
               \/ \E p \in Placements : DeleteSelectedOAuth(p) /\ r \in Owners(pl[p])
<1>1. CASE CreateClusterOAuth
  <2>1. PICK d \in pw.c : oauth' = [oauth EXCEPT ![<<pw.r, d>>] = IF @ = "none" THEN "live" ELSE @]
    BY <1>1 DEF CreateClusterOAuth
  <2> QED
    BY <1>1, <2>1 DEF Types
<1>2. ASSUME NEW d \in Clusters, NEW owners, DeleteClusterOAuthConfig(d, owners)
      PROVE  oauth[<<r, c>>] # "none" /\ <<r, c>> \notin secrets' /\ r \in owners
  BY <1>2 DEF DeleteClusterOAuthConfig, Matched
<1>3. CASE DeleteObsoleteOAuth
  <2>1. PICK d \in Obsolete : DeleteClusterOAuthConfig(d, pw.owners)
    BY <1>3 DEF DeleteObsoleteOAuth
  <2>2. d \in Clusters
    BY DEF Obsolete
  <2> QED
    BY <1>2, <1>3, <2>1, <2>2
<1>4. ASSUME NEW p \in Placements, DeleteSelectedOAuth(p)
      PROVE  oauth[<<r, c>>] # "none" /\ <<r, c>> \notin secrets' /\ r \in Owners(pl[p])
  <2>1. PICK d \in decisions[p] : DeleteClusterOAuthConfig(d, Owners(pl[p]))
    BY <1>4 DEF DeleteSelectedOAuth
  <2>2. d \in Clusters
    BY DEF Types
  <2> QED
    BY <1>2, <2>1, <2>2
<1>5. ASSUME NEW q \in Realms, NEW d \in Clusters, OAuthGone(q, d)
      PROVE  oauth[<<r, c>>] = "terminating" /\ oauth'[<<r, c>>] = "none"
  BY <1>5 DEF OAuthGone, Types
<1>6. PwStep => \/ UNCHANGED oauth \/ CreateClusterOAuth \/ DeleteObsoleteOAuth
                \/ \E p \in Placements : DeleteSelectedOAuth(p)
  BY DEF PwStep, PwContinues, PwWorks, TakePlacement, NextStrategy, DeleteObsoleteClient,
         NothingObsolete, CreateClientSecret, CreateDexClient, ConfigsCreated, FinishPlacement,
         configVars
<1>7. Cleaners => UNCHANGED oauth \/ \E q \in Realms, d \in Clusters : OAuthGone(q, d)
  BY DEF Cleaners, ClientGone, ServerGone, SweepNamespace, OperatorGone, Collect, configVars
<1> QED
  BY <1>1, <1>3, <1>4, <1>5, <1>6, <1>7, NextCases, ArLeaves, StLeaves, UserLeaves
     DEF vars, configVars

(* The Placement of an AuthRealm that is worked for is not deleted.        *)
LEMMA EngagedRooted ==
  ASSUME CleanupInv, Shapes, UserPlaced, EngagedPlaced, Calm, NEW r \in Realms,
         realm[r].phase = "live", Engaged(r), r \in Owners(pl[Ref(r)]),
         pl[Ref(r)].phase = "live"
  PROVE  Rooted(r)
BY Established DEF EngagedPlaced, Rooted

LEMMA RemadeStep ==
  ASSUME SecretsInv, Calm, [Next]_vars, NEW r \in Realms, NEW c \in Clusters
  PROVE  Remade(r, c)'
<1> USE DEF SecretsInv, CleanupInv, Shapes
<1>0. Ref(r) \in Placements /\ Ref(r) # Nobody
  BY RefType, ConstantsAssumption
<1>1. SUFFICES ASSUME realm'[r].phase = "live", oauth'[<<r, c>>] = "terminating",
                      c \in decisions'[Ref(r)]
               PROVE  /\ r \in Owners(pl'[Ref(r)])
                      /\ pl'[Ref(r)].phase = "live" \/ pw'.p # Ref(r)
  BY DEF Remade, Owners, Ref
<1>2. CASE oauth[<<r, c>>] = "terminating"
  <2>1. Engaged(r)
    BY <1>2 DEF Engaged
  <2>2. realm[r].phase = "live"
    BY <1>1, <2>1, EngagedLive
  <2>3. c \in decisions[Ref(r)]
    <3>1. CASE User
      <4>1. ~Quiet(Ref(r))
        BY <1>2 DEF Quiet, Idle, Configured
      <4> QED
        BY <1>0, <1>1, <3>1, <4>1, UserSelects
    <3>2. CASE UNCHANGED decisions
      BY <1>1, <3>2
    <3>3. CASE PlacementsKept
      BY <1>0, <1>1, <3>3 DEF PlacementsKept
    <3>4. CASE PwStep
      <4>1. decisions' = decisions \/ DecisionsFollow
        BY <3>4 DEF PwStep, PwContinues, PwWorks, TakePlacement, NextStrategy,
           DeleteObsoleteOAuth, DeleteObsoleteClient, NothingObsolete, CreateClientSecret,
           CreateDexClient, CreateClusterOAuth, ConfigsCreated, DeleteSelectedOAuth,
           FinishPlacement, plVars
      <4> QED
        BY <1>0, <1>1, <4>1 DEF DecisionsFollow
    <3> QED
      BY <3>1, <3>2, <3>3, <3>4, NextCases, ArLeaves, StStepEffect, CleanersTypes
         DEF StEffect, plVars, vars
  <2>4. /\ r \in Owners(pl[Ref(r)])
        /\ pl[Ref(r)].phase = "live" \/ pw.p # Ref(r)
    BY <1>2, <2>2, <2>3 DEF GoingRemade, Remade
  <2>5. pl[Ref(r)].fin
    BY <1>2, <2>3, CalmIs DEF FirstFinalized
  <2>6. ~FinishPlacement(Ref(r))
    BY <1>2, <2>3, <2>4 DEF FinishPlacement, Matched
  <2>7. strategy[r].phase = "live"
    BY <2>1, <2>2, Established DEF EngagedPlaced
  <2>8. r \in Owners(pl'[Ref(r)])
    BY <1>0, <2>4, <2>5, <2>6, <2>7, EachKeeps
  <2>9. CASE pl[Ref(r)].phase = "live"
    <3>1. Rooted(r)
      BY <2>1, <2>2, <2>4, <2>9, EngagedRooted
    <3> QED
      BY <2>8, <3>1, EachLasts DEF PlacementsLast
  <2>10. CASE pl[Ref(r)].phase # "live"
    <3>1. ~TakePlacement(Ref(r))
      BY <2>10 DEF TakePlacement
    <3>2. pw'.p # Ref(r)
      BY <1>0, <2>4, <2>10, <3>1, PwPlacement DEF IdlePw
    <3> QED
      BY <2>8, <3>2
  <2> QED
    BY <2>9, <2>10
<1>3. CASE oauth[<<r, c>>] # "terminating"
  <2>1. /\ oauth[<<r, c>>] # "none"
        /\ \/ DeleteObsoleteOAuth /\ r \in pw.owners
           \/ \E p \in Placements : DeleteSelectedOAuth(p) /\ r \in Owners(pl[p])
    BY <1>1, <1>3, OAuthsDeleted
  <2>2. UNCHANGED pl /\ pw' = IdlePw
    BY <2>1 DEF DeleteObsoleteOAuth, DeleteSelectedOAuth, plVars, Types, PwTypes
  <2>3. Engaged(r)
    BY <2>1 DEF Engaged
  <2>4. realm[r].phase = "live"
    BY <1>1, <2>3, EngagedLive
  <2>5. r \in Owners(pl[Ref(r)])
    BY <2>1, <2>3, <2>4 DEF OwnersStay, OwnersRefer
  <2> QED
    BY <1>0, <2>2, <2>5 DEF IdlePw
<1> QED
  BY <1>2, <1>3

(* A secret with its ClusterOAuth keeps it.                                *)
LEMMA LiveKeeps ==
  ASSUME Types, [Next]_vars, NEW r \in Realms, NEW c \in Clusters,
         oauth[<<r, c>>] = "live", <<r, c>> \in secrets'
  PROVE  oauth'[<<r, c>>] = "live"
BY OAuthsDeleted

(* The worker comes to create the ClusterOAuth.                            *)
LEMMA PendingKeeps ==
  ASSUME SecretsInv, Calm, [Next]_vars, NEW r \in Realms, NEW c \in Clusters, Pending(r, c)
  PROVE  Kept(r, c)'
<1> USE DEF SecretsInv, CleanupInv, Shapes
<1>1. /\ pw.p = Ref(r) /\ pw.p \in Placements
      /\ c \in decisions[Ref(r)]
      /\ realm[r].phase = "live"
      /\ Engaged(r)
      /\ pl[Ref(r)].fin
  BY CalmIs DEF Pending, PwShape, Types, PwTypes, CreatesSelected, CreatesForLive, Engaged, Working
<1>2. CASE PwStep
  <2>1. CASE CreateDexClient
    <3>1. ns[pw.r] = "live"
      BY <1>1, Established DEF EngagedPlaced, Pending
    <3>2. pw' = [pw EXCEPT !.pc = "oauth"]
      BY <2>1, <3>1 DEF CreateDexClient
    <3> QED
      BY <3>2 DEF Kept, Pending, Types, PwTypes
  <2>2. CASE CreateClusterOAuth
    <3>1. PICK d \in pw.c :
            oauth' = [oauth EXCEPT ![<<pw.r, d>>] = IF @ = "none" THEN "live" ELSE @]
      BY <2>2 DEF CreateClusterOAuth
    <3>2. d = c
      BY <3>1 DEF OneCluster, Pending
    <3>3. oauth'[<<r, c>>] = IF oauth[<<r, c>>] = "none" THEN "live" ELSE oauth[<<r, c>>]
      BY <3>1, <3>2 DEF Pending, Types
    <3>4. CASE oauth[<<r, c>>] = "terminating"
      <4>1. r \in Owners(pl[Ref(r)]) /\ pl[Ref(r)].phase = "live"
        BY <1>1, <3>4 DEF GoingRemade, Remade
      <4>2. UNCHANGED <<realm, pl, decisions>>
        BY <2>2 DEF CreateClusterOAuth, plVars
      <4> QED
        BY <1>1, <4>1, <4>2 DEF Kept, ToBeMade, Ref
    <3>5. CASE oauth[<<r, c>>] # "terminating"
      <4>1. oauth[<<r, c>>] \in Phase
        BY DEF Types
      <4>2. oauth'[<<r, c>>] = "live"
        BY <3>3, <3>5, <4>1 DEF Phase
      <4> QED
        BY <4>2 DEF Kept
    <3> QED
      BY <3>4, <3>5
  <2> QED
    BY <1>2, <2>1, <2>2 DEF Pending, PwStep, PwContinues, PwWorks, TakePlacement, NextStrategy,
       DeleteObsoleteOAuth, DeleteObsoleteClient, NothingObsolete, CreateClientSecret,
       ConfigsCreated, DeleteSelectedOAuth, FinishPlacement
<1>3. CASE UNCHANGED pw
  BY <1>3 DEF Kept, Pending
<1> QED
  BY <1>2, <1>3, NextCases, ArLeaves, StLeaves, UserLeaves, CleanersLeave DEF vars

(* The next Reconcile of the Placement comes to make it, unless it is made.*)
LEMMA ToBeMadeKeeps ==
  ASSUME SecretsInv, Calm, [Next]_vars, NEW r \in Realms, NEW c \in Clusters,
         <<r, c>> \in secrets, ToBeMade(r, c), oauth[<<r, c>>] # "live"
  PROVE  ToBeMade(r, c)'
<1> USE DEF SecretsInv, CleanupInv, Shapes
<1>1. Ref(r) \in Placements /\ Engaged(r)
  BY RefType DEF Engaged
<1>2. /\ realm[r].phase = "live" /\ c \in decisions[Ref(r)] /\ r \in Owners(pl[Ref(r)])
      /\ pl[Ref(r)].phase = "live" /\ pl[Ref(r)].fin
  BY DEF ToBeMade
<1>3. ~Idle(r)
  BY <1>2 DEF Idle, Configured
<1>4. realm'[r].phase = "live"
  <2>1. CASE ArStep
    <3>1. ~(Finish /\ r = ar.r)
      BY <1>2 DEF Finish, ArShape
    <3> QED
      BY <1>2, <2>1, <3>1, ArRealms
  <2>2. CASE User
    <3>1. ~DeleteRealm(r)
      BY <1>3, CalmIs DEF DeleteRealm
    <3> QED
      BY <1>2, <2>2, <3>1, UserRealms
  <2> QED
    BY <1>2, <2>1, <2>2, NextCases, StLeaves, PwLeaves, CleanersLeave DEF vars
<1>5. ~FinishPlacement(Ref(r))
  BY <1>2 DEF FinishPlacement
<1>6. Rooted(r)
  BY <1>1, <1>2, EngagedRooted
<1>7. /\ pl'[Ref(r)].fin /\ r \in Owners(pl'[Ref(r)])
      /\ decisions'[Ref(r)] = decisions[Ref(r)] \/ User
  BY <1>1, <1>2, <1>5, <1>6, EachKeeps DEF Rooted
<1>8. decisions'[Ref(r)] = decisions[Ref(r)]
  <2>1. ~Quiet(Ref(r))
    BY <1>3 DEF Quiet
  <2> QED
    BY <1>1, <1>7, <2>1, UserSelects
<1>9. pl'[Ref(r)].phase = "live"
  BY <1>6, EachLasts DEF PlacementsLast
<1> QED
  BY <1>2, <1>4, <1>7, <1>8, <1>9 DEF ToBeMade, Owners, Ref

LEMMA SecretsKeptStep ==
  ASSUME SecretsInv, [Next]_vars
  PROVE  SecretsKept'
<1>1. SUFFICES ASSUME Calm, NEW r \in Realms, NEW c \in Clusters, <<r, c>> \in secrets'
               PROVE  Kept(r, c)'
  BY CalmKept DEF SecretsKept
<1>2. CASE <<r, c>> \in secrets
  <2>1. CASE oauth[<<r, c>>] = "live"
    BY <1>1, <2>1, LiveKeeps DEF Kept, SecretsInv, CleanupInv
  <2>2. CASE Pending(r, c)
    BY <1>1, <2>2, PendingKeeps
  <2>3. CASE ToBeMade(r, c) /\ oauth[<<r, c>>] # "live"
    BY <1>1, <1>2, <2>3, ToBeMadeKeeps DEF Kept
  <2> QED
    BY <1>1, <1>2, <2>1, <2>2, <2>3 DEF SecretsInv, SecretsKept, Kept
<1>3. CASE <<r, c>> \notin secrets
  <2>1. CreateClientSecret /\ PwStep /\ r = pw.r
    BY <1>1, <1>3, ConfigsBefore DEF SecretsInv, CleanupInv
  <2>2. PICK d \in pw.clusters :
          /\ secrets' = secrets \cup {<<pw.r, d>>}
          /\ pw' = [pw EXCEPT !.pc = "client", !.c = {d}, !.clusters = @ \ {d}]
    BY <2>1 DEF CreateClientSecret
  <2>3. c = d
    BY <1>1, <1>3, <2>2
  <2>4. Pending(r, c)'
    BY <2>1, <2>2, <2>3 DEF Pending, SecretsInv, CleanupInv, Types, PwTypes
  <2> QED
    BY <2>4 DEF Kept
<1> QED
  BY <1>2, <1>3

LEMMA InitSecrets == Init => SecretsInv
<1>1. SUFFICES ASSUME Init PROVE SecretsInv
  OBVIOUS
<1>2. CleanupInv
  BY <1>1, InitCleanup
<1>3. StShape /\ NamespaceFirst /\ OneCluster
  BY <1>1 DEF Init, StShape, NamespaceFirst, OneCluster, NoRealm, NoStrategy, IdleSt, IdlePw
<1>4. OwnersRefer
  BY <1>1 DEF Init, OwnersRefer, Owners, NoPlacement, IdlePw
<1>5. UserPlaced /\ CreatesSelected
  BY <1>1 DEF Init, UserPlaced, CreatesSelected, NoStrategy, IdleSt, IdlePw
<1>6. EngagedPlaced /\ OwnersStay /\ GoingRemade /\ SecretsKept
  BY <1>1 DEF Init, EngagedPlaced, OwnersStay, GoingRemade, Remade, SecretsKept, NoRealm, IdlePw
<1> QED
  BY <1>2, <1>3, <1>4, <1>5, <1>6 DEF SecretsInv, Shapes

LEMMA SecretsStep == SecretsInv /\ [Next]_vars => SecretsInv'
<1>1. SUFFICES ASSUME SecretsInv, [Next]_vars PROVE SecretsInv'
  OBVIOUS
<1>2. CleanupInv' /\ Shapes'
  BY <1>1, CleanupStep, ShapesStep DEF SecretsInv
<1>3. UserPlaced' /\ EngagedPlaced' /\ OwnersStay' /\ CreatesSelected'
  BY <1>1, UserPlacedStep, EngagedPlacedStep, OwnersStayStep, CreatesSelectedStep DEF SecretsInv
<1>4. GoingRemade'
  <2>1. ASSUME Calm', NEW r \in Realms, NEW c \in Clusters
        PROVE  Remade(r, c)'
    BY <1>1, <2>1, CalmKept, RemadeStep
  <2> QED
    BY <2>1 DEF GoingRemade
<1>5. SecretsKept'
  BY <1>1, SecretsKeptStep
<1> QED
  BY <1>2, <1>3, <1>4, <1>5 DEF SecretsInv

(* Each client secret is kept by one of the three, for any AuthRealms,     *)
(* clusters and Placements (createConfigs, deleteClusterOAuthConfig).      *)
THEOREM SecretsInvHolds == Spec => []SecretsInv
BY InitSecrets, SecretsStep, PTL DEF Spec

(* When an AuthRealm is gone, no client secret of it is left on any        *)
(* cluster, although secrets are only deleted along with ClusterOAuths     *)
(* (deleteClusterOAuthConfig) and are created before them, unless the user *)
(* interferes with the Placement or is hasty.                              *)
THEOREM SecretsGone == Spec => []SecretsRemoved
<1>1. SecretsInv => SecretsRemoved
  <2>1. SUFFICES ASSUME SecretsInv, Calm, NEW rc \in secrets
                 PROVE  realm[rc[1]].phase # "none"
    BY DEF SecretsRemoved, Calm
  <2>2. PICK r \in Realms, c \in Clusters : rc = <<r, c>>
    BY <2>1 DEF SecretsInv, CleanupInv, Types
  <2>3. Kept(r, c)
    BY <2>1, <2>2 DEF SecretsInv, SecretsKept
  <2>4. oauth[<<r, c>>] = "live" => realm[r].phase # "none"
    BY <2>1, CalmIs DEF SecretsInv, CleanupInv, StillReachable
  <2>5. Pending(r, c) => realm[r].phase = "live"
    BY <2>1, CalmIs DEF SecretsInv, CleanupInv, CreatesForLive, Pending
  <2> QED
    BY <2>2, <2>3, <2>4, <2>5 DEF Kept, ToBeMade
<1> QED
  BY <1>1, SecretsInvHolds, PTL

=============================================================================
