-------------------------- MODULE InstallationProofs --------------------------
(***************************************************************************)
(* Proofs about Installation, for any IDPConfigs and AuthRealms and any    *)
(* set of disturbances.                                                    *)
(***************************************************************************)
EXTENDS Installation, SequenceTheorems, TLAPS

-----------------------------------------------------------------------------
(* The inductive invariant.                                                *)

(* An IDPConfig with its finalizer is stored; a terminating one has it.    *)
ConfigShape ==
  \A c \in Configs :
    /\ config[c].phase = "terminating" => config[c].fin
    /\ config[c].fin => config[c].phase \in {"live", "terminating"}

(* The worker installs and removes for an IDPConfig with its finalizer.    *)
WorkerShape ==
  /\ worker.does # "idle" => worker.c \in Configs /\ config[worker.c].fin
  /\ worker.does = "install" => worker.at <= Len(InstallOrder)

(* What the worker has removed stays removed.                              *)
RemovedSoFar ==
  Without({"lag"}) =>
    /\ known = installed
    /\ worker.does = "remove" =>
         \A i \in DOMAIN RemovalOrder : i < worker.at => RemovalOrder[i] \notin installed

(* An AuthRealm has a RouteSubDomain as long as it exists.                 *)
RealmShape ==
  \A r \in Realms :
    /\ realm[r].phase = "none" => realm[r].sub = Nothing
    /\ realm[r].phase # "none" => realm[r].sub \in SubDomains

(* It has it for itself when the webhook was asked about it in time.       *)
Unshared ==
  Without({"twins", "reuse", "bare"}) =>
    \A r, q \in Realms : realm[r].sub \in SubDomains /\ realm[q].sub = realm[r].sub => r = q

IInv ==
  /\ TypeOK
  /\ ConfigShape
  /\ WorkerShape
  /\ RemovedSoFar
  /\ InstalledIsOwned
  /\ RealmShape
  /\ Unshared

-----------------------------------------------------------------------------
(* The orders: what is removed is what was installed.                      *)

LEMMA ObjectsOfBoth ==
  ASSUME NEW S, NEW s \in Seq(S), NEW t \in Seq(S)
  PROVE  /\ Objects(s \o t) = Objects(s) \cup Objects(t)
         /\ DOMAIN (s \o t) = 1 .. Len(s) + Len(t)
         /\ Len(s \o t) = Len(s) + Len(t)
<1>1. /\ Len(s) \in Nat /\ DOMAIN s = 1 .. Len(s)
      /\ Len(t) \in Nat /\ DOMAIN t = 1 .. Len(t)
  BY LenProperties
<1>2. /\ s \o t \in Seq(S)
      /\ Len(s \o t) = Len(s) + Len(t)
      /\ \A i \in 1 .. Len(s) + Len(t) :
           (s \o t)[i] = IF i <= Len(s) THEN s[i] ELSE t[i - Len(s)]
  BY ConcatProperties
<1>3. DOMAIN (s \o t) = 1 .. Len(s) + Len(t)
  BY <1>2, LenProperties
<1>4. ASSUME NEW i \in DOMAIN (s \o t)
      PROVE  (s \o t)[i] \in Objects(s) \cup Objects(t)
  <2>1. CASE i <= Len(s)
    BY <1>1, <1>2, <1>3, <1>4, <2>1 DEF Objects
  <2>2. CASE ~(i <= Len(s))
    <3>1. i - Len(s) \in DOMAIN t /\ (s \o t)[i] = t[i - Len(s)]
      BY <1>1, <1>2, <1>3, <1>4, <2>2
    <3> QED
      BY <3>1 DEF Objects
  <2> QED
    BY <2>1, <2>2
<1>5. ASSUME NEW i \in DOMAIN s  PROVE s[i] \in Objects(s \o t)
  <2>1. i \in DOMAIN (s \o t) /\ (s \o t)[i] = s[i]
    BY <1>1, <1>2, <1>3, <1>5
  <2> QED
    BY <2>1 DEF Objects
<1>6. ASSUME NEW i \in DOMAIN t  PROVE t[i] \in Objects(s \o t)
  <2>1. Len(s) + i \in DOMAIN (s \o t) /\ (s \o t)[Len(s) + i] = t[i]
    BY <1>1, <1>2, <1>3, <1>6
  <2> QED
    BY <2>1 DEF Objects
<1>7. Objects(s \o t) \subseteq Objects(s) \cup Objects(t)
  BY <1>4 DEF Objects
<1>8. Objects(s) \cup Objects(t) \subseteq Objects(s \o t)
  BY <1>5, <1>6 DEF Objects
<1> QED
  BY <1>2, <1>3, <1>7, <1>8

ManagerNames == {"manager account", "election role", "election binding", "manager role",
                 "manager binding", "manager"}

WebhookNames == {"webhook account", "webhook role", "webhook binding", "webhook service",
                 "webhook", "webhook config", "api service"}

Names == ManagerNames \cup WebhookNames

LEMMA ManagerOrders ==
  /\ ManagerInstall \in Seq(Names) /\ ManagerRemoval \in Seq(Names)
  /\ Len(ManagerInstall) = 6 /\ Len(ManagerRemoval) = 6
  /\ DOMAIN ManagerInstall = 1 .. 6 /\ DOMAIN ManagerRemoval = 1 .. 6
  /\ Objects(ManagerInstall) = ManagerNames /\ Objects(ManagerRemoval) = ManagerNames
<1>1. /\ ManagerInstall \in Seq(Names) /\ ManagerRemoval \in Seq(Names)
      /\ Len(ManagerInstall) = 6 /\ Len(ManagerRemoval) = 6
  BY DEF ManagerInstall, ManagerRemoval, Names, ManagerNames
<1>2. DOMAIN ManagerInstall = 1 .. 6 /\ DOMAIN ManagerRemoval = 1 .. 6
  BY <1>1, LenProperties
<1>3. 1 .. 6 = {1, 2, 3, 4, 5, 6}
  OBVIOUS
<1>4. /\ ManagerInstall[1] = "manager account" /\ ManagerInstall[2] = "election role"
      /\ ManagerInstall[3] = "election binding" /\ ManagerInstall[4] = "manager role"
      /\ ManagerInstall[5] = "manager binding" /\ ManagerInstall[6] = "manager"
  BY DEF ManagerInstall
<1>5. /\ ManagerRemoval[1] = "manager" /\ ManagerRemoval[2] = "election binding"
      /\ ManagerRemoval[3] = "manager binding" /\ ManagerRemoval[4] = "manager account"
      /\ ManagerRemoval[5] = "manager role" /\ ManagerRemoval[6] = "election role"
  BY DEF ManagerRemoval
<1>6. Objects(ManagerInstall) = ManagerNames
  <2>1. \A x : x \in Objects(ManagerInstall) <=> \E i \in {1, 2, 3, 4, 5, 6} : x = ManagerInstall[i]
    BY <1>2, <1>3 DEF Objects
  <2>2. \A x : (\E i \in {1, 2, 3, 4, 5, 6} : x = ManagerInstall[i]) <=> x \in ManagerNames
    BY <1>4 DEF ManagerNames
  <2> QED
    BY <2>1, <2>2
<1>7. Objects(ManagerRemoval) = ManagerNames
  <2>1. \A x : x \in Objects(ManagerRemoval) <=> \E i \in {1, 2, 3, 4, 5, 6} : x = ManagerRemoval[i]
    BY <1>2, <1>3 DEF Objects
  <2>2. \A x : (\E i \in {1, 2, 3, 4, 5, 6} : x = ManagerRemoval[i]) <=> x \in ManagerNames
    BY <1>5 DEF ManagerNames
  <2> QED
    BY <2>1, <2>2
<1> QED
  BY <1>1, <1>2, <1>6, <1>7

LEMMA WebhookOrders ==
  /\ WebhookInstall \in Seq(Names) /\ WebhookRemoval \in Seq(Names)
  /\ Len(WebhookInstall) = 7 /\ Len(WebhookRemoval) = 7
  /\ DOMAIN WebhookInstall = 1 .. 7 /\ DOMAIN WebhookRemoval = 1 .. 7
  /\ Objects(WebhookInstall) = WebhookNames /\ Objects(WebhookRemoval) = WebhookNames
<1>1. /\ WebhookInstall \in Seq(Names) /\ WebhookRemoval \in Seq(Names)
      /\ Len(WebhookInstall) = 7 /\ Len(WebhookRemoval) = 7
  BY DEF WebhookInstall, WebhookRemoval, Names, WebhookNames
<1>2. DOMAIN WebhookInstall = 1 .. 7 /\ DOMAIN WebhookRemoval = 1 .. 7
  BY <1>1, LenProperties
<1>3. 1 .. 7 = {1, 2, 3, 4, 5, 6, 7}
  OBVIOUS
<1>4. /\ WebhookInstall[1] = "webhook account" /\ WebhookInstall[2] = "webhook role"
      /\ WebhookInstall[3] = "webhook binding" /\ WebhookInstall[4] = "webhook service"
      /\ WebhookInstall[5] = "webhook" /\ WebhookInstall[6] = "webhook config"
      /\ WebhookInstall[7] = "api service"
  BY DEF WebhookInstall
<1>5. /\ WebhookRemoval[1] = "webhook" /\ WebhookRemoval[2] = "api service"
      /\ WebhookRemoval[3] = "webhook binding" /\ WebhookRemoval[4] = "webhook role"
      /\ WebhookRemoval[5] = "webhook account" /\ WebhookRemoval[6] = "webhook service"
      /\ WebhookRemoval[7] = "webhook config"
  BY DEF WebhookRemoval
<1>6. Objects(WebhookInstall) = WebhookNames
  <2>1. \A x : x \in Objects(WebhookInstall) <=> \E i \in {1, 2, 3, 4, 5, 6, 7} : x = WebhookInstall[i]
    BY <1>2, <1>3 DEF Objects
  <2>2. \A x : (\E i \in {1, 2, 3, 4, 5, 6, 7} : x = WebhookInstall[i]) <=> x \in WebhookNames
    BY <1>4 DEF WebhookNames
  <2> QED
    BY <2>1, <2>2
<1>7. Objects(WebhookRemoval) = WebhookNames
  <2>1. \A x : x \in Objects(WebhookRemoval) <=> \E i \in {1, 2, 3, 4, 5, 6, 7} : x = WebhookRemoval[i]
    BY <1>2, <1>3 DEF Objects
  <2>2. \A x : (\E i \in {1, 2, 3, 4, 5, 6, 7} : x = WebhookRemoval[i]) <=> x \in WebhookNames
    BY <1>5 DEF WebhookNames
  <2> QED
    BY <2>1, <2>2
<1> QED
  BY <1>1, <1>2, <1>6, <1>7

LEMMA Orders ==
  /\ Objects(RemovalOrder) = Everything
  /\ Len(RemovalOrder) \in Nat \ {0}
  /\ Len(InstallOrder) = Len(RemovalOrder)
  /\ DOMAIN RemovalOrder = 1 .. Len(RemovalOrder)
  /\ DOMAIN InstallOrder = 1 .. Len(RemovalOrder)
<1>1. CASE May("test")
  <2>1. InstallOrder = ManagerInstall /\ RemovalOrder = ManagerRemoval
    BY <1>1 DEF InstallOrder, RemovalOrder
  <2> QED
    BY <2>1, ManagerOrders DEF Everything
<1>2. CASE ~May("test")
  <2>1. /\ InstallOrder = ManagerInstall \o WebhookInstall
        /\ RemovalOrder = ManagerRemoval \o WebhookRemoval
    BY <1>2 DEF InstallOrder, RemovalOrder
  <2> DEFINE install == ManagerInstall \o WebhookInstall
             removal == ManagerRemoval \o WebhookRemoval
  <2>2. /\ Objects(install) = Objects(ManagerInstall) \cup Objects(WebhookInstall)
        /\ DOMAIN install = 1 .. Len(ManagerInstall) + Len(WebhookInstall)
        /\ Len(install) = Len(ManagerInstall) + Len(WebhookInstall)
    BY ManagerOrders, WebhookOrders, ObjectsOfBoth
  <2>3. /\ Objects(removal) = Objects(ManagerRemoval) \cup Objects(WebhookRemoval)
        /\ DOMAIN removal = 1 .. Len(ManagerRemoval) + Len(WebhookRemoval)
        /\ Len(removal) = Len(ManagerRemoval) + Len(WebhookRemoval)
    BY ManagerOrders, WebhookOrders, ObjectsOfBoth
  <2>4. /\ Len(ManagerInstall) + Len(WebhookInstall) = 13
        /\ Len(ManagerRemoval) + Len(WebhookRemoval) = 13
    BY ManagerOrders, WebhookOrders
  <2>5. /\ Objects(install) = Objects(removal)
        /\ Len(install) = 13 /\ Len(removal) = 13
        /\ DOMAIN install = 1 .. 13 /\ DOMAIN removal = 1 .. 13
    BY <2>2, <2>3, <2>4, ManagerOrders, WebhookOrders
  <2> HIDE DEF install, removal
  <2>6. InstallOrder = install /\ RemovalOrder = removal
    BY <2>1 DEF install, removal
  <2>7. Objects(RemovalOrder) = Objects(InstallOrder)
    BY <2>5, <2>6
  <2>8. Len(InstallOrder) = 13 /\ Len(RemovalOrder) = 13
    BY <2>5, <2>6
  <2>9. DOMAIN InstallOrder = 1 .. 13 /\ DOMAIN RemovalOrder = 1 .. 13
    BY <2>5, <2>6
  <2> QED
    BY <2>7, <2>8, <2>9 DEF Everything
<1> QED
  BY <1>1, <1>2

-----------------------------------------------------------------------------
(* The invariant is inductive.                                             *)

LEMMA InitInvariant == Init => IInv
<1> SUFFICES ASSUME Init  PROVE IInv
  OBVIOUS
<1> USE DEF Init
<1>1. TypeOK
  <2>1. 1 \in 1 .. Len(RemovalOrder) + 1
    BY Orders
  <2> QED
    BY <2>1, Orders DEF TypeOK, NoConfig, NoRealm, Phase, IdleWorker
<1>2. ConfigShape
  BY DEF ConfigShape, NoConfig
<1>3. WorkerShape
  BY DEF WorkerShape, IdleWorker
<1>4. RemovedSoFar
  BY DEF RemovedSoFar, IdleWorker
<1>5. InstalledIsOwned
  BY DEF InstalledIsOwned
<1>6. RealmShape
  BY DEF RealmShape, NoRealm
<1>7. Unshared
  BY ConstantsAssumption DEF Unshared, NoRealm
<1> QED
  BY <1>1, <1>2, <1>3, <1>4, <1>5, <1>6, <1>7 DEF IInv

LEMMA TypesKept == IInv /\ [Next]_vars => TypeOK'
<1> SUFFICES ASSUME IInv, [Next]_vars  PROVE TypeOK'
  OBVIOUS
<1> USE DEF IInv
<1> DEFINE Record == [phase : Phase, fin : BOOLEAN, home : Namespaces \cup {Nothing}]
           RealmRecord == [phase : Phase, fin : BOOLEAN, sub : SubDomains \cup {Nothing}]
           Positions == 1 .. Len(RemovalOrder) + 1
<1>1. /\ config \in [Configs -> Record] /\ realm \in [Realms -> RealmRecord]
      /\ worker \in [does : {"idle", "install", "remove"}, c : Configs \cup {Nothing},
                     at : Positions]
      /\ queue \subseteq Configs /\ installed \subseteq Everything
      /\ known \subseteq Everything /\ namespaces \subseteq SubDomains
      /\ scenario \in Scenarios
  BY DEF TypeOK
<1>2. /\ Len(RemovalOrder) \in Nat \ {0}
      /\ Positions \subseteq Nat
      /\ 1 \in Positions
      /\ \A i \in Positions : i <= Len(RemovalOrder) => i + 1 \in Positions
  BY Orders
<1>3. IdleWorker \in [does : {"idle", "install", "remove"}, c : Configs \cup {Nothing},
                      at : Positions]
  BY <1>2 DEF IdleWorker
<1>4. NoConfig \in Record /\ NoRealm \in RealmRecord
  BY DEF NoConfig, NoRealm, Phase
<1>5. scenario' = scenario
  BY DEF Next, Installer, Users, Manage, Take, Continue, Forget, StartInstall, Install,
         StartRemoval, Remove, RemoveFails, Unfinalize, Observe, Abort, Restart, Resync,
         CreateConfig, StoreConfig, DeleteConfig, CreateRealm, StoreRealm, DeleteRealm,
         AdoptRealm, CreateNamespace, DeleteNamespace, ReleaseRealm, vars
<1>6. RemovalOrder' = RemovalOrder /\ Everything' = Everything
  BY <1>5 DEF RemovalOrder, Everything, InstallOrder, May
<1>7. SUFFICES
        /\ config' \in [Configs -> Record] /\ realm' \in [Realms -> RealmRecord]
        /\ worker' \in [does : {"idle", "install", "remove"}, c : Configs \cup {Nothing},
                        at : Positions]
        /\ queue' \subseteq Configs /\ installed' \subseteq Everything
        /\ known' \subseteq Everything /\ namespaces' \subseteq SubDomains
  BY <1>1, <1>5, <1>6 DEF TypeOK
<1> HIDE DEF IInv, Record, RealmRecord, Positions
<1>8. CASE \E c \in Configs : Take(c)
  <2> PICK c \in Configs : Take(c)
    BY <1>8
  <2>1. /\ queue' \subseteq Configs
        /\ UNCHANGED <<objectVars, realmVars>>
    BY <1>1 DEF Take, Forget, StartInstall, StartRemoval, objectVars, realmVars
  <2>2. config' \in [Configs -> Record]
    <3>1. UNCHANGED config \/ config' = [config EXCEPT ![c].fin = TRUE]
      BY DEF Take, Forget, StartInstall, StartRemoval
    <3>2. [config[c] EXCEPT !.fin = TRUE] \in Record
      BY <1>1 DEF Record
    <3> QED
      BY <1>1, <3>1, <3>2
  <2>3. worker' \in [does : {"idle", "install", "remove"}, c : Configs \cup {Nothing},
                     at : Positions]
    <3>1. \/ UNCHANGED worker
          \/ worker' = [does |-> "install", c |-> c, at |-> 1]
          \/ worker' = [does |-> "remove", c |-> c, at |-> 1]
      BY DEF Take, Forget, StartInstall, StartRemoval
    <3> QED
      BY <1>1, <1>2, <3>1
  <2> QED
    BY <1>1, <2>1, <2>2, <2>3 DEF objectVars, realmVars
<1>9. CASE Install
  <2>1. worker.at \in Positions /\ worker.at <= Len(InstallOrder)
    BY <1>1, <1>9 DEF Install, IInv, WorkerShape
  <2>2. worker.at \in DOMAIN InstallOrder
    BY <2>1, Orders DEF Positions
  <2>3. InstallOrder[worker.at] \in Everything
    BY <2>2 DEF Everything, Objects
  <2>4. worker.at + 1 \in Positions
    BY <1>2, <2>1, Orders
  <2>5. worker' \in [does : {"idle", "install", "remove"}, c : Configs \cup {Nothing},
                     at : Positions]
    BY <1>1, <1>3, <1>9, <2>4 DEF Install
  <2>6. installed' \subseteq Everything /\ known' \subseteq Everything
    BY <1>1, <1>9, <2>3 DEF Install, Seen
  <2> QED
    BY <1>1, <1>9, <2>5, <2>6 DEF Install, realmVars
<1>10. CASE Remove
  <2>1. worker.at + 1 \in Positions
    BY <1>1, <1>2, <1>10 DEF Remove
  <2>2. worker' \in [does : {"idle", "install", "remove"}, c : Configs \cup {Nothing},
                     at : Positions]
    BY <1>1, <1>10, <2>1 DEF Remove
  <2>3. installed' \subseteq Everything /\ known' \subseteq Everything
    BY <1>1, <1>10 DEF Remove, Seen
  <2> QED
    BY <1>1, <1>10, <2>2, <2>3 DEF Remove, realmVars
<1>11. CASE RemoveFails \/ Abort
  <2>1. worker.c \in Configs
    BY <1>11 DEF RemoveFails, Abort, IInv, WorkerShape
  <2> QED
    BY <1>1, <1>3, <1>11, <2>1 DEF RemoveFails, Abort, Requeue, objectVars, realmVars
<1>12. CASE Unfinalize
  <2>1. worker.c \in Configs
    BY <1>12 DEF Unfinalize, IInv, WorkerShape
  <2> QED
    BY <1>1, <1>3, <1>4, <1>12, <2>1 DEF Unfinalize, objectVars, realmVars
<1>13. CASE Observe \/ Restart \/ Resync
  BY <1>1, <1>3, <1>13 DEF Observe, Restart, Resync, ExistingConfigs, objectVars, realmVars
<1>14. CASE \E c \in Configs : CreateConfig(c) \/ StoreConfig(c) \/ DeleteConfig(c)
  <2> PICK c \in Configs : CreateConfig(c) \/ StoreConfig(c) \/ DeleteConfig(c)
    BY <1>14
  <2>1. config' \in [Configs -> Record]
    <3>1. CASE CreateConfig(c)
      BY <1>1, <3>1 DEF CreateConfig, Record, Phase
    <3>2. CASE StoreConfig(c)
      <4>1. [config[c] EXCEPT !.phase = "live"] \in Record
        BY <1>1 DEF Record, Phase
      <4> QED
        BY <1>1, <3>2, <4>1 DEF StoreConfig
    <3>3. CASE DeleteConfig(c)
      <4>1. [config[c] EXCEPT !.phase = "terminating"] \in Record
        BY <1>1 DEF Record, Phase
      <4> QED
        BY <1>1, <1>4, <3>3, <4>1 DEF DeleteConfig
    <3> QED
      BY <3>1, <3>2, <3>3
  <2> QED
    BY <1>1, <2>1 DEF CreateConfig, StoreConfig, DeleteConfig, objectVars, realmVars
<1>15. CASE \E r \in Realms : CreateRealm(r) \/ StoreRealm(r) \/ DeleteRealm(r)
  <2> PICK r \in Realms : CreateRealm(r) \/ StoreRealm(r) \/ DeleteRealm(r)
    BY <1>15
  <2>1. realm' \in [Realms -> RealmRecord]
    <3>1. CASE CreateRealm(r)
      BY <1>1, <3>1 DEF CreateRealm, RealmRecord, Phase
    <3>2. CASE StoreRealm(r)
      <4>1. [realm[r] EXCEPT !.phase = "live"] \in RealmRecord
        BY <1>1 DEF RealmRecord, Phase
      <4> QED
        BY <1>1, <3>2, <4>1 DEF StoreRealm
    <3>3. CASE DeleteRealm(r)
      <4>1. [realm[r] EXCEPT !.phase = "terminating"] \in RealmRecord
        BY <1>1 DEF RealmRecord, Phase
      <4> QED
        BY <1>1, <1>4, <3>3, <4>1 DEF DeleteRealm
    <3> QED
      BY <3>1, <3>2, <3>3
  <2> QED
    BY <1>1, <2>1 DEF CreateRealm, StoreRealm, DeleteRealm, objectVars
<1>16. CASE \E r \in Realms : Manage(r)
  <2> PICK r \in Realms : Manage(r)
    BY <1>16
  <2>1. realm' \in [Realms -> RealmRecord]
    <3>1. [realm[r] EXCEPT !.fin = TRUE] \in RealmRecord
      BY <1>1 DEF RealmRecord
    <3> QED
      BY <1>1, <1>4, <3>1
        DEF Manage, AdoptRealm, CreateNamespace, DeleteNamespace, ReleaseRealm
  <2>2. namespaces' \subseteq SubDomains
    <3>1. realm[r].sub \in SubDomains \cup {Nothing}
      BY <1>1 DEF RealmRecord
    <3> QED
      BY <1>1, <3>1
        DEF Manage, AdoptRealm, CreateNamespace, DeleteNamespace, ReleaseRealm, IInv, RealmShape
  <2> QED
    BY <1>1, <2>1, <2>2
      DEF Manage, AdoptRealm, CreateNamespace, DeleteNamespace, ReleaseRealm, objectVars
<1>17. CASE UNCHANGED vars
  BY <1>1, <1>17 DEF vars
<1> QED
  BY <1>8, <1>9, <1>10, <1>11, <1>12, <1>13, <1>14, <1>15, <1>16, <1>17
    DEF Next, Installer, Users, Continue

(* No step changes the disturbances, nor the orders that depend on them.   *)
LEMMA ScenarioKept ==
  ASSUME [Next]_vars
  PROVE  /\ scenario' = scenario
         /\ RemovalOrder' = RemovalOrder
         /\ InstallOrder' = InstallOrder
<1>1. scenario' = scenario
  BY DEF Next, Installer, Users, Manage, Take, Continue, Forget, StartInstall, Install,
         StartRemoval, Remove, RemoveFails, Unfinalize, Observe, Abort, Restart, Resync,
         CreateConfig, StoreConfig, DeleteConfig, CreateRealm, StoreRealm, DeleteRealm,
         AdoptRealm, CreateNamespace, DeleteNamespace, ReleaseRealm, vars
<1> QED
  BY <1>1 DEF RemovalOrder, InstallOrder, May

(* What is said of the IDPConfigs, the worker and the objects.             *)
InstallerPart == ConfigShape /\ WorkerShape /\ RemovedSoFar /\ InstalledIsOwned

LEMMA InstallerKept == IInv /\ [Next]_vars => InstallerPart'
<1> SUFFICES ASSUME IInv, [Next]_vars  PROVE InstallerPart'
  OBVIOUS
<1> USE DEF IInv, InstallerPart
<1> DEFINE Record == [phase : Phase, fin : BOOLEAN, home : Namespaces \cup {Nothing}]
<1>1. config \in [Configs -> Record]
  BY DEF TypeOK
<1>2. /\ worker = [does |-> worker.does, c |-> worker.c, at |-> worker.at]
      /\ worker.at \in 1 .. Len(RemovalOrder) + 1
      /\ worker.does \in {"idle", "install", "remove"}
  BY DEF TypeOK
<1>3. scenario' = scenario /\ RemovalOrder' = RemovalOrder /\ InstallOrder' = InstallOrder
  BY ScenarioKept
<1>4. Len(InstallOrder) = Len(RemovalOrder) /\ Len(RemovalOrder) \in Nat \ {0}
  BY Orders
<1> HIDE DEF Record
<1>5. CASE \E c \in Configs : Forget(c)
  <2> PICK c \in Configs : Forget(c)
    BY <1>5
  <2> QED
    BY <1>3 DEF Forget, objectVars, ConfigShape, WorkerShape, RemovedSoFar, InstalledIsOwned,
                Without
<1>6. CASE \E c \in Configs : StartInstall(c)
  <2> PICK c \in Configs : StartInstall(c)
    BY <1>6
  <2>1. /\ \A d \in Configs : config'[d].phase = config[d].phase
        /\ config'[c].fin
        /\ \A d \in Configs : d # c => config'[d].fin = config[d].fin
    BY <1>1 DEF StartInstall, Record
  <2>2. \A d \in Configs : config[d].fin => config'[d].fin
    BY <2>1
  <2>3. worker' = [does |-> "install", c |-> c, at |-> 1] /\ config[c].phase = "live"
    BY DEF StartInstall
  <2>4. ConfigShape'
    BY <2>1, <2>3 DEF ConfigShape
  <2>5. WorkerShape'
    BY <1>3, <1>4, <2>1, <2>3 DEF WorkerShape
  <2>6. RemovedSoFar'
    BY <1>3, <2>3 DEF StartInstall, RemovedSoFar, Without, objectVars
  <2>7. InstalledIsOwned'
    BY <1>3, <2>2 DEF StartInstall, InstalledIsOwned, Without, objectVars
  <2> QED
    BY <2>4, <2>5, <2>6, <2>7
<1>7. CASE \E c \in Configs : StartRemoval(c)
  <2> PICK c \in Configs : StartRemoval(c)
    BY <1>7
  <2>1. /\ worker' = [does |-> "remove", c |-> c, at |-> 1]
        /\ config' = config /\ UNCHANGED <<installed, known>>
        /\ config[c].phase = "terminating"
    BY DEF StartRemoval, objectVars
  <2>2. config[c].fin
    BY <2>1 DEF ConfigShape
  <2>3. \A i \in DOMAIN RemovalOrder : ~(i < 1)
    BY Orders
  <2>4. RemovedSoFar'
    BY <1>3, <2>1, <2>3 DEF RemovedSoFar, Without
  <2> QED
    BY <1>3, <2>1, <2>2, <2>4 DEF ConfigShape, WorkerShape, InstalledIsOwned, Without
<1>8. CASE Install
  <2>1. /\ worker' = IdleWorker \/ (worker' = [worker EXCEPT !.at = @ + 1]
                                    /\ worker.at # Len(InstallOrder))
        /\ config' = config
        /\ worker.does = "install"
    BY <1>8 DEF Install
  <2>2. worker.c \in Configs /\ config[worker.c].fin /\ worker.at <= Len(InstallOrder)
    BY <2>1 DEF WorkerShape
  <2>3. /\ worker'.does # "remove"
        /\ worker'.does # "idle" => worker'.c = worker.c /\ worker'.at <= Len(InstallOrder)
    BY <1>2, <1>4, <2>1, <2>2 DEF IdleWorker
  <2>4. ConfigShape'
    BY <2>1 DEF ConfigShape
  <2>5. WorkerShape'
    BY <1>3, <2>1, <2>2, <2>3 DEF WorkerShape
  <2>6. RemovedSoFar'
    BY <1>3, <1>8, <2>3 DEF RemovedSoFar, Install, Seen, May, Without
  <2>7. InstalledIsOwned'
    BY <2>1, <2>2 DEF InstalledIsOwned
  <2> QED
    BY <2>4, <2>5, <2>6, <2>7
<1>9. CASE Remove
  <2> DEFINE object == RemovalOrder[worker.at]
  <2>1. /\ worker' = [worker EXCEPT !.at = @ + 1]
        /\ config' = config
        /\ worker.does = "remove" /\ worker.at <= Len(RemovalOrder)
        /\ installed' = IF object \in known THEN installed \ {object} ELSE installed
        /\ Seen
    BY <1>9 DEF Remove
  <2>2. worker'.does = "remove" /\ worker'.c = worker.c /\ worker'.at = worker.at + 1
    BY <1>2, <2>1
  <2>3. ConfigShape'
    BY <2>1 DEF ConfigShape
  <2>4. WorkerShape'
    BY <1>3, <2>1, <2>2 DEF WorkerShape
  <2>5. RemovedSoFar'
    <3>1. SUFFICES ASSUME Without({"lag"})
                   PROVE  /\ known' = installed'
                          /\ \A i \in DOMAIN RemovalOrder :
                               i < worker.at + 1 => RemovalOrder[i] \notin installed'
      BY <1>3, <2>2 DEF RemovedSoFar, Without
    <3>2. known = installed /\ known' = installed'
      BY <2>1, <3>1 DEF RemovedSoFar, Seen, May, Without
    <3>3. \A i \in DOMAIN RemovalOrder : i < worker.at => RemovalOrder[i] \notin installed
      BY <2>1, <3>1 DEF RemovedSoFar
    <3>4. installed' = installed \ {object}
      BY <2>1, <3>2
    <3>5. ASSUME NEW i \in DOMAIN RemovalOrder, i < worker.at + 1
          PROVE  RemovalOrder[i] \notin installed'
      <4>1. i = worker.at \/ i < worker.at
        BY <1>2, <1>4, <3>5, Orders
      <4> QED
        BY <3>3, <3>4, <4>1
    <3> QED
      BY <3>2, <3>5
  <2>6. InstalledIsOwned'
    BY <1>3, <2>1 DEF InstalledIsOwned, Without
  <2> QED
    BY <2>3, <2>4, <2>5, <2>6
<1>10. CASE RemoveFails \/ Abort
  BY <1>3, <1>10 DEF RemoveFails, Abort, Requeue, IdleWorker, objectVars, ConfigShape,
                     WorkerShape, RemovedSoFar, InstalledIsOwned, Without
<1>11. CASE Unfinalize
  <2>1. /\ worker.does = "remove" /\ worker.at > Len(RemovalOrder)
        /\ config' = [config EXCEPT ![worker.c] = NoConfig]
        /\ worker' = IdleWorker /\ UNCHANGED <<installed, known>>
    BY <1>11 DEF Unfinalize, objectVars
  <2>2. worker.c \in Configs
    BY <2>1 DEF WorkerShape
  <2>3. ConfigShape'
    BY <1>1, <2>1, <2>2 DEF ConfigShape, NoConfig
  <2>4. WorkerShape' /\ RemovedSoFar'
    BY <1>3, <2>1 DEF WorkerShape, RemovedSoFar, IdleWorker, Without
  <2>5. Without({"lag"}) => installed = {}
    <3>1. SUFFICES ASSUME Without({"lag"}), NEW o \in installed  PROVE FALSE
      OBVIOUS
    <3>2. o \in Objects(RemovalOrder)
      BY Orders DEF TypeOK
    <3>3. PICK i \in DOMAIN RemovalOrder : o = RemovalOrder[i]
      BY <3>2 DEF Objects
    <3>4. i < worker.at
      BY <1>2, <1>4, <2>1, Orders
    <3> QED
      BY <2>1, <3>1, <3>3, <3>4 DEF RemovedSoFar
  <2>6. InstalledIsOwned'
    BY <1>3, <2>1, <2>5 DEF InstalledIsOwned, Without
  <2> QED
    BY <2>3, <2>4, <2>6
<1>12. CASE Observe \/ Resync
  BY <1>3, <1>12 DEF Observe, Resync, objectVars, ConfigShape, WorkerShape, RemovedSoFar,
                     InstalledIsOwned, Without
<1>13. CASE Restart
  BY <1>3, <1>13 DEF Restart, IdleWorker, ConfigShape, WorkerShape, RemovedSoFar,
                     InstalledIsOwned, Without
<1>14. CASE \E c \in Configs : CreateConfig(c) \/ StoreConfig(c) \/ DeleteConfig(c)
  <2> PICK c \in Configs : CreateConfig(c) \/ StoreConfig(c) \/ DeleteConfig(c)
    BY <1>14
  <2>1. UNCHANGED <<worker, installed, known>>
    BY DEF CreateConfig, StoreConfig, DeleteConfig, objectVars
  <2>2. /\ \A d \in Configs : config'[d].fin <=> config[d].fin
        /\ \A d \in Configs : d # c => config'[d] = config[d]
        /\ config'[c].fin => config'[c].phase \in {"live", "terminating"}
        /\ config'[c].phase = "terminating" => config'[c].fin
    <3>1. CASE CreateConfig(c)
      BY <1>1, <3>1 DEF CreateConfig, ConfigShape, Record
    <3>2. CASE StoreConfig(c)
      BY <1>1, <3>2 DEF StoreConfig, ConfigShape, Record
    <3>3. CASE DeleteConfig(c)
      BY <1>1, <3>3 DEF DeleteConfig, ConfigShape, NoConfig, Record
    <3> QED
      BY <3>1, <3>2, <3>3
  <2>3. ConfigShape'
    BY <2>2 DEF ConfigShape
  <2>4. WorkerShape' /\ RemovedSoFar' /\ InstalledIsOwned'
    BY <1>3, <2>1, <2>2 DEF WorkerShape, RemovedSoFar, InstalledIsOwned, Without
  <2> QED
    BY <2>3, <2>4
<1>15. CASE UNCHANGED <<config, worker, installed, known>>
  BY <1>3, <1>15 DEF ConfigShape, WorkerShape, RemovedSoFar, InstalledIsOwned, Without
<1>16. CASE \E r \in Realms : CreateRealm(r) \/ StoreRealm(r) \/ DeleteRealm(r) \/ Manage(r)
  BY <1>15, <1>16 DEF CreateRealm, StoreRealm, DeleteRealm, Manage, AdoptRealm,
                      CreateNamespace, DeleteNamespace, ReleaseRealm, objectVars
<1>17. CASE UNCHANGED vars
  BY <1>15, <1>17 DEF vars
<1> QED
  BY <1>5, <1>6, <1>7, <1>8, <1>9, <1>10, <1>11, <1>12, <1>13, <1>14, <1>16, <1>17
    DEF Next, Installer, Users, Take, Continue

LEMMA RealmsKept == IInv /\ [Next]_vars => RealmShape' /\ Unshared'
<1> SUFFICES ASSUME IInv, [Next]_vars  PROVE RealmShape' /\ Unshared'
  OBVIOUS
<1> USE DEF IInv
<1> DEFINE Record == [phase : Phase, fin : BOOLEAN, sub : SubDomains \cup {Nothing}]
<1>1. realm \in [Realms -> Record] /\ Nothing \notin SubDomains
  BY ConstantsAssumption DEF TypeOK
<1>2. scenario' = scenario
  BY ScenarioKept
<1> HIDE DEF Record
<1>3. ASSUME NEW r \in Realms,
             \A q \in Realms : q # r => realm'[q] = realm[q],
             \/ realm'[r].phase = "none" /\ realm'[r].sub = Nothing
             \/ /\ realm[r].phase # "none" /\ realm'[r].phase # "none"
                /\ realm'[r].sub = realm[r].sub
      PROVE  RealmShape' /\ Unshared'
  <2>1. RealmShape'
    BY <1>3 DEF RealmShape
  <2>2. Unshared'
    BY <1>1, <1>2, <1>3 DEF Unshared, Without
  <2> QED
    BY <2>1, <2>2
<1>4. CASE UNCHANGED realm
  BY <1>2, <1>4 DEF RealmShape, Unshared, Without
<1>5. CASE \E r \in Realms : CreateRealm(r)
  <2> PICK r \in Realms : CreateRealm(r)
    BY <1>5
  <2>1. PICK s \in SubDomains :
          /\ Asked => Answers /\ ValidateAuthRealm(s)
          /\ Unclaimed(s)
          /\ realm' = [realm EXCEPT ![r] = [phase |-> "admitted", fin |-> FALSE, sub |-> s]]
    BY DEF CreateRealm
  <2>2. /\ \A q \in Realms : q # r => realm'[q] = realm[q]
        /\ realm'[r].phase = "admitted" /\ realm'[r].sub = s
    BY <1>1, <2>1
  <2>3. RealmShape'
    BY <2>2 DEF RealmShape
  <2>4. Without({"twins", "reuse", "bare"}) => \A q \in Realms : realm[q].sub # s
    BY <2>1 DEF CreateRealm, May, Without, ValidateAuthRealm, Unclaimed
  <2>5. Unshared'
    BY <1>2, <2>2, <2>4 DEF Unshared, Without
  <2> QED
    BY <2>3, <2>5
<1>6. CASE \E r \in Realms : StoreRealm(r) \/ DeleteRealm(r) \/ Manage(r)
  <2> PICK r \in Realms : StoreRealm(r) \/ DeleteRealm(r) \/ Manage(r)
    BY <1>6
  <2>1. CASE StoreRealm(r) \/ AdoptRealm(r)
    BY <1>1, <1>3, <2>1 DEF StoreRealm, AdoptRealm, Record
  <2>2. CASE DeleteRealm(r)
    BY <1>1, <1>3, <2>2 DEF DeleteRealm, NoRealm, Record
  <2>3. CASE ReleaseRealm(r)
    BY <1>1, <1>3, <2>3 DEF ReleaseRealm, NoRealm
  <2>4. CASE CreateNamespace(r) \/ DeleteNamespace(r)
    BY <1>4, <2>4 DEF CreateNamespace, DeleteNamespace
  <2> QED
    BY <2>1, <2>2, <2>3, <2>4 DEF Manage
<1>7. CASE UNCHANGED realmVars
  BY <1>4, <1>7 DEF realmVars
<1>8. CASE Installer \/ \E c \in Configs : CreateConfig(c) \/ StoreConfig(c) \/ DeleteConfig(c)
  BY <1>7, <1>8 DEF Installer, Take, Continue, Forget, StartInstall, Install, StartRemoval,
                    Remove, RemoveFails, Unfinalize, Observe, Abort, Restart, Resync,
                    CreateConfig, StoreConfig, DeleteConfig
<1>9. CASE UNCHANGED vars
  BY <1>4, <1>9 DEF vars
<1> QED
  BY <1>5, <1>6, <1>8, <1>9 DEF Next, Users

-----------------------------------------------------------------------------
(* The theorems.                                                           *)

LEMMA NextInvariant == IInv /\ [Next]_vars => IInv'
BY TypesKept, InstallerKept, RealmsKept DEF IInv, InstallerPart

LEMMA Invariance == Spec => []IInv
<1>1. Init => IInv
  BY InitInvariant
<1>2. IInv /\ [Next]_vars => IInv'
  BY NextInvariant
<1> QED
  BY <1>1, <1>2, PTL DEF Spec

(* The variables keep their types: the worker never looks beyond the       *)
(* orders of installation and removal.                                     *)
THEOREM InstallationTyped == Spec => []TypeOK
<1>1. IInv => TypeOK
  BY DEF IInv
<1> QED
  BY <1>1, Invariance, PTL

(* Whatever is installed has an IDPConfig whose finalizer will have it     *)
(* removed (SetFinalizers before processIDPConfigCreation, RemoveFinalizer *)
(* after processIDPConfigDeletion).                                        *)
THEOREM InstalledHasAnOwner == Spec => []InstalledIsOwned
<1>1. IInv => InstalledIsOwned
  BY DEF IInv
<1> QED
  BY <1>1, Invariance, PTL

(* The manager deletes no namespace that another AuthRealm lives in, when  *)
(* ValidateAuthRealm was asked about both in time.                         *)
THEOREM NamespacesAreOwn == Spec => OwnNamespacesUnlessShared
<1> DEFINE Step ==
      Without({"twins", "reuse", "bare"}) =>
        \A r \in Realms :
          /\ realm[r].phase = "live" /\ realm[r].fin
          /\ realm[r].sub \in namespaces
          => realm[r].sub \in namespaces'
<1>1. IInv /\ [Next]_vars => [Step]_vars
  <2> SUFFICES ASSUME IInv, Next, Without({"twins", "reuse", "bare"}), NEW r \in Realms,
                      realm[r].phase = "live", realm[r].sub \in namespaces
               PROVE  realm[r].sub \in namespaces'
    OBVIOUS
  <2>1. CASE \E q \in Realms : DeleteNamespace(q)
    <3> PICK q \in Realms : DeleteNamespace(q)
      BY <2>1
    <3>1. realm[r].sub \in SubDomains /\ q # r
      BY DEF IInv, RealmShape, DeleteNamespace
    <3>2. realm[q].sub # realm[r].sub
      BY <3>1 DEF IInv, Unshared
    <3> QED
      BY <3>2 DEF DeleteNamespace
  <2>2. CASE \E q \in Realms : CreateRealm(q) \/ StoreRealm(q) \/ DeleteRealm(q)
                                 \/ AdoptRealm(q) \/ CreateNamespace(q) \/ ReleaseRealm(q)
    BY <2>2 DEF CreateRealm, StoreRealm, DeleteRealm, AdoptRealm, CreateNamespace, ReleaseRealm
  <2>3. CASE Installer \/ \E c \in Configs : CreateConfig(c) \/ StoreConfig(c) \/ DeleteConfig(c)
    BY <2>3 DEF Installer, Take, Continue, Forget, StartInstall, Install, StartRemoval,
                Remove, RemoveFails, Unfinalize, Observe, Abort, Restart, Resync,
                CreateConfig, StoreConfig, DeleteConfig, realmVars
  <2> QED
    BY <2>1, <2>2, <2>3 DEF Next, Users, Manage
<1>2. Spec => [][Step]_vars
  BY <1>1, Invariance, PTL DEF Spec
<1> QED
  BY <1>2 DEF OwnNamespacesUnlessShared

=============================================================================
