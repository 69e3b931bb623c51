----------------------------- MODULE Installation -----------------------------
(***************************************************************************)
(* The installer, the admission webhook and what depends on them.          *)
(*                                                                         *)
(* An IDPConfig makes the installer apply the manager and the webhook,     *)
(* object by object; the deletion of any IDPConfig removes them.  While    *)
(* the ValidatingWebhookConfiguration exists, the API server asks the      *)
(* webhook about each AuthRealm that is created or updated and each        *)
(* IDPConfig that is created, and refuses the request when the webhook     *)
(* does not answer.  The manager, while it runs, adds the finalizers of    *)
(* the AuthRealms, gives each one the namespace that its RouteSubDomain    *)
(* names, and takes both away when the AuthRealm is deleted.               *)
(*                                                                         *)
(* The installer has one worker; its Reconcile is split at every write.    *)
(* What the manager does for an AuthRealm is in Lifecycle; here it is      *)
(* reduced to the finalizer and the namespace.                             *)
(***************************************************************************)
EXTENDS Integers, FiniteSets, Sequences

CONSTANTS
  Configs,     \* names of IDPConfigs
  Namespaces,  \* the namespaces they may be created in
  Realms,      \* names of AuthRealms
  SubDomains,  \* values of their RouteSubDomain
  Nothing,     \* absence of a value
  Scenarios    \* the sets of disturbances that a behaviour may meet

(***************************************************************************)
(* The disturbances:                                                       *)
(*   "lag"     the installer does not see yet what was applied or removed  *)
(*   "abort"   an API call of the installer fails, or it restarts          *)
(*   "several" an IDPConfig is created while another one exists            *)
(*   "leave"   an IDPConfig is deleted, or being deleted, while there are  *)
(*             AuthRealms                                                  *)
(*   "bare"    an AuthRealm is created while no webhook is configured      *)
(*   "twins"   an AuthRealm is created for the RouteSubDomain of one whose *)
(*             namespace the manager has not created yet                   *)
(*   "reuse"   an AuthRealm is created for the RouteSubDomain of one that  *)
(*             is being deleted                                            *)
(*   "test"    the image is built for coverage: there is no webhook        *)
(***************************************************************************)
AllDisturbances == {"lag", "abort", "several", "leave", "bare", "twins", "reuse", "test"}

ASSUME ConstantsAssumption ==
  /\ Scenarios \subseteq SUBSET AllDisturbances
  /\ Nothing \notin Configs \cup Namespaces \cup SubDomains

VARIABLES
  scenario,   \* the disturbances of this behaviour
  config,     \* the IDPConfigs
  queue,      \* the work queue of the installer
  worker,     \* its Reconcile: what it does, for which IDPConfig, at which object
  installed,  \* the objects that are installed
  known,      \* those of them in the caches of the installer
  realm,      \* the AuthRealms
  namespaces  \* the RouteSubDomains whose namespace exists

realmVars == <<realm, namespaces>>
objectVars == <<installed, known>>
vars == <<scenario, config, queue, worker, installed, known, realm, namespaces>>

May(d) == d \in scenario
Without(ds) == scenario \cap ds = {}

-----------------------------------------------------------------------------
(* Objects.                                                                *)

(* An object is admitted by the API server before it is stored.            *)
Phase == {"none", "admitted", "live", "terminating"}

NoConfig == [phase |-> "none", fin |-> FALSE, home |-> Nothing]
NoRealm == [phase |-> "none", fin |-> FALSE, sub |-> Nothing]

(* Objects in the order of processIDPConfigCreation.                       *)
ManagerInstall == <<"manager account", "election role", "election binding",
                    "manager role", "manager binding", "manager">>

WebhookInstall == <<"webhook account", "webhook role", "webhook binding",
                    "webhook service", "webhook", "webhook config", "api service">>

(* And in the order of processIDPConfigDeletion.                           *)
ManagerRemoval == <<"manager", "election binding", "manager binding",
                    "manager account", "manager role", "election role">>

WebhookRemoval == <<"webhook", "api service", "webhook binding", "webhook role",
                    "webhook account", "webhook service", "webhook config">>

Objects(order) == {order[i] : i \in DOMAIN order}

Manager == Objects(ManagerInstall)
Webhook == Objects(WebhookInstall)

(* What there is to install and to remove.                                 *)
InstallOrder == IF May("test") THEN ManagerInstall ELSE ManagerInstall \o WebhookInstall

(* Mutated form of RemovalOrder: the webhook is forgotten.                 *)
RemovalOfManager == ManagerRemoval

RemovalOrder == IF May("test") THEN ManagerRemoval ELSE ManagerRemoval \o WebhookRemoval

Everything == Objects(InstallOrder)

ManagerRuns == Manager \subseteq installed

(* The API server asks the webhook, and the webhook answers.               *)
Asked == "webhook config" \in installed
Answers == Webhook \subseteq installed

IdleWorker == [does |-> "idle", c |-> Nothing, at |-> 1]

ExistingConfigs == {c \in Configs : config[c].phase \in {"live", "terminating"}}

Init ==
  /\ scenario \in Scenarios
  /\ config = [c \in Configs |-> NoConfig]
  /\ queue = {}
  /\ worker = IdleWorker
  /\ installed = {}
  /\ known = {}
  /\ realm = [r \in Realms |-> NoRealm]
  /\ namespaces = {}

-----------------------------------------------------------------------------
(* The installer.                                                          *)

Seen == known' = IF May("lag") THEN known ELSE installed'

Forget(c) ==
  /\ worker.does = "idle"
  /\ c \in queue
  /\ c \notin ExistingConfigs
  /\ queue' = queue \ {c}
  /\ UNCHANGED <<scenario, config, worker, objectVars, realmVars>>

(* The finalizer is added first; that is an event for the same IDPConfig.  *)
StartInstall(c) ==
  /\ worker.does = "idle"
  /\ c \in queue
  /\ config[c].phase = "live"
  /\ config' = [config EXCEPT ![c].fin = TRUE]
  /\ queue' = IF config[c].fin THEN queue \ {c} ELSE queue
  /\ worker' = [does |-> "install", c |-> c, at |-> 1]
  /\ UNCHANGED <<scenario, objectVars, realmVars>>

(* Mutated form of Install: the last object is forgotten.                  *)
InstallShort ==
  /\ worker.does = "install"
  /\ installed' = installed \cup {InstallOrder[worker.at]}
  /\ Seen
  /\ worker' = IF worker.at = Len(InstallOrder) - 1 THEN IdleWorker
                                                    ELSE [worker EXCEPT !.at = @ + 1]
  /\ UNCHANGED <<scenario, config, queue, realmVars>>

(* An object that is there already is applied again, or left as it is.     *)
Install ==
  /\ worker.does = "install"
  /\ installed' = installed \cup {InstallOrder[worker.at]}
  /\ Seen
  /\ worker' = IF worker.at = Len(InstallOrder) THEN IdleWorker
                                                ELSE [worker EXCEPT !.at = @ + 1]
  /\ UNCHANGED <<scenario, config, queue, realmVars>>

StartRemoval(c) ==
  /\ worker.does = "idle"
  /\ c \in queue
  /\ config[c].phase = "terminating"
  /\ queue' = queue \ {c}
  /\ worker' = [does |-> "remove", c |-> c, at |-> 1]
  /\ UNCHANGED <<scenario, config, objectVars, realmVars>>

(* An object that is not found is passed over.                             *)
Remove ==
  /\ worker.does = "remove"
  /\ worker.at <= Len(RemovalOrder)
  /\ LET object == RemovalOrder[worker.at]
     IN /\ object \in known => object \in installed
        /\ installed' = IF object \in known THEN installed \ {object} ELSE installed
  /\ Seen
  /\ worker' = [worker EXCEPT !.at = @ + 1]
  /\ UNCHANGED <<scenario, config, queue, realmVars>>

Requeue ==
  /\ worker' = IdleWorker
  /\ queue' = queue \cup {worker.c}

(* The Delete of an object that is gone is an error.                       *)
RemoveFails ==
  /\ worker.does = "remove"
  /\ worker.at <= Len(RemovalOrder)
  /\ RemovalOrder[worker.at] \in known \ installed
  /\ Requeue
  /\ UNCHANGED <<scenario, config, objectVars, realmVars>>

Unfinalize ==
  /\ worker.does = "remove"
  /\ worker.at > Len(RemovalOrder)
  /\ config' = [config EXCEPT ![worker.c] = NoConfig]
  /\ queue' = queue \cup {worker.c}
  /\ worker' = IdleWorker
  /\ UNCHANGED <<scenario, objectVars, realmVars>>

(* The caches of the installer catch up.                                   *)
Observe ==
  /\ May("lag")
  /\ known # installed
  /\ known' = installed
  /\ UNCHANGED <<scenario, config, queue, worker, installed, realmVars>>

Abort ==
  /\ May("abort")
  /\ worker.does # "idle"
  /\ Requeue
  /\ UNCHANGED <<scenario, config, objectVars, realmVars>>

Restart ==
  /\ May("abort")
  /\ worker' = IdleWorker
  /\ queue' = ExistingConfigs
  /\ known' = installed
  /\ UNCHANGED <<scenario, config, installed, realmVars>>

(* The informers send every object again from time to time.                *)
Resync ==
  /\ ~ ExistingConfigs \subseteq queue
  /\ queue' = queue \cup ExistingConfigs
  /\ UNCHANGED <<scenario, config, worker, objectVars, realmVars>>

-----------------------------------------------------------------------------
(* Requests for IDPConfigs.                                                *)

(* ValidateIDPConfig: there is none in the namespace.                      *)
ValidateIDPConfig(n) == \A d \in ExistingConfigs : config[d].home # n

CreateConfig(c) ==
  /\ config[c].phase = "none"
  /\ May("several") \/ \A d \in Configs : config[d].phase = "none"
  /\ \E n \in Namespaces :
       /\ Asked => Answers /\ ValidateIDPConfig(n)
       /\ config' = [config EXCEPT ![c] = [phase |-> "admitted", fin |-> FALSE, home |-> n]]
  /\ UNCHANGED <<scenario, queue, worker, objectVars, realmVars>>

StoreConfig(c) ==
  /\ config[c].phase = "admitted"
  /\ config' = [config EXCEPT ![c].phase = "live"]
  /\ queue' = queue \cup {c}
  /\ UNCHANGED <<scenario, worker, objectVars, realmVars>>

DeleteConfig(c) ==
  /\ config[c].phase = "live"
  /\ May("leave") \/ \A r \in Realms : realm[r].phase = "none"
  /\ config' = [config EXCEPT ![c] = IF @.fin THEN [@ EXCEPT !.phase = "terminating"]
                                              ELSE NoConfig]
  /\ queue' = queue \cup {c}
  /\ UNCHANGED <<scenario, worker, objectVars, realmVars>>

-----------------------------------------------------------------------------
(* Requests for AuthRealms.                                                *)

(* Mutated form of ValidateAuthRealm: the namespace is not looked for.     *)
ValidateFormat(s) == TRUE

(* ValidateAuthRealm: the namespace for the DexServer is not in use.       *)
ValidateAuthRealm(s) == s \notin namespaces

(* What the user does only under a disturbance: ask for a RouteSubDomain   *)
(* that another AuthRealm has and no namespace gives away.                 *)
Unclaimed(s) ==
  \A r \in Realms :
    realm[r].sub = s /\ s \notin namespaces =>
      May(IF realm[r].phase = "terminating" THEN "reuse" ELSE "twins")

CreateRealm(r) ==
  /\ realm[r].phase = "none"
  /\ May("bare") \/ Asked
  /\ May("leave") \/ \A c \in Configs : config[c].phase # "terminating"
  /\ \E s \in SubDomains :
       /\ Asked => Answers /\ ValidateAuthRealm(s)
       /\ Unclaimed(s)
       /\ realm' = [realm EXCEPT ![r] = [phase |-> "admitted", fin |-> FALSE, sub |-> s]]
  /\ UNCHANGED <<scenario, config, queue, worker, objectVars, namespaces>>

StoreRealm(r) ==
  /\ realm[r].phase = "admitted"
  /\ realm' = [realm EXCEPT ![r].phase = "live"]
  /\ UNCHANGED <<scenario, config, queue, worker, objectVars, namespaces>>

(* The webhook is not asked about deletions.                               *)
DeleteRealm(r) ==
  /\ realm[r].phase = "live"
  /\ realm' = [realm EXCEPT ![r] = IF @.fin THEN [@ EXCEPT !.phase = "terminating"]
                                            ELSE NoRealm]
  /\ UNCHANGED <<scenario, config, queue, worker, objectVars, namespaces>>

-----------------------------------------------------------------------------
(* The AuthRealm controller of the manager: it updates an AuthRealm before *)
(* it creates the namespace, and after it has deleted it.                  *)

MayUpdate == Asked => Answers

AdoptRealm(r) ==
  /\ ManagerRuns /\ MayUpdate
  /\ realm[r].phase = "live" /\ ~realm[r].fin
  /\ realm' = [realm EXCEPT ![r].fin = TRUE]
  /\ UNCHANGED <<scenario, config, queue, worker, objectVars, namespaces>>

CreateNamespace(r) ==
  /\ ManagerRuns /\ MayUpdate
  /\ realm[r].phase = "live" /\ realm[r].fin
  /\ realm[r].sub \notin namespaces
  /\ namespaces' = namespaces \cup {realm[r].sub}
  /\ UNCHANGED <<scenario, config, queue, worker, objectVars, realm>>

DeleteNamespace(r) ==
  /\ ManagerRuns
  /\ realm[r].phase = "terminating"
  /\ realm[r].sub \in namespaces
  /\ namespaces' = namespaces \ {realm[r].sub}
  /\ UNCHANGED <<scenario, config, queue, worker, objectVars, realm>>

(* Mutated form of ReleaseRealm: a namespace that is gone is an error.     *)
ReleaseWithNamespace(r) ==
  /\ ManagerRuns /\ MayUpdate
  /\ realm[r].phase = "terminating"
  /\ realm[r].sub \in namespaces
  /\ namespaces' = namespaces \ {realm[r].sub}
  /\ realm' = [realm EXCEPT ![r] = NoRealm]
  /\ UNCHANGED <<scenario, config, queue, worker, objectVars>>

ReleaseRealm(r) ==
  /\ ManagerRuns /\ MayUpdate
  /\ realm[r].phase = "terminating"
  /\ realm[r].sub \notin namespaces
  /\ realm' = [realm EXCEPT ![r] = NoRealm]
  /\ UNCHANGED <<scenario, config, queue, worker, objectVars, namespaces>>

-----------------------------------------------------------------------------
Take(c) == Forget(c) \/ StartInstall(c) \/ StartRemoval(c)

Continue == Install \/ Remove \/ RemoveFails \/ Unfinalize

Installer == (\E c \in Configs : Take(c)) \/ Continue \/ Observe \/ Abort \/ Restart \/ Resync

Users ==
  \/ \E c \in Configs : CreateConfig(c) \/ StoreConfig(c) \/ DeleteConfig(c)
  \/ \E r \in Realms : CreateRealm(r) \/ StoreRealm(r) \/ DeleteRealm(r)

Manage(r) == AdoptRealm(r) \/ CreateNamespace(r) \/ DeleteNamespace(r) \/ ReleaseRealm(r)

Next == Installer \/ Users \/ \E r \in Realms : Manage(r)

Spec == Init /\ [][Next]_vars

(* The queue passes no request over; the informers resynchronise; the      *)
(* manager gets to every AuthRealm.                                        *)
Fairness ==
  /\ WF_vars(Continue) /\ WF_vars(Resync)
  /\ \A c \in Configs : SF_vars(Take(c)) /\ WF_vars(StoreConfig(c))
  /\ \A r \in Realms : WF_vars(Manage(r)) /\ WF_vars(StoreRealm(r))

FairSpec == Spec /\ Fairness

-----------------------------------------------------------------------------
(* Properties.                                                             *)

(* The type of every variable.                                             *)
TypeOK ==
  /\ scenario \in Scenarios
  /\ config \in [Configs -> [phase : Phase, fin : BOOLEAN, home : Namespaces \cup {Nothing}]]
  /\ queue \subseteq Configs
  /\ worker \in [does : {"idle", "install", "remove"}, c : Configs \cup {Nothing},
                 at : 1 .. Len(RemovalOrder) + 1]
  /\ installed \subseteq Everything
  /\ known \subseteq Everything
  /\ realm \in [Realms -> [phase : Phase, fin : BOOLEAN, sub : SubDomains \cup {Nothing}]]
  /\ namespaces \subseteq SubDomains

(* As long as anything is installed there is an IDPConfig whose finalizer  *)
(* will have it removed, however often the installer fails, and however    *)
(* many IDPConfigs there are, unless the installer reads stale caches.     *)
InstalledIsOwned ==
  Without({"lag"}) => (installed # {} => \E c \in Configs : config[c].fin)

(* An IDPConfig stays, and no other one is being deleted.                  *)
Kept(c) ==
  config[c].phase = "live" /\ \A d \in Configs : config[d].phase # "terminating"

Dropped == \A c \in Configs : config[c].phase \notin {"admitted", "live"}

(* With the IDPConfigs the installation settles: it is complete, though    *)
(* the deletion of another IDPConfig has taken it away, or it is gone, and *)
(* so are the IDPConfigs.                                                  *)
Settles ==
  Without({"lag", "abort"}) =>
    /\ \A c \in Configs : <>[]Kept(c) => <>[](installed = Everything)
    /\ <>[]Dropped => <>[](installed = {} /\ ExistingConfigs = {})

(* While an IDPConfig stays, the deletion of an AuthRealm ends, whatever   *)
(* was uninstalled before and whichever requests the webhook refuses.      *)
DeletedRealmsEnd ==
  Without({"lag", "abort", "twins", "reuse", "bare"}) =>
    \A c \in Configs : <>[]Kept(c) =>
      \A r \in Realms : realm[r].phase = "terminating" ~> realm[r].phase = "none"

(* A namespace is only taken away when no AuthRealm in use of it lives     *)
(* (comment of ValidateAuthRealm: "is already in use").                    *)
OwnNamespaces ==
  [][\A r \in Realms :
       /\ realm[r].phase = "live" /\ realm[r].fin
       /\ realm[r].sub \in namespaces
       => realm[r].sub \in namespaces']_vars

(* So it is unless two AuthRealms ask for a RouteSubDomain while no        *)
(* namespace gives the other one away.                                     *)
OwnNamespacesUnlessShared ==
  [][Without({"twins", "reuse", "bare"}) =>
       \A r \in Realms :
         /\ realm[r].phase = "live" /\ realm[r].fin
         /\ realm[r].sub \in namespaces
         => realm[r].sub \in namespaces']_vars

=============================================================================
