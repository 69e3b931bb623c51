# A TLA+ model of idp-mgmt-operator

idp-mgmt-operator runs on a hub cluster of Open Cluster Management. An
`AuthRealm` says which identity providers the users of a set of managed clusters
shall log in with. The operator runs a Dex server for it on the hub, makes every
cluster of its placement a client of that server, and replaces the OAuth
configuration of these clusters, or of their hosted control planes. When the
realm or the cluster goes away, the original configuration must come back.

This directory models the controllers that do that work, checks the models with
TLC and proves the central facts about them with TLAPS.

## The system

Everything is a Kubernetes controller (controller-runtime v0.11.1): a Reconcile
function, one worker, a work queue of object names, reads answered by an
informer cache, writes answered by the API server. `Update` carries the resource
version that was read and fails on a conflict; `Status().Patch` is a merge patch
without one. Controllers talk only through objects of the API server, through
finalizers (`authrealm.identitatem.io/cleanup`), owner references and watches.

| component | source | state it keeps | operations |
|---|---|---|---|
| AuthRealm controller | `controllers/authrealm` | the Dex operator and the Dex server of the realm, its two Strategies | `processAuthRealmUpdate` (finalizer, `syncDexCRs`, `createStrategies`), `processAuthRealmDeletion` (wait for the DexClients, delete the DexServer and its namespace, the Strategies, the Dex operator of the last realm) |
| Strategy controller | `controllers/strategy` | one generated Placement per strategy type and user Placement, shared by its Strategies through owner references | `processStrategyUpdate`, `processStrategyDeletion`, `deleteStrategyPlacement` |
| Placement controller | `controllers/placement` | per selected cluster a client secret, a DexClient, a ClusterOAuth | `processPlacementUpdate` (`deleteObsoleteConfigs`, `createConfigs`), `processPlacementDeletion` |
| ClusterOAuth controller | `controllers/clusteroauth` | the saved original OAuth, the ManifestWorks or the hosted configuration of one cluster | `Save`, `Push`, `Unmanage` of `BackplaneMgr` and `HypershiftMgr` |
| ManifestWork and HypershiftDeployment controllers | `controllers/manifestwork`, `controllers/hypershiftdeployment` | nothing of their own | copy conditions into the status of the AuthRealm |
| Installer | `controllers/installer`, `cmd/installer` | the deployments of the manager and the webhook, with their accounts, roles, service and registration | `processIDPConfigCreation`, `processIDPConfigDeletion` |
| Webhook | `webhook` | nothing | validation of AuthRealms and IDPConfigs |
| External | dex-operator, work, view and placement agents, garbage collector | DexServers, ManifestWork status, ManagedClusterView results, PlacementDecisions | modelled from how the code uses them |

What is hard about it: a ClusterOAuth is written by one controller and consumed
by another while a third may be deleting its namespace neighbours; the OAuth of
a cluster is one object that all the ClusterOAuths of the cluster share; saving
it is asynchronous (a view agent answers later) and so is restoring it (a work
agent applies it later); deletion is a chain of five controllers each waiting
for the next; all of it must survive failed calls, restarts and stale caches.

For each component, what makes it correct:

- *ClusterOAuth controller*: the cluster's own OAuth is saved before anything is
  pushed and is back once no ClusterOAuth is left; what a live, Applied
  ClusterOAuth contributes is pushed; a finalizer is not removed before the
  contribution is; the cluster settles on the providers that are wanted.
- *AuthRealm, Strategy and Placement controllers*: a deletion ends and leaves
  nothing behind; a realm that lives keeps its operator, server and clients
  while others are deleted; the clusters selected by a live realm become its
  clients, the deselected ones stop being it.
- *Strategy controller, derived Placements*: they select clusters that the user's
  Placement selects, of the type of the Strategy, and no other.
- *Status aggregation*: one entry per strategy and cluster; what the objects
  settle on reaches the AuthRealm in the end.
- *Installer and webhook*: what is installed has an IDPConfig that will have it
  removed; nothing is uninstalled for good that is still needed; no AuthRealm
  loses its namespace to another one with the same route subdomain.

## Modules

| module | role |
|---|---|
| `ClusterOAuthMgr` | the promise of the Go interface of that name (`clusteroauthmgr.go`), as a specification of the saved copy and the pushed OAuth: `Configure`, `SaveOriginal`, `PushOAuths`, `RestoreOriginal`, `DropCopy` |
| `BackplaneOAuth` | the ClusterOAuth controller on one managed cluster of backplane type, its environment, its properties and its inductive invariant; refines `ClusterOAuthMgr` |
| `HypershiftOAuth` | the ClusterOAuth controller on one hosted cluster; the other refinement of `ClusterOAuthMgr` |
| `Lifecycle` | the AuthRealm, Strategy and Placement controllers together, with the user, the scheduler, the Dex operator and the garbage collector around them |
| `PlacementSelection` | which clusters the derived Placements select |
| `AuthRealmStatus` | the status of one AuthRealm, written by five controllers |
| `Installation` | the installer, the admission webhook, and the AuthRealms that depend on them |
| `MCBackplaneOAuth`, `MCHypershiftOAuth`, `MCLifecycle`, `MCAuthRealmStatus`, `MCInstallation` | symmetry and values of constants for TLC; `PlacementSelection` needs none |
| `BackplaneOAuthProofs`, `BackplanePromiseProofs`, `HypershiftOAuthProofs`, `LifecycleProofs`, `LifecycleSecretsProofs`, `PlacementSelectionProofs`, `AuthRealmStatusProofs`, `InstallationProofs` | the theorems about these modules |

How the modules meet. The placement controller of `BackplaneOAuth` and
`HypershiftOAuth` (`CreateOAuth`, `DeleteOAuth`) stands for the worker `pw` of
`Lifecycle`; each of the two stands behind the action `OAuthGone` of `Lifecycle`,
which takes a terminating ClusterOAuth away. That it comes in the end is
`DeletionsEnd` of `BackplaneOAuth` and `Converges` of `HypershiftOAuth`, and the
fairness of `OAuthGone` is that property. `PlacementSelection` says what the
derived Placements of `Lifecycle` select; `AuthRealmStatus` follows the conditions
that the others only set; `Installation` reduces an AuthRealm of `Lifecycle` to its
finalizer and its namespace.

*Scenarios.* What the environment does beyond the plain course of events is a
*disturbance*: an API call that fails, a cache that lags, a user in a hurry. The
constant `Scenarios` holds sets of disturbances; each behaviour picks one at the
start (the variable `scenario`, which no action changes), and an action or a guard
that belongs to a disturbance asks `May(d)`. So one run explores several
environments, and each property says itself under which disturbances it is
claimed. The theorems hold for every set of scenarios. Each such exception was
found by TLC: with the named disturbance the property is violated.

### BackplaneOAuth and the code

| variable | in the code |
|---|---|
| `co` | the ClusterOAuths of the cluster's namespace in the API server: deletion timestamp, finalizer, condition Applied |
| `seen` | the same objects in the informer cache that `Get` and `List` read |
| `queue` | the work queue of the controller |
| `secrets` | the client secrets created by the placement controller |
| `backup` | the ConfigMap `idp-oauth-original` |
| `view` | the ManagedClusterView that `Save` applies, and its result |
| `works` | the ManifestWorks `idp-oauth` and `idp-oauth-original`: phase, the OAuth in the manifest, the condition Applied |
| `oauth` | the OAuth `cluster` of the managed cluster |
| `pc`, `cur` | the point the worker has reached in Reconcile, and for which ClusterOAuth |

A Reconcile is cut at its writes. `Manage` is the part up to the update that adds
the finalizer; `Save`, `ReadView`, `DropView` are `BackplaneMgr.Save`; `Push` is
`BackplaneMgr.Push`; `Report` sets the condition. For a terminating object,
`StartDelete`, `Unmanage`, `Restore`, `Check` or `NotYetApplied`,
`DropOriginal`, `Unfinalize` follow `BackplaneMgr.Unmanage` and the removal of
the finalizer. `CreateSecret`, `CreateOAuth`, `DeleteSecret`, `DeleteOAuth` are
the placement controller. A read is merged into the write that follows it.

An OAuth is the set of its providers; the providers of the administrator are one
value, `Admin`. What stays out of the model, and why:

- The ManagedCluster, AuthRealm and Strategy that Reconcile reads are taken to
  exist. Only ClusterOAuths have a lagging cache: a stale ManifestWork or
  ConfigMap makes the write that follows fail, which is `Abort`.
- An object created again has the name of the old one. The model tells them apart
  by phase: `Unfinalize` fails when the object is not terminating.
- The administrator does not edit the OAuth while it is managed.

| property | claimed | fails with |
|---|---|---|
| `UnmanagedBeforeRemoved`, `BackupOutlivesRestore` | always (proved) | |
| `AppliedIsPushed` | without `release` (proved) | `release`: `CreateOrUpdateManifestWork` updates a work that is being deleted (`backplane.go:272`) and Reconcile reports success |
| `NoConflictingWorks` | without `lag`, `overlap` (proved) | `lag`; `overlap`: a retry of Unmanage finds a second ClusterOAuth and leaves `idp-oauth-original` on the cluster |
| `KeepsPromise` | with at most `early` (proved) | `view`: Push overtakes Save (`backplane.go:98`); `abort`: the Push of an Unmanage is not preceded by a Save (`backplane.go:323`); `lag`: an empty List (`backplane.go:299`); `release`, `overlap`: a work on its way out, or a second ClusterOAuth, comes between the restoring and the end of the saved copy |
| `RestoredWhenUnmanaged` | without any (proved) | `lag`; `early`: the provider was pushed by another's Reconcile before its own finalizer (`clusteroauth_controller.go:169`); and the ones above |
| `Converges`, `ConvergesWhileManaged` | without any; with at most `view` while some ClusterOAuth is wanted | `release`, `lag`, `early`, `overlap`: two works are applied in turn |
| `DeletionsEnd` | in all scenarios it was checked in (none, `early`, `view`) | |

### HypershiftOAuth and the code

| variable | in the code |
|---|---|
| `co`, `seen`, `queue`, `secrets`, `pc`, `cur` | as in `BackplaneOAuth` |
| `backup` | the ConfigMap `idp-oauth-original`, whose data may be empty (`Absent`) |
| `items`, `refs` | `spec.hostedClusterSpec.configuration.items` and `secretRefs` of the HypershiftDeployment |
| `copies` | the client secrets copied to its namespace |
| `hosted` | that the HypershiftDeployment and the ManagedCluster exist |
| `original` | what the administrator has configured, in no object of its own |
| `push` | the ClusterOAuths that Push has listed, the secrets it has still to copy, and where it returns to |

The items are a sequence, because the code replaces, appends, moves and cuts off
by index: `WithOAuth` is the end of `Push`, `WithoutOAuth` the removal in
`Unmanage`, `Index` the search of `searchConfiguration`. `Save`, `Push`,
`CopySecret`, `UpdateHd`, `Unmanage`, `NothingToRestore`, `Restore`, `DropBackup`
follow `HypershiftMgr`; `SaveFails`, `PushFails`, `UnmanageFails` are its errors
when the hosted cluster or a secret is missing. The administrator may configure
or remove the OAuth while nothing is managed (`Configure`). Simplifications:

- `Update` of the HypershiftDeployment carries the version that was read; one
  that hits a conflict is `Abort`.
- `Namesakes` are configuration objects of another kind called `cluster`, which
  `searchConfiguration` takes for the OAuth since it does not look at the kind. As
  the configuration objects of OpenShift are mostly called so, they are nothing
  unusual. With the disturbance `namesake` the configuration holds them; the run
  `hypershift` has one, an object with another name, and the OAuth that the
  administrator may or may not have configured. The first match in the list is what
  Save saves, Push replaces and Unmanage brings back; the other stays where it is.
- References and copied secrets are never removed, as in the code.

| property | claimed | fails with |
|---|---|---|
| `TypeOK`, `ProvidersHaveSecrets`, `AppliedIsPushed` | always (proved, also with namesakes) | |
| `OthersKept` | always for objects with names of their own; for namesakes, that they are there or saved, with at most `overlap`, `detach`, `namesake` (proved) | the other disturbances together with `namesake`: a namesake that was replaced is not in the ConfigMap |
| `RestoredWhenUnmanaged` | with at most `overlap`, `detach`, `namesake` (proved) | `early`, `abort`: a ConfigMap is left behind (`hypershift.go:215`); `lag`: an empty List |
| `KeepsPromise` | with at most `overlap`, `detach` (proved) | `namesake`: what is replaced and restored need not be the OAuth; and the ones above |
| `UnmanagedBeforeRemoved` | without `lag`, `abort` (proved, also with namesakes) | `lag`; `abort` together with `early` or `overlap`: an OAuth was pushed that was not saved first |
| `Converges` | with at most `overlap`, `detach`, `namesake`, while the cluster exists | `detach`: without the hosted cluster Unmanage fails for ever and the finalizer stays |

### Lifecycle and the code

| variable | in the code |
|---|---|
| `realm` | the AuthRealms: deletion timestamp, finalizer, condition Applied |
| `operator` | the namespace `idp-mgmt-dex`, the ClusterRoleBinding and the ClusterRole of the Dex operator |
| `ns`, `server` | the namespace of the route subdomain and the DexServer in it |
| `strategy` | the Strategies: deletion timestamp, finalizer, `spec.placementRef` set |
| `userPl`, `pl` | the Placements of the user; those derived from them (`PlacementStrategyName`), with their owner references in order |
| `decisions` | the PlacementDecisions of the derived Placements |
| `secrets`, `client`, `oauth` | client secrets, DexClients, ClusterOAuths per AuthRealm and cluster |
| `ar`, `st`, `pw` | where the one worker of each controller is, and what its Reconcile has read |
| `late` | nothing in the code: a history of the AuthRealms created between the List of `deleteDexOperator` and the end of what it removes, until the operator is installed again; only properties read it |

| Reconcile | actions |
|---|---|
| AuthRealm, live | `Prepare` (finalizer), `InstallDexOperator`, `CreateDexServer`, `CreateStrategy` (and the condition Applied) |
| AuthRealm, terminating | `FindNoClient`, then one of `DeleteDexServer`, `DeleteDexNamespace`, `DeleteStrategy`, `ListAuthRealms`, the last followed by `DeleteDexOperator` or `Finish`; each Reconcile but one that ends with `Finish` returns with a requeue |
| Strategy, live | `TakeStrategy` (finalizer), then `SkipStrategy`, or `DeleteStrategyPlacement`, or `GetStrategyPlacement`, `PlaceStrategy`, `OwnPlacement` |
| Strategy, terminating | `DeletePlacement` by the last owner, `FinishStrategy` |
| Placement, live | `TakePlacement`, `NextStrategy` for every Strategy; `DeleteObsoleteOAuth`, `DeleteObsoleteClient` or `NothingObsolete`; `CreateClientSecret`, `CreateDexClient`, `CreateClusterOAuth` per cluster, `ConfigsCreated` |
| Placement, terminating | `DeleteSelectedOAuth`, `FinishPlacement` |

`OwnPlacement` fails when the Placement is not the one that was read. A failed
update ends the Reconcile, and the next one begins anew. The simplifications:

- There are no queues: an object may be reconciled at any time, and is
  reconciled again and again. The code has watches for most changes and the
  resynchronisation of the informers for the rest. It follows that a missing
  watch delays a property and does not break it.
- Of the two Strategies of an AuthRealm (backplane and hypershift) one is
  modelled. Each has a derived Placement of its own.
- A ClusterOAuth that is deleted is taken to have its finalizer, and needs the
  AuthRealm to go (`deleteAuthRealmConditions` of the ClusterOAuth controller
  fails without it).
- The Dex operator is taken to stop when its namespace begins to be deleted.
- Caches are up to date, and calls do not fail other than by conflicts; restarts
  are invisible, since a Reconcile that is cut short begins anew (not modelled).

| property | claimed | fails with |
|---|---|---|
| `OperatorServes` | always, of all AuthRealms but those that are `late` (proved) | an AuthRealm that is `late`: it came after the List (`authrealm/dex.go:144`), and the operator is installed in a namespace that is then deleted (`:163`) |
| `NothingLeftBehind` | without `hasty`, `reselect` (proved) | `hasty`: an AuthRealm deleted while `createConfigs` runs for it gets a ClusterOAuth that waits for the AuthRealm after it is gone (`placement/dex.go:118`) |
| `SecretsRemoved` | without `hasty`, `reselect`, `unplace` (proved) | the client secret is created before the ClusterOAuth and deleted with it only |
| `ClientsFinalized` | of all AuthRealms but those that are `late`; of terminating ones without `together` (proved) | `together`: only live AuthRealms are counted (`authrealm/dex.go:148`); an AuthRealm that is `late` has no operator |
| `UninstalledWithTheLast` | without `hasty` (proved) | `hasty`: the AuthRealm whose presence kept the operator is deleted before it has its finalizer |
| `DeletionEnds` | with one AuthRealm, without `unplace` | `unplace`: the DexClients have nobody who deletes them (`authrealm/dex.go:519`); two AuthRealms that share a Placement, see *Findings* |
| `Serves`, `Withdraws` | with one AuthRealm; `Withdraws` without `reselect` | `reselect`: a terminating DexClient is taken for a new one (`placement/dex.go:236`) |

### PlacementSelection and the code

`user` is the Placement of the user, `derived` the Placement of each type of
Strategy, `worker` and `copy` the Strategy that is reconciled and the Placement
that its Reconcile has read, `hosted` the claims of the clusters. A requirement
(an expression on claims, one on labels, the labels to match) is modelled by the
set of clusters that meet it; `rest` stands for everything else that restricts a
Placement. `AddUserDefinedSelectors` is the function of that name
(`strategy/common.go`): all predicates are required together, where the scheduler
needs one of them, and of the labels only the last list counts. `Read` and
`Write` are `processStrategyUpdate` up to the Placement, which keeps the rest of
its specification once it exists. `Edit` is the user, bounded by `MaxEdits`.
`OnlySelected` is claimed without `resets` (proved), `FollowsUser` without
`resets` and `alternatives`: with several predicates the derived Placement may
select too few clusters, and a change of anything but the predicates is not
copied.

### AuthRealmStatus and the code

`status` is `status.strategies` of the AuthRealm: a list of entries with a list of
clusters each. `copy` holds, for each of the five controllers, the list it has
read and what it will report; `strategy`, `placement`, `oauth`, `work`, `hd` are
the conditions of the objects it reports about; `pending` the events that the
ManifestWork and HypershiftDeployment controllers have to handle, since their
predicates let only changes of the status through. `Reconcile...` takes the copy,
`Report...` sends the difference as a merge patch, in which a list that differs
replaces the whole list; `WithdrawReport` is `deleteAuthRealmConditions` and what
follows it. `Index`, `WithEntry`, `WithoutEntry` are `GetStrategyStatusIndex`,
`GetClusterStatusIndex` and the appending and slicing around them. The conditions
of an entry are merged one by one in the code; the model has one for each object.
Several copies are held at once only under `race`: then the properties say that
the right value is shown again and again, otherwise that it stays. `WorksShown`
is claimed without `race` and `alien` (the predicate looks at the name of a
ManifestWork for updates only, `manifestwork_controller.go:157`), `HdsShown` and
`Withdrawn` without `race`.

### Installation and the code

`config` are the IDPConfigs, `worker` the Reconcile of the installer with the
index of the object it has come to, `installed` the objects it has applied and
`known` those in its caches, `realm` and `namespaces` the AuthRealms and the
namespaces of their route subdomains. `InstallOrder` and `RemovalOrder` are the
orders of `processIDPConfigCreation` and `processIDPConfigDeletion`, and differ.
`CreateConfig`, `CreateRealm` are requests that the API server admits: it asks the
webhook as long as the `ValidatingWebhookConfiguration` exists and refuses when
the webhook does not answer; `StoreConfig`, `StoreRealm` store the object later,
so two requests may be admitted side by side. `AdoptRealm`, `CreateNamespace`,
`DeleteNamespace`, `ReleaseRealm` are what the manager does for an AuthRealm, while
it runs. In a build for coverage there is no webhook (`test`).

| property | claimed | fails with |
|---|---|---|
| `InstalledIsOwned` | without `lag` (proved) | `lag`: the ValidatingWebhookConfiguration is not seen and stays without webhook |
| `Settles` | without `lag`, `abort` | |
| `DeletedRealmsEnd` | without `lag`, `abort`, `twins`, `reuse`, `bare` | |
| `OwnNamespaces` | without `twins`, `reuse`, `bare` as `OwnNamespacesUnlessShared` (proved) | `reuse` and the other two: the namespace by which the webhook goes is not there yet, or no longer |

`abort` is excluded from the liveness properties only because a behaviour in which
every call fails settles on nothing.

## Runs

| run | instance | scenarios | distinct states | what it shows |
|---|---|---|---|---|
| `backplane_fair` | 2 ClusterOAuths, fair | none; `early`; `view` | 308,112 | `KeepsPromise`, the original OAuth is back, one work at a time, deletions end, the cluster settles |
| `backplane_faults` | 2 ClusterOAuths (symmetric) | `lag` and `early`; `release`, `abort` and `overlap` | 7,136,495 | finalizers, conditions and the saved OAuth survive failures; the inductive invariant |
| `backplane_save_too_late` | 2 ClusterOAuths | `view` | | a violation: the saved OAuth is one that the controller pushed |
| `hypershift` | 2 ClusterOAuths, 2 other items, one of them a namesake, fair | `overlap` and `detach`; `lag`; `abort` and `overlap`; `early`; `namesake` and `overlap` | 778,044 | the list of items is kept, secrets come first, the original OAuth is back, `KeepsPromise`, the configuration settles |
| `hypershift_leftover` | 1 ClusterOAuth, 1 other item | `early` | | a violation: a ConfigMap left behind is restored later |
| `lifecycle_one` | 1 AuthRealm, 2 clusters, fair | `hasty` | 27,840 | deletions end; selected clusters are served, deselected ones are left |
| `lifecycle_shared` | 2 AuthRealms (symmetric) on 1 Placement, 1 cluster | none; `rush` and `together` | 3,590,231 | nothing is left behind, and the Dex operator stays as long as it is needed and no longer |
| `lifecycle_uninstall` | 1 AuthRealm, 1 cluster, fair | `unplace` | | a violation: an AuthRealm that is never gone |
| `selection` | 1 cluster, up to 2 predicates, 1 edit, fair | none; `alternatives`; `resets` | 228,180 | derived Placements never select too much, and with one predicate come to select what they should |
| `status` | 1 strategy, 1 cluster, 2 values, 2 copies, fair | `race` and `alien`; `fail` and `unselect`; `change` and `unselect`; `change` and `detach` | 40,003 | no entry is doubled, what the objects settle on is shown |
| `installation` | 2 IDPConfigs, 2 AuthRealms, 1 subdomain, fair | `lag`, `several`, `test`; `abort`, `several`, `leave`; `several`, `leave`; `bare`, `leave`, `twins`, `reuse` | 487,947 | what is installed will be removed, the installation settles, AuthRealms come to be deleted, namespaces are not taken away |
| `installation_reuse` | 1 IDPConfig, 2 AuthRealms | `reuse` | | a violation: a live AuthRealm loses its namespace |

Deadlock is checked in all of them: users can always go on.

*Bounds, and why they are enough.* All sets are finite, and the runs explore all
reachable states; the only counters that are bounded are `MaxEdits` and
`MaxCopies`.

- The ClusterOAuth controllers treat ClusterOAuths alike and distinguish none, one
  and several of them (`len(clusterOAuths.Items) == 1`): two show every case. One
  other configuration object shows whether items are lost or doubled, though the
  item that Unmanage removes there is always the last, where Push has appended it;
  that moving the last item into another place keeps the rest is proved. A namesake
  and the OAuth of the administrator, in either order, show that one match is
  replaced and restored while another one follows it. The proofs cover any number
  of objects and of namesakes.
- `Lifecycle` has one Placement, so that AuthRealms share it: it is through a
  shared Placement, and through the Dex operator, that they interact. The code
  distinguishes the last AuthRealm and the last owner from the others: two show
  both. Clusters are independent but for the loops of `createConfigs` and
  `deleteObsoleteConfigs`, which two show; the liveness properties are checked
  with two clusters and one AuthRealm, the safety properties with one cluster and
  two AuthRealms.
- In `PlacementSelection` clusters do not interact at all. Two predicates are the
  first case in which "all of them" and "one of them" differ. One edit while a copy
  is held is what a stale copy needs; a second one is a behaviour of the same kind.
- In `AuthRealmStatus` one strategy and one cluster are enough for copies to
  overwrite each other, since five controllers write the two entries; that entries
  of several objects stay apart is proved for any number.
- In `Installation` two IDPConfigs show one removing what another needs, two
  AuthRealms on one subdomain everything that concerns namespaces.

*Fairness.* A worker finishes what it has begun (weak fairness of `Continue`, or
of the `Report...` actions: one goroutine per controller). Every request in a
queue is taken in turn, or again after a back-off when its update hit a conflict;
since a conflict disables `Take` for a while, its fairness is strong. Informers and
agents do their work in the end (weak fairness of `Observe`, `AgentApply`,
`AgentRelease`, `AgentView`). The placement controller repeats a deletion it has
begun (`Requeue` while "waiting clusterOauth deletion"), hence weak fairness of
`DeleteOAuth`. Nothing forces it to create or to delete: `Wanted(S)` is a
hypothesis of the liveness properties.

In `Lifecycle`, each of the three workers finishes the Reconcile it has begun
(`ArContinues \/ ArDeletes`, `StContinues`, `PwContinues`). Every object is
reconciled again and again (requeues, watches, resynchronisation); the worker that
would do it is busy with other objects in between, so the fairness of
`ArWorks(r)`, `StWorks(r)`, `PwWorks(p)` is strong, one for each object. The same
holds of the objects of `AuthRealmStatus`, whose first three controllers see
every object again when their informers resynchronise, and of the Strategies in
`PlacementSelection`, where calls moreover do not fail for ever (strong fairness of
a `Write` that follows a `Read`). In `Installation` the installer is
resynchronised (weak fairness of `Resync`), admitted objects are stored, and the
manager, while it runs, gets to every AuthRealm (weak fairness of `Manage(r)`). The
user, the administrator and the scheduler are under no obligation anywhere.

## Findings

Four runs show a disagreement of the code with what its documents or comments
say; `PROJECT.json` quotes both sides.

| run | what happens |
|---|---|
| `backplane_save_too_late` | Push is not held back while the ManagedClusterView has no result, and the pushed OAuth is saved as the original |
| `hypershift_leftover` | a ClusterOAuth deleted between Save and Push leaves its ConfigMap, which a later Unmanage restores |
| `lifecycle_uninstall` | deleting the Placement before the AuthRealm, as the README suggests, leaves the AuthRealm terminating for ever |
| `installation_reuse` | the namespace of an AuthRealm is taken away by the deletion of another one with the same route subdomain |

Others came up in modelling and are kept out of the checked claims by the
disturbance, or the assumption, that leads to them:

- `backplane.go:299`: with a stale, empty List the Unmanage of the last
  ClusterOAuth pushes an empty OAuth and restores nothing (`lag`).
- `clusteroauth_controller.go:214`: the finalizer of a ClusterOAuth cannot be
  removed once its ManagedCluster is gone (`detach`).
- `hypershift.go:279`: `searchConfiguration` takes the first configuration object
  named `cluster` for the OAuth, of whatever kind it is. Push replaces it, so it is
  missing while the cluster is managed, and the OAuth of the administrator, if it
  comes later, stays beside the pushed one (`namesake`). Copied secrets and their
  references are never removed.
- `authrealm/dex.go:144` and `:163`: an AuthRealm created after `deleteDexOperator`
  has listed the AuthRealms loses the Dex operator. It may be reported as Applied
  all the same, since everything can be applied to a namespace that is still there
  or only just terminating, and has no operator until a later Reconcile installs it
  again (`late`).
- `authrealm/dex.go:148`: of two AuthRealms deleted together the first removes the
  Dex operator, and the DexClients of the second keep their finalizers
  (`together`).
- `authrealm/dex.go:519` with `placement_controller.go:176`: when two AuthRealms
  share a Placement, the last owner may delete the derived Placement without the
  DexClients of the other, whose deletion then does not end.
- `placement/dex.go:236`: a terminating DexClient counts as present, so a cluster
  selected again is left without one until the next Reconcile (`reselect`).
- `strategy/common.go:36`: several predicates of the user's Placement are required
  together, only the last list of labels counts; of an existing derived Placement
  nothing but the predicates is updated.
- `hypershiftdeployment_controller.go:101`: a change of a HypershiftDeployment is
  not shown if it came before the ClusterOAuth; under `race` a status entry may be
  overwritten by an older one until the next resynchronisation.
- `installer_controller.go`: the deletion of one IDPConfig uninstalls what another
  one still needs until the next resynchronisation; the manager may go while
  AuthRealms wait for it; with a stale cache the ValidatingWebhookConfiguration
  stays without a webhook, and every creation is refused.
- The grouping of GitHub teams (`authrealm/dex.go:378`) uses a flag that is not
  reset between teams.

## Proofs

All theorems hold for every value of the constants that the module's
`ConstantsAssumption` allows, in particular for every number of objects and every
set of scenarios.

`BackplaneOAuthProofs`: `TypeCorrect`, `Invariance` (`Spec => []IInv`),
`FinalizerProtects` (`UnmanagedBeforeRemoved`), `BackupProtected`
(`BackupOutlivesRestore`), `StatusIsTrue` (`AppliedIsPushed`). The argument.
`UnmanagedBeforeRemoved` speaks of the step `Unfinalize`, which comes several
writes after the one that took the provider out of the work. In between, other
actors write; what carries the fact across is `CurIsUnpushed`: after Unmanage, the
provider of the object being deleted is not in the work. For that, a push must
never contain a terminating object: the push takes the objects that the informer
shows live, so `WorkerShape` says that the object being deleted is terminating in
the informer as well, and `FinalizedIsSeen` and `ObjectShape` exclude that the
informer takes an older life of the object for the present one. `BackupShape` says
that at `Check` the restoring work carries the saved OAuth; `BackupOutlivesRestore`
follows from it and from the guard of `Check`. `PushedShape` extends the invariant
for `StatusIsTrue`.

`BackplanePromiseProofs` builds on it: `WorksDoNotConflict` (`NoConflictingWorks`),
`BackplaneKeepsPromise` (`KeepsPromise`), `OriginalIsBack` (`RestoredWhenUnmanaged`).
`ConflictInv` says that without `lag` and `overlap` the informer shows what is there,
and that while the restoring work exists nobody but the last, terminating
ClusterOAuth does (`OriginalAlone`, `LastUnmanaged`): so no Push can come beside it.
`PromiseInv`, with at most `early`, follows the original OAuth on its way from the
cluster through the view into the ConfigMap and back (`OriginalShape`, `ViewShape`,
`SavedShape`, `PushShape`, `LastShape`), and from it every action maps to one of
`ClusterOAuthMgr` or to a stutter. `RestoreInv` adds, when nothing disturbs, that
the saved copy goes before the last ClusterOAuth does.

`HypershiftOAuthProofs`: `HostedInvariance` (`Spec => []IInv`), `HostedTypes`
(`TypeOK`), `SecretsComeFirst` (`ProvidersHaveSecrets`), `HostedStatusIsTrue`
(`AppliedIsPushed`), `HostedFinalizerProtects` (`UnmanagedBeforeRemoved`),
`OthersAreKept` (`OthersKept`), `HostedOriginalIsBack` (`RestoredWhenUnmanaged`) and
the refinement `HostedKeepsPromise` (`KeepsPromise`). None assumes anything of the
names of the other configuration objects; what a property claims of namesakes it
says itself. The argument has four layers.

- Lemmas about any list (`FirstIsFirst`, `Replaced`, `Appended`, `TakenAway`): the
  search finds the first match, and what replacing, appending and moving items
  leaves of a list. That a non-empty set of positions has a least one (`Least`) is
  drawn from the library's theorem that finite sets are well founded under
  inclusion, applied to the intervals below the positions: the induction theorems
  cannot be used here. `ConfigurationStep` draws from them that every property of
  single items that the written ones have is kept by all items; `TypeOK` uses it
  with the type of an item, `ItemsHaveSecrets` with "its providers have their
  secrets".
- `IInv` holds in every scenario: what the worker is managing the informer has seen
  (`ManagedIsSeen`, `WorkerShape`), what a Push has listed has its secrets copied as
  far as it has come (`PushShape`), and no item, nor the saved one, names a provider
  without its secret (`ItemsHaveSecrets`, `BackupHasSecrets`). All items count, and
  not only the OAuth, since removing one may uncover another.
- `ReliableInv` adds what holds with at most `overlap`, `detach` and `namesake`:
  nothing is pushed unless something is saved (`SavedFirst`), and the Unmanage that
  restores is that of the last ClusterOAuth (`LastShape`). Its core is
  `BackupShape`: with the saved item put back where the pushed one is
  (`RestoredItems`), the configuration consists of what the administrator
  configured, each object once. So it does not matter whether the item that was
  replaced is the OAuth or a namesake, nor what follows it in the list. The lemmas
  `StaysPut`, `ReplacedKeeps`, `AppendedKeeps`, `TakenAwayKeeps` keep track of the
  objects that occur once. The step simulation of `ClusterOAuthMgr` follows, without
  namesakes, action by action.
- For `HostedFinalizerProtects`, which also covers `early`, `AttentiveShape` says
  that providers are in one item only (`OneHasProviders`) and are pushed only over a
  saved OAuth which has none of them itself (`SavedUnpushed`), so that neither Push
  nor the restoring brings back the provider that was just taken out.

`LifecycleProofs`: `OperatorInvariance`, `OperatorProtected` (`OperatorServes`), in
every scenario. An AuthRealm is reported as Applied at the end of a Reconcile that
installed the operator at its beginning. `OperatorServes` alone is not inductive:
the operator could have gone in between. `KeepsWhatItInstalled` says that it has
not as long as the AuthRealm lives, because the worker that would remove it is the
same one, and what else removes it, the end of a deletion that began earlier, is
excluded by `RemovesUnneeded`: from the List that finds no live AuthRealm until the
namespace of the operator is gone or the operator is installed again (`Doomed`,
`late`), only AuthRealms created after that List are live. `InstallsForReal` and
`NewIsNotApplied` keep a name that is used again from inheriting the condition of
the last AuthRealm that had it.

The same module has `LifecycleTypes` (`TypeOK`), `DeletionComplete`
(`NothingLeftBehind`), `DexClientsFinalized` (`ClientsFinalized`),
`OperatorUninstalled` (`UninstalledWithTheLast`), all from `CleanupInvHolds`. The
claim that nothing is left behind an AuthRealm is made of a state in which most of
what would have removed it is gone too, so the invariant runs through all three
controllers. `RealmShape`, `ArShape`, `DexShape`, `PwShape` say what each of them
may rely on in the middle of its Reconcile. `FirstFinalized` and `CreatesForLive`
say that what is created is created for a live AuthRealm that has its finalizer,
which is where `hasty` and `reselect` come in. `StillReachable` is the core: a
ClusterOAuth of a terminating AuthRealm is within reach of the Placement that will
delete it, which has its finalizer, its owner, its decision, a live DexClient and
the namespace. `OperatorOwned` ties the Dex operator to an AuthRealm that exists, also
while a list of AuthRealms is held that showed one. `OperatorFirst` says that the
operator is there as long as the namespace of a DexServer is; with `OperatorInv`,
which is part of the invariant, and `OneByOne` it follows that deleteDexOperator,
which never looks at the DexServers of others, is not ahead of them. Lemmas on lists of owners (`OwnerAdded`, `OwnerRemoved`,
`OwnerCut`) serve wherever owner references change.

`LifecycleSecretsProofs`: `SecretsGone` (`SecretsRemoved`), from `SecretsInvHolds`.
A client secret goes only along with a ClusterOAuth, and `createConfigs` makes it two
writes earlier, with writes of all other actors in between; or it makes it for a
ClusterOAuth that is on its way out. `SecretsKept` names the three things that
answer for a secret: its ClusterOAuth is live, the worker is about to create it
(`Pending`), or the next Reconcile of the Placement will (`ToBeMade`): the cluster is
selected, and the Placement is live, finalized and owned. `GoingRemade` brings a
ClusterOAuth that goes from the first case to the third. That the third one lasts
until the AuthRealm is deleted rests on what ties a Placement to the AuthRealm that
is worked for: `EngagedPlaced`, `OwnersStay`, `CreatesSelected`, and `UserPlaced`,
without which the Strategy would take its Placement away (`unplace`). `StShape`,
`OwnersRefer`, `NamespaceFirst` and `OneCluster` hold under all disturbances.

`PlacementSelectionProofs`: `OnePredicateIsExact` (a derived Placement made from
at most one predicate selects exactly the clusters of its type among those the
user's selects) and `NeverMoreThanTheUser` (`OnlySelected`), for predicate lists of
any length the model allows, from an invariant that the rest of a derived
Placement and of the copy is that of the user's.

`AuthRealmStatusProofs`: `StatusInvariance` (`TypeOK` and `UniqueEntries`), from
lemmas on the lists (`EntryAdded`, `EntryTakenAway`, `EntryChanged`): each keeps a
list free of double entries, so every copy stays so, and a patch is a copy that
was changed by one of them.

`InstallationProofs`: `InstallationTyped`, `InstalledHasAnOwner`
(`InstalledIsOwned`), `NamespacesAreOwn` (`OwnNamespacesUnlessShared`). The
finalizer of an IDPConfig is removed only after the whole `RemovalOrder`; the lemma
`Orders` says that it names the same objects as the `InstallOrder`, which the
source lists apart, and the invariant says what has been removed so far. For
namespaces: two AuthRealms with the same subdomain do not both exist once neither
disturbance let them in.

*Only model-checked.* All liveness, which is out of the prover's reach: `Converges`,
`ConvergesWhileManaged`, `DeletionsEnd`, `DeletionEnds`, `Serves`, `Withdraws`,
`FollowsUser`, `StrategiesShown`, `OAuthsShown`, `WorksShown`, `HdsShown`, `Withdrawn`,
`Settles`, `DeletedRealmsEnd`. Every invariant and every action property that a
passing run checks is proved. No proof is by induction over data: the lists are
handled by index.

## Not modelled

- The connectors of the DexServer (`authrealm/dex.go`: GitHub, Google, LDAP, OpenID,
  htpasswd) and the OAuth providers: a translation of one object into another,
  without a state.
- The format checks of the webhook (the length and the letters of a subdomain, the
  providers that may occur together): they read the request and nothing else.
- `helpers`: the URL of the API server, the merge of conditions of one object.
- Manager start-up (`cmd/manager/main.go`), the wiring of the watches, embedded
  YAML and deployment files: no behaviour of their own. One consequence is outside
  the models: the CRD of HypershiftDeployments is looked for once, at the start.
- The check for the product at the start of the installer, which only ends the
  process.
- Generated code, tests, vendored and external programs beyond what the
  controllers wait for.

## Plan

What is left, in order:

1. `Lifecycle`: lagging caches, which so far only the ClusterOAuth controllers and
   the installer have.
2. `PlacementSelection` with several edits and the number of clusters.
3. The connectors as pure functions against reference definitions.
