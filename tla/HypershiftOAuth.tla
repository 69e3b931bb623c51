--------------------------- MODULE HypershiftOAuth ---------------------------
(***************************************************************************)
(* The ClusterOAuth controller on one hosted cluster (HypershiftMgr).      *)
(*                                                                         *)
(* The OAuth of a hosted cluster is an item in the configuration of its    *)
(* HypershiftDeployment, on the hub, next to configuration objects of      *)
(* other kinds.  The controller saves the item in a ConfigMap, or an empty *)
(* ConfigMap when there is none, replaces it by the aggregate of the       *)
(* ClusterOAuths, and puts it back, or removes it, with the last of them.  *)
(*                                                                         *)
(* One worker runs one Reconcile at a time, split at every write to the    *)
(* API server.  The HypershiftDeployment is updated with the resource      *)
(* version that was read: an update that succeeds is one atomic step, the  *)
(* others are failures.                                                    *)
(***************************************************************************)
EXTENDS Integers, FiniteSets, Sequences

CONSTANTS
  OAuths,       \* names of the ClusterOAuths of the namespace
  Admin,        \* the identity providers of the administrator's own OAuth
  Others,       \* configuration objects of other kinds
  Namesakes,    \* those of them that are named "cluster", as the OAuth is
  Absent,       \* no OAuth in the configuration
  Nothing,      \* absence of a value
  Scenarios     \* the sets of disturbances that a behaviour may meet

(***************************************************************************)
(* The disturbances, each one something the code does not rule out:        *)
(*   "lag"     the informer of the ClusterOAuths lags behind the API       *)
(*   "abort"   an API call fails, or the manager restarts                  *)
(*   "early"   a ClusterOAuth is deleted before it was applied             *)
(*   "overlap" a ClusterOAuth is created while another is terminating      *)
(*   "detach"  the hosted cluster is deleted                               *)
(*   "namesake" the configuration has other objects named "cluster", as    *)
(*             every configuration object of OpenShift is                  *)
(***************************************************************************)
AllDisturbances == {"lag", "abort", "early", "overlap", "detach", "namesake"}

Content == SUBSET (OAuths \cup {Admin})

ASSUME ConstantsAssumption ==
  /\ Scenarios \subseteq SUBSET AllDisturbances
  /\ Namesakes \subseteq Others
  /\ IsFiniteSet(Others)
  /\ Admin \notin OAuths
  /\ Nothing \notin OAuths \cup Others \cup {Absent}
  /\ Absent \notin Others
  /\ \A content \in Content : content \notin Others \cup {Absent, Nothing}

VARIABLES
  scenario, \* the disturbances of this behaviour
  co,       \* the ClusterOAuths as the API server has them
  seen,     \* the ClusterOAuths as the informer cache has them
  queue,    \* the work queue of the controller
  secrets,  \* the ClusterOAuths whose client secret exists
  backup,   \* the ConfigMap idp-oauth-original: the saved OAuth, or Absent
  items,    \* the configuration in the HypershiftDeployment
  refs,     \* the client secrets its SecretRefs name
  copies,   \* the client secrets copied to its namespace
  hosted,   \* the HypershiftDeployment and the ManagedCluster exist
  original, \* what the administrator configured: an OAuth, or Absent
  pc, cur,  \* the worker: where its Reconcile is, and for which ClusterOAuth
  push      \* what its Push has listed, has still to copy, and leads to

hdVars == <<items, refs, copies>>
apiVars == <<secrets, backup, hdVars, hosted, original, scenario>>
vars == <<scenario, co, seen, queue, secrets, backup, items, refs, copies, hosted,
          original, pc, cur, push>>

May(d) == d \in scenario

(* The other configuration objects of this cluster.                        *)
OtherObjects == IF May("namesake") THEN Others ELSE Others \ Namesakes

(* What the administrator configured, of all kinds.                        *)
Own == OtherObjects \cup ({original} \ {Absent})

-----------------------------------------------------------------------------
(* Objects.                                                                *)

NoObject == [phase |-> "none", fin |-> FALSE, applied |-> FALSE]

Object == [phase : {"none", "live", "terminating"}, fin : BOOLEAN, applied : BOOLEAN]

(* Mutated form of Live: terminating objects are not skipped.              *)
LiveUnfiltered(view) == {c \in OAuths : view[c].phase # "none"}

Live(view) == {c \in OAuths : view[c].phase = "live"}

Existing(view) == {c \in OAuths : view[c].phase # "none"}

NoPush == [oauths |-> {}, todo |-> {}, next |-> "idle"]

(* searchConfiguration: whatever unmarshals to an OAuth named "cluster"    *)
(* will do, and the kind is not looked at.                                 *)
Matches(item) == item \notin Others \/ item \in Namesakes

Found == {i \in DOMAIN items : Matches(items[i])}

Index == CHOOSE i \in Found : \A j \in Found : i <= j

OAuth == IF Found = {} THEN Absent ELSE items[Index]

(* Mutated form of WithOAuth: the new item is always appended.             *)
WithOAuthAppended(content) == Append(items, content)

WithOAuth(content) == IF Found = {} THEN Append(items, content)
                                    ELSE [items EXCEPT ![Index] = content]

(* An item is removed by moving the last one into its place.               *)
WithoutItem(i) == SubSeq([items EXCEPT ![i] = items[Len(items)]], 1, Len(items) - 1)

WithoutOAuth == WithoutItem(Index)

-----------------------------------------------------------------------------
(* The work queue, the conditions and the end of a Reconcile.              *)

Informed(requests) ==
  /\ seen' = IF May("lag") THEN seen ELSE co'
  /\ queue' = requests \cup {c \in OAuths : seen'[c] # seen[c]}

(* Mutated form of Stop: the worker keeps its ClusterOAuth.                *)
StopHolding(requests) ==
  pc' = "idle" /\ UNCHANGED cur /\ push' = NoPush /\ Informed(requests)

Stop(requests) ==
  pc' = "idle" /\ cur' = Nothing /\ push' = NoPush /\ Informed(requests)

SetApplied(status) ==
  co' = [co EXCEPT ![cur].applied = status /\ co[cur].phase # "none"]

(* An error in Save or Push is reported in the condition Applied.          *)
Fail == SetApplied(FALSE) /\ Stop(queue \cup {cur})

(* Every configuration that consists of the objects.                       *)
Configuration(objects) ==
  {s \in [1..Cardinality(objects) -> objects] : \A x \in objects : \E i \in DOMAIN s : s[i] = x}

Init ==
  /\ scenario \in Scenarios
  /\ co = [c \in OAuths |-> NoObject]
  /\ seen = co
  /\ queue = {}
  /\ secrets = {}
  /\ backup = Nothing
  /\ original \in {Absent, {Admin}}
  /\ items \in Configuration(Own)
  /\ refs = {}
  /\ copies = {}
  /\ hosted = TRUE
  /\ pc = "idle"
  /\ cur = Nothing
  /\ push = NoPush

-----------------------------------------------------------------------------
(* Reconcile takes a request from the queue.                               *)

Forget(c) ==
  /\ pc = "idle"
  /\ c \in queue
  /\ seen[c].phase = "none"
  /\ queue' = queue \ {c}
  /\ UNCHANGED <<co, seen, apiVars, pc, cur, push>>

(* A live object gets its finalizer; the update fails on a stale read.     *)
Manage(c) ==
  /\ pc = "idle"
  /\ c \in queue
  /\ seen[c].phase = "live"
  /\ co[c] = seen[c]
  /\ co' = [co EXCEPT ![c].fin = TRUE]
  /\ pc' = "save"
  /\ cur' = c
  /\ Informed(queue \ {c})
  /\ UNCHANGED <<apiVars, push>>

(* A terminating object, whose ManagedCluster must exist.                  *)
StartDelete(c) ==
  /\ pc = "idle"
  /\ c \in queue
  /\ seen[c].phase = "terminating"
  /\ pc' = "unmanage"
  /\ cur' = c
  /\ queue' = queue \ {c}
  /\ UNCHANGED <<co, seen, apiVars, push>>

-----------------------------------------------------------------------------
(* HypershiftMgr.Save.                                                     *)

(* Mutated form of Save: an existing ConfigMap is overwritten.             *)
SaveAgain ==
  /\ pc = "save"
  /\ hosted
  /\ backup' = OAuth
  /\ pc' = "push"
  /\ UNCHANGED <<co, seen, queue, secrets, hdVars, hosted, original, scenario, cur, push>>

Save ==
  /\ pc = "save"
  /\ backup # Nothing \/ hosted
  /\ backup' = IF backup = Nothing THEN OAuth ELSE backup
  /\ pc' = "push"
  /\ UNCHANGED <<co, seen, queue, secrets, hdVars, hosted, original, scenario, cur, push>>

SaveFails ==
  /\ pc = "save"
  /\ backup = Nothing /\ ~hosted
  /\ Fail
  /\ UNCHANGED apiVars

-----------------------------------------------------------------------------
(* HypershiftMgr.Push: it lists the ClusterOAuths, copies the client       *)
(* secret of each one that lives to the namespace of the                   *)
(* HypershiftDeployment, and updates the HypershiftDeployment in the end.  *)

PushTo(next) ==
  /\ hosted
  /\ push' = [oauths |-> Live(seen), todo |-> Live(seen), next |-> next]
  /\ pc' = "copy"
  /\ UNCHANGED <<co, seen, queue, apiVars, cur>>

Push == pc = "push" /\ PushTo("report")

(* Mutated form of CopySecret: a missing secret is passed over.            *)
CopyIfFound ==
  /\ pc = "copy"
  /\ \E c \in push.todo :
       /\ copies' = copies \cup ({c} \cap secrets)
       /\ push' = [push EXCEPT !.todo = @ \ {c}]
  /\ UNCHANGED <<co, seen, queue, secrets, backup, items, refs, hosted, original, scenario, pc, cur>>

CopySecret ==
  /\ pc = "copy"
  /\ \E c \in push.todo \cap secrets :
       /\ copies' = copies \cup {c}
       /\ push' = [push EXCEPT !.todo = @ \ {c}]
  /\ UNCHANGED <<co, seen, queue, secrets, backup, items, refs, hosted, original, scenario, pc, cur>>

UpdateHd ==
  /\ pc = "copy"
  /\ push.todo = {}
  /\ hosted
  /\ items' = WithOAuth(push.oauths)
  /\ refs' = refs \cup push.oauths
  /\ pc' = push.next
  /\ push' = NoPush
  /\ UNCHANGED <<co, seen, queue, secrets, backup, copies, hosted, original, scenario, cur>>

(* A client secret or the hosted cluster is missing.                       *)
PushFails ==
  /\ pc \in {"push", "copy"}
  /\ ~hosted \/ ~ push.todo \subseteq secrets
  /\ Fail
  /\ UNCHANGED apiVars

(* The end of Reconcile: the condition Applied becomes true.               *)
Report ==
  /\ pc = "report"
  /\ SetApplied(TRUE)
  /\ Stop(queue)
  /\ UNCHANGED apiVars

-----------------------------------------------------------------------------
(* HypershiftMgr.Unmanage and the removal of the finalizer.                *)

(* Mutated form of LastOne: the number of ClusterOAuths is not tested.     *)
SomeTerminating == \E c \in OAuths : seen[c].phase = "terminating"

LastOne == \E c \in OAuths : Existing(seen) = {c} /\ seen[c].phase = "terminating"

Unmanage ==
  /\ pc = "unmanage"
  /\ hosted
  /\ \/ /\ LastOne
        /\ pc' = "restore"
        /\ UNCHANGED <<co, seen, queue, apiVars, cur, push>>
     \/ ~LastOne /\ PushTo("unfinalize")

(* Without an OAuth to reset, or without a ConfigMap, nothing is done: an  *)
(* empty ConfigMap is left where it is.                                    *)
NothingToRestore ==
  /\ pc = "restore"
  /\ hosted
  /\ Found = {} \/ backup = Nothing
  /\ pc' = "unfinalize"
  /\ UNCHANGED <<co, seen, queue, apiVars, cur, push>>

Restore ==
  /\ pc = "restore"
  /\ hosted
  /\ Found # {} /\ backup # Nothing
  /\ items' = IF backup = Absent THEN WithoutOAuth ELSE WithOAuth(backup)
  /\ pc' = "dropBackup"
  /\ UNCHANGED <<co, seen, queue, secrets, backup, refs, copies, hosted, original, scenario, cur, push>>

(* Mutated form of DropBackup: the ConfigMap is kept.                      *)
KeepBackup ==
  /\ pc = "dropBackup"
  /\ pc' = "unfinalize"
  /\ UNCHANGED <<co, seen, queue, apiVars, cur, push>>

DropBackup ==
  /\ pc = "dropBackup"
  /\ backup' = Nothing
  /\ pc' = "unfinalize"
  /\ UNCHANGED <<co, seen, queue, secrets, hdVars, hosted, original, scenario, cur, push>>

UnmanageFails ==
  /\ pc \in {"unmanage", "restore"}
  /\ ~hosted
  /\ UNCHANGED <<co, apiVars>>
  /\ Stop(queue \cup {cur})

(* The update fails when the object is gone, or is a new one.              *)
Unfinalize ==
  /\ pc = "unfinalize"
  /\ \/ /\ co[cur].phase = "terminating"
        /\ co' = [co EXCEPT ![cur] = NoObject]
        /\ Stop(queue)
     \/ /\ co[cur].phase # "terminating"
        /\ UNCHANGED co
        /\ Stop(queue \cup {cur})
  /\ UNCHANGED apiVars

-----------------------------------------------------------------------------
(* The informer, errors and restarts.                                      *)

Observe ==
  /\ May("lag")
  /\ seen # co
  /\ seen' = co
  /\ queue' = queue \cup {c \in OAuths : co[c] # seen[c]}
  /\ UNCHANGED <<co, apiVars, pc, cur, push>>

Abort ==
  /\ May("abort")
  /\ pc # "idle"
  /\ \E applied \in {FALSE, co[cur].applied} : SetApplied(applied)
  /\ Stop(queue \cup {cur})
  /\ UNCHANGED apiVars

Restart ==
  /\ May("abort")
  /\ pc' = "idle"
  /\ cur' = Nothing
  /\ push' = NoPush
  /\ seen' = co
  /\ queue' = Existing(co)
  /\ UNCHANGED <<co, apiVars>>

-----------------------------------------------------------------------------
(* The placement controller, as in BackplaneOAuth.                         *)

CreateSecret(c) ==
  /\ c \notin secrets
  /\ secrets' = secrets \cup {c}
  /\ queue' = queue \cup {c}
  /\ UNCHANGED <<co, seen, backup, hdVars, hosted, original, scenario, pc, cur, push>>

CreateOAuth(c) ==
  /\ c \in secrets
  /\ co[c].phase = "none"
  /\ May("overlap") \/ \A d \in OAuths : co[d].phase # "terminating"
  /\ co' = [co EXCEPT ![c].phase = "live"]
  /\ Informed(queue)
  /\ UNCHANGED <<apiVars, pc, cur, push>>

DeleteSecret(c) ==
  /\ c \in secrets
  /\ co[c].phase # "none"
  /\ May("early") \/ co[c].applied
  /\ secrets' = secrets \ {c}
  /\ queue' = queue \cup {c}
  /\ UNCHANGED <<co, seen, backup, hdVars, hosted, original, scenario, pc, cur, push>>

DeleteOAuth(c) ==
  /\ c \notin secrets
  /\ co[c].phase = "live"
  /\ co' = [co EXCEPT ![c] = IF co[c].fin THEN [co[c] EXCEPT !.phase = "terminating"]
                                          ELSE NoObject]
  /\ Informed(queue)
  /\ UNCHANGED <<apiVars, pc, cur, push>>

-----------------------------------------------------------------------------
(* The administrator of the hosted cluster (external).                     *)

(* An OAuth is configured or removed while none is managed.  Unlike the    *)
(* controller, the administrator goes by the kind of the items.            *)
Configure ==
  /\ Existing(co) = {}
  /\ hosted
  /\ LET oauths == {i \in DOMAIN items : items[i] \notin Others}
     IN \/ /\ original = Absent
           /\ original' = {Admin}
           /\ \/ oauths = {} /\ items' = Append(items, {Admin})
              \/ \E i \in oauths : items' = [items EXCEPT ![i] = {Admin}]
        \/ /\ original = {Admin}
           /\ original' = Absent
           /\ \E i \in oauths : items[i] = {Admin} /\ items' = WithoutItem(i)
  /\ UNCHANGED <<co, seen, queue, secrets, backup, refs, copies, hosted, scenario, pc, cur, push>>

(* The hosted cluster is deleted.                                          *)
Detach ==
  /\ May("detach")
  /\ hosted
  /\ hosted' = FALSE
  /\ UNCHANGED <<co, seen, queue, secrets, backup, hdVars, original, scenario, pc, cur, push>>

-----------------------------------------------------------------------------
Take(c) == Forget(c) \/ Manage(c) \/ StartDelete(c)

Continue ==
  \/ Save \/ SaveFails \/ Push \/ CopySecret \/ UpdateHd \/ PushFails \/ Report
  \/ Unmanage \/ NothingToRestore \/ Restore \/ DropBackup \/ UnmanageFails \/ Unfinalize

Worker == (\E c \in OAuths : Take(c)) \/ Continue

Placement ==
  \E c \in OAuths : \/ CreateSecret(c) \/ CreateOAuth(c)
                    \/ DeleteSecret(c) \/ DeleteOAuth(c)

Next == Worker \/ Observe \/ Abort \/ Restart \/ Placement \/ Configure \/ Detach

Spec == Init /\ [][Next]_vars

(* Scheduling, as in BackplaneOAuth.                                       *)
Fairness ==
  /\ WF_vars(Continue)
  /\ \A c \in OAuths : SF_vars(Take(c)) /\ WF_vars(DeleteOAuth(c))
  /\ WF_vars(Observe)

FairSpec == Spec /\ Fairness

-----------------------------------------------------------------------------
(* Properties.                                                             *)

(* The type of every variable.                                             *)
TypeOK ==
  /\ scenario \in Scenarios
  /\ co \in [OAuths -> Object]
  /\ seen \in [OAuths -> Object]
  /\ queue \subseteq OAuths
  /\ secrets \subseteq OAuths
  /\ backup \in OtherObjects \cup {Absent, Nothing} \cup Content
  /\ items \in Seq(OtherObjects \cup Content)
  /\ refs \subseteq OAuths
  /\ copies \subseteq OAuths
  /\ hosted \in BOOLEAN
  /\ original \in {Absent, {Admin}}
  /\ pc \in {"idle", "save", "push", "copy", "report", "unmanage", "restore",
             "dropBackup", "unfinalize"}
  /\ cur \in OAuths \cup {Nothing}
  /\ cur = Nothing <=> pc = "idle"
  /\ push \in [oauths : SUBSET OAuths, todo : SUBSET OAuths,
               next : {"idle", "report", "unfinalize"}]
  /\ push.next = "idle" <=> pc # "copy"

Pushed(c) == OAuth \notin Others \cup {Absent} /\ c \in OAuth

(* The scenarios in which a Reconcile comes to its end and reads what is   *)
(* there: what must hold in them fails with each of the other disturbances.*)
Reliable == scenario \subseteq {"overlap", "detach", "namesake"}

Once(x) == \E i \in DOMAIN items : \A j \in DOMAIN items : items[j] = x <=> j = i

(* Push and Unmanage lose and double none of the other configuration       *)
(* objects and leave one OAuth at most, whichever items they replace, move *)
(* and cut off.  searchConfiguration goes by the name alone, so an object  *)
(* that is named "cluster" and comes first gives its place to the pushed   *)
(* OAuth: it is missing while the cluster is managed, and a second OAuth   *)
(* may come after it.  Reliably, it is the one in the ConfigMap then.      *)
OthersKept ==
  /\ \A x \in OtherObjects \ Namesakes : Once(x)
  /\ Reliable => \A x \in OtherObjects : Once(x) \/ backup = x
  /\ ~May("namesake") =>
       \A i, j \in DOMAIN items : {items[i], items[j]} \cap Others = {} => i = j

(* When no ClusterOAuth is left, the configuration consists of what the    *)
(* administrator configured, the OAuth and the objects of other kinds      *)
(* (comment of Unmanage).                                                  *)
Restored ==
  Existing(co) = {} => /\ \A x \in Own : Once(x)
                       /\ \A i \in DOMAIN items : items[i] \in Own

(* Reliably, this is so, and no ConfigMap is left for the next AuthRealm   *)
(* to take for the original.                                               *)
RestoredWhenUnmanaged ==
  Reliable => Restored /\ (Existing(co) = {} => backup = Nothing)

(* Every provider in the pushed OAuth has its client secret where the      *)
(* HypershiftDeployment looks for it, whatever happened since the pushes   *)
(* that brought them there (Push copies one secret at a time).             *)
ProvidersHaveSecrets == \A c \in OAuths : Pushed(c) => c \in refs \cap copies

(* A ClusterOAuth reported as Applied is in the configuration of its       *)
(* cluster for as long as it lives.                                        *)
AppliedIsPushed == \A c \in OAuths : co[c].phase = "live" /\ co[c].applied => Pushed(c)

(* The finalizer of a ClusterOAuth is not removed while its provider is in *)
(* the configuration, unless a stale list or a Reconcile cut short before  *)
(* Save had an OAuth pushed that was not saved first.                      *)
UnmanagedBeforeRemoved ==
  [][\A c \in OAuths :
       {"lag", "abort"} \cap scenario = {} /\ co[c].fin /\ ~co'[c].fin => ~Pushed(c)']_vars

(* The placements want exactly the ClusterOAuths of S.                     *)
Wanted(S) == \A c \in OAuths : IF c \in S THEN c \in secrets /\ co[c].phase = "live"
                                          ELSE c \notin secrets \/ co[c].phase = "none"

Converged(S) == Existing(co) = S /\ IF S = {} THEN Restored ELSE OAuth = S

(* Once the placements want exactly the ClusterOAuths of S, the others are *)
(* deleted and the configuration settles on the providers of S, or on what *)
(* the administrator configures when S is empty.                           *)
Converges ==
  \A S \in SUBSET OAuths : <>[](Reliable /\ hosted /\ Wanted(S)) => <>[]Converged(S)

(* Reliably, and if nothing else is named as the OAuth is, the controller  *)
(* keeps the promise of ClusterOAuthMgr.                                   *)
Mgr == INSTANCE ClusterOAuthMgr WITH
         oauth <- OAuth, saved <- IF backup = Nothing THEN {} ELSE {backup}

KeepsPromise ==
  /\ ~May("namesake") => Mgr!Start
  /\ [][Reliable /\ ~May("namesake") => Mgr!Step]_vars

=============================================================================
