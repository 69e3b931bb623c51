--------------------------- MODULE BackplaneOAuth ---------------------------
(***************************************************************************)
(* The ClusterOAuth controller on one managed cluster of backplane type.   *)
(*                                                                         *)
(* Every ClusterOAuth of the cluster's namespace contributes one identity  *)
(* provider to the OAuth of the managed cluster.  The controller saves the *)
(* OAuth it finds there (a ManagedClusterView read back into a ConfigMap), *)
(* pushes the aggregate of the ClusterOAuths in the ManifestWork           *)
(* idp-oauth, and puts the saved OAuth back (the ManifestWork              *)
(* idp-oauth-original) when the last ClusterOAuth is deleted.              *)
(*                                                                         *)
(* One worker runs one Reconcile at a time.  A Reconcile is split at every *)
(* write to the API server.  A read is merged into the write that follows  *)
(* it: reads are answered by an informer that may lag, so an earlier read  *)
(* is a read of an older view.                                             *)
(***************************************************************************)
EXTENDS FiniteSets

CONSTANTS
  OAuths,       \* names of the ClusterOAuths of the namespace
  Admin,        \* the identity providers the cluster administrator had set up
  Nothing,      \* absence of a value
  Scenarios     \* the sets of disturbances that a behaviour may meet

(***************************************************************************)
(* The disturbances, each one something the code does not rule out:        *)
(*   "view"    a ManagedClusterView is answered only after a while         *)
(*   "release" a deleted ManifestWork stays until the agent releases it    *)
(*   "lag"     the informer of the ClusterOAuths lags behind the API       *)
(*   "abort"   an API call fails, or the manager restarts                  *)
(*   "early"   a ClusterOAuth is deleted before it has its finalizer       *)
(*   "overlap" a ClusterOAuth is created while another is terminating      *)
(***************************************************************************)
AllDisturbances == {"view", "release", "lag", "abort", "early", "overlap"}

(* An OAuth configuration is the set of its identity providers: one per    *)
(* ClusterOAuth, and Admin for those that were there before.               *)
Content == SUBSET (OAuths \cup {Admin})

ASSUME ConstantsAssumption ==
  /\ Scenarios \subseteq SUBSET AllDisturbances
  /\ Admin \notin OAuths
  /\ Nothing \notin OAuths
  /\ \A content \in Content : content # Nothing

Works == {"idp-oauth", "idp-oauth-original"}

VARIABLES
  scenario, \* the disturbances this behaviour may meet
  co,      \* the ClusterOAuths as the API server has them
  seen,    \* the ClusterOAuths as the informer cache has them
  queue,   \* the work queue of the controller
  secrets, \* the ClusterOAuths whose client secret exists
  backup,  \* the ConfigMap idp-oauth-original: the saved OAuth
  view,    \* the ManagedClusterView and its result
  works,   \* the two ManifestWorks
  oauth,   \* the OAuth of the managed cluster
  pc, cur  \* the worker: where its Reconcile is, and for which ClusterOAuth

apiVars == <<secrets, backup, view, works, scenario>>
vars == <<scenario, co, seen, queue, secrets, backup, view, works, oauth, pc, cur>>

May(d) == d \in scenario

-----------------------------------------------------------------------------
(* Objects.                                                                *)

NoObject == [phase |-> "none", fin |-> FALSE, applied |-> FALSE]

Object == [phase : {"none", "live", "terminating"}, fin : BOOLEAN, applied : BOOLEAN]

(* Mutated form of Live: terminating objects are not skipped.              *)
LiveUnfiltered(view_) == {c \in OAuths : view_[c].phase # "none"}

Live(view_) == {c \in OAuths : view_[c].phase = "live"}

Existing(view_) == {c \in OAuths : view_[c].phase # "none"}

NoView == [exists |-> FALSE, result |-> Nothing]

NoWork == [phase |-> "none", oauth |-> {}, applied |-> FALSE]

Work == [phase : {"none", "live", "terminating"}, oauth : Content, applied : BOOLEAN]

(* The ClusterOAuth events: with no lag the informer follows every write;  *)
(* the For() watch has no predicate, so every change is enqueued.          *)
Informed(requests) ==
  /\ seen' = IF May("lag") THEN seen ELSE co'
  /\ queue' = requests \cup {c \in OAuths : seen'[c] # seen[c]}

(* Mutated form of Return: the request is not given up.                    *)
ReturnHolding == pc' = "idle" /\ cur' = cur /\ Informed(queue)

(* The end of a Reconcile: its result does not requeue, or it does.        *)
Return == pc' = "idle" /\ cur' = Nothing /\ Informed(queue)

RequeueCur == pc' = "idle" /\ cur' = Nothing /\ Informed(queue \cup {cur})

Init ==
  /\ scenario \in Scenarios
  /\ co = [c \in OAuths |-> NoObject]
  /\ seen = co
  /\ queue = {}
  /\ secrets = {}
  /\ backup = Nothing
  /\ view = NoView
  /\ works = [w \in Works |-> NoWork]
  /\ oauth = {Admin}
  /\ pc = "idle"
  /\ cur = Nothing

-----------------------------------------------------------------------------
(* Reconcile takes a request from the queue.                               *)

(* Reconcile, the object is not found.                                     *)
Forget(c) ==
  /\ pc = "idle"
  /\ c \in queue
  /\ seen[c].phase = "none"
  /\ queue' = queue \ {c}
  /\ UNCHANGED <<co, seen, apiVars, oauth, pc, cur>>

(* Mutated form of Manage: Push comes before Save.                         *)
ManageUnsaved(c) ==
  /\ pc = "idle"
  /\ c \in queue
  /\ seen[c].phase = "live"
  /\ co[c] = seen[c]
  /\ co' = [co EXCEPT ![c].fin = TRUE]
  /\ pc' = "push"
  /\ cur' = c
  /\ Informed(queue \ {c})
  /\ UNCHANGED <<apiVars, oauth>>

(* Reconcile of a live object up to AddFinalizer and Update.  The Update   *)
(* carries the resource version that was read: when the object has changed *)
(* since, it fails and the request stays in the queue.                     *)
Manage(c) ==
  /\ pc = "idle"
  /\ c \in queue
  /\ seen[c].phase = "live"
  /\ co[c] = seen[c]
  /\ co' = [co EXCEPT ![c].fin = TRUE]
  /\ pc' = "save"
  /\ cur' = c
  /\ Informed(queue \ {c})
  /\ UNCHANGED <<apiVars, oauth>>

(* Reconcile of a terminating object.                                      *)
StartDelete(c) ==
  /\ pc = "idle"
  /\ c \in queue
  /\ seen[c].phase = "terminating"
  /\ pc' = "unmanage"
  /\ cur' = c
  /\ queue' = queue \ {c}
  /\ UNCHANGED <<co, seen, apiVars, oauth>>

-----------------------------------------------------------------------------
(* BackplaneMgr.Save.                                                      *)

(* Save up to applying the ManagedClusterView.                             *)
Save ==
  /\ pc = "save"
  /\ \/ /\ backup # Nothing
        /\ pc' = "push"
        /\ UNCHANGED view
     \/ /\ backup = Nothing
        /\ pc' = "view"
        /\ view' = [exists |-> TRUE,
                    result |-> IF view.result = Nothing /\ ~May("view")
                                 THEN oauth ELSE view.result]
  /\ UNCHANGED <<scenario, co, seen, queue, secrets, backup, works, oauth, cur>>

(* saveManagedClusterViewForOAuthResult up to creating the ConfigMap.      *)
(* Without a result it returns a RequeueAfter and no error, and            *)
(* processClusterOAuth, which tests Requeue alone, goes on to Push.        *)
ReadView ==
  /\ pc = "view"
  /\ \/ /\ view.result = Nothing
        /\ pc' = "push"
        /\ UNCHANGED backup
     \/ /\ view.result # Nothing
        /\ backup' = view.result
        /\ pc' = "dropView"
  /\ UNCHANGED <<scenario, co, seen, queue, secrets, view, works, oauth, cur>>

(* The end of saveManagedClusterViewForOAuthResult: the view is deleted.   *)
DropView ==
  /\ pc = "dropView"
  /\ view' = NoView
  /\ pc' = "push"
  /\ UNCHANGED <<scenario, co, seen, queue, secrets, backup, works, oauth, cur>>

-----------------------------------------------------------------------------
(* BackplaneMgr.Push.                                                      *)

(* Mutated form of CreateOrUpdateWork: an existing work is left as it is.  *)
CreateWorkOnly(w, content) ==
  works' = [works EXCEPT ![w] =
              IF works[w].phase = "none"
                THEN [phase |-> "live", oauth |-> content, applied |-> FALSE]
                ELSE works[w]]

(* CreateOrUpdateManifestWork: an existing work, also one that is          *)
(* terminating, only has its manifests replaced.                           *)
CreateOrUpdateWork(w, content) ==
  works' = [works EXCEPT ![w] =
              IF works[w].phase = "none"
                THEN [phase |-> "live", oauth |-> content, applied |-> FALSE]
                ELSE [works[w] EXCEPT !.oauth = content]]

(* deleteManifestWork.                                                     *)
DeleteWork(w) ==
  works' = [works EXCEPT ![w] =
              CASE works[w].phase = "live" /\ May("release") ->
                     [works[w] EXCEPT !.phase = "terminating"]
                [] works[w].phase = "live" /\ ~May("release") -> NoWork
                [] OTHER -> works[w]]

(* Push reads the secret of every ClusterOAuth it aggregates.              *)
SecretsFound == Live(seen) \subseteq secrets

PushTo(next) ==
  /\ SecretsFound
  /\ CreateOrUpdateWork("idp-oauth", Live(seen))
  /\ pc' = next
  /\ UNCHANGED <<scenario, co, seen, queue, secrets, backup, view, oauth, cur>>

(* A condition of the status is patched, whatever the resource version.    *)
SetApplied(status) ==
  co' = [co EXCEPT ![cur].applied = status /\ co[cur].phase # "none"]

PushFailure ==
  /\ ~SecretsFound
  /\ SetApplied(FALSE)
  /\ RequeueCur
  /\ UNCHANGED <<apiVars, oauth>>

Push == pc = "push" /\ (PushTo("report") \/ PushFailure)

(* The end of Reconcile: the condition Applied becomes true.               *)
Report ==
  /\ pc = "report"
  /\ SetApplied(TRUE)
  /\ Return
  /\ UNCHANGED <<apiVars, oauth>>

-----------------------------------------------------------------------------
(* BackplaneMgr.Unmanage and the removal of the finalizer.                 *)

(* Mutated form of LastOne: the number of ClusterOAuths is not tested.     *)
SomeTerminating == \E c \in OAuths : seen[c].phase = "terminating"

LastOne == \E c \in OAuths : Existing(seen) = {c} /\ seen[c].phase = "terminating"

Unmanage ==
  /\ pc = "unmanage"
  /\ \/ /\ LastOne
        /\ DeleteWork("idp-oauth")
        /\ pc' = "restore"
        /\ UNCHANGED <<scenario, co, seen, queue, secrets, backup, view, oauth, cur>>
     \/ /\ ~LastOne
        /\ PushTo("unfinalize") \/ PushFailure

(* restoreOriginalOAuth: without a saved OAuth there is only a warning.    *)
Restore ==
  /\ pc = "restore"
  /\ \/ /\ backup = Nothing
        /\ pc' = "dropOriginal"
        /\ UNCHANGED works
     \/ /\ backup # Nothing
        /\ CreateOrUpdateWork("idp-oauth-original", backup)
        /\ pc' = "check"
  /\ UNCHANGED <<scenario, co, seen, queue, secrets, backup, view, oauth, cur>>

(* checkManifestWorkOriginalOAuthApplied, then deleteOriginalOAuth.        *)
Applied(w) == works[w].phase # "none" /\ works[w].applied

(* Mutated form of Check: the status of the work is not looked at.         *)
CheckUnapplied ==
  /\ pc = "check"
  /\ backup' = Nothing
  /\ pc' = "dropOriginal"
  /\ UNCHANGED <<scenario, co, seen, queue, secrets, view, works, oauth, cur>>

Check ==
  /\ pc = "check"
  /\ Applied("idp-oauth-original")
  /\ backup' = Nothing
  /\ pc' = "dropOriginal"
  /\ UNCHANGED <<scenario, co, seen, queue, secrets, view, works, oauth, cur>>

(* Mutated form of NotYetApplied: the error is not returned.               *)
NotRetried ==
  /\ pc = "check"
  /\ ~Applied("idp-oauth-original")
  /\ UNCHANGED <<co, apiVars, oauth>>
  /\ Return

NotYetApplied ==
  /\ pc = "check"
  /\ ~Applied("idp-oauth-original")
  /\ UNCHANGED <<co, apiVars, oauth>>
  /\ RequeueCur

(* Mutated form of DropOriginal: the work is left on the cluster.          *)
KeepOriginal ==
  /\ pc = "dropOriginal"
  /\ pc' = "unfinalize"
  /\ UNCHANGED <<scenario, co, seen, queue, secrets, backup, view, works, oauth, cur>>

DropOriginal ==
  /\ pc = "dropOriginal"
  /\ DeleteWork("idp-oauth-original")
  /\ pc' = "unfinalize"
  /\ UNCHANGED <<scenario, co, seen, queue, secrets, backup, view, oauth, cur>>

(* RemoveFinalizer and Update of the object read at the start: it fails    *)
(* when the object is gone, or is another one of the same name.            *)
Unfinalize ==
  /\ pc = "unfinalize"
  /\ \/ /\ co[cur].phase = "terminating"
        /\ co' = [co EXCEPT ![cur] = NoObject]
        /\ Return
     \/ /\ co[cur].phase # "terminating"
        /\ UNCHANGED co
        /\ RequeueCur
  /\ UNCHANGED <<apiVars, oauth>>

-----------------------------------------------------------------------------
(* The informer, errors and restarts.                                      *)

Observe ==
  /\ May("lag")
  /\ seen # co
  /\ seen' = co
  /\ queue' = queue \cup {c \in OAuths : co[c] # seen[c]}
  /\ UNCHANGED <<co, apiVars, oauth, pc, cur>>

(* A call of the Reconcile fails: the condition Applied becomes false when *)
(* the handler gets to report it, and the request is retried.              *)
Abort ==
  /\ May("abort")
  /\ pc # "idle"
  /\ \E applied \in {FALSE, co[cur].applied} : SetApplied(applied)
  /\ RequeueCur
  /\ UNCHANGED <<apiVars, oauth>>

(* The manager restarts: its informer and queue start from a fresh list.   *)
Restart ==
  /\ May("abort")
  /\ pc' = "idle"
  /\ cur' = Nothing
  /\ seen' = co
  /\ queue' = Existing(co)
  /\ UNCHANGED <<co, apiVars, oauth>>

-----------------------------------------------------------------------------
(* The placement controller creates and deletes ClusterOAuths: the secret  *)
(* before the object, both ways.  The secrets it deletes are those of the  *)
(* ClusterOAuths it lists.                                                 *)

CreateSecret(c) ==
  /\ c \notin secrets
  /\ secrets' = secrets \cup {c}
  /\ queue' = queue \cup {c}
  /\ UNCHANGED <<scenario, co, seen, backup, view, works, oauth, pc, cur>>

CreateOAuth(c) ==
  /\ c \in secrets
  /\ co[c].phase = "none"
  /\ May("overlap") \/ \A d \in OAuths : co[d].phase # "terminating"
  /\ co' = [co EXCEPT ![c].phase = "live"]
  /\ Informed(queue)
  /\ UNCHANGED <<apiVars, oauth, pc, cur>>

DeleteSecret(c) ==
  /\ c \in secrets
  /\ co[c].phase # "none"
  /\ secrets' = secrets \ {c}
  /\ queue' = queue \cup {c}
  /\ UNCHANGED <<scenario, co, seen, backup, view, works, oauth, pc, cur>>

DeleteOAuth(c) ==
  /\ c \notin secrets
  /\ co[c].phase = "live"
  /\ May("early") \/ co[c].fin
  /\ co' = [co EXCEPT ![c] = IF co[c].fin THEN [co[c] EXCEPT !.phase = "terminating"]
                                          ELSE NoObject]
  /\ Informed(queue)
  /\ UNCHANGED <<apiVars, oauth, pc, cur>>

-----------------------------------------------------------------------------
(* The agents of the managed cluster (external).                           *)

(* The work agent applies a work and reports it; it applies it again now   *)
(* and then.                                                               *)
AgentApply(w) ==
  /\ works[w].phase = "live"
  /\ oauth' = works[w].oauth
  /\ works' = [works EXCEPT ![w].applied = TRUE]
  /\ UNCHANGED <<scenario, co, seen, queue, secrets, backup, view, pc, cur>>

(* The work agent lets go of a deleted work; the works orphan what they    *)
(* applied.                                                                *)
AgentRelease(w) ==
  /\ works[w].phase = "terminating"
  /\ works' = [works EXCEPT ![w] = NoWork]
  /\ UNCHANGED <<scenario, co, seen, queue, secrets, backup, view, oauth, pc, cur>>

(* The view agent writes the OAuth it finds, and refreshes it.             *)
AgentView ==
  /\ May("view")
  /\ view.exists
  /\ view' = [view EXCEPT !.result = oauth]
  /\ UNCHANGED <<scenario, co, seen, queue, secrets, backup, works, oauth, pc, cur>>

-----------------------------------------------------------------------------
(* The worker takes a request, then goes through the calls of its handler. *)
Take(c) == Forget(c) \/ Manage(c) \/ StartDelete(c)

Continue ==
  \/ Save \/ ReadView \/ DropView \/ Push \/ Report
  \/ Unmanage \/ Restore \/ Check \/ NotYetApplied \/ DropOriginal \/ Unfinalize

Worker == (\E c \in OAuths : Take(c)) \/ Continue

Placement ==
  \E c \in OAuths : \/ CreateSecret(c) \/ CreateOAuth(c)
                    \/ DeleteSecret(c) \/ DeleteOAuth(c)

Agent == (\E w \in Works : AgentApply(w) \/ AgentRelease(w)) \/ AgentView

Next == Worker \/ Observe \/ Abort \/ Restart \/ Placement \/ Agent

Spec == Init /\ [][Next]_vars

-----------------------------------------------------------------------------
(* Scheduling.  The worker goes on with what it has begun, and no request  *)
(* is left in the queue for ever: it is served in turn, or retried with a  *)
(* back-off.  The informer catches up, the agents do their work, and the   *)
(* placement controller repeats a deletion it has begun (waiting           *)
(* clusterOauth deletion) until the object is gone.                        *)
Fairness ==
  /\ WF_vars(Continue)
  /\ \A c \in OAuths : SF_vars(Take(c)) /\ WF_vars(DeleteOAuth(c))
  /\ WF_vars(Observe)
  /\ WF_vars(AgentView)
  /\ \A w \in Works : WF_vars(AgentApply(w)) /\ WF_vars(AgentRelease(w))

FairSpec == Spec /\ Fairness

-----------------------------------------------------------------------------
(* Properties.                                                             *)

(* The type of every variable.                                             *)
TypeOK ==
  /\ scenario \in Scenarios
  /\ co \in [OAuths -> Object]
  /\ seen \in [OAuths -> Object]
  /\ queue \subseteq OAuths
  /\ secrets \subseteq OAuths
  /\ backup \in Content \cup {Nothing}
  /\ view \in [exists : BOOLEAN, result : Content \cup {Nothing}]
  /\ works \in [Works -> Work]
  /\ oauth \in Content
  /\ pc \in {"idle", "save", "view", "dropView", "push", "report", "unmanage",
             "restore", "check", "dropOriginal", "unfinalize"}
  /\ cur \in OAuths \cup {Nothing}
  /\ cur = Nothing <=> pc = "idle"

Pushed(c) == works["idp-oauth"].phase = "live" /\ c \in works["idp-oauth"].oauth

(* The ConfigMap never holds anything but the OAuth the administrator had  *)
(* configured (comment of Save, backplane.go): not one the controller      *)
(* pushed itself and read back.                                            *)
BackupIsOriginal == backup # Nothing => backup = {Admin}

(* When the last ClusterOAuth of the cluster is gone, the cluster has the  *)
(* administrator's OAuth again (comment of Unmanage).                      *)
Restored == Existing(co) = {} => oauth = {Admin}

(* It has, whatever two ClusterOAuths go through, if nothing disturbs the  *)
(* handlers; with each disturbance some sequence of calls breaks it.       *)
RestoredWhenUnmanaged == scenario = {} => Restored

(* The works idp-oauth and idp-oauth-original both carry the OAuth named   *)
(* cluster: they are never applied side by side (Push and Restore), as     *)
(* long as a Reconcile sees every ClusterOAuth there is.                   *)
NoConflictingWorks ==
  {"lag", "overlap"} \cap scenario = {} => \E w \in Works : works[w].phase # "live"

(* A ClusterOAuth reported as Applied is in the work pushed to its cluster *)
(* for as long as it lives (Reconcile, "ClusterOAuth successfully          *)
(* applied"), whatever the other ClusterOAuths go through, unless the work *)
(* that Push updates is one that is being deleted.                         *)
StatusIsRight == \A c \in OAuths : co[c].phase = "live" /\ co[c].applied => Pushed(c)

AppliedIsPushed == ~May("release") => StatusIsRight

(* The finalizer of a ClusterOAuth is not removed while its identity       *)
(* provider is in the work pushed to the cluster (Reconcile, deletion).    *)
UnmanagedBeforeRemoved ==
  [][\A c \in OAuths : co[c].fin /\ ~co'[c].fin => ~Pushed(c)']_vars

(* The saved OAuth is given up only when the work that restores it exists  *)
(* with that content and says it was applied, even when errors and new     *)
(* ClusterOAuths came in between (Unmanage: restore, check, delete).       *)
BackupOutlivesRestore ==
  [][backup # Nothing /\ backup' # backup =>
       /\ backup' = Nothing
       /\ Applied("idp-oauth-original")
       /\ works["idp-oauth-original"].oauth = backup]_vars

(* The placements want exactly the ClusterOAuths of S: those are created,  *)
(* and the deletion of the others has begun.                               *)
Wanted(S) == \A c \in OAuths : IF c \in S THEN c \in secrets /\ co[c].phase = "live"
                                          ELSE c \notin secrets \/ co[c].phase = "none"

(* Once the placements want exactly the ClusterOAuths of S, the others are *)
(* deleted and the cluster settles on the providers of S, or on its        *)
(* original OAuth when S is empty.                                         *)
Converged(S) == Existing(co) = S /\ oauth = IF S = {} THEN {Admin} ELSE S

Converges == \A S \in SUBSET OAuths : <>[](scenario = {} /\ Wanted(S)) => <>[]Converged(S)

(* The part of it that survives a slow view: while some ClusterOAuth is    *)
(* wanted.                                                                 *)
ConvergesWhileManaged ==
  \A S \in SUBSET OAuths \ {{}} :
    <>[](scenario \subseteq {"view"} /\ Wanted(S)) => <>[]Converged(S)

(* The deletions that were asked for all end (no finalizer is stuck).      *)
DeletionsEnd == \A S \in SUBSET OAuths : <>[]Wanted(S) => <>[](Existing(co) = S)

(* The controller keeps the promise of ClusterOAuthMgr, also when          *)
(* ClusterOAuths are deleted before they were set up.                      *)
Mgr == INSTANCE ClusterOAuthMgr WITH
         saved <- IF backup = Nothing THEN {} ELSE {backup}, original <- {Admin}

KeepsPromise == Mgr!Start /\ [][scenario \subseteq {"early"} => Mgr!Step]_vars

-----------------------------------------------------------------------------
(* The inductive invariant behind the safety properties.                   *)

Managing == pc \in {"save", "view", "dropView", "push", "report"}

Deleting == pc \in {"unmanage", "restore", "check", "dropOriginal", "unfinalize"}

(* Only an object with the finalizer can be terminating or Applied.        *)
ObjectShape ==
  \A c \in OAuths : /\ co[c].phase = "terminating" => co[c].fin
                    /\ co[c].phase = "none" => ~co[c].fin
                    /\ co[c].applied => co[c].fin

(* The informer knows the objects that were given the finalizer.           *)
FinalizedIsSeen ==
  \A c \in OAuths : co[c].phase = "live" /\ co[c].fin => seen[c].phase = "live"

(* What the worker may rely on about the object it handles.                *)
WorkerShape ==
  /\ Managing => co[cur].fin
  /\ Deleting => /\ co[cur].phase = "terminating" => seen[cur].phase = "terminating"
                 /\ co[cur].phase = "live" => ~co[cur].fin

(* Once Unmanage is over, the provider of the object is out of the work.   *)
CurIsUnpushed ==
  pc \in {"restore", "check", "dropOriginal", "unfinalize"} =>
    (co[cur].phase = "terminating" => ~Pushed(cur))

(* The steps of Save and Restore that look at the saved OAuth first.       *)
BackupShape ==
  /\ pc = "view" => backup = Nothing
  /\ pc = "check" => \/ works["idp-oauth-original"].phase = "none"
                     \/ works["idp-oauth-original"].oauth = backup

(* The invariant: TypeOK and the five conjuncts above.                     *)
IInv == /\ TypeOK
        /\ ObjectShape
        /\ FinalizedIsSeen
        /\ WorkerShape
        /\ CurIsUnpushed
        /\ BackupShape

(* What is added when a deleted work is gone at once.                      *)
PushedShape ==
  /\ works["idp-oauth"].phase # "terminating"
  /\ pc = "report" /\ co[cur].phase = "live" => Pushed(cur)
  /\ StatusIsRight

=============================================================================
