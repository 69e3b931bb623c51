------------------------ MODULE BackplanePromiseProofs ------------------------
(***************************************************************************)
(* Proofs about BackplaneOAuth: what the controller promises the managed   *)
(* cluster.  The works that carry its OAuth are never applied side by      *)
(* side, the controller implements ClusterOAuthMgr, and the original OAuth *)
(* is back when the last ClusterOAuth is gone.  Each theorem holds without *)
(* the disturbances named in the property it proves; with each of them TLC *)
(* finds a behaviour that breaks it.                                       *)
(***************************************************************************)
EXTENDS BackplaneOAuthProofs

-----------------------------------------------------------------------------
(* What holds as long as a Reconcile sees every ClusterOAuth, and none is  *)
(* created while another is terminating.                                   *)

(* The one ClusterOAuth that is left is terminating.                       *)
OnlyTerminating(c) == co[c].phase = "terminating" /\ Existing(co) = {c}

(* The work idp-oauth-original is only there during the Unmanage of the    *)
(* last ClusterOAuth, whose Reconcile may come back to it several times;   *)
(* what would push in the meantime is not running.                         *)
OriginalAlone ==
  works["idp-oauth-original"].phase = "live" =>
    /\ works["idp-oauth"].phase # "live"
    /\ \E c \in OAuths : OnlyTerminating(c)
    /\ ~Managing /\ pc # "unfinalize"

(* That Unmanage has deleted the work idp-oauth before.                    *)
LastUnmanaged ==
  pc \in {"restore", "check", "dropOriginal"} =>
    /\ \E c \in OAuths : OnlyTerminating(c)
    /\ works["idp-oauth"].phase # "live"

ConflictInv == seen = co /\ OriginalAlone /\ LastUnmanaged

-----------------------------------------------------------------------------
(* What holds when in addition calls do not fail, views are answered and   *)
(* deleted works are gone at once.                                         *)

(* An object that is being deleted stays until its own Unmanage is over,   *)
(* and Unmanage restores when it is the only one.                          *)
LastShape ==
  /\ Deleting => co[cur].phase = "terminating"
  /\ pc \in {"restore", "check", "dropOriginal"} => Existing(co) = {cur}

(* The restoring work carries the original OAuth, and reports what it did. *)
OriginalShape ==
  works["idp-oauth-original"].phase # "none" =>
    /\ works["idp-oauth-original"].oauth = {Admin}
    /\ works["idp-oauth-original"].applied => oauth = {Admin}

(* Nothing is pushed without a saved OAuth, which is the original one.     *)
SavedShape ==
  /\ backup \in {Nothing, {Admin}}
  /\ backup = Nothing => oauth = {Admin} /\ works["idp-oauth"].phase = "none"
  /\ pc \in {"dropView", "push", "report"} => backup # Nothing
  /\ pc = "dropOriginal" => backup = Nothing
  /\ \A c \in OAuths : co[c].fin /\ backup = Nothing =>
       cur = c /\ pc \in {"save", "view", "dropOriginal", "unfinalize"}

(* A view lives within one Save.                                           *)
ViewShape ==
  /\ pc \notin {"view", "dropView"} => view = NoView
  /\ pc = "view" => view.result = {Admin}

(* What is pushed comes from the ClusterOAuths.                            *)
PushShape ==
  /\ \A w \in Works : works[w].phase # "terminating"
  /\ works["idp-oauth"].oauth \subseteq OAuths
  /\ oauth = {Admin} \/ oauth \subseteq OAuths

PromiseInv == LastShape /\ OriginalShape /\ SavedShape /\ ViewShape /\ PushShape

(* With the last ClusterOAuth the saved OAuth has gone.                    *)
RestoreInv ==
  /\ pc = "unfinalize" => backup = Nothing \/ Existing(co) # {cur}
  /\ Existing(co) = {} => backup = Nothing


-----------------------------------------------------------------------------
(* Who changes what.                                                       *)

LEMMA WorkNames == "idp-oauth" \in Works /\ "idp-oauth-original" \in Works
BY DEF Works

LEMMA WorksWritten ==
  ASSUME [Next]_vars
  PROVE  \/ UNCHANGED works
         \/ pc = "unmanage" /\ Unmanage /\ LastOne /\ DeleteWork("idp-oauth")
         \/ pc = "push" /\ PushTo("report")
         \/ pc = "unmanage" /\ ~LastOne /\ PushTo("unfinalize")
         \/ Restore /\ CreateOrUpdateWork("idp-oauth-original", backup)
         \/ DropOriginal
         \/ \E w \in Works : AgentApply(w) \/ AgentRelease(w)
BY DEF Next, vars, apiVars, Worker, Take, Continue, Placement, Agent, Forget, Manage,
       StartDelete, Save, ReadView, DropView, Push, PushFailure, Report, Unmanage,
       Restore, Check, NotYetApplied, Unfinalize, Observe, Abort, Restart, CreateSecret,
       CreateOAuth, DeleteSecret, DeleteOAuth, AgentView

LEMMA SeenIsCurrent ==
  ASSUME seen = co, ~May("lag"), [Next]_vars
  PROVE  seen' = co'
BY DEF Next, vars, apiVars, Worker, Take, Continue, Placement, Agent, Forget, Manage,
       StartDelete, Save, ReadView, DropView, Push, PushTo, PushFailure, Report, Unmanage,
       Restore, Check, NotYetApplied, DropOriginal, Unfinalize, Observe, Abort, Restart,
       CreateSecret, CreateOAuth, DeleteSecret, DeleteOAuth, AgentApply, AgentRelease,
       AgentView, Return, RequeueCur, Informed

(* The last ClusterOAuth, once terminating, stays the only one until it    *)
(* loses its finalizer: none is created in the meantime.                   *)
LEMMA LastStays ==
  ASSUME TypeOK, seen = co, ~May("overlap"), [Next]_vars, ~Unfinalize,
         NEW c \in OAuths, OnlyTerminating(c)
  PROVE  OnlyTerminating(c)'
<1>a. co \in [OAuths -> Object] /\ co[c].phase = "terminating"
  BY DEF TypeOK, OnlyTerminating
<1>b. \A d \in OAuths : d # c => co[d].phase = "none"
  BY DEF OnlyTerminating, Existing
<1>1. \A d \in OAuths : co'[d].phase = co[d].phase
  <2>1. CASE UNCHANGED co
    BY <2>1
  <2>2. ASSUME NEW d \in OAuths PROVE ~(Manage(d) \/ CreateOAuth(d) \/ DeleteOAuth(d))
    BY <1>a, <1>b DEF Manage, CreateOAuth, DeleteOAuth
  <2>3. CASE Conditioned
    BY <2>3, ConditionedKeeps
  <2> QED
    BY <2>1, <2>2, <2>3, ObjectSteps
<1>2. Existing(co') = Existing(co)
  BY <1>1 DEF Existing
<1> QED
  BY <1>a, <1>1, <1>2 DEF OnlyTerminating

LEMMA LastIsSeen ==
  ASSUME seen = co, NEW c \in OAuths, OnlyTerminating(c)
  PROVE  LastOne
BY DEF LastOne, OnlyTerminating

LEMMA LastIsOnly ==
  ASSUME seen = co, LastOne
  PROVE  \E c \in OAuths : OnlyTerminating(c)
BY DEF LastOne, OnlyTerminating

-----------------------------------------------------------------------------
(* The two works are never applied side by side.                           *)

Informs == {"lag", "overlap"} \cap scenario = {}

LEMMA InformsIsCalm == Informs <=> ~May("lag") /\ ~May("overlap")
BY DEF Informs, May

(* While the restoring work is there, nothing else is pushed.              *)
LEMMA OriginalAloneStays ==
  ASSUME TypeOK, ConflictInv, Informs, [Next]_vars,
         works["idp-oauth-original"].phase = "live",
         works'["idp-oauth-original"].phase = "live"
  PROVE  /\ works'["idp-oauth"].phase # "live"
         /\ \E c \in OAuths : OnlyTerminating(c)'
         /\ ~Managing' /\ pc' # "unfinalize"
<1>a. seen = co /\ works["idp-oauth"].phase # "live" /\ ~Managing /\ pc # "unfinalize"
  BY DEF ConflictInv, OriginalAlone
<1>b. PICK c \in OAuths : OnlyTerminating(c)
  BY DEF ConflictInv, OriginalAlone
<1>c. ~May("lag") /\ ~May("overlap")
  BY InformsIsCalm
<1>d. works \in [Works -> Work] /\ works["idp-oauth"] \in Work /\ works["idp-oauth-original"] \in Work
  BY WorkNames DEF TypeOK
<1>e. LastOne
  BY <1>a, <1>b, LastIsSeen
<1>1. OnlyTerminating(c)'
  BY <1>a, <1>b, <1>c, LastStays DEF Unfinalize
<1>2. works'["idp-oauth"].phase # "live"
  <2>1. CASE UNCHANGED works
    BY <1>a, <2>1
  <2>2. CASE DeleteWork("idp-oauth")
    BY <1>d, <2>2, WorkNames DEF DeleteWork, NoWork
  <2>3. CASE CreateOrUpdateWork("idp-oauth-original", backup) \/ DropOriginal
    BY <1>a, <1>d, <2>3, WorkNames DEF CreateOrUpdateWork, DropOriginal, DeleteWork
  <2>4. ASSUME NEW w \in Works, AgentApply(w) \/ AgentRelease(w)
        PROVE  works'["idp-oauth"].phase # "live"
    BY <1>a, <1>d, <2>4, WorkNames DEF AgentApply, AgentRelease, NoWork, Work
  <2>5. pc # "push"
    BY <1>a DEF Managing
  <2> QED
    BY <1>e, <2>1, <2>2, <2>3, <2>4, <2>5, WorksWritten
<1>3. ~Managing'
  <2>1. ASSUME NEW d \in OAuths PROVE ~Manage(d)
    <3>1. co[d].phase # "live"
      BY <1>b DEF OnlyTerminating, Existing
    <3> QED
      BY <1>a, <3>1 DEF Manage
  <2> QED
    BY <1>a, <2>1, WorkerSteps DEF Managing, Deleting, StartDelete
<1>4. pc' # "unfinalize"
  <2>1. ~DropOriginal
    BY <1>d, WorkNames DEF DropOriginal, DeleteWork, NoWork, Work
  <2>2. ~(pc = "unmanage" /\ ~LastOne)
    BY <1>e
  <2> QED
    BY <1>a, <2>1, <2>2
    DEF Next, vars, apiVars, Worker, Take, Continue, Placement, Agent, Forget, Manage,
        StartDelete, Save, ReadView, DropView, Push, PushTo, PushFailure, Report, Unmanage,
        Restore, Check, NotYetApplied, Unfinalize, Observe, Abort, Restart,
        CreateSecret, CreateOAuth, DeleteSecret, DeleteOAuth, AgentApply, AgentRelease,
        AgentView, Return, RequeueCur
<1> QED
  BY <1>1, <1>2, <1>3, <1>4

(* Only Restore creates the restoring work, and it follows the deletion of *)
(* the other one.                                                          *)
LEMMA OriginalCreated ==
  ASSUME TypeOK, [Next]_vars,
         works["idp-oauth-original"].phase # "live",
         works'["idp-oauth-original"].phase = "live"
  PROVE  Restore /\ pc = "restore" /\ pc' = "check"
<1>d. works \in [Works -> Work] /\ works["idp-oauth"] \in Work /\ works["idp-oauth-original"] \in Work
  BY WorkNames DEF TypeOK
<1>1. ASSUME NEW next PROVE ~PushTo(next)
  BY <1>d, WorkNames DEF PushTo, CreateOrUpdateWork
<1>2. ~DeleteWork("idp-oauth") /\ ~DropOriginal
  BY <1>d, WorkNames DEF DropOriginal, DeleteWork, NoWork
<1>3. ASSUME NEW w \in Works PROVE ~(AgentApply(w) \/ AgentRelease(w))
  BY <1>d, WorkNames DEF AgentApply, AgentRelease, NoWork, Work
<1>4. works' # works
  OBVIOUS
<1>5. Restore /\ CreateOrUpdateWork("idp-oauth-original", backup)
  BY <1>1, <1>2, <1>3, <1>4, WorksWritten
<1>6. backup = Nothing => UNCHANGED works
  BY <1>5 DEF Restore
<1> QED
  BY <1>4, <1>5, <1>6 DEF Restore

LEMMA OriginalAloneStep ==
  ASSUME TypeOK, ConflictInv, Informs, [Next]_vars
  PROVE  OriginalAlone'
<1> SUFFICES ASSUME works'["idp-oauth-original"].phase = "live"
             PROVE  /\ works'["idp-oauth"].phase # "live"
                    /\ \E c \in OAuths : OnlyTerminating(c)'
                    /\ ~Managing' /\ pc' # "unfinalize"
  BY DEF OriginalAlone
<1>1. CASE works["idp-oauth-original"].phase = "live"
  BY <1>1, OriginalAloneStays
<1>2. CASE works["idp-oauth-original"].phase # "live"
  <2>1. Restore /\ pc = "restore" /\ pc' = "check"
    BY <1>2, OriginalCreated
  <2>2. works["idp-oauth"].phase # "live" /\ seen = co
    BY <2>1 DEF ConflictInv, LastUnmanaged
  <2>3. PICK c \in OAuths : OnlyTerminating(c)
    BY <2>1 DEF ConflictInv, LastUnmanaged
  <2>4. OnlyTerminating(c)'
    BY <2>1, <2>3 DEF Restore, OnlyTerminating, Existing
  <2>5. works'["idp-oauth"] = works["idp-oauth"]
    BY <2>1, WorkNames DEF Restore, CreateOrUpdateWork, TypeOK
  <2> QED
    BY <2>1, <2>2, <2>4, <2>5 DEF Managing
<1> QED
  BY <1>1, <1>2

LEMMA LastUnmanagedStep ==
  ASSUME TypeOK, ConflictInv, Informs, [Next]_vars
  PROVE  LastUnmanaged'
<1> DEFINE Restoring == {"restore", "check", "dropOriginal"}
<1> SUFFICES ASSUME pc' \in Restoring
             PROVE  /\ \E c \in OAuths : OnlyTerminating(c)'
                    /\ works'["idp-oauth"].phase # "live"
  BY DEF LastUnmanaged
<1>a. seen = co
  BY DEF ConflictInv
<1>c. ~May("lag") /\ ~May("overlap")
  BY InformsIsCalm
<1>d. works \in [Works -> Work] /\ works["idp-oauth"] \in Work
  BY WorkNames DEF TypeOK
<1>1. (pc \in Restoring) \/ (Unmanage /\ LastOne /\ DeleteWork("idp-oauth") /\ UNCHANGED co)
  BY DEF Next, vars, apiVars, Worker, Take, Continue, Placement, Agent, Forget, Manage,
       StartDelete, Save, ReadView, DropView, Push, PushTo, PushFailure, Report, Unmanage,
       Restore, Check, NotYetApplied, DropOriginal, Unfinalize, Observe, Abort, Restart,
       CreateSecret, CreateOAuth, DeleteSecret, DeleteOAuth, AgentApply, AgentRelease,
       AgentView, Return, RequeueCur
<1>2. CASE Unmanage /\ LastOne /\ DeleteWork("idp-oauth") /\ UNCHANGED co
  <2>1. PICK c \in OAuths : OnlyTerminating(c)
    BY <1>a, <1>2, LastIsOnly
  <2>2. OnlyTerminating(c)'
    BY <1>2, <2>1 DEF OnlyTerminating, Existing
  <2>3. works'["idp-oauth"].phase # "live"
    BY <1>2, <1>d, WorkNames DEF DeleteWork, NoWork
  <2> QED
    BY <2>2, <2>3
<1>3. CASE pc \in Restoring
  <2>a. works["idp-oauth"].phase # "live"
    BY <1>3 DEF ConflictInv, LastUnmanaged
  <2>1. PICK c \in OAuths : OnlyTerminating(c)
    BY <1>3 DEF ConflictInv, LastUnmanaged
  <2>2. OnlyTerminating(c)'
    BY <1>a, <1>c, <1>3, <2>1, LastStays DEF Unfinalize
  <2>3. works'["idp-oauth"].phase # "live"
    <3>1. CASE UNCHANGED works
      BY <2>a, <3>1
    <3>2. CASE CreateOrUpdateWork("idp-oauth-original", backup) \/ DropOriginal
      BY <2>a, <1>d, <3>2, WorkNames DEF CreateOrUpdateWork, DropOriginal, DeleteWork
    <3>3. ASSUME NEW w \in Works, AgentApply(w) \/ AgentRelease(w)
          PROVE  works'["idp-oauth"].phase # "live"
      BY <2>a, <1>d, <3>3, WorkNames DEF AgentApply, AgentRelease, NoWork, Work
    <3> QED
      BY <1>3, <3>1, <3>2, <3>3, WorksWritten
  <2> QED
    BY <2>2, <2>3
<1> QED
  BY <1>1, <1>2, <1>3

LEMMA ConflictInvStep ==
  ASSUME TypeOK, ConflictInv, Informs, [Next]_vars
  PROVE  ConflictInv'
<1>1. seen' = co'
  BY SeenIsCurrent, InformsIsCalm DEF ConflictInv
<1> QED
  BY <1>1, OriginalAloneStep, LastUnmanagedStep DEF ConflictInv

LEMMA ConflictInvariance == Spec => [](Informs => ConflictInv)
<1> DEFINE Alone == Informs => ConflictInv
<1>1. Init => Alone
  BY WorkNames DEF Init, ConflictInv, OriginalAlone, LastUnmanaged, NoWork
<1>2. TypeOK /\ Alone /\ [Next]_vars => Alone'
  BY ConflictInvStep, ScenarioFixed DEF Informs
<1> HIDE DEF Alone
<1>3. Spec => []Alone
  BY <1>1, <1>2, TypeCorrect, PTL DEF Spec
<1> QED
  BY <1>3 DEF Alone

(* The works idp-oauth and idp-oauth-original are never both applied, in   *)
(* whatever order ClusterOAuths come and go, views and deleted works being *)
(* late and calls failing, as long as each Reconcile sees every            *)
(* ClusterOAuth and none is created while another is terminating.          *)
THEOREM WorksDoNotConflict == Spec => []NoConflictingWorks
<1>1. (Informs => ConflictInv) => NoConflictingWorks
  BY WorkNames DEF Informs, ConflictInv, OriginalAlone, NoConflictingWorks
<1> QED
  BY <1>1, ConflictInvariance, PTL

-----------------------------------------------------------------------------
(* The promise of ClusterOAuthMgr, when nothing but early deletions is to  *)
(* be met: the steps that are left.                                        *)

Calm == scenario \subseteq {"early"}

LEMMA CalmMeans ==
  Calm => /\ Informs
          /\ ~May("view") /\ ~May("release") /\ ~May("lag")
          /\ ~May("abort") /\ ~May("overlap")
BY DEF Calm, Informs, May

PromiseHolds == IInv /\ ConflictInv /\ PromiseInv /\ Calm

LEMMA OAuthWritten ==
  [Next]_vars => UNCHANGED oauth \/ \E w \in Works : AgentApply(w)
BY DEF Next, vars, apiVars, Worker, Take, Continue, Placement, Agent, Forget, Manage,
       StartDelete, Save, ReadView, DropView, Push, PushTo, PushFailure, Report, Unmanage,
       Restore, Check, NotYetApplied, DropOriginal, Unfinalize, Observe, Abort, Restart,
       CreateSecret, CreateOAuth, DeleteSecret, DeleteOAuth, AgentRelease, AgentView

LEMMA BackupWritten ==
  [Next]_vars => UNCHANGED backup \/ ReadView \/ Check
BY DEF Next, vars, apiVars, Worker, Take, Continue, Placement, Agent, Forget, Manage,
       StartDelete, Save, DropView, Push, PushTo, PushFailure, Report, Unmanage,
       Restore, NotYetApplied, DropOriginal, Unfinalize, Observe, Abort, Restart,
       CreateSecret, CreateOAuth, DeleteSecret, DeleteOAuth, AgentApply, AgentRelease,
       AgentView

LEMMA ViewWritten ==
  Calm /\ [Next]_vars => UNCHANGED view \/ Save \/ DropView
BY CalmMeans
   DEF Next, vars, apiVars, Worker, Take, Continue, Placement, Agent, Forget, Manage,
       StartDelete, ReadView, Push, PushTo, PushFailure, Report, Unmanage,
       Restore, Check, NotYetApplied, DropOriginal, Unfinalize, Observe, Abort, Restart,
       CreateSecret, CreateOAuth, DeleteSecret, DeleteOAuth, AgentApply, AgentRelease,
       AgentView

(* How the worker gets to each place, and that the others leave it there.  *)
LEMMA Places ==
  ASSUME Calm, [Next]_vars
  PROVE  /\ pc' = "save" => pc = "save" \/ \E c \in OAuths : Manage(c)
         /\ pc' = "view" => (pc = "view" /\ UNCHANGED view) \/ (Save /\ backup = Nothing)
         /\ pc' = "dropView" => pc = "dropView" \/ ReadView
         /\ pc' = "push" => \/ pc = "push" \/ DropView
                            \/ ReadView
                            \/ Save /\ backup # Nothing
         /\ pc' = "report" => pc = "report" \/ (pc = "push" /\ PushTo("report"))
         /\ pc' = "dropOriginal" => \/ pc = "dropOriginal"
                                    \/ Restore /\ backup = Nothing
                                    \/ Check
         /\ pc' = "unfinalize" => \/ pc = "unfinalize"
                                  \/ DropOriginal
                                  \/ pc = "unmanage" /\ ~LastOne /\ PushTo("unfinalize")
BY CalmMeans
   DEF Next, vars, apiVars, Worker, Take, Continue, Placement, Agent, Forget, Manage,
       StartDelete, Save, ReadView, DropView, Push, PushTo, PushFailure, Report, Unmanage,
       Restore, Check, NotYetApplied, DropOriginal, Unfinalize, Observe, Abort, Restart,
       CreateSecret, CreateOAuth, DeleteSecret, DeleteOAuth, AgentApply, AgentRelease,
       AgentView, Return, RequeueCur

LEMMA TerminatingStays ==
  ASSUME TypeOK, [Next]_vars, ~Unfinalize, NEW c \in OAuths, co[c].phase = "terminating"
  PROVE  co'[c].phase = "terminating"
<1>a. co[c] \in Object /\ c \in DOMAIN co
  BY DEF TypeOK
<1>1. CASE UNCHANGED co
  BY <1>1
<1>2. ASSUME NEW d \in OAuths, Manage(d) \/ CreateOAuth(d) \/ DeleteOAuth(d)
      PROVE  co'[c].phase = "terminating"
  BY <1>2, <1>a DEF Manage, CreateOAuth, DeleteOAuth, Object
<1>3. CASE Conditioned
  BY <1>3, ConditionedKeeps
<1> QED
  BY <1>1, <1>2, <1>3, ObjectSteps

(* A finalizer is added by Manage only.                                    *)
LEMMA FinalizerAdded ==
  ASSUME TypeOK, [Next]_vars, NEW c \in OAuths, co'[c].fin
  PROVE  co[c].fin \/ Manage(c)
<1>a. co[c] \in Object /\ c \in DOMAIN co
  BY DEF TypeOK
<1>1. ASSUME NEW d \in OAuths, Manage(d) PROVE co[c].fin \/ Manage(c)
  BY <1>1, <1>a DEF Manage, Object
<1>2. ASSUME NEW d \in OAuths, CreateOAuth(d) \/ DeleteOAuth(d) PROVE co[c].fin
  BY <1>2, <1>a DEF CreateOAuth, DeleteOAuth, Object, NoObject
<1>3. CASE Conditioned
  BY <1>3, ConditionedKeeps
<1>4. CASE Unfinalize
  BY <1>4, <1>a DEF Unfinalize, NoObject
<1> QED
  BY <1>1, <1>2, <1>3, <1>4, ObjectSteps

-----------------------------------------------------------------------------
(* The conjuncts of PromiseInv, one after the other.                       *)

LEMMA LastShapeStep ==
  ASSUME PromiseHolds, [Next]_vars
  PROVE  LastShape'
<1>a. TypeOK /\ TypeOK'
  BY NextType DEF PromiseHolds, IInv
<1>1. ASSUME Deleting' PROVE co'[cur'].phase = "terminating"
  <2>1. CASE UNCHANGED <<pc, cur>>
    <3>1. cur \in OAuths /\ co[cur].phase = "terminating"
      BY <1>1, <1>a, <2>1 DEF Deleting, PromiseHolds, PromiseInv, LastShape, TypeOK
    <3>2. ~Unfinalize
      BY <2>1, <1>1 DEF Unfinalize, Return, RequeueCur, Deleting
    <3> QED
      BY <1>a, <2>1, <3>1, <3>2, TerminatingStays
  <2>2. ASSUME NEW c \in OAuths, StartDelete(c) PROVE co'[cur'].phase = "terminating"
    BY <2>2 DEF StartDelete, PromiseHolds, ConflictInv
  <2>3. CASE UNCHANGED <<co, cur>> /\ Deleting
    BY <2>3 DEF PromiseHolds, PromiseInv, LastShape
  <2> QED
    BY <1>1, <2>1, <2>2, <2>3, WorkerSteps DEF Deleting, Managing, Manage
<1>2. ASSUME pc' \in {"restore", "check", "dropOriginal"} PROVE Existing(co') = {cur'}
  <2>1. LastUnmanaged'
    BY <1>a, LastUnmanagedStep, CalmMeans DEF PromiseHolds
  <2>2. PICK c \in OAuths : OnlyTerminating(c)'
    BY <1>2, <2>1 DEF LastUnmanaged
  <2>3. cur' \in OAuths /\ co'[cur'].phase = "terminating"
    BY <1>1, <1>2, <1>a DEF Deleting, TypeOK
  <2>4. cur' \in Existing(co')
    BY <2>3 DEF Existing
  <2> QED
    BY <2>2, <2>4 DEF OnlyTerminating
<1> QED
  BY <1>1, <1>2 DEF LastShape

(* A work that is applied is the only one there is.                        *)
LEMMA AppliedAlone ==
  ASSUME PromiseHolds, works["idp-oauth"].phase = "live"
  PROVE  works["idp-oauth-original"].phase = "none"
<1>1. works["idp-oauth-original"] \in Work
  BY WorkNames DEF PromiseHolds, IInv, TypeOK
<1>2. works["idp-oauth-original"].phase \notin {"live", "terminating"}
  BY WorkNames DEF PromiseHolds, ConflictInv, OriginalAlone, PromiseInv, PushShape
<1> QED
  BY <1>1, <1>2 DEF Work

LEMMA OriginalShapeStep ==
  ASSUME PromiseHolds, [Next]_vars
  PROVE  OriginalShape'
<1>a. works \in [Works -> Work] /\ works["idp-oauth-original"] \in Work
  BY WorkNames DEF PromiseHolds, IInv, TypeOK
<1>b. OriginalShape /\ ~May("release") /\ \A w \in Works : works[w].phase # "terminating"
  BY CalmMeans DEF PromiseHolds, PromiseInv, PushShape
<1>1. ASSUME AgentApply("idp-oauth") PROVE OriginalShape'
  <2>1. works["idp-oauth-original"].phase = "none"
    BY <1>1, AppliedAlone DEF AgentApply
  <2>2. works'["idp-oauth-original"] = works["idp-oauth-original"]
    BY <1>1, <1>a, WorkNames DEF AgentApply
  <2> QED
    BY <2>1, <2>2 DEF OriginalShape
<1>2. ASSUME AgentApply("idp-oauth-original") PROVE OriginalShape'
  BY <1>2, <1>a, <1>b, WorkNames DEF AgentApply, OriginalShape, Work
<1>3. CASE UNCHANGED oauth /\ UNCHANGED works
  BY <1>3, <1>b DEF OriginalShape
<1>4. ASSUME UNCHANGED oauth, NEW content, CreateOrUpdateWork("idp-oauth", content)
      PROVE  OriginalShape'
  BY <1>4, <1>a, <1>b, WorkNames DEF CreateOrUpdateWork, OriginalShape
<1>5. CASE UNCHANGED oauth /\ (DeleteWork("idp-oauth") \/ DropOriginal)
  BY <1>5, <1>a, <1>b, WorkNames DEF DeleteWork, DropOriginal, OriginalShape, NoWork
<1>6. CASE Restore /\ CreateOrUpdateWork("idp-oauth-original", backup)
  <2>1. CASE UNCHANGED works
    BY <1>6, <1>3, <2>1 DEF Restore
  <2>2. CASE backup # Nothing
    <3>1. backup = {Admin}
      BY <2>2 DEF PromiseHolds, PromiseInv, SavedShape
    <3>2. UNCHANGED oauth
      BY <1>6 DEF Restore
    <3> QED
      BY <1>6, <1>a, <1>b, <3>1, <3>2, WorkNames DEF CreateOrUpdateWork, OriginalShape, Work
  <2> QED
    BY <1>6, <2>1, <2>2 DEF Restore
<1>7. ASSUME NEW w \in Works PROVE ~AgentRelease(w)
  BY <1>b DEF AgentRelease
<1>8. CASE UNCHANGED oauth /\ ~\E w \in Works : AgentApply(w)
  BY <1>3, <1>4, <1>5, <1>6, <1>7, <1>8, WorksWritten DEF PushTo
<1>9. ASSUME NEW w \in Works, AgentApply(w) PROVE OriginalShape'
  BY <1>1, <1>2, <1>9 DEF Works
<1> QED
  BY <1>8, <1>9, OAuthWritten

LEMMA ViewShapeStep ==
  ASSUME PromiseHolds, [Next]_vars
  PROVE  ViewShape'
<1>a. /\ backup = Nothing => oauth = {Admin}
      /\ pc \notin {"view", "dropView"} => view = NoView
      /\ pc = "view" => view.result = {Admin}
      /\ ~May("view") /\ Calm
  BY CalmMeans DEF PromiseHolds, PromiseInv, SavedShape, ViewShape
<1>1. pc' = "view" => view'.result = {Admin}
  <2>1. CASE Save /\ backup = Nothing
    BY <1>a, <2>1 DEF Save, NoView
  <2>2. CASE pc = "view" /\ UNCHANGED view
    BY <1>a, <2>2
  <2> QED
    BY <1>a, <2>1, <2>2, Places
<1>2. pc' \notin {"view", "dropView"} => view' = NoView
  <2>1. CASE DropView
    BY <2>1 DEF DropView
  <2>2. CASE pc \notin {"view", "dropView"} /\ UNCHANGED view
    BY <1>a, <2>2
  <2>3. CASE Save
    BY <1>a, <2>3 DEF Save
  <2>4. CASE pc = "view" /\ pc' \notin {"view", "dropView"} /\ UNCHANGED view
    <3>1. ~ReadView
      <4>1. view.result # Nothing
        BY <1>a, <2>4, ConstantsAssumption DEF Content
      <4> QED
        BY <2>4, <4>1 DEF ReadView
    <3> QED
      BY <1>a, <2>4, <3>1, CalmMeans
      DEF Next, vars, apiVars, Worker, Take, Continue, Placement, Agent, Forget, Manage,
          StartDelete, Save, DropView, Push, PushTo, PushFailure, Report, Unmanage,
          Restore, Check, NotYetApplied, DropOriginal, Unfinalize, Observe, Abort, Restart,
          CreateSecret, CreateOAuth, DeleteSecret, DeleteOAuth, AgentApply, AgentRelease,
          AgentView, Return, RequeueCur
  <2>5. CASE pc = "dropView" /\ pc' \notin {"view", "dropView"} /\ UNCHANGED view
    BY <1>a, <2>1, <2>5, CalmMeans
    DEF Next, vars, apiVars, Worker, Take, Continue, Placement, Agent, Forget, Manage,
        StartDelete, Save, ReadView, Push, PushTo, PushFailure, Report, Unmanage,
        Restore, Check, NotYetApplied, DropOriginal, Unfinalize, Observe, Abort, Restart,
        CreateSecret, CreateOAuth, DeleteSecret, DeleteOAuth, AgentApply, AgentRelease,
        AgentView, Return, RequeueCur
  <2> QED
    BY <1>a, <2>1, <2>2, <2>3, <2>4, <2>5, ViewWritten
<1> QED
  BY <1>1, <1>2 DEF ViewShape

(* Nothing is pushed without a saved OAuth: not by Push, which follows     *)
(* Save, nor by the Unmanage of one ClusterOAuth of several.               *)
LEMMA PushedIsSaved ==
  ASSUME PromiseHolds, pc = "push" \/ pc = "unmanage"
  PROVE  backup # Nothing
<1>1. CASE pc = "push"
  BY <1>1 DEF PromiseHolds, PromiseInv, SavedShape
<1>2. CASE pc = "unmanage"
  <2>1. cur \in OAuths /\ co[cur].phase = "terminating"
    BY <1>2 DEF PromiseHolds, IInv, TypeOK, PromiseInv, LastShape, Deleting
  <2>2. co[cur].fin
    BY <2>1 DEF PromiseHolds, IInv, ObjectShape
  <2> QED
    BY <1>2, <2>1, <2>2 DEF PromiseHolds, PromiseInv, SavedShape
<1> QED
  BY <1>1, <1>2

LEMMA ReadViewSaves ==
  ASSUME PromiseHolds, ReadView
  PROVE  backup = Nothing /\ oauth = {Admin} /\ backup' = {Admin} /\ backup' # Nothing
<1>1. view.result = {Admin} /\ pc = "view"
  BY DEF ReadView, PromiseHolds, PromiseInv, ViewShape
<1>2. {Admin} # Nothing
  BY ConstantsAssumption DEF Content
<1>3. backup = Nothing /\ oauth = {Admin}
  BY <1>1 DEF PromiseHolds, IInv, BackupShape, PromiseInv, SavedShape
<1> QED
  BY <1>1, <1>2, <1>3 DEF ReadView

(* Check finds the original OAuth on the cluster, and no pushed work.      *)
LEMMA CheckRestored ==
  ASSUME PromiseHolds, Check
  PROVE  /\ oauth = {Admin} /\ backup = {Admin} /\ backup' = Nothing
         /\ works["idp-oauth"].phase = "none"
<1>1. works["idp-oauth-original"].phase # "none" /\ works["idp-oauth-original"].applied
  BY DEF Check, Applied
<1>2. oauth = {Admin} /\ works["idp-oauth-original"].oauth = {Admin}
  BY <1>1 DEF PromiseHolds, PromiseInv, OriginalShape
<1>3. backup = {Admin}
  BY <1>1, <1>2 DEF PromiseHolds, IInv, BackupShape, Check
<1>4. works["idp-oauth"] \in Work /\ works["idp-oauth"].phase \notin {"live", "terminating"}
  BY WorkNames DEF Check, PromiseHolds, IInv, TypeOK, ConflictInv, LastUnmanaged,
                   PromiseInv, PushShape
<1> QED
  BY <1>2, <1>3, <1>4 DEF Check, Work

LEMMA UnsavedIsUntouched ==
  ASSUME PromiseHolds, [Next]_vars, backup = Nothing
  PROVE  oauth' = {Admin} /\ works'["idp-oauth"].phase = "none"
<1>a. works \in [Works -> Work] /\ oauth = {Admin} /\ works["idp-oauth"].phase = "none"
  BY DEF PromiseHolds, IInv, TypeOK, PromiseInv, SavedShape
<1>b. \A w \in Works : works[w].phase # "terminating"
  BY DEF PromiseHolds, PromiseInv, PushShape
<1>1. ASSUME AgentApply("idp-oauth-original") PROVE oauth' = {Admin}
  BY <1>1 DEF AgentApply, PromiseHolds, PromiseInv, OriginalShape
<1>2. ~AgentApply("idp-oauth")
  BY <1>a DEF AgentApply
<1>3. oauth' = {Admin}
  BY <1>a, <1>1, <1>2, OAuthWritten DEF Works
<1>4. pc # "push" /\ pc # "unmanage"
  BY PushedIsSaved
<1>5. ASSUME UNCHANGED works PROVE works'["idp-oauth"].phase = "none"
  BY <1>a, <1>5
<1>6. ASSUME CreateOrUpdateWork("idp-oauth-original", backup) \/ DropOriginal
      PROVE  works'["idp-oauth"].phase = "none"
  BY <1>a, <1>6, WorkNames DEF CreateOrUpdateWork, DropOriginal, DeleteWork
<1>7. ASSUME AgentApply("idp-oauth-original") PROVE works'["idp-oauth"].phase = "none"
  BY <1>a, <1>7, WorkNames DEF AgentApply
<1>8. ASSUME NEW w \in Works PROVE ~AgentRelease(w)
  BY <1>b DEF AgentRelease
<1>9. works'["idp-oauth"].phase = "none"
  BY <1>a, <1>2, <1>4, <1>5, <1>6, <1>7, <1>8, WorksWritten DEF Works
<1> QED
  BY <1>3, <1>9

(* Between its Save and the end of its Unmanage, every ClusterOAuth with a *)
(* finalizer is covered by the saved OAuth.                                *)
LEMMA FinalizedIsSaved ==
  ASSUME PromiseHolds, [Next]_vars, NEW c \in OAuths, co'[c].fin, backup' = Nothing
  PROVE  cur' = c /\ pc' \in {"save", "view", "dropOriginal", "unfinalize"}
<1>a. TypeOK /\ ObjectShape /\ co[c] \in Object /\ Calm
  BY DEF PromiseHolds, IInv, TypeOK
<1>b. \A d \in OAuths : co[d].fin /\ backup = Nothing =>
        cur = d /\ pc \in {"save", "view", "dropOriginal", "unfinalize"}
  BY DEF PromiseHolds, PromiseInv, SavedShape
<1>1. CASE Manage(c)
  BY <1>1 DEF Manage
<1>2. CASE co[c].fin /\ Check
  <2>1. Existing(co) = {cur}
    BY <1>2 DEF Check, PromiseHolds, PromiseInv, LastShape
  <2>2. c \in Existing(co)
    BY <1>2, <1>a DEF ObjectShape, Existing
  <2> QED
    BY <1>2, <2>1, <2>2 DEF Check
<1>3. CASE co[c].fin /\ backup = Nothing
  <2>1. cur = c /\ pc \in {"save", "view", "dropOriginal", "unfinalize"}
    BY <1>3, <1>b
  <2>2. ~ReadView
    BY ReadViewSaves
  <2>3. ~Unfinalize
    <3> SUFFICES ASSUME Unfinalize PROVE FALSE
      OBVIOUS
    <3>1. co[cur].phase = "terminating"
      BY DEF Unfinalize, PromiseHolds, PromiseInv, LastShape, Deleting
    <3>2. ~co'[c].fin
      BY <2>1, <3>1, <1>a DEF Unfinalize, NoObject, TypeOK
    <3> QED
      BY <3>2
  <2> QED
    BY <1>3, <2>1, <2>2, <2>3, <1>a, CalmMeans
    DEF Next, vars, apiVars, Worker, Take, Continue, Placement, Agent, Forget, Manage,
        StartDelete, Save, DropView, Push, PushTo, PushFailure, Report, Unmanage,
        Restore, Check, NotYetApplied, DropOriginal, Observe, Abort, Restart,
        CreateSecret, CreateOAuth, DeleteSecret, DeleteOAuth, AgentApply, AgentRelease,
        AgentView
<1>4. backup = Nothing \/ Check
  BY BackupWritten, ReadViewSaves
<1> QED
  BY <1>a, <1>1, <1>2, <1>3, <1>4, FinalizerAdded

LEMMA SavedShapeStep ==
  ASSUME PromiseHolds, [Next]_vars
  PROVE  SavedShape'
<1>a. /\ backup \in {Nothing, {Admin}} /\ Calm
      /\ pc \in {"dropView", "push", "report"} => backup # Nothing
      /\ pc = "dropOriginal" => backup = Nothing
  BY DEF PromiseHolds, PromiseInv, SavedShape
<1>1. backup' \in {Nothing, {Admin}}
  BY <1>a, BackupWritten, ReadViewSaves, CheckRestored
<1>2. backup' = Nothing => oauth' = {Admin} /\ works'["idp-oauth"].phase = "none"
  <2>1. CASE backup = Nothing
    BY <2>1, UnsavedIsUntouched
  <2>2. CASE Check
    BY <2>2, CheckRestored DEF Check
  <2> QED
    BY <2>1, <2>2, BackupWritten, ReadViewSaves
<1>3. pc' \in {"dropView", "push", "report"} => backup' # Nothing
  <2>1. CASE ReadView
    BY <2>1, ReadViewSaves
  <2>2. CASE pc \in {"dropView", "push", "report"}
    <3>1. ~Check /\ ~ReadView
      BY <2>2 DEF Check, ReadView
    <3> QED
      BY <1>a, <2>2, <3>1, BackupWritten
  <2>3. CASE Save /\ backup # Nothing
    BY <2>3 DEF Save
  <2>4. CASE DropView
    BY <1>a, <2>4 DEF DropView
  <2> QED
    BY <1>a, <2>1, <2>2, <2>3, <2>4, Places
<1>4. pc' = "dropOriginal" => backup' = Nothing
  <2>1. CASE pc = "dropOriginal"
    <3>1. ~Check /\ ~ReadView
      BY <2>1 DEF Check, ReadView
    <3> QED
      BY <1>a, <2>1, <3>1, BackupWritten
  <2>2. CASE Restore /\ backup = Nothing
    BY <2>2 DEF Restore
  <2>3. CASE Check
    BY <2>3 DEF Check
  <2> QED
    BY <1>a, <2>1, <2>2, <2>3, Places
<1> QED
  BY <1>1, <1>2, <1>3, <1>4, FinalizedIsSaved DEF SavedShape

LEMMA PushShapeStep ==
  ASSUME PromiseHolds, [Next]_vars
  PROVE  PushShape'
<1>a. works \in [Works -> Work] /\ \A w \in Works : works[w] \in Work
  BY DEF PromiseHolds, IInv, TypeOK
<1>b. PushShape /\ ~May("release")
  BY CalmMeans DEF PromiseHolds, PromiseInv
<1> DEFINE Fine(works_) == /\ \A w \in Works : works_[w].phase # "terminating"
                           /\ works_["idp-oauth"].oauth \subseteq OAuths
<1>c. Fine(works)
  BY <1>b DEF PushShape
<1>1. ASSUME NEW w \in Works, AgentApply(w) PROVE Fine(works')
  BY <1>1, <1>a, <1>c, WorkNames DEF AgentApply, Work
<1>2. ASSUME NEW w \in Works PROVE ~AgentRelease(w)
  BY <1>c DEF AgentRelease
<1>3. ASSUME NEW w \in Works, DeleteWork(w) PROVE Fine(works')
  BY <1>3, <1>a, <1>b, <1>c, WorkNames DEF DeleteWork, NoWork
<1>4. ASSUME CreateOrUpdateWork("idp-oauth", Live(seen)) PROVE Fine(works')
  BY <1>4, <1>a, <1>c, WorkNames DEF CreateOrUpdateWork, Work, Live
<1>5. ASSUME CreateOrUpdateWork("idp-oauth-original", backup) PROVE Fine(works')
  BY <1>5, <1>a, <1>c, WorkNames DEF CreateOrUpdateWork, Work
<1>6. ASSUME UNCHANGED works PROVE Fine(works')
  BY <1>6, <1>c
<1>7. Fine(works')
  BY <1>1, <1>2, <1>3, <1>4, <1>5, <1>6, WorksWritten, WorkNames DEF PushTo, DropOriginal
<1>8. oauth' = {Admin} \/ oauth' \subseteq OAuths
  <2>1. ASSUME AgentApply("idp-oauth") PROVE oauth' \subseteq OAuths
    BY <1>c, <2>1 DEF AgentApply
  <2>2. ASSUME AgentApply("idp-oauth-original") PROVE oauth' = {Admin}
    BY <2>2 DEF AgentApply, PromiseHolds, PromiseInv, OriginalShape
  <2>3. CASE UNCHANGED oauth
    BY <1>b, <2>3 DEF PushShape
  <2> QED
    BY <2>1, <2>2, <2>3, OAuthWritten DEF Works
<1> QED
  BY <1>7, <1>8 DEF PushShape

LEMMA PromiseInvStep == PromiseHolds /\ [Next]_vars => PromiseInv'
BY LastShapeStep, OriginalShapeStep, SavedShapeStep, ViewShapeStep, PushShapeStep
DEF PromiseInv

LEMMA PromiseInvariance == Spec => [](Calm => ConflictInv /\ PromiseInv)
<1> DEFINE Kept == Calm => PromiseInv
           Alone == Informs => ConflictInv
           Both == Calm => ConflictInv /\ PromiseInv
<1>1. Init => Kept
  BY WorkNames DEF Init, PromiseInv, LastShape, OriginalShape, SavedShape, ViewShape,
                   PushShape, Deleting, NoObject, NoWork, NoView
<1>2. IInv /\ Alone /\ Kept /\ [Next]_vars => Kept'
  <2> SUFFICES ASSUME IInv, Alone, Kept, [Next]_vars, Calm' PROVE PromiseInv'
    OBVIOUS
  <2>1. Calm
    BY ScenarioFixed DEF Calm
  <2> QED
    BY <2>1, CalmMeans, PromiseInvStep DEF PromiseHolds
<1>3. Alone /\ Kept => Both
  BY CalmMeans
<1>4. Spec => []Alone
  BY ConflictInvariance
<1> HIDE DEF Kept, Alone
<1>5. Spec => []Kept
  BY <1>1, <1>2, <1>4, Invariance, PTL DEF Spec
<1> HIDE DEF Both
<1>6. Spec => []Both
  BY <1>3, <1>4, <1>5, PTL
<1> QED
  BY <1>6 DEF Both

-----------------------------------------------------------------------------
(* The refinement.                                                         *)

LEMMA EveryStepIsPromised ==
  ASSUME PromiseHolds, [Next]_vars
  PROVE  Mgr!Step
<1> DEFINE Saved == IF backup = Nothing THEN {} ELSE {backup}
<1>a. backup \in {Nothing, {Admin}} /\ (backup = Nothing => oauth = {Admin})
  BY DEF PromiseHolds, PromiseInv, SavedShape
<1>b. {Admin} # Nothing
  BY ConstantsAssumption DEF Content
<1>1. CASE ReadView
  <2>1. Saved = {} /\ oauth = {Admin} /\ Saved' = {oauth} /\ UNCHANGED oauth
    BY <1>1, ReadViewSaves DEF ReadView
  <2>2. Mgr!SaveOriginal
    BY <2>1 DEF Mgr!SaveOriginal
  <2> QED
    BY <2>2 DEF Mgr!Step
<1>2. CASE Check
  <2>1. Saved = {oauth} /\ Saved' = {} /\ UNCHANGED oauth
    BY <1>2, <1>b, CheckRestored DEF Check
  <2>2. Mgr!DropCopy
    BY <2>1 DEF Mgr!DropCopy
  <2> QED
    BY <2>2 DEF Mgr!Step
<1>3. CASE UNCHANGED backup /\ backup = Nothing
  <2>1. Saved = {} /\ Saved' = {} /\ oauth = {Admin} /\ oauth' = {Admin}
    BY <1>a, <1>3, UnsavedIsUntouched
  <2>2. Mgr!Configure
    BY <2>1 DEF Mgr!Configure
  <2> QED
    BY <2>2 DEF Mgr!Step
<1>4. CASE UNCHANGED backup /\ backup = {Admin}
  <2>1. Saved = {{Admin}} /\ Saved' = Saved
    BY <1>b, <1>4
  <2>2. oauth' = {Admin} \/ oauth' \subseteq OAuths
    BY PushShapeStep DEF PushShape
  <2>3. ASSUME oauth' = {Admin} PROVE Mgr!RestoreOriginal
    BY <2>1, <2>3 DEF Mgr!RestoreOriginal
  <2>4. ASSUME oauth' \subseteq OAuths PROVE Mgr!PushOAuths
    BY <2>1, <2>4 DEF Mgr!PushOAuths
  <2> QED
    BY <2>2, <2>3, <2>4 DEF Mgr!Step
<1> QED
  BY <1>a, <1>1, <1>2, <1>3, <1>4, BackupWritten

(* With early deletions, and nothing worse, the controller implements      *)
(* ClusterOAuthMgr: Save keeps the original OAuth before Push replaces it, *)
(* and Unmanage puts it back before the copy is given up.                  *)
THEOREM BackplaneKeepsPromise == Spec => KeepsPromise
<1>1. Init => Mgr!Start
  BY DEF Init, Mgr!Start
<1> DEFINE Both == Calm => ConflictInv /\ PromiseInv
<1>2. IInv /\ Both /\ [Next]_vars => [scenario \subseteq {"early"} => Mgr!Step]_vars
  BY EveryStepIsPromised DEF PromiseHolds, Calm
<1>3. Spec => []Both
  BY PromiseInvariance
<1> HIDE DEF Both
<1> QED
  BY <1>1, <1>2, <1>3, Invariance, PTL DEF Spec, KeepsPromise

-----------------------------------------------------------------------------
(* The original OAuth is back when the last ClusterOAuth is gone.          *)

LEMMA UndisturbedMeans == scenario = {} => Calm /\ ~May("early")
BY DEF Calm, May

(* Objects disappear only by losing their finalizer.                       *)
LEMMA ExistingSteps ==
  ASSUME TypeOK, ObjectShape, seen = co, ~May("early"), [Next]_vars, ~Unfinalize
  PROVE  Existing(co) \subseteq Existing(co')
<1> SUFFICES ASSUME NEW c \in OAuths, co[c].phase # "none"
             PROVE  co'[c].phase # "none"
  BY DEF Existing
<1>a. co[c] \in Object /\ c \in DOMAIN co
  BY DEF TypeOK
<1>1. CASE UNCHANGED co
  BY <1>1
<1>2. ASSUME NEW d \in OAuths, Manage(d) \/ CreateOAuth(d) \/ DeleteOAuth(d)
      PROVE  co'[c].phase # "none"
  BY <1>2, <1>a DEF Manage, CreateOAuth, DeleteOAuth, Object
<1>3. CASE Conditioned
  BY <1>3, ConditionedKeeps
<1> QED
  BY <1>1, <1>2, <1>3, ObjectSteps

LEMMA RestoreInvStep ==
  ASSUME PromiseHolds, RestoreInv, ~May("early"), [Next]_vars
  PROVE  RestoreInv'
<1>a. TypeOK /\ ObjectShape /\ WorkerShape /\ seen = co /\ Calm
  BY DEF PromiseHolds, IInv, ConflictInv
<1>b. /\ pc = "unfinalize" => backup = Nothing \/ Existing(co) # {cur}
      /\ Existing(co) = {} => backup = Nothing
  BY DEF RestoreInv
<1>1. pc' = "unfinalize" => backup' = Nothing \/ Existing(co') # {cur'}
  <2>1. CASE pc = "unfinalize" /\ pc' = "unfinalize"
    <3>1. ~Check /\ ~ReadView /\ ~Unfinalize
      BY <2>1 DEF Check, ReadView, Unfinalize, Return, RequeueCur
    <3>2. UNCHANGED cur /\ UNCHANGED backup
      BY <2>1, <3>1, BackupWritten, WorkerSteps
      DEF Manage, StartDelete
    <3>3. Existing(co) \subseteq Existing(co')
      BY <1>a, <3>1, ExistingSteps
    <3>4. cur \in Existing(co)
      BY <2>1 DEF PromiseHolds, IInv, TypeOK, PromiseInv, LastShape, Deleting, Existing
    <3> QED
      BY <1>b, <2>1, <3>2, <3>3, <3>4
  <2>2. CASE DropOriginal
    BY <2>2 DEF DropOriginal, PromiseHolds, PromiseInv, SavedShape
  <2>3. CASE pc = "unmanage" /\ ~LastOne /\ PushTo("unfinalize")
    <3>1. cur \in OAuths /\ co[cur].phase = "terminating"
      BY <2>3 DEF PromiseHolds, IInv, TypeOK, PromiseInv, LastShape, Deleting
    <3>2. Existing(co) # {cur}
      BY <1>a, <2>3, <3>1 DEF LastOne
    <3> QED
      BY <2>3, <3>2 DEF PushTo, Existing
  <2> QED
    BY <1>a, <2>1, <2>2, <2>3, Places
<1>2. ASSUME Existing(co') = {} PROVE backup' = Nothing
  <2>1. CASE Unfinalize
    <3>1. Existing(co) \subseteq {cur}
      BY <1>2, <1>a, <2>1 DEF Unfinalize, Existing, TypeOK
    <3>2. backup = Nothing
      BY <1>b, <2>1, <3>1 DEF Unfinalize
    <3> QED
      BY <2>1, <3>2 DEF Unfinalize, apiVars
  <2>2. CASE ~Unfinalize
    <3>1. Existing(co) = {}
      BY <1>2, <1>a, <2>2, ExistingSteps
    <3>2. ~ReadView
      <4> SUFFICES ASSUME ReadView PROVE FALSE
        OBVIOUS
      <4>1. cur \in OAuths /\ co[cur].fin
        BY <1>a DEF ReadView, TypeOK, WorkerShape, Managing
      <4>2. co[cur].phase # "none"
        BY <1>a, <4>1 DEF ObjectShape
      <4> QED
        BY <3>1, <4>1, <4>2 DEF Existing
    <3> QED
      BY <1>b, <3>1, <3>2, BackupWritten DEF Check
  <2> QED
    BY <2>1, <2>2
<1> QED
  BY <1>1, <1>2 DEF RestoreInv

(* With the last ClusterOAuth gone the administrator's OAuth is back on    *)
(* the cluster, for any number of ClusterOAuths created and deleted in any *)
(* order, if nothing disturbs the handlers.                                *)
THEOREM OriginalIsBack == Spec => []RestoredWhenUnmanaged
<1> DEFINE Kept == scenario = {} => RestoreInv
           Both == Calm => ConflictInv /\ PromiseInv
<1>1. Init => Kept
  BY DEF Init, RestoreInv
<1>2. IInv /\ Both /\ Kept /\ [Next]_vars => Kept'
  <2> SUFFICES ASSUME IInv, Both, Kept, [Next]_vars, scenario' = {} PROVE RestoreInv'
    OBVIOUS
  <2>1. scenario = {}
    BY ScenarioFixed
  <2> QED
    BY <2>1, UndisturbedMeans, RestoreInvStep DEF PromiseHolds
<1>3. Both /\ Kept => RestoredWhenUnmanaged
  BY UndisturbedMeans
  DEF RestoreInv, PromiseInv, SavedShape, RestoredWhenUnmanaged, Restored
<1>4. Spec => []Both
  BY PromiseInvariance
<1> HIDE DEF Kept, Both
<1> QED
  BY <1>1, <1>2, <1>3, <1>4, Invariance, PTL DEF Spec
=============================================================================
