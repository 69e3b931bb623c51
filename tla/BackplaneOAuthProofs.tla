------------------------ MODULE BackplaneOAuthProofs ------------------------
(***************************************************************************)
(* Proofs about BackplaneOAuth: for any set of ClusterOAuths and any set   *)
(* of disturbances, the inductive invariant and the safety properties that *)
(* rest on it.                                                             *)
(***************************************************************************)
EXTENDS BackplaneOAuth, TLAPS

-----------------------------------------------------------------------------
(* Type correctness.                                                       *)

LEMMA InitType == Init => TypeOK
<1> SUFFICES ASSUME Init PROVE TypeOK
  OBVIOUS
<1>1. NoObject \in Object /\ NoWork \in Work /\ {Admin} \in Content
  BY DEF NoObject, Object, NoWork, Work, Content
<1>2. co \in [OAuths -> Object] /\ seen \in [OAuths -> Object]
  BY <1>1 DEF Init
<1>3. works \in [Works -> Work]
  BY <1>1 DEF Init
<1> QED
  BY <1>1, <1>2, <1>3 DEF Init, TypeOK, NoView

(* An object stays one when its finalizer, phase or condition is set.      *)
LEMMA ObjectUpdates ==
  ASSUME NEW o \in Object, NEW b \in BOOLEAN,
         NEW ph \in {"none", "live", "terminating"}
  PROVE  /\ [o EXCEPT !.fin = b] \in Object
         /\ [o EXCEPT !.applied = b] \in Object
         /\ [o EXCEPT !.phase = ph] \in Object
BY DEF Object

LEMMA WorkUpdates ==
  ASSUME NEW k \in Work, NEW content \in Content, NEW b \in BOOLEAN,
         NEW ph \in {"none", "live", "terminating"}
  PROVE  /\ [k EXCEPT !.oauth = content] \in Work
         /\ [k EXCEPT !.applied = b] \in Work
         /\ [k EXCEPT !.phase = ph] \in Work
         /\ NoWork \in Work
         /\ [phase |-> "live", oauth |-> content, applied |-> FALSE] \in Work
BY DEF Work, NoWork, Content

(* The work-queue bookkeeping keeps the types of seen and queue.           *)
LEMMA InformedType ==
  ASSUME NEW requests \in SUBSET OAuths, co' \in [OAuths -> Object],
         seen \in [OAuths -> Object], Informed(requests)
  PROVE  seen' \in [OAuths -> Object] /\ queue' \subseteq OAuths
BY DEF Informed

LEMMA LiveContent ==
  ASSUME NEW v PROVE Live(v) \in Content
BY DEF Live, Content

LEMMA CreateOrUpdateType ==
  ASSUME TypeOK, NEW w \in Works, NEW content \in Content,
         CreateOrUpdateWork(w, content)
  PROVE  works' \in [Works -> Work]
BY WorkUpdates DEF TypeOK, CreateOrUpdateWork

LEMMA DeleteWorkType ==
  ASSUME TypeOK, NEW w \in Works, DeleteWork(w)
  PROVE  works' \in [Works -> Work]
<1>1. works[w] \in Work /\ [works[w] EXCEPT !.phase = "terminating"] \in Work /\ NoWork \in Work
  BY DEF TypeOK, Work, NoWork, Content
<1> QED
  BY <1>1 DEF TypeOK, DeleteWork

LEMMA SetAppliedType ==
  ASSUME TypeOK, NEW b \in BOOLEAN, SetApplied(b)
  PROVE  co' \in [OAuths -> Object]
<1> DEFINE applied == b /\ co[cur].phase # "none"
<1>1. applied \in BOOLEAN
  OBVIOUS
<1>2. co' = [co EXCEPT ![cur] = [co[cur] EXCEPT !.applied = applied]]
  BY DEF SetApplied
<1> HIDE DEF applied
<1>3. cur \in OAuths => [co[cur] EXCEPT !.applied = applied] \in Object
  BY <1>1, ObjectUpdates DEF TypeOK
<1> QED
  BY <1>2, <1>3 DEF TypeOK

(* Every step of the specification keeps the types.                        *)
LEMMA NextType == TypeOK /\ [Next]_vars => TypeOK'
<1> SUFFICES ASSUME TypeOK, [Next]_vars PROVE TypeOK'
  OBVIOUS
<1>a. seen \in [OAuths -> Object] /\ co \in [OAuths -> Object]
  BY DEF TypeOK
<1>b. queue \in SUBSET OAuths
  BY DEF TypeOK
<1>c. cur \in OAuths \cup {Nothing}
  BY DEF TypeOK
<1>n. Nothing \notin OAuths
  BY ConstantsAssumption
<1>1. ASSUME NEW c \in OAuths, Forget(c) PROVE TypeOK'
  BY <1>1 DEF TypeOK, Forget, apiVars
<1>2. ASSUME NEW c \in OAuths, Manage(c) PROVE TypeOK'
  <2>1. co' \in [OAuths -> Object]
    BY <1>2, <1>a, ObjectUpdates DEF Manage
  <2>2. queue \ {c} \in SUBSET OAuths /\ Informed(queue \ {c})
    BY <1>2, <1>b DEF Manage
  <2>3. seen' \in [OAuths -> Object] /\ queue' \subseteq OAuths
    BY <2>1, <2>2, <1>a, InformedType
  <2> QED
    BY <1>2, <1>n, <2>1, <2>3 DEF TypeOK, Manage, apiVars
<1>3. ASSUME NEW c \in OAuths, StartDelete(c) PROVE TypeOK'
  BY <1>3, <1>n DEF TypeOK, StartDelete, apiVars
<1>4. CASE Save
  <2> DEFINE result == IF view.result = Nothing /\ ~May("view") THEN oauth ELSE view.result
  <2>1. result \in Content \cup {Nothing}
    BY DEF TypeOK
  <2>2. view' = view \/ view' = [exists |-> TRUE, result |-> result]
    BY <1>4 DEF Save
  <2> HIDE DEF result
  <2>a. [exists |-> TRUE, result |-> result] \in [exists : BOOLEAN, result : Content \cup {Nothing}]
    BY <2>1
  <2>3. view' \in [exists : BOOLEAN, result : Content \cup {Nothing}]
    BY <2>a, <2>2 DEF TypeOK
  <2> QED
    BY <1>4, <2>3 DEF TypeOK, Save
<1>5. CASE ReadView
  BY <1>5 DEF TypeOK, ReadView
<1>6. CASE DropView
  BY <1>6 DEF TypeOK, DropView, NoView
<1>7. ASSUME NEW next \in {"report", "unfinalize"}, PushTo(next), pc # "idle"
      PROVE  TypeOK'
  <2>1. works' \in [Works -> Work]
    BY <1>7, CreateOrUpdateType, LiveContent DEF PushTo, Works
  <2> QED
    BY <1>7, <2>1 DEF TypeOK, PushTo
<1>d. ASSUME co' \in [OAuths -> Object], Return PROVE seen' \in [OAuths -> Object] /\ queue' \subseteq OAuths
  BY <1>d, <1>a, <1>b, InformedType DEF Return
<1>e. ASSUME cur # Nothing, co' \in [OAuths -> Object], RequeueCur
      PROVE  seen' \in [OAuths -> Object] /\ queue' \subseteq OAuths
  <2>1. queue \cup {cur} \in SUBSET OAuths
    BY <1>e, <1>b, <1>c
  <2> QED
    BY <1>e, <2>1, <1>a, InformedType DEF RequeueCur
<1>8. CASE PushFailure /\ pc # "idle"
  <2>1. co' \in [OAuths -> Object]
    BY <1>8, SetAppliedType DEF PushFailure
  <2>2. seen' \in [OAuths -> Object] /\ queue' \subseteq OAuths
    BY <1>8, <1>e, <2>1 DEF TypeOK, PushFailure
  <2> QED
    BY <1>8, <2>1, <2>2 DEF TypeOK, PushFailure, RequeueCur, apiVars
<1>9. CASE Push
  BY <1>7, <1>8, <1>9 DEF Push
<1>10. CASE Report
  <2>1. co' \in [OAuths -> Object]
    BY <1>10, SetAppliedType DEF Report
  <2>2. seen' \in [OAuths -> Object] /\ queue' \subseteq OAuths
    BY <1>10, <1>d, <2>1 DEF Report
  <2> QED
    BY <1>10, <2>1, <2>2 DEF TypeOK, Report, Return, apiVars
<1>11. CASE Unmanage
  <2>1. CASE LastOne /\ DeleteWork("idp-oauth")
    <3>1. works' \in [Works -> Work]
      BY <2>1, DeleteWorkType DEF Works
    <3> QED
      BY <1>11, <2>1, <3>1 DEF TypeOK, Unmanage
  <2> QED
    BY <1>7, <1>8, <1>11, <2>1 DEF Unmanage
<1>12. CASE Restore
  <2>1. works' \in [Works -> Work]
    BY <1>12, CreateOrUpdateType DEF TypeOK, Restore, Works
  <2> QED
    BY <1>12, <2>1 DEF TypeOK, Restore
<1>13. CASE Check
  BY <1>13 DEF TypeOK, Check
<1>14. CASE NotYetApplied
  <2>1. seen' \in [OAuths -> Object] /\ queue' \subseteq OAuths
    BY <1>14, <1>a, <1>e DEF TypeOK, NotYetApplied
  <2> QED
    BY <1>14, <2>1 DEF TypeOK, NotYetApplied, RequeueCur, apiVars
<1>15. CASE DropOriginal
  <2>1. works' \in [Works -> Work]
    BY <1>15, DeleteWorkType DEF DropOriginal, Works
  <2> QED
    BY <1>15, <2>1 DEF TypeOK, DropOriginal
<1>16. CASE Unfinalize
  <2>1. NoObject \in Object
    BY DEF NoObject, Object
  <2>2. co' \in [OAuths -> Object]
    BY <1>16, <1>a, <2>1 DEF Unfinalize
  <2>3. seen' \in [OAuths -> Object] /\ queue' \subseteq OAuths
    BY <1>16, <2>2, <1>d, <1>e DEF TypeOK, Unfinalize
  <2> QED
    BY <1>16, <2>2, <2>3 DEF TypeOK, Unfinalize, Return, RequeueCur, apiVars
<1>17. CASE Observe
  BY <1>17 DEF TypeOK, Observe, apiVars
<1>18. CASE Abort
  <2>1. co' \in [OAuths -> Object]
    <3>1. PICK b \in {FALSE, co[cur].applied} : SetApplied(b)
      BY <1>18 DEF Abort
    <3>2. b \in BOOLEAN
      BY <1>18, <1>a, <1>c DEF Abort, TypeOK, Object
    <3> QED
      BY <3>1, <3>2, SetAppliedType
  <2>2. seen' \in [OAuths -> Object] /\ queue' \subseteq OAuths
    BY <1>18, <1>e, <2>1 DEF TypeOK, Abort
  <2> QED
    BY <1>18, <2>1, <2>2 DEF TypeOK, Abort, RequeueCur, apiVars
<1>19. CASE Restart
  BY <1>19 DEF TypeOK, Restart, Existing, apiVars
<1>20. ASSUME NEW c \in OAuths, CreateSecret(c) \/ DeleteSecret(c) PROVE TypeOK'
  BY <1>20 DEF TypeOK, CreateSecret, DeleteSecret
<1>21. ASSUME NEW c \in OAuths, CreateOAuth(c) \/ DeleteOAuth(c) PROVE TypeOK'
  <2>1. NoObject \in Object
    BY DEF NoObject, Object
  <2>2. co' \in [OAuths -> Object]
    <3>1. CASE CreateOAuth(c)
      BY <3>1, <1>a, ObjectUpdates DEF CreateOAuth
    <3>2. CASE DeleteOAuth(c)
      BY <3>2, <1>a, <2>1, ObjectUpdates DEF DeleteOAuth
    <3> QED
      BY <1>21, <3>1, <3>2
  <2>3. Informed(queue)
    BY <1>21 DEF CreateOAuth, DeleteOAuth
  <2>4. seen' \in [OAuths -> Object] /\ queue' \subseteq OAuths
    BY <1>a, <1>b, <2>2, <2>3, InformedType
  <2> QED
    BY <1>21, <2>2, <2>4 DEF TypeOK, CreateOAuth, DeleteOAuth, apiVars
<1>22. ASSUME NEW w \in Works, AgentApply(w) \/ AgentRelease(w) PROVE TypeOK'
  <2>1. works[w] \in Work /\ works[w].oauth \in Content
    BY DEF TypeOK, Work
  <2>2. works' \in [Works -> Work]
    BY <1>22, <2>1, WorkUpdates DEF TypeOK, AgentApply, AgentRelease
  <2> QED
    BY <1>22, <2>1, <2>2 DEF TypeOK, AgentApply, AgentRelease
<1>23. CASE AgentView
  <2>1. view' \in [exists : BOOLEAN, result : Content \cup {Nothing}]
    BY <1>23 DEF TypeOK, AgentView
  <2> QED
    BY <1>23, <2>1 DEF TypeOK, AgentView
<1>24. CASE UNCHANGED vars
  BY <1>24 DEF TypeOK, vars
<1> QED
  BY <1>1, <1>2, <1>3, <1>4, <1>5, <1>6, <1>9, <1>10, <1>11, <1>12, <1>13, <1>14, <1>15,
     <1>16, <1>17, <1>18, <1>19, <1>20, <1>21, <1>22, <1>23, <1>24
  DEF Next, Worker, Take, Continue, Placement, Agent

(* Every variable keeps its type, whatever the environment does.           *)
THEOREM TypeCorrect == Spec => []TypeOK
BY InitType, NextType, PTL DEF Spec

-----------------------------------------------------------------------------
(* What a step can do to the objects, to the informer and to the worker.   *)

(* Informed lets the informer stay behind or follow the write.             *)
LEMMA SeenSteps == [Next]_vars => seen' = seen \/ seen' = co'
BY DEF Next, vars, apiVars, Worker, Take, Continue, Placement, Agent, Forget, Manage,
       StartDelete, Save, ReadView, DropView, Push, PushTo, PushFailure, Report, Unmanage,
       Restore, Check, NotYetApplied, DropOriginal, Unfinalize, Observe, Abort, Restart,
       CreateSecret, CreateOAuth, DeleteSecret, DeleteOAuth, AgentApply, AgentRelease,
       AgentView, Return, RequeueCur, Informed

(* A condition is only set by the worker, and only Report sets it to true. *)
Conditioned ==
  /\ pc # "idle"
  /\ UNCHANGED works
  /\ \E b \in BOOLEAN : /\ SetApplied(b)
                        /\ b => pc = "report" \/ co[cur].applied

LEMMA ObjectSteps ==
  ASSUME TypeOK, [Next]_vars
  PROVE  \/ UNCHANGED co
         \/ \E c \in OAuths : Manage(c) \/ CreateOAuth(c) \/ DeleteOAuth(c)
         \/ Conditioned
         \/ Unfinalize
<1>1. CASE PushFailure /\ pc # "idle"
  BY <1>1 DEF PushFailure, Conditioned, apiVars
<1>2. CASE Report
  BY <1>2 DEF Report, Conditioned, apiVars
<1>3. CASE Abort
  <2>1. cur \in OAuths
    BY <1>3 DEF Abort, TypeOK
  <2>2. co[cur].applied \in BOOLEAN
    BY <2>1 DEF TypeOK, Object
  <2> QED
    BY <1>3, <2>2 DEF Abort, Conditioned, apiVars
<1> QED
  BY <1>1, <1>2, <1>3
  DEF Next, vars, apiVars, Worker, Take, Continue, Placement, Agent, Forget,
      StartDelete, Save, ReadView, DropView, Push, PushTo, PushFailure, Unmanage,
      Restore, Check, NotYetApplied, DropOriginal, Observe, Restart,
      CreateSecret, DeleteSecret, AgentApply, AgentRelease, AgentView

(* The worker changes its place only by a call of its own, or by going     *)
(* back to idle.                                                           *)
LEMMA WorkerSteps ==
  ASSUME [Next]_vars
  PROVE  \/ UNCHANGED <<pc, cur>>
         \/ pc' = "idle" /\ cur' = Nothing
         \/ \E c \in OAuths : Manage(c) \/ StartDelete(c)
         \/ Continue /\ UNCHANGED <<co, seen, cur>>
              /\ ((Managing /\ Managing') \/ (Deleting /\ Deleting'))
<1>1. CASE UNCHANGED vars \/ Placement \/ Agent \/ Observe \/ \E c \in OAuths : Forget(c)
  BY <1>1 DEF vars, Placement, Agent, CreateSecret, CreateOAuth, DeleteSecret, DeleteOAuth,
              AgentApply, AgentRelease, AgentView, Observe, Forget
<1>2. CASE Abort \/ Restart \/ Report \/ NotYetApplied \/ Unfinalize \/ PushFailure
  BY <1>2 DEF Abort, Restart, Report, NotYetApplied, Unfinalize, PushFailure, Return, RequeueCur
<1>3. CASE Save \/ ReadView \/ DropView \/ (pc = "push" /\ PushTo("report"))
  BY <1>3 DEF Save, ReadView, DropView, Push, PushTo, Managing, Continue
<1>4. CASE Unmanage /\ (LastOne \/ PushTo("unfinalize"))
  BY <1>4 DEF Unmanage, PushTo, Deleting, Continue
<1>5. CASE Restore \/ Check \/ DropOriginal
  BY <1>5 DEF Restore, Check, DropOriginal, Deleting, Continue
<1> QED
  BY <1>1, <1>2, <1>3, <1>4, <1>5 DEF Next, Worker, Take, Continue, Push, Unmanage

-----------------------------------------------------------------------------
(* The conjuncts of the inductive invariant, one after the other.          *)

LEMMA ObjectShapeStep ==
  ASSUME TypeOK, ObjectShape, WorkerShape, [Next]_vars
  PROVE  ObjectShape'
<1> DEFINE Shape(o) == /\ o.phase = "terminating" => o.fin
                       /\ o.phase = "none" => ~o.fin
                       /\ o.applied => o.fin
<1> SUFFICES ASSUME NEW c \in OAuths PROVE Shape(co'[c])
  BY DEF ObjectShape
<1>a. co[c] \in Object /\ Shape(co[c]) /\ c \in DOMAIN co
  BY DEF ObjectShape, TypeOK
<1>1. CASE UNCHANGED co
  BY <1>1, <1>a
<1>2. ASSUME NEW d \in OAuths, Manage(d) \/ CreateOAuth(d) \/ DeleteOAuth(d)
      PROVE  Shape(co'[c])
  <2>1. CASE Manage(d)
    BY <2>1, <1>a DEF Manage, Object
  <2>2. CASE CreateOAuth(d)
    BY <2>2, <1>a DEF CreateOAuth, Object
  <2>3. CASE DeleteOAuth(d)
    BY <2>3, <1>a DEF DeleteOAuth, Object, NoObject
  <2> QED
    BY <1>2, <2>1, <2>2, <2>3
<1>3. CASE Conditioned
  <2>1. cur \in OAuths
    BY <1>3 DEF Conditioned, TypeOK
  <2>2. PICK b \in BOOLEAN : SetApplied(b) /\ (b => pc = "report" \/ co[cur].applied)
    BY <1>3 DEF Conditioned
  <2>3. b => co[cur].fin
    BY <2>1, <2>2 DEF ObjectShape, WorkerShape, Managing
  <2>4. CASE c = cur
    <3>1. co'[c].phase = co[c].phase /\ co'[c].fin = co[c].fin
      BY <2>2, <2>4, <1>a DEF SetApplied, Object
    <3>2. co'[c].applied => b
      BY <2>2, <2>4, <1>a DEF SetApplied, Object
    <3> QED
      BY <2>3, <2>4, <3>1, <3>2, <1>a
  <2>5. CASE c # cur
    BY <2>2, <2>5, <1>a DEF SetApplied
  <2> QED
    BY <2>4, <2>5
<1>4. CASE Unfinalize
  <2>1. co'[c] = co[c] \/ co'[c] = NoObject
    BY <1>4, <1>a DEF Unfinalize
  <2> QED
    BY <2>1, <1>a DEF NoObject
<1> QED
  BY <1>1, <1>2, <1>3, <1>4, ObjectSteps

(* Setting a condition leaves the phase and the finalizer alone.           *)
LEMMA ConditionedKeeps ==
  ASSUME TypeOK, Conditioned, NEW c \in OAuths
  PROVE  co'[c].phase = co[c].phase /\ co'[c].fin = co[c].fin
BY DEF TypeOK, Conditioned, SetApplied, Object

LEMMA FinalizedIsSeenStep ==
  ASSUME TypeOK, ObjectShape, FinalizedIsSeen, [Next]_vars
  PROVE  FinalizedIsSeen'
<1> SUFFICES ASSUME NEW c \in OAuths, co'[c].phase = "live", co'[c].fin, seen' = seen
             PROVE  seen[c].phase = "live"
  BY SeenSteps DEF FinalizedIsSeen
<1>a. co[c] \in Object /\ c \in DOMAIN co
  BY DEF TypeOK
<1>1. CASE UNCHANGED co
  BY <1>1 DEF FinalizedIsSeen
<1>2. ASSUME NEW d \in OAuths, Manage(d) \/ CreateOAuth(d) \/ DeleteOAuth(d)
      PROVE  seen[c].phase = "live"
  <2>1. CASE Manage(d)
    BY <2>1, <1>a DEF FinalizedIsSeen, Manage
  <2>2. CASE CreateOAuth(d)
    BY <2>2, <1>a DEF FinalizedIsSeen, CreateOAuth, Object, ObjectShape
  <2>3. CASE DeleteOAuth(d)
    BY <2>3, <1>a DEF FinalizedIsSeen, DeleteOAuth, Object, NoObject
  <2> QED
    BY <1>2, <2>1, <2>2, <2>3
<1>3. CASE Conditioned
  BY <1>3, ConditionedKeeps DEF FinalizedIsSeen
<1>4. CASE Unfinalize
  BY <1>4 DEF FinalizedIsSeen, Unfinalize, TypeOK, NoObject
<1> QED
  BY <1>1, <1>2, <1>3, <1>4, ObjectSteps

(* While the worker is busy with an object, the others cannot take its     *)
(* finalizer away, nor bring it to be terminating without the finalizer.   *)
LEMMA BusyKeeps ==
  ASSUME TypeOK, ObjectShape, [Next]_vars, NEW c \in OAuths, pc # "idle", pc' # "idle"
  PROVE  /\ co[c].fin => co'[c].fin
         /\ co'[c].phase = "terminating" => co[c].phase = "terminating" \/ co[c].fin
         /\ co'[c].phase = "live" /\ co'[c].fin => co[c].phase = "live" /\ co[c].fin
<1>a. co[c] \in Object /\ c \in DOMAIN co
  BY DEF TypeOK
<1>1. CASE UNCHANGED co
  BY <1>1
<1>2. ASSUME NEW d \in OAuths, CreateOAuth(d)
      PROVE  /\ co[c].fin => co'[c].fin
             /\ co'[c].phase = "terminating" => co[c].phase = "terminating"
             /\ co'[c].phase = "live" /\ co'[c].fin => co[c].phase = "live" /\ co[c].fin
  BY <1>2, <1>a DEF CreateOAuth, Object, ObjectShape
<1>3. ASSUME NEW d \in OAuths, DeleteOAuth(d)
      PROVE  /\ co[c].fin => co'[c].fin
             /\ co'[c].phase = "terminating" => co[c].phase = "terminating" \/ co[c].fin
             /\ co'[c].phase = "live" /\ co'[c].fin => co[c].phase = "live" /\ co[c].fin
  BY <1>3, <1>a DEF DeleteOAuth, Object, NoObject
<1>4. CASE Conditioned
  BY <1>4, ConditionedKeeps
<1>5. ASSUME NEW d \in OAuths PROVE ~Manage(d)
  BY DEF Manage
<1>6. ~Unfinalize
  BY DEF Unfinalize, Return, RequeueCur
<1> QED
  BY <1>1, <1>2, <1>3, <1>4, <1>5, <1>6, ObjectSteps

LEMMA WorkerShapeStep ==
  ASSUME TypeOK, ObjectShape, FinalizedIsSeen, WorkerShape, [Next]_vars
  PROVE  WorkerShape'
<1>1. CASE pc' = "idle"
  BY <1>1 DEF WorkerShape, Managing, Deleting
<1>2. CASE UNCHANGED <<pc, cur>> /\ pc' # "idle"
  <2>1. cur \in OAuths
    BY <1>2 DEF TypeOK
  <2>2. Managing => co'[cur].fin
    BY <1>2, <2>1, BusyKeeps DEF WorkerShape
  <2>3. Deleting => /\ co'[cur].phase = "terminating" => seen'[cur].phase = "terminating"
                    /\ co'[cur].phase = "live" => ~co'[cur].fin
    <3> SUFFICES ASSUME Deleting
                 PROVE  /\ co'[cur].phase = "terminating" => seen'[cur].phase = "terminating"
                        /\ co'[cur].phase = "live" => ~co'[cur].fin
      OBVIOUS
    <3>1. co[cur].phase \in {"none", "live", "terminating"}
      BY <2>1 DEF TypeOK, Object
    <3>2. co'[cur].phase = "terminating" => co[cur].phase = "terminating"
      BY <1>2, <2>1, <3>1, BusyKeeps DEF WorkerShape, ObjectShape
    <3>3. co'[cur].phase = "terminating" => seen'[cur].phase = "terminating"
      BY <3>2, SeenSteps DEF WorkerShape
    <3>4. co'[cur].phase = "live" => ~co'[cur].fin
      BY <1>2, <2>1, BusyKeeps DEF WorkerShape
    <3> QED
      BY <3>3, <3>4
  <2> QED
    BY <1>2, <2>2, <2>3 DEF WorkerShape, Managing, Deleting
<1>3. ASSUME NEW c \in OAuths, Manage(c) PROVE WorkerShape'
  <2>1. co'[c].fin
    BY <1>3 DEF Manage, TypeOK, Object
  <2> QED
    BY <1>3, <2>1 DEF WorkerShape, Manage, Managing, Deleting
<1>4. ASSUME NEW c \in OAuths, StartDelete(c) PROVE WorkerShape'
  BY <1>4 DEF WorkerShape, FinalizedIsSeen, StartDelete, Managing, Deleting
<1>5. CASE UNCHANGED <<co, seen, cur>> /\ ((Managing /\ Managing') \/ (Deleting /\ Deleting'))
  BY <1>5 DEF WorkerShape, Managing, Deleting
<1> QED
  BY <1>1, <1>2, <1>3, <1>4, <1>5, WorkerSteps

(* The work idp-oauth is only written by Push and by Unmanage.             *)
LEMMA WorkSteps ==
  ASSUME TypeOK, [Next]_vars, NEW c \in OAuths, Pushed(c)'
  PROVE  \/ Pushed(c)
         \/ seen[c].phase = "live" /\ \/ pc = "push" /\ pc' = "report"
                                      \/ pc = "unmanage" /\ pc' = "unfinalize"
<1>a. "idp-oauth" \in Works /\ "idp-oauth-original" \in Works
  BY DEF Works
<1>b. works \in [Works -> Work] /\ works["idp-oauth"] \in Work
  BY <1>a DEF TypeOK
<1>1. CASE UNCHANGED works
  BY <1>1 DEF Pushed
<1>2. ASSUME NEW next, PushTo(next) PROVE seen[c].phase = "live"
  BY <1>2, <1>b, <1>a DEF PushTo, CreateOrUpdateWork, Live, Pushed, Work
<1>3. CASE DeleteWork("idp-oauth") /\ LastOne
  BY <1>3, <1>a, <1>b DEF DeleteWork, Pushed, NoWork, Work
<1>4. CASE Restore
  BY <1>4, <1>a, <1>b DEF Restore, CreateOrUpdateWork, Pushed
<1>5. CASE DropOriginal
  BY <1>5, <1>a, <1>b DEF DropOriginal, DeleteWork, Pushed
<1>6. ASSUME NEW w \in Works, AgentApply(w) PROVE Pushed(c)
  BY <1>6, <1>a, <1>b DEF AgentApply, Pushed, Work
<1>7. ASSUME NEW w \in Works, AgentRelease(w) PROVE Pushed(c)
  BY <1>7, <1>a, <1>b DEF AgentRelease, Pushed, NoWork
<1>8. CASE pc = "push" /\ PushTo("report")
  BY <1>2, <1>8 DEF PushTo
<1>9. CASE pc = "unmanage" /\ PushTo("unfinalize")
  BY <1>2, <1>9 DEF PushTo
<1>10. UNCHANGED works \/ (LastOne /\ DeleteWork("idp-oauth")) \/ Restore \/ DropOriginal
       \/ (pc = "push" /\ PushTo("report")) \/ (pc = "unmanage" /\ PushTo("unfinalize"))
       \/ \E w \in Works : AgentApply(w) \/ AgentRelease(w)
  BY DEF Next, vars, apiVars, Worker, Take, Continue, Placement, Agent, Forget, Manage,
         StartDelete, Save, ReadView, DropView, Push, PushFailure, Report, Unmanage,
         Check, NotYetApplied, Unfinalize, Observe, Abort, Restart, CreateSecret,
         CreateOAuth, DeleteSecret, DeleteOAuth, AgentView
<1> QED
  BY <1>1, <1>3, <1>4, <1>5, <1>6, <1>7, <1>8, <1>9, <1>10

Unmanaged == {"restore", "check", "dropOriginal", "unfinalize"}

LEMMA CurIsUnpushedStep ==
  ASSUME TypeOK, ObjectShape, WorkerShape, CurIsUnpushed, [Next]_vars
  PROVE  CurIsUnpushed'
<1> SUFFICES ASSUME pc' \in Unmanaged, co'[cur'].phase = "terminating",
                    works'["idp-oauth"].phase = "live", cur' \in works'["idp-oauth"].oauth
             PROVE  FALSE
  BY DEF CurIsUnpushed, Pushed, Unmanaged
<1>1. cur' = cur /\ Deleting /\ (UNCHANGED pc \/ Continue)
  BY WorkerSteps DEF Unmanaged, Managing, Deleting, Manage, StartDelete
<1>2. cur \in OAuths /\ pc # "idle"
  BY <1>1 DEF TypeOK, Deleting
<1>3. co[cur].phase = "terminating"
  <2>1. co[cur].phase \in {"none", "live", "terminating"}
    BY <1>2 DEF TypeOK, Object
  <2>2. pc' # "idle"
    BY DEF Unmanaged
  <2>3. co[cur].phase = "terminating" \/ co[cur].fin
    BY <1>1, <1>2, <2>2, BusyKeeps
  <2> QED
    BY <1>1, <1>2, <2>1, <2>3 DEF WorkerShape, ObjectShape
<1>4. seen[cur].phase = "terminating"
  BY <1>1, <1>3 DEF WorkerShape
<1>c. PICK c \in OAuths : c = cur
  BY <1>2
<1>5. Pushed(c)'
  BY <1>1, <1>c DEF Pushed
<1>6. Pushed(c)
  BY <1>4, <1>c, <1>5, WorkSteps
<1>7. CASE pc \in Unmanaged
  BY <1>3, <1>6, <1>7, <1>c DEF CurIsUnpushed, Unmanaged
<1>8. CASE pc = "unmanage"
  <2>1. DeleteWork("idp-oauth") \/ PushTo("unfinalize")
    BY <1>1, <1>8 DEF Unmanaged, Continue, Save, ReadView, DropView, Push, PushFailure, Report,
         Unmanage, Restore, Check, NotYetApplied, DropOriginal, Unfinalize, RequeueCur
  <2>2. "idp-oauth" \in Works /\ works \in [Works -> Work]
    BY DEF Works, TypeOK
  <2>3. CASE DeleteWork("idp-oauth")
    BY <1>5, <2>2, <2>3 DEF DeleteWork, Pushed, NoWork, Work
  <2>4. CASE PushTo("unfinalize")
    BY <1>4, <1>5, <1>c, <2>2, <2>4 DEF PushTo, CreateOrUpdateWork, Live, Pushed, Work
  <2> QED
    BY <2>1, <2>3, <2>4
<1> QED
  BY <1>1, <1>7, <1>8 DEF Deleting, Unmanaged

(* The saved OAuth and the work that restores it, as Check will find them. *)
LEMMA BackupShapeStep ==
  ASSUME TypeOK, BackupShape, [Next]_vars
  PROVE  BackupShape'
<1>a. "idp-oauth-original" \in Works /\ works \in [Works -> Work]
  BY DEF Works, TypeOK
<1>1. pc' = "view" => backup' = Nothing
  BY DEF BackupShape, Next, vars, apiVars, Worker, Take, Continue, Placement, Agent, Forget,
         Manage, StartDelete, Save, ReadView, DropView, Push, PushTo, PushFailure, Report,
         Unmanage, Restore, Check, NotYetApplied, DropOriginal, Unfinalize, Observe, Abort,
         Restart, CreateSecret, CreateOAuth, DeleteSecret, DeleteOAuth, AgentApply,
         AgentRelease, AgentView, Return, RequeueCur
<1> DEFINE InTheManifest == \/ works["idp-oauth-original"].phase = "none"
                       \/ works["idp-oauth-original"].oauth = backup
<1>2. pc' = "check" => InTheManifest'
  <2> SUFFICES ASSUME pc' = "check" PROVE InTheManifest'
    OBVIOUS
  <2>1. CASE Restore
    BY <1>a, <2>1 DEF Restore, CreateOrUpdateWork, Work
  <2>2. CASE pc = "check" /\ UNCHANGED <<works, backup>>
    BY <2>2 DEF BackupShape
  <2>3. ASSUME NEW w \in Works, AgentApply(w) PROVE InTheManifest'
    BY <1>a, <2>3 DEF BackupShape, AgentApply, Work
  <2>4. ASSUME NEW w \in Works, AgentRelease(w) PROVE InTheManifest'
    BY <1>a, <2>4 DEF BackupShape, AgentRelease, NoWork
  <2> QED
    BY <2>1, <2>2, <2>3, <2>4
    DEF Next, vars, apiVars, Worker, Take, Continue, Placement, Agent, Forget,
         Manage, StartDelete, Save, ReadView, DropView, Push, PushTo, PushFailure, Report,
         Unmanage, Check, NotYetApplied, DropOriginal, Unfinalize, Observe, Abort,
         Restart, CreateSecret, CreateOAuth, DeleteSecret, DeleteOAuth,
         AgentView, Return, RequeueCur
<1> QED
  BY <1>1, <1>2 DEF BackupShape

-----------------------------------------------------------------------------
(* The invariant and the properties it gives, for any disturbances.        *)

LEMMA InitInvariant == Init => IInv
<1> SUFFICES ASSUME Init PROVE IInv
  OBVIOUS
<1>1. ObjectShape /\ FinalizedIsSeen
  BY DEF Init, NoObject, ObjectShape, FinalizedIsSeen
<1>2. WorkerShape /\ CurIsUnpushed /\ BackupShape
  BY DEF Init, WorkerShape, Managing, Deleting, CurIsUnpushed, BackupShape
<1> QED
  BY <1>1, <1>2, InitType DEF IInv

LEMMA NextInvariant == IInv /\ [Next]_vars => IInv'
BY NextType, ObjectShapeStep, FinalizedIsSeenStep, WorkerShapeStep, CurIsUnpushedStep,
   BackupShapeStep DEF IInv

(* The inductive invariant holds for any set of ClusterOAuths, whatever    *)
(* the environment does: views, informers and agents may be late, calls    *)
(* may fail, and ClusterOAuths may come and go in any order.               *)
THEOREM Invariance == Spec => []IInv
BY InitInvariant, NextInvariant, PTL DEF Spec

(* The finalizer protects the cluster: no ClusterOAuth loses its finalizer *)
(* while its provider is in the work pushed to the cluster.                *)
THEOREM FinalizerProtects == Spec => UnmanagedBeforeRemoved
<1>1. IInv /\ [Next]_vars =>
        [\A c \in OAuths : co[c].fin /\ ~co'[c].fin => ~Pushed(c)']_vars
  <2> SUFFICES ASSUME IInv, [Next]_vars, NEW c \in OAuths, co[c].fin, ~co'[c].fin
               PROVE  ~Pushed(c)'
    OBVIOUS
  <2>a. TypeOK /\ ObjectShape
    BY DEF IInv
  <2>b. co[c] \in Object /\ c \in DOMAIN co
    BY <2>a DEF TypeOK
  <2>1. CASE Unfinalize
    <3>1. c = cur /\ co[cur].phase = "terminating" /\ pc = "unfinalize"
      BY <2>1, <2>b DEF Unfinalize
    <3>2. ~Pushed(c)
      BY <3>1 DEF IInv, CurIsUnpushed
    <3> QED
      BY <2>1, <3>2 DEF Unfinalize, Pushed, apiVars
  <2>2. ASSUME NEW d \in OAuths PROVE ~(Manage(d) \/ CreateOAuth(d) \/ DeleteOAuth(d))
    BY <2>b DEF Manage, CreateOAuth, DeleteOAuth, Object
  <2>3. ~Conditioned
    BY <2>a, ConditionedKeeps
  <2> QED
    BY <2>a, <2>1, <2>2, <2>3, ObjectSteps
<1> QED
  BY <1>1, Invariance, PTL DEF Spec, UnmanagedBeforeRemoved

(* The saved OAuth is dropped only when the work that restores it exists   *)
(* with that very content.                                                 *)
THEOREM BackupProtected == Spec => BackupOutlivesRestore
<1>1. IInv /\ [Next]_vars =>
        [backup # Nothing /\ backup' # backup =>
           /\ backup' = Nothing
           /\ Applied("idp-oauth-original")
           /\ works["idp-oauth-original"].oauth = backup]_vars
  <2> SUFFICES ASSUME IInv, [Next]_vars, backup # Nothing, backup' # backup
               PROVE  /\ backup' = Nothing
                      /\ Applied("idp-oauth-original")
                      /\ works["idp-oauth-original"].oauth = backup
    OBVIOUS
  <2>1. Check \/ ReadView
    BY DEF Next, vars, apiVars, Worker, Take, Continue, Placement, Agent, Forget,
         Manage, StartDelete, Save, DropView, Push, PushTo, PushFailure, Report,
         Unmanage, Restore, NotYetApplied, DropOriginal, Unfinalize, Observe, Abort,
         Restart, CreateSecret, CreateOAuth, DeleteSecret, DeleteOAuth, AgentApply,
         AgentRelease, AgentView, Return, RequeueCur
  <2>2. ~ReadView
    BY DEF ReadView, IInv, BackupShape
  <2> QED
    BY <2>1, <2>2 DEF Check, Applied, IInv, BackupShape
<1> QED
  BY <1>1, Invariance, PTL DEF Spec, BackupOutlivesRestore

-----------------------------------------------------------------------------
(* What the status promises, when a deleted work is gone at once.          *)

(* A work with the providers the informer knows has every object that was  *)
(* given the finalizer.                                                    *)
LEMMA PushToPushes ==
  ASSUME TypeOK, FinalizedIsSeen, PushedShape, NEW next, PushTo(next),
         NEW c \in OAuths, co[c].phase = "live", co[c].fin
  PROVE  Pushed(c)'
<1>1. "idp-oauth" \in Works /\ works["idp-oauth"] \in Work /\ works \in [Works -> Work]
  BY DEF TypeOK, Works
<1>2. c \in Live(seen)
  BY DEF FinalizedIsSeen, Live
<1>3. works["idp-oauth"].phase \in {"none", "live"}
  BY <1>1 DEF PushedShape, Work
<1> QED
  BY <1>1, <1>2, <1>3 DEF PushTo, CreateOrUpdateWork, Pushed, Work

(* The work stays, with the providers of the objects that live on.         *)
LEMMA PushedStays ==
  ASSUME TypeOK, FinalizedIsSeen, PushedShape, ~May("release"), [Next]_vars,
         NEW c \in OAuths, co[c].phase = "live", co[c].fin, Pushed(c)
  PROVE  Pushed(c)'
<1>a. "idp-oauth" \in Works /\ "idp-oauth-original" \in Works
  BY DEF Works
<1>b. works \in [Works -> Work] /\ works["idp-oauth"] \in Work
  BY <1>a DEF TypeOK
<1>1. CASE UNCHANGED works
  BY <1>1 DEF Pushed
<1>2. ASSUME NEW next, PushTo(next) PROVE Pushed(c)'
  BY <1>2, PushToPushes
<1>3. ~LastOne
  <2>1. seen[c].phase = "live"
    BY DEF FinalizedIsSeen
  <2> QED
    BY <2>1 DEF LastOne, Existing
<1>4. CASE Restore
  BY <1>4, <1>a, <1>b DEF Restore, CreateOrUpdateWork, Pushed
<1>5. CASE DropOriginal
  BY <1>5, <1>a, <1>b DEF DropOriginal, DeleteWork, Pushed
<1>6. ASSUME NEW w \in Works, AgentApply(w) PROVE Pushed(c)'
  BY <1>6, <1>a, <1>b DEF AgentApply, Pushed, Work
<1>7. ASSUME NEW w \in Works, AgentRelease(w) PROVE Pushed(c)'
  BY <1>7, <1>a, <1>b DEF AgentRelease, Pushed, NoWork
<1> QED
  BY <1>1, <1>2, <1>3, <1>4, <1>5, <1>6, <1>7
  DEF Next, vars, apiVars, Worker, Take, Continue, Placement, Agent, Forget, Manage,
      StartDelete, Save, ReadView, DropView, Push, PushFailure, Report, Unmanage,
      Check, NotYetApplied, Unfinalize, Observe, Abort, Restart, CreateSecret,
      CreateOAuth, DeleteSecret, DeleteOAuth, AgentView

LEMMA NoTerminatingWork ==
  ASSUME TypeOK, PushedShape, ~May("release"), [Next]_vars
  PROVE  works'["idp-oauth"].phase # "terminating"
<1>a. "idp-oauth" \in Works /\ "idp-oauth-original" \in Works
  BY DEF Works
<1>b. works \in [Works -> Work] /\ works["idp-oauth"] \in Work
  BY <1>a DEF TypeOK
<1>c. works["idp-oauth"].phase # "terminating"
  BY DEF PushedShape
<1>1. CASE UNCHANGED works
  BY <1>1, <1>c
<1>2. ASSUME NEW w \in Works, NEW content, CreateOrUpdateWork(w, content)
      PROVE  works'["idp-oauth"].phase # "terminating"
  BY <1>2, <1>a, <1>b, <1>c DEF CreateOrUpdateWork, Work
<1>3. ASSUME NEW w \in Works, DeleteWork(w)
      PROVE  works'["idp-oauth"].phase # "terminating"
  BY <1>3, <1>a, <1>b, <1>c DEF DeleteWork, NoWork, Work
<1>4. ASSUME NEW w \in Works, AgentApply(w) \/ AgentRelease(w)
      PROVE  works'["idp-oauth"].phase # "terminating"
  BY <1>4, <1>a, <1>b, <1>c DEF AgentApply, AgentRelease, NoWork, Work
<1> QED
  BY <1>1, <1>2, <1>3, <1>4, <1>a
  DEF Next, vars, apiVars, Worker, Take, Continue, Placement, Agent, Forget, Manage,
      StartDelete, Save, ReadView, DropView, Push, PushTo, PushFailure, Report, Unmanage,
      Restore, Check, NotYetApplied, DropOriginal, Unfinalize, Observe, Abort, Restart,
      CreateSecret, CreateOAuth, DeleteSecret, DeleteOAuth, AgentView

(* A ClusterOAuth becomes live and Applied only by being reported.         *)
LEMMA AppliedSteps ==
  ASSUME TypeOK, ObjectShape, WorkerShape, [Next]_vars, NEW c \in OAuths,
         co'[c].phase = "live", co'[c].applied
  PROVE  /\ co[c].phase = "live" /\ co[c].fin
         /\ co[c].applied \/ (pc = "report" /\ cur = c /\ UNCHANGED works)
<1>a. co[c] \in Object /\ c \in DOMAIN co
  BY DEF TypeOK
<1>1. CASE UNCHANGED co
  BY <1>1 DEF ObjectShape
<1>2. ASSUME NEW d \in OAuths, Manage(d) \/ CreateOAuth(d) \/ DeleteOAuth(d)
      PROVE  co[c].phase = "live" /\ co[c].fin /\ co[c].applied
  <2>1. CASE Manage(d)
    BY <2>1, <1>a DEF Manage, ObjectShape, Object
  <2>2. CASE CreateOAuth(d)
    BY <2>2, <1>a DEF CreateOAuth, ObjectShape, Object
  <2>3. CASE DeleteOAuth(d)
    BY <2>3, <1>a DEF DeleteOAuth, ObjectShape, Object, NoObject
  <2> QED
    BY <1>2, <2>1, <2>2, <2>3
<1>3. CASE Conditioned
  <2>1. PICK b \in BOOLEAN : SetApplied(b) /\ (b => pc = "report" \/ co[cur].applied)
    BY <1>3 DEF Conditioned
  <2>2. co[c].phase = "live"
    BY <1>3, ConditionedKeeps
  <2>3. CASE c # cur
    BY <2>1, <2>2, <2>3, <1>a DEF SetApplied, ObjectShape
  <2>4. CASE c = cur
    <3>1. b
      BY <2>1, <2>4, <1>a DEF SetApplied, Object
    <3>2. co[c].applied \/ pc = "report"
      BY <2>1, <2>4, <3>1
    <3>3. co[c].fin
      BY <2>4, <3>2 DEF ObjectShape, WorkerShape, Managing
    <3> QED
      BY <1>3, <2>2, <2>4, <3>2, <3>3 DEF Conditioned
  <2> QED
    BY <2>3, <2>4
<1>4. CASE Unfinalize
  <2>1. co'[c] = co[c]
    BY <1>4, <1>a DEF Unfinalize, NoObject
  <2> QED
    BY <2>1 DEF ObjectShape
<1> QED
  BY <1>1, <1>2, <1>3, <1>4, ObjectSteps

LEMMA PushedShapeStep ==
  ASSUME IInv, PushedShape, ~May("release"), [Next]_vars
  PROVE  PushedShape'
<1>a. TypeOK /\ ObjectShape /\ FinalizedIsSeen /\ WorkerShape
  BY DEF IInv
<1>1. works'["idp-oauth"].phase # "terminating"
  BY <1>a, NoTerminatingWork
<1>2. ASSUME pc' = "report", co'[cur'].phase = "live" PROVE Pushed(cur)' /\ cur' \in OAuths
  <2>1. cur' = cur /\ Managing /\ (pc = "report" \/ (pc = "push" /\ PushTo("report")))
    BY <1>2, WorkerSteps
    DEF Managing, Deleting, Manage, StartDelete, Continue, Save, ReadView, DropView, Push,
        PushFailure, Report, Unmanage, PushTo, Restore, Check, NotYetApplied, DropOriginal,
        Unfinalize, Return, RequeueCur
  <2>2. PICK c \in OAuths : c = cur
    BY <2>1, <1>a DEF TypeOK, Managing
  <2>3. co[c].fin
    BY <1>a, <2>1, <2>2 DEF WorkerShape
  <2>4. co[c].phase = "live"
    BY <1>2, <1>a, <2>1, <2>2, <2>3, BusyKeeps DEF Managing
  <2>5. Pushed(c)'
    <3>1. CASE pc = "report"
      BY <1>a, <2>2, <2>3, <2>4, <3>1, PushedStays DEF PushedShape
    <3>2. CASE PushTo("report")
      BY <1>a, <2>3, <2>4, <3>2, PushToPushes
    <3> QED
      BY <2>1, <3>1, <3>2
  <2> QED
    BY <2>1, <2>2, <2>5 DEF Pushed
<1>3. ASSUME NEW c \in OAuths, co'[c].phase = "live", co'[c].applied PROVE Pushed(c)'
  <2>1. /\ co[c].phase = "live" /\ co[c].fin
        /\ co[c].applied \/ (pc = "report" /\ cur = c /\ UNCHANGED works)
    BY <1>a, <1>3, AppliedSteps
  <2>2. Pushed(c)
    BY <2>1 DEF PushedShape, StatusIsRight
  <2> QED
    BY <1>a, <2>1, <2>2, PushedStays
<1> QED
  BY <1>1, <1>2, <1>3 DEF PushedShape, StatusIsRight, Pushed

LEMMA ScenarioFixed == [Next]_vars => scenario' = scenario
BY DEF Next, vars, apiVars, Worker, Take, Continue, Placement, Agent, Forget, Manage,
       StartDelete, Save, ReadView, DropView, Push, PushTo, PushFailure, Report, Unmanage,
       Restore, Check, NotYetApplied, DropOriginal, Unfinalize, Observe, Abort, Restart,
       CreateSecret, CreateOAuth, DeleteSecret, DeleteOAuth, AgentApply, AgentRelease,
       AgentView

(* The condition Applied tells the truth about every live ClusterOAuth,    *)
(* with late informers and views, errors, restarts and deletions in any    *)
(* order, if a deleted ManifestWork is gone by the time it is written to   *)
(* again.                                                                  *)
THEOREM StatusIsTrue == Spec => []AppliedIsPushed
<1> DEFINE Shape == ~May("release") => PushedShape
<1>1. Init => Shape
  BY DEF Init, PushedShape, StatusIsRight, NoObject, NoWork, Works
<1>2. IInv /\ Shape /\ [Next]_vars => Shape'
  BY PushedShapeStep, ScenarioFixed DEF May
<1>3. Shape => AppliedIsPushed
  BY DEF PushedShape, AppliedIsPushed
<1> HIDE DEF Shape
<1> QED
  BY <1>1, <1>2, <1>3, Invariance, PTL DEF Spec

=============================================================================
