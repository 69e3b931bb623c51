----------------------------- MODULE Lifecycle -----------------------------
(***************************************************************************)
(* The life of AuthRealms: the AuthRealm, Strategy and Placement           *)
(* controllers, composed through the objects they write.                   *)
(*                                                                         *)
(* The AuthRealm controller installs the Dex operator, gives the AuthRealm *)
(* a namespace with a DexServer, and creates its Strategy.  The Strategy   *)
(* controller derives a Placement from the one the user refers to; all the *)
(* Strategies that refer to the same one own it together.  The Placement   *)
(* controller makes every cluster selected by that Placement a client: a   *)
(* client secret, a DexClient and a ClusterOAuth.  Deletion goes the other *)
(* way round, and each controller waits for what another one removes.      *)
(*                                                                         *)
(* Each controller has one worker.  A Reconcile is split where another     *)
(* controller may come in between what it reads and what it writes.  There *)
(* are no queues: every object is reconciled again at the latest when the  *)
(* informers resynchronise.  Of the two Strategies of an AuthRealm, which  *)
(* share nothing but the AuthRealm, one is modelled.                       *)
(***************************************************************************)
EXTENDS Integers, FiniteSets, Sequences

CONSTANTS
  Realms,        \* names of AuthRealms
  Clusters,      \* managed clusters
  Placements,    \* Placements of the user
  PlacementRef,  \* the Placement that an AuthRealm refers to
  Nobody,        \* absence of an AuthRealm or Placement
  Scenarios      \* the sets of disturbances that a behaviour may meet

(***************************************************************************)
(* The disturbances:                                                       *)
(*   "unplace"  the user deletes a Placement that an AuthRealm refers to   *)
(*   "together" an AuthRealm is deleted while another is terminating       *)
(*   "reselect" the clusters of a Placement change while an AuthRealm that *)
(*              uses it is being set up or deleted                         *)
(*   "hasty"    an AuthRealm is deleted before it is set up, or created or *)
(*              deleted while its Placement is reconciled                  *)
(*   "rush"     an AuthRealm is created while the Dex operator is being    *)
(*              removed, or about to be                                    *)
(***************************************************************************)
AllDisturbances == {"unplace", "together", "reselect", "hasty", "rush"}

ASSUME ConstantsAssumption ==
  /\ PlacementRef \in [Realms -> Placements]
  /\ Nobody \notin Realms \cup Placements
  /\ Scenarios \subseteq SUBSET AllDisturbances

VARIABLES
  scenario,  \* the disturbances this behaviour may meet
  realm,     \* the AuthRealms: phase, finalizer, condition Applied
  operator,  \* the namespace, the binding and the role of the Dex operator
  ns,        \* the namespace of the DexServer of each AuthRealm
  server,    \* the DexServer of each AuthRealm
  strategy,  \* the Strategy of each AuthRealm
  userPl,    \* the Placements of the user that exist
  pl,        \* the Placement that the Strategies derive from each of them
  decisions, \* the clusters selected by each derived Placement
  secrets,   \* the client secrets, per AuthRealm and cluster
  client,    \* the DexClients, per AuthRealm and cluster
  oauth,     \* the ClusterOAuths, per AuthRealm and cluster
  ar, st, pw, \* the workers of the AuthRealm, Strategy, Placement controllers
  late       \* history: the AuthRealms created while the operator was doomed,
             \* until it is installed again; no action depends on it

dexVars == <<operator, ns, server, late>>
plVars == <<userPl, pl, decisions>>
configVars == <<secrets, client, oauth>>
vars == <<scenario, realm, operator, ns, server, strategy, userPl, pl, decisions,
          secrets, client, oauth, ar, st, pw, late>>

May(d) == d \in scenario
Without(ds) == scenario \cap ds = {}

-----------------------------------------------------------------------------
(* Objects.                                                                *)

Phase == {"none", "live", "terminating"}

NoRealm == [phase |-> "none", fin |-> FALSE, applied |-> FALSE]
NoStrategy == [phase |-> "none", fin |-> FALSE, placed |-> FALSE]
NoPlacement == [phase |-> "none", fin |-> FALSE, owners |-> <<>>]

(* What Delete does: an object with a finalizer is terminating until the   *)
(* finalizer is removed, another one is gone at once.                      *)
DeletedPlacement(p) == IF pl[p].fin THEN [pl[p] EXCEPT !.phase = "terminating"]
                                    ELSE NoPlacement
DeletedStrategy(r) == IF strategy[r].fin THEN [strategy[r] EXCEPT !.phase = "terminating"]
                                         ELSE NoStrategy

(* With a Placement go its PlacementDecisions (external).                  *)
DecisionsFollow == decisions' = [p \in Placements |-> IF pl'[p].phase = "none" THEN {}
                                                      ELSE decisions[p]]

Owners(placement) == {placement.owners[i] : i \in DOMAIN placement.owners}

OperatorParts == {"namespace", "binding", "role"}

Installed == operator = [part \in OperatorParts |-> "live"]

AppliedInVain == [part \in OperatorParts |->
                    IF part = "namespace" THEN "terminating" ELSE "live"]

NoOperator == [part \in OperatorParts |-> "none"]

LiveRealms == {r \in Realms : realm[r].phase = "live"}

(* deleteDexOperator has found no AuthRealm, and deletes the namespace of  *)
(* the operator or has done so.                                            *)
Doomed == \/ operator["namespace"] = "terminating"
          \/ operator["namespace"] = "live" /\ ar.pc = "unneeded"

IdleAr == [pc |-> "idle", r |-> Nobody]
IdleSt == [pc |-> "idle", r |-> Nobody, pl |-> NoPlacement]
IdlePw == [pc |-> "idle", p |-> Nobody, owners |-> {}, todo |-> {}, r |-> Nobody,
           live |-> FALSE, clusters |-> {}, c |-> {}]

Init ==
  /\ scenario \in Scenarios
  /\ realm = [r \in Realms |-> NoRealm]
  /\ operator = NoOperator
  /\ ns = [r \in Realms |-> "none"]
  /\ server = [r \in Realms |-> "none"]
  /\ strategy = [r \in Realms |-> NoStrategy]
  /\ userPl = Placements
  /\ pl = [p \in Placements |-> NoPlacement]
  /\ decisions = [p \in Placements |-> {}]
  /\ secrets = {}
  /\ client = [rc \in Realms \X Clusters |-> "none"]
  /\ oauth = [rc \in Realms \X Clusters |-> "none"]
  /\ ar = IdleAr
  /\ st = IdleSt
  /\ pw = IdlePw
  /\ late = {}

-----------------------------------------------------------------------------
(* The AuthRealm controller, live objects: processAuthRealmUpdate.         *)

ArGoes(pc) == ar' = [ar EXCEPT !.pc = pc]

(* The end of the Reconcile reports Applied.                               *)
ArEnds(applied) ==
  /\ ar' = IdleAr
  /\ realm' = [realm EXCEPT ![ar.r].applied = applied]

(* The finalizer is added before anything else.                            *)
Prepare(r) ==
  /\ ar.pc = "idle"
  /\ realm[r].phase = "live"
  /\ realm' = [realm EXCEPT ![r].fin = TRUE]
  /\ ar' = [pc |-> "operator", r |-> r]
  /\ UNCHANGED <<scenario, dexVars, strategy, plVars, configVars, st, pw>>

(* installDexOperator applies the parts that exist and those that do not;  *)
(* in a namespace that is being deleted it fails as soon as one of them is *)
(* missing, and as long as none is it leaves them all to be deleted.       *)
InstallDexOperator ==
  /\ ar.pc = "operator"
  /\ \/ /\ operator["namespace"] # "terminating"
        /\ operator' = [part \in OperatorParts |-> "live"]
        /\ late' = {}
        /\ ArGoes("server")
        /\ UNCHANGED realm
     \/ /\ operator["namespace"] = "terminating"
        /\ \/ operator' = AppliedInVain /\ ArGoes("server") /\ UNCHANGED realm
           \/ operator' \in {operator, AppliedInVain} /\ ArEnds(FALSE)
        /\ UNCHANGED late
  /\ UNCHANGED <<scenario, ns, server, strategy, plVars, configVars, st, pw>>

(* createDexServer: the namespace and the DexServer in it.                 *)
CreateDexServer ==
  /\ ar.pc = "server"
  /\ \/ /\ ns[ar.r] = "terminating" /\ server[ar.r] = "none"
        /\ ArEnds(FALSE)
        /\ UNCHANGED <<ns, server>>
     \/ /\ ns[ar.r] # "terminating" \/ server[ar.r] # "none"
        /\ ns' = [ns EXCEPT ![ar.r] = IF @ = "none" THEN "live" ELSE @]
        /\ server' = [server EXCEPT ![ar.r] = IF @ = "none" THEN "live" ELSE @]
        /\ ArGoes("strategy")
        /\ UNCHANGED realm
  /\ UNCHANGED <<scenario, operator, late, strategy, plVars, configVars, st, pw>>

CreateStrategy ==
  /\ ar.pc = "strategy"
  /\ strategy' = [strategy EXCEPT ![ar.r].phase = IF @ = "none" THEN "live" ELSE @]
  /\ ArEnds(TRUE)
  /\ UNCHANGED <<scenario, dexVars, plVars, configVars, st, pw>>

-----------------------------------------------------------------------------
(* The AuthRealm controller, terminating objects: processAuthRealmDeletion.*)
(* Every step but the last asks for another Reconcile, which begins anew.  *)

(* processDexServerDeletion waits until no DexClient is left.              *)
FindNoClient(r) ==
  /\ ar.pc = "idle"
  /\ realm[r].phase = "terminating"
  /\ \A c \in Clusters : client[<<r, c>>] = "none"
  /\ ar' = [pc |-> "emptied", r |-> r]
  /\ UNCHANGED <<scenario, realm, dexVars, strategy, plVars, configVars, st, pw>>

DeleteDexServer ==
  /\ ar.pc = "emptied"
  /\ server[ar.r] # "none"
  /\ server' = [server EXCEPT ![ar.r] = "terminating"]
  /\ ar' = IdleAr
  /\ UNCHANGED <<scenario, realm, operator, ns, late, strategy, plVars, configVars, st, pw>>

DeleteDexNamespace ==
  /\ ar.pc = "emptied"
  /\ server[ar.r] = "none"
  /\ ns[ar.r] # "none"
  /\ ns' = [ns EXCEPT ![ar.r] = "terminating"]
  /\ ar' = IdleAr
  /\ UNCHANGED <<scenario, realm, operator, server, late, strategy, plVars, configVars, st, pw>>

(* Mutated form of DexIsGone: the namespace is not waited for.             *)
ServerIsGone == server[ar.r] = "none"

DexIsGone == server[ar.r] = "none" /\ ns[ar.r] = "none"

DeleteStrategy ==
  /\ ar.pc = "emptied"
  /\ DexIsGone
  /\ strategy[ar.r].phase # "none"
  /\ strategy' = [strategy EXCEPT ![ar.r] = DeletedStrategy(ar.r)]
  /\ ar' = IdleAr
  /\ UNCHANGED <<scenario, realm, dexVars, plVars, configVars, st, pw>>

(* deleteDexOperator lists the AuthRealms, and acts on the list later: it  *)
(* does nothing when one of them is not being deleted, and removes one     *)
(* part of the operator per Reconcile otherwise, the namespace first.      *)
(* Mutated forms of OperatorIsNeeded: the AuthRealm in deletion is counted *)
(* too, and only AuthRealms that are Applied count.                        *)
NeededByOthers == Cardinality(LiveRealms) > 1

NeededByApplied == \E r \in LiveRealms : realm[r].applied

OperatorIsNeeded == LiveRealms # {}

ListAuthRealms ==
  /\ ar.pc = "emptied"
  /\ DexIsGone
  /\ strategy[ar.r].phase = "none"
  /\ ArGoes(IF OperatorIsNeeded THEN "needed" ELSE "unneeded")
  /\ UNCHANGED <<scenario, realm, dexVars, strategy, plVars, configVars, st, pw>>

DeleteDexOperator ==
  /\ ar.pc = "unneeded"
  /\ \E part \in OperatorParts :
       /\ operator[part] # "none"
       /\ part = "role" => operator["binding"] = "none"
       /\ part # "namespace" => operator["namespace"] = "none"
       /\ operator' = [operator EXCEPT ![part] = IF part = "namespace" THEN "terminating"
                                                                       ELSE "none"]
  /\ ar' = IdleAr
  /\ UNCHANGED <<scenario, realm, ns, server, late, strategy, plVars, configVars, st, pw>>

(* Mutated form of Finish: the removal of the operator is not waited for.  *)
FinishUnwaited ==
  /\ ar.pc \in {"needed", "unneeded"}
  /\ realm' = [realm EXCEPT ![ar.r] = NoRealm]
  /\ ar' = IdleAr
  /\ UNCHANGED <<scenario, dexVars, strategy, plVars, configVars, st, pw>>

(* The finalizer is removed.                                               *)
Finish ==
  /\ ar.pc = "needed" \/ (ar.pc = "unneeded" /\ operator = NoOperator)
  /\ realm' = [realm EXCEPT ![ar.r] = NoRealm]
  /\ ar' = IdleAr
  /\ UNCHANGED <<scenario, dexVars, strategy, plVars, configVars, st, pw>>

-----------------------------------------------------------------------------
(* The Strategy controller, live objects: processStrategyUpdate.           *)

Ref(r) == PlacementRef[r]

TakeStrategy(r) ==
  /\ st.pc = "idle"
  /\ strategy[r].phase = "live"
  /\ strategy' = [strategy EXCEPT ![r].fin = TRUE]
  /\ st' = [pc |-> "read", r |-> r, pl |-> NoPlacement]
  /\ UNCHANGED <<scenario, realm, dexVars, plVars, configVars, ar, pw>>

(* The AuthRealm is being deleted: nothing to do.                          *)
SkipStrategy ==
  /\ st.pc = "read"
  /\ realm[st.r].phase # "live"
  /\ st' = IdleSt
  /\ UNCHANGED <<scenario, realm, dexVars, strategy, plVars, configVars, ar, pw>>

(* deleteStrategyPlacement: the Placement of the user is gone.             *)
DeleteStrategyPlacement ==
  /\ st.pc = "read"
  /\ realm[st.r].phase = "live"
  /\ Ref(st.r) \notin userPl
  /\ pl' = [pl EXCEPT ![Ref(st.r)] = DeletedPlacement(Ref(st.r))]
  /\ DecisionsFollow
  /\ st' = IdleSt
  /\ UNCHANGED <<scenario, realm, dexVars, strategy, userPl, configVars, ar, pw>>

(* getStrategyPlacement.                                                   *)
GetStrategyPlacement ==
  /\ st.pc = "read"
  /\ realm[st.r].phase = "live"
  /\ Ref(st.r) \in userPl
  /\ st' = [st EXCEPT !.pc = "place", !.pl = pl[Ref(st.r)]]
  /\ UNCHANGED <<scenario, realm, dexVars, strategy, plVars, configVars, ar, pw>>

(* The Strategy is updated with the name of the Placement; the update      *)
(* fails when the Strategy was deleted meanwhile.                          *)
PlaceStrategy ==
  /\ st.pc = "place"
  /\ \/ /\ strategy[st.r].phase = "live"
        /\ strategy' = [strategy EXCEPT ![st.r].placed = TRUE]
        /\ st' = [st EXCEPT !.pc = "own"]
     \/ /\ strategy[st.r].phase # "live"
        /\ st' = IdleSt
        /\ UNCHANGED strategy
  /\ UNCHANGED <<scenario, realm, dexVars, plVars, configVars, ar, pw>>

(* Mutated form of OwnPlacement: only a Placement that exists gets an      *)
(* owner reference.                                                        *)
OwnExistingPlacement ==
  /\ st.pc = "own"
  /\ pl' = IF pl[Ref(st.r)] # st.pl THEN pl
           ELSE [pl EXCEPT ![Ref(st.r)].phase = IF @ = "none" THEN "live" ELSE @,
                           ![Ref(st.r)].owners =
                             IF st.pl.phase = "none" \/ st.r \in Owners(st.pl) THEN @
                             ELSE Append(@, st.r)]
  /\ st' = IdleSt
  /\ UNCHANGED <<scenario, realm, dexVars, strategy, userPl, decisions, configVars, ar, pw>>

(* The Placement is created or updated with the Strategy among its owners; *)
(* this fails when it is not the one that was read.                        *)
OwnPlacement ==
  /\ st.pc = "own"
  /\ pl' = IF pl[Ref(st.r)] # st.pl THEN pl
           ELSE [pl EXCEPT ![Ref(st.r)].phase = IF @ = "none" THEN "live" ELSE @,
                           ![Ref(st.r)].owners =
                             IF st.r \in Owners(st.pl) THEN @ ELSE Append(@, st.r)]
  /\ st' = IdleSt
  /\ UNCHANGED <<scenario, realm, dexVars, strategy, userPl, decisions, configVars, ar, pw>>

-----------------------------------------------------------------------------
(* The Strategy controller, terminating objects: processStrategyDeletion.  *)

IsLastOwner(r) == pl[Ref(r)].phase # "none" /\ pl[Ref(r)].owners = <<r>>

(* The last owner deletes the Placement and waits for it to be gone.       *)
DeletePlacement(r) ==
  /\ st.pc = "idle"
  /\ strategy[r].phase = "terminating"
  /\ IsLastOwner(r)
  /\ pl' = [pl EXCEPT ![Ref(r)] = DeletedPlacement(Ref(r))]
  /\ DecisionsFollow
  /\ UNCHANGED <<scenario, realm, dexVars, strategy, userPl, configVars, ar, st, pw>>

(* removeOwnerReference overwrites the reference with the last one, and    *)
(* the API server drops the duplicate; its result is not used, so that the *)
(* last reference of the list is not removed.                              *)
RemoveOwner(placement, r) ==
  LET last == Len(placement.owners) IN
    IF r \notin Owners(placement) \/ placement.owners[last] = r THEN placement
    ELSE [placement EXCEPT !.owners = [i \in 1 .. last - 1 |->
                                         IF @[i] = r THEN @[last] ELSE @[i]]]

FinishStrategy(r) ==
  /\ st.pc = "idle"
  /\ strategy[r].phase = "terminating"
  /\ ~IsLastOwner(r)
  /\ pl' = [pl EXCEPT ![Ref(r)] = RemoveOwner(@, r)]
  /\ strategy' = [strategy EXCEPT ![r] = NoStrategy]
  /\ UNCHANGED <<scenario, realm, dexVars, userPl, decisions, configVars, ar, st, pw>>

-----------------------------------------------------------------------------
(* The Placement controller, live objects: processPlacementUpdate.         *)

(* GetStrategyFromPlacement.                                               *)
StrategiesOf(p) == {r \in Realms : Ref(r) = p /\ strategy[r].phase # "none" /\ strategy[r].placed}

TakePlacement(p) ==
  /\ pw.pc = "idle"
  /\ pl[p].phase = "live"
  /\ pl' = [pl EXCEPT ![p].fin = TRUE]
  /\ pw' = [IdlePw EXCEPT !.pc = "next", !.p = p, !.owners = Owners(pl[p]),
                          !.todo = StrategiesOf(p)]
  /\ UNCHANGED <<scenario, realm, dexVars, strategy, userPl, decisions, configVars, ar, st>>

(* The loop over the Strategies, in the order of the cache.                *)
NextStrategy ==
  /\ pw.pc = "next"
  /\ \/ \E r \in pw.todo :
          pw' = IF realm[r].phase = "none" THEN IdlePw
                ELSE [pw EXCEPT !.pc = "obsolete", !.r = r, !.todo = @ \ {r},
                                !.live = realm[r].phase = "live"]
     \/ /\ pw.todo = {}
        /\ pw' = IdlePw
  /\ UNCHANGED <<scenario, realm, dexVars, strategy, plVars, configVars, ar, st>>

(* Mutated forms of Obsolete: only the DexClients of deselected clusters,  *)
(* and only those of AuthRealms in deletion.                               *)
ObsoleteDeselected == {c \in Clusters : client[<<pw.r, c>>] # "none" /\ c \notin decisions[pw.p]}

ObsoleteInDeletion == {c \in Clusters : client[<<pw.r, c>>] # "none" /\ ~pw.live}

(* deleteObsoleteConfigs: the DexClients of an AuthRealm in deletion, or of*)
(* a cluster that is not selected.                                         *)
Obsolete == {c \in Clusters : /\ client[<<pw.r, c>>] # "none"
                              /\ c \notin decisions[pw.p] \/ ~pw.live}

(* deleteClusterOAuthConfig: the ClusterOAuths of a cluster whose Strategy *)
(* owns the Placement, with their client secrets.                          *)
Matched(c, owners) == {r \in owners : oauth[<<r, c>>] # "none"}

(* Mutated form of DeleteClusterOAuthConfig: the secrets are not deleted.  *)
DeleteClusterOAuthOnly(c, owners) ==
  /\ oauth' = [rc \in Realms \X Clusters |->
                 IF rc \in Matched(c, owners) \X {c} THEN "terminating" ELSE oauth[rc]]
  /\ UNCHANGED secrets

DeleteClusterOAuthConfig(c, owners) ==
  /\ secrets' = secrets \ (Matched(c, owners) \X {c})
  /\ oauth' = [rc \in Realms \X Clusters |->
                 IF rc \in Matched(c, owners) \X {c} THEN "terminating" ELSE oauth[rc]]

(* While ClusterOAuths are left, it requeues.                              *)
DeleteObsoleteOAuth ==
  /\ pw.pc = "obsolete"
  /\ \E c \in Obsolete : Matched(c, pw.owners) # {} /\ DeleteClusterOAuthConfig(c, pw.owners)
  /\ pw' = IdlePw
  /\ UNCHANGED <<scenario, realm, dexVars, strategy, plVars, client, ar, st>>

(* Then the DexClients are deleted, and waited for.                        *)
DeleteObsoleteClient ==
  /\ pw.pc = "obsolete"
  /\ Obsolete # {}
  /\ \A c \in Obsolete : Matched(c, pw.owners) = {}
  /\ client' = [rc \in Realms \X Clusters |->
                  IF rc \in {pw.r} \X Obsolete THEN "terminating" ELSE client[rc]]
  /\ pw' = IdlePw
  /\ UNCHANGED <<scenario, realm, dexVars, strategy, plVars, secrets, oauth, ar, st>>

(* createConfigs begins, unless the AuthRealm is in deletion.              *)
NothingObsolete ==
  /\ pw.pc = "obsolete"
  /\ Obsolete = {}
  /\ pw' = IF pw.live THEN [pw EXCEPT !.pc = "create", !.clusters = decisions[pw.p]]
                      ELSE [pw EXCEPT !.pc = "next"]
  /\ UNCHANGED <<scenario, realm, dexVars, strategy, plVars, configVars, ar, st>>

(* Mutated form of CreateClientSecret: a secret of any cluster will do.    *)
CreateFirstClientSecret ==
  /\ pw.pc = "create"
  /\ \E c \in pw.clusters :
       /\ secrets' = IF \E rc \in secrets : rc[1] = pw.r THEN secrets
                     ELSE secrets \cup {<<pw.r, c>>}
       /\ pw' = [pw EXCEPT !.pc = "client", !.c = {c}, !.clusters = @ \ {c}]
  /\ UNCHANGED <<scenario, realm, dexVars, strategy, plVars, client, oauth, ar, st>>

CreateClientSecret ==
  /\ pw.pc = "create"
  /\ \E c \in pw.clusters :
       /\ secrets' = secrets \cup {<<pw.r, c>>}
       /\ pw' = [pw EXCEPT !.pc = "client", !.c = {c}, !.clusters = @ \ {c}]
  /\ UNCHANGED <<scenario, realm, dexVars, strategy, plVars, client, oauth, ar, st>>

(* A DexClient is not created in a namespace that is gone or going.        *)
CreateDexClient ==
  /\ pw.pc = "client"
  /\ \E c \in pw.c :
       IF client[<<pw.r, c>>] = "none" /\ ns[pw.r] # "live"
       THEN pw' = IdlePw /\ UNCHANGED client
       ELSE /\ client' = [client EXCEPT ![<<pw.r, c>>] = IF @ = "none" THEN "live" ELSE @]
            /\ pw' = [pw EXCEPT !.pc = "oauth"]
  /\ UNCHANGED <<scenario, realm, dexVars, strategy, plVars, secrets, oauth, ar, st>>

CreateClusterOAuth ==
  /\ pw.pc = "oauth"
  /\ \E c \in pw.c : oauth' = [oauth EXCEPT ![<<pw.r, c>>] = IF @ = "none" THEN "live" ELSE @]
  /\ pw' = [pw EXCEPT !.pc = "create", !.c = {}]
  /\ UNCHANGED <<scenario, realm, dexVars, strategy, plVars, secrets, client, ar, st>>

ConfigsCreated ==
  /\ pw.pc = "create"
  /\ pw.clusters = {}
  /\ pw' = [pw EXCEPT !.pc = "next"]
  /\ UNCHANGED <<scenario, realm, dexVars, strategy, plVars, configVars, ar, st>>

-----------------------------------------------------------------------------
(* The Placement controller, terminating objects: processPlacementDeletion.*)

(* The ClusterOAuths of the selected clusters are deleted and waited for.  *)
DeleteSelectedOAuth(p) ==
  /\ pw.pc = "idle"
  /\ pl[p].phase = "terminating"
  /\ \E c \in decisions[p] : /\ Matched(c, Owners(pl[p])) # {}
                             /\ DeleteClusterOAuthConfig(c, Owners(pl[p]))
  /\ UNCHANGED <<scenario, realm, dexVars, strategy, plVars, client, ar, st, pw>>

(* The finalizer is removed.                                               *)
FinishPlacement(p) ==
  /\ pw.pc = "idle"
  /\ pl[p].phase = "terminating"
  /\ \A c \in decisions[p] : Matched(c, Owners(pl[p])) = {}
  /\ pl' = [pl EXCEPT ![p] = NoPlacement]
  /\ DecisionsFollow
  /\ UNCHANGED <<scenario, realm, dexVars, strategy, userPl, configVars, ar, st, pw>>

-----------------------------------------------------------------------------
(* The user and the scheduler.                                             *)

(* What the controllers do about an AuthRealm or a Placement is done.      *)
Settled(r) ==
  \/ realm[r].phase = "none"
  \/ realm[r].phase = "live" /\ realm[r].applied /\ r \in Owners(pl[Ref(r)])

Configured(r, c) ==
  LET phase == IF realm[r].phase = "live" /\ c \in decisions[Ref(r)] THEN "live" ELSE "none"
  IN client[<<r, c>>] = phase /\ oauth[<<r, c>>] = phase

Idle(r) == pw.p # Ref(r) /\ Settled(r) /\ \A c \in Clusters : Configured(r, c)

Quiet(p) == \A r \in Realms : Ref(r) = p => Idle(r)

(* The webhook admits an AuthRealm whose DexServer namespace is free.      *)
CreateRealm(r) ==
  /\ realm[r].phase = "none"
  /\ ns[r] = "none"
  /\ May("hasty") \/ pw.p # Ref(r)
  /\ May("rush") \/ ~Doomed
  /\ realm' = [realm EXCEPT ![r].phase = "live"]
  /\ late' = IF Doomed THEN late \cup {r} ELSE late \ {r}
  /\ UNCHANGED <<scenario, operator, ns, server, strategy, plVars, configVars, ar, st, pw>>

DeleteRealm(r) ==
  /\ realm[r].phase = "live"
  /\ May("hasty") \/ Idle(r)
  /\ May("together") \/ \A s \in Realms : realm[s].phase # "terminating"
  /\ realm' = [realm EXCEPT ![r] = IF realm[r].fin THEN [@ EXCEPT !.phase = "terminating"]
                                                   ELSE NoRealm]
  /\ UNCHANGED <<scenario, dexVars, strategy, plVars, configVars, ar, st, pw>>

Unplace(p) ==
  /\ p \in userPl
  /\ May("unplace") \/ \A r \in Realms : Ref(r) = p => realm[r].phase = "none"
  /\ userPl' = userPl \ {p}
  /\ UNCHANGED <<scenario, realm, dexVars, strategy, pl, decisions, configVars, ar, st, pw>>

Replace(p) ==
  /\ p \notin userPl
  /\ userPl' = userPl \cup {p}
  /\ UNCHANGED <<scenario, realm, dexVars, strategy, pl, decisions, configVars, ar, st, pw>>

Select(p, c) ==
  /\ pl[p].phase = "live"
  /\ May("reselect") \/ Quiet(p)
  /\ decisions' = [decisions EXCEPT ![p] = @ \cup {c}]
  /\ UNCHANGED <<scenario, realm, dexVars, strategy, userPl, pl, configVars, ar, st, pw>>

Deselect(p, c) ==
  /\ pl[p].phase # "none"
  /\ May("reselect") \/ Quiet(p)
  /\ decisions' = [decisions EXCEPT ![p] = @ \ {c}]
  /\ UNCHANGED <<scenario, realm, dexVars, strategy, userPl, pl, configVars, ar, st, pw>>

-----------------------------------------------------------------------------
(* What finishes a deletion (external, but for the ClusterOAuths).         *)

(* The ClusterOAuth controller needs the AuthRealm, from whose status it   *)
(* removes the cluster first.                                              *)
OAuthGone(r, c) ==
  /\ oauth[<<r, c>>] = "terminating"
  /\ realm[r].phase # "none"
  /\ oauth' = [oauth EXCEPT ![<<r, c>>] = "none"]
  /\ UNCHANGED <<scenario, realm, dexVars, strategy, plVars, secrets, client, ar, st, pw>>

(* The Dex operator removes its finalizers as long as it runs.             *)
ClientGone(r, c) ==
  /\ client[<<r, c>>] = "terminating"
  /\ operator["namespace"] = "live"
  /\ client' = [client EXCEPT ![<<r, c>>] = "none"]
  /\ UNCHANGED <<scenario, realm, dexVars, strategy, plVars, secrets, oauth, ar, st, pw>>

ServerGone(r) ==
  /\ server[r] = "terminating"
  /\ operator["namespace"] = "live"
  /\ server' = [server EXCEPT ![r] = "none"]
  /\ UNCHANGED <<scenario, realm, operator, ns, late, strategy, plVars, configVars, ar, st, pw>>

(* The namespace controller deletes what is in the namespace, then it.     *)
SweepNamespace(r) ==
  /\ ns[r] = "terminating"
  /\ client' = [rc \in Realms \X Clusters |->
                  IF rc[1] = r /\ client[rc] = "live" THEN "terminating" ELSE client[rc]]
  /\ server' = [server EXCEPT ![r] = IF @ = "live" THEN "terminating" ELSE @]
  /\ ns' = [ns EXCEPT ![r] = IF server[r] = "none" /\ \A c \in Clusters : client[<<r, c>>] = "none"
                               THEN "none" ELSE @]
  /\ UNCHANGED <<scenario, realm, operator, late, strategy, plVars, secrets, oauth, ar, st, pw>>

OperatorGone ==
  /\ operator["namespace"] = "terminating"
  /\ operator' = [operator EXCEPT !["namespace"] = "none"]
  /\ UNCHANGED <<scenario, realm, ns, server, late, strategy, plVars, configVars, ar, st, pw>>

(* The garbage collector removes references to owners that are gone, and   *)
(* an object that has no other.                                            *)
Collect(p) ==
  /\ pl[p].phase = "live"
  /\ LET owners == pl[p].owners
     IN \E i \in DOMAIN owners :
          /\ strategy[owners[i]].phase = "none"
          /\ pl' = [pl EXCEPT ![p] =
                      IF Len(owners) = 1 THEN DeletedPlacement(p)
                      ELSE [@ EXCEPT !.owners = SubSeq(owners, 1, i - 1)
                                                  \o SubSeq(owners, i + 1, Len(owners))]]
  /\ DecisionsFollow
  /\ UNCHANGED <<scenario, realm, dexVars, strategy, userPl, configVars, ar, st, pw>>

-----------------------------------------------------------------------------
ArContinues == InstallDexOperator \/ CreateDexServer \/ CreateStrategy
ArDeletes == \/ DeleteDexServer \/ DeleteDexNamespace \/ DeleteStrategy
             \/ ListAuthRealms \/ DeleteDexOperator \/ Finish
ArWorks(r) == Prepare(r) \/ FindNoClient(r)

StContinues == \/ SkipStrategy \/ DeleteStrategyPlacement \/ GetStrategyPlacement
               \/ PlaceStrategy \/ OwnPlacement
StWorks(r) == TakeStrategy(r) \/ DeletePlacement(r) \/ FinishStrategy(r)

PwContinues == \/ NextStrategy \/ DeleteObsoleteOAuth \/ DeleteObsoleteClient \/ NothingObsolete
               \/ CreateClientSecret \/ CreateDexClient \/ CreateClusterOAuth \/ ConfigsCreated
PwWorks(p) == TakePlacement(p) \/ DeleteSelectedOAuth(p) \/ FinishPlacement(p)

Controllers == \/ ArContinues \/ ArDeletes \/ StContinues \/ PwContinues
               \/ \E r \in Realms : ArWorks(r) \/ StWorks(r)
               \/ \E p \in Placements : PwWorks(p)

User == \/ \E r \in Realms : CreateRealm(r) \/ DeleteRealm(r)
        \/ \E p \in Placements : \/ Unplace(p) \/ Replace(p)
                                 \/ \E c \in Clusters : Select(p, c) \/ Deselect(p, c)

Cleaners == \/ \E r \in Realms, c \in Clusters : OAuthGone(r, c) \/ ClientGone(r, c)
            \/ \E r \in Realms : ServerGone(r) \/ SweepNamespace(r)
            \/ OperatorGone
            \/ \E p \in Placements : Collect(p)

Next == Controllers \/ User \/ Cleaners

Spec == Init /\ [][Next]_vars

Fairness ==
  /\ WF_vars(ArContinues \/ ArDeletes) /\ \A r \in Realms : SF_vars(ArWorks(r))
  /\ WF_vars(StContinues) /\ \A r \in Realms : SF_vars(StWorks(r))
  /\ WF_vars(PwContinues) /\ \A p \in Placements : SF_vars(PwWorks(p))
  /\ \A r \in Realms, c \in Clusters : WF_vars(OAuthGone(r, c)) /\ WF_vars(ClientGone(r, c))
  /\ \A r \in Realms : WF_vars(ServerGone(r)) /\ WF_vars(SweepNamespace(r))
  /\ WF_vars(OperatorGone)
  /\ \A p \in Placements : WF_vars(Collect(p))

FairSpec == Spec /\ Fairness

-----------------------------------------------------------------------------
(* Properties.                                                             *)

(* The type of every variable; a Placement that exists has an owner, as    *)
(* isLastOwnerReference relies on.                                         *)
TypeOK ==
  /\ scenario \in Scenarios
  /\ realm \in [Realms -> [phase : Phase, fin : BOOLEAN, applied : BOOLEAN]]
  /\ operator \in [OperatorParts -> Phase]
  /\ ns \in [Realms -> Phase]
  /\ server \in [Realms -> Phase]
  /\ strategy \in [Realms -> [phase : Phase, fin : BOOLEAN, placed : BOOLEAN]]
  /\ userPl \subseteq Placements
  /\ pl \in [Placements -> [phase : Phase, fin : BOOLEAN, owners : Seq(Realms)]]
  /\ \A p \in Placements : pl[p].phase # "none" => pl[p].owners # <<>>
  /\ decisions \in [Placements -> SUBSET Clusters]
  /\ secrets \subseteq Realms \X Clusters
  /\ client \in [Realms \X Clusters -> Phase]
  /\ oauth \in [Realms \X Clusters -> Phase]
  /\ ar.r \in Realms \/ ar = IdleAr
  /\ st.r \in Realms \/ st = IdleSt
  /\ pw.p \in Placements \/ pw = IdlePw
  /\ late \subseteq Realms

(* An AuthRealm that is not being deleted and is reported as Applied has   *)
(* the whole Dex operator: deleteDexOperator, on behalf of another one,    *)
(* never removes it from under this one, however the creations and         *)
(* deletions of AuthRealms follow each other.  The exception is an         *)
(* AuthRealm created when deleteDexOperator had listed the AuthRealms      *)
(* already: it may be reported as Applied although the namespace that the  *)
(* operator was installed into is going, and then has none until a later   *)
(* Reconcile, of any AuthRealm, installs it again.                         *)
OperatorServes ==
  \A r \in Realms \ late : realm[r].phase = "live" /\ realm[r].applied => Installed

(* The strengthening of OperatorServes that is inductive: the operator is  *)
(* removed under no AuthRealm but the late ones, and what the worker of    *)
(* the AuthRealm controller has installed so far stays installed.          *)
ArType ==
  /\ realm \in [Realms -> [phase : Phase, fin : BOOLEAN, applied : BOOLEAN]]
  /\ operator \in [OperatorParts -> Phase]
  /\ ar \in [pc : {"idle", "operator", "server", "strategy", "emptied", "needed", "unneeded"},
             r : Realms \cup {Nobody}]
  /\ ar.pc # "idle" => ar.r \in Realms

InstallsForReal ==
  ar.pc \in {"operator", "server", "strategy"} => realm[ar.r].phase # "none" /\ realm[ar.r].fin

KeepsWhatItInstalled ==
  /\ ar.pc = "operator" /\ ar.r \notin late => operator["namespace"] # "terminating"
  /\ ar.pc \in {"server", "strategy"} /\ ar.r \notin late => Installed

RemovesUnneeded == Doomed => LiveRealms \subseteq late

NewIsNotApplied == \A r \in Realms : realm[r].phase = "none" => ~realm[r].applied

OperatorInv == ArType /\ InstallsForReal /\ KeepsWhatItInstalled /\ RemovesUnneeded
               /\ NewIsNotApplied /\ OperatorServes

(* Once the finalizer of an AuthRealm is removed, nothing that was created *)
(* for it is left: not its DexServer and namespace, not its Strategy, and  *)
(* on no cluster a DexClient or a ClusterOAuth, although nobody deletes    *)
(* all of them in one place (processAuthRealmDeletion and what it waits    *)
(* for).                                                                   *)
NothingLeftBehind ==
  Without({"hasty", "reselect"}) =>
    \A r \in Realms : realm[r].phase = "none" =>
      /\ server[r] = "none" /\ ns[r] = "none" /\ strategy[r].phase = "none"
      /\ \A c \in Clusters : client[<<r, c>>] = "none" /\ oauth[<<r, c>>] = "none"

(* Nor is a client secret left in the namespace of a cluster; it is only   *)
(* deleted along with a ClusterOAuth (deleteClusterOAuthConfig).           *)
SecretsRemoved ==
  Without({"hasty", "reselect", "unplace"}) =>
    \A rc \in secrets : realm[rc[1]].phase # "none"

(* The Dex operator runs as long as there is a DexClient, whose finalizer  *)
(* only it removes: deleteDexOperator counts the AuthRealms that are not   *)
(* being deleted, never the DexClients.  AuthRealms that are deleted       *)
(* together may lose it before their DexClients are gone, and those        *)
(* created after the AuthRealms were counted may never have had it.        *)
ClientsFinalized ==
  \A rc \in Realms \X Clusters :
    /\ client[rc] # "none"
    /\ rc[1] \notin late
    /\ realm[rc[1]].phase = "live" \/ Without({"together"})
    => operator["namespace"] = "live"

(* When the last AuthRealm is gone, so is the Dex operator, although each  *)
(* AuthRealm leaves it alone as long as it sees another one                *)
(* (deleteDexOperator): that one may be deleted, but not before it has its *)
(* finalizer.                                                              *)
UninstalledWithTheLast ==
  Without({"hasty"}) =>
    ((\A r \in Realms : realm[r].phase = "none") => operator = NoOperator)

(* The deletion of an AuthRealm ends: the three controllers and the Dex    *)
(* operator do not wait for each other for ever.                           *)
DeletionEnds == \A r \in Realms : realm[r].phase = "terminating" ~> realm[r].phase = "none"

(* A cluster that stays selected by the Placement of an AuthRealm comes to *)
(* have, and to keep, its DexClient, client secret and ClusterOAuth, and a *)
(* DexServer to talk to.                                                   *)
Serves ==
  \A r \in Realms, c \in Clusters :
    <>[](realm[r].phase = "live" /\ Ref(r) \in userPl /\ c \in decisions[Ref(r)]) =>
      <>[](/\ client[<<r, c>>] = "live" /\ oauth[<<r, c>>] = "live"
           /\ <<r, c>> \in secrets /\ server[r] = "live")

(* A cluster that stays deselected loses its DexClient and its ClusterOAuth*)
(* (deleteObsoleteConfigs): the managed cluster gets its OAuth back.       *)
Withdraws ==
  \A r \in Realms, c \in Clusters :
    <>[](realm[r].phase = "live" /\ pl[Ref(r)].phase = "live" /\ c \notin decisions[Ref(r)]) =>
      <>[](client[<<r, c>>] = "none" /\ oauth[<<r, c>>] = "none")

=============================================================================
