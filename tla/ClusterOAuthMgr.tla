-------------------------- MODULE ClusterOAuthMgr --------------------------
(***************************************************************************)
(* What the interface ClusterOAuthMgr promises about one managed cluster,  *)
(* whatever the cluster's type: Save keeps the original OAuth before Push  *)
(* replaces it, and Unmanage puts it back before the copy is given up.     *)
(* BackplaneOAuth and HypershiftOAuth are its two implementations.         *)
(***************************************************************************)
CONSTANT OAuths

VARIABLES
  oauth,    \* the OAuth configuration of the managed cluster
  saved,    \* the copies of it kept on the hub: one at most
  original  \* what the administrator of the cluster configured

mgrVars == <<oauth, saved, original>>

Start == oauth = original /\ saved = {}

(* The administrator is free to change an OAuth that is not managed.       *)
Configure ==
  /\ saved = {}
  /\ oauth = original
  /\ original' = oauth'
  /\ UNCHANGED saved

(* Save: only the original is worth keeping.                               *)
SaveOriginal ==
  /\ saved = {}
  /\ oauth = original
  /\ saved' = {oauth}
  /\ UNCHANGED <<oauth, original>>

(* Push: never before Save.                                                *)
PushOAuths ==
  /\ saved # {}
  /\ \E pushed \in SUBSET OAuths : oauth' = pushed
  /\ UNCHANGED <<saved, original>>

(* Unmanage: the original comes back, then the copy is dropped.            *)
RestoreOriginal ==
  /\ oauth' \in saved
  /\ UNCHANGED <<saved, original>>

DropCopy ==
  /\ oauth \in saved
  /\ saved' = {}
  /\ UNCHANGED <<oauth, original>>

Step == Configure \/ SaveOriginal \/ PushOAuths \/ RestoreOriginal \/ DropCopy

Promise == Start /\ [][Step]_mgrVars

(* The original OAuth is on the cluster or in the copy kept of it: the     *)
(* comment of Unmanage, "restore the old configuration", depends on it.    *)
OriginalKept == oauth = original \/ saved = {original}

=============================================================================
