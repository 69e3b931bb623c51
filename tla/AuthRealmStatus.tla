--------------------------- MODULE AuthRealmStatus ---------------------------
(***************************************************************************)
(* The status of one AuthRealm, which five controllers write.              *)
(*                                                                         *)
(* The status holds a list of strategies, each with a list of clusters.    *)
(* The Strategy and Placement controllers write what concerns a strategy,  *)
(* the ClusterOAuth, ManifestWork and HypershiftDeployment controllers     *)
(* what concerns a cluster.  Each takes a copy of the AuthRealm from its   *)
(* cache, changes it, and sends the difference as a merge patch: a list    *)
(* that differs replaces the one there is, whatever others have written to *)
(* it since the copy was made.                                             *)
(*                                                                         *)
(* The first three reconcile their objects again when the informers        *)
(* resynchronise; the predicates of the last two let only events through   *)
(* that change the status of their objects.                                *)
(***************************************************************************)
EXTENDS Integers, Sequences, FiniteSets

CONSTANTS
  Strategies,  \* the Strategies of the AuthRealm
  Clusters,    \* managed clusters
  StrategyOf,  \* the Strategy through which the AuthRealm selects a cluster
  Values,      \* what there may be to report about an object of others
  Unset,       \* nothing reported
  Alien,       \* the status of a ManifestWork of some other product
  Nothing,     \* no object, no copy
  MaxCopies,   \* how many workers hold a copy at once, at most
  Scenarios    \* the sets of disturbances that a behaviour may meet

(***************************************************************************)
(* The disturbances:                                                       *)
(*   "race"      a copy of the AuthRealm is out of date when it is patched *)
(*   "fail"      a reconciliation may fail                                 *)
(*   "change"    what there is to report of the objects of others changes  *)
(*   "alien"     another product creates a ManifestWork for the cluster    *)
(*   "unselect"  a cluster is selected no longer                           *)
(*   "detach"    a hosted cluster is deleted                               *)
(***************************************************************************)
AllDisturbances == {"race", "fail", "change", "alien", "unselect", "detach"}

ASSUME ConstantsAssumption ==
  /\ StrategyOf \in [Clusters -> Strategies]
  /\ Values # {}
  /\ Unset \notin Values
  /\ Alien \notin Values \cup {Unset}
  /\ Nothing \notin Values \cup {Unset, Alien}
  /\ MaxCopies \in Nat \ {0}
  /\ Scenarios \subseteq SUBSET AllDisturbances

VARIABLES
  scenario,  \* the disturbances this behaviour may meet
  hosted,    \* the clusters that are hosted
  status,    \* the list of strategies in the status of the AuthRealm
  strategy,  \* the condition Applied of each Strategy
  placement, \* the status of the Placement of each Strategy
  oauth,     \* the ClusterOAuth of each cluster: phase, condition Applied
  work,      \* the status of the ManifestWork of each cluster
  hd,        \* the status of the HypershiftDeployment of each hosted cluster
  pending,   \* the events that the last two controllers have to handle
  copy       \* the workers: the copy each one holds, and what it will report

objVars == <<strategy, placement, oauth, work, hd>>
vars == <<scenario, hosted, status, strategy, placement, oauth, work, hd, pending, copy>>

May(d) == d \in scenario

Conditions == {"True", "False"}

(* The conditions with which a reconciliation ends.                        *)
Outcomes == IF May("fail") THEN Conditions ELSE {"True"}

(* What there is to report at first.                                       *)
First == CHOOSE v \in Values : TRUE

Controllers == {"Strategy", "Placement", "ClusterOAuth", "ManifestWork", "HypershiftDeployment"}

-----------------------------------------------------------------------------
(* The lists.                                                              *)

(* GetStrategyStatusIndex, GetClusterStatusIndex: 0 if there is none.      *)
Index(list, name) ==
  IF \E i \in DOMAIN list : list[i].name = name
  THEN CHOOSE i \in DOMAIN list : /\ list[i].name = name
                                  /\ \A j \in 1 .. i - 1 : list[j].name # name
  ELSE 0

NewStrategy(s) == [name |-> s, applied |-> Unset, placement |-> Unset, clusters |-> <<>>]
NewCluster(c) == [name |-> c, oauth |-> Unset, work |-> Unset, hd |-> Unset]

(* Mutated form of WithEntry: the entry is appended without a look at the  *)
(* list.                                                                   *)
WithEntryAppended(list, new) == Append(list, new)

(* Mutated form of WithEntry: an entry that there is gives way to the new. *)
WithFreshEntry(list, new) == Append(SelectSeq(list, LAMBDA e : e.name # new.name), new)

(* The entry that there is, or a new one at the end.                       *)
WithEntry(list, new) == IF Index(list, new.name) = 0 THEN Append(list, new) ELSE list

(* Mutated form of WithoutEntry: the slice starts one too late.            *)
WithoutEntryLate(list, name) ==
  IF Index(list, name) = 0 THEN list
  ELSE SubSeq(list, 1, Index(list, name)) \o SubSeq(list, Index(list, name) + 1, Len(list))

WithoutEntry(list, name) ==
  IF Index(list, name) = 0 THEN list
  ELSE SubSeq(list, 1, Index(list, name) - 1) \o SubSeq(list, Index(list, name) + 1, Len(list))

Has(list, c) == Index(list, StrategyOf[c]) # 0

ClustersOf(list, c) == list[Index(list, StrategyOf[c])].clusters

(* The list with other clusters for the Strategy of c.                     *)
WithClusters(list, c, clusters) == [list EXCEPT ![Index(list, StrategyOf[c])].clusters = clusters]

-----------------------------------------------------------------------------
(* The workers.                                                            *)

NoCluster == [phase |-> "none", applied |-> Unset]

Init ==
  /\ scenario \in Scenarios
  /\ hosted \in SUBSET Clusters
  /\ status = <<>>
  /\ strategy = [s \in Strategies |-> Unset]
  /\ placement = [s \in Strategies |-> First]
  /\ oauth = [c \in Clusters |-> NoCluster]
  /\ work = [c \in Clusters |-> Nothing]
  /\ hd = [c \in Clusters |-> IF c \in hosted THEN First ELSE Nothing]
  /\ pending = hosted \X {"own"}
  /\ copy = [w \in Controllers |-> Nothing]

(* A worker takes a copy of the AuthRealm, on behalf of an object.         *)
Copied(w, object, value) ==
  /\ copy[w] = Nothing
  /\ LET others == Cardinality({u \in Controllers : copy[u] # Nothing})
     IN others < IF May("race") THEN MaxCopies ELSE 1
  /\ copy' = [copy EXCEPT ![w] = [of |-> object, value |-> value, list |-> status]]

Dropped(w) == copy' = [copy EXCEPT ![w] = Nothing]

(* The merge patch is empty when the copy was not changed.                 *)
Patched(w, list) == status' = IF list = copy[w].list THEN status ELSE list

-----------------------------------------------------------------------------
(* The Strategy controller: every Reconcile ends in UpdateStrategyStatus-  *)
(* Conditions, which sets the condition of the Strategy first.             *)

ReconcileStrategy(s) ==
  /\ \E applied \in Outcomes : /\ strategy' = [strategy EXCEPT ![s] = applied]
                                 /\ Copied("Strategy", s, applied)
  /\ UNCHANGED <<scenario, hosted, status, placement, oauth, work, hd, pending>>

ReportStrategy ==
  /\ copy["Strategy"] # Nothing
  /\ LET new == WithEntry(copy["Strategy"].list, NewStrategy(copy["Strategy"].of))
         i == Index(new, copy["Strategy"].of)
     IN Patched("Strategy", [new EXCEPT ![i].applied = copy["Strategy"].value])
  /\ Dropped("Strategy")
  /\ UNCHANGED <<scenario, hosted, objVars, pending>>

(* The Placement controller: updateAuthRealmStatusPlacementStatus.         *)
ReconcilePlacement(s) ==
  /\ Copied("Placement", s, placement[s])
  /\ UNCHANGED <<scenario, hosted, status, objVars, pending>>

ReportPlacement ==
  /\ copy["Placement"] # Nothing
  /\ LET new == WithEntry(copy["Placement"].list, NewStrategy(copy["Placement"].of))
         i == Index(new, copy["Placement"].of)
     IN Patched("Placement", [new EXCEPT ![i].placement = copy["Placement"].value])
  /\ Dropped("Placement")
  /\ UNCHANGED <<scenario, hosted, objVars, pending>>

-----------------------------------------------------------------------------
(* The ClusterOAuth controller.                                            *)

(* A live ClusterOAuth is pushed, unless that fails, and its condition is  *)
(* set.  The ManifestWork, created or changed, has a new status.           *)
ReconcileOAuth(c) ==
  /\ oauth[c].phase = "live"
  /\ \E applied \in Outcomes :
       /\ oauth' = [oauth EXCEPT ![c].applied = applied]
       /\ Copied("ClusterOAuth", c, applied)
       /\ \/ /\ c \notin hosted
             /\ work[c] = Nothing \/ (work[c] \in Values /\ oauth[c].applied # "True")
             /\ work' = [work EXCEPT ![c] = First]
             /\ pending' = pending \cup {<<c, "own">>}
          \/ /\ \/ c \in hosted
                \/ applied = "False"
                \/ work[c] = Unset
                \/ work[c] # Nothing /\ oauth[c].applied = "True"
             /\ UNCHANGED <<work, pending>>
  /\ UNCHANGED <<scenario, hosted, status, strategy, placement, hd>>

(* updateAuthRealmStatusClusterOAuthConditions; an error without Strategy. *)
ReportOAuth ==
  /\ copy["ClusterOAuth"] # Nothing
  /\ copy["ClusterOAuth"].value # Nothing
  /\ LET c == copy["ClusterOAuth"].of
         list == copy["ClusterOAuth"].list
         new == WithEntry(ClustersOf(list, c), NewCluster(c))
     IN IF Has(list, c)
        THEN Patched("ClusterOAuth", WithClusters(list, c,
               [new EXCEPT ![Index(new, c)].oauth = copy["ClusterOAuth"].value]))
        ELSE UNCHANGED status
  /\ Dropped("ClusterOAuth")
  /\ UNCHANGED <<scenario, hosted, objVars, pending>>

(* A ClusterOAuth in deletion: deleteAuthRealmConditions.                  *)
ReconcileDeleted(c) ==
  /\ oauth[c].phase = "terminating"
  /\ Copied("ClusterOAuth", c, Nothing)
  /\ UNCHANGED <<scenario, hosted, status, objVars, pending>>

(* Then the cluster is unmanaged: that ends with the ClusterOAuth, and the *)
(* ManifestWork if no other AuthRealm uses it, or it is tried again, or it *)
(* fails and the failure is reported as the condition of the ClusterOAuth. *)
WithdrawReport ==
  /\ copy["ClusterOAuth"] # Nothing
  /\ copy["ClusterOAuth"].value = Nothing
  /\ LET c == copy["ClusterOAuth"].of
         list == copy["ClusterOAuth"].list
     IN /\ IF Has(list, c)
           THEN Patched("ClusterOAuth",
                        WithClusters(list, c, WithoutEntry(ClustersOf(list, c), c)))
           ELSE UNCHANGED status
        /\ \/ /\ oauth' = [oauth EXCEPT ![c] = NoCluster]
              /\ work' \in {work, [work EXCEPT ![c] = IF c \in hosted \/ @ = Nothing THEN @ ELSE Unset]}
              /\ pending' = IF work' = work THEN pending ELSE pending \cup {<<c, "own">>}
              /\ Dropped("ClusterOAuth")
           \/ Dropped("ClusterOAuth") /\ UNCHANGED <<oauth, work, pending>>
           \/ /\ oauth' = [oauth EXCEPT ![c].applied = "False"]
              /\ copy' = [copy EXCEPT !["ClusterOAuth"] =
                            [of |-> c, value |-> "False", list |-> status']]
              /\ UNCHANGED <<work, pending>>
  /\ UNCHANGED <<scenario, hosted, strategy, placement, hd>>

-----------------------------------------------------------------------------
(* The ManifestWork and HypershiftDeployment controllers.                  *)

Handled(c, which) == pending' = pending \ {<<c, which>>}

(* Nothing to report: the object is gone or no ClusterOAuth lives.         *)
HandleInVain(c, which) ==
  /\ <<c, which>> \in pending
  /\ \/ oauth[c].phase # "live"
     \/ which = "own" /\ (IF c \in hosted THEN hd[c] = Nothing ELSE work[c] = Nothing)
  /\ Handled(c, which)
  /\ UNCHANGED <<scenario, hosted, status, objVars, copy>>

(* A ManifestWork in deletion has an empty report.  That a ManifestWork    *)
(* has the name of those of this operator is tested for updates only.      *)
ReconcileWork(c, which) ==
  /\ c \notin hosted
  /\ <<c, which>> \in pending
  /\ oauth[c].phase = "live"
  /\ which = "own" => work[c] # Nothing
  /\ Copied("ManifestWork", c, IF which = "own" THEN work[c] ELSE Alien)
  /\ Handled(c, which)
  /\ UNCHANGED <<scenario, hosted, status, objVars>>

(* Mutated form of ReconcileHd: an object that is gone is reported.        *)
ReconcileHdGone(c) ==
  /\ c \in hosted
  /\ <<c, "own">> \in pending
  /\ oauth[c].phase = "live"
  /\ Copied("HypershiftDeployment", c, hd[c])
  /\ Handled(c, "own")
  /\ UNCHANGED <<scenario, hosted, status, objVars>>

ReconcileHd(c) ==
  /\ c \in hosted
  /\ <<c, "own">> \in pending
  /\ oauth[c].phase = "live"
  /\ hd[c] # Nothing
  /\ Copied("HypershiftDeployment", c, hd[c])
  /\ Handled(c, "own")
  /\ UNCHANGED <<scenario, hosted, status, objVars>>

(* Mutated form of Retried: the error is not returned.                     *)
GivenUp(c, which) == UNCHANGED pending

(* An error: the request is queued again.                                  *)
Retried(c, which) == pending' = pending \cup {<<c, which>>}

(* updateAuthRealmStatusManifestWorkConditions.                            *)
ReportWork ==
  /\ copy["ManifestWork"] # Nothing
  /\ LET c == copy["ManifestWork"].of
         list == copy["ManifestWork"].list
         value == copy["ManifestWork"].value
         i == Index(ClustersOf(list, c), c)
     IN IF Has(list, c) /\ i # 0
        THEN /\ Patched("ManifestWork", WithClusters(list, c,
                          [ClustersOf(list, c) EXCEPT ![i].work = value]))
             /\ UNCHANGED pending
        ELSE Retried(c, IF value = Alien THEN "alien" ELSE "own") /\ UNCHANGED status
  /\ Dropped("ManifestWork")
  /\ UNCHANGED <<scenario, hosted, objVars>>

(* updateAuthRealmStatusHypershiftDeploymentConditions: it reports on the  *)
(* ManifestWork of the hosted cluster too.                                 *)
ReportHd ==
  /\ copy["HypershiftDeployment"] # Nothing
  /\ LET c == copy["HypershiftDeployment"].of
         list == copy["HypershiftDeployment"].list
         value == copy["HypershiftDeployment"].value
         i == Index(ClustersOf(list, c), c)
     IN IF Has(list, c) /\ i # 0 /\ (value # Unset => work[c] # Nothing)
        THEN /\ Patched("HypershiftDeployment", WithClusters(list, c,
                          [ClustersOf(list, c) EXCEPT
                             ![i].hd = value,
                             ![i].work = IF value = Unset THEN Unset ELSE work[c]]))
             /\ UNCHANGED pending
        ELSE Retried(c, "own") /\ UNCHANGED status
  /\ Dropped("HypershiftDeployment")
  /\ UNCHANGED <<scenario, hosted, objVars>>

-----------------------------------------------------------------------------
(* The objects change.                                                     *)

(* The Placement controller creates and deletes ClusterOAuths.             *)
CreateOAuth(c) ==
  /\ oauth[c].phase = "none"
  /\ oauth' = [oauth EXCEPT ![c].phase = "live"]
  /\ UNCHANGED <<scenario, hosted, status, strategy, placement, work, hd, pending, copy>>

DeleteOAuth(c) ==
  /\ May("unselect")
  /\ oauth[c].phase = "live"
  /\ oauth' = [oauth EXCEPT ![c].phase = "terminating"]
  /\ UNCHANGED <<scenario, hosted, status, strategy, placement, work, hd, pending, copy>>

(* The scheduler, the agents and the operator of the hosted clusters.      *)
PlacementChanges(s) ==
  /\ May("change")
  /\ \E v \in Values \ {placement[s]} : placement' = [placement EXCEPT ![s] = v]
  /\ UNCHANGED <<scenario, hosted, status, strategy, oauth, work, hd, pending, copy>>

WorkChanges(c) ==
  /\ May("change")
  /\ work[c] \in Values
  /\ \E v \in Values \ {work[c]} : work' = [work EXCEPT ![c] = v]
  /\ pending' = IF c \in hosted THEN pending ELSE pending \cup {<<c, "own">>}
  /\ UNCHANGED <<scenario, hosted, status, strategy, placement, oauth, hd, copy>>

(* The operator of the hosted clusters creates their ManifestWorks.        *)
HostedWork(c) ==
  /\ c \in hosted
  /\ hd[c] \in Values
  /\ work[c] = Nothing
  /\ work' = [work EXCEPT ![c] = First]
  /\ UNCHANGED <<scenario, hosted, status, strategy, placement, oauth, hd, pending, copy>>

(* A ManifestWork in deletion is gone.                                     *)
WorkGone(c) ==
  /\ work[c] = Unset
  /\ work' = [work EXCEPT ![c] = Nothing]
  /\ UNCHANGED <<scenario, hosted, status, strategy, placement, oauth, hd, pending, copy>>

AlienWork(c) ==
  /\ May("alien")
  /\ c \notin hosted
  /\ pending' = pending \cup {<<c, "alien">>}
  /\ UNCHANGED <<scenario, hosted, status, objVars, copy>>

HdChanges(c) ==
  /\ May("change")
  /\ hd[c] \in Values
  /\ \E v \in Values \ {hd[c]} : hd' = [hd EXCEPT ![c] = v]
  /\ pending' = pending \cup {<<c, "own">>}
  /\ UNCHANGED <<scenario, hosted, status, strategy, placement, oauth, work, copy>>

HdGoes(c) ==
  /\ May("detach")
  /\ \/ /\ hd[c] \in Values
        /\ hd' = [hd EXCEPT ![c] = Unset]
        /\ pending' = pending \cup {<<c, "own">>}
     \/ /\ hd[c] = Unset
        /\ hd' = [hd EXCEPT ![c] = Nothing]
        /\ UNCHANGED pending
  /\ UNCHANGED <<scenario, hosted, status, strategy, placement, oauth, work, copy>>

-----------------------------------------------------------------------------
Resync == \/ \E s \in Strategies : ReconcileStrategy(s) \/ ReconcilePlacement(s)
          \/ \E c \in Clusters : ReconcileOAuth(c) \/ ReconcileDeleted(c)

Handle(c) == \/ \E which \in {"own", "alien"} : HandleInVain(c, which) \/ ReconcileWork(c, which)
             \/ ReconcileHd(c)

Report == ReportStrategy \/ ReportPlacement \/ ReportOAuth \/ WithdrawReport
          \/ ReportWork \/ ReportHd

Change == \/ \E s \in Strategies : PlacementChanges(s)
          \/ \E c \in Clusters : CreateOAuth(c) \/ DeleteOAuth(c) \/ WorkChanges(c) \/ WorkGone(c) \/ HostedWork(c)
                                 \/ AlienWork(c) \/ HdChanges(c) \/ HdGoes(c)

Next == Resync \/ (\E c \in Clusters : Handle(c)) \/ Report \/ Change

Spec == Init /\ [][Next]_vars

(* A worker goes on, and in the end turns to every object that is queued   *)
(* again and again.                                                        *)
Fairness ==
  /\ WF_vars(ReportStrategy) /\ WF_vars(ReportPlacement)
  /\ WF_vars(ReportOAuth \/ WithdrawReport) /\ WF_vars(ReportWork) /\ WF_vars(ReportHd)
  /\ \A s \in Strategies : SF_vars(ReconcileStrategy(s)) /\ SF_vars(ReconcilePlacement(s))
  /\ \A c \in Clusters : /\ SF_vars(ReconcileOAuth(c)) /\ SF_vars(ReconcileDeleted(c))
                         /\ SF_vars(ReconcileWork(c, "own")) /\ SF_vars(ReconcileHd(c))

FairSpec == Spec /\ Fairness

-----------------------------------------------------------------------------
(* Properties.                                                             *)

ClusterEntries == [name : Clusters, oauth : Conditions \cup {Unset},
                   work : Values \cup {Unset, Alien}, hd : Values \cup {Unset}]

StrategyEntries == [name : Strategies, applied : Conditions \cup {Unset},
                    placement : Values \cup {Unset}, clusters : Seq(ClusterEntries)]

Lists == Seq(StrategyEntries)

(* What each controller reports.                                           *)
Reports == [Strategy |-> Conditions, Placement |-> Values,
            ClusterOAuth |-> Conditions \cup {Nothing},
            ManifestWork |-> Values \cup {Unset, Alien},
            HypershiftDeployment |-> Values \cup {Unset}]

Objects(w) == IF w \in {"Strategy", "Placement"} THEN Strategies ELSE Clusters

Copies(w) == [of : Objects(w), value : Reports[w], list : Lists]

(* The variables have the values that the controllers give them.           *)
TypeOK ==
  /\ scenario \in Scenarios
  /\ hosted \subseteq Clusters
  /\ status \in Lists
  /\ strategy \in [Strategies -> Conditions \cup {Unset}]
  /\ placement \in [Strategies -> Values]
  /\ oauth \in [Clusters -> [phase : {"none", "live", "terminating"},
                            applied : Conditions \cup {Unset}]]
  /\ work \in [Clusters -> Values \cup {Unset, Nothing}]
  /\ hd \in [Clusters -> Values \cup {Unset, Nothing}]
  /\ pending \subseteq Clusters \X {"own", "alien"}
  /\ copy = [w \in Controllers |-> copy[w]]
  /\ \A w \in Controllers : copy[w] # Nothing => copy[w] \in Copies(w)

(* Each strategy and each cluster has one entry, however the controllers   *)
(* that look for it and append it follow each other.                       *)
Unique(list) == \A i, j \in DOMAIN list : list[i].name = list[j].name => i = j

UniqueEntries == Unique(status) /\ \A i \in DOMAIN status : Unique(status[i].clusters)

(* What the status shows of a strategy and of a cluster.                   *)
Shows(s, field, v) == Index(status, s) # 0 /\ status[Index(status, s)][field] = v

Entry(c) == Index(ClustersOf(status, c), c)

Listed(c) == Has(status, c) /\ Entry(c) # 0

ShowsOf(c, field, v) == Listed(c) /\ ClustersOf(status, c)[Entry(c)][field] = v

(* What a Strategy, a Placement and a ClusterOAuth settle on is shown      *)
(* again and again, whatever other controllers overwrite meanwhile, and in *)
(* the end always if no copy is out of date.                               *)
StrategiesShown ==
  \A s \in Strategies : \A v \in Conditions :
    <>[](strategy[s] = v) => /\ []<>Shows(s, "applied", v)
                             /\ ~May("race") => <>[]Shows(s, "applied", v)

PlacementsShown ==
  \A s \in Strategies : \A v \in Values :
    <>[](placement[s] = v) => /\ []<>Shows(s, "placement", v)
                              /\ ~May("race") => <>[]Shows(s, "placement", v)

OAuthsShown ==
  \A c \in Clusters : \A v \in Conditions :
    <>[](oauth[c].phase = "live" /\ oauth[c].applied = v) =>
      /\ []<>ShowsOf(c, "oauth", v)
      /\ ~May("race") => <>[]ShowsOf(c, "oauth", v)

(* The status of a ManifestWork that carries an applied ClusterOAuth comes *)
(* to be shown too, but only if no report is lost: nothing brings it here  *)
(* a second time.                                                          *)
WorksShown ==
  scenario \cap {"race", "alien"} = {} =>
    \A c \in Clusters : \A v \in Values :
      <>[](c \notin hosted /\ oauth[c].phase = "live" /\ oauth[c].applied = "True" /\ work[c] = v)
        => <>[]ShowsOf(c, "work", v)

(* And so does what a HypershiftDeployment changes to while the cluster    *)
(* has a ClusterOAuth, even one that is not listed yet.  What it changed   *)
(* to before is never shown.                                               *)
HdsShown ==
  ~May("race") =>
    \A c \in Clusters : \A v \in Values :
      <>(<<c, "own">> \in pending /\ [](/\ c \in hosted /\ hd[c] = v
                                  /\ oauth[c].phase = "live"
                                  /\ work[c] # Nothing))
        => <>[]ShowsOf(c, "hd", v)

(* A cluster without a ClusterOAuth is listed no longer, unless a report   *)
(* of another controller brings its entry back.                            *)
Withdrawn ==
  ~May("race") => \A c \in Clusters : <>[](oauth[c].phase = "none") => <>[]~Listed(c)

=============================================================================
