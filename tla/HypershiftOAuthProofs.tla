------------------------ MODULE HypershiftOAuthProofs ------------------------
(***************************************************************************)
(* Proofs about HypershiftOAuth, for any set of ClusterOAuths, any set of  *)
(* disturbances and any other configuration objects, named as they may be. *)
(***************************************************************************)
EXTENDS HypershiftOAuth, FiniteSetTheorems, SequenceTheorems, TLAPS

-----------------------------------------------------------------------------
(* The inductive invariant, in every scenario.                             *)

(* A ClusterOAuth that may be in the configuration is live in the cache.   *)
ManagedIsSeen ==
  \A c \in OAuths : co[c].phase = "live" /\ co[c].fin => seen[c].phase = "live"

(* Only ClusterOAuths with a finalizer are reported as applied.            *)
ObjectShape ==
  \A c \in OAuths : /\ co[c].applied => co[c].fin
                    /\ co[c].fin => co[c].phase # "none"
                    /\ co[c].phase = "terminating" => co[c].fin

(* The worker and the ClusterOAuth it works for.                           *)
WorkerShape ==
  /\ pc \in {"save", "push", "report"} => co[cur].fin
  /\ pc = "copy" /\ push.next = "report" => co[cur].fin
  /\ pc = "report" /\ co[cur].phase = "live" => Pushed(cur)
  /\ pc = "restore" => \A c \in OAuths : ~(co[c].phase = "live" /\ co[c].fin)

(* What a push has listed and what it has copied.                          *)
PushShape ==
  pc = "copy" => /\ \A c \in OAuths : co[c].phase = "live" /\ co[c].fin => c \in push.oauths
                 /\ push.oauths \ push.todo \subseteq copies

(* The configuration objects whose providers all have their secret.        *)
Item == OtherObjects \cup Content

Supplied == {x \in Item : x \notin Others => OAuths \cap x \subseteq refs \cap copies}

(* They may be anywhere: Unmanage moves them, and what Save takes for the  *)
(* OAuth may be a pushed one.                                              *)
ItemsHaveSecrets == items \in Seq(Supplied)

BackupHasSecrets ==
  backup \notin {Absent, Nothing} => Matches(backup) /\ backup \in Supplied

IInv ==
  /\ TypeOK
  /\ ManagedIsSeen
  /\ ObjectShape
  /\ WorkerShape
  /\ PushShape
  /\ ItemsHaveSecrets
  /\ BackupHasSecrets
  /\ AppliedIsPushed

-----------------------------------------------------------------------------
(* The configuration objects that occur once in a configuration.           *)

OnceIn(s, x) == \E i \in DOMAIN s : \A j \in DOMAIN s : s[j] = x <=> j = i

(* Whatever happens, the objects that are not named as the OAuth is stay.  *)
KeptIn(s) ==
  /\ \A x \in OtherObjects \ Namesakes : OnceIn(s, x)
  /\ ~May("namesake") => \A i, j \in DOMAIN s : {s[i], s[j]} \cap Others = {} => i = j

(* What the administrator configured, and nothing else.                    *)
WholeFor(s, own) == (\A x \in own : OnceIn(s, x)) /\ (\A i \in DOMAIN s : s[i] \in own)

WholeIn(s) == WholeFor(s, Own)

-----------------------------------------------------------------------------
(* The inductive invariant of the scenarios in which a Reconcile comes to  *)
(* its end and reads what is there.                                        *)

(* A live ClusterOAuth loses its secret after it was applied.              *)
SecretShape ==
  \A c \in OAuths : co[c].phase = "live" /\ c \notin secrets => co[c].fin

(* The worker is about to remove the last finalizer.                       *)
Leaving(c) == cur = c /\ pc \in {"dropBackup", "unfinalize"}

(* What was applied was saved before, and stays so until it is restored.   *)
Managed(c) ==
  \/ co[c].phase = "terminating"
  \/ co[c].phase = "live" /\ (co[c].applied \/ c \notin secrets)

SavedFirst ==
  /\ \A c \in OAuths : Managed(c) => (backup # Nothing /\ Found # {}) \/ Leaving(c)
  /\ pc \in {"push", "copy", "report"} => backup # Nothing
  /\ pc = "report" => Found # {}

(* The configuration as Restore makes it.                                  *)
RestoredItems == IF Found = {} THEN items
                 ELSE IF backup = Absent THEN WithoutOAuth
                 ELSE [items EXCEPT ![Index] = backup]

(* With the copy in its place, the configuration is what the administrator *)
(* configured; the OAuth of the copy, if any, is there or a pushed one is. *)
BackupShape ==
  /\ backup = Nothing => WholeIn(items)
  /\ backup # Nothing => WholeIn(RestoredItems)
  /\ backup # Nothing /\ Found = {} => backup = Absent
  /\ backup # Nothing /\ Found # {} => OAuth = backup \/ OAuth \in SUBSET OAuths
  /\ backup = Absent => \A x \in Own : ~Matches(x)
  /\ pc = "dropBackup" => WholeIn(items) /\ backup # Nothing

(* The copy outlives the last ClusterOAuth in no case.                     *)
LastShape ==
  /\ backup # Nothing => Existing(co) # {}
  /\ pc = "unmanage" => co[cur].phase = "terminating"
  /\ pc \in {"restore", "dropBackup"} =>
       /\ co[cur].phase = "terminating"
       /\ \A c \in OAuths \ {cur} : ~Managed(c) /\ ~co[c].fin
  /\ pc = "copy" /\ push.next = "unfinalize" =>
       co[cur].phase = "terminating" /\ Existing(co) # {cur}
  /\ pc = "unfinalize" =>
       /\ co[cur].phase = "terminating"
       /\ \/ backup # Nothing /\ Existing(co) # {cur}
          \/ /\ backup = Nothing
             /\ \A c \in OAuths \ {cur} : ~Managed(c) /\ ~co[c].fin

ReliableShape ==
  /\ seen = co
  /\ SecretShape
  /\ SavedFirst
  /\ BackupShape
  /\ LastShape

ReliableInv == Reliable => ReliableShape

-----------------------------------------------------------------------------
(* The configuration: the position of the OAuth, and what becomes of it    *)
(* when the OAuth is replaced or taken away.                               *)

At(s) == {i \in DOMAIN s : Matches(s[i])}

First(s) == CHOOSE i \in At(s) : \A j \in At(s) : i <= j

OAuthOf(s) == IF At(s) = {} THEN Absent ELSE s[First(s)]

LEMMA Least ==
  ASSUME NEW S \in SUBSET Nat, S # {}
  PROVE  \E i \in S : \A j \in S : i <= j
<1> DEFINE Below == {0 .. i : i \in S}
<1>1. \A i \in Nat : 0 .. i \in FiniteSubsetsOf(Nat)
  BY FS_Interval DEF FiniteSubsetsOf
<1>2. Below # {} /\ Below \subseteq FiniteSubsetsOf(Nat)
  BY <1>1
<1>3. PICK b \in Below : \A a \in Below : <<a, b>> \notin StrictSubsetOrdering(Nat)
  BY <1>2, FS_StrictSubsetOrderingWellFounded, WFMin, Zenon
<1>4. PICK i \in S : b = 0 .. i
  BY <1>3
<1>5. ASSUME NEW j \in S, j < i PROVE FALSE
  <2>1. 0 .. j \subseteq 0 .. i /\ 0 .. j # 0 .. i
    BY <1>5
  <2>2. <<0 .. j, b>> \in StrictSubsetOrdering(Nat)
    BY <1>4, <2>1 DEF StrictSubsetOrdering
  <2> QED
    BY <1>3, <2>2
<1> QED
  BY <1>5

LEMMA Now ==
  /\ Found = At(items)
  /\ Index = First(items)
  /\ OAuth = OAuthOf(items)
<1>1. Found = At(items)
  BY DEF Found, At
<1>2. Index = First(items)
  BY <1>1 DEF Index, First
<1> QED
  BY <1>1, <1>2 DEF OAuth, OAuthOf

LEMMA Then ==
  /\ Found' = At(items')
  /\ Index' = First(items')
  /\ OAuth' = OAuthOf(items')
<1>1. Found' = At(items')
  BY DEF Found, At, Matches
<1>2. Index' = First(items')
  BY <1>1 DEF Index, First
<1> QED
  BY <1>1, <1>2 DEF OAuth, OAuthOf

LEMMA FirstIsFirst ==
  ASSUME NEW G, NEW s \in Seq(G), At(s) # {}
  PROVE  /\ First(s) \in At(s)
         /\ First(s) \in 1 .. Len(s)
         /\ \A j \in At(s) : First(s) <= j
         /\ OAuthOf(s) = s[First(s)]
         /\ OAuthOf(s) \in G
         /\ Matches(OAuthOf(s))
<1>1. DOMAIN s = 1 .. Len(s) /\ Len(s) \in Nat
  BY LenProperties
<1>2. At(s) \in SUBSET Nat
  BY <1>1 DEF At
<1>3. PICK i \in At(s) : \A j \in At(s) : i <= j
  BY <1>2, Least
<1>4. First(s) \in At(s) /\ \A j \in At(s) : First(s) <= j
  BY <1>3 DEF First
<1>5. First(s) \in 1 .. Len(s) /\ Matches(s[First(s)])
  BY <1>1, <1>4 DEF At
<1> QED
  BY <1>4, <1>5, ElementOfSeq DEF OAuthOf

LEMMA Replaced ==
  ASSUME NEW G, NEW s \in Seq(G), NEW k \in 1 .. Len(s), NEW x \in G
  PROVE  LET t == [s EXCEPT ![k] = x]
         IN /\ t \in Seq(G)
            /\ DOMAIN t = DOMAIN s
            /\ \A j \in DOMAIN t : t[j] = IF j = k THEN x ELSE s[j]
BY ExceptSeq, LenProperties

(* What matches is found where the OAuth was.                              *)
LEMMA FirstReplaced ==
  ASSUME NEW G, NEW s \in Seq(G), At(s) # {}, NEW x \in G, Matches(x)
  PROVE  LET t == [s EXCEPT ![First(s)] = x]
         IN At(t) = At(s) /\ First(t) = First(s) /\ OAuthOf(t) = x
<1> DEFINE k == First(s)
           t == [s EXCEPT ![k] = x]
<1>1. k \in 1 .. Len(s) /\ k \in At(s)
  BY FirstIsFirst
<1>2. DOMAIN t = DOMAIN s /\ \A j \in DOMAIN t : t[j] = IF j = k THEN x ELSE s[j]
  BY <1>1, Replaced
<1> HIDE DEF k, t
<1>3. At(t) = At(s)
  BY <1>1, <1>2 DEF At
<1>4. First(t) = k
  BY <1>3 DEF First, k
<1>5. k \in DOMAIN t
  BY <1>1, <1>2 DEF At
<1> QED
  BY <1>1, <1>2, <1>3, <1>4, <1>5 DEF k, t, OAuthOf

LEMMA Appended ==
  ASSUME NEW G, NEW s \in Seq(G), NEW x \in G
  PROVE  LET t == Append(s, x)
         IN /\ t \in Seq(G)
            /\ Len(s) \in Nat
            /\ DOMAIN s = 1 .. Len(s)
            /\ DOMAIN t = 1 .. Len(s) + 1
            /\ \A j \in DOMAIN s : t[j] = s[j]
            /\ t[Len(s) + 1] = x
BY AppendProperties, LenProperties

LEMMA FirstAppended ==
  ASSUME NEW G, NEW s \in Seq(G), At(s) = {}, NEW x \in G, Matches(x)
  PROVE  LET t == Append(s, x)
         IN At(t) = {Len(s) + 1} /\ First(t) = Len(s) + 1 /\ OAuthOf(t) = x
<1> DEFINE t == Append(s, x)
<1>1. /\ Len(s) \in Nat
      /\ DOMAIN s = 1 .. Len(s)
      /\ DOMAIN t = 1 .. Len(s) + 1
      /\ \A j \in DOMAIN s : t[j] = s[j]
      /\ t[Len(s) + 1] = x
  BY Appended
<1> HIDE DEF t
<1>2. At(t) = {Len(s) + 1}
  BY <1>1 DEF At
<1>3. First(t) = Len(s) + 1
  BY <1>1, <1>2 DEF First
<1> QED
  BY <1>1, <1>2, <1>3 DEF t, OAuthOf

(* Every item that is left was there, but the one that was taken away.     *)
LEMMA TakenAway ==
  ASSUME NEW G, NEW s \in Seq(G), NEW k \in 1 .. Len(s)
  PROVE  LET t == SubSeq([s EXCEPT ![k] = s[Len(s)]], 1, Len(s) - 1)
         IN /\ t \in Seq(G)
            /\ Len(s) \in Nat
            /\ DOMAIN s = 1 .. Len(s)
            /\ DOMAIN t = 1 .. Len(s) - 1
            /\ \A j \in DOMAIN t : t[j] = s[IF j = k THEN Len(s) ELSE j]
<1> DEFINE n == Len(s)
           moved == [s EXCEPT ![k] = s[n]]
           t == SubSeq(moved, 1, n - 1)
<1>1. n \in Nat /\ k \in 1 .. n /\ DOMAIN s = 1 .. n
  BY LenProperties
<1>2. s[n] \in G
  BY <1>1, ElementOfSeq
<1>3. moved \in Seq(G) /\ \A j \in 1 .. n : moved[j] = s[IF j = k THEN n ELSE j]
  BY <1>1, <1>2, ExceptSeq
<1> HIDE DEF moved
<1>4. \A j \in 1 .. n - 1 : moved[j] \in G
  BY <1>1, <1>2, <1>3, ElementOfSeq
<1>5. /\ t \in Seq(G)
      /\ Len(t) = IF 1 <= n - 1 THEN (n - 1) - 1 + 1 ELSE 0
      /\ \A j \in 1 .. (n - 1) - 1 + 1 : t[j] = moved[1 + j - 1]
  BY <1>1, <1>4, SubSeqProperties
<1> HIDE DEF n, t
<1>6. \A j \in 1 .. n - 1 : 1 + j - 1 = j
  OBVIOUS
<1>7. Len(t) = n - 1 /\ (n - 1) - 1 + 1 = n - 1
  BY <1>1, <1>5
<1>8. DOMAIN t = 1 .. n - 1 /\ \A j \in DOMAIN t : t[j] = moved[j]
  BY <1>5, <1>6, <1>7, LenProperties
<1>9. \A j \in DOMAIN t : t[j] = s[IF j = k THEN n ELSE j]
  BY <1>1, <1>3, <1>8
<1> QED
  BY <1>1, <1>5, <1>8, <1>9 DEF n, moved, t

-----------------------------------------------------------------------------
(* What becomes of the other items.                                        *)

LEMMA ReplacedOnce ==
  ASSUME NEW G, NEW s \in Seq(G), NEW k \in 1 .. Len(s), NEW y \in G,
         NEW x, x # s[k], x # y
  PROVE  OnceIn([s EXCEPT ![k] = y], x) <=> OnceIn(s, x)
<1> DEFINE t == [s EXCEPT ![k] = y]
<1>1. DOMAIN t = DOMAIN s /\ \A j \in DOMAIN t : t[j] = IF j = k THEN y ELSE s[j]
  BY Replaced
<1> HIDE DEF t
<1>2. \A j \in DOMAIN s : t[j] = x <=> s[j] = x
  BY <1>1
<1> QED
  BY <1>1, <1>2 DEF OnceIn, t

LEMMA AppendedOnce ==
  ASSUME NEW G, NEW s \in Seq(G), NEW y \in G, NEW x, x # y, OnceIn(s, x)
  PROVE  OnceIn(Append(s, y), x)
<1> DEFINE t == Append(s, y)
<1>1. /\ Len(s) \in Nat
      /\ DOMAIN s = 1 .. Len(s)
      /\ DOMAIN t = 1 .. Len(s) + 1
      /\ \A j \in DOMAIN s : t[j] = s[j]
      /\ t[Len(s) + 1] = y
  BY Appended
<1> HIDE DEF t
<1>2. PICK i \in DOMAIN s : \A j \in DOMAIN s : s[j] = x <=> j = i
  BY DEF OnceIn
<1>3. i \in DOMAIN t /\ \A j \in DOMAIN t : t[j] = x <=> j = i
  BY <1>1, <1>2
<1> QED
  BY <1>3 DEF OnceIn, t

LEMMA TakenAwayOnce ==
  ASSUME NEW G, NEW s \in Seq(G), NEW k \in 1 .. Len(s), NEW x, x # s[k]
  PROVE  LET t == SubSeq([s EXCEPT ![k] = s[Len(s)]], 1, Len(s) - 1)
         IN OnceIn(t, x) <=> OnceIn(s, x)
<1> DEFINE n == Len(s)
           t == SubSeq([s EXCEPT ![k] = s[n]], 1, n - 1)
           from(j) == IF j = k THEN n ELSE j
           to(i) == IF i = n THEN k ELSE i
<1>1. /\ n \in Nat
      /\ DOMAIN s = 1 .. n
      /\ DOMAIN t = 1 .. n - 1
      /\ \A j \in 1 .. n - 1 : t[j] = s[from(j)]
  BY TakenAway
<1> HIDE DEF n, t
<1>2. ASSUME NEW i \in 1 .. n, \A j \in 1 .. n : s[j] = x <=> j = i
      PROVE  to(i) \in 1 .. n - 1 /\ \A j \in 1 .. n - 1 : t[j] = x <=> j = to(i)
  <2>1. i # k /\ k \in 1 .. n
    BY <1>2 DEF n
  <2>2. to(i) \in 1 .. n - 1
    BY <1>1, <2>1
  <2>3. \A j \in 1 .. n - 1 : from(j) \in 1 .. n /\ (from(j) = i <=> j = to(i))
    BY <1>1, <2>1
  <2> QED
    BY <1>1, <1>2, <2>2, <2>3
<1>3. ASSUME NEW i \in 1 .. n - 1, \A j \in 1 .. n - 1 : t[j] = x <=> j = i
      PROVE  from(i) \in 1 .. n /\ \A j \in 1 .. n : s[j] = x <=> j = from(i)
  <2>1. k \in 1 .. n /\ s[k] # x
    BY DEF n
  <2>2. from(i) \in 1 .. n /\ from(i) # k
    BY <1>1, <2>1
  <2>3. \A j \in 1 .. n : j # k =>
          to(j) \in 1 .. n - 1 /\ from(to(j)) = j /\ (to(j) = i <=> j = from(i))
    BY <1>1, <2>1
  <2>4. \A j \in 1 .. n : j # k => (s[j] = x <=> j = from(i))
    <3> SUFFICES ASSUME NEW j \in 1 .. n, j # k PROVE s[j] = x <=> j = from(i)
      OBVIOUS
    <3> HIDE DEF to, from
    <3>1. t[to(j)] = s[j]
      BY <1>1, <2>3
    <3> QED
      BY <1>3, <2>3, <3>1
  <2> HIDE DEF from
  <2> QED
    BY <2>1, <2>2, <2>4
<1> HIDE DEF to, from
<1>4. OnceIn(s, x) <=> \E i \in 1 .. n : \A j \in 1 .. n : s[j] = x <=> j = i
  BY <1>1 DEF OnceIn
<1>5. OnceIn(t, x) <=> \E i \in 1 .. n - 1 : \A j \in 1 .. n - 1 : t[j] = x <=> j = i
  BY <1>1 DEF OnceIn
<1>6. ASSUME OnceIn(s, x) PROVE OnceIn(t, x)
  <2>1. PICK i \in 1 .. n : \A j \in 1 .. n : s[j] = x <=> j = i
    BY <1>4, <1>6
  <2>2. to(i) \in 1 .. n - 1 /\ \A j \in 1 .. n - 1 : t[j] = x <=> j = to(i)
    BY <1>2, <2>1
  <2> QED
    BY <1>5, <2>2
<1>7. ASSUME OnceIn(t, x) PROVE OnceIn(s, x)
  <2>1. PICK i \in 1 .. n - 1 : \A j \in 1 .. n - 1 : t[j] = x <=> j = i
    BY <1>5, <1>7
  <2>2. from(i) \in 1 .. n /\ \A j \in 1 .. n : s[j] = x <=> j = from(i)
    BY <1>3, <2>1
  <2> QED
    BY <1>4, <2>2
<1> QED
  BY <1>6, <1>7 DEF n, t

LEMMA NowKept ==
  OthersKept <=> /\ KeptIn(items)
                 /\ Reliable => \A x \in OtherObjects : OnceIn(items, x) \/ backup = x
BY DEF OthersKept, KeptIn, Once, OnceIn

(* Without namesakes, what matches is an OAuth.                            *)
LEMMA OnlyOAuthMatches ==
  ASSUME ~May("namesake"), NEW x \in Item
  PROVE  Matches(x) <=> x \notin Others
BY ConstantsAssumption DEF Matches, Item, OtherObjects

LEMMA StaysPut ==
  ASSUME NEW x \in OtherObjects \ Namesakes
  PROVE  ~Matches(x)
BY DEF Matches, OtherObjects

LEMMA ReplacedKeeps ==
  ASSUME NEW s \in Seq(Item), KeptIn(s), NEW k \in 1 .. Len(s), Matches(s[k]),
         NEW y \in Item, Matches(y)
  PROVE  KeptIn([s EXCEPT ![k] = y])
<1> DEFINE t == [s EXCEPT ![k] = y]
<1>1. DOMAIN s = 1 .. Len(s) /\ DOMAIN t = DOMAIN s
      /\ \A j \in DOMAIN t : t[j] = IF j = k THEN y ELSE s[j]
  BY Replaced, LenProperties
<1>2. \A x \in OtherObjects \ Namesakes : OnceIn(t, x)
  BY StaysPut, ReplacedOnce DEF KeptIn
<1> HIDE DEF t
<1>3. ~May("namesake") => s[k] \notin Others
  BY ElementOfSeq, OnlyOAuthMatches
<1>4. ASSUME ~May("namesake"), NEW i \in DOMAIN t, NEW j \in DOMAIN t,
             {t[i], t[j]} \cap Others = {}
      PROVE  i = j
  BY <1>1, <1>3, <1>4 DEF KeptIn
<1> QED
  BY <1>2, <1>4 DEF KeptIn, t

LEMMA AppendedKeeps ==
  ASSUME NEW s \in Seq(Item), KeptIn(s), \A j \in DOMAIN s : s[j] \in Others,
         NEW y \in Content
  PROVE  KeptIn(Append(s, y))
<1> DEFINE t == Append(s, y)
<1>a. y \notin Others /\ y \in Item
  BY ConstantsAssumption DEF Item
<1>1. /\ Len(s) \in Nat
      /\ DOMAIN s = 1 .. Len(s)
      /\ DOMAIN t = 1 .. Len(s) + 1
      /\ \A j \in DOMAIN s : t[j] = s[j]
      /\ t[Len(s) + 1] = y
  BY <1>a, Appended
<1>2. \A x \in OtherObjects \ Namesakes : OnceIn(t, x)
  <2>1. \A x \in OtherObjects \ Namesakes : x # y
    BY <1>a DEF OtherObjects
  <2> QED
    BY <1>a, <2>1, AppendedOnce DEF KeptIn
<1> HIDE DEF t
<1>3. \A i, j \in DOMAIN t : {t[i], t[j]} \cap Others = {} => i = j
  BY <1>1
<1> QED
  BY <1>2, <1>3 DEF KeptIn, t

LEMMA TakenAwayKeeps ==
  ASSUME NEW s \in Seq(Item), KeptIn(s), NEW k \in 1 .. Len(s), Matches(s[k])
  PROVE  KeptIn(SubSeq([s EXCEPT ![k] = s[Len(s)]], 1, Len(s) - 1))
<1> DEFINE n == Len(s)
           t == SubSeq([s EXCEPT ![k] = s[n]], 1, n - 1)
           from(j) == IF j = k THEN n ELSE j
<1>1. /\ n \in Nat
      /\ DOMAIN s = 1 .. n
      /\ DOMAIN t = 1 .. n - 1
      /\ \A j \in 1 .. n - 1 : t[j] = s[from(j)]
  BY TakenAway
<1>2. \A x \in OtherObjects \ Namesakes : OnceIn(t, x)
  BY StaysPut, TakenAwayOnce DEF KeptIn
<1> HIDE DEF t
<1>3. ASSUME ~May("namesake"), NEW i \in DOMAIN t, NEW j \in DOMAIN t,
             {t[i], t[j]} \cap Others = {}
      PROVE  i = j
  <2>1. from(i) \in 1 .. n /\ from(j) \in 1 .. n /\ {s[from(i)], s[from(j)]} \cap Others = {}
    BY <1>1, <1>3
  <2>2. from(i) = from(j)
    BY <1>1, <1>3, <2>1 DEF KeptIn
  <2> QED
    BY <1>1, <2>2
<1> QED
  BY <1>2, <1>3 DEF KeptIn, t

-----------------------------------------------------------------------------
(* What a step does to the configuration.                                  *)

LEMMA ContentIsItem ==
  ASSUME NEW x \in Content
  PROVE  x \in Item /\ x \notin Others \cup {Absent, Nothing} /\ Matches(x)
BY ConstantsAssumption DEF Item, Matches

LEMMA OthersAreItems ==
  /\ OtherObjects \subseteq Others
  /\ Absent \notin Item /\ Nothing \notin Item
BY ConstantsAssumption, Zenon DEF Item, OtherObjects, Content

LEMMA AdminIsContent == {Admin} \in Content /\ OAuths \cap {Admin} = {}
BY ConstantsAssumption DEF Content

LEMMA WithOAuthIs ==
  ASSUME NEW G, items \in Seq(G), NEW x \in G
  PROVE  /\ WithOAuth(x) \in Seq(G)
         /\ Matches(x) => At(WithOAuth(x)) # {} /\ OAuthOf(WithOAuth(x)) = x
<1>1. Found = At(items) /\ Index = First(items)
  BY Now
<1>2. CASE At(items) = {}
  <2>1. WithOAuth(x) = Append(items, x)
    BY <1>1, <1>2 DEF WithOAuth
  <2>2. Append(items, x) \in Seq(G)
    BY Appended
  <2>3. Matches(x) => /\ At(Append(items, x)) = {Len(items) + 1}
                      /\ OAuthOf(Append(items, x)) = x
    BY <1>2, FirstAppended
  <2> QED
    BY <2>1, <2>2, <2>3
<1>3. CASE At(items) # {}
  <2>1. WithOAuth(x) = [items EXCEPT ![First(items)] = x]
    BY <1>1, <1>3 DEF WithOAuth
  <2>2. [items EXCEPT ![First(items)] = x] \in Seq(G)
    BY <1>3, FirstIsFirst, Replaced
  <2>3. Matches(x) => LET t == [items EXCEPT ![First(items)] = x]
                      IN At(t) = At(items) /\ OAuthOf(t) = x
    BY <1>3, FirstReplaced
  <2> QED
    BY <1>3, <2>1, <2>2, <2>3
<1> QED
  BY <1>2, <1>3

LEMMA WithoutItemIs ==
  ASSUME NEW G, items \in Seq(G), NEW i \in DOMAIN items
  PROVE  WithoutItem(i) \in Seq(G)
BY TakenAway, LenProperties DEF WithoutItem

LEMMA FoundIsItem ==
  ASSUME NEW G, items \in Seq(G), Found # {}
  PROVE  Index \in 1 .. Len(items) /\ Index \in DOMAIN items /\ Matches(items[Index])
         /\ OAuth = items[Index]
BY Now, FirstIsFirst, LenProperties DEF OAuth

LEMMA WithoutOAuthIs ==
  ASSUME NEW G, items \in Seq(G), Found # {}
  PROVE  WithoutOAuth \in Seq(G)
BY FoundIsItem, WithoutItemIs DEF WithoutOAuth

LEMMA WithOAuthKeeps ==
  ASSUME items \in Seq(Item), KeptIn(items), NEW x \in Item, Matches(x),
         Found = {} => x \in Content
  PROVE  KeptIn(WithOAuth(x))
<1>1. CASE Found = {}
  <2>1. \A j \in DOMAIN items : items[j] \in Others
    BY <1>1 DEF Found, Matches
  <2> QED
    BY <1>1, <2>1, AppendedKeeps DEF WithOAuth
<1>2. CASE Found # {}
  BY <1>2, FoundIsItem, ReplacedKeeps DEF WithOAuth
<1> QED
  BY <1>1, <1>2

LEMMA WithoutOAuthKeeps ==
  ASSUME items \in Seq(Item), KeptIn(items), Found # {}
  PROVE  KeptIn(WithoutOAuth)
BY FoundIsItem, TakenAwayKeeps DEF WithoutOAuth, WithoutItem

(* What searchConfiguration returns.                                       *)
LEMMA OAuthIsItem ==
  ASSUME NEW G, items \in Seq(G), OAuth # Absent
  PROVE  OAuth \in G /\ Matches(OAuth)
BY Now, FirstIsFirst DEF OAuthOf

LEMMA NothingIsNoOAuth ==
  ASSUME TypeOK
  PROVE  OAuth # Nothing
<1>1. items \in Seq(Item)
  BY DEF TypeOK, Item
<1> QED
  BY <1>1, OAuthIsItem, OthersAreItems, ConstantsAssumption

(* The OAuth changes with the configuration only.                          *)
LEMMA OAuthStays ==
  ASSUME UNCHANGED items
  PROVE  OAuth' = OAuth /\ Found' = Found /\ Index' = Index
BY Now, Then

(* The steps that write the HypershiftDeployment.                          *)
LEMMA ConfigurationSteps ==
  ASSUME [Next]_vars
  PROVE  \/ UpdateHd \/ Restore \/ Configure
         \/ UNCHANGED items /\ refs \subseteq refs' /\ copies \subseteq copies'
BY DEF Next, vars, apiVars, hdVars, Worker, Take, Continue, Placement, Forget, Manage,
       StartDelete, Save, SaveFails, Push, PushTo, CopySecret, PushFails, Report, Unmanage,
       NothingToRestore, DropBackup, UnmanageFails, Unfinalize, Observe, Abort, Restart,
       CreateSecret, CreateOAuth, DeleteSecret, DeleteOAuth, Detach

LEMMA SecretsStay == [Next]_vars => refs \subseteq refs' /\ copies \subseteq copies'
BY ConfigurationSteps DEF UpdateHd, Restore, Configure

LEMMA UpdateHdPushes ==
  ASSUME TypeOK, UpdateHd
  PROVE  /\ items' = WithOAuth(push.oauths)
         /\ push.oauths \in Content
         /\ OAuth' = push.oauths
         /\ Found' # {}
<1>1. items \in Seq(Item) /\ push.oauths \in Content
  BY DEF TypeOK, Item, Content
<1>2. items' = WithOAuth(push.oauths)
  BY DEF UpdateHd
<1> QED
  BY <1>1, <1>2, ContentIsItem, WithOAuthIs, Then

LEMMA RestoreBringsBack ==
  ASSUME TypeOK, BackupHasSecrets, Restore
  PROVE  \/ backup = Absent /\ items' = WithoutOAuth /\ Found # {}
         \/ /\ backup \notin {Absent, Nothing}
            /\ backup \in Supplied
            /\ items' = WithOAuth(backup)
            /\ OAuth' = backup
<1>1. CASE backup = Absent
  BY <1>1 DEF Restore
<1>2. CASE backup # Absent
  <2>1. /\ items \in Seq(Item) /\ backup \in Supplied /\ backup \in Item /\ Matches(backup)
        /\ backup # Nothing /\ items' = WithOAuth(backup)
    BY <1>2 DEF Restore, TypeOK, BackupHasSecrets, Item, Supplied
  <2> QED
    BY <1>2, <2>1, WithOAuthIs, Then
<1> QED
  BY <1>1, <1>2

LEMMA ConfigureWrites ==
  ASSUME Configure
  PROVE  \/ /\ original = Absent /\ original' = {Admin}
            /\ \A j \in DOMAIN items : items[j] \in Others
            /\ items' = Append(items, {Admin})
         \/ /\ original = Absent /\ original' = {Admin}
            /\ \E i \in DOMAIN items : /\ items[i] \notin Others
                                      /\ items' = [items EXCEPT ![i] = {Admin}]
         \/ /\ original = {Admin} /\ original' = Absent
            /\ \E i \in DOMAIN items : items[i] = {Admin} /\ items' = WithoutItem(i)
BY DEF Configure

LEMMA ConfigureKeeps ==
  ASSUME TypeOK, KeptIn(items), Configure
  PROVE  KeptIn(items')
<1>1. items \in Seq(Item) /\ DOMAIN items = 1 .. Len(items)
  BY LenProperties DEF TypeOK, Item
<1>2. {Admin} \in Item /\ Matches({Admin}) /\ {Admin} \in Content
  BY AdminIsContent, ContentIsItem
<1>3. CASE (\A j \in DOMAIN items : items[j] \in Others) /\ items' = Append(items, {Admin})
  BY <1>1, <1>2, <1>3, AppendedKeeps
<1>4. ASSUME NEW i \in DOMAIN items, items[i] \notin Others,
             items' = [items EXCEPT ![i] = {Admin}]
      PROVE  KeptIn(items')
  BY <1>1, <1>2, <1>4, ReplacedKeeps DEF Matches
<1>5. ASSUME NEW i \in DOMAIN items, items[i] = {Admin}, items' = WithoutItem(i)
      PROVE  KeptIn(items')
  BY <1>1, <1>2, <1>5, TakenAwayKeeps DEF WithoutItem
<1> QED
  BY <1>3, <1>4, <1>5, ConfigureWrites

LEMMA ScenarioFixed == [Next]_vars => scenario' = scenario
BY DEF Next, vars, apiVars, Worker, Take, Continue, Placement, Forget, Manage, StartDelete,
       Save, SaveFails, Push, PushTo, CopySecret, UpdateHd, PushFails, Report, Unmanage,
       NothingToRestore, Restore, DropBackup, UnmanageFails, Unfinalize, Observe, Abort,
       Restart, CreateSecret, CreateOAuth, DeleteSecret, DeleteOAuth, Configure, Detach

LEMMA SameObjects ==
  ASSUME [Next]_vars
  PROVE  OtherObjects' = OtherObjects /\ Item' = Item
BY ScenarioFixed DEF OtherObjects, Item, May

(* In every scenario.                                                      *)
LEMMA KeptStep ==
  ASSUME TypeOK, BackupHasSecrets, KeptIn(items), [Next]_vars
  PROVE  KeptIn(items)'
<1>a. items \in Seq(Item)
  BY DEF TypeOK, Item
<1> SUFFICES KeptIn(items')
  BY ScenarioFixed, SameObjects DEF KeptIn, OnceIn, May
<1>1. CASE UNCHANGED items
  BY <1>1
<1>2. CASE UpdateHd
  BY <1>a, <1>2, UpdateHdPushes, ContentIsItem, WithOAuthKeeps
<1>3. CASE Restore
  <2>1. CASE items' = WithoutOAuth /\ Found # {}
    BY <1>a, <2>1, WithoutOAuthKeeps
  <2>2. CASE backup \in Supplied /\ backup \notin {Absent, Nothing} /\ items' = WithOAuth(backup)
    <3>1. Matches(backup) /\ backup \in Item /\ Found # {}
      BY <1>3, <2>2 DEF Restore, BackupHasSecrets, Supplied
    <3> QED
      BY <1>a, <2>2, <3>1, WithOAuthKeeps
  <2> QED
    BY <1>3, <2>1, <2>2, RestoreBringsBack
<1> QED
  BY <1>1, <1>2, <1>3, ConfigurationSteps, ConfigureKeeps

(* Whatever a step writes, its items are as the others.                    *)
LEMMA ConfigurationStep ==
  ASSUME TypeOK, BackupHasSecrets, [Next]_vars,
         NEW G, items \in Seq(G),
         UpdateHd => push.oauths \in G,
         {Admin} \in G,
         backup \in Supplied => backup \in G
  PROVE  items' \in Seq(G)
<1>1. CASE UpdateHd
  BY <1>1, UpdateHdPushes, WithOAuthIs
<1>2. CASE Restore
  BY <1>2, RestoreBringsBack, WithOAuthIs, WithoutOAuthIs
<1>3. CASE Configure
  <2>1. DOMAIN items = 1 .. Len(items)
    BY LenProperties
  <2>2. Append(items, {Admin}) \in Seq(G)
    BY Appended
  <2>3. \A i \in DOMAIN items : [items EXCEPT ![i] = {Admin}] \in Seq(G)
    BY <2>1, Replaced
  <2>4. \A i \in DOMAIN items : WithoutItem(i) \in Seq(G)
    BY WithoutItemIs
  <2> QED
    BY <1>3, <2>2, <2>3, <2>4, ConfigureWrites
<1> QED
  BY <1>1, <1>2, <1>3, ConfigurationSteps

-----------------------------------------------------------------------------
(* The types of the other variables.                                       *)

LEMMA InformedType ==
  ASSUME NEW requests \in SUBSET OAuths, co' \in [OAuths -> Object],
         seen \in [OAuths -> Object], Informed(requests)
  PROVE  seen' \in [OAuths -> Object] /\ queue' \subseteq OAuths
BY DEF Informed

LEMMA ObjectUpdates ==
  ASSUME NEW o \in Object, NEW b \in BOOLEAN,
         NEW ph \in {"none", "live", "terminating"}
  PROVE  /\ [o EXCEPT !.fin = b] \in Object
         /\ [o EXCEPT !.applied = b] \in Object
         /\ [o EXCEPT !.phase = ph] \in Object
         /\ NoObject \in Object
BY DEF Object, NoObject

LEMMA SetAppliedType ==
  ASSUME TypeOK, NEW b \in BOOLEAN, SetApplied(b)
  PROVE  co' \in [OAuths -> Object]
<1> DEFINE applied == b /\ co[cur].phase # "none"
<1>1. applied \in BOOLEAN
  OBVIOUS
<1>2. co' = [co EXCEPT ![cur] = [co[cur] EXCEPT !.applied = applied]]
  BY DEF SetApplied
<1> HIDE DEF applied
<1>3. cur \in OAuths => [co[cur] EXCEPT !.applied = applied] \in Object
  BY <1>1, ObjectUpdates DEF TypeOK
<1> QED
  BY <1>2, <1>3 DEF TypeOK

(* The variables of the controller and of the informer.                    *)
ControllerType ==
  /\ seen \in [OAuths -> Object]
  /\ queue \subseteq OAuths
  /\ pc \in {"idle", "save", "push", "copy", "report", "unmanage", "restore",
             "dropBackup", "unfinalize"}
  /\ cur \in OAuths \cup {Nothing}
  /\ cur = Nothing <=> pc = "idle"
  /\ push \in [oauths : SUBSET OAuths, todo : SUBSET OAuths,
               next : {"idle", "report", "unfinalize"}]
  /\ push.next = "idle" <=> pc # "copy"

(* A Reconcile ends in good order.                                         *)
LEMMA StopType ==
  ASSUME TypeOK, co' \in [OAuths -> Object], NEW requests \in SUBSET OAuths, Stop(requests)
  PROVE  ControllerType'
<1>1. seen' \in [OAuths -> Object] /\ queue' \subseteq OAuths
  BY InformedType DEF TypeOK, Stop
<1>2. /\ push' \in [oauths : SUBSET OAuths, todo : SUBSET OAuths,
                    next : {"idle", "report", "unfinalize"}]
      /\ push'.next = "idle"
  BY DEF Stop, NoPush
<1> QED
  BY <1>1, <1>2 DEF ControllerType, Stop

(* The objects keep their type.                                            *)
LEMMA ObjectsType ==
  ASSUME TypeOK, [Next]_vars
  PROVE  co' \in [OAuths -> Object]
<1>a. co \in [OAuths -> Object] /\ NoObject \in Object
  BY DEF TypeOK, NoObject, Object
<1>1. ASSUME NEW c \in OAuths, Manage(c) PROVE co' \in [OAuths -> Object]
  BY <1>1, <1>a, ObjectUpdates DEF Manage
<1>2. CASE SaveFails \/ PushFails
  BY <1>2, SetAppliedType DEF SaveFails, PushFails, Fail
<1>3. CASE Report
  BY <1>3, SetAppliedType DEF Report
<1>4. CASE Unfinalize
  BY <1>4, <1>a DEF Unfinalize
<1>5. CASE Abort
  <2>1. PICK b \in {FALSE, co[cur].applied} : SetApplied(b)
    BY <1>5 DEF Abort
  <2>2. b \in BOOLEAN
    BY <1>5, <1>a DEF Abort, TypeOK, Object
  <2> QED
    BY <2>1, <2>2, SetAppliedType
<1>6. ASSUME NEW c \in OAuths, CreateOAuth(c) PROVE co' \in [OAuths -> Object]
  BY <1>6, <1>a, ObjectUpdates DEF CreateOAuth
<1>7. ASSUME NEW c \in OAuths, DeleteOAuth(c) PROVE co' \in [OAuths -> Object]
  BY <1>7, <1>a, ObjectUpdates DEF DeleteOAuth
<1> QED
  BY <1>a, <1>1, <1>2, <1>3, <1>4, <1>5, <1>6, <1>7
  DEF Next, vars, apiVars, Worker, Take, Continue, Placement, Forget, StartDelete, Save,
      Push, PushTo, CopySecret, UpdateHd, Unmanage, NothingToRestore, Restore, DropBackup,
      UnmanageFails, Observe, Restart, CreateSecret, DeleteSecret, Configure, Detach

LEMMA ControllerSteps ==
  ASSUME TypeOK, [Next]_vars
  PROVE  ControllerType'
<1>a. /\ co' \in [OAuths -> Object] /\ co \in [OAuths -> Object]
      /\ seen \in [OAuths -> Object] /\ queue \in SUBSET OAuths
      /\ Nothing \notin OAuths
      /\ cur # Nothing => cur \in OAuths
      /\ push \in [oauths : SUBSET OAuths, todo : SUBSET OAuths,
                   next : {"idle", "report", "unfinalize"}]
  BY ObjectsType, ConstantsAssumption DEF TypeOK
<1>b. pc # "idle" => queue \cup {cur} \in SUBSET OAuths
  BY <1>a DEF TypeOK
<1>1. ASSUME NEW c \in OAuths, Forget(c) PROVE ControllerType'
  BY <1>1 DEF TypeOK, ControllerType, Forget
<1>2. ASSUME NEW c \in OAuths, Manage(c) PROVE ControllerType'
  <2>1. seen' \in [OAuths -> Object] /\ queue' \subseteq OAuths
    <3>1. queue \ {c} \in SUBSET OAuths /\ Informed(queue \ {c})
      BY <1>2, <1>a DEF Manage
    <3> QED
      BY <3>1, <1>a, InformedType
  <2> QED
    BY <1>2, <1>a, <2>1 DEF TypeOK, ControllerType, Manage
<1>3. ASSUME NEW c \in OAuths, StartDelete(c) PROVE ControllerType'
  BY <1>3, <1>a DEF TypeOK, ControllerType, StartDelete
<1>4. CASE Save \/ NothingToRestore \/ Restore \/ DropBackup
  BY <1>4 DEF TypeOK, ControllerType, Save, NothingToRestore, Restore, DropBackup
<1>5. ASSUME NEW next \in {"report", "unfinalize"}, PushTo(next), pc # "idle"
      PROVE  ControllerType'
  <2>1. /\ push' \in [oauths : SUBSET OAuths, todo : SUBSET OAuths,
                      next : {"idle", "report", "unfinalize"}]
        /\ push'.next # "idle"
    BY <1>5 DEF PushTo, Live
  <2> QED
    BY <1>5, <2>1 DEF TypeOK, ControllerType, PushTo
<1>6. CASE CopySecret
  <2>1. /\ push' \in [oauths : SUBSET OAuths, todo : SUBSET OAuths,
                      next : {"idle", "report", "unfinalize"}]
        /\ push'.next = push.next
    BY <1>6, <1>a DEF CopySecret
  <2> QED
    BY <1>6, <2>1 DEF TypeOK, ControllerType, CopySecret
<1>7. CASE UpdateHd
  <2>1. /\ push' \in [oauths : SUBSET OAuths, todo : SUBSET OAuths,
                      next : {"idle", "report", "unfinalize"}]
        /\ push'.next = "idle"
        /\ pc' \in {"report", "unfinalize"}
    BY <1>7, <1>a DEF UpdateHd, TypeOK, NoPush
  <2> QED
    BY <1>7, <2>1 DEF TypeOK, ControllerType, UpdateHd
<1>8. CASE SaveFails \/ PushFails \/ UnmanageFails \/ Abort
  <2>1. Stop(queue \cup {cur}) /\ pc # "idle"
    BY <1>8 DEF SaveFails, PushFails, UnmanageFails, Abort, Fail
  <2> QED
    BY <2>1, <1>a, <1>b, StopType
<1>9. CASE Report
  BY <1>9, <1>a, StopType DEF Report
<1>10. CASE Unmanage
  <2>1. CASE PushTo("unfinalize")
    BY <1>5, <1>10, <2>1 DEF Unmanage
  <2> QED
    BY <1>10, <2>1 DEF TypeOK, ControllerType, Unmanage
<1>11. CASE Unfinalize
  <2>1. (Stop(queue) \/ Stop(queue \cup {cur})) /\ pc # "idle"
    BY <1>11 DEF Unfinalize
  <2> QED
    BY <2>1, <1>a, <1>b, StopType
<1>12. CASE Observe
  BY <1>12, <1>a DEF TypeOK, ControllerType, Observe
<1>13. CASE Restart
  BY <1>13, <1>a DEF TypeOK, ControllerType, Restart, Existing, NoPush
<1>14. ASSUME NEW c \in OAuths, CreateSecret(c) \/ DeleteSecret(c) PROVE ControllerType'
  BY <1>14 DEF TypeOK, ControllerType, CreateSecret, DeleteSecret
<1>15. ASSUME NEW c \in OAuths, CreateOAuth(c) \/ DeleteOAuth(c) PROVE ControllerType'
  <2>1. Informed(queue)
    BY <1>15 DEF CreateOAuth, DeleteOAuth
  <2>2. seen' \in [OAuths -> Object] /\ queue' \subseteq OAuths
    BY <1>a, <2>1, InformedType
  <2> QED
    BY <1>15, <2>2 DEF TypeOK, ControllerType, CreateOAuth, DeleteOAuth
<1>16. CASE Configure \/ Detach \/ UNCHANGED vars
  BY <1>16 DEF TypeOK, ControllerType, Configure, Detach, vars
<1> QED
  BY <1>1, <1>2, <1>3, <1>4, <1>5, <1>6, <1>7, <1>8, <1>9, <1>10, <1>11, <1>12, <1>13,
     <1>14, <1>15, <1>16
  DEF Next, Worker, Take, Continue, Push, Placement

(* The steps that write the ConfigMap.                                     *)
LEMMA BackupSteps ==
  ASSUME [Next]_vars
  PROVE  \/ UNCHANGED backup
         \/ backup' = Nothing
         \/ Save /\ backup = Nothing /\ backup' = OAuth
<1>1. CASE Save
  BY <1>1 DEF Save
<1> QED
  BY <1>1
  DEF Next, vars, apiVars, hdVars, Worker, Take, Continue, Placement, Forget, Manage,
      StartDelete, SaveFails, Push, PushTo, CopySecret, UpdateHd, PushFails, Report,
      Unmanage, NothingToRestore, Restore, DropBackup, UnmanageFails, Unfinalize, Observe,
      Abort, Restart, CreateSecret, CreateOAuth, DeleteSecret, DeleteOAuth, Configure, Detach

LEMMA TypeStep ==
  ASSUME TypeOK, BackupHasSecrets, [Next]_vars
  PROVE  TypeOK'
<1>a. items \in Seq(Item) /\ {Admin} \in Item
  BY AdminIsContent DEF TypeOK, Item
<1>1. co' \in [OAuths -> Object] /\ ControllerType'
  BY ObjectsType, ControllerSteps
<1>2. items' \in Seq(OtherObjects' \cup Content)
  <2>1. UpdateHd => push.oauths \in Item
    BY UpdateHdPushes, ContentIsItem
  <2>2. Supplied \subseteq Item
    BY DEF Supplied
  <2>3. items' \in Seq(Item)
    BY <1>a, <2>1, <2>2, ConfigurationStep
  <2> QED
    BY <2>3, SameObjects DEF Item
<1>3. backup' \in OtherObjects' \cup {Absent, Nothing} \cup Content
  BY <1>a, BackupSteps, OAuthIsItem, SameObjects DEF TypeOK, Item
<1>4. original' \in {Absent, {Admin}}
  BY ConfigureWrites
  DEF TypeOK, Next, vars, apiVars, hdVars, Worker, Take, Continue, Placement, Forget, Manage,
      StartDelete, Save, SaveFails, Push, PushTo, CopySecret, UpdateHd, PushFails, Report,
      Unmanage, NothingToRestore, Restore, DropBackup, UnmanageFails, Unfinalize, Observe,
      Abort, Restart, CreateSecret, CreateOAuth, DeleteSecret, DeleteOAuth, Detach
<1>5. secrets' \subseteq OAuths /\ refs' \subseteq OAuths /\ copies' \subseteq OAuths
  BY DEF TypeOK, Next, vars, apiVars, hdVars, Worker, Take, Continue, Placement, Forget, Manage,
      StartDelete, Save, SaveFails, Push, PushTo, CopySecret, UpdateHd, PushFails, Report,
      Unmanage, NothingToRestore, Restore, DropBackup, UnmanageFails, Unfinalize, Observe,
      Abort, Restart, CreateSecret, CreateOAuth, DeleteSecret, DeleteOAuth, Configure, Detach
<1>6. scenario' \in Scenarios /\ hosted' \in BOOLEAN
  BY DEF TypeOK, Next, vars, apiVars, hdVars, Worker, Take, Continue, Placement, Forget, Manage,
      StartDelete, Save, SaveFails, Push, PushTo, CopySecret, UpdateHd, PushFails, Report,
      Unmanage, NothingToRestore, Restore, DropBackup, UnmanageFails, Unfinalize, Observe,
      Abort, Restart, CreateSecret, CreateOAuth, DeleteSecret, DeleteOAuth, Configure, Detach
<1> QED
  BY <1>1, <1>2, <1>3, <1>4, <1>5, <1>6 DEF TypeOK, ControllerType

-----------------------------------------------------------------------------
(* What a step does to an object.                                          *)

(* Informed lets the informer stay behind or follow the write.             *)
LEMMA SeenSteps == [Next]_vars => seen' = seen \/ seen' = co'
BY DEF Next, vars, apiVars, Worker, Take, Continue, Placement, Forget, Manage, StartDelete,
       Save, SaveFails, Push, PushTo, CopySecret, UpdateHd, PushFails, Report, Unmanage,
       NothingToRestore, Restore, DropBackup, UnmanageFails, Unfinalize, Observe, Abort,
       Restart, CreateSecret, CreateOAuth, DeleteSecret, DeleteOAuth, Configure, Detach,
       Fail, Stop, Informed

(* The condition is written by the worker; it becomes true in Report only. *)
Conditioned ==
  /\ pc # "idle"
  /\ Stop(queue) \/ Stop(queue \cup {cur})
  /\ UNCHANGED <<items, refs, copies, backup>>
  /\ \E b \in BOOLEAN : /\ SetApplied(b)
                        /\ b => pc = "report" \/ co[cur].applied

LEMMA ObjectSteps ==
  ASSUME TypeOK, [Next]_vars
  PROVE  \/ UNCHANGED co
         \/ \E c \in OAuths : Manage(c) \/ CreateOAuth(c) \/ DeleteOAuth(c)
         \/ Conditioned
         \/ Unfinalize
<1>1. CASE SaveFails \/ PushFails
  BY <1>1 DEF SaveFails, PushFails, Fail, Conditioned, apiVars, hdVars
<1>2. CASE Report
  BY <1>2 DEF Report, Conditioned, apiVars, hdVars
<1>3. CASE Abort
  <2>1. cur \in OAuths
    BY <1>3 DEF Abort, TypeOK
  <2>2. co[cur].applied \in BOOLEAN
    BY <2>1 DEF TypeOK, Object
  <2> QED
    BY <1>3, <2>2 DEF Abort, Conditioned, apiVars, hdVars
<1> QED
  BY <1>1, <1>2, <1>3
  DEF Next, vars, apiVars, Worker, Take, Continue, Placement, Forget, StartDelete, Save,
      Push, PushTo, CopySecret, UpdateHd, Unmanage, NothingToRestore, Restore, DropBackup,
      UnmanageFails, Observe, Restart, CreateSecret, DeleteSecret, Configure, Detach

(* The life of one object: a finalizer comes with Manage, and goes with    *)
(* the object in Unfinalize.                                               *)
LEMMA ObjectLife ==
  ASSUME TypeOK, ObjectShape, WorkerShape, [Next]_vars, NEW c \in OAuths
  PROVE  \/ co'[c] = co[c]
         \/ /\ co'[c].phase = co[c].phase /\ co'[c].fin = co[c].fin
            /\ co'[c].applied => co[c].applied \/ (pc = "report" /\ c = cur /\ co[c].fin)
            /\ pc' = "idle" /\ UNCHANGED <<items, refs, copies, backup>>
         \/ /\ Manage(c)
            /\ co'[c].phase = "live" /\ co[c].phase = "live" /\ seen[c].phase = "live"
            /\ co'[c].fin
            /\ co'[c].applied = co[c].applied
         \/ /\ CreateOAuth(c)
            /\ co[c].phase = "none" /\ co'[c].phase = "live" /\ ~co'[c].fin /\ ~co'[c].applied
         \/ /\ DeleteOAuth(c)
            /\ co[c].phase = "live" /\ co[c].fin
            /\ co'[c].phase = "terminating" /\ co'[c].fin
         \/ /\ DeleteOAuth(c) \/ (Unfinalize /\ c = cur)
            /\ co'[c] = NoObject
            /\ co[c].fin => Unfinalize /\ c = cur /\ co[c].phase = "terminating"
<1>a. co[c] \in Object /\ co \in [OAuths -> Object]
  BY DEF TypeOK
<1>b. /\ co[c].applied => co[c].fin
      /\ co[c].fin => co[c].phase # "none"
  BY DEF ObjectShape
<1>1. CASE UNCHANGED co
  BY <1>1
<1>2. ASSUME NEW d \in OAuths, Manage(d) \/ CreateOAuth(d) \/ DeleteOAuth(d), d # c
      PROVE  co'[c] = co[c]
  BY <1>2, <1>a DEF Manage, CreateOAuth, DeleteOAuth
<1>3. CASE Manage(c)
  BY <1>3, <1>a DEF Manage, Object
<1>4. CASE CreateOAuth(c)
  BY <1>4, <1>a, <1>b DEF CreateOAuth, Object
<1>5. CASE DeleteOAuth(c)
  BY <1>5, <1>a DEF DeleteOAuth, Object, NoObject
<1>6. CASE Conditioned
  <2>1. PICK b \in BOOLEAN : SetApplied(b) /\ (b => pc = "report" \/ co[cur].applied)
    BY <1>6 DEF Conditioned
  <2>2. pc' = "idle" /\ UNCHANGED <<items, refs, copies, backup>>
    BY <1>6 DEF Conditioned, Stop
  <2>3. CASE c # cur
    BY <1>a, <2>1, <2>3 DEF SetApplied
  <2>4. CASE c = cur
    BY <1>a, <1>b, <2>1, <2>2, <2>4 DEF SetApplied, Object, WorkerShape
  <2> QED
    BY <2>3, <2>4
<1>7. CASE Unfinalize
  BY <1>7, <1>a DEF Unfinalize, NoObject
<1> QED
  BY <1>1, <1>2, <1>3, <1>4, <1>5, <1>6, <1>7, ObjectSteps

(* The worker goes on by a step of its own; what others do lets the        *)
(* configuration alone as long as there is a ClusterOAuth.                 *)
LEMMA WorkerSteps ==
  ASSUME TypeOK, [Next]_vars
  PROVE  \/ /\ UNCHANGED <<pc, cur, push>>
            /\ UNCHANGED items \/ Existing(co) = {}
            /\ copies \subseteq copies'
         \/ pc' = "idle"
         \/ \E c \in OAuths : Manage(c) \/ StartDelete(c)
         \/ Save
         \/ pc = "push" /\ PushTo("report")
         \/ pc = "unmanage" /\ PushTo("unfinalize")
         \/ CopySecret \/ UpdateHd
         \/ Unmanage /\ LastOne /\ pc' = "restore" /\ UNCHANGED <<co, push>>
         \/ NothingToRestore \/ Restore \/ DropBackup
BY DEF Next, vars, apiVars, hdVars, Worker, Take, Continue, Placement, Forget, SaveFails,
       Push, PushFails, Report, Unmanage, UnmanageFails, Unfinalize, Observe, Abort, Restart,
       CreateSecret, CreateOAuth, DeleteSecret, DeleteOAuth, Configure, Detach, Fail, Stop

-----------------------------------------------------------------------------
(* The conjuncts of the inductive invariant.                               *)

LEMMA ManagedIsSeenStep ==
  ASSUME TypeOK, ObjectShape, WorkerShape, ManagedIsSeen, [Next]_vars
  PROVE  ManagedIsSeen'
<1> SUFFICES ASSUME NEW c \in OAuths, co'[c].phase = "live", co'[c].fin
             PROVE  seen'[c].phase = "live"
  BY DEF ManagedIsSeen
<1>1. CASE seen' = co'
  BY <1>1
<1>2. CASE seen' = seen
  <2>1. \/ co[c].phase = "live" /\ co[c].fin
        \/ seen[c].phase = "live"
    BY ObjectLife DEF NoObject
  <2> QED
    BY <1>2, <2>1 DEF ManagedIsSeen
<1> QED
  BY <1>1, <1>2, SeenSteps

LEMMA ObjectShapeStep ==
  ASSUME TypeOK, ObjectShape, WorkerShape, [Next]_vars
  PROVE  ObjectShape'
<1> SUFFICES ASSUME NEW c \in OAuths
             PROVE  /\ co'[c].applied => co'[c].fin
                    /\ co'[c].fin => co'[c].phase # "none"
                    /\ co'[c].phase = "terminating" => co'[c].fin
  BY DEF ObjectShape
<1>1. /\ co[c].applied => co[c].fin
      /\ co[c].fin => co[c].phase # "none"
      /\ co[c].phase = "terminating" => co[c].fin
  BY DEF ObjectShape
<1> QED
  BY <1>1, ObjectLife DEF NoObject

LEMMA FinStays ==
  ASSUME TypeOK, ObjectShape, WorkerShape, [Next]_vars, NEW c \in OAuths, co[c].fin,
         ~(Unfinalize /\ c = cur)
  PROVE  co'[c].fin /\ (co'[c].phase = "live" => co[c].phase = "live")
<1>1. co[c].phase # "none"
  BY DEF ObjectShape
<1> QED
  BY <1>1, ObjectLife DEF NoObject

LEMMA WorkerShapeStep ==
  ASSUME TypeOK, ManagedIsSeen, ObjectShape, WorkerShape, PushShape, BackupHasSecrets,
         [Next]_vars
  PROVE  WorkerShape'
<1>a. Nothing \notin OAuths /\ (pc # "idle" => cur \in OAuths)
  BY ConstantsAssumption DEF TypeOK
<1>b. TypeOK'
  BY TypeStep
<1>1. CASE /\ UNCHANGED <<pc, cur, push>>
           /\ UNCHANGED items \/ Existing(co) = {}
           /\ pc # "idle"
  <2>1. ~(Unfinalize)
    BY <1>1 DEF Unfinalize, Stop
  <2>2. co[cur].fin => co'[cur].fin /\ (co'[cur].phase = "live" => co[cur].phase = "live")
    BY <1>a, <1>1, <2>1, FinStays
  <2>3. pc' = "report" /\ co'[cur'].phase = "live" => Pushed(cur)'
    <3> SUFFICES ASSUME pc = "report", co'[cur].phase = "live" PROVE Pushed(cur)'
      BY <1>1
    <3>1. co[cur].phase = "live" /\ Pushed(cur)
      BY <2>2 DEF WorkerShape
    <3>2. UNCHANGED items
      BY <1>1, <1>a, <3>1 DEF Existing
    <3>3. OAuth' = OAuth
      BY <3>2, OAuthStays
    <3> QED
      BY <1>1, <3>1, <3>3 DEF Pushed
  <2>4. pc' = "restore" => \A c \in OAuths : ~(co'[c].phase = "live" /\ co'[c].fin)
    <3> SUFFICES ASSUME pc = "restore", NEW c \in OAuths, co'[c].phase = "live", co'[c].fin
                 PROVE  FALSE
      BY <1>1
    <3>1. ~(co[c].phase = "live" /\ co[c].fin)
      BY DEF WorkerShape
    <3>2. ~Manage(c)
      BY DEF Manage
    <3> QED
      BY <3>1, <3>2, ObjectLife DEF NoObject
  <2> QED
    BY <1>1, <2>2, <2>3, <2>4 DEF WorkerShape
<1>2. CASE pc' = "idle"
  BY <1>2 DEF WorkerShape
<1>3. ASSUME NEW c \in OAuths, Manage(c) PROVE WorkerShape'
  BY <1>3 DEF WorkerShape, Manage, TypeOK
<1>4. ASSUME NEW c \in OAuths, StartDelete(c) PROVE WorkerShape'
  BY <1>4 DEF WorkerShape, StartDelete
<1>5. CASE Save
  BY <1>5 DEF WorkerShape, Save
<1>6. CASE pc = "push" /\ PushTo("report")
  BY <1>6 DEF WorkerShape, PushTo
<1>7. CASE pc = "unmanage" /\ PushTo("unfinalize")
  BY <1>7 DEF WorkerShape, PushTo
<1>8. CASE CopySecret
  <2>1. push'.next = push.next
    BY <1>8 DEF CopySecret, TypeOK
  <2> QED
    BY <1>8, <2>1 DEF WorkerShape, CopySecret
<1>9. CASE UpdateHd
  <2>1. pc' \in {"report", "unfinalize"} /\ pc = "copy" /\ UNCHANGED <<co, cur>> /\ pc' = push.next
    BY <1>9 DEF UpdateHd, TypeOK
  <2>2. pc' = "report" => co[cur].fin
    BY <2>1 DEF WorkerShape
  <2>3. pc' = "report" /\ co[cur].phase = "live" => cur \in push.oauths
    BY <2>1, <2>2, <1>a DEF PushShape
  <2>4. OAuth' = push.oauths /\ push.oauths \notin Others \cup {Absent}
    BY <1>9, UpdateHdPushes, ContentIsItem
  <2> QED
    BY <2>1, <2>2, <2>3, <2>4 DEF WorkerShape, Pushed
<1>10. CASE Unmanage /\ LastOne /\ pc' = "restore" /\ UNCHANGED <<co, push>>
  <2>1. \A c \in OAuths : ~(co[c].phase = "live" /\ co[c].fin)
    BY <1>10 DEF LastOne, ManagedIsSeen, Existing
  <2> QED
    BY <1>10, <2>1 DEF WorkerShape
<1>11. CASE NothingToRestore \/ Restore \/ DropBackup
  BY <1>11 DEF WorkerShape, NothingToRestore, Restore, DropBackup
<1> QED
  BY <1>1, <1>2, <1>3, <1>4, <1>5, <1>6, <1>7, <1>8, <1>9, <1>10, <1>11, WorkerSteps

LEMMA PushShapeStep ==
  ASSUME TypeOK, ManagedIsSeen, ObjectShape, WorkerShape, PushShape, [Next]_vars
  PROVE  PushShape'
<1>1. CASE /\ UNCHANGED <<pc, cur, push>>
           /\ copies \subseteq copies'
           /\ pc = "copy"
  <2> SUFFICES ASSUME NEW c \in OAuths, co'[c].phase = "live", co'[c].fin
               PROVE  co[c].phase = "live" /\ co[c].fin
    BY <1>1 DEF PushShape
  <2>1. ~Manage(c)
    BY <1>1 DEF Manage
  <2> QED
    BY <2>1, ObjectLife DEF NoObject
<1>2. ASSUME NEW next, PushTo(next) PROVE PushShape'
  <2>1. /\ push'.oauths = Live(seen) /\ push'.oauths \ push'.todo = {}
        /\ UNCHANGED <<co, seen>>
    BY <1>2 DEF PushTo
  <2> QED
    BY <2>1 DEF PushShape, ManagedIsSeen, Live
<1>3. CASE CopySecret
  <2>1. PICK c \in push.todo : copies' = copies \cup {c} /\ push' = [push EXCEPT !.todo = @ \ {c}]
    BY <1>3 DEF CopySecret
  <2>2. /\ push'.oauths = push.oauths /\ push'.todo = push.todo \ {c}
        /\ pc = "copy" /\ UNCHANGED co
    BY <1>3, <2>1 DEF TypeOK, CopySecret
  <2> QED
    BY <2>1, <2>2 DEF PushShape
<1>4. CASE UpdateHd
  BY <1>4 DEF PushShape, TypeOK, UpdateHd
<1>5. CASE pc' # "copy"
  BY <1>5 DEF PushShape
<1> QED
  BY <1>1, <1>2, <1>3, <1>4, <1>5, WorkerSteps
  DEF Manage, StartDelete, Save, NothingToRestore, Restore, DropBackup

(* What has its secrets keeps them.                                        *)
LEMMA SuppliedStays == [Next]_vars => Supplied \subseteq Supplied'
BY SecretsStay, SameObjects DEF Supplied

LEMMA SeqOf ==
  ASSUME NEW G, NEW H, NEW s \in Seq(H), \A j \in DOMAIN s : s[j] \in G
  PROVE  s \in Seq(G)
<1>1. Len(s) \in Nat /\ s \in [1 .. Len(s) -> H]
  BY LenProperties
<1>2. s \in [1 .. Len(s) -> G]
  BY <1>1
<1> QED
  BY <1>1, <1>2, SeqDef

LEMMA SeqGrows ==
  ASSUME NEW G, NEW H, G \subseteq H, NEW s \in Seq(G)
  PROVE  s \in Seq(H)
BY SeqOf, ElementOfSeq, LenProperties

LEMMA ItemsHaveSecretsStep ==
  ASSUME TypeOK, PushShape, BackupHasSecrets, ItemsHaveSecrets, [Next]_vars
  PROVE  ItemsHaveSecrets'
<1>1. items \in Seq(Supplied')
  BY SuppliedStays, SeqGrows DEF ItemsHaveSecrets
<1>2. UpdateHd => push.oauths \in Supplied'
  BY UpdateHdPushes, ContentIsItem, SameObjects DEF Supplied, UpdateHd, PushShape
<1>3. {Admin} \in Supplied'
  BY AdminIsContent, ContentIsItem, SameObjects DEF Supplied
<1>4. backup \in Supplied => backup \in Supplied'
  BY SuppliedStays
<1>5. items' \in Seq(Supplied')
  BY <1>1, <1>2, <1>3, <1>4, ConfigurationStep
<1> QED
  BY <1>5 DEF ItemsHaveSecrets

LEMMA BackupHasSecretsStep ==
  ASSUME TypeOK, BackupHasSecrets, ItemsHaveSecrets, [Next]_vars
  PROVE  BackupHasSecrets'
<1>1. CASE UNCHANGED backup
  BY <1>1, SuppliedStays DEF BackupHasSecrets, Matches
<1>2. CASE backup' = Nothing
  BY <1>2 DEF BackupHasSecrets
<1>3. CASE backup' = OAuth
  <2>1. OAuth # Absent => OAuth \in Supplied /\ Matches(OAuth)
    BY OAuthIsItem DEF ItemsHaveSecrets
  <2> QED
    BY <1>3, <2>1, SuppliedStays DEF BackupHasSecrets, Matches
<1> QED
  BY <1>1, <1>2, <1>3, BackupSteps

LEMMA AppliedIsPushedStep ==
  ASSUME TypeOK, ObjectShape, WorkerShape, PushShape, AppliedIsPushed, [Next]_vars
  PROVE  AppliedIsPushed'
<1> SUFFICES ASSUME NEW c \in OAuths, co'[c].phase = "live", co'[c].applied
             PROVE  Pushed(c)'
  BY DEF AppliedIsPushed
<1>1. CASE UNCHANGED items
  <2>1. OAuth' = OAuth
    BY <1>1, OAuthStays
  <2>2. \/ co[c].phase = "live" /\ co[c].applied
        \/ pc = "report" /\ c = cur /\ co[c].phase = "live"
    BY ObjectLife DEF NoObject
  <2>3. Pushed(c)
    BY <2>2 DEF AppliedIsPushed, WorkerShape
  <2> QED
    BY <2>1, <2>3 DEF Pushed
<1>2. CASE UpdateHd
  <2>1. OAuth' = push.oauths /\ push.oauths \notin Others \cup {Absent}
    BY <1>2, UpdateHdPushes, ContentIsItem
  <2>2. co[c].phase = "live" /\ co[c].fin /\ pc = "copy"
    BY <1>2 DEF UpdateHd, ObjectShape
  <2> QED
    BY <2>1, <2>2 DEF PushShape, Pushed
<1>3. CASE Restore
  BY <1>3 DEF Restore, WorkerShape, ObjectShape
<1>4. CASE Configure
  BY <1>4 DEF Configure, Existing
<1> QED
  BY <1>1, <1>2, <1>3, <1>4, ConfigurationSteps

-----------------------------------------------------------------------------
(* The invariant and what it gives.                                        *)

(* The configuration that the administrator has made: every object once.   *)
LEMMA InitItems ==
  ASSUME Init
  PROVE  items \in Seq(Own) /\ Own \subseteq OtherObjects \cup {{Admin}} /\ WholeIn(items)
<1>a. {Admin} # Absent /\ original \in {Absent, {Admin}}
  BY AdminIsContent, ContentIsItem DEF Init
<1>1. Own \subseteq OtherObjects \cup {{Admin}}
  BY <1>a DEF Own
<1>2. IsFiniteSet(Own)
  <2>1. IsFiniteSet(Others \cup {{Admin}})
    BY ConstantsAssumption, FS_AddElement
  <2> QED
    BY <1>1, <2>1, OthersAreItems, FS_Subset
<1>3. PICK n \in Nat :
        /\ items \in [1 .. n -> Own]
        /\ \A x \in Own : \E i \in DOMAIN items : items[i] = x
        /\ n = Cardinality(Own)
  BY <1>2, FS_CardinalityType DEF Init, Configuration
<1>4. items \in Seq(Own)
  BY <1>3, SeqDef
<1>5. \A i, j \in DOMAIN items : items[i] = items[j] => i = j
  <2>1. items \in Surjection(1 .. n, Own)
    BY <1>3 DEF Surjection
  <2>2. IsFiniteSet(1 .. n) /\ Cardinality(1 .. n) = n
    BY <1>3, FS_Interval
  <2>3. items \in Injection(1 .. n, Own)
    BY <1>2, <1>3, <2>1, <2>2, FS_SurjSameCardinalityImpliesInj
  <2> QED
    BY <1>3, <2>3 DEF Injection, IsInjective
<1>6. WholeIn(items)
  BY <1>3, <1>5 DEF WholeIn, WholeFor, OnceIn
<1> QED
  BY <1>1, <1>4, <1>6

LEMMA OwnIsItem ==
  ASSUME TypeOK
  PROVE  Own \subseteq Item /\ \A x \in Own : x \notin Others => x = {Admin} /\ x = original
BY AdminIsContent, OthersAreItems DEF TypeOK, Own, Item

LEMMA InitKept ==
  ASSUME Init
  PROVE  KeptIn(items)
<1>1. \A x \in OtherObjects \ Namesakes : OnceIn(items, x)
  BY InitItems DEF WholeIn, WholeFor, Own
<1>2. \A i \in DOMAIN items : items[i] \in Others \/ items[i] = {Admin}
  BY InitItems, OthersAreItems DEF WholeIn, WholeFor
<1>3. ASSUME NEW i \in DOMAIN items, NEW j \in DOMAIN items, {items[i], items[j]} \cap Others = {}
      PROVE  i = j
  <2>1. items[i] = items[j] /\ items[i] \in Own
    BY <1>2, <1>3, InitItems DEF WholeIn, WholeFor
  <2> QED
    BY <2>1, InitItems DEF WholeIn, WholeFor, OnceIn
<1> QED
  BY <1>1, <1>3 DEF KeptIn

LEMMA InitInvariant == Init => IInv
<1> SUFFICES ASSUME Init PROVE IInv
  OBVIOUS
<1>1. TypeOK
  <2>1. OtherObjects \cup {{Admin}} \subseteq Item
    BY AdminIsContent, ContentIsItem DEF Item
  <2>2. items \in Seq(OtherObjects \cup Content)
    BY <2>1, InitItems, SeqGrows DEF Item
  <2> QED
    BY <2>2, ConstantsAssumption DEF Init, TypeOK, NoObject, Object, NoPush
<1>2. ManagedIsSeen /\ ObjectShape /\ AppliedIsPushed
  BY DEF Init, NoObject, ManagedIsSeen, ObjectShape, AppliedIsPushed
<1>3. WorkerShape /\ PushShape
  BY DEF Init, WorkerShape, PushShape
<1>4. ItemsHaveSecrets
  <2>1. Own \subseteq Supplied
    BY InitItems, AdminIsContent, ContentIsItem, OthersAreItems DEF Supplied, Item
  <2> QED
    BY <2>1, InitItems, SeqGrows DEF ItemsHaveSecrets
<1>5. BackupHasSecrets
  BY DEF Init, BackupHasSecrets
<1> QED
  BY <1>1, <1>2, <1>3, <1>4, <1>5 DEF IInv

LEMMA NextInvariant == IInv /\ [Next]_vars => IInv'
BY TypeStep, ManagedIsSeenStep, ObjectShapeStep, WorkerShapeStep, PushShapeStep,
   ItemsHaveSecretsStep, BackupHasSecretsStep, AppliedIsPushedStep DEF IInv

(* The invariant holds in every scenario.                                  *)
THEOREM HostedInvariance == Spec => []IInv
BY InitInvariant, NextInvariant, PTL DEF Spec

(* Every variable keeps its type: whatever objects there are besides the   *)
(* OAuth and whatever searchConfiguration takes for it, Push and Unmanage  *)
(* write a list of configuration objects, at a position that the list has, *)
(* and Save saves one of them, or none.                                    *)
THEOREM HostedTypes == Spec => []TypeOK
<1>1. IInv => TypeOK
  BY DEF IInv
<1> QED
  BY <1>1, HostedInvariance, PTL

(* No provider is ever in the configuration without its client secret in   *)
(* the namespace of the HypershiftDeployment.                              *)
THEOREM SecretsComeFirst == Spec => []ProvidersHaveSecrets
<1>1. IInv => ProvidersHaveSecrets
  <2> SUFFICES ASSUME IInv, NEW c \in OAuths, Pushed(c) PROVE c \in refs \cap copies
    BY DEF ProvidersHaveSecrets
  <2>1. OAuth \in Supplied
    BY OAuthIsItem DEF Pushed, IInv, ItemsHaveSecrets
  <2> QED
    BY <2>1 DEF Supplied, Pushed
<1> QED
  BY <1>1, HostedInvariance, PTL

(* A condition Applied is true as long as the ClusterOAuth lives.          *)
THEOREM HostedStatusIsTrue == Spec => []AppliedIsPushed
<1>1. IInv => AppliedIsPushed
  BY DEF IInv
<1> QED
  BY <1>1, HostedInvariance, PTL

(* In every scenario, the objects that are not named as the OAuth is stay, *)
(* once each.                                                              *)
LEMMA KeptInvariance == Spec => [](IInv /\ KeptIn(items))
<1> DEFINE K == KeptIn(items)
<1>1. Init => K
  BY InitKept
<1>2. IInv /\ K /\ [Next]_vars => K'
  BY KeptStep DEF IInv
<1> HIDE DEF K
<1>3. Spec => [](IInv /\ K)
  BY <1>1, <1>2, HostedInvariance, PTL DEF Spec
<1> QED
  BY <1>3 DEF K

-----------------------------------------------------------------------------
(* What a step does when calls do not fail and caches do not lag.          *)

LEMMA ReliableSteps ==
  ASSUME Reliable, TypeOK, [Next]_vars
  PROVE  \/ UNCHANGED <<items, backup, original, pc, cur, push>>
         \/ pc' = "idle" /\ UNCHANGED <<items, backup, original>>
         \/ \E c \in OAuths : Manage(c) \/ StartDelete(c)
         \/ Save
         \/ pc = "push" /\ PushTo("report")
         \/ Unmanage \/ CopySecret \/ UpdateHd \/ NothingToRestore \/ Restore \/ DropBackup
         \/ Configure
BY DEF Next, vars, apiVars, hdVars, Worker, Take, Continue, Placement, Forget, SaveFails,
       Push, PushFails, Report, UnmanageFails, Unfinalize, Observe, Abort, Restart,
       CreateSecret, CreateOAuth, DeleteSecret, DeleteOAuth, Detach, Fail, Stop

(* The informer keeps up.                                                  *)
LEMMA SeenKeepsUp ==
  ASSUME Reliable, seen = co, [Next]_vars
  PROVE  seen' = co'
<1>1. ~May("lag") /\ ~May("abort")
  BY DEF Reliable, May
<1> QED
  BY <1>1
  DEF Next, vars, apiVars, Worker, Take, Continue, Placement, Forget, Manage, StartDelete,
      Save, SaveFails, Push, PushTo, CopySecret, UpdateHd, PushFails, Report, Unmanage,
      NothingToRestore, Restore, DropBackup, UnmanageFails, Unfinalize, Observe, Abort,
      Restart, CreateSecret, CreateOAuth, DeleteSecret, DeleteOAuth, Configure, Detach,
      Fail, Stop, Informed

(* A ClusterOAuth loses its secret after it was applied.                   *)
LEMMA SecretSteps ==
  ASSUME Reliable, [Next]_vars, NEW c \in OAuths, c \notin secrets'
  PROVE  \/ c \notin secrets
         \/ co[c].applied /\ UNCHANGED co
<1>1. ~May("early")
  BY DEF Reliable, May
<1> QED
  BY <1>1
  DEF Next, vars, apiVars, Worker, Take, Continue, Placement, Forget, Manage, StartDelete,
      Save, SaveFails, Push, PushTo, CopySecret, UpdateHd, PushFails, Report, Unmanage,
      NothingToRestore, Restore, DropBackup, UnmanageFails, Unfinalize, Observe, Abort,
      Restart, CreateSecret, CreateOAuth, DeleteSecret, DeleteOAuth, Configure, Detach

(* A ClusterOAuth begins to be managed in Report, and goes in Unfinalize.  *)
LEMMA ReliableLife ==
  ASSUME IInv, Reliable, ReliableShape, [Next]_vars, NEW c \in OAuths
  PROVE  /\ Managed(c)' => Managed(c) \/ (pc = "report" /\ c = cur)
         /\ co[c].phase # "none" /\ co'[c].phase = "none" => Unfinalize /\ c = cur
         /\ co[c].phase = "terminating" =>
              co'[c].phase = "terminating" \/ (Unfinalize /\ c = cur)
         /\ co'[c].fin => co[c].fin \/ Manage(c)
<1>a. TypeOK /\ ObjectShape /\ WorkerShape /\ SecretShape
  BY DEF IInv, ReliableShape
<1>b. DeleteOAuth(c) => co[c].phase = "live" /\ c \notin secrets /\ co[c].fin
  BY <1>a DEF DeleteOAuth, SecretShape
<1>c. CreateOAuth(c) => c \in secrets /\ UNCHANGED secrets
  BY DEF CreateOAuth, apiVars
<1>1. Managed(c)' => Managed(c) \/ (pc = "report" /\ c = cur)
  <2> SUFFICES ASSUME Managed(c)', ~(pc = "report" /\ c = cur) PROVE Managed(c)
    OBVIOUS
  <2>1. CASE co'[c].phase = "terminating"
    BY <1>a, <1>b, <2>1, ObjectLife DEF Managed, NoObject
  <2>2. CASE co'[c].phase = "live" /\ co'[c].applied
    BY <1>a, <2>2, ObjectLife DEF Managed, NoObject
  <2>3. CASE co'[c].phase = "live" /\ c \notin secrets'
    <3>1. co[c].phase = "live"
      BY <1>a, <1>c, <2>3, ObjectLife DEF NoObject
    <3> QED
      BY <2>3, <3>1, SecretSteps DEF Managed
  <2> QED
    BY <2>1, <2>2, <2>3 DEF Managed
<1>2. co[c].phase # "none" /\ co'[c].phase = "none" => Unfinalize /\ c = cur
  BY <1>a, <1>b, ObjectLife DEF NoObject
<1>3. co[c].phase = "terminating" => co'[c].phase = "terminating" \/ (Unfinalize /\ c = cur)
  BY <1>a, <1>b, ObjectLife DEF NoObject
<1>4. co'[c].fin => co[c].fin \/ Manage(c)
  BY <1>a, ObjectLife DEF NoObject
<1> QED
  BY <1>1, <1>2, <1>3, <1>4

LEMMA SecretShapeStep ==
  ASSUME IInv, Reliable, ReliableShape, [Next]_vars
  PROVE  SecretShape'
<1> SUFFICES ASSUME NEW c \in OAuths, co'[c].phase = "live", c \notin secrets'
             PROVE  co'[c].fin
  BY DEF SecretShape
<1>a. TypeOK /\ ObjectShape /\ WorkerShape /\ SecretShape
  BY DEF IInv, ReliableShape
<1>1. CASE c \notin secrets
  <2>1. ~CreateOAuth(c)
    BY <1>1 DEF CreateOAuth
  <2> QED
    BY <1>a, <1>1, <2>1, ObjectLife DEF SecretShape, NoObject
<1>2. CASE co[c].applied /\ UNCHANGED co
  BY <1>a, <1>2 DEF ObjectShape
<1> QED
  BY <1>1, <1>2, SecretSteps

(* The administrator configures an OAuth while the controller is at rest.  *)
LEMMA ConfigureIsFree ==
  ASSUME IInv, Reliable, ReliableShape, Configure
  PROVE  /\ pc = "idle"
         /\ backup = Nothing
         /\ \A c \in OAuths : ~Managed(c)
         /\ UNCHANGED <<co, pc, cur, push, backup, secrets>>
<1>1. \A c \in OAuths : co[c].phase = "none" /\ ~co[c].fin
  BY DEF Configure, Existing, IInv, ObjectShape
<1>2. backup = Nothing
  BY DEF Configure, ReliableShape, LastShape
<1>3. \A c \in OAuths : ~Managed(c)
  BY <1>1 DEF Managed
<1>4. pc # "idle" => cur \in OAuths
  BY DEF IInv, TypeOK
<1>5. pc = "idle"
  BY <1>1, <1>4 DEF IInv, TypeOK, WorkerShape, ReliableShape, LastShape
<1> QED
  BY <1>2, <1>3, <1>5 DEF Configure

(* Unmanage always finds what it has to restore.                           *)
LEMMA AlwaysRestores ==
  ASSUME IInv, Reliable, ReliableShape, pc = "restore"
  PROVE  Found # {} /\ backup # Nothing
<1>1. cur \in OAuths /\ Managed(cur)
  BY DEF IInv, TypeOK, ReliableShape, LastShape, Managed
<1> QED
  BY <1>1 DEF ReliableShape, SavedFirst, Leaving

(* The end of an Unmanage is not disturbed.                                *)
LEMMA LeavingSteps ==
  ASSUME Reliable, [Next]_vars, pc \in {"dropBackup", "unfinalize"}
  PROVE  UNCHANGED <<pc, cur>> \/ DropBackup \/ Unfinalize
<1>1. ~May("abort")
  BY DEF Reliable, May
<1> QED
  BY <1>1
  DEF Next, vars, apiVars, Worker, Take, Continue, Placement, Forget, Manage, StartDelete,
      Save, SaveFails, Push, PushTo, CopySecret, UpdateHd, PushFails, Report, Unmanage,
      NothingToRestore, Restore, UnmanageFails, Observe, Abort, Restart, CreateSecret,
      CreateOAuth, DeleteSecret, DeleteOAuth, Configure, Detach

(* The steps that the abstract manager sees.                               *)
LEMMA MgrSteps ==
  ASSUME [Next]_vars
  PROVE  \/ Save \/ UpdateHd \/ Restore \/ DropBackup \/ Configure
         \/ UNCHANGED <<items, backup, original>>
BY DEF Next, vars, apiVars, hdVars, Worker, Take, Continue, Placement, Forget, Manage,
       StartDelete, SaveFails, Push, PushTo, CopySecret, PushFails, Report, Unmanage,
       NothingToRestore, UnmanageFails, Unfinalize, Observe, Abort, Restart, CreateSecret,
       CreateOAuth, DeleteSecret, DeleteOAuth, Detach

(* The saved copy holds against every step, or its ClusterOAuth leaves.    *)
LEMMA SavedFirstStep ==
  ASSUME IInv, Reliable, ReliableShape, [Next]_vars
  PROVE  SavedFirst'
<1>a. TypeOK
  BY DEF IInv
<1>1. CASE Configure
  <2>1. \A c \in OAuths : ~Managed(c)'
    BY <1>1, ConfigureIsFree DEF Managed
  <2>2. pc' = "idle"
    BY <1>1, ConfigureIsFree
  <2> QED
    BY <2>1, <2>2 DEF SavedFirst
<1>2. CASE Restore
  <2>1. UNCHANGED <<cur, co, secrets>> /\ pc = "restore" /\ pc' = "dropBackup"
    BY <1>2 DEF Restore
  <2>2. \A c \in OAuths : Managed(c)' => c = cur
    BY <2>1 DEF ReliableShape, LastShape, Managed
  <2> QED
    BY <2>1, <2>2 DEF SavedFirst, Leaving
<1>3. CASE DropBackup
  <2>1. UNCHANGED <<cur, co, secrets>> /\ pc = "dropBackup" /\ pc' = "unfinalize"
    BY <1>3 DEF DropBackup
  <2>2. \A c \in OAuths : Managed(c)' => c = cur
    BY <2>1 DEF ReliableShape, LastShape, Managed
  <2> QED
    BY <2>1, <2>2 DEF SavedFirst, Leaving
<1>4. CASE UpdateHd
  <2>1. Found' # {}
    BY <1>4, <1>a, UpdateHdPushes
  <2>2. pc = "copy" /\ UNCHANGED <<backup, co, secrets>> /\ pc' \in {"report", "unfinalize"}
    BY <1>4, <1>a DEF UpdateHd, TypeOK
  <2>3. backup # Nothing
    BY <2>2 DEF ReliableShape, SavedFirst
  <2> QED
    BY <2>1, <2>2, <2>3 DEF SavedFirst
<1>5. CASE Save
  <2>1. backup' # Nothing /\ UNCHANGED <<items, co, secrets>> /\ pc = "save" /\ pc' = "push"
    BY <1>a, <1>5, NothingIsNoOAuth DEF Save, hdVars
  <2>2. \A c \in OAuths : Managed(c)' => Found # {}
    BY <2>1 DEF ReliableShape, SavedFirst, Managed, Leaving
  <2> QED
    BY <2>1, <2>2, OAuthStays DEF SavedFirst
<1>6. CASE UNCHANGED <<items, backup, original>>
  <2>1. OAuth' = OAuth /\ Found' = Found
    BY <1>6, OAuthStays
  <2>2. ASSUME NEW c \in OAuths, Managed(c)'
        PROVE  (backup' # Nothing /\ Found' # {}) \/ Leaving(c)'
    <3>1. CASE backup # Nothing /\ Found # {}
      BY <1>6, <2>1, <3>1
    <3>2. CASE ~(backup # Nothing /\ Found # {})
      <4>1. Leaving(c)
        BY <2>2, <3>2, ReliableLife DEF ReliableShape, SavedFirst
      <4>2. ~Unfinalize
        <5> SUFFICES ASSUME Unfinalize PROVE FALSE
          OBVIOUS
        <5>1. co' = [co EXCEPT ![c] = NoObject]
          BY <4>1 DEF Unfinalize, Leaving, ReliableShape, LastShape
        <5> QED
          BY <1>a, <2>2, <5>1 DEF Managed, NoObject, TypeOK
      <4>3. cur' = cur /\ pc' \in {"dropBackup", "unfinalize"}
        BY <4>1, <4>2, LeavingSteps DEF Leaving, DropBackup
      <4> QED
        BY <1>6, <2>1, <4>1, <4>3 DEF Leaving
    <3> QED
      BY <3>1, <3>2
  <2>3. pc' \in {"push", "copy", "report"} => backup # Nothing
    <3>1. CASE pc \in {"push", "copy", "report"}
      BY <3>1 DEF ReliableShape, SavedFirst
    <3>2. CASE Unmanage
      <4>1. Managed(cur) /\ cur \in OAuths /\ ~Leaving(cur)
        BY <1>a, <3>2 DEF Unmanage, ReliableShape, LastShape, Managed, Leaving, TypeOK
      <4> QED
        BY <4>1 DEF ReliableShape, SavedFirst
    <3>3. CASE Save
      BY <1>a, <1>6, <3>3, NothingIsNoOAuth DEF Save
    <3> QED
      BY <1>a, <3>1, <3>2, <3>3, ReliableSteps
      DEF Manage, StartDelete, CopySecret, UpdateHd, NothingToRestore, Restore, DropBackup,
          Configure
  <2>4. pc' = "report" => Found # {} \/ UpdateHd
    <3>1. CASE pc = "report"
      BY <3>1 DEF ReliableShape, SavedFirst
    <3> QED
      BY <1>a, <3>1, ReliableSteps
      DEF Manage, StartDelete, Save, Unmanage, PushTo, CopySecret, NothingToRestore, Restore,
          DropBackup, Configure
  <2> QED
    BY <1>4, <1>6, <2>1, <2>2, <2>3, <2>4 DEF SavedFirst
<1> QED
  BY <1>1, <1>2, <1>3, <1>4, <1>5, <1>6, MgrSteps

(* What Restore would make of the configuration is not changed by Push.    *)
LEMMA SameSeq ==
  ASSUME NEW G, NEW s \in Seq(G), NEW t \in Seq(G), DOMAIN s = DOMAIN t,
         \A j \in DOMAIN s : s[j] = t[j]
  PROVE  s = t
<1>1. Len(s) \in Nat /\ Len(t) \in Nat /\ DOMAIN s = 1 .. Len(s) /\ DOMAIN t = 1 .. Len(t)
  BY LenProperties
<1>2. ASSUME NEW a \in Nat, NEW b \in Nat, 1 .. a = 1 .. b PROVE a <= b
  <2>1. a = 0 \/ a \in 1 .. a
    OBVIOUS
  <2> QED
    BY <1>2, <2>1
<1>3. Len(s) <= Len(t) /\ Len(t) <= Len(s)
  BY <1>1, <1>2
<1> QED
  BY <1>1, <1>3, SeqEqual

LEMMA ReplacedBySame ==
  ASSUME NEW G, NEW s \in Seq(G), NEW k \in 1 .. Len(s)
  PROVE  [s EXCEPT ![k] = s[k]] = s
<1> DEFINE t == [s EXCEPT ![k] = s[k]]
<1>1. s[k] \in G
  BY ElementOfSeq
<1>2. t \in Seq(G) /\ DOMAIN t = DOMAIN s /\ \A j \in DOMAIN t : t[j] = s[j]
  BY <1>1, Replaced
<1> HIDE DEF t
<1>3. t = s
  BY <1>2, SameSeq
<1> QED
  BY <1>3 DEF t

LEMMA ReplacedTwice ==
  ASSUME NEW G, NEW s \in Seq(G), NEW k \in 1 .. Len(s), NEW x \in G, NEW y \in G
  PROVE  LET t == [s EXCEPT ![k] = x] IN [t EXCEPT ![k] = y] = [s EXCEPT ![k] = y]
<1> DEFINE t == [s EXCEPT ![k] = x]
           u == [s EXCEPT ![k] = y]
           v == [t EXCEPT ![k] = y]
<1>1. /\ t \in Seq(G) /\ DOMAIN t = DOMAIN s
      /\ \A j \in DOMAIN t : t[j] = IF j = k THEN x ELSE s[j]
  BY Replaced
<1>2. /\ u \in Seq(G) /\ DOMAIN u = DOMAIN s
      /\ \A j \in DOMAIN u : u[j] = IF j = k THEN y ELSE s[j]
  BY Replaced
<1> HIDE DEF t, u
<1>3. k \in 1 .. Len(t)
  BY <1>1, LenProperties
<1>4. /\ v \in Seq(G) /\ DOMAIN v = DOMAIN t
      /\ \A j \in DOMAIN v : v[j] = IF j = k THEN y ELSE t[j]
  BY <1>1, <1>3, Replaced
<1> HIDE DEF v
<1>5. \A j \in DOMAIN u : u[j] = v[j]
  BY <1>1, <1>2, <1>4
<1>6. v = u
  BY <1>1, <1>2, <1>4, <1>5, SameSeq
<1> QED
  BY <1>6 DEF t, u, v

LEMMA ReplacedAndTakenAway ==
  ASSUME NEW G, NEW s \in Seq(G), NEW k \in 1 .. Len(s), NEW x \in G
  PROVE  LET t == [s EXCEPT ![k] = x]
         IN SubSeq([t EXCEPT ![k] = t[Len(t)]], 1, Len(t) - 1)
              = SubSeq([s EXCEPT ![k] = s[Len(s)]], 1, Len(s) - 1)
<1> DEFINE t == [s EXCEPT ![k] = x]
           u == SubSeq([s EXCEPT ![k] = s[Len(s)]], 1, Len(s) - 1)
           v == SubSeq([t EXCEPT ![k] = t[Len(t)]], 1, Len(t) - 1)
<1>1. /\ t \in Seq(G) /\ DOMAIN t = DOMAIN s
      /\ \A j \in DOMAIN t : t[j] = IF j = k THEN x ELSE s[j]
  BY Replaced
<1>2. /\ u \in Seq(G) /\ Len(s) \in Nat /\ DOMAIN s = 1 .. Len(s) /\ DOMAIN u = 1 .. Len(s) - 1
      /\ \A j \in DOMAIN u : u[j] = s[IF j = k THEN Len(s) ELSE j]
  BY TakenAway
<1> HIDE DEF t, u
<1>3. Len(t) = Len(s) /\ k \in 1 .. Len(t)
  <2>1. Len(t) \in Nat /\ DOMAIN t = 1 .. Len(t)
    BY <1>1, LenProperties
  <2> QED
    BY <1>1, <1>2, <2>1
<1>4. /\ v \in Seq(G) /\ DOMAIN v = 1 .. Len(t) - 1
      /\ \A j \in DOMAIN v : v[j] = t[IF j = k THEN Len(t) ELSE j]
  BY <1>1, <1>3, TakenAway
<1> HIDE DEF v
<1>5. \A j \in DOMAIN u : u[j] = v[j]
  BY <1>1, <1>2, <1>3, <1>4
<1>6. v = u
  BY <1>2, <1>3, <1>4, <1>5, SameSeq
<1> QED
  BY <1>6 DEF t, u, v

LEMMA AppendedAndTakenAway ==
  ASSUME NEW G, NEW s \in Seq(G), NEW x \in G
  PROVE  LET t == Append(s, x)
         IN SubSeq([t EXCEPT ![Len(s) + 1] = t[Len(t)]], 1, Len(t) - 1) = s
<1> DEFINE t == Append(s, x)
           k == Len(s) + 1
           v == SubSeq([t EXCEPT ![k] = t[Len(t)]], 1, Len(t) - 1)
<1>1. /\ t \in Seq(G) /\ Len(s) \in Nat /\ DOMAIN s = 1 .. Len(s) /\ DOMAIN t = 1 .. Len(s) + 1
      /\ \A j \in DOMAIN s : t[j] = s[j]
  BY Appended
<1> HIDE DEF t
<1>2. Len(t) = Len(s) + 1 /\ k \in 1 .. Len(t)
  <2>1. Len(t) \in Nat /\ DOMAIN t = 1 .. Len(t)
    BY <1>1, LenProperties
  <2> QED
    BY <1>1, <2>1
<1>3. /\ v \in Seq(G) /\ DOMAIN v = 1 .. Len(t) - 1
      /\ \A j \in DOMAIN v : v[j] = t[IF j = k THEN Len(t) ELSE j]
  BY <1>1, <1>2, TakenAway
<1> HIDE DEF v
<1>4. DOMAIN v = DOMAIN s /\ \A j \in DOMAIN v : v[j] = s[j]
  BY <1>1, <1>2, <1>3
<1>5. v = s
  BY <1>3, <1>4, SameSeq
<1> QED
  BY <1>5 DEF t, k, v

LEMMA PushRestoresAlike ==
  ASSUME TypeOK, BackupHasSecrets, UpdateHd, backup # Nothing, Found = {} => backup = Absent
  PROVE  RestoredItems' = RestoredItems
<1> DEFINE P == push.oauths
<1>a. /\ items \in Seq(Item) /\ P \in Item /\ Matches(P) /\ items' = WithOAuth(P)
      /\ Found' # {} /\ backup' = backup
  BY UpdateHdPushes, ContentIsItem DEF TypeOK, Item, UpdateHd
<1> HIDE DEF P
<1>1. CASE Found = {}
  <2>1. items' = Append(items, P) /\ backup = Absent
    BY <1>1, <1>a DEF WithOAuth
  <2>2. Index' = Len(items) + 1
    <3>1. At(items) = {}
      BY <1>1, Now
    <3>2. First(Append(items, P)) = Len(items) + 1
      BY <1>a, <3>1, FirstAppended
    <3> QED
      BY <2>1, <3>2, Then
  <2>3. WithoutOAuth' = items
    BY <1>a, <2>1, <2>2, AppendedAndTakenAway DEF WithoutOAuth, WithoutItem
  <2> QED
    BY <1>1, <1>a, <2>1, <2>3 DEF RestoredItems
<1>2. CASE Found # {}
  <2>1. Index \in 1 .. Len(items) /\ items' = [items EXCEPT ![Index] = P]
    BY <1>2, <1>a, FoundIsItem DEF WithOAuth
  <2>2. Index' = Index
    <3>1. At(items) # {} /\ items' = [items EXCEPT ![First(items)] = P]
      BY <1>2, <2>1, Now
    <3>2. First([items EXCEPT ![First(items)] = P]) = First(items)
      BY <1>a, <3>1, FirstReplaced
    <3> QED
      BY <3>1, <3>2, Now, Then
  <2>3. CASE backup = Absent
    <3>1. WithoutOAuth' = WithoutOAuth
      BY <1>a, <2>1, <2>2, ReplacedAndTakenAway DEF WithoutOAuth, WithoutItem
    <3> QED
      BY <1>2, <1>a, <2>3, <3>1 DEF RestoredItems
  <2>4. CASE backup # Absent
    <3>1. backup \in Item
      BY <2>4 DEF BackupHasSecrets, Supplied
    <3>2. [items' EXCEPT ![Index] = backup] = [items EXCEPT ![Index] = backup]
      BY <1>a, <2>1, <3>1, ReplacedTwice
    <3> QED
      BY <1>2, <1>a, <2>2, <2>4, <3>2 DEF RestoredItems
  <2> QED
    BY <2>3, <2>4
<1> QED
  BY <1>1, <1>2

LEMMA RestoreRestores ==
  ASSUME TypeOK, BackupHasSecrets, Restore
  PROVE  items' = RestoredItems
BY DEF Restore, RestoredItems, WithOAuth

(* The administrator's change makes another whole configuration.           *)
LEMMA ConfigureIsWhole ==
  ASSUME TypeOK, WholeIn(items), Configure, scenario' = scenario
  PROVE  WholeIn(items)'
<1>a. items \in Seq(Item) /\ DOMAIN items = 1 .. Len(items)
  BY LenProperties DEF TypeOK, Item
<1>b. {Admin} \in Item /\ {Admin} \notin Others /\ {Admin} # Absent
  BY AdminIsContent, ContentIsItem
<1>c. OtherObjects' = OtherObjects
  BY DEF OtherObjects, May
<1>d. \A x \in OtherObjects : x # {Admin}
  BY <1>b, OthersAreItems
<1>1. CASE original = Absent /\ original' = {Admin}
  <2>1. Own = OtherObjects /\ Own' = OtherObjects \cup {{Admin}}
    BY <1>1, <1>b, <1>c, OthersAreItems DEF Own, Item
  <2>2. \A i \in DOMAIN items : items[i] \in OtherObjects
    BY <2>1 DEF WholeIn, WholeFor
  <2>3. items' = Append(items, {Admin})
    BY <1>1, <1>b, <2>2, OthersAreItems, ConfigureWrites
  <2>4. /\ Len(items) \in Nat
        /\ DOMAIN items' = 1 .. Len(items) + 1
        /\ \A j \in DOMAIN items : items'[j] = items[j]
        /\ items'[Len(items) + 1] = {Admin}
    BY <1>a, <1>b, <2>3, Appended
  <2>5. \A x \in OtherObjects : OnceIn(items', x)
    BY <1>a, <1>b, <1>d, <2>1, <2>3, AppendedOnce DEF WholeIn, WholeFor
  <2>6. OnceIn(items', {Admin})
    <3>1. \A j \in DOMAIN items' : items'[j] = {Admin} <=> j = Len(items) + 1
      BY <1>a, <1>d, <2>2, <2>4
    <3>2. Len(items) + 1 \in DOMAIN items'
      BY <2>4
    <3> QED
      BY <3>1, <3>2 DEF OnceIn
  <2>7. \A i \in DOMAIN items' : items'[i] \in OtherObjects \cup {{Admin}}
    BY <1>a, <2>2, <2>4
  <2> QED
    BY <2>1, <2>5, <2>6, <2>7 DEF WholeIn, WholeFor
<1>2. CASE original = {Admin} /\ original' = Absent
  <2>1. Own = OtherObjects \cup {{Admin}} /\ Own' = OtherObjects
    BY <1>2, <1>b, <1>c, OthersAreItems DEF Own, Item
  <2>2. PICK k \in DOMAIN items : items[k] = {Admin} /\ items' = WithoutItem(k)
    BY <1>2, <1>b, ConfigureWrites
  <2>3. /\ Len(items) \in Nat
        /\ DOMAIN items' = 1 .. Len(items) - 1
        /\ \A j \in DOMAIN items' : items'[j] = items[IF j = k THEN Len(items) ELSE j]
    BY <1>a, <2>2, TakenAway DEF WithoutItem
  <2>4. \A x \in OtherObjects : OnceIn(items', x)
    BY <1>a, <1>d, <2>1, <2>2, TakenAwayOnce DEF WholeIn, WholeFor, WithoutItem
  <2>5. ASSUME NEW j \in DOMAIN items' PROVE items'[j] \in OtherObjects
    <3> DEFINE i == IF j = k THEN Len(items) ELSE j
    <3>1. i \in DOMAIN items /\ i # k /\ items'[j] = items[i]
      BY <1>a, <2>2, <2>3
    <3> HIDE DEF i
    <3>2. OnceIn(items, {Admin}) /\ items[i] \in Own
      BY <2>1, <3>1 DEF WholeIn, WholeFor
    <3>3. items[i] # {Admin}
      BY <2>2, <3>1, <3>2 DEF OnceIn
    <3> QED
      BY <2>1, <3>1, <3>2, <3>3
  <2> QED
    BY <2>1, <2>4, <2>5 DEF WholeIn, WholeFor
<1> QED
  BY <1>1, <1>2, ConfigureWrites

(* With the copy in its place, the configuration is whole.                 *)
LEMMA BackupShapeStep ==
  ASSUME IInv, Reliable, ReliableShape, [Next]_vars
  PROVE  BackupShape'
<1>a. TypeOK /\ BackupHasSecrets /\ BackupShape /\ SavedFirst
  BY DEF IInv, ReliableShape
<1>b. items \in Seq(Item) /\ Nothing \notin Item /\ Absent \notin Item /\ Absent # Nothing
  BY <1>a, OthersAreItems, ConstantsAssumption DEF TypeOK, Item
<1>c. UNCHANGED original => Own' = Own
  BY SameObjects DEF Own
<1>1. CASE Save /\ backup = Nothing
  <2>1. UNCHANGED <<items, original>> /\ pc' = "push" /\ backup' = OAuth
    BY <1>1 DEF Save, hdVars
  <2>2. OAuth' = OAuth /\ Found' = Found /\ Index' = Index /\ WithoutOAuth' = WithoutOAuth
    BY <2>1, OAuthStays DEF WithoutOAuth, WithoutItem
  <2>3. WholeIn(items)
    BY <1>1, <1>a DEF BackupShape
  <2>4. CASE Found = {}
    <3>1. OAuth = Absent /\ RestoredItems' = items
      BY <2>1, <2>2, <2>4 DEF OAuth, RestoredItems
    <3>2. \A x \in Own : ~Matches(x)
      BY <2>3, <2>4 DEF WholeIn, WholeFor, OnceIn, Found
    <3> QED
      BY <1>b, <1>c, <2>1, <2>2, <2>3, <2>4, <3>1, <3>2 DEF BackupShape, WholeIn, Matches
  <2>5. CASE Found # {}
    <3>1. Index \in 1 .. Len(items) /\ OAuth = items[Index] /\ OAuth \in Item
      BY <1>b, <2>5, FoundIsItem, ElementOfSeq
    <3>2. RestoredItems' = items
      BY <1>b, <2>1, <2>2, <2>5, <3>1, ReplacedBySame DEF RestoredItems
    <3> QED
      BY <1>b, <1>c, <2>1, <2>2, <2>3, <2>5, <3>1, <3>2 DEF BackupShape, WholeIn
  <2> QED
    BY <2>4, <2>5
<1>2. CASE UpdateHd
  <2>1. OAuth' = push.oauths /\ push.oauths \in SUBSET OAuths /\ Found' # {}
    BY <1>a, <1>2, UpdateHdPushes DEF TypeOK
  <2>2. pc = "copy" /\ UNCHANGED <<backup, original>> /\ pc' # "dropBackup" /\ backup # Nothing
    BY <1>a, <1>2 DEF UpdateHd, TypeOK, SavedFirst
  <2>3. RestoredItems' = RestoredItems
    BY <1>a, <1>2, <2>2, PushRestoresAlike DEF BackupShape
  <2> QED
    BY <1>a, <1>c, <2>1, <2>2, <2>3 DEF BackupShape, WholeIn, Matches
<1>3. CASE Restore
  <2>1. /\ items' = RestoredItems /\ UNCHANGED <<backup, original>> /\ backup # Nothing
        /\ Found # {} /\ pc' = "dropBackup"
    BY <1>a, <1>3, RestoreRestores DEF Restore
  <2>2. WholeIn(items)'
    BY <1>a, <1>c, <2>1 DEF BackupShape, WholeIn
  <2>3. CASE backup = Absent
    <3>1. \A x \in Own : ~Matches(x)
      BY <1>a, <2>3 DEF BackupShape
    <3>2. Found' = {}
      BY <1>c, <2>1, <2>2, <3>1, Then DEF WholeIn, WholeFor, At
    <3>3. RestoredItems' = items'
      BY <3>2 DEF RestoredItems
    <3> QED
      BY <1>c, <2>1, <2>2, <2>3, <3>1, <3>2, <3>3 DEF BackupShape, WholeIn, Matches
  <2>4. CASE backup # Absent
    <3>1. backup \in Item /\ Matches(backup) /\ Index \in 1 .. Len(items)
      BY <1>a, <1>b, <2>1, <2>4, FoundIsItem DEF BackupHasSecrets, Supplied
    <3>2. items' = [items EXCEPT ![Index] = backup]
      BY <2>1, <2>4 DEF RestoredItems
    <3>3. Found' = Found /\ Index' = Index /\ OAuth' = backup
      <4>1. At(items) # {} /\ items' = [items EXCEPT ![First(items)] = backup]
        BY <2>1, <3>2, Now
      <4> DEFINE t == [items EXCEPT ![First(items)] = backup]
      <4>2. At(t) = At(items) /\ First(t) = First(items) /\ OAuthOf(t) = backup
        BY <1>b, <3>1, <4>1, FirstReplaced
      <4> HIDE DEF t
      <4>3. items' = t
        BY <4>1 DEF t
      <4> QED
        BY <4>2, <4>3, Now, Then
    <3>4. RestoredItems' = items'
      <4>1. [items' EXCEPT ![Index] = backup] = items'
        BY <1>b, <3>1, <3>2, ReplacedTwice
      <4> QED
        BY <2>1, <2>4, <3>3, <4>1 DEF RestoredItems
    <3> QED
      BY <2>1, <2>2, <2>4, <3>3, <3>4 DEF BackupShape
  <2> QED
    BY <2>3, <2>4
<1>4. CASE DropBackup
  <2>1. UNCHANGED <<items, original>> /\ backup' = Nothing /\ pc' = "unfinalize" /\ WholeIn(items)
    BY <1>a, <1>4 DEF DropBackup, hdVars, BackupShape
  <2> QED
    BY <1>b, <1>c, <2>1 DEF BackupShape, WholeIn
<1>5. CASE Configure
  <2>1. backup = Nothing /\ backup' = Nothing /\ pc' = "idle"
    BY <1>5, ConfigureIsFree
  <2>2. WholeIn(items)'
    BY <1>5, <1>a, <2>1, ScenarioFixed, ConfigureIsWhole DEF BackupShape
  <2> QED
    BY <1>b, <2>1, <2>2 DEF BackupShape
<1>6. CASE UNCHANGED <<items, backup, original>>
  <2>1. OAuth' = OAuth /\ Found' = Found /\ Index' = Index /\ WithoutOAuth' = WithoutOAuth
    BY <1>6, OAuthStays DEF WithoutOAuth, WithoutItem
  <2>2. RestoredItems' = RestoredItems
    BY <1>6, <2>1 DEF RestoredItems
  <2>3. pc' = "dropBackup" => pc = "dropBackup" \/ Restore
    BY <1>a, ReliableSteps
    DEF Manage, StartDelete, Save, PushTo, Unmanage, CopySecret, UpdateHd, NothingToRestore,
        DropBackup, Configure, TypeOK
  <2> QED
    BY <1>3, <1>6, <1>a, <1>c, <2>1, <2>2, <2>3 DEF BackupShape, WholeIn, Matches
<1>7. Save /\ backup # Nothing => UNCHANGED <<items, backup, original>>
  BY DEF Save, hdVars
<1> QED
  BY <1>1, <1>2, <1>3, <1>4, <1>5, <1>6, <1>7, MgrSteps

(* The copy goes with the last ClusterOAuth, and not before.               *)
LEMMA LastShapeStep ==
  ASSUME IInv, Reliable, ReliableShape, [Next]_vars
  PROVE  LastShape'
<1>a. /\ TypeOK /\ ObjectShape /\ WorkerShape /\ BackupShape /\ SavedFirst /\ LastShape
      /\ seen = co
  BY DEF IInv, ReliableShape
<1>b. Nothing \notin OAuths /\ (pc # "idle" => cur \in OAuths)
  BY ConstantsAssumption, <1>a DEF TypeOK
<1>1. CASE Unfinalize
  <2>1. /\ pc = "unfinalize" /\ pc' = "idle" /\ co[cur].phase = "terminating"
        /\ UNCHANGED backup
        /\ backup = Nothing \/ Existing(co) # {cur}
    BY <1>1, <1>a DEF Unfinalize, Stop, LastShape, apiVars
  <2>2. cur \in Existing(co) /\ Existing(co)' = Existing(co) \ {cur}
    BY <1>1, <1>a, <1>b, <2>1 DEF Unfinalize, Existing, NoObject, TypeOK
  <2> QED
    BY <2>1, <2>2 DEF LastShape
<1>2. CASE ~Unfinalize
  <2>1. Existing(co) \subseteq Existing(co')
    BY <1>2, ReliableLife DEF Existing, ReliableShape
  <2>2. backup' # Nothing => Existing(co') # {}
    <3>1. CASE UNCHANGED backup \/ backup' = Nothing
      BY <3>1, <2>1, <1>a DEF LastShape
    <3>2. CASE Save
      <4>1. co[cur].fin /\ cur \in OAuths
        BY <3>2, <1>a, <1>b DEF Save, WorkerShape
      <4>2. cur \in Existing(co)
        BY <4>1, <1>a DEF ObjectShape, Existing
      <4> QED
        BY <2>1, <4>2
    <3> QED
      BY <3>1, <3>2, <1>a, BackupSteps DEF IInv
  <2>3. \A c \in OAuths : co[c].phase = "terminating" => co'[c].phase = "terminating"
    BY <1>2, ReliableLife
  <2>4. ASSUME pc \notin {"idle", "report"}, NEW c \in OAuths, ~Managed(c), ~co[c].fin
        PROVE  ~Managed(c)' /\ ~co'[c].fin
    <3>1. ~Manage(c)
      BY <2>4 DEF Manage
    <3> QED
      BY <2>4, <3>1, ReliableLife
  <2>5. pc' = "unmanage" => co'[cur'].phase = "terminating"
    <3>1. CASE pc = "unmanage" /\ UNCHANGED <<pc, cur>>
      BY <1>a, <1>b, <2>3, <3>1 DEF LastShape
    <3>2. ASSUME NEW c \in OAuths, StartDelete(c) PROVE co'[cur'].phase = "terminating"
      BY <1>a, <3>2 DEF StartDelete
    <3> QED
      BY <1>a, <3>1, <3>2, ReliableSteps
      DEF Manage, Save, PushTo, Unmanage, CopySecret, UpdateHd, NothingToRestore, Restore,
          DropBackup, Configure, TypeOK
  <2>6. pc' \in {"restore", "dropBackup"} =>
          /\ co'[cur'].phase = "terminating"
          /\ \A c \in OAuths \ {cur'} : ~Managed(c)' /\ ~co'[c].fin
    <3>1. CASE pc \in {"restore", "dropBackup"} /\ UNCHANGED cur
      BY <1>a, <1>b, <2>3, <2>4, <3>1 DEF LastShape
    <3>2. CASE Unmanage /\ LastOne
      <4>1. co[cur].phase = "terminating" /\ UNCHANGED cur
        BY <1>a, <3>2 DEF Unmanage, LastShape, PushTo
      <4>2. \A c \in OAuths \ {cur} : co[c].phase = "none" /\ ~co[c].fin /\ ~Managed(c)
        BY <1>a, <1>b, <3>2, <4>1 DEF Unmanage, LastOne, Existing, Managed, ObjectShape
      <4> QED
        BY <1>b, <2>3, <2>4, <3>2, <4>1, <4>2 DEF Unmanage
    <3>3. pc' \in {"restore", "dropBackup"} =>
            (pc \in {"restore", "dropBackup"} /\ UNCHANGED cur) \/ (Unmanage /\ LastOne)
      BY <1>a, ReliableSteps
      DEF Manage, StartDelete, Save, PushTo, Unmanage, CopySecret, UpdateHd,
          NothingToRestore, Restore, DropBackup, Configure, TypeOK
    <3> QED
      BY <3>1, <3>2, <3>3
  <2>7. pc' = "copy" /\ push'.next = "unfinalize" =>
          co'[cur'].phase = "terminating" /\ Existing(co') # {cur'}
    <3>1. CASE pc = "copy" /\ push.next = "unfinalize" /\ UNCHANGED cur
      <4>1. co[cur].phase = "terminating" /\ Existing(co) # {cur} /\ cur \in Existing(co)
        BY <1>a, <1>b, <3>1 DEF LastShape, Existing
      <4> QED
        BY <1>b, <2>1, <2>3, <3>1, <4>1
    <3>2. CASE Unmanage /\ ~LastOne
      <4>1. co[cur].phase = "terminating" /\ UNCHANGED cur
        BY <1>a, <3>2 DEF Unmanage, LastShape, PushTo
      <4>2. Existing(co) # {cur} /\ cur \in Existing(co)
        BY <1>a, <1>b, <3>2, <4>1 DEF Unmanage, LastOne, Existing
      <4> QED
        BY <1>b, <2>1, <2>3, <3>2, <4>1, <4>2 DEF Unmanage
    <3>3. pc' = "copy" /\ push'.next = "unfinalize" =>
            (pc = "copy" /\ push.next = "unfinalize" /\ UNCHANGED cur) \/ (Unmanage /\ ~LastOne)
      <4>1. CopySecret => push'.next = push.next
        BY <1>a DEF CopySecret, TypeOK
      <4> QED
        BY <1>a, <4>1, ReliableSteps
        DEF Manage, StartDelete, Save, PushTo, Unmanage, CopySecret, UpdateHd,
            NothingToRestore, Restore, DropBackup, Configure, TypeOK
    <3> QED
      BY <3>1, <3>2, <3>3
  <2>8. pc' = "unfinalize" =>
          /\ co'[cur'].phase = "terminating"
          /\ \/ backup' # Nothing /\ Existing(co') # {cur'}
             \/ /\ backup' = Nothing
                /\ \A c \in OAuths \ {cur'} : ~Managed(c)' /\ ~co'[c].fin
    <3>1. CASE pc = "unfinalize" /\ UNCHANGED <<cur, backup>>
      <4>1. co[cur].phase = "terminating" /\ cur \in Existing(co)
        BY <1>a, <1>b, <3>1 DEF LastShape, Existing
      <4>2. CASE backup # Nothing /\ Existing(co) # {cur}
        BY <1>b, <2>1, <2>3, <3>1, <4>1, <4>2
      <4>3. CASE backup = Nothing /\ \A c \in OAuths \ {cur} : ~Managed(c) /\ ~co[c].fin
        BY <1>b, <2>3, <2>4, <3>1, <4>1, <4>3
      <4> QED
        BY <1>a, <3>1, <4>2, <4>3 DEF LastShape
    <3>2. CASE UpdateHd /\ pc' = "unfinalize"
      <4>1. pc = "copy" /\ push.next = "unfinalize" /\ UNCHANGED <<cur, backup>>
        BY <3>2 DEF UpdateHd
      <4>2. backup # Nothing /\ co[cur].phase = "terminating" /\ Existing(co) # {cur}
            /\ cur \in Existing(co)
        BY <1>a, <1>b, <4>1 DEF SavedFirst, LastShape, Existing
      <4> QED
        BY <1>b, <2>1, <2>3, <4>1, <4>2
    <3>3. CASE DropBackup
      <4>1. pc = "dropBackup" /\ backup' = Nothing /\ UNCHANGED cur
        BY <3>3 DEF DropBackup
      <4> QED
        BY <1>a, <1>b, <2>3, <2>4, <4>1 DEF LastShape
    <3>4. ~NothingToRestore
      BY AlwaysRestores DEF NothingToRestore
    <3>5. pc' = "unfinalize" =>
            \/ pc = "unfinalize" /\ UNCHANGED <<cur, backup>>
            \/ UpdateHd \/ DropBackup \/ NothingToRestore
      BY <1>a, ReliableSteps
      DEF Manage, StartDelete, Save, PushTo, Unmanage, CopySecret, Restore, Configure, TypeOK
    <3> QED
      BY <3>1, <3>2, <3>3, <3>4, <3>5
  <2> QED
    BY <2>2, <2>5, <2>6, <2>7, <2>8 DEF LastShape, Existing
<1> QED
  BY <1>1, <1>2

LEMMA ReliableInit == Init => ReliableInv
<1> SUFFICES ASSUME Init PROVE ReliableShape
  BY DEF ReliableInv
<1>1. \A c \in OAuths : co[c] = NoObject /\ seen = co
  BY DEF Init
<1>2. SecretShape /\ SavedFirst
  BY <1>1 DEF Init, NoObject, SecretShape, SavedFirst, Managed
<1>3. BackupShape
  BY InitItems, ConstantsAssumption DEF Init, BackupShape
<1>4. LastShape
  BY <1>1 DEF Init, LastShape, NoObject
<1> QED
  BY <1>2, <1>3, <1>4 DEF Init, ReliableShape

LEMMA ReliableNext == IInv /\ ReliableInv /\ [Next]_vars => ReliableInv'
<1> SUFFICES ASSUME IInv, ReliableInv, [Next]_vars, Reliable'
             PROVE  ReliableShape'
  BY DEF ReliableInv
<1>1. Reliable /\ ReliableShape
  BY ScenarioFixed DEF Reliable, ReliableInv
<1>2. seen' = co'
  BY <1>1, SeenKeepsUp DEF ReliableShape
<1> QED
  BY <1>1, <1>2, SecretShapeStep, SavedFirstStep, BackupShapeStep, LastShapeStep
  DEF ReliableShape

LEMMA ReliableInvariance == Spec => [](IInv /\ ReliableInv)
BY ReliableInit, ReliableNext, HostedInvariance, PTL DEF Spec

(* When calls do not fail and caches do not lag, the last ClusterOAuth     *)
(* leaves behind what the administrator configured, the OAuth and every    *)
(* object of another kind whatever its name, and no saved copy.            *)
THEOREM HostedOriginalIsBack == Spec => []RestoredWhenUnmanaged
<1>1. ReliableInv => RestoredWhenUnmanaged
  BY DEF ReliableInv, ReliableShape, LastShape, BackupShape, RestoredWhenUnmanaged, Restored,
         WholeIn, WholeFor, Once, OnceIn
<1> QED
  BY <1>1, ReliableInvariance, PTL

(* An object that gave its place to the pushed OAuth is the saved one.     *)
LEMMA OthersAreSaved ==
  ASSUME TypeOK, BackupHasSecrets, BackupShape, NEW x \in OtherObjects, backup # x
  PROVE  OnceIn(items, x)
<1>a. items \in Seq(Item) /\ x \in Own /\ x \in Others /\ x # Absent
  BY OthersAreItems DEF TypeOK, Item, Own
<1>1. CASE backup = Nothing
  BY <1>1, <1>a DEF BackupShape, WholeIn, WholeFor
<1>2. CASE backup # Nothing /\ Found = {}
  BY <1>2, <1>a DEF BackupShape, RestoredItems, WholeIn, WholeFor
<1>3. CASE backup # Nothing /\ Found # {}
  <2>1. OnceIn(RestoredItems, x)
    BY <1>3, <1>a DEF BackupShape, WholeIn, WholeFor
  <2>2. Index \in 1 .. Len(items) /\ items[Index] = OAuth
    BY <1>3, <1>a, FoundIsItem
  <2>3. items[Index] # x
    <3>1. OAuth \in SUBSET OAuths => OAuth \in Content
      BY DEF Content
    <3> QED
      BY <1>3, <1>a, <2>2, <3>1, ContentIsItem DEF BackupShape
  <2>4. CASE backup = Absent
    BY <1>3, <1>a, <2>1, <2>2, <2>3, <2>4, TakenAwayOnce
    DEF RestoredItems, WithoutOAuth, WithoutItem
  <2>5. CASE backup # Absent
    <3>1. backup \in Item
      BY <1>3, <2>5 DEF BackupHasSecrets, Supplied
    <3> QED
      BY <1>3, <1>a, <2>1, <2>2, <2>3, <2>5, <3>1, ReplacedOnce DEF RestoredItems
  <2> QED
    BY <2>4, <2>5
<1> QED
  BY <1>1, <1>2, <1>3

(* Whatever Push and Unmanage replace, move and cut off, the configuration *)
(* objects of other kinds stay, once each, or, when they are named as the  *)
(* OAuth is and calls do not fail, are kept in the ConfigMap; without such *)
(* a name there is one OAuth at most.                                      *)
THEOREM OthersAreKept == Spec => []OthersKept
<1> DEFINE K == KeptIn(items)
<1>1. IInv /\ K /\ ReliableInv => OthersKept
  BY NowKept, OthersAreSaved DEF IInv, ReliableInv, ReliableShape
<1> HIDE DEF K
<1>2. Spec => [](IInv /\ K)
  BY KeptInvariance DEF K
<1> QED
  BY <1>1, <1>2, ReliableInvariance, PTL

(* What ClusterOAuthMgr sees, when nothing else is named as the OAuth is.  *)
PromiseShape ==
  /\ backup \in {Nothing, original}
  /\ backup = Nothing => OAuth = original
  /\ OAuth \in {original} \cup SUBSET OAuths
  /\ pc = "dropBackup" => OAuth = original /\ backup # Nothing

LEMMA WholeHasOriginal ==
  ASSUME ~May("namesake"), TypeOK, NEW s \in Seq(Item), WholeIn(s)
  PROVE  OAuthOf(s) = original
<1>a. {Admin} \in Content /\ {Admin} \notin Others /\ original \in {Absent, {Admin}}
  BY AdminIsContent, ContentIsItem DEF TypeOK
<1>b. \A i \in DOMAIN s : s[i] \in Own /\ s[i] \in Item
  BY OwnIsItem DEF WholeIn, WholeFor
<1>1. CASE At(s) = {}
  <2>1. \A i \in DOMAIN s : s[i] \in Others
    BY <1>1, <1>b, OnlyOAuthMatches DEF At
  <2>2. {Admin} \notin Own
    BY <1>a, <2>1 DEF WholeIn, WholeFor, OnceIn
  <2>3. original = Absent
    BY <1>a, <2>2, ContentIsItem DEF Own
  <2> QED
    BY <1>1, <2>3 DEF OAuthOf
<1>2. CASE At(s) # {}
  <2>1. OAuthOf(s) = s[First(s)] /\ First(s) \in DOMAIN s /\ Matches(OAuthOf(s))
    BY <1>2, FirstIsFirst, LenProperties
  <2>2. OAuthOf(s) \in Own /\ OAuthOf(s) \notin Others
    BY <1>b, <2>1, OnlyOAuthMatches
  <2> QED
    BY <2>2, OwnIsItem
<1> QED
  BY <1>1, <1>2

LEMMA PromiseHolds ==
  ASSUME ~May("namesake"), IInv, Reliable, ReliableShape
  PROVE  PromiseShape
<1>a. TypeOK /\ BackupHasSecrets /\ BackupShape /\ items \in Seq(Item)
  BY DEF IInv, ReliableShape, TypeOK, Item
<1>b. WholeIn(items) => OAuth = original
  BY <1>a, WholeHasOriginal, Now
<1>1. CASE backup = Nothing
  BY <1>1, <1>a, <1>b DEF BackupShape, PromiseShape
<1>2. CASE backup = Absent
  <2>1. \A x \in Own : ~Matches(x)
    BY <1>2, <1>a DEF BackupShape
  <2>2. original = Absent
    BY <1>a, <2>1, AdminIsContent, ContentIsItem DEF TypeOK, Own
  <2>3. Absent # Nothing
    BY ConstantsAssumption
  <2> QED
    BY <1>2, <1>a, <1>b, <2>2, <2>3 DEF BackupShape, PromiseShape, OAuth
<1>3. CASE backup \notin {Nothing, Absent}
  <2>1. backup \in Item /\ Matches(backup) /\ Found # {}
    BY <1>3, <1>a DEF BackupHasSecrets, Supplied, BackupShape
  <2>2. Index \in 1 .. Len(items) /\ RestoredItems = [items EXCEPT ![Index] = backup]
    BY <1>3, <1>a, <2>1, FoundIsItem DEF RestoredItems
  <2>3. RestoredItems \in Seq(Item) /\ OAuthOf(RestoredItems) = backup
    BY <1>a, <2>1, <2>2, Replaced, FirstReplaced, Now
  <2>4. backup = original
    BY <1>3, <1>a, <2>3, WholeHasOriginal DEF BackupShape
  <2> QED
    BY <1>3, <1>a, <1>b, <2>1, <2>4 DEF BackupShape, PromiseShape
<1> QED
  BY <1>1, <1>2, <1>3

(* Then every step of the controller is one of ClusterOAuthMgr.            *)
LEMMA EveryStepIsPromised ==
  ASSUME IInv, Reliable, ReliableShape, PromiseShape, PromiseShape', [Next]_vars
  PROVE  Mgr!Step
<1> DEFINE saved == IF backup = Nothing THEN {} ELSE {backup}
<1>a. TypeOK /\ BackupHasSecrets /\ PromiseShape /\ SavedFirst
  BY DEF IInv, ReliableShape
<1>1. CASE UNCHANGED <<items, backup, original>>
  <2>1. OAuth' = OAuth /\ saved' = saved
    BY <1>1, OAuthStays
  <2>2. CASE backup = Nothing
    <3>1. Mgr!Configure
      BY <1>1, <1>a, <2>1, <2>2 DEF Mgr!Configure, PromiseShape
    <3> QED
      BY <3>1 DEF Mgr!Step
  <2>3. CASE backup # Nothing /\ OAuth = original
    <3>1. Mgr!RestoreOriginal
      BY <1>1, <1>a, <2>1, <2>3 DEF Mgr!RestoreOriginal, PromiseShape
    <3> QED
      BY <3>1 DEF Mgr!Step
  <2>4. CASE backup # Nothing /\ OAuth \in SUBSET OAuths
    <3>1. Mgr!PushOAuths
      BY <1>1, <2>1, <2>4 DEF Mgr!PushOAuths
    <3> QED
      BY <3>1 DEF Mgr!Step
  <2> QED
    BY <1>a, <2>2, <2>3, <2>4 DEF PromiseShape
<1>2. CASE Save /\ backup = Nothing
  <2>1. UNCHANGED <<items, original>> /\ backup' = OAuth /\ OAuth' = OAuth /\ OAuth # Nothing
    BY <1>a, <1>2, OAuthStays, NothingIsNoOAuth DEF Save, hdVars
  <2>2. Mgr!SaveOriginal
    BY <1>2, <1>a, <2>1 DEF Mgr!SaveOriginal, PromiseShape
  <2> QED
    BY <2>2 DEF Mgr!Step
<1>3. CASE UpdateHd
  <2>1. OAuth' = push.oauths /\ push.oauths \in SUBSET OAuths
    BY <1>a, <1>3, UpdateHdPushes DEF TypeOK
  <2>2. backup # Nothing /\ UNCHANGED <<backup, original>>
    BY <1>a, <1>3 DEF UpdateHd, SavedFirst
  <2>3. Mgr!PushOAuths
    BY <2>1, <2>2 DEF Mgr!PushOAuths
  <2> QED
    BY <2>3 DEF Mgr!Step
<1>4. CASE Restore
  <2>1. pc' = "dropBackup" /\ backup # Nothing /\ UNCHANGED <<backup, original>>
    BY <1>4 DEF Restore
  <2>2. OAuth' = backup
    BY <1>a, <2>1 DEF PromiseShape
  <2>3. Mgr!RestoreOriginal
    BY <2>1, <2>2 DEF Mgr!RestoreOriginal
  <2> QED
    BY <2>3 DEF Mgr!Step
<1>5. CASE DropBackup
  <2>1. /\ OAuth = original /\ backup = original /\ backup # Nothing
        /\ UNCHANGED <<items, original>> /\ backup' = Nothing
    BY <1>a, <1>5 DEF DropBackup, hdVars, PromiseShape
  <2>2. OAuth' = OAuth
    BY <2>1, OAuthStays
  <2>3. Mgr!DropCopy
    BY <2>1, <2>2 DEF Mgr!DropCopy
  <2> QED
    BY <2>3 DEF Mgr!Step
<1>6. CASE Configure
  <2>1. backup = Nothing /\ UNCHANGED backup
    BY <1>6, ConfigureIsFree
  <2>2. OAuth' = original' /\ OAuth = original
    BY <2>1 DEF PromiseShape
  <2>3. Mgr!Configure
    BY <2>1, <2>2 DEF Mgr!Configure
  <2> QED
    BY <2>3 DEF Mgr!Step
<1>7. Save /\ backup # Nothing => UNCHANGED <<items, backup, original>>
  BY DEF Save, hdVars
<1> QED
  BY <1>1, <1>2, <1>3, <1>4, <1>5, <1>6, <1>7, MgrSteps

(* When calls do not fail, caches do not lag and nothing else is named as  *)
(* the OAuth is, the controller implements ClusterOAuthMgr: Save keeps the *)
(* original before Push replaces it, and Unmanage puts it back before the  *)
(* copy is given up.                                                       *)
THEOREM HostedKeepsPromise == Spec => KeepsPromise
<1> DEFINE Promising == Reliable /\ ~May("namesake") => PromiseShape
<1>1. Init => (~May("namesake") => Mgr!Start)
  <2> SUFFICES ASSUME Init, ~May("namesake") PROVE Mgr!Start
    OBVIOUS
  <2>1. OAuth = original
    BY InitItems, InitInvariant, OthersAreItems, WholeHasOriginal, Now DEF IInv, TypeOK, Item
  <2> QED
    BY <2>1 DEF Init, Mgr!Start
<1>2. IInv /\ ReliableInv => Promising
  BY PromiseHolds DEF ReliableInv
<1>3. IInv /\ ReliableInv /\ Promising /\ Promising' /\ [Next]_vars
        => [Reliable /\ ~May("namesake") => Mgr!Step]_vars
  <2> SUFFICES ASSUME IInv, ReliableInv, Promising, Promising', [Next]_vars,
                      Reliable, ~May("namesake")
               PROVE  Mgr!Step
    OBVIOUS
  <2>1. Reliable' /\ ~May("namesake")'
    BY ScenarioFixed DEF Reliable, May
  <2> QED
    BY <2>1, EveryStepIsPromised DEF ReliableInv
<1> HIDE DEF Promising
<1> QED
  BY <1>1, <1>2, <1>3, ReliableInvariance, PTL DEF Spec, KeepsPromise

-----------------------------------------------------------------------------
(* Calls that do not fail and an informer that keeps up are enough for the *)
(* finalizer: also when ClusterOAuths are deleted before they were applied *)
(* and a ConfigMap is left behind, no provider outlives its ClusterOAuth.  *)

Attentive == {"lag", "abort"} \cap scenario = {}

Unpushed == \A c \in OAuths : ~Pushed(c)

(* Providers are in the OAuth that searchConfiguration finds, and in no    *)
(* other configuration object: what comes after it when it is removed has  *)
(* none.                                                                   *)
Plain == {x \in Item : x \notin Others => OAuths \cap x = {}}

OneHasProviders == \A i \in DOMAIN items : i # Index => items[i] \in Plain

(* The ClusterOAuth that is being unmanaged stays, and Unmanage restores   *)
(* when no other one has ever been pushed.                                 *)
UnmanageShape ==
  /\ pc \in {"unmanage", "restore", "dropBackup", "unfinalize"} => co[cur].phase = "terminating"
  /\ pc \in {"restore", "dropBackup"} => \A c \in OAuths \ {cur} : ~co[c].fin
  /\ pc = "copy" /\ push.next = "unfinalize" =>
       co[cur].phase = "terminating" /\ cur \notin push.oauths

(* Providers are pushed over a saved OAuth only, and not saved themselves. *)
SavedUnpushed ==
  /\ backup = Nothing => Unpushed
  /\ backup \notin {Nothing, Absent} => backup \in Plain
  /\ pc \in {"push", "copy"} => backup # Nothing
  /\ pc = "dropBackup" => Unpushed
  /\ \A c \in OAuths : hosted /\ co[c].fin /\ backup = Nothing =>
       cur = c /\ pc \in {"save", "unfinalize"}

CurIsUnpushed == pc = "unfinalize" => ~Pushed(cur)

AttentiveShape ==
  seen = co /\ OneHasProviders /\ UnmanageShape /\ SavedUnpushed /\ CurIsUnpushed

LEMMA CalmMeans == Attentive => ~May("lag") /\ ~May("abort")
BY DEF Attentive, May

LEMMA SeenIsCurrent ==
  ASSUME Attentive, seen = co, [Next]_vars
  PROVE  seen' = co'
BY CalmMeans
DEF Next, vars, apiVars, Worker, Take, Continue, Placement, Forget, Manage, StartDelete,
    Save, SaveFails, Push, PushTo, CopySecret, UpdateHd, PushFails, Report, Unmanage,
    NothingToRestore, Restore, DropBackup, UnmanageFails, Unfinalize, Observe, Abort,
    Restart, CreateSecret, CreateOAuth, DeleteSecret, DeleteOAuth, Configure, Detach,
    Fail, Stop, Informed

(* What ends a Save and the removal of a finalizer.                        *)
LEMMA Endings ==
  ASSUME Attentive, [Next]_vars, pc \in {"save", "unfinalize"}
  PROVE  UNCHANGED <<pc, cur>> \/ Save \/ (SaveFails /\ ~hosted) \/ Unfinalize
BY CalmMeans
DEF Next, vars, apiVars, Worker, Take, Continue, Placement, Forget, Manage, StartDelete,
    SaveFails, Push, PushTo, CopySecret, UpdateHd, PushFails, Report, Unmanage,
    NothingToRestore, Restore, DropBackup, UnmanageFails, Observe, Abort, Restart,
    CreateSecret, CreateOAuth, DeleteSecret, DeleteOAuth, Configure, Detach

LEMMA HostedBefore == [Next]_vars /\ hosted' => hosted
BY DEF Next, vars, apiVars, Worker, Take, Continue, Placement, Forget, Manage, StartDelete,
       Save, SaveFails, Push, PushTo, CopySecret, UpdateHd, PushFails, Report, Unmanage,
       NothingToRestore, Restore, DropBackup, UnmanageFails, Unfinalize, Observe, Abort,
       Restart, CreateSecret, CreateOAuth, DeleteSecret, DeleteOAuth, Configure, Detach

(* An object in deletion waits for its Unfinalize, and only Manage adds a  *)
(* finalizer.                                                              *)
LEMMA FinalizedLife ==
  ASSUME IInv, [Next]_vars, NEW c \in OAuths
  PROVE  /\ co[c].phase = "terminating" /\ ~Unfinalize => co'[c].phase = "terminating"
         /\ co'[c].fin => co[c].fin \/ Manage(c)
BY ObjectLife DEF IInv, ObjectShape, NoObject

LEMMA UnmanageShapeStep ==
  ASSUME IInv, AttentiveShape, [Next]_vars
  PROVE  UnmanageShape'
<1>a. TypeOK /\ ObjectShape /\ seen = co /\ UnmanageShape
  BY DEF IInv, AttentiveShape
<1>b. pc # "idle" => cur \in OAuths
  BY <1>a DEF TypeOK
<1>1. CASE UNCHANGED <<pc, cur, push>>
  <2>1. pc # "idle" => ~Unfinalize /\ \A c \in OAuths : ~Manage(c)
    BY <1>1 DEF Unfinalize, Stop, Manage
  <2>2. pc # "idle" => /\ co[cur].phase = "terminating" => co'[cur].phase = "terminating"
                       /\ \A c \in OAuths : co'[c].fin => co[c].fin
    BY <1>b, <2>1, FinalizedLife
  <2> QED
    BY <1>1, <1>a, <2>2 DEF UnmanageShape
<1>2. CASE pc' = "idle"
  BY <1>2 DEF UnmanageShape
<1>3. ASSUME NEW c \in OAuths, Manage(c) PROVE UnmanageShape'
  BY <1>3 DEF Manage, UnmanageShape
<1>4. ASSUME NEW c \in OAuths, StartDelete(c) PROVE UnmanageShape'
  BY <1>4, <1>a DEF StartDelete, UnmanageShape
<1>5. CASE Save
  BY <1>5 DEF Save, UnmanageShape
<1>6. CASE PushTo("report")
  BY <1>6 DEF PushTo, UnmanageShape
<1>7. CASE pc = "unmanage" /\ PushTo("unfinalize")
  BY <1>7, <1>a DEF PushTo, UnmanageShape, Live
<1>8. CASE CopySecret
  BY <1>8, <1>a DEF CopySecret, UnmanageShape, TypeOK
<1>9. CASE UpdateHd
  BY <1>9, <1>a DEF UpdateHd, UnmanageShape, TypeOK
<1>10. CASE Unmanage /\ LastOne /\ pc' = "restore" /\ UNCHANGED <<co, push>>
  <2>1. pc = "unmanage" /\ cur' = cur /\ co[cur].phase = "terminating" /\ cur \in OAuths
    BY <1>10, <1>a, <1>b DEF Unmanage, UnmanageShape, PushTo
  <2>2. Existing(co) = {cur}
    BY <1>10, <1>a, <2>1 DEF LastOne, Existing
  <2>3. \A c \in OAuths \ {cur} : ~co[c].fin
    BY <1>a, <2>2 DEF ObjectShape, Existing
  <2> QED
    BY <1>10, <2>1, <2>3 DEF UnmanageShape
<1>11. CASE NothingToRestore \/ Restore \/ DropBackup
  BY <1>11, <1>a DEF NothingToRestore, Restore, DropBackup, UnmanageShape
<1> QED
  BY <1>a, <1>1, <1>2, <1>3, <1>4, <1>5, <1>6, <1>7, <1>8, <1>9, <1>10, <1>11, WorkerSteps

LEMMA SamePlain == [Next]_vars => Plain' = Plain
BY SameObjects DEF Plain

LEMMA PlainIsUnpushed ==
  ASSUME items \in Seq(Plain)
  PROVE  Unpushed
BY OAuthIsItem DEF Unpushed, Pushed, Plain

LEMMA PlainIsUnpushedNext ==
  ASSUME items' \in Seq(Plain)
  PROVE  Unpushed'
<1>1. OAuth' # Absent => OAuth' \in Plain
  BY Then, FirstIsFirst DEF OAuthOf
<1> QED
  BY <1>1 DEF Unpushed, Pushed, Plain

LEMMA UnpushedIsPlain ==
  ASSUME TypeOK, OneHasProviders, Unpushed
  PROVE  items \in Seq(Plain)
<1>1. items \in Seq(Item) /\ DOMAIN items = 1 .. Len(items)
  BY LenProperties DEF TypeOK, Item
<1>2. ASSUME NEW j \in DOMAIN items PROVE items[j] \in Plain
  <2>1. CASE j # Index
    BY <1>2, <2>1 DEF OneHasProviders
  <2>2. CASE j = Index /\ Found # {}
    BY <1>1, <2>2, FoundIsItem, OthersAreItems, ElementOfSeq
    DEF Unpushed, Pushed, Plain
  <2>3. CASE Found = {}
    BY <1>1, <1>2, <2>3, ElementOfSeq DEF Found, Matches, Plain
  <2> QED
    BY <2>1, <2>2, <2>3
<1> QED
  BY <1>1, <1>2, SeqOf

LEMMA WithoutOAuthIsPlain ==
  ASSUME TypeOK, OneHasProviders, Found # {}
  PROVE  WithoutOAuth \in Seq(Plain)
<1>1. items \in Seq(Item) /\ Index \in 1 .. Len(items)
  BY Now, FirstIsFirst DEF TypeOK, Item
<1>2. /\ WithoutOAuth \in Seq(Item)
      /\ Len(items) \in Nat
      /\ DOMAIN items = 1 .. Len(items)
      /\ DOMAIN WithoutOAuth = 1 .. Len(items) - 1
      /\ \A j \in DOMAIN WithoutOAuth :
           WithoutOAuth[j] = items[IF j = Index THEN Len(items) ELSE j]
  BY <1>1, TakenAway DEF WithoutOAuth, WithoutItem
<1>3. \A j \in DOMAIN WithoutOAuth : WithoutOAuth[j] \in Plain
  BY <1>1, <1>2 DEF OneHasProviders
<1> QED
  BY <1>2, <1>3, SeqOf

LEMMA WithOAuthLeavesPlain ==
  ASSUME TypeOK, OneHasProviders, NEW x \in Item, Matches(x)
  PROVE  \A j \in DOMAIN WithOAuth(x) :
           j # First(WithOAuth(x)) => WithOAuth(x)[j] \in Plain
<1>a. items \in Seq(Item) /\ Found = At(items) /\ Index = First(items)
  BY Now DEF TypeOK, Item
<1>1. CASE At(items) = {}
  <2> DEFINE t == Append(items, x)
  <2>1. WithOAuth(x) = t
    BY <1>a, <1>1 DEF WithOAuth
  <2>2. /\ Len(items) \in Nat
        /\ DOMAIN items = 1 .. Len(items)
        /\ DOMAIN t = 1 .. Len(items) + 1
        /\ \A j \in DOMAIN items : t[j] = items[j]
        /\ First(t) = Len(items) + 1
    BY <1>a, <1>1, Appended, FirstAppended
  <2>3. \A j \in DOMAIN items : items[j] \in Plain
    <3>1. \A j \in DOMAIN items : items[j] \in Others
      BY <1>1 DEF At, Matches
    <3> QED
      BY <1>a, <3>1, ElementOfSeq, LenProperties DEF Plain
  <2> HIDE DEF t
  <2> QED
    BY <2>1, <2>2, <2>3
<1>2. CASE At(items) # {}
  <2> DEFINE k == First(items)
             t == [items EXCEPT ![k] = x]
  <2>1. WithOAuth(x) = t
    BY <1>a, <1>2 DEF WithOAuth
  <2>2. k \in 1 .. Len(items)
    BY <1>a, <1>2, FirstIsFirst
  <2>3. /\ DOMAIN t = DOMAIN items
        /\ \A j \in DOMAIN t : t[j] = IF j = k THEN x ELSE items[j]
    BY <1>a, <2>2, Replaced
  <2>4. First(t) = k
    BY <1>a, <1>2, FirstReplaced
  <2> HIDE DEF k, t
  <2>5. k = Index
    BY <1>a DEF k
  <2> QED
    BY <2>1, <2>3, <2>4, <2>5 DEF OneHasProviders
<1> QED
  BY <1>1, <1>2

(* What the administrator changes has no providers of ClusterOAuths, and   *)
(* comes after the item that has.                                          *)
LEMMA ConfigureLeavesPlain ==
  ASSUME TypeOK, OneHasProviders, Configure
  PROVE  \A j \in DOMAIN items' : j # First(items') => items'[j] \in Plain
<1>a. items \in Seq(Item) /\ Found = At(items) /\ Index = First(items)
      /\ Len(items) \in Nat /\ DOMAIN items = 1 .. Len(items)
  BY Now, LenProperties DEF TypeOK, Item
<1>b. {Admin} \in Plain /\ {Admin} \in Item /\ Matches({Admin})
  BY AdminIsContent, ContentIsItem DEF Plain
<1>1. CASE (\A j \in DOMAIN items : items[j] \in Others) /\ items' = Append(items, {Admin})
  <2>1. \A j \in DOMAIN items : items[j] \in Plain
    BY <1>1, <1>a, ElementOfSeq DEF Plain
  <2> QED
    BY <1>1, <1>a, <1>b, <2>1, Appended
<1>2. ASSUME NEW i \in DOMAIN items, Matches(items[i]), i = Index,
             items' = [items EXCEPT ![i] = {Admin}] \/ (items[i] = {Admin} /\ items' = WithoutItem(i))
      PROVE  \A j \in DOMAIN items' : items'[j] \in Plain
  <2>1. \A j \in DOMAIN items : j # i => items[j] \in Plain
    BY <1>2 DEF OneHasProviders
  <2>2. CASE items' = [items EXCEPT ![i] = {Admin}]
    BY <1>a, <1>b, <2>1, <2>2, Replaced
  <2>3. CASE items[i] = {Admin} /\ items' = WithoutItem(i)
    BY <1>a, <1>b, <2>1, <2>3, TakenAway DEF WithoutItem
  <2> QED
    BY <1>2, <2>2, <2>3
<1>3. ASSUME NEW i \in DOMAIN items, Matches(items[i]), i # Index,
             items' = [items EXCEPT ![i] = {Admin}] \/ (items[i] = {Admin} /\ items' = WithoutItem(i))
      PROVE  \A j \in DOMAIN items' : j # First(items') => items'[j] \in Plain
  <2>1. /\ Index \in At(items) /\ Index < i /\ Index \in DOMAIN items
        /\ \A j \in At(items) : Index <= j
    BY <1>a, <1>3, FirstIsFirst DEF At
  <2>2. /\ Index \in DOMAIN items'
        /\ \A j \in DOMAIN items' : j < i => j \in DOMAIN items /\ items'[j] = items[j]
        /\ \A j \in DOMAIN items' : j >= i => items'[j] \in Plain
    <3>1. CASE items' = [items EXCEPT ![i] = {Admin}]
      <4>1. DOMAIN items' = DOMAIN items
            /\ \A j \in DOMAIN items' : items'[j] = IF j = i THEN {Admin} ELSE items[j]
        BY <1>a, <1>b, <3>1, Replaced
      <4>2. \A j \in DOMAIN items' : j > i => items[j] \in Plain
        BY <1>a, <2>1, <4>1 DEF OneHasProviders
      <4>3. \A j \in DOMAIN items' : j \in Nat /\ i \in Nat /\ (j >= i => j = i \/ j > i)
        BY <1>a, <4>1
      <4>4. \A j \in DOMAIN items' : j < i => j \in DOMAIN items /\ items'[j] = items[j]
        BY <4>1, <4>3
      <4>5. \A j \in DOMAIN items' : j >= i => items'[j] \in Plain
        BY <1>b, <4>1, <4>2, <4>3
      <4> QED
        BY <2>1, <4>1, <4>4, <4>5
    <3>2. CASE items[i] = {Admin} /\ items' = WithoutItem(i)
      <4>1. DOMAIN items' = 1 .. Len(items) - 1
            /\ \A j \in DOMAIN items' : items'[j] = items[IF j = i THEN Len(items) ELSE j]
        BY <1>a, <3>2, TakenAway DEF WithoutItem
      <4>2. Index \in DOMAIN items' /\ \A j \in DOMAIN items' : j < i => items'[j] = items[j]
        BY <1>a, <2>1, <4>1
      <4>3. \A j \in DOMAIN items : j >= i => items[j] \in Plain
        BY <1>a, <2>1 DEF OneHasProviders
      <4>4. \A j \in DOMAIN items' : j >= i => items'[j] \in Plain
        BY <1>a, <4>1, <4>3
      <4> QED
        BY <1>a, <4>1, <4>2, <4>4
    <3> QED
      BY <1>3, <3>1, <3>2
  <2>3. Index \in At(items') /\ \A j \in At(items') : Index <= j
    <3>1. items'[Index] = items[Index] /\ Matches(items[Index])
      BY <2>1, <2>2 DEF At
    <3>2. \A j \in At(items') : j \in Nat /\ (j < i => j \in At(items))
      <4>1. DOMAIN items' \subseteq Nat
        BY <1>a, <1>b, <1>3, Replaced, TakenAway DEF WithoutItem
      <4> QED
        BY <2>2, <4>1 DEF At
    <3> QED
      BY <1>a, <2>1, <2>2, <3>1, <3>2 DEF At
  <2>4. First(items') = Index
    <3>1. First(items') \in At(items') /\ \A j \in At(items') : First(items') <= j
      BY <2>3 DEF First
    <3>2. At(items') \subseteq Nat
      BY <1>a, <1>b, <1>3, Replaced, TakenAway DEF WithoutItem, At
    <3> HIDE DEF First, At
    <3>3. Index \in Nat /\ First(items') \in Nat
      BY <2>3, <3>1, <3>2
    <3>4. Index <= First(items') /\ First(items') <= Index
      BY <2>3, <3>1
    <3> QED
      BY <3>3, <3>4
  <2>5. \A j \in DOMAIN items' : j \in Nat
    BY <1>a, <1>b, <1>3, Replaced, TakenAway DEF WithoutItem
  <2>6. \A j \in DOMAIN items' : j < i \/ j >= i
    BY <1>a, <2>5
  <2>7. \A j \in DOMAIN items' : j # Index /\ j < i => items'[j] \in Plain
    BY <2>2 DEF OneHasProviders
  <2> QED
    BY <2>2, <2>4, <2>6, <2>7
<1> QED
  BY <1>1, <1>2, <1>3, <1>b, ConfigureWrites DEF Matches

LEMMA OneHasProvidersStep ==
  ASSUME IInv, OneHasProviders, [Next]_vars
  PROVE  OneHasProviders'
<1>a. TypeOK /\ BackupHasSecrets
  BY DEF IInv
<1>1. CASE UNCHANGED items
  BY <1>1, OAuthStays, SamePlain DEF OneHasProviders
<1>2. ASSUME NEW x \in Item, Matches(x), items' = WithOAuth(x)
      PROVE  OneHasProviders'
  BY <1>a, <1>2, WithOAuthLeavesPlain, Then, SamePlain DEF OneHasProviders
<1>3. CASE Found # {} /\ items' = WithoutOAuth
  <2>1. items' \in Seq(Plain)
    BY <1>a, <1>3, WithoutOAuthIsPlain
  <2> QED
    BY <2>1, ElementOfSeq, LenProperties, SamePlain DEF OneHasProviders
<1>4. CASE UpdateHd
  BY <1>a, <1>2, <1>4, UpdateHdPushes, ContentIsItem
<1>5. CASE Restore
  <2>1. CASE backup \in Supplied /\ backup \notin {Absent, Nothing} /\ items' = WithOAuth(backup)
    BY <1>a, <1>2, <2>1 DEF BackupHasSecrets, Supplied
  <2> QED
    BY <1>a, <1>3, <1>5, <2>1, RestoreBringsBack
<1>6. CASE Configure
  BY <1>a, <1>6, ConfigureLeavesPlain, Then, SamePlain DEF OneHasProviders
<1> QED
  BY <1>1, <1>4, <1>5, <1>6, ConfigurationSteps

LEMMA PushedStays == UNCHANGED items => (Unpushed' <=> Unpushed)
BY OAuthStays DEF Unpushed, Pushed

LEMMA SavedUnpushedStep ==
  ASSUME IInv, Attentive, AttentiveShape, [Next]_vars
  PROVE  SavedUnpushed'
<1>a. TypeOK /\ ObjectShape /\ BackupHasSecrets /\ seen = co
      /\ OneHasProviders /\ UnmanageShape /\ SavedUnpushed
  BY DEF IInv, AttentiveShape
<1>p. Plain' = Plain
  BY SamePlain
<1>b. pc # "idle" => cur \in OAuths
  BY <1>a DEF TypeOK
<1>1. CASE Save
  <2>1. OAuth # Nothing /\ (OAuth # Absent => OAuth \in Item)
    BY <1>a, NothingIsNoOAuth, OAuthIsItem DEF TypeOK, Item
  <2>2. backup' # Nothing /\ pc' = "push" /\ UNCHANGED items
    BY <1>1, <2>1 DEF Save, hdVars
  <2>3. backup' \notin {Nothing, Absent} => backup' \in Plain
    BY <1>1, <1>a, <2>1 DEF Save, SavedUnpushed, Unpushed, Pushed, Plain
  <2> QED
    BY <1>p, <2>2, <2>3 DEF SavedUnpushed
<1>2. CASE UpdateHd
  <2>1. backup # Nothing /\ UNCHANGED backup /\ pc' \in {"report", "unfinalize"}
    BY <1>2, <1>a DEF UpdateHd, SavedUnpushed, TypeOK
  <2> QED
    BY <1>a, <1>p, <2>1 DEF SavedUnpushed
<1>3. CASE Restore
  <2>1. backup # Nothing /\ UNCHANGED backup /\ pc' = "dropBackup"
    BY <1>3 DEF Restore
  <2>2. Unpushed'
    <3>1. CASE Found # {} /\ items' = WithoutOAuth
      BY <1>a, <3>1, WithoutOAuthIsPlain, PlainIsUnpushedNext
    <3>2. CASE backup \notin {Absent, Nothing} /\ OAuth' = backup
      BY <1>a, <3>2 DEF SavedUnpushed, Unpushed, Pushed, Plain
    <3> QED
      BY <1>3, <1>a, <3>1, <3>2, RestoreBringsBack
  <2> QED
    BY <1>a, <1>p, <2>1, <2>2 DEF SavedUnpushed
<1>4. CASE DropBackup
  <2>1. pc = "dropBackup" /\ pc' = "unfinalize" /\ backup' = Nothing /\ UNCHANGED <<co, cur, items>>
    BY <1>4 DEF DropBackup, hdVars
  <2>2. Unpushed'
    BY <1>a, <2>1, PushedStays DEF SavedUnpushed
  <2> QED
    BY <1>a, <1>p, <2>1, <2>2 DEF SavedUnpushed, UnmanageShape
<1>5. CASE Configure
  <2>1. UNCHANGED <<co, backup, pc, cur>> /\ \A c \in OAuths : ~co[c].fin
    BY <1>5, <1>a DEF Configure, Existing, ObjectShape
  <2>2. Unpushed => Unpushed'
    <3> SUFFICES ASSUME Unpushed PROVE items' \in Seq(Plain)
      BY PlainIsUnpushedNext
    <3>1. items \in Seq(Plain)
      BY <1>a, UnpushedIsPlain
    <3>2. {Admin} \in Plain /\ DOMAIN items = 1 .. Len(items)
      BY <3>1, LenProperties, AdminIsContent, ContentIsItem DEF Plain
    <3>3. Append(items, {Admin}) \in Seq(Plain)
      BY <3>1, <3>2, Appended
    <3>4. \A i \in DOMAIN items : /\ [items EXCEPT ![i] = {Admin}] \in Seq(Plain)
                                  /\ WithoutItem(i) \in Seq(Plain)
      BY <3>1, <3>2, Replaced, WithoutItemIs
    <3> QED
      BY <1>5, <3>3, <3>4, ConfigureWrites
  <2> QED
    BY <1>a, <1>p, <2>1, <2>2 DEF SavedUnpushed
<1>6. CASE UNCHANGED <<items, backup>> /\ ~Save /\ ~UpdateHd /\ ~Restore /\ ~DropBackup
  <2>1. Unpushed' <=> Unpushed
    BY <1>6, PushedStays
  <2>2. pc' \in {"push", "copy"} => backup # Nothing
    <3>1. CASE pc \in {"push", "copy"}
      BY <1>a, <3>1 DEF SavedUnpushed
    <3>2. CASE pc = "unmanage" /\ PushTo("unfinalize")
      <4>1. cur \in OAuths /\ co[cur].fin /\ hosted
        BY <1>a, <1>b, <3>2 DEF UnmanageShape, ObjectShape, PushTo
      <4> QED
        BY <1>a, <3>2, <4>1 DEF SavedUnpushed
    <3> QED
      BY <1>6, <1>a, <3>1, <3>2, WorkerSteps
      DEF Manage, StartDelete, CopySecret, NothingToRestore
  <2>3. pc' = "dropBackup" => Unpushed
    <3>1. CASE pc = "dropBackup"
      BY <1>a, <3>1 DEF SavedUnpushed
    <3> QED
      BY <1>6, <1>a, <3>1, WorkerSteps
      DEF Manage, StartDelete, CopySecret, NothingToRestore, PushTo
  <2>4. ASSUME NEW c \in OAuths, hosted', co'[c].fin, backup' = Nothing
        PROVE  cur' = c /\ pc' \in {"save", "unfinalize"}
    <3>1. CASE Manage(c)
      BY <3>1 DEF Manage
    <3>2. CASE co[c].fin
      <4>1. cur = c /\ pc \in {"save", "unfinalize"} /\ hosted
        BY <1>6, <1>a, <2>4, <3>2, HostedBefore DEF SavedUnpushed
      <4>2. ~Unfinalize
        <5> SUFFICES ASSUME Unfinalize PROVE FALSE
          OBVIOUS
        <5>1. co' = [co EXCEPT ![c] = NoObject]
          BY <1>a, <4>1 DEF Unfinalize, UnmanageShape
        <5> QED
          BY <1>a, <2>4, <5>1 DEF NoObject, TypeOK
      <4> QED
        BY <1>6, <4>1, <4>2, Endings
    <3> QED
      BY <2>4, <3>1, <3>2, FinalizedLife
  <2> QED
    BY <1>6, <1>a, <1>p, <2>1, <2>2, <2>3, <2>4 DEF SavedUnpushed
<1> QED
  BY <1>1, <1>2, <1>3, <1>4, <1>5, <1>6, MgrSteps

LEMMA CurIsUnpushedStep ==
  ASSUME IInv, AttentiveShape, [Next]_vars
  PROVE  CurIsUnpushed'
<1>a. TypeOK /\ UnmanageShape /\ SavedUnpushed /\ CurIsUnpushed
  BY DEF IInv, AttentiveShape
<1>b. pc # "idle" => cur \in OAuths
  BY <1>a DEF TypeOK
<1>1. CASE pc = "unfinalize" /\ UNCHANGED <<pc, cur>> /\ (UNCHANGED items \/ Existing(co) = {})
  <2>1. cur \in Existing(co)
    BY <1>1, <1>a, <1>b DEF UnmanageShape, Existing
  <2> QED
    BY <1>1, <1>a, <2>1, OAuthStays DEF CurIsUnpushed, Pushed
<1>2. CASE UpdateHd /\ pc' = "unfinalize"
  <2>1. OAuth' = push.oauths /\ cur' = cur /\ cur \notin push.oauths
    BY <1>2, <1>a, UpdateHdPushes DEF UpdateHd, UnmanageShape
  <2> QED
    BY <2>1 DEF CurIsUnpushed, Pushed
<1>3. CASE NothingToRestore
  <2>1. OAuth = Absent \/ backup = Nothing
    BY <1>3 DEF NothingToRestore, OAuth
  <2>2. cur' = cur /\ cur \in OAuths /\ UNCHANGED items
    BY <1>3, <1>b DEF NothingToRestore, apiVars, hdVars
  <2>3. ~Pushed(cur)
    BY <1>a, <2>1, <2>2 DEF SavedUnpushed, Unpushed, Pushed
  <2> QED
    BY <2>2, <2>3, OAuthStays DEF CurIsUnpushed, Pushed
<1>4. CASE DropBackup
  <2>1. cur' = cur /\ cur \in OAuths /\ UNCHANGED items /\ Unpushed
    BY <1>4, <1>a, <1>b DEF DropBackup, hdVars, SavedUnpushed
  <2> QED
    BY <2>1, OAuthStays DEF CurIsUnpushed, Unpushed, Pushed
<1>5. CASE pc' # "unfinalize"
  BY <1>5 DEF CurIsUnpushed
<1> QED
  BY <1>a, <1>1, <1>2, <1>3, <1>4, <1>5, WorkerSteps
  DEF Manage, StartDelete, Save, PushTo, CopySecret, Restore

LEMMA AttentiveInvariance == Spec => [](Attentive => AttentiveShape)
<1> DEFINE AttentivelyShaped == Attentive => AttentiveShape
<1>1. Init => AttentivelyShaped
  <2> SUFFICES ASSUME Init PROVE AttentiveShape
    OBVIOUS
  <2>1. items \in Seq(Plain)
    <3>1. Own \subseteq Plain
      BY InitItems, AdminIsContent, ContentIsItem, OthersAreItems DEF Plain, Item
    <3> QED
      BY <3>1, InitItems, SeqGrows
  <2>2. Unpushed /\ OneHasProviders
    BY <2>1, PlainIsUnpushed, ElementOfSeq, LenProperties DEF OneHasProviders
  <2> QED
    BY <2>2 DEF Init, AttentiveShape, UnmanageShape, SavedUnpushed, CurIsUnpushed, NoObject
<1>2. IInv /\ AttentivelyShaped /\ [Next]_vars => AttentivelyShaped'
  <2> SUFFICES ASSUME IInv, AttentivelyShaped, [Next]_vars, Attentive' PROVE AttentiveShape'
    OBVIOUS
  <2>1. Attentive
    BY ScenarioFixed DEF Attentive
  <2> QED
    BY <2>1, SeenIsCurrent, OneHasProvidersStep, UnmanageShapeStep, SavedUnpushedStep, CurIsUnpushedStep
    DEF AttentiveShape
<1> HIDE DEF AttentivelyShaped
<1>3. Spec => []AttentivelyShaped
  BY <1>1, <1>2, HostedInvariance, PTL DEF Spec
<1> QED
  BY <1>3 DEF AttentivelyShaped

(* The finalizer of a ClusterOAuth of a hosted cluster is not removed      *)
(* while its provider is in the configuration, however ClusterOAuths come  *)
(* and go and whatever ConfigMap is left, if calls do not fail and caches  *)
(* do not lag.                                                             *)
THEOREM HostedFinalizerProtects == Spec => UnmanagedBeforeRemoved
<1> DEFINE AttentivelyShaped == Attentive => AttentiveShape
           Protects == \A c \in OAuths :
             {"lag", "abort"} \cap scenario = {} /\ co[c].fin /\ ~co'[c].fin => ~Pushed(c)'
<1>1. IInv /\ AttentivelyShaped /\ [Next]_vars => [Protects]_vars
  <2> SUFFICES ASSUME IInv, AttentivelyShaped, [Next]_vars, NEW c \in OAuths,
                      Attentive, co[c].fin, ~co'[c].fin
               PROVE  ~Pushed(c)'
    BY DEF Attentive
  <2>1. Unfinalize /\ c = cur
    BY FinStays DEF IInv
  <2>2. ~Pushed(c) /\ UNCHANGED items
    BY <2>1 DEF Unfinalize, AttentiveShape, CurIsUnpushed, apiVars, hdVars
  <2> QED
    BY <2>2, OAuthStays DEF Pushed
<1>2. Spec => []AttentivelyShaped
  BY AttentiveInvariance
<1> HIDE DEF AttentivelyShaped
<1> QED
  BY <1>1, <1>2, HostedInvariance, PTL DEF Spec, UnmanagedBeforeRemoved

=============================================================================
