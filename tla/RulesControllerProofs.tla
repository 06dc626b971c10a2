----------------------- MODULE RulesControllerProofs -----------------------
(***************************************************************************)
(* Theorems about RulesController, for every set of resource names, list *)
(* order, set of priorities and bound on user changes that satisfy       *)
(* ControllerAssumption.                                                  *)
(***************************************************************************)
EXTENDS RulesController, FiniteSetTheorems, TLAPS

-----------------------------------------------------------------------------
(***************************************************************************)
(* The list order: every name has a position, and different names have  *)
(* different positions.                                                  *)
(***************************************************************************)
LEMMA PosFacts ==
  ASSUME NEW n \in Names
  PROVE  /\ Pos(n) \in 1..Len(Order)
         /\ Order[Pos(n)] = n
BY ControllerAssumption DEF Pos

LEMMA PosInjective ==
  ASSUME NEW m \in Names, NEW n \in Names, Pos(m) = Pos(n)
  PROVE  m = n
BY PosFacts

\* There are finitely many resource names: the list order covers them.
LEMMA NamesFinite == IsFiniteSet(Names)
<1>1. Len(Order) \in Nat /\ IsFiniteSet(1..Len(Order))
  BY ControllerAssumption, FS_Interval
<1>2. [i \in 1..Len(Order) |-> Order[i]] \in Surjection(1..Len(Order), Names)
  <2>1. [i \in 1..Len(Order) |-> Order[i]] \in [1..Len(Order) -> Names]
    BY ControllerAssumption
  <2>2. \A n \in Names : \E i \in 1..Len(Order) : Order[i] = n
    BY ControllerAssumption
  <2>. QED BY <2>1, <2>2 DEF Surjection
<1>. QED BY <1>1, <1>2, FS_Surjection

-----------------------------------------------------------------------------
(***************************************************************************)
(* The order of the stable sort. In what follows K is a set of resources *)
(* with integer priorities (the ones a sync files), and c the resources. *)
(***************************************************************************)
LEMMA BeforeOrder ==
  ASSUME NEW c, NEW K \in SUBSET Names,
         \A n \in K : c[n].priority \in Int
  PROVE  /\ \A n \in K : ~Before(c, n, n)
         /\ \A a, b, d \in K : Before(c, a, b) /\ Before(c, b, d)
                               => Before(c, a, d)
         /\ \A a, b \in K : a # b => Before(c, a, b) \/ Before(c, b, a)
<1>1. \A n \in K : Pos(n) \in Int
  BY PosFacts
<1>2. \A a, b \in K : a # b => Pos(a) # Pos(b)
  BY PosInjective
<1>. QED BY <1>1, <1>2 DEF Before

\* The sets of rules that go before a rule are finite and below K's size.
LEMMA AheadFinite ==
  ASSUME NEW c, NEW K \in SUBSET Names, NEW n
  PROVE  LET A == {m \in K : Before(c, m, n)}
         IN  /\ IsFiniteSet(K)
             /\ IsFiniteSet(A)
             /\ Cardinality(A) \in Nat
             /\ Cardinality(K) \in Nat
<1>1. IsFiniteSet(K)
  BY NamesFinite, FS_Subset
<1>. QED BY <1>1, FS_Subset, FS_CardinalityType

(***************************************************************************)
(* A rule that goes before another gets a smaller place: everything     *)
(* before it is before the other one too, and it is itself.              *)
(***************************************************************************)
LEMMA RankLess ==
  ASSUME NEW c, NEW K \in SUBSET Names,
         \A n \in K : c[n].priority \in Int,
         NEW a \in K, NEW b \in K, Before(c, a, b)
  PROVE  Rank(c, K, a) < Rank(c, K, b)
<1> DEFINE Aa == {m \in K : Before(c, m, a)}
           Ab == {m \in K : Before(c, m, b)}
<1>1. Aa \subseteq Ab \ {a}
  BY BeforeOrder
<1>2. a \in Ab
  OBVIOUS
<1>3. /\ IsFiniteSet(Ab) /\ Cardinality(Ab) \in Nat
      /\ Cardinality(Aa) \in Nat
  BY AheadFinite
<1>4. IsFiniteSet(Ab \ {a}) /\ Cardinality(Ab \ {a}) = Cardinality(Ab) - 1
  BY <1>2, <1>3, FS_RemoveElement
<1>5. Cardinality(Aa) <= Cardinality(Ab \ {a})
  BY <1>1, <1>4, FS_Subset
<1>. QED BY <1>3, <1>4, <1>5 DEF Rank

\* A rule's place is between 1 and the number of rules.
LEMMA RankIn ==
  ASSUME NEW c, NEW K \in SUBSET Names,
         \A n \in K : c[n].priority \in Int,
         NEW a \in K
  PROVE  Rank(c, K, a) \in 1..Cardinality(K)
<1> DEFINE Aa == {m \in K : Before(c, m, a)}
<1>1. Aa \subseteq K \ {a}
  BY BeforeOrder
<1>2. /\ IsFiniteSet(K) /\ Cardinality(K) \in Nat
      /\ Cardinality(Aa) \in Nat
  BY AheadFinite
<1>3. Cardinality(K \ {a}) = Cardinality(K) - 1 /\ IsFiniteSet(K \ {a})
  BY <1>2, FS_RemoveElement
<1>4. Cardinality(Aa) <= Cardinality(K \ {a})
  BY <1>1, <1>3, FS_Subset
<1>. QED BY <1>2, <1>3, <1>4 DEF Rank

\* Different rules get different places.
LEMMA RankInjective ==
  ASSUME NEW c, NEW K \in SUBSET Names,
         \A n \in K : c[n].priority \in Int,
         NEW a \in K, NEW b \in K, a # b
  PROVE  Rank(c, K, a) # Rank(c, K, b)
<1>1. Before(c, a, b) \/ Before(c, b, a)
  BY BeforeOrder
<1>2. Rank(c, K, a) \in Int /\ Rank(c, K, b) \in Int
  BY RankIn
<1>. QED BY <1>1, <1>2, RankLess

\* Every place from 1 to the number of rules is some rule's.
LEMMA RankOnto ==
  ASSUME NEW c, NEW K \in SUBSET Names,
         \A n \in K : c[n].priority \in Int,
         NEW i \in 1..Cardinality(K)
  PROVE  \E a \in K : Rank(c, K, a) = i
<1> DEFINE f == [a \in K |-> Rank(c, K, a)]
<1>1. f \in Injection(K, 1..Cardinality(K))
  BY RankIn, RankInjective DEF Injection, IsInjective
<1>2. Cardinality(K) \in Nat
  BY AheadFinite
<1>3. IsFiniteSet(1..Cardinality(K))
      /\ Cardinality(1..Cardinality(K)) = Cardinality(K)
  BY <1>2, FS_Interval
<1>4. f \in Surjection(K, 1..Cardinality(K))
  BY <1>1, <1>3, FS_Injection
<1>. QED BY <1>4 DEF Surjection
-----------------------------------------------------------------------------
\* The resource at place i of the sorted rules.
Placed(c, K, i) == CHOOSE n \in K : Rank(c, K, n) = i

LEMMA PlacedFacts ==
  ASSUME NEW c, NEW K \in SUBSET Names,
         \A n \in K : c[n].priority \in Int,
         NEW i \in 1..Cardinality(K)
  PROVE  Placed(c, K, i) \in K /\ Rank(c, K, Placed(c, K, i)) = i
BY RankOnto DEF Placed

(***************************************************************************)
(* What _write_rules_file is given to write: one rule for each resource  *)
(* of K, each with its resource's priority, highest priority first.      *)
(***************************************************************************)
LEMMA SortFacts ==
  ASSUME NEW c, NEW K \in SUBSET Names,
         \A n \in K : c[n].priority \in Int,
         NEW g
  PROVE  LET s == SortByPriority(c, K, g)
         IN  /\ DOMAIN s = 1..Cardinality(K)
             /\ \A i \in 1..Cardinality(K) :
                  s[i] = ToRule(c, Placed(c, K, i), g)
             /\ {s[i].crd : i \in 1..Cardinality(K)} = K
             /\ \A i \in 1..Cardinality(K) :
                  s[i].priority = c[s[i].crd].priority
             /\ \A i, j \in 1..Cardinality(K) :
                  i < j => s[i].priority >= s[j].priority
<1> DEFINE s == SortByPriority(c, K, g)
           N == Cardinality(K)
<1>1. DOMAIN s = 1..N /\ \A i \in 1..N : s[i] = ToRule(c, Placed(c, K, i), g)
  BY DEF SortByPriority, Placed
<1>2. \A i \in 1..N : s[i].crd = Placed(c, K, i)
                      /\ s[i].priority = c[Placed(c, K, i)].priority
  BY <1>1 DEF ToRule
<1>3. {s[i].crd : i \in 1..N} = K
  <2>1. \A i \in 1..N : s[i].crd \in K
    BY <1>2, PlacedFacts
  <2>2. ASSUME NEW n \in K PROVE \E i \in 1..N : s[i].crd = n
    <3>1. Rank(c, K, n) \in 1..N
      BY RankIn
    <3>2. Placed(c, K, Rank(c, K, n)) = n
      BY <3>1, PlacedFacts, RankInjective
    <3>. QED BY <3>1, <3>2, <1>2
  <2>. QED BY <2>1, <2>2
<1>4. ASSUME NEW i \in 1..N, NEW j \in 1..N, i < j
      PROVE  s[i].priority >= s[j].priority
  <2> DEFINE a == Placed(c, K, i)
             b == Placed(c, K, j)
  <2>1. a \in K /\ b \in K /\ Rank(c, K, a) = i /\ Rank(c, K, b) = j
    BY PlacedFacts
  <2>2. ~Before(c, b, a)
    BY <2>1, <1>4, RankLess
  <2>3. c[a].priority \in Int /\ c[b].priority \in Int
    BY <2>1
  <2>4. c[a].priority >= c[b].priority
    BY <2>2, <2>3 DEF Before
  <2>. QED BY <2>4, <1>2
<1>. QED BY <1>1, <1>2, <1>3, <1>4
(***************************************************************************)
(* The sort is stable: of two rules, the one placed first goes before   *)
(* the other, so among equal priorities the one listed first comes first. *)
(***************************************************************************)
LEMMA SortBefore ==
  ASSUME NEW c, NEW K \in SUBSET Names,
         \A n \in K : c[n].priority \in Int,
         NEW i \in 1..Cardinality(K), NEW j \in 1..Cardinality(K), i < j
  PROVE  Before(c, Placed(c, K, i), Placed(c, K, j))
<1> DEFINE a == Placed(c, K, i)
           b == Placed(c, K, j)
<1>1. a \in K /\ b \in K /\ Rank(c, K, a) = i /\ Rank(c, K, b) = j
  BY PlacedFacts
<1>2. a # b
  BY <1>1
<1>3. ~Before(c, b, a)
  BY <1>1, RankLess
<1>. QED BY <1>1, <1>2, <1>3, BeforeOrder

-----------------------------------------------------------------------------
\* The resources of a well-typed cluster have integer priorities.
LEMMA ListedPriorities ==
  ASSUME TypeOK
  PROVE  /\ Listed(crds) \subseteq Names
         /\ \A n \in Listed(crds) : crds[n] \in CRD
         /\ \A n \in Listed(crds) : crds[n].priority \in Int
BY ControllerAssumption DEF TypeOK, Listed, CRD

\* The rules a sync sorts are those of the resources whose spec converts.
LEMMA KeptValid ==
  ASSUME TypeOK, NEW o
  PROVE  Kept(crds, o) = ValidNames
BY DEF Kept, Filed, Listed, ValidNames

\* The sorted rules of well-typed resources are a sequence of rules.
LEMMA SortType ==
  ASSUME TypeOK, NEW K \in SUBSET Listed(crds), NEW g \in 0..1
  PROVE  SortByPriority(crds, K, g) \in Seq(Rule)
<1> DEFINE s == SortByPriority(crds, K, g)
           N == Cardinality(K)
<1>1. K \subseteq Names /\ \A n \in K : crds[n].priority \in Int
  BY ListedPriorities
<1>2. N \in Nat
  BY <1>1, AheadFinite
<1>3. \A i \in 1..N : Placed(crds, K, i) \in K
  BY <1>1, PlacedFacts
<1>4. \A n \in K : ToRule(crds, n, g) \in Rule
  BY ListedPriorities DEF ToRule, Rule, UUIDs, CRD
<1>5. \A i \in 1..N : s[i] \in Rule
  BY <1>1, <1>3, <1>4, SortFacts
<1>6. DOMAIN s = 1..N
  BY <1>1, SortFacts
<1>. QED BY <1>2, <1>5, <1>6 DEF SortByPriority

(***************************************************************************)
(* Every way sync_rules can end: the statuses stay well typed; a sync    *)
(* that returns "ok" has replaced the file by the sorted rules of the    *)
(* resources whose spec converts, and any other leaves the file alone.   *)
(***************************************************************************)
LEMMA SyncResultFacts ==
  ASSUME TypeOK, NEW r \in SyncResults
  PROVE  /\ r.status \in [Names -> States]
         /\ r.event \in BOOLEAN
         /\ r.leaked \in BOOLEAN
         /\ r.result \in {"ok", "failed", "exited"}
         /\ r.result = "ok" => r.file = SortByPriority(crds, ValidNames, gen)
         /\ r.result # "ok" => r.file = file
<1>1. CASE r = [status |-> status, event |-> FALSE, file |-> file,
                leaked |-> leaked, result |-> "failed"]
  BY <1>1 DEF TypeOK
<1>2. CASE \E o \in LoopOutcomes(crds) :
             r \in IF Aborts(crds, o) THEN {SyncResult(o, file, leaked, "failed")}
                   ELSE {SyncResult(o, file, leaked, "failed"),
                         SyncResult(o, file, TRUE, "failed"),
                         SyncResult(o, file, TRUE, "exited"),
                         SyncResult(o, SortByPriority(crds, Kept(crds, o), gen),
                                    leaked, "ok")}
  <2>1. PICK o \in LoopOutcomes(crds) :
             r \in IF Aborts(crds, o) THEN {SyncResult(o, file, leaked, "failed")}
                   ELSE {SyncResult(o, file, leaked, "failed"),
                         SyncResult(o, file, TRUE, "failed"),
                         SyncResult(o, file, TRUE, "exited"),
                         SyncResult(o, SortByPriority(crds, Kept(crds, o), gen),
                                    leaked, "ok")}
    BY <1>2
  <2>2. \A f, lk, res :
          LET x == SyncResult(o, f, lk, res)
          IN  /\ x.status \in [Names -> States]
              /\ x.event \in BOOLEAN
              /\ x.file = f /\ x.leaked = lk /\ x.result = res
    BY DEF SyncResult, TypeOK, NewStatus, States
  <2>3. Kept(crds, o) = ValidNames
    BY KeptValid
  <2>4. CASE Aborts(crds, o)
    <3>1. r = SyncResult(o, file, leaked, "failed")
      BY <2>1, <2>4
    <3>. QED BY <3>1, <2>2 DEF TypeOK
  <2>5. CASE ~Aborts(crds, o)
    <3>1. \/ r = SyncResult(o, file, leaked, "failed")
          \/ r = SyncResult(o, file, TRUE, "failed")
          \/ r = SyncResult(o, file, TRUE, "exited")
          \/ r = SyncResult(o, SortByPriority(crds, ValidNames, gen), leaked, "ok")
      BY <2>1, <2>3, <2>5
    <3>2. CASE r = SyncResult(o, file, leaked, "failed")
      BY <3>2, <2>2 DEF TypeOK
    <3>3. CASE r = SyncResult(o, file, TRUE, "failed")
      BY <3>3 DEF SyncResult, TypeOK, NewStatus, States
    <3>4. CASE r = SyncResult(o, file, TRUE, "exited")
      BY <3>4 DEF SyncResult, TypeOK, NewStatus, States
    <3>5. CASE r = SyncResult(o, SortByPriority(crds, ValidNames, gen),
                              leaked, "ok")
      BY <3>5, <2>2 DEF TypeOK
    <3>. QED BY <3>1, <3>2, <3>3, <3>4, <3>5
  <2>. QED BY <2>4, <2>5
<1>. QED BY <1>1, <1>2 DEF SyncResults
-----------------------------------------------------------------------------
(***************************************************************************)
(* The file an "ok" sync writes reflects the resources it listed.        *)
(***************************************************************************)
LEMMA SortReflects ==
  ASSUME TypeOK
  PROVE  LET s == SortByPriority(crds, ValidNames, gen)
         IN  /\ s \in Seq(Rule)
             /\ s # Absent
             /\ {s[i].crd : i \in 1..Len(s)} = ValidNames
             /\ Len(s) = Cardinality(ValidNames)
             /\ \A i \in 1..Len(s) : s[i].priority = crds[s[i].crd].priority
             /\ \A i, j \in 1..Len(s) : i < j => s[i].priority >= s[j].priority
<1> DEFINE s == SortByPriority(crds, ValidNames, gen)
<1>1. ValidNames \subseteq Listed(crds) /\ ValidNames \subseteq Names
  BY DEF ValidNames, Listed
<1>2. \A n \in ValidNames : crds[n].priority \in Int
  BY <1>1, ListedPriorities
<1>3. s \in Seq(Rule)
  BY <1>1, SortType DEF TypeOK
<1>4. s # Absent
  BY <1>3, AbsentAssumption
<1>5. Len(s) = Cardinality(ValidNames)
  <2>1. DOMAIN s = 1..Cardinality(ValidNames)
    BY <1>1, <1>2, SortFacts
  <2>2. Cardinality(ValidNames) \in Nat
    BY <1>1, AheadFinite
  <2>. QED BY <1>3, <2>1, <2>2
<1>. QED BY <1>1, <1>2, <1>3, <1>4, <1>5, SortFacts

(***************************************************************************)
(* The invariant the proofs carry: the state is well typed, and the file *)
(* reflects the resources whenever the last completed sync saw them.     *)
(* FileReflectsCluster is inductive once the types are known.            *)
(***************************************************************************)
IInv == TypeOK /\ FileReflectsCluster

LEMMA InitIInv == Init => IInv
<1> SUFFICES ASSUME Init PROVE IInv
  OBVIOUS
<1>1. crds \in [Names -> CRD \cup {Absent}] /\ status \in [Names -> States]
  BY DEF Init, States
<1>2. file \in Seq(Rule) \cup {Absent} /\ leaked \in BOOLEAN /\ pc \in PCs
  BY DEF Init, PCs
<1>3. pending \in BOOLEAN /\ streamSync \in BOOLEAN /\ synced \in BOOLEAN
  BY Zenon DEF Init
<1>5. gen \in 0..1 /\ changes \in 0..MaxChanges
  BY ControllerAssumption DEF Init
<1>4. FileReflectsCluster
  BY DEF Init, FileReflectsCluster
<1>. QED BY <1>1, <1>2, <1>3, <1>4, <1>5 DEF IInv, TypeOK

(***************************************************************************)
(* A sync, whatever its end: the state it leaves is well typed apart    *)
(* from the control variables, and the file reflects the resources if  *)
(* the sync completed or they were reflected before.                   *)
(***************************************************************************)
LEMMA SyncStep ==
  ASSUME IInv, NEW r \in SyncResults, AfterSync(r)
  PROVE  /\ crds' \in [Names -> CRD \cup {Absent}]
         /\ status' \in [Names -> States]
         /\ file' \in Seq(Rule) \cup {Absent}
         /\ leaked' \in BOOLEAN
         /\ gen' \in 0..1
         /\ changes' \in 0..MaxChanges
         /\ synced' \in BOOLEAN
         /\ FileReflectsCluster'
<1>1. TypeOK /\ FileReflectsCluster
  BY DEF IInv
<1>2. /\ r.status \in [Names -> States]
      /\ r.leaked \in BOOLEAN
      /\ r.result \in {"ok", "failed", "exited"}
      /\ r.result = "ok" => r.file = SortByPriority(crds, ValidNames, gen)
      /\ r.result # "ok" => r.file = file
  BY <1>1, SyncResultFacts
<1>3. UNCHANGED <<crds, changes>> /\ status' = r.status /\ file' = r.file
      /\ leaked' = r.leaked /\ synced' = (synced \/ r.result = "ok")
  BY DEF AfterSync
<1>4. gen' \in 0..1
  BY <1>1 DEF AfterSync, TypeOK
<1>5. CASE r.result = "ok"
  <2>1. file' = SortByPriority(crds, ValidNames, gen)
    BY <1>2, <1>3, <1>5
  <2>2. FileReflectsCluster'
    BY <1>1, <1>3, <2>1, SortReflects
       DEF FileReflectsCluster, FiledNames, ValidNames
  <2>. QED BY <1>1, <1>2, <1>3, <1>4, <2>1, <2>2, <1>1, SortReflects
       DEF TypeOK
<1>6. CASE r.result # "ok"
  <2>1. file' = file /\ crds' = crds
    BY <1>2, <1>3, <1>6
  <2>3. synced' = synced
    <3>1. synced \in BOOLEAN /\ r.result # "ok"
      BY <1>1, <1>6 DEF TypeOK
    <3>. QED BY <3>1, <1>3, Zenon
  <2>2. FileReflectsCluster'
    BY <1>1, <2>1, <2>3 DEF FileReflectsCluster, FiledNames, ValidNames
  <2>. QED BY <1>1, <1>2, <1>3, <1>4, <2>1, <2>2, <2>3 DEF TypeOK
<1>. QED BY <1>5, <1>6
(***************************************************************************)
(* Every step keeps IInv: a sync by SyncStep; the stream and signal     *)
(* steps leave the resources, the file and synced alone; a user change  *)
(* clears synced.                                                        *)
(***************************************************************************)
LEMMA NextIInv == IInv /\ [Next]_vars => IInv'
<1> SUFFICES ASSUME IInv, [Next]_vars PROVE IInv'
  OBVIOUS
<1>1. TypeOK /\ FileReflectsCluster
  BY DEF IInv
\* The steps that touch only the control variables.
<1>2. ASSUME UNCHANGED <<crds, status, file, leaked, gen, changes, synced>>,
             pc' \in PCs, pending' \in BOOLEAN, streamSync' \in BOOLEAN
      PROVE  IInv'
  <2>1. FileReflectsCluster'
    BY <1>1, <1>2 DEF FileReflectsCluster, FiledNames, ValidNames
  <2>. QED BY <1>1, <1>2, <2>1 DEF IInv, TypeOK
\* The steps that run sync_rules.
<1>3. ASSUME NEW r \in SyncResults, AfterSync(r),
             pc' \in PCs, pending' \in BOOLEAN, streamSync' \in BOOLEAN
      PROVE  IInv'
  BY <1>3, SyncStep DEF IInv, TypeOK
<1>4. CASE InitialSync
  <2>1. PICK r \in SyncResults :
          /\ AfterSync(r)
          /\ pc' = IF r.result = "ok" THEN "watch" ELSE "exited"
          /\ pending' = Existing(crds)
          /\ streamSync' = FALSE
    BY <1>4 DEF InitialSync
  <2>2. pc' \in PCs
    BY <2>1 DEF PCs
  <2>3. pending' \in BOOLEAN /\ streamSync' \in BOOLEAN
    BY <2>1, Zenon DEF Existing
  <2>. QED BY <2>1, <2>2, <2>3, <1>3
<1>5. CASE ProcessEvent
  <2>1. PICK r \in SyncResults :
          /\ AfterSync(r)
          /\ pc' = CASE r.result = "ok" -> "watch"
                      [] r.result = "failed" -> "error"
                      [] OTHER -> "exited"
          /\ pending' = (r.result = "ok" /\ r.event)
          /\ streamSync' = (streamSync \/ r.result = "ok")
    BY <1>5 DEF ProcessEvent
  <2>2. pc' \in PCs
    BY <2>1 DEF PCs
  <2>4. pending' \in BOOLEAN /\ streamSync' \in BOOLEAN
    BY <2>1, Zenon
  <2>. QED BY <2>1, <2>2, <2>4, <1>3
<1>6. CASE StreamTimeout
  <2>1. pc' \in PCs /\ pending' \in BOOLEAN /\ streamSync' \in BOOLEAN
    BY <1>1, <1>6 DEF StreamTimeout, PCs, TypeOK
  <2>. QED BY <1>6, <2>1, <1>2 DEF StreamTimeout
<1>7. CASE StreamFails
  <2>1. pc' \in PCs
    BY <1>7 DEF StreamFails, PCs
  <2>2. pending' \in BOOLEAN /\ streamSync' \in BOOLEAN
    BY <1>1, <1>7, Zenon DEF StreamFails, Existing, TypeOK
  <2>. QED BY <1>7, <2>1, <2>2, <1>2 DEF StreamFails
<1>8. CASE PeriodicCheck
  <2>1. pending' \in BOOLEAN /\ streamSync' \in BOOLEAN
    BY <1>8, Zenon DEF PeriodicCheck, Existing
  <2>2. CASE PeriodicDue(pc, streamSync)
             /\ \E r \in SyncResults :
                  /\ AfterSync(r)
                  /\ pc' = IF r.result = "exited" THEN "exited" ELSE "watch"
    <3>1. PICK r \in SyncResults :
            /\ AfterSync(r)
            /\ pc' = IF r.result = "exited" THEN "exited" ELSE "watch"
      BY <2>2
    <3>2. pc' \in PCs
      BY <3>1 DEF PCs
    <3>. QED BY <3>1, <3>2, <2>1, <1>3
  <2>3. CASE pc' = "watch"
             /\ UNCHANGED <<crds, status, file, leaked, gen, changes, synced>>
    <3>1. pc' \in PCs
      BY <2>3 DEF PCs
    <3>. QED BY <2>3, <3>1, <2>1, <1>2
  <2>. QED BY <1>8, <2>2, <2>3 DEF PeriodicCheck
<1>9. CASE Stop
  <2>1. pc' \in PCs /\ pending' \in BOOLEAN /\ streamSync' \in BOOLEAN
    BY <1>1, <1>9 DEF Stop, PCs, TypeOK
  <2>. QED BY <1>9, <2>1, <1>2 DEF Stop
<1>10. CASE Restart
  <2>1. pc' \in PCs /\ pending' \in BOOLEAN /\ streamSync' \in BOOLEAN
    BY <1>10, Zenon DEF Restart, PCs
  <2>. QED BY <1>10, <2>1, <1>2 DEF Restart
<1>11. ASSUME NEW n \in Names, UserApply(n) PROVE IInv'
  <2>1. crds' \in [Names -> CRD \cup {Absent}]
    BY <1>1, <1>11 DEF UserApply, TypeOK
  <2>2. changes' \in 0..MaxChanges
    <3>1. changes < MaxChanges /\ changes' = changes + 1
      BY <1>11 DEF UserApply
    <3>. QED BY <3>1, <1>1, ControllerAssumption DEF TypeOK
  <2>3. synced' = FALSE /\ pending' \in BOOLEAN
    BY <1>11, Zenon DEF UserApply
  <2>4. UNCHANGED <<status, file, leaked, pc, streamSync, gen>>
    BY <1>11 DEF UserApply
  <2>5. FileReflectsCluster'
    BY <2>3 DEF FileReflectsCluster
  <2>. QED BY <1>1, <2>1, <2>2, <2>3, <2>4, <2>5 DEF IInv, TypeOK
<1>12. ASSUME NEW n \in Names, UserDelete(n) PROVE IInv'
  <2>1. crds' \in [Names -> CRD \cup {Absent}]
        /\ status' \in [Names -> States]
    BY <1>1, <1>12 DEF UserDelete, TypeOK, States
  <2>2. changes' \in 0..MaxChanges
    <3>1. changes < MaxChanges /\ changes' = changes + 1
      BY <1>12 DEF UserDelete
    <3>. QED BY <3>1, <1>1, ControllerAssumption DEF TypeOK
  <2>3. synced' = FALSE /\ pending' \in BOOLEAN
    BY <1>12, Zenon DEF UserDelete
  <2>4. UNCHANGED <<file, leaked, pc, streamSync, gen>>
    BY <1>12 DEF UserDelete
  <2>5. FileReflectsCluster'
    BY <2>3 DEF FileReflectsCluster
  <2>. QED BY <1>1, <2>1, <2>2, <2>3, <2>4, <2>5 DEF IInv, TypeOK
<1>13. CASE UNCHANGED vars
  BY <1>1, <1>13 DEF vars, IInv, TypeOK, FileReflectsCluster, FiledNames,
                     ValidNames
<1>. QED BY <1>4, <1>5, <1>6, <1>7, <1>8, <1>9, <1>10, <1>11, <1>12, <1>13
         DEF Next, Controller

(***************************************************************************)
(* The controller's state stays well typed: whatever the list call, the  *)
(* status patches, the disk, signals, restarts and users do.             *)
(***************************************************************************)
THEOREM ControllerTypeCorrect == Spec => []TypeOK
<1>1. Spec => []IInv
  BY InitIInv, NextIInv, PTL DEF Spec
<1>. QED BY <1>1, PTL DEF IInv

(***************************************************************************)
(* The invariant the rules_controller run checks, for every set of       *)
(* resources, list order, priorities and bound on changes: once sync_rules *)
(* has completed on the resources as they are, the rules file holds one  *)
(* rule for each of them whose spec converts, with its current priority, *)
(* highest priority first.                                               *)
(***************************************************************************)
THEOREM FileReflectsClusterProved == Spec => []FileReflectsCluster
<1>1. Spec => []IInv
  BY InitIInv, NextIInv, PTL DEF Spec
<1>. QED BY <1>1, PTL DEF IInv
-----------------------------------------------------------------------------
(***************************************************************************)
(* The refinement of RulesFile, safety part: the controller's initial    *)
(* state maps to RulesFile's, and every step of the controller is a step *)
(* of RulesFile, or leaves the resources, the file (uuids aside) and the *)
(* change count alone.                                                   *)
(***************************************************************************)
\* A rules file with the uuids dropped.
Strip(f) == [i \in 1..Len(f) |-> [crd |-> f[i].crd, priority |-> f[i].priority]]

\* RulesFile's Cardinality, through the instance, is the same operator.
LEMMA CardinalityRF == \A S : RF!Cardinality(S) = Cardinality(S)
BY DEF RF!Cardinality, Cardinality

\* A rule names the resource it was converted from.
LEMMA ToRuleCrd == \A c, n, g : ToRule(c, n, g).crd = n
BY DEF ToRule

\* The file an "ok" sync writes is the snapshot RulesFile's Publish allows.
LEMMA SyncPublishes ==
  ASSUME TypeOK
  PROVE  Strip(SortByPriority(crds, ValidNames, gen)) \in RF!Snapshots(crds)
<1> DEFINE s == SortByPriority(crds, ValidNames, gen)
           t == Strip(s)
           N == Cardinality(ValidNames)
<1>1. ValidNames \subseteq Names /\ \A n \in ValidNames : crds[n].priority \in Int
  BY ListedPriorities DEF ValidNames, Listed
<1>2. /\ s \in Seq(Rule)
      /\ {s[i].crd : i \in 1..Len(s)} = ValidNames
      /\ Len(s) = N
      /\ \A i \in 1..Len(s) : s[i].priority = crds[s[i].crd].priority
  BY SortReflects
<1>3. N \in 0..Cardinality(Names)
  BY <1>1, NamesFinite, FS_Subset, FS_CardinalityType
<1>4. t \in [1..N -> RF!Entry]
  <2>1. \A i \in 1..N : s[i] \in Rule
    BY <1>2
  <2>2. t = [i \in 1..N |-> [crd |-> s[i].crd, priority |-> s[i].priority]]
    BY <1>2 DEF Strip
  <2>. QED BY <2>1, <2>2 DEF Rule, RF!Entry
<1>5. /\ Len(t) = N
      /\ \A i \in 1..N : t[i].crd = s[i].crd /\ t[i].priority = s[i].priority
  BY <1>2, <1>3, <1>4 DEF Strip
<1>6. RF!Convertible(crds) = ValidNames
  BY DEF RF!Convertible, ValidNames
<1>7. \A i \in 1..N : s[i].crd = Placed(crds, ValidNames, i)
  <2>1. \A i \in 1..N : s[i] = ToRule(crds, Placed(crds, ValidNames, i), gen)
    BY <1>1, SortFacts
  <2>. QED BY <2>1, ToRuleCrd
<1>8. ASSUME NEW i \in 1..N, NEW j \in 1..N, i < j
      PROVE  \/ t[i].priority > t[j].priority
             \/ t[i].priority = t[j].priority
                /\ RF!Pos(t[i].crd) < RF!Pos(t[j].crd)
  <2>1. Before(crds, s[i].crd, s[j].crd)
    BY <1>1, <1>7, <1>8, SortBefore
  <2>2. s[i].priority = crds[s[i].crd].priority
        /\ s[j].priority = crds[s[j].crd].priority
    BY <1>2
  <2>. QED BY <2>1, <2>2, <1>5 DEF Before, Pos, RF!Pos
<1>9. RF!IsSnapshot(t, crds)
  <2>1. {t[i].crd : i \in 1..Len(t)} = ValidNames
    <3>1. {t[i].crd : i \in 1..Len(t)} = {s[i].crd : i \in 1..Len(s)}
      BY <1>2, <1>5
    <3>. QED BY <3>1, <1>2
  <2>2. \A i \in 1..Len(t) : t[i].priority = crds[t[i].crd].priority
    BY <1>2, <1>5
  <2>3. Len(t) = RF!Cardinality(RF!Convertible(crds))
    BY <1>5, <1>6, CardinalityRF
  <2>. QED BY <2>1, <2>2, <2>3, <1>5, <1>6, <1>8 DEF RF!IsSnapshot
<1>10. t \in UNION {[1..k -> RF!Entry] : k \in 0..RF!Cardinality(Names)}
  BY <1>3, <1>4, CardinalityRF
<1>. QED BY <1>9, <1>10 DEF RF!Snapshots

\* A step that keeps the resources, the file and the count is a stutter.
LEMMA StutterRF ==
  ASSUME crds' = crds, file' = file, changes' = changes
  PROVE  UNCHANGED RF!avars
BY DEF RF!avars, FileRules

\* The file as RulesFile sees it, once written by a sync.
LEMMA FileRulesWritten ==
  ASSUME NEW f \in Seq(Rule), file' = f
  PROVE  FileRules' = Strip(f)
BY AbsentAssumption DEF FileRules, Strip

\* A completed sync is a Publish; any other end of a sync a stutter.
LEMMA SyncRefines ==
  ASSUME IInv, NEW r \in SyncResults, AfterSync(r)
  PROVE  [RF!Next]_RF!avars
<1>1. TypeOK
  BY DEF IInv
<1>2. /\ r.result = "ok" => r.file = SortByPriority(crds, ValidNames, gen)
      /\ r.result # "ok" => r.file = file
  BY <1>1, SyncResultFacts
<1>3. crds' = crds /\ changes' = changes /\ file' = r.file
  BY DEF AfterSync
<1>4. CASE r.result = "ok"
  <2> DEFINE s == SortByPriority(crds, ValidNames, gen)
  <2>1. s \in Seq(Rule) /\ file' = s
    BY <1>1, <1>2, <1>3, <1>4, SortReflects
  <2>2. FileRules' = Strip(s)
    BY <2>1, FileRulesWritten
  <2>3. Strip(s) \in RF!Snapshots(crds)
    BY <1>1, SyncPublishes
  <2>4. RF!Publish
    BY <1>3, <2>2, <2>3 DEF RF!Publish
  <2>. QED BY <2>4 DEF RF!Next
<1>5. CASE r.result # "ok"
  BY <1>2, <1>3, <1>5, StutterRF
<1>. QED BY <1>4, <1>5

\* A user's change is a Change of RulesFile.
LEMMA UserRefines ==
  ASSUME IInv, NEW n \in Names, UserApply(n) \/ UserDelete(n)
  PROVE  RF!Change
<1>1. TypeOK
  BY DEF IInv
<1>2. file' = file /\ changes < MaxChanges /\ changes' = changes + 1
  BY DEF UserApply, UserDelete
<1>3. FileRules' = FileRules
  BY <1>2 DEF FileRules
<1>4. \E c \in RF!CRD \cup {Absent} :
        c # crds[n] /\ crds' = [crds EXCEPT ![n] = c]
  <2>1. CASE UserApply(n)
    <3>1. PICK c \in CRD \ {crds[n]} : crds' = [crds EXCEPT ![n] = c]
      BY <2>1 DEF UserApply
    <3>2. c \in RF!CRD
      BY ControllerAssumption DEF CRD, RF!CRD
    <3>. QED BY <3>1, <3>2
  <2>2. CASE UserDelete(n)
    BY <2>2 DEF UserDelete
  <2>. QED BY <2>1, <2>2
<1>. QED BY <1>2, <1>3, <1>4 DEF RF!Change

(***************************************************************************)
(* The controller implements RulesFile's safety part, for every instance: *)
(* starting with no file and no resources, the rules file changes only   *)
(* when sync_rules completes, and then becomes exactly the stably        *)
(* priority-sorted rules of the resources whose spec converts; a failed *)
(* list call, an aborted loop, a failed dump or rename, a signal before  *)
(* the rename and a restart all leave it as it was.                      *)
(***************************************************************************)
THEOREM RefinesRulesFile == Spec => RF!Init /\ [][RF!Next]_RF!avars
<1>1. Init => RF!Init
  BY DEF Init, RF!Init, FileRules
<1>2. IInv /\ [Next]_vars => [RF!Next]_RF!avars
  <2> SUFFICES ASSUME IInv, [Next]_vars PROVE [RF!Next]_RF!avars
    OBVIOUS
  \* The steps that change neither the resources nor the file.
  <2>1. ASSUME UNCHANGED <<crds, file, changes>> PROVE [RF!Next]_RF!avars
    BY <2>1, StutterRF
  <2>2. ASSUME NEW r \in SyncResults, AfterSync(r) PROVE [RF!Next]_RF!avars
    BY <2>2, SyncRefines
  <2>3. CASE InitialSync \/ ProcessEvent
    BY <2>3, <2>2 DEF InitialSync, ProcessEvent
  <2>4. CASE StreamTimeout \/ StreamFails \/ Stop \/ Restart
    BY <2>4, <2>1 DEF StreamTimeout, StreamFails, Stop, Restart
  <2>5. CASE PeriodicCheck
    BY <2>5, <2>1, <2>2 DEF PeriodicCheck
  <2>6. ASSUME NEW n \in Names, UserApply(n) \/ UserDelete(n)
        PROVE  [RF!Next]_RF!avars
    BY <2>6, UserRefines DEF RF!Next
  <2>7. CASE UNCHANGED vars
    BY <2>7, <2>1 DEF vars
  <2>. QED BY <2>3, <2>4, <2>5, <2>6, <2>7 DEF Next, Controller
<1>. QED BY <1>1, <1>2, InitIInv, NextIInv, PTL DEF Spec
====
