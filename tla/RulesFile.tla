------------------------------ MODULE RulesFile ------------------------------
(***************************************************************************)
(* What the InspectionRule controller promises about the rules file it    *)
(* maintains, without saying how: the file is absent until the first      *)
(* write, and from then on it is always the whole set of rules of the     *)
(* cluster's convertible resources as they were at some moment, highest   *)
(* priority first and, among equal priorities, in the order the API lists *)
(* them; once the resources stop changing, it eventually matches them.    *)
(* Users change the resources at most MaxChanges times.                   *)
(***************************************************************************)
EXTENDS Integers, Sequences, FiniteSets

CONSTANTS Names, Order, Priorities, MaxChanges, Absent

\* A resource (spec.uuid set, spec.priority, whether its spec converts).
CRD == [uuid: BOOLEAN, priority: Priorities, valid: BOOLEAN]
\* What the file says of a rule: the resource it came from, its priority.
Entry == [crd: Names, priority: Priorities]

VARIABLES crds, rules, changes

avars == <<crds, rules, changes>>

\* The position of a name in the list call's order.
Pos(n) == CHOOSE i \in 1..Len(Order) : Order[i] = n

\* The resources of c whose spec converts.
Convertible(c) == {n \in Names : c[n] # Absent /\ c[n].valid}

(***************************************************************************)
(* s is the rules file of the resources c: one entry per convertible     *)
(* resource, with its priority, sorted by decreasing priority and stably *)
(* by list order. At most one s satisfies it.                            *)
(***************************************************************************)
IsSnapshot(s, c) ==
  /\ Len(s) = Cardinality(Convertible(c))
  /\ {s[i].crd : i \in 1..Len(s)} = Convertible(c)
  /\ \A i \in 1..Len(s) : s[i].priority = c[s[i].crd].priority
  /\ \A i, j \in 1..Len(s) :
       i < j => \/ s[i].priority > s[j].priority
                \/ s[i].priority = s[j].priority
                   /\ Pos(s[i].crd) < Pos(s[j].crd)

Snapshots(c) ==
  {s \in UNION {[1..k -> Entry] : k \in 0..Cardinality(Names)} :
     IsSnapshot(s, c)}

Init ==
  /\ crds = [n \in Names |-> Absent]
  /\ rules = Absent
  /\ changes = 0

\* A user creates, edits or deletes one resource.
Change ==
  /\ changes < MaxChanges
  /\ \E n \in Names, c \in CRD \cup {Absent} :
       /\ c # crds[n]
       /\ crds' = [crds EXCEPT ![n] = c]
  /\ changes' = changes + 1
  /\ UNCHANGED rules

\* The file is replaced, at once, by the snapshot of the resources now.
Publish ==
  /\ rules' \in Snapshots(crds)
  /\ UNCHANGED <<crds, changes>>

Next == Change \/ Publish

Spec == Init /\ [][Next]_avars /\ WF_avars(Publish)
=============================================================================
