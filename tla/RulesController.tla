--------------------------- MODULE RulesController ---------------------------
(***************************************************************************)
(* The InspectionRule controller of k8s-integration/                      *)
(* inspection_rules_controller.py: it lists the InspectionRule custom     *)
(* resources, converts them to rules, patches each resource's status,    *)
(* and writes the rules, sorted by priority, to a file through a         *)
(* temporary file and a rename; watch events and stream restarts drive   *)
(* the full syncs. Users create, change and delete resources at any time *)
(* (at most MaxChanges times); the API, the status patches and the disk  *)
(* fail nondeterministically, and a signal may end the process anywhere. *)
(***************************************************************************)
EXTENDS Integers, Sequences, FiniteSets

CONSTANTS
  Names,        \* resource names
  Order,        \* the order the list call returns the names in
  Priorities,   \* spec.priority values (integers)
  SpecUuids,    \* whether resources set spec.uuid
  MaxChanges,   \* bound on user changes to the resources
  Absent        \* no resource / no file

ASSUME ControllerAssumption ==
  /\ Order \in Seq(Names)
  /\ \A n \in Names : \E i \in 1..Len(Order) : Order[i] = n
  /\ Priorities \subseteq Int
  /\ SpecUuids \subseteq BOOLEAN
  /\ MaxChanges \in Nat

\* A resource: whether spec.uuid is set, spec.priority, and whether its
\* spec converts (a malformed spec makes _convert_crd_to_rule raise).
CRD == [uuid: SpecUuids, priority: Priorities, valid: BOOLEAN]
\* A rule's uuid: the resource's spec.uuid, or a uuid4 of a given sync.
UUIDs == [from: {"spec", "gen"}, crd: Names, g: 0..1]
\* A rule as written; crd names the resource it came from (the file
\* itself carries no names: _k8s_metadata is stripped before writing).
Rule == [crd: Names, uuid: UUIDs, priority: Priorities]
\* "No resource" and "no file" are neither a resource nor a list of rules.
ASSUME AbsentAssumption == Absent \notin CRD \cup Seq(Rule)

States == {"none", "Active", "Error"}
PCs == {"init", "watch", "timeout", "error", "exited"}

VARIABLES
  crds,      \* the resources in the cluster
  status,    \* each resource's status.state
  file,      \* the rules file at output_path
  leaked,    \* a .inspection_rules_*.yaml.tmp left in the output dir
  pc,        \* where watch_rules is
  pending,   \* watch events queued on the open stream
  streamSync,\* a sync succeeded since the stream opened (last_sync_time)
  gen,       \* which uuid4 batch the next sync generates
  changes,   \* user changes so far
  synced     \* the file was written from the resources as they are now

vars == <<crds, status, file, leaked, pc, pending, streamSync, gen,
          changes, synced>>

TypeOK ==
  /\ crds \in [Names -> CRD \cup {Absent}]
  /\ status \in [Names -> States]
  /\ file \in Seq(Rule) \cup {Absent}
  /\ leaked \in BOOLEAN
  /\ pc \in PCs
  /\ pending \in BOOLEAN
  /\ streamSync \in BOOLEAN
  /\ gen \in 0..1
  /\ changes \in 0..MaxChanges
  /\ synced \in BOOLEAN

Init ==
  /\ crds = [n \in Names |-> Absent]
  /\ status = [n \in Names |-> "none"]
  /\ file = Absent
  /\ leaked = FALSE
  /\ pc = "init"
  /\ pending = FALSE
  /\ streamSync = FALSE
  /\ gen = 0
  /\ changes = 0
  /\ synced = FALSE

\* The names _get_all_rules returns; the list call orders them as Order.
Listed(c) == {n \in Names : c[n] # Absent}

\* A name's position in the list call's order.
Pos(n) == CHOOSE i \in 1..Len(Order) : Order[i] = n

\* _convert_crd_to_rule: spec.uuid, or a fresh uuid4 on every call.
ToRule(c, n, g) ==
  [crd |-> n, priority |-> c[n].priority,
   uuid |-> IF c[n].uuid THEN [from |-> "spec", crd |-> n, g |-> 0]
            ELSE [from |-> "gen", crd |-> n, g |-> g]]

(***************************************************************************)
(* The rules are appended in list order and clean_rules.sort(key=        *)
(* priority, reverse=True) is stable: m ends up before n when its        *)
(* priority is higher, or equal and m was listed first. A rule's place   *)
(* is one more than the number of rules that go before it.               *)
(***************************************************************************)
Before(c, m, n) ==
  \/ c[m].priority > c[n].priority
  \/ c[m].priority = c[n].priority /\ Pos(m) < Pos(n)

\* Bug-shaped variant: equal priorities end up in reverse list order.
RankMut(c, K, n) ==
  Cardinality({m \in K : \/ c[m].priority > c[n].priority
                         \/ c[m].priority = c[n].priority /\ Pos(m) > Pos(n)})
  + 1

Rank(c, K, n) == Cardinality({m \in K : Before(c, m, n)}) + 1

\* The sorted rules of the resources K, their uuid4s from batch g.
SortByPriority(c, K, g) ==
  [i \in 1..Cardinality(K) |-> ToRule(c, CHOOSE n \in K : Rank(c, K, n) = i, g)]

(***************************************************************************)
(* What happens to one resource in the loop of sync_rules: a valid one   *)
(* is appended, then patched Active; a patch's ApiException is swallowed *)
(* ("kept"); any other exception (a conversion error, or a non-API error *)
(* of the Active patch) leads to an Error patch, and an exception other  *)
(* than ApiException from that one ends the sync ("abort").              *)
(***************************************************************************)
Outcomes(c, n) ==
  IF c[n].valid THEN {"active", "kept", "error", "abort"}
  ELSE {"kept", "error", "abort"}

\* Bug-shaped variant: the rule appended only once its status is Active.
FiledMut(c, n, o) == c[n].valid /\ o = "active"

\* rules.append(rule) happens right after the conversion succeeds.
Filed(c, n, o) == c[n].valid

\* The status a resource's outcome leaves.
NewStatus(old, o) ==
  CASE o = "active" -> "Active" [] o = "error" -> "Error" [] OTHER -> old

(***************************************************************************)
(* sync_rules, atomically: the list call may raise; the loop runs up to  *)
(* the first abort; without one, _write_rules_file dumps the sorted      *)
(* rules into a NamedTemporaryFile(delete=False) and renames it over the *)
(* file. Creating the temp file may fail (nothing left), dumping or the  *)
(* rename may fail (the temp file stays), and a signal between the dump *)
(* and the rename ends the process with it left. Every successful status *)
(* patch is a MODIFIED event. The result is "ok" (last_sync_time set),   *)
(* "failed" (logged by sync_rules' own except) or "exited" (SystemExit). *)
(***************************************************************************)
\* The outcomes the loop can have, one for each listed resource.
LoopOutcomes(c) ==
  {o \in [Listed(c) -> {"active", "kept", "error", "abort"}] :
     \A n \in Listed(c) : o[n] \in Outcomes(c, n)}

\* An aborting resource ends the loop: the ones listed before it are done.
Aborts(c, o) == \E n \in Listed(c) : o[n] = "abort"
Done(c, o) ==
  {n \in Listed(c) : \A m \in Listed(c) : Pos(m) <= Pos(n) => o[m] # "abort"}
\* The resources whose rules were appended.
Kept(c, o) == {n \in Listed(c) : Filed(c, n, o[n])}

\* What a sync whose loop had outcomes o leaves: statuses, whether it
\* patched a status (an event), the file, a temp file, and its result.
SyncResult(o, f, lk, r) ==
  [status |-> [n \in Names |-> IF n \in Done(crds, o)
                               THEN NewStatus(status[n], o[n])
                               ELSE status[n]],
   event |-> \E n \in Done(crds, o) : o[n] \in {"active", "error"},
   file |-> f, leaked |-> lk, result |-> r]

SyncResults ==
  {[status |-> status, event |-> FALSE, file |-> file, leaked |-> leaked,
    result |-> "failed"]}
  \cup UNION {
    IF Aborts(crds, o) THEN {SyncResult(o, file, leaked, "failed")}
    ELSE {SyncResult(o, file, leaked, "failed"),
          SyncResult(o, file, TRUE, "failed"),
          SyncResult(o, file, TRUE, "exited"),
          SyncResult(o, SortByPriority(crds, Kept(crds, o), gen), leaked, "ok")}
    : o \in LoopOutcomes(crds)}

\* What a sync leaves on disk and in the cluster.
AfterSync(r) ==
  /\ status' = r.status
  /\ file' = r.file
  /\ leaked' = r.leaked
  /\ gen' = IF \E n \in Names : crds[n] # Absent /\ ~crds[n].uuid
            THEN 1 - gen ELSE gen
  /\ synced' = (synced \/ r.result = "ok")
  /\ UNCHANGED <<crds, changes>>

\* A new watch stream first reports every existing resource as ADDED.
Existing(c) == \E n \in Names : c[n] # Absent

(***************************************************************************)
(* watch_rules starts with sync_rules outside any try. sync_rules logs   *)
(* and re-raises every Exception, so a failed first sync reaches main,   *)
(* which exits with status 1; a signal exits with status 0. Otherwise   *)
(* the first stream opens and reports the existing resources.           *)
(***************************************************************************)
InitialSync ==
  /\ pc = "init"
  /\ \E r \in SyncResults :
       /\ AfterSync(r)
       /\ pc' = IF r.result = "ok" THEN "watch" ELSE "exited"
       /\ pending' = Existing(crds)
       /\ streamSync' = FALSE

(***************************************************************************)
(* An event on the stream triggers a full sync. The status patches a    *)
(* successful one made are new MODIFIED events on the stream. A failed  *)
(* one re-raises out of the for loop: the stream is abandoned, and the   *)
(* except branch (the list call's ApiException is never a 410 of the     *)
(* watch) sleeps and goes on to the periodic check.                      *)
(***************************************************************************)
ProcessEvent ==
  /\ pc = "watch"
  /\ pending
  /\ \E r \in SyncResults :
       /\ AfterSync(r)
       /\ pc' = CASE r.result = "ok" -> "watch"
                   [] r.result = "failed" -> "error"
                   [] OTHER -> "exited"
       /\ pending' = (r.result = "ok" /\ r.event)
       /\ streamSync' = (streamSync \/ r.result = "ok")

\* The stream reaches timeout_seconds=sync_interval.
StreamTimeout ==
  /\ pc = "watch"
  /\ ~pending
  /\ pc' = "timeout"
  /\ UNCHANGED <<crds, status, file, leaked, pending, streamSync, gen,
                 changes, synced>>

\* The stream raises: 410 restarts the watch at once ("continue"); any
\* other error sleeps and goes to the periodic check.
StreamFails ==
  /\ pc = "watch"
  /\ \/ /\ pc' = "watch"
        /\ pending' = Existing(crds)
        /\ streamSync' = FALSE
     \/ /\ pc' = "error"
        /\ pending' = FALSE
        /\ UNCHANGED streamSync
  /\ UNCHANGED <<crds, status, file, leaked, gen, changes, synced>>

\* Bug-shaped variant: the elapsed-time comparison inverted.
PeriodicDueMut(p, s) == p = "error" \/ s

\* "last_sync_time is None or time.time() - last_sync_time > sync_interval"
\* as far as the stream's end tells: surely after a timeout with no sync
\* during the stream, possibly after an error.
PeriodicDue(p, s) == p = "error" \/ ~s

(***************************************************************************)
(* The periodic check after a stream: it syncs when last_sync_time is    *)
(* older than sync_interval. After a timeout that is exactly when no sync *)
(* succeeded while the stream (sync_interval long) was open; after an   *)
(* error the stream's length is unknown, so either may hold. A failure   *)
(* is logged inside sync_rules. The next stream then opens.             *)
(***************************************************************************)
PeriodicCheck ==
  /\ pc \in {"timeout", "error"}
  /\ \/ /\ PeriodicDue(pc, streamSync)
        /\ \E r \in SyncResults :
             /\ AfterSync(r)
             /\ pc' = IF r.result = "exited" THEN "exited" ELSE "watch"
     \/ /\ ~PeriodicDue(pc, streamSync) \/ pc = "error"
        /\ pc' = "watch"
        /\ UNCHANGED <<crds, status, file, leaked, gen, changes, synced>>
  /\ pending' = Existing(crds)
  /\ streamSync' = FALSE

\* SIGINT/SIGTERM: signal_handler calls sys.exit(0).
Stop ==
  /\ pc # "exited"
  /\ pc' = "exited"
  /\ UNCHANGED <<crds, status, file, leaked, pending, streamSync, gen,
                 changes, synced>>

\* The pod is restarted; the output file and any temp file survive.
Restart ==
  /\ pc = "exited"
  /\ pc' = "init"
  /\ pending' = FALSE
  /\ streamSync' = FALSE
  /\ UNCHANGED <<crds, status, file, leaked, gen, changes, synced>>

\* A user creates or edits a resource; an open stream reports it.
UserApply(n) ==
  /\ changes < MaxChanges
  /\ \E c \in CRD \ {crds[n]} : crds' = [crds EXCEPT ![n] = c]
  /\ changes' = changes + 1
  /\ synced' = FALSE
  /\ pending' = (pending \/ pc = "watch")
  /\ UNCHANGED <<status, file, leaked, pc, streamSync, gen>>

\* A user deletes a resource, its status with it.
UserDelete(n) ==
  /\ changes < MaxChanges
  /\ crds[n] # Absent
  /\ crds' = [crds EXCEPT ![n] = Absent]
  /\ status' = [status EXCEPT ![n] = "none"]
  /\ changes' = changes + 1
  /\ synced' = FALSE
  /\ pending' = (pending \/ pc = "watch")
  /\ UNCHANGED <<file, leaked, pc, streamSync, gen>>

Controller ==
  \/ InitialSync \/ ProcessEvent \/ StreamTimeout \/ StreamFails
  \/ PeriodicCheck \/ Restart

Next ==
  \/ Controller
  \/ Stop
  \/ \E n \in Names : UserApply(n) \/ UserDelete(n)

(***************************************************************************)
(* Fairness: the loop keeps running and a stopped pod is restarted (weak *)
(* fairness of the controller), and the API server, the status patches  *)
(* and the disk do not fail forever: a sync that would succeed and bring *)
(* the file up to date, if possible infinitely often, happens.          *)
(***************************************************************************)
Fairness ==
  /\ WF_vars(Controller)
  /\ SF_vars(Controller /\ ~synced /\ synced')

Spec == Init /\ [][Next]_vars /\ Fairness

-----------------------------------------------------------------------------
\* The resources a rule is filed for, and those whose spec converts.
FiledNames == IF file = Absent THEN {} ELSE {file[i].crd : i \in 1..Len(file)}
ValidNames == {n \in Names : crds[n] # Absent /\ crds[n].valid}

(***************************************************************************)
(* When the last completed sync saw the resources as they are now, the   *)
(* rules file holds one rule for each of them whose spec converts, with *)
(* its current priority, highest priority first: a rule is written even  *)
(* when patching its status failed, and an invalid resource never is.   *)
(***************************************************************************)
FileReflectsCluster ==
  synced =>
    /\ file # Absent
    /\ FiledNames = ValidNames
    /\ Len(file) = Cardinality(ValidNames)
    /\ \A i \in 1..Len(file) : file[i].priority = crds[file[i].crd].priority
    /\ \A i, j \in 1..Len(file) : i < j => file[i].priority >= file[j].priority

(***************************************************************************)
(* The status "Active" / "Rule synchronized successfully" is set only    *)
(* for a resource whose rule is in the rules file.                       *)
(***************************************************************************)
StatusActiveMeansFiled ==
  \A n \in Names : status[n] = "Active" => n \in FiledNames

(***************************************************************************)
(* A rule keeps its uuid in the file while its resource is unchanged     *)
(* ("Generate or use existing UUID").                                    *)
(***************************************************************************)
UuidStable ==
  [][\A i \in 1..(IF file = Absent THEN 0 ELSE Len(file)),
        j \in 1..(IF file' = Absent THEN 0 ELSE Len(file')) :
       file[i].crd = file'[j].crd /\ crds'[file[i].crd] = crds[file[i].crd]
       => file'[j].uuid = file[i].uuid]_vars

(***************************************************************************)
(* _write_rules_file ("write to temporary file first for atomic update") *)
(* never leaves its temporary file behind in the output directory.       *)
(***************************************************************************)
NoStrayTempFiles == ~leaked

-----------------------------------------------------------------------------
\* The refinement mapping: what the rules file says, once the uuids (not
\* part of the promise) are set aside.
FileRules ==
  IF file = Absent THEN Absent
  ELSE [i \in 1..Len(file) |-> [crd |-> file[i].crd,
                                priority |-> file[i].priority]]

RF == INSTANCE RulesFile WITH rules <- FileRules

(***************************************************************************)
(* The controller implements RulesFile: sync_rules replaces the file only *)
(* by the whole, stably priority-sorted set of rules of the resources it *)
(* just listed (the temporary file and rename make the write atomic, and *)
(* a rule is written even when patching its status fails); and as long  *)
(* as the file is stale, a sync eventually brings it up to date.         *)
(***************************************************************************)
ImplementsRulesFile == RF!Spec
=============================================================================
