---------------------------- MODULE SandboxExecution ----------------------------
(***************************************************************************)
(* Durable executions of one Sandbox lease (src/src/api/                   *)
(* sandbox_executions.rs, the execution rows of sandbox_access_ledger.rs,  *)
(* start_execution in api/sandbox.rs) and their retirement by release      *)
(* (cleanup_lease_executions, drive_release in controllers/sandbox.rs).    *)
(*                                                                         *)
(* An idempotency key owns a row in the lease's gate object, written before*)
(* the SandboxExecution record is created, and the record, whose status    *)
(* must say Running before the runner is called.  CREATEs, status PATCHes  *)
(* and runner starts are requests in flight: they may take effect after    *)
(* the handler that sent them is gone.  Handlers of one key are retries of *)
(* one request.  Registration in the gate is the module AccessLedger; here *)
(* it is one step, and "held" the gate's stream entries.                   *)
(***************************************************************************)
EXTENDS Naturals, FiniteSets

CONSTANTS
  Keys,             \* execution names, numbers: the manifest is ordered
  Handlers,         \* requests
  KeyChoices,       \* which key each of them may carry
  Procs, ProcOf,    \* API processes (Pod and boot), and who serves a request
  SlotOf,           \* the Pod name a process runs under
  ExecutionsPerLease

ASSUME KeyAssumption ==
  /\ Keys \subseteq Nat /\ IsFiniteSet(Keys)
  /\ KeyChoices \subseteq [Handlers -> Keys]
  /\ ProcOf \in [Handlers -> Procs]
  /\ ExecutionsPerLease \in Nat

NoOne == "no one"
ASSUME NoOneAssumption == NoOne \notin Handlers

VARIABLES
  key,                      \* the key of a request, an input
  gate,                     \* "open" or "closed"
  held,                     \* handlers with a stream entry in the gate
  rowSt, active, rowUid, writer,   \* the execution row of a key
  recSt, recUid,            \* its SandboxExecution record
  pc,                       \* the request handler
  res,                      \* its detached CREATE/bind resolver
  create, mark, start,      \* its CREATE, Running PATCH and runner call
  proc,                     \* API processes
  target,                   \* the Sandbox Pod: "up" or "gone"
  running,                  \* handlers whose start made a process in it
  phase,                    \* the release, see Phases
  pass                      \* the cleanup pass in progress

rows == <<rowSt, active, rowUid, writer>>
records == <<recSt, recUid>>
requests == <<create, mark, start>>
world == <<proc, target, running>>
control == <<phase, pass>>
vars == <<key, gate, held, rows, records, pc, res, requests, world, control>>

Phases == {"ready", "releasing", "cleaning", "destroying", "absent", "released", "quarantined"}
\* Terminal records: "Unstarted" has no startedAt, "Settled" has one.
Terminal == {"Unstarted", "Settled"}
Live == {"registered", "waiting", "fresh", "marking", "authorised", "starting"}

TypeOK ==
  /\ key \in [Handlers -> Keys]
  /\ gate \in {"open", "closed"} /\ held \subseteq Handlers
  /\ rowSt \in [Keys -> {"none", "Creating", "Bound", "Rejected"}]
  /\ active \in [Keys -> BOOLEAN]
  /\ rowUid \in [Keys -> Handlers \cup {NoOne}]
  /\ writer \in [Keys -> Procs \cup {NoOne}]
  /\ recSt \in [Keys -> {"none", "Queued", "Running"} \cup Terminal]
  /\ recUid \in [Keys -> Handlers \cup {NoOne}]
  /\ pc \in [Handlers -> {"idle", "done", "dead"} \cup Live]
  /\ res \in [Handlers -> {"none", "create", "wait", "reserved", "exists", "failed", "dead"}]
  /\ create \in [Handlers -> {"none", "flight", "ok", "conflict", "rejected"}]
  /\ mark \in [Handlers -> {"none", "flight", "ok", "lost"}]
  /\ start \in [Handlers -> {"none", "flight", "sent"}]
  /\ proc \in [Procs -> {"unborn", "up", "dead"}]
  /\ target \in {"up", "gone"} /\ running \subseteq Handlers
  /\ phase \in Phases /\ pass \in {"scan", "cancel", "complete", "remove"}

Init ==
  /\ key \in KeyChoices
  /\ gate = "open" /\ held = {}
  /\ rowSt = [k \in Keys |-> "none"] /\ active = [k \in Keys |-> FALSE]
  /\ rowUid = [k \in Keys |-> NoOne] /\ writer = [k \in Keys |-> NoOne]
  /\ recSt = [k \in Keys |-> "none"] /\ recUid = [k \in Keys |-> NoOne]
  /\ pc = [h \in Handlers |-> "idle"] /\ res = [h \in Handlers |-> "none"]
  /\ create = [h \in Handlers |-> "none"] /\ mark = [h \in Handlers |-> "none"]
  /\ start = [h \in Handlers |-> "none"]
  /\ proc = [p \in Procs |-> "unborn"]
  /\ target = "up" /\ running = {}
  /\ phase = "ready" /\ pass = "scan"

-----------------------------------------------------------------------------
(* The request handler.                                                    *)

Goto(h, where) == pc' = [pc EXCEPT ![h] = where]
\* The handler returns and drops its registration.
Return(h) == Goto(h, "done") /\ held' = held \ {h}

\* register_live_stream: an entry in the open gate, then a read of the lease.
Register(h) ==
  /\ pc[h] = "idle" /\ proc[ProcOf[h]] = "up"
  /\ gate = "open" /\ phase = "ready"
  /\ Goto(h, "registered") /\ held' = held \cup {h}
  /\ UNCHANGED <<key, gate, rows, records, res, requests, world, control>>

\* reserve_execution_capacity, one CAS on the gate object.
Reserve(h) ==
  LET k == key[h]
      Proceed == Goto(h, "waiting") /\ res' = [res EXCEPT ![h] = "create"] /\ UNCHANGED held
  IN
  /\ pc[h] = "registered"
  /\ \/ /\ gate = "open" /\ rowSt[k] = "none"
        /\ Cardinality({j \in Keys : rowSt[j] # "none"}) < ExecutionsPerLease
        /\ rowSt' = [rowSt EXCEPT ![k] = "Creating"]
        /\ active' = [active EXCEPT ![k] = TRUE]
        /\ writer' = [writer EXCEPT ![k] = ProcOf[h]]
        /\ Proceed /\ UNCHANGED rowUid
     \/ /\ gate = "open" /\ rowSt[k] # "none" /\ active[k]
        /\ Proceed /\ UNCHANGED rows
     \/ /\ \/ gate = "closed"
           \/ rowSt[k] # "none" /\ ~active[k]
           \/ rowSt[k] = "none"
              /\ Cardinality({j \in Keys : rowSt[j] # "none"}) >= ExecutionsPerLease
        /\ Return(h) /\ UNCHANGED <<rows, res>>
  /\ UNCHANGED <<key, gate, records, requests, world, control>>

\* Mutation: a retry that finds the record running starts the runner again.
Answer_Resume(h) ==
  /\ pc[h] = "waiting"
  /\ \/ res[h] = "reserved" /\ Goto(h, "fresh") /\ UNCHANGED held
     \/ res[h] = "exists" /\ recSt[key[h]] = "Running" /\ Goto(h, "authorised") /\ UNCHANGED held
     \/ res[h] \in {"exists", "failed"} /\ Return(h)
  /\ UNCHANGED <<key, gate, rows, records, res, requests, world, control>>

\* The resolver's answer.  Only an exact fresh CREATE carries spawn authority.
Answer(h) ==
  /\ pc[h] = "waiting"
  /\ \/ res[h] = "reserved" /\ Goto(h, "fresh") /\ UNCHANGED held
     \/ res[h] \in {"exists", "failed"} /\ Return(h)
  /\ UNCHANGED <<key, gate, rows, records, res, requests, world, control>>

\* Reservation deadline, shutdown, or a caller that hung up.
GiveUp(h) ==
  /\ pc[h] \in Live
  /\ Return(h)
  /\ UNCHANGED <<key, gate, rows, records, res, requests, world, control>>

\* record_terminal on an exact record; a settled one stays as it is.
Settle(k, uid) ==
  recSt' = IF recUid[k] # uid THEN recSt
           ELSE [recSt EXCEPT ![k] = CASE @ = "Queued" -> "Unstarted"
                                       [] @ = "Running" -> "Settled"
                                       [] OTHER -> @]

\* Denied, revoked or timed out before the Running checkpoint.  The handler may
\* fail to record it.
SetupFails(h) ==
  /\ pc[h] = "fresh"
  /\ Return(h)
  /\ Settle(key[h], h) \/ UNCHANGED recSt
  /\ UNCHANGED <<key, gate, rows, recUid, res, requests, world, control>>

\* mark_running: GET, then a PATCH that tests UID and resourceVersion.
SendMark(h) ==
  LET k == key[h] IN
  /\ pc[h] = "fresh"
  /\ IF recUid[k] = h /\ recSt[k] = "Queued"
       THEN Goto(h, "marking") /\ mark' = [mark EXCEPT ![h] = "flight"] /\ UNCHANGED held
       ELSE Return(h) /\ UNCHANGED mark
  /\ UNCHANGED <<key, gate, rows, records, res, create, start, world, control>>

\* Every other write to a Queued record settles it, so the tests are these.
CommitMark(h) ==
  LET k == key[h] IN
  /\ mark[h] = "flight"
  /\ IF recUid[k] = h /\ recSt[k] = "Queued"
       THEN mark' = [mark EXCEPT ![h] = "ok"] /\ recSt' = [recSt EXCEPT ![k] = "Running"]
       ELSE mark' = [mark EXCEPT ![h] = "lost"] /\ UNCHANGED recSt
  /\ UNCHANGED <<key, gate, held, rows, recUid, pc, res, create, start, world, control>>

\* The runner may be called only past the checkpoint.
MarkAnswer(h) ==
  /\ pc[h] = "marking"
  /\ \/ mark[h] = "ok" /\ Goto(h, "authorised") /\ UNCHANGED held
     \/ mark[h] = "lost" /\ Return(h)
  /\ UNCHANGED <<key, gate, rows, records, res, requests, world, control>>

\* run_with_runner: the start request leaves for the target.
SendStart(h) ==
  /\ pc[h] = "authorised"
  /\ Goto(h, "starting")
  /\ start' = [start EXCEPT ![h] = "flight"]
  /\ UNCHANGED <<key, gate, held, rows, records, res, create, mark, world, control>>

\* The runner spawns, or the request is lost or finds no target.
LandStart(h) ==
  /\ start[h] = "flight"
  /\ start' = [start EXCEPT ![h] = "sent"]
  /\ \/ target = "up" /\ running' = running \cup {h}
     \/ UNCHANGED running
  /\ UNCHANGED <<key, gate, held, rows, records, pc, res, create, mark, proc, target, control>>

\* Acknowledged or waited for; or Unknown: no answer, or access was revoked.
FinishStart(h) ==
  /\ pc[h] = "starting"
  /\ Return(h)
  /\ \/ start[h] = "sent" /\ UNCHANGED recSt
     \/ Settle(key[h], h)
  /\ UNCHANGED <<key, gate, rows, recUid, res, requests, world, control>>

\* A runner report read by a poll or a wait, and cancel_owned.
RecordOutcome(k) ==
  /\ \E p \in Procs : proc[p] = "up"
  /\ recSt[k] \in {"Queued", "Running"}
  /\ Settle(k, recUid[k])
  /\ UNCHANGED <<key, gate, held, rows, recUid, pc, res, requests, world, control>>

-----------------------------------------------------------------------------
(* resolve_execution_create, a task of its own.                            *)

ResolverUnch == <<key, gate, held, pc, mark, start, world, control>>

SendCreate(h) ==
  /\ res[h] = "create"
  /\ res' = [res EXCEPT ![h] = "wait"]
  /\ create' = [create EXCEPT ![h] = "flight"]
  /\ UNCHANGED <<rows, records, ResolverUnch>>

\* The API server: created, 409, or a definitive rejection; or it never arrives.
LandCreate(h) ==
  LET k == key[h] IN
  /\ create[h] = "flight"
  /\ \/ /\ recSt[k] = "none"
        /\ recSt' = [recSt EXCEPT ![k] = "Queued"]
        /\ recUid' = [recUid EXCEPT ![k] = h]
        /\ create' = [create EXCEPT ![h] = "ok"]
     \/ /\ recSt[k] # "none"
        /\ create' = [create EXCEPT ![h] = "conflict"]
        /\ UNCHANGED records
     \/ /\ create' = [create EXCEPT ![h] = "rejected"]
        /\ UNCHANGED records
  /\ UNCHANGED <<rows, res, ResolverUnch>>
LoseCreate(h) ==
  /\ create[h] = "flight" /\ res[h] # "wait"
  /\ create' = [create EXCEPT ![h] = "none"]
  /\ UNCHANGED <<rows, records, res, ResolverUnch>>

\* A transport error or 5xx: nothing is known of the CREATE.
CreateAmbiguous(h) ==
  /\ res[h] = "wait"
  /\ res' = [res EXCEPT ![h] = "failed"]
  /\ UNCHANGED <<rows, records, create, ResolverUnch>>

\* bind_execution_capacity; the record cannot be replaced while the gate is open.
BindRow(h, uid, result) ==
  LET k == key[h] IN
  \/ /\ gate = "open" /\ active[k] /\ rowUid[k] = uid
     /\ res' = [res EXCEPT ![h] = result] /\ UNCHANGED rows
  \/ /\ gate = "open" /\ active[k] /\ rowUid[k] = NoOne /\ rowSt[k] = "Creating"
     /\ rowSt' = [rowSt EXCEPT ![k] = "Bound"]
     /\ rowUid' = [rowUid EXCEPT ![k] = uid]
     /\ res' = [res EXCEPT ![h] = result]
     /\ UNCHANGED <<active, writer>>
  \/ /\ gate = "closed" \/ ~active[k] \/ rowUid[k] \notin {NoOne, uid}
     /\ res' = [res EXCEPT ![h] = "failed"] /\ UNCHANGED rows

Bind(h) ==
  LET k == key[h] IN
  /\ res[h] = "wait"
  /\ \/ create[h] = "ok" /\ BindRow(h, h, "reserved")
     \/ create[h] = "conflict" /\ recSt[k] # "none" /\ BindRow(h, recUid[k], "exists")
     \/ create[h] = "conflict" /\ recSt[k] = "none"
        /\ res' = [res EXCEPT ![h] = "failed"] /\ UNCHANGED rows
  /\ UNCHANGED <<records, create, ResolverUnch>>

\* reject_execution_creation
RejectCreation(h) ==
  LET k == key[h] IN
  /\ res[h] = "wait" /\ create[h] = "rejected"
  /\ res' = [res EXCEPT ![h] = "failed"]
  /\ IF rowSt[k] = "Creating"
       THEN /\ rowSt' = [rowSt EXCEPT ![k] = "Rejected"]
            /\ active' = [active EXCEPT ![k] = FALSE]
       ELSE UNCHANGED <<rowSt, active>>
  /\ UNCHANGED <<rowUid, writer, records, create, ResolverUnch>>

-----------------------------------------------------------------------------
(* run_execution_reaper, on every replica, past the setup grace.           *)

ReaperUnch == <<key, gate, held, recUid, pc, res, requests, world, control>>
AnyUp == \E p \in Procs : proc[p] = "up"

\* record_queued_setup_unknown
ReapQueued(k) ==
  /\ AnyUp /\ recSt[k] = "Queued"
  /\ recSt' = [recSt EXCEPT ![k] = "Unstarted"]
  /\ UNCHANGED <<rows, ReaperUnch>>

\* Mutation: a terminal record is taken as proof that the process is gone.
ReapComplete_Report(k) ==
  /\ AnyUp /\ recSt[k] \in Terminal
  /\ rowSt[k] = "Bound" /\ rowUid[k] = recUid[k] /\ active[k]
  /\ active' = [active EXCEPT ![k] = FALSE]
  /\ UNCHANGED <<rowSt, rowUid, writer, recSt, ReaperUnch>>

\* complete_capacity_for_record: only what never started.
ReapComplete(k) ==
  /\ AnyUp /\ recSt[k] = "Unstarted"
  /\ rowSt[k] = "Bound" /\ rowUid[k] = recUid[k] /\ active[k]
  /\ active' = [active EXCEPT ![k] = FALSE]
  /\ UNCHANGED <<rowSt, rowUid, writer, recSt, ReaperUnch>>

\* expire_unbound_execution: the slot and the UID close in one CAS.
AdoptInactive(k) ==
  /\ rowSt' = [rowSt EXCEPT ![k] = "Bound"]
  /\ rowUid' = [rowUid EXCEPT ![k] = recUid[k]]
  /\ active' = [active EXCEPT ![k] = FALSE]
  /\ UNCHANGED writer
ReapUnbound(k) ==
  /\ AnyUp /\ rowSt[k] = "Creating" /\ recSt[k] \in {"Queued", "Unstarted"}
  /\ AdoptInactive(k)
  /\ Settle(k, recUid[k]) \/ UNCHANGED recSt
  /\ UNCHANGED ReaperUnch

\* stale_for_current_replica, as seen by process p.
Stale(w, p) == w # NoOne /\ w # p /\ SlotOf[w] = SlotOf[p]

\* expire_orphaned_creating_execution, after a 404.
ReapOrphan(k, p) ==
  /\ proc[p] = "up" /\ rowSt[k] = "Creating" /\ recSt[k] = "none"
  /\ Stale(writer[k], p)
  /\ rowSt' = [rowSt EXCEPT ![k] = "Rejected"]
  /\ active' = [active EXCEPT ![k] = FALSE]
  /\ UNCHANGED <<rowUid, writer, recSt, ReaperUnch>>

-----------------------------------------------------------------------------
(* Processes and the target.                                               *)

StartProcess(p) ==
  /\ proc[p] = "unborn"
  /\ \A q \in Procs \ {p} : SlotOf[q] = SlotOf[p] => proc[q] # "up"
  /\ proc' = [proc EXCEPT ![p] = "up"]
  /\ UNCHANGED <<key, gate, held, rows, records, pc, res, requests, target, running, control>>

Crash(p) ==
  /\ proc[p] = "up"
  /\ proc' = [proc EXCEPT ![p] = "dead"]
  /\ pc' = [h \in Handlers |->
       IF ProcOf[h] = p /\ pc[h] # "done" THEN "dead" ELSE pc[h]]
  /\ res' = [h \in Handlers |->
       IF ProcOf[h] = p /\ res[h] \in {"create", "wait"} THEN "dead" ELSE res[h]]
  /\ UNCHANGED <<key, gate, held, rows, records, requests, target, running, control>>

\* AccessLedger: the entry of a dead process is retired.
RetireEntry(h) ==
  /\ h \in held /\ pc[h] = "dead"
  /\ held' = held \ {h}
  /\ UNCHANGED <<key, gate, rows, records, pc, res, requests, world, control>>

Exit(h) ==
  /\ h \in running
  /\ running' = running \ {h}
  /\ UNCHANGED <<key, gate, held, rows, records, pc, res, requests, proc, target, control>>

-----------------------------------------------------------------------------
(* The release: drive_release, as far as executions are concerned.  Every  *)
(* pass re-reads the manifest and works on its first row.                  *)

PassUnch == <<key, gate, held, pc, res, requests, world>>

EndLease ==
  /\ phase = "ready"
  /\ phase' = "releasing"
  /\ UNCHANGED <<key, gate, held, rows, records, pc, res, requests, world, pass>>

\* close_and_drain_access
CloseGate ==
  /\ phase = "releasing" /\ gate = "open"
  /\ gate' = "closed"
  /\ UNCHANGED <<key, held, rows, records, pc, res, requests, world, control>>

\* Mutation: a closed gate is taken for a drained one.
Drained_Closed ==
  /\ phase = "releasing" /\ gate = "closed"
  /\ phase' = "cleaning"
  /\ UNCHANGED <<rows, records, PassUnch, pass>>

Drained ==
  /\ phase = "releasing" /\ gate = "closed" /\ held = {}
  /\ phase' = "cleaning"
  /\ UNCHANGED <<rows, records, PassUnch, pass>>

Cleaning == phase \in {"cleaning", "absent"}
Manifest == {k \in Keys : rowSt[k] # "none"}
First(k) == k \in Manifest /\ \A j \in Manifest : k <= j
Scans(k) == Cleaning /\ pass = "scan" /\ First(k)

\* Contradictory evidence: quarantine, or once absence is proven a failure that
\* is only reported and retried.
Contradiction ==
  /\ phase' = IF phase = "cleaning" THEN "quarantined" ELSE phase
  /\ UNCHANGED <<rows, records, PassUnch, pass>>

\* Mutation: only a rejected row is ever retired.
RetireRow_RejectedOnly(k) ==
  /\ Scans(k) /\ recSt[k] = "none"
  /\ ~active[k] /\ rowSt[k] = "Rejected"
  /\ rowSt' = [rowSt EXCEPT ![k] = "none"]
  /\ rowUid' = [rowUid EXCEPT ![k] = NoOne]
  /\ writer' = [writer EXCEPT ![k] = NoOne]
  /\ UNCHANGED <<active, records, PassUnch, control>>

\* Mutation: a missing record is enough to forget a CREATE in flight.
RetireRow_Creating(k) ==
  /\ Scans(k) /\ recSt[k] = "none"
  /\ ~active[k] \/ rowSt[k] = "Creating"
  /\ rowSt' = [rowSt EXCEPT ![k] = "none"]
  /\ rowUid' = [rowUid EXCEPT ![k] = NoOne]
  /\ writer' = [writer EXCEPT ![k] = NoOne]
  /\ active' = [active EXCEPT ![k] = FALSE]
  /\ UNCHANGED <<records, PassUnch, control>>

\* retire_rejected_execution and retire_inactive_execution.  An active Bound row
\* has its record unless somebody deletes that by hand, which is quarantined.
RetireRow(k) ==
  /\ Scans(k) /\ recSt[k] = "none"
  /\ ~active[k] /\ rowSt[k] # "Creating"
  /\ rowSt' = [rowSt EXCEPT ![k] = "none"]
  /\ rowUid' = [rowUid EXCEPT ![k] = NoOne]
  /\ writer' = [writer EXCEPT ![k] = NoOne]
  /\ UNCHANGED <<active, records, PassUnch, control>>

AdoptRecord(k) ==
  /\ Scans(k) /\ recSt[k] # "none" /\ rowSt[k] = "Creating"
  /\ AdoptInactive(k)
  /\ UNCHANGED <<records, PassUnch, control>>

Mismatch(k) ==
  /\ Scans(k) /\ recSt[k] # "none" /\ rowUid[k] \notin {NoOne, recUid[k]}
  /\ Contradiction

Matched(k) == Scans(k) /\ recSt[k] # "none" /\ rowUid[k] = recUid[k]

\* What the pass has read decides whether absence is proven ...
ReadRecord(k) ==
  /\ Matched(k)
  /\ \/ recSt[k] = "Queued" /\ pass' = "cancel"
     \/ recSt[k] = "Unstarted" /\ pass' = "complete"
     \/ recSt[k] \in {"Running", "Settled"} /\ phase = "absent" /\ pass' = "cancel"
  /\ UNCHANGED <<rows, records, PassUnch, phase>>
\* ... and a started execution waits for the destruction of the target, its
\* runner's cancellation being an outcome but no proof.
AwaitTargetDestruction(k) ==
  /\ Matched(k) /\ recSt[k] \in {"Running", "Settled"} /\ phase = "cleaning"
  /\ Settle(k, recUid[k])
  /\ phase' = "destroying"
  /\ UNCHANGED <<rows, recUid, PassUnch, pass>>

\* record_terminal, which may find that a late PATCH came first.
CancelRecord(k) ==
  /\ Cleaning /\ pass = "cancel" /\ First(k)
  /\ Settle(k, recUid[k])
  /\ pass' = "complete"
  /\ UNCHANGED <<rows, recUid, PassUnch, phase>>

\* complete_execution_capacity with absence proven
CompleteCapacity(k) ==
  /\ Cleaning /\ pass = "complete" /\ First(k)
  /\ active' = [active EXCEPT ![k] = FALSE]
  /\ pass' = "remove"
  /\ UNCHANGED <<rowSt, rowUid, writer, records, PassUnch, phase>>

\* remove_execution_record: finalizer, then deletion, on the exact UID.
RemoveRecord(k) ==
  /\ Cleaning /\ pass = "remove" /\ First(k)
  /\ recSt' = [recSt EXCEPT ![k] = "none"]
  /\ recUid' = [recUid EXCEPT ![k] = NoOne]
  /\ pass' = "scan"
  /\ UNCHANGED <<rows, PassUnch, phase>>

\* The controller restarts, or a step of the pass fails and is retried.
AbandonPass ==
  /\ pass # "scan"
  /\ pass' = "scan"
  /\ UNCHANGED <<rows, records, PassUnch, phase>>

\* The manifest is empty: a full scan, then Clean.
FinishCleanup ==
  /\ Cleaning /\ pass = "scan" /\ Manifest = {}
  /\ IF \E k \in Keys : recSt[k] # "none"
       THEN Contradiction
       ELSE /\ phase' = IF phase = "cleaning" THEN "destroying" ELSE "released"
            /\ UNCHANGED <<rows, records, PassUnch, pass>>

\* Claim and Pod go; the release may start over before it has proof of that.
DestroyTarget ==
  /\ phase = "destroying" /\ target = "up"
  /\ target' = "gone" /\ running' = {}
  /\ UNCHANGED <<key, gate, held, rows, records, pc, res, requests, proc, control>>
ProveAbsence ==
  /\ phase = "destroying" /\ target = "gone"
  /\ phase' = "absent"
  /\ UNCHANGED <<rows, records, PassUnch, pass>>
Requeue ==
  /\ phase = "destroying"
  /\ phase' = "cleaning"
  /\ UNCHANGED <<rows, records, PassUnch, pass>>

-----------------------------------------------------------------------------
HandlerStep(h) ==
  \/ Register(h) \/ Reserve(h) \/ Answer(h) \/ GiveUp(h) \/ SetupFails(h)
  \/ SendMark(h) \/ MarkAnswer(h) \/ SendStart(h) \/ FinishStart(h)
ResolverStep(h) == SendCreate(h) \/ CreateAmbiguous(h) \/ Bind(h) \/ RejectCreation(h)
NetworkStep(h) == LandCreate(h) \/ LoseCreate(h) \/ CommitMark(h) \/ LandStart(h)
ReaperStep(k) ==
  \/ RecordOutcome(k) \/ ReapQueued(k) \/ ReapComplete(k) \/ ReapUnbound(k)
  \/ \E p \in Procs : ReapOrphan(k, p)
RowStep(k) ==
  \/ RetireRow(k) \/ AdoptRecord(k) \/ Mismatch(k)
  \/ ReadRecord(k) \/ AwaitTargetDestruction(k) \/ CancelRecord(k)
  \/ CompleteCapacity(k) \/ RemoveRecord(k)
ReleaseStep ==
  \/ CloseGate \/ Drained \/ FinishCleanup \/ DestroyTarget \/ ProveAbsence

Sound ==
  \/ \E h \in Handlers :
       HandlerStep(h) \/ ResolverStep(h) \/ NetworkStep(h) \/ RetireEntry(h) \/ Exit(h)
  \/ \E k \in Keys : ReaperStep(k) \/ RowStep(k)
  \/ \E p \in Procs : StartProcess(p) \/ Crash(p)
  \/ EndLease \/ ReleaseStep

Next == Sound \/ AbandonPass \/ Requeue

Spec == Init /\ [][Next]_vars

-----------------------------------------------------------------------------
(* A live process answers its requests within their deadlines, what was sent*)
(* arrives or is lost, dead entries are retired (AccessLedger), the reaper  *)
(* ticks on some replica, the controller requeues an unfinished release, and*)
(* errors and restarts do not interrupt it for ever.  No process has to     *)
(* crash, so nothing makes a writer provably dead.                          *)
Fairness ==
  /\ \A h \in Handlers :
       /\ WF_vars(pc[h] \in Live /\ HandlerStep(h))
       /\ WF_vars(ResolverStep(h) \/ NetworkStep(h) \/ RetireEntry(h))
  /\ WF_vars(\E k \in Keys, p \in Procs : ReapOrphan(k, p))
  /\ WF_vars(ReleaseStep \/ \E k \in Keys : RowStep(k))
  /\ <>[][Sound]_vars

LiveSpec == Spec /\ Fairness

-----------------------------------------------------------------------------
(* Properties.                                                             *)

\* A command is started at most once for an idempotency key, however many
\* retries ran concurrently, on whichever replica, and whatever was lost.
SpawnOnce ==
  \A g, h \in Handlers :
    g # h /\ key[g] = key[h] => start[g] = "none" \/ start[h] = "none"

\* While the target lives, a process in it (or a start still under way to it)
\* keeps its active slot, its exact UID and a record that says it started: no
\* report, reaper, retry or cleanup pass frees them before target destruction.
CanRun(h) == h \in running \/ start[h] = "flight" \/ pc[h] \in {"authorised", "starting"}
SlotCoversProcess ==
  \A h \in Handlers : CanRun(h) /\ target = "up" =>
    LET k == key[h] IN
    /\ rowSt[k] = "Bound" /\ active[k] /\ rowUid[k] = h
    /\ recSt[k] \in {"Running", "Settled"} /\ recUid[k] = h

\* Once cleanup has reported Clean no request can bind or start anything, and
\* no record says that anything ran, even if one appears later.
NothingAfterClean ==
  /\ phase \in {"absent", "released"} =>
       \A h \in Handlers : pc[h] \notin Live /\ ~ (CanRun(h) /\ target = "up")
  /\ phase = "released" => \A k \in Keys : recSt[k] \notin {"Running", "Settled"}

\* A finished release leaves no record behind, also not through a CREATE whose
\* answer was lost and which lands later, unless the process that sent it died
\* or two requests raced for the key.
ReleasedLeavesNothing ==
  phase = "released" =>
    \A h \in Handlers :
      (create[h] = "flight" \/ recUid[key[h]] = h) =>
        \/ proc[ProcOf[h]] = "dead"
        \/ \E g \in Handlers \ {h} : key[g] = key[h] /\ res[g] # "none"

\* What a release can wait for without end: a row whose CREATE is undecided and
\* whose writer nobody can prove dead, or a record that a late CREATE made
\* behind a row already resolved without it, which no cleanup step removes.
AwaitsCreation ==
  \E k \in Keys : /\ rowSt[k] = "Creating" /\ recSt[k] = "none"
                  /\ \A p \in Procs : proc[p] = "up" => ~Stale(writer[k], p)
LateRecord ==
  \E k \in Keys : recSt[k] # "none" /\ rowSt[k] # "Creating" /\ rowUid[k] # recUid[k]

\* A release ends, in Released or in Quarantine, or waits on one of the two.
ReleaseEnds ==
  phase = "releasing" ~>
    \/ phase \in {"released", "quarantined"}
    \/ [](AwaitsCreation \/ LateRecord)

\* A definitively resolved reservation is retired by the release.  The comment
\* on expire_orphaned_creating_execution promises it for a row it turned to
\* Rejected; a CREATE of another replica that lands later breaks it.
RejectedRowRetired ==
  \A k \in Keys : rowSt[k] = "Rejected" /\ phase = "releasing" ~>
    rowSt[k] = "none" \/ phase = "quarantined"

=============================================================================
