------------------------ MODULE SandboxExecutionProofs ------------------------
(***************************************************************************)
(* Proofs about SandboxExecution, for any number of requests, keys,        *)
(* processes and Pod names: ExecutionInv is inductive, and the four safety *)
(* properties of executions follow from it.                                *)
(***************************************************************************)
EXTENDS SandboxExecution, TLAPS

\* The run of one handler: nothing happens before its reservation, and whatever
\* follows the Running checkpoint belongs to the handler whose own CREATE was bound.
Pipeline ==
  \A h \in Handlers :
    /\ pc[h] \in {"idle", "registered"} => res[h] = "none"
    /\ pc[h] # "idle" => proc[ProcOf[h]] # "unborn"
    /\ pc[h] \in Live => h \in held
    /\ create[h] # "none" => res[h] \notin {"none", "create"}
    /\ res[h] = "reserved" => create[h] = "ok"
    /\ \/ pc[h] \in {"fresh", "marking", "authorised", "starting"}
       \/ mark[h] # "none" \/ start[h] # "none"
       => res[h] = "reserved"
    /\ start[h] # "none" => pc[h] \in {"starting", "done", "dead"}
    /\ h \in running => start[h] = "sent"

\* A row or a record has a UID exactly while it is bound or there, and the record's
\* is that of the handler whose CREATE made it.
Provenance ==
  \A k \in Keys :
    /\ rowSt[k] = "Bound" => rowUid[k] # NoOne
    /\ rowSt[k] # "Bound" => rowUid[k] = NoOne
    /\ recSt[k] = "none" => recUid[k] = NoOne
    /\ recSt[k] # "none" =>
         recUid[k] \in Handlers /\ key[recUid[k]] = k /\ create[recUid[k]] = "ok"

\* A row was written by a handler of its key.
Written ==
  \A k \in Keys : rowSt[k] # "none" =>
    \E g \in Handlers : key[g] = k /\ ProcOf[g] = writer[k] /\ res[g] # "none"

\* Spawn authority for a key is given once, to the handler the open gate's row names.
OneAuthority ==
  \A h \in Handlers : res[h] = "reserved" =>
    /\ gate = "open" => rowSt[key[h]] = "Bound" /\ rowUid[key[h]] = h
    /\ \A g \in Handlers : res[g] = "reserved" /\ key[g] = key[h] => g = h

SlotHeld(h) == rowSt[key[h]] = "Bound" /\ active[key[h]] /\ rowUid[key[h]] = h

\* A handler on its way to the runner keeps its slot while its record may still
\* come to say Running, and from then on whatever becomes of the handler.
Covered ==
  \A h \in Handlers :
    /\ /\ pc[h] \in Live /\ res[h] = "reserved"
       /\ recUid[key[h]] = h /\ recSt[key[h]] # "Unstarted"
       => SlotHeld(h)
    /\ /\ CanRun(h) \/ (pc[h] = "marking" /\ mark[h] = "ok")
       /\ target = "up"
       => SlotHeld(h) /\ recSt[key[h]] \in {"Running", "Settled"} /\ recUid[key[h]] = h

\* The order of the release.
Order ==
  /\ phase \notin {"ready", "releasing"} => gate = "closed" /\ held = {}
  /\ phase \notin {"cleaning", "absent"} => pass = "scan"
  /\ phase \in {"absent", "released"} => target = "gone"
  /\ phase = "released" => \A k \in Keys : rowSt[k] = "none"

\* A pass past its read of a row's record works on a key nothing runs for.
PassSafe ==
  pass # "scan" /\ target = "up" =>
    \A k \in Keys : First(k) => \A h \in Handlers : key[h] = k => ~CanRun(h)

\* Of the processes under one Pod name at most one is up.
OneBoot ==
  \A p, q \in Procs : SlotOf[p] = SlotOf[q] /\ proc[p] = "up" /\ proc[q] = "up" => p = q

\* The exceptions of ReleasedLeavesNothing.
Excused(h) ==
  \/ proc[ProcOf[h]] = "dead"
  \/ \E g \in Handlers \ {h} : key[g] = key[h] /\ res[g] # "none"

\* A CREATE that is still to come keeps its row in Creating, which stops cleanup.
CreateAwaited ==
  \A h \in Handlers :
    res[h] = "create" \/ create[h] = "flight" => Excused(h) \/ rowSt[key[h]] = "Creating"

\* A record that appears after the release is an excused one, and nobody may mark it.
LateRecords ==
  phase = "released" =>
    /\ \A h \in Handlers : recUid[key[h]] = h => Excused(h) /\ res[h] # "reserved"
    /\ \A k \in Keys : recSt[k] \notin {"Running", "Settled"}

ExecutionInv ==
  /\ TypeOK /\ Pipeline /\ Provenance /\ Written /\ OneAuthority /\ Covered
  /\ Order /\ PassSafe /\ OneBoot /\ CreateAwaited /\ LateRecords

LEMMA ProcTyped == ProcOf \in [Handlers -> Procs]
BY KeyAssumption

-----------------------------------------------------------------------------
\* The groups of variables the actions leave alone.
USE DEF rows, records, requests, world, control

LEMMA InitInv == Init => ExecutionInv
<1> SUFFICES ASSUME Init PROVE ExecutionInv
  OBVIOUS
<1>1. key \in [Handlers -> Keys]
  BY KeyAssumption DEF Init
<1>2. TypeOK
  BY <1>1 DEF Init, TypeOK, Live, Terminal, Phases
<1>3. Pipeline /\ Provenance /\ Written /\ OneAuthority /\ Covered /\ Order
  BY <1>1, NoOneAssumption
     DEF Init, Pipeline, Provenance, Written, OneAuthority, Covered, CanRun, Order, Live
<1>4. PassSafe /\ OneBoot /\ CreateAwaited /\ LateRecords
  BY DEF Init, PassSafe, OneBoot, CreateAwaited, LateRecords
<1> QED
  BY <1>2, <1>3, <1>4 DEF ExecutionInv

-----------------------------------------------------------------------------
(* The request handler and its resolver. *)

LEMMA RegisterStep == ASSUME ExecutionInv, NEW h \in Handlers, Register(h)
                      PROVE  ExecutionInv'
<1> USE ProcTyped, NoOneAssumption DEF ExecutionInv, TypeOK, Register, Goto, Return
<1>1. TypeOK' /\ OneBoot' /\ Order'
  BY DEF Live, Terminal, Phases, OneBoot, Order, Pipeline, Cleaning, Manifest, First
<1>2. Pipeline' /\ Provenance' /\ Written'
  BY DEF Pipeline, Live, Provenance, Written
<1>3. OneAuthority' /\ Covered'
  BY DEF OneAuthority, Pipeline, Provenance, Order, Cleaning, Covered, SlotHeld, CanRun,
         PassSafe, First, Manifest, Live, Terminal
<1>4. PassSafe'
  BY KeyAssumption DEF PassSafe, CanRun, First, Manifest, Covered, SlotHeld, Order, Pipeline,
         Provenance, Live, Cleaning
<1>5. CreateAwaited' /\ LateRecords'
  BY DEF Excused, CreateAwaited, Pipeline, Provenance, Written, OneBoot, Stale, LateRecords,
         Order, Cleaning, Terminal
<1> QED
  BY <1>1, <1>2, <1>3, <1>4, <1>5

\* The three outcomes of a reservation.
Reserved(h) ==
  /\ gate = "open" /\ rowSt[key[h]] = "none"
  /\ rowSt' = [rowSt EXCEPT ![key[h]] = "Creating"]
  /\ active' = [active EXCEPT ![key[h]] = TRUE]
  /\ writer' = [writer EXCEPT ![key[h]] = ProcOf[h]]
  /\ pc' = [pc EXCEPT ![h] = "waiting"] /\ res' = [res EXCEPT ![h] = "create"]
  /\ UNCHANGED <<rowUid, held>>

Retried(h) ==
  /\ rowSt[key[h]] # "none"
  /\ pc' = [pc EXCEPT ![h] = "waiting"] /\ res' = [res EXCEPT ![h] = "create"]
  /\ UNCHANGED <<rowSt, active, rowUid, writer, held>>

Refused(h) ==
  /\ pc' = [pc EXCEPT ![h] = "done"] /\ held' = held \ {h}
  /\ UNCHANGED <<rowSt, active, rowUid, writer, res>>

LEMMA ReserveCases ==
  ASSUME NEW h \in Handlers, Reserve(h)
  PROVE  /\ pc[h] = "registered"
         /\ UNCHANGED <<key, gate, recSt, recUid, create, mark, start, proc, target, running,
                        phase, pass>>
         /\ Reserved(h) \/ Retried(h) \/ Refused(h)
BY DEF Reserve, Reserved, Retried, Refused, Goto, Return, rows, records, requests, world, control

\* A reservation that makes a row, finds one, or is refused.
LEMMA ReserveStep == ASSUME ExecutionInv, NEW h \in Handlers, Reserve(h)
                     PROVE  ExecutionInv'
<1> USE ProcTyped, NoOneAssumption DEF ExecutionInv, TypeOK, Reserve, Goto, Return
<1>1. TypeOK'
  <2> HIDE DEF Reserve
  <2>1. CASE Reserved(h)
    <3>1. key[h] \in Keys /\ ProcOf[h] \in Procs
      OBVIOUS
    <3>2. writer' \in [Keys -> Procs \cup {NoOne}]
      BY <2>1, <3>1 DEF Reserved
    <3>3. rowSt' \in [Keys -> {"none", "Creating", "Bound", "Rejected"}] /\ active' \in [Keys -> BOOLEAN]
      BY <2>1, <3>1 DEF Reserved
    <3>4. pc' \in [Handlers -> {"idle", "done", "dead"} \cup Live] /\ UNCHANGED <<rowUid, held>>
      BY <2>1 DEF Reserved, Live
    <3>5. res' \in [Handlers -> {"none", "create", "wait", "reserved", "exists", "failed", "dead"}]
      BY <2>1 DEF Reserved
    <3> QED
      BY <3>2, <3>3, <3>4, <3>5, ReserveCases
  <2>2. CASE Retried(h)
    BY <2>2, ReserveCases DEF Retried, Live
  <2>3. CASE Refused(h)
    BY <2>3, ReserveCases DEF Refused, Live
  <2> QED
    BY <2>1, <2>2, <2>3, ReserveCases
<1>2. OneBoot'
  BY DEF OneBoot
<1>3. Order'
  BY DEF Order, Pipeline, Live, Cleaning, Manifest, First
<1>4. Pipeline' /\ Provenance' /\ Written'
  BY DEF Pipeline, Live, Provenance, Written
<1>5. OneAuthority' /\ Covered'
  BY DEF OneAuthority, Pipeline, Provenance, Order, Cleaning, Covered, SlotHeld, CanRun,
         PassSafe, First, Manifest, Live, Terminal
<1>6. PassSafe'
  BY KeyAssumption DEF PassSafe, CanRun, First, Manifest, Covered, SlotHeld, Order, Pipeline,
         Provenance, Live, Cleaning
<1>7. CreateAwaited' /\ LateRecords'
  BY DEF Excused, CreateAwaited, Pipeline, Provenance, Written, OneBoot, Stale, LateRecords,
         Order, Cleaning, Terminal
<1> QED
  BY <1>1, <1>2, <1>3, <1>4, <1>5, <1>6, <1>7

LEMMA AnswerStep == ASSUME ExecutionInv, NEW h \in Handlers, Answer(h)
                    PROVE  ExecutionInv'
<1> USE ProcTyped, NoOneAssumption DEF ExecutionInv, TypeOK, Answer, Goto, Return
<1>1. TypeOK' /\ OneBoot' /\ Order'
  BY DEF Live, Terminal, Phases, OneBoot, Order, Pipeline, Cleaning, Manifest, First
<1>2. Pipeline' /\ Provenance' /\ Written'
  BY DEF Pipeline, Live, Provenance, Written
<1>3. OneAuthority' /\ Covered'
  BY DEF OneAuthority, Pipeline, Provenance, Order, Cleaning, Covered, SlotHeld, CanRun,
         PassSafe, First, Manifest, Live, Terminal
<1>4. PassSafe'
  BY KeyAssumption DEF PassSafe, CanRun, First, Manifest, Covered, SlotHeld, Order, Pipeline,
         Provenance, Live, Cleaning
<1>5. CreateAwaited' /\ LateRecords'
  BY DEF Excused, CreateAwaited, Pipeline, Provenance, Written, OneBoot, Stale, LateRecords,
         Order, Cleaning, Terminal
<1> QED
  BY <1>1, <1>2, <1>3, <1>4, <1>5

LEMMA GiveUpStep == ASSUME ExecutionInv, NEW h \in Handlers, GiveUp(h)
                    PROVE  ExecutionInv'
<1> USE ProcTyped, NoOneAssumption DEF ExecutionInv, TypeOK, GiveUp, Goto, Return
<1>1. TypeOK' /\ OneBoot' /\ Order'
  BY DEF Live, Terminal, Phases, OneBoot, Order, Pipeline, Cleaning, Manifest, First
<1>2. Pipeline' /\ Provenance' /\ Written'
  BY DEF Pipeline, Live, Provenance, Written
<1>3. OneAuthority' /\ Covered'
  BY DEF OneAuthority, Pipeline, Provenance, Order, Cleaning, Covered, SlotHeld, CanRun,
         PassSafe, First, Manifest, Live, Terminal
<1>4. PassSafe'
  BY KeyAssumption DEF PassSafe, CanRun, First, Manifest, Covered, SlotHeld, Order, Pipeline,
         Provenance, Live, Cleaning
<1>5. CreateAwaited' /\ LateRecords'
  BY DEF Excused, CreateAwaited, Pipeline, Provenance, Written, OneBoot, Stale, LateRecords,
         Order, Cleaning, Terminal
<1> QED
  BY <1>1, <1>2, <1>3, <1>4, <1>5

LEMMA SetupFailsStep == ASSUME ExecutionInv, NEW h \in Handlers, SetupFails(h)
                        PROVE  ExecutionInv'
<1> USE ProcTyped, NoOneAssumption DEF ExecutionInv, TypeOK, SetupFails, Goto, Return, Settle
<1>1. TypeOK' /\ OneBoot' /\ Order'
  BY DEF Live, Terminal, Phases, OneBoot, Order, Pipeline, Cleaning, Manifest, First
<1>2. Pipeline' /\ Provenance' /\ Written'
  BY DEF Pipeline, Live, Provenance, Written
<1>3. OneAuthority' /\ Covered'
  BY DEF OneAuthority, Pipeline, Provenance, Order, Cleaning, Covered, SlotHeld, CanRun,
         PassSafe, First, Manifest, Live, Terminal
<1>4. PassSafe'
  BY KeyAssumption DEF PassSafe, CanRun, First, Manifest, Covered, SlotHeld, Order, Pipeline,
         Provenance, Live, Cleaning
<1>5. CreateAwaited' /\ LateRecords'
  BY DEF Excused, CreateAwaited, Pipeline, Provenance, Written, OneBoot, Stale, LateRecords,
         Order, Cleaning, Terminal
<1> QED
  BY <1>1, <1>2, <1>3, <1>4, <1>5

LEMMA SendMarkStep == ASSUME ExecutionInv, NEW h \in Handlers, SendMark(h)
                      PROVE  ExecutionInv'
<1> USE ProcTyped, NoOneAssumption DEF ExecutionInv, TypeOK, SendMark, Goto, Return
<1>1. TypeOK' /\ OneBoot' /\ Order'
  BY DEF Live, Terminal, Phases, OneBoot, Order, Pipeline, Cleaning, Manifest, First
<1>2. Pipeline' /\ Provenance' /\ Written'
  BY DEF Pipeline, Live, Provenance, Written
<1>3. OneAuthority' /\ Covered'
  BY DEF OneAuthority, Pipeline, Provenance, Order, Cleaning, Covered, SlotHeld, CanRun,
         PassSafe, First, Manifest, Live, Terminal
<1>4. PassSafe'
  BY KeyAssumption DEF PassSafe, CanRun, First, Manifest, Covered, SlotHeld, Order, Pipeline,
         Provenance, Live, Cleaning
<1>5. CreateAwaited' /\ LateRecords'
  BY DEF Excused, CreateAwaited, Pipeline, Provenance, Written, OneBoot, Stale, LateRecords,
         Order, Cleaning, Terminal
<1> QED
  BY <1>1, <1>2, <1>3, <1>4, <1>5

LEMMA MarkAnswerStep == ASSUME ExecutionInv, NEW h \in Handlers, MarkAnswer(h)
                        PROVE  ExecutionInv'
<1> USE ProcTyped, NoOneAssumption DEF ExecutionInv, TypeOK, MarkAnswer, Goto, Return
<1>1. TypeOK' /\ OneBoot' /\ Order'
  BY DEF Live, Terminal, Phases, OneBoot, Order, Pipeline, Cleaning, Manifest, First
<1>2. Pipeline' /\ Provenance' /\ Written'
  BY DEF Pipeline, Live, Provenance, Written
<1>3. OneAuthority' /\ Covered'
  BY DEF OneAuthority, Pipeline, Provenance, Order, Cleaning, Covered, SlotHeld, CanRun,
         PassSafe, First, Manifest, Live, Terminal
<1>4. PassSafe'
  BY KeyAssumption DEF PassSafe, CanRun, First, Manifest, Covered, SlotHeld, Order, Pipeline,
         Provenance, Live, Cleaning
<1>5. CreateAwaited' /\ LateRecords'
  BY DEF Excused, CreateAwaited, Pipeline, Provenance, Written, OneBoot, Stale, LateRecords,
         Order, Cleaning, Terminal
<1> QED
  BY <1>1, <1>2, <1>3, <1>4, <1>5

LEMMA SendStartStep == ASSUME ExecutionInv, NEW h \in Handlers, SendStart(h)
                       PROVE  ExecutionInv'
<1> USE ProcTyped, NoOneAssumption DEF ExecutionInv, TypeOK, SendStart, Goto, Return
<1>1. TypeOK' /\ OneBoot' /\ Order'
  BY DEF Live, Terminal, Phases, OneBoot, Order, Pipeline, Cleaning, Manifest, First
<1>2. Pipeline' /\ Provenance' /\ Written'
  BY DEF Pipeline, Live, Provenance, Written
<1>3. OneAuthority' /\ Covered'
  BY DEF OneAuthority, Pipeline, Provenance, Order, Cleaning, Covered, SlotHeld, CanRun,
         PassSafe, First, Manifest, Live, Terminal
<1>4. PassSafe'
  BY KeyAssumption DEF PassSafe, CanRun, First, Manifest, Covered, SlotHeld, Order, Pipeline,
         Provenance, Live, Cleaning
<1>5. CreateAwaited' /\ LateRecords'
  BY DEF Excused, CreateAwaited, Pipeline, Provenance, Written, OneBoot, Stale, LateRecords,
         Order, Cleaning, Terminal
<1> QED
  BY <1>1, <1>2, <1>3, <1>4, <1>5

LEMMA FinishStartStep == ASSUME ExecutionInv, NEW h \in Handlers, FinishStart(h)
                         PROVE  ExecutionInv'
<1> USE ProcTyped, NoOneAssumption DEF ExecutionInv, TypeOK, FinishStart, Goto, Return, Settle
<1>1. TypeOK' /\ OneBoot' /\ Order'
  BY DEF Live, Terminal, Phases, OneBoot, Order, Pipeline, Cleaning, Manifest, First
<1>2. Pipeline' /\ Provenance' /\ Written'
  BY DEF Pipeline, Live, Provenance, Written
<1>3. OneAuthority' /\ Covered'
  BY DEF OneAuthority, Pipeline, Provenance, Order, Cleaning, Covered, SlotHeld, CanRun,
         PassSafe, First, Manifest, Live, Terminal
<1>4. PassSafe'
  BY KeyAssumption DEF PassSafe, CanRun, First, Manifest, Covered, SlotHeld, Order, Pipeline,
         Provenance, Live, Cleaning
<1>5. CreateAwaited' /\ LateRecords'
  BY DEF Excused, CreateAwaited, Pipeline, Provenance, Written, OneBoot, Stale, LateRecords,
         Order, Cleaning, Terminal
<1> QED
  BY <1>1, <1>2, <1>3, <1>4, <1>5

LEMMA SendCreateStep == ASSUME ExecutionInv, NEW h \in Handlers, SendCreate(h)
                        PROVE  ExecutionInv'
<1> USE ProcTyped, NoOneAssumption DEF ExecutionInv, TypeOK, SendCreate, Goto, Return,
        ResolverUnch
<1>1. TypeOK' /\ OneBoot' /\ Order'
  BY DEF Live, Terminal, Phases, OneBoot, Order, Pipeline, Cleaning, Manifest, First
<1>2. Pipeline' /\ Provenance' /\ Written'
  BY DEF Pipeline, Live, Provenance, Written
<1>3. OneAuthority' /\ Covered'
  BY DEF OneAuthority, Pipeline, Provenance, Order, Cleaning, Covered, SlotHeld, CanRun,
         PassSafe, First, Manifest, Live, Terminal
<1>4. PassSafe'
  BY KeyAssumption DEF PassSafe, CanRun, First, Manifest, Covered, SlotHeld, Order, Pipeline,
         Provenance, Live, Cleaning
<1>5. CreateAwaited' /\ LateRecords'
  BY DEF Excused, CreateAwaited, Pipeline, Provenance, Written, OneBoot, Stale, LateRecords,
         Order, Cleaning, Terminal
<1> QED
  BY <1>1, <1>2, <1>3, <1>4, <1>5

LEMMA CreateAmbiguousStep == ASSUME ExecutionInv, NEW h \in Handlers, CreateAmbiguous(h)
                             PROVE  ExecutionInv'
<1> USE ProcTyped, NoOneAssumption DEF ExecutionInv, TypeOK, CreateAmbiguous, Goto, Return,
        ResolverUnch
<1>1. TypeOK' /\ OneBoot' /\ Order'
  BY DEF Live, Terminal, Phases, OneBoot, Order, Pipeline, Cleaning, Manifest, First
<1>2. Pipeline' /\ Provenance' /\ Written'
  BY DEF Pipeline, Live, Provenance, Written
<1>3. OneAuthority' /\ Covered'
  BY DEF OneAuthority, Pipeline, Provenance, Order, Cleaning, Covered, SlotHeld, CanRun,
         PassSafe, First, Manifest, Live, Terminal
<1>4. PassSafe'
  BY KeyAssumption DEF PassSafe, CanRun, First, Manifest, Covered, SlotHeld, Order, Pipeline,
         Provenance, Live, Cleaning
<1>5. CreateAwaited' /\ LateRecords'
  BY DEF Excused, CreateAwaited, Pipeline, Provenance, Written, OneBoot, Stale, LateRecords,
         Order, Cleaning, Terminal
<1> QED
  BY <1>1, <1>2, <1>3, <1>4, <1>5

\* The resolver binds the row to the UID of the record, in the open gate only.
LEMMA BindStep == ASSUME ExecutionInv, NEW h \in Handlers, Bind(h)
                  PROVE  ExecutionInv'
<1> USE ProcTyped, NoOneAssumption DEF ExecutionInv, TypeOK, Bind, Goto, Return, ResolverUnch,
        BindRow
<1>1. TypeOK' /\ OneBoot' /\ Order'
  BY DEF Live, Terminal, Phases, OneBoot, Order, Pipeline, Cleaning, Manifest, First
<1>2. Pipeline' /\ Provenance' /\ Written'
  BY DEF Pipeline, Live, Provenance, Written
<1>3. OneAuthority' /\ Covered'
  BY DEF OneAuthority, Pipeline, Provenance, Order, Cleaning, Covered, SlotHeld, CanRun,
         PassSafe, First, Manifest, Live, Terminal
<1>4. PassSafe'
  BY KeyAssumption DEF PassSafe, CanRun, First, Manifest, Covered, SlotHeld, Order, Pipeline,
         Provenance, Live, Cleaning
<1>5. CreateAwaited' /\ LateRecords'
  BY DEF Excused, CreateAwaited, Pipeline, Provenance, Written, OneBoot, Stale, LateRecords,
         Order, Cleaning, Terminal
<1> QED
  BY <1>1, <1>2, <1>3, <1>4, <1>5

\* A definitive rejection ends the reservation of its own handler.
LEMMA RejectCreationStep == ASSUME ExecutionInv, NEW h \in Handlers, RejectCreation(h)
                            PROVE  ExecutionInv'
<1> USE ProcTyped, NoOneAssumption DEF ExecutionInv, TypeOK, RejectCreation, Goto, Return,
        ResolverUnch
<1>1. TypeOK'
  BY DEF Live, Terminal, Phases
<1>2. OneBoot'
  BY DEF OneBoot
<1>3. Order'
  BY DEF Order, Pipeline, Live, Cleaning, Manifest, First
<1>4. Pipeline' /\ Provenance' /\ Written'
  BY DEF Pipeline, Live, Provenance, Written
<1>5. OneAuthority' /\ Covered'
  BY DEF OneAuthority, Pipeline, Provenance, Order, Cleaning, Covered, SlotHeld, CanRun,
         PassSafe, First, Manifest, Live, Terminal
<1>6. PassSafe'
  BY KeyAssumption DEF PassSafe, CanRun, First, Manifest, Covered, SlotHeld, Order, Pipeline,
         Provenance, Live, Cleaning
<1>7. CreateAwaited' /\ LateRecords'
  BY DEF Excused, CreateAwaited, Pipeline, Provenance, Written, OneBoot, Stale, LateRecords,
         Order, Cleaning, Terminal
<1> QED
  BY <1>1, <1>2, <1>3, <1>4, <1>5, <1>6, <1>7

\* A CREATE that lands, perhaps after the release: it makes no record that could run.
LEMMA LandCreateStep == ASSUME ExecutionInv, NEW h \in Handlers, LandCreate(h)
                        PROVE  ExecutionInv'
<1> USE ProcTyped, NoOneAssumption DEF ExecutionInv, TypeOK, LandCreate, Goto, Return,
        ResolverUnch
<1>1. TypeOK'
  BY DEF Live, Terminal, Phases
<1>2. OneBoot'
  BY DEF OneBoot
<1>3. Order'
  BY DEF Order, Pipeline, Live, Cleaning, Manifest, First
<1>4. Pipeline' /\ Provenance' /\ Written'
  BY DEF Pipeline, Live, Provenance, Written
<1>5. OneAuthority' /\ Covered'
  BY DEF OneAuthority, Pipeline, Provenance, Order, Cleaning, Covered, SlotHeld, CanRun,
         PassSafe, First, Manifest, Live, Terminal
<1>6. PassSafe'
  BY KeyAssumption DEF PassSafe, CanRun, First, Manifest, Covered, SlotHeld, Order, Pipeline,
         Provenance, Live, Cleaning
<1>7. CreateAwaited' /\ LateRecords'
  BY DEF Excused, CreateAwaited, Pipeline, Provenance, Written, OneBoot, Stale, LateRecords,
         Order, Cleaning, Terminal
<1> QED
  BY <1>1, <1>2, <1>3, <1>4, <1>5, <1>6, <1>7

LEMMA LoseCreateStep == ASSUME ExecutionInv, NEW h \in Handlers, LoseCreate(h)
                        PROVE  ExecutionInv'
<1> USE ProcTyped, NoOneAssumption DEF ExecutionInv, TypeOK, LoseCreate, Goto, Return,
        ResolverUnch
<1>1. TypeOK' /\ OneBoot' /\ Order'
  BY DEF Live, Terminal, Phases, OneBoot, Order, Pipeline, Cleaning, Manifest, First
<1>2. Pipeline' /\ Provenance' /\ Written'
  BY DEF Pipeline, Live, Provenance, Written
<1>3. OneAuthority' /\ Covered'
  BY DEF OneAuthority, Pipeline, Provenance, Order, Cleaning, Covered, SlotHeld, CanRun,
         PassSafe, First, Manifest, Live, Terminal
<1>4. PassSafe'
  BY KeyAssumption DEF PassSafe, CanRun, First, Manifest, Covered, SlotHeld, Order, Pipeline,
         Provenance, Live, Cleaning
<1>5. CreateAwaited' /\ LateRecords'
  BY DEF Excused, CreateAwaited, Pipeline, Provenance, Written, OneBoot, Stale, LateRecords,
         Order, Cleaning, Terminal
<1> QED
  BY <1>1, <1>2, <1>3, <1>4, <1>5

\* The Running checkpoint: from here on the slot must be held.
LEMMA CommitMarkStep == ASSUME ExecutionInv, NEW h \in Handlers, CommitMark(h)
                        PROVE  ExecutionInv'
<1> USE ProcTyped, NoOneAssumption DEF ExecutionInv, TypeOK, CommitMark, Goto, Return
<1>1. TypeOK' /\ OneBoot' /\ Order'
  BY DEF Live, Terminal, Phases, OneBoot, Order, Pipeline, Cleaning, Manifest, First
<1>2. Pipeline' /\ Provenance' /\ Written'
  BY DEF Pipeline, Live, Provenance, Written
<1>3. OneAuthority' /\ Covered'
  BY DEF OneAuthority, Pipeline, Provenance, Order, Cleaning, Covered, SlotHeld, CanRun,
         PassSafe, First, Manifest, Live, Terminal
<1>4. PassSafe'
  BY KeyAssumption DEF PassSafe, CanRun, First, Manifest, Covered, SlotHeld, Order, Pipeline,
         Provenance, Live, Cleaning
<1>5. CreateAwaited' /\ LateRecords'
  BY DEF Excused, CreateAwaited, Pipeline, Provenance, Written, OneBoot, Stale, LateRecords,
         Order, Cleaning, Terminal
<1> QED
  BY <1>1, <1>2, <1>3, <1>4, <1>5

LEMMA LandStartStep == ASSUME ExecutionInv, NEW h \in Handlers, LandStart(h)
                       PROVE  ExecutionInv'
<1> USE ProcTyped, NoOneAssumption DEF ExecutionInv, TypeOK, LandStart, Goto, Return
<1>1. TypeOK' /\ OneBoot' /\ Order'
  BY DEF Live, Terminal, Phases, OneBoot, Order, Pipeline, Cleaning, Manifest, First
<1>2. Pipeline' /\ Provenance' /\ Written'
  BY DEF Pipeline, Live, Provenance, Written
<1>3. OneAuthority' /\ Covered'
  BY DEF OneAuthority, Pipeline, Provenance, Order, Cleaning, Covered, SlotHeld, CanRun,
         PassSafe, First, Manifest, Live, Terminal
<1>4. PassSafe'
  BY KeyAssumption DEF PassSafe, CanRun, First, Manifest, Covered, SlotHeld, Order, Pipeline,
         Provenance, Live, Cleaning
<1>5. CreateAwaited' /\ LateRecords'
  BY DEF Excused, CreateAwaited, Pipeline, Provenance, Written, OneBoot, Stale, LateRecords,
         Order, Cleaning, Terminal
<1> QED
  BY <1>1, <1>2, <1>3, <1>4, <1>5

LEMMA RetireEntryStep == ASSUME ExecutionInv, NEW h \in Handlers, RetireEntry(h)
                         PROVE  ExecutionInv'
<1> USE ProcTyped, NoOneAssumption DEF ExecutionInv, TypeOK, RetireEntry, Goto, Return
<1>1. TypeOK' /\ OneBoot' /\ Order'
  BY DEF Live, Terminal, Phases, OneBoot, Order, Pipeline, Cleaning, Manifest, First
<1>2. Pipeline' /\ Provenance' /\ Written'
  BY DEF Pipeline, Live, Provenance, Written
<1>3. OneAuthority' /\ Covered'
  BY DEF OneAuthority, Pipeline, Provenance, Order, Cleaning, Covered, SlotHeld, CanRun,
         PassSafe, First, Manifest, Live, Terminal
<1>4. PassSafe'
  BY KeyAssumption DEF PassSafe, CanRun, First, Manifest, Covered, SlotHeld, Order, Pipeline,
         Provenance, Live, Cleaning
<1>5. CreateAwaited' /\ LateRecords'
  BY DEF Excused, CreateAwaited, Pipeline, Provenance, Written, OneBoot, Stale, LateRecords,
         Order, Cleaning, Terminal
<1> QED
  BY <1>1, <1>2, <1>3, <1>4, <1>5

LEMMA ExitStep == ASSUME ExecutionInv, NEW h \in Handlers, Exit(h)
                  PROVE  ExecutionInv'
<1> USE ProcTyped, NoOneAssumption DEF ExecutionInv, TypeOK, Exit, Goto, Return
<1>1. TypeOK' /\ OneBoot' /\ Order'
  BY DEF Live, Terminal, Phases, OneBoot, Order, Pipeline, Cleaning, Manifest, First
<1>2. Pipeline' /\ Provenance' /\ Written'
  BY DEF Pipeline, Live, Provenance, Written
<1>3. OneAuthority' /\ Covered'
  BY DEF OneAuthority, Pipeline, Provenance, Order, Cleaning, Covered, SlotHeld, CanRun,
         PassSafe, First, Manifest, Live, Terminal
<1>4. PassSafe'
  BY KeyAssumption DEF PassSafe, CanRun, First, Manifest, Covered, SlotHeld, Order, Pipeline,
         Provenance, Live, Cleaning
<1>5. CreateAwaited' /\ LateRecords'
  BY DEF Excused, CreateAwaited, Pipeline, Provenance, Written, OneBoot, Stale, LateRecords,
         Order, Cleaning, Terminal
<1> QED
  BY <1>1, <1>2, <1>3, <1>4, <1>5

-----------------------------------------------------------------------------
(* Reports, the reaper and the rows and records under cleanup. *)

LEMMA RecordOutcomeStep == ASSUME ExecutionInv, NEW k \in Keys, RecordOutcome(k)
                           PROVE  ExecutionInv'
<1> USE ProcTyped, NoOneAssumption DEF ExecutionInv, TypeOK, RecordOutcome, Settle
<1>1. TypeOK' /\ OneBoot' /\ Order'
  BY DEF Live, Terminal, Phases, OneBoot, Order, Pipeline, Cleaning, Manifest, First
<1>2. Pipeline' /\ Provenance' /\ Written'
  BY DEF Pipeline, Live, Provenance, Written
<1>3. OneAuthority' /\ Covered'
  BY DEF OneAuthority, Pipeline, Provenance, Order, Cleaning, Covered, SlotHeld, CanRun,
         PassSafe, First, Manifest, Live, Terminal
<1>4. PassSafe'
  BY KeyAssumption DEF PassSafe, CanRun, First, Manifest, Covered, SlotHeld, Order, Pipeline,
         Provenance, Live, Cleaning
<1>5. CreateAwaited' /\ LateRecords'
  BY DEF Excused, CreateAwaited, Pipeline, Provenance, Written, OneBoot, Stale, LateRecords,
         Order, Cleaning, Terminal
<1> QED
  BY <1>1, <1>2, <1>3, <1>4, <1>5

LEMMA ReapQueuedStep == ASSUME ExecutionInv, NEW k \in Keys, ReapQueued(k)
                        PROVE  ExecutionInv'
<1> USE ProcTyped, NoOneAssumption DEF ExecutionInv, TypeOK, ReapQueued, ReaperUnch, AnyUp
<1>1. TypeOK' /\ OneBoot' /\ Order'
  BY DEF Live, Terminal, Phases, OneBoot, Order, Pipeline, Cleaning, Manifest, First
<1>2. Pipeline' /\ Provenance' /\ Written'
  BY DEF Pipeline, Live, Provenance, Written
<1>3. OneAuthority' /\ Covered'
  BY DEF OneAuthority, Pipeline, Provenance, Order, Cleaning, Covered, SlotHeld, CanRun,
         PassSafe, First, Manifest, Live, Terminal
<1>4. PassSafe'
  BY KeyAssumption DEF PassSafe, CanRun, First, Manifest, Covered, SlotHeld, Order, Pipeline,
         Provenance, Live, Cleaning
<1>5. CreateAwaited' /\ LateRecords'
  BY DEF Excused, CreateAwaited, Pipeline, Provenance, Written, OneBoot, Stale, LateRecords,
         Order, Cleaning, Terminal
<1> QED
  BY <1>1, <1>2, <1>3, <1>4, <1>5

LEMMA ReapCompleteStep == ASSUME ExecutionInv, NEW k \in Keys, ReapComplete(k)
                          PROVE  ExecutionInv'
<1> USE ProcTyped, NoOneAssumption DEF ExecutionInv, TypeOK, ReapComplete, ReaperUnch, AnyUp
<1>1. TypeOK' /\ OneBoot' /\ Order'
  BY DEF Live, Terminal, Phases, OneBoot, Order, Pipeline, Cleaning, Manifest, First
<1>2. Pipeline' /\ Provenance' /\ Written'
  BY DEF Pipeline, Live, Provenance, Written
<1>3. OneAuthority' /\ Covered'
  BY DEF OneAuthority, Pipeline, Provenance, Order, Cleaning, Covered, SlotHeld, CanRun,
         PassSafe, First, Manifest, Live, Terminal
<1>4. PassSafe'
  BY KeyAssumption DEF PassSafe, CanRun, First, Manifest, Covered, SlotHeld, Order, Pipeline,
         Provenance, Live, Cleaning
<1>5. CreateAwaited' /\ LateRecords'
  BY DEF Excused, CreateAwaited, Pipeline, Provenance, Written, OneBoot, Stale, LateRecords,
         Order, Cleaning, Terminal
<1> QED
  BY <1>1, <1>2, <1>3, <1>4, <1>5

LEMMA ReapUnboundStep == ASSUME ExecutionInv, NEW k \in Keys, ReapUnbound(k)
                         PROVE  ExecutionInv'
<1> USE ProcTyped, NoOneAssumption DEF ExecutionInv, TypeOK, ReapUnbound, Settle, ReaperUnch,
        AnyUp, AdoptInactive
<1>1. TypeOK' /\ OneBoot' /\ Order'
  BY DEF Live, Terminal, Phases, OneBoot, Order, Pipeline, Cleaning, Manifest, First
<1>2. Pipeline' /\ Provenance' /\ Written'
  BY DEF Pipeline, Live, Provenance, Written
<1>3. OneAuthority' /\ Covered'
  BY DEF OneAuthority, Pipeline, Provenance, Order, Cleaning, Covered, SlotHeld, CanRun,
         PassSafe, First, Manifest, Live, Terminal
<1>4. PassSafe'
  BY KeyAssumption DEF PassSafe, CanRun, First, Manifest, Covered, SlotHeld, Order, Pipeline,
         Provenance, Live, Cleaning
<1>5. CreateAwaited' /\ LateRecords'
  BY DEF Excused, CreateAwaited, Pipeline, Provenance, Written, OneBoot, Stale, LateRecords,
         Order, Cleaning, Terminal
<1> QED
  BY <1>1, <1>2, <1>3, <1>4, <1>5

\* Cleanup forgets a row only when no CREATE is awaited behind it.
LEMMA RetireRowStep == ASSUME ExecutionInv, NEW k \in Keys, RetireRow(k)
                       PROVE  ExecutionInv'
<1> USE ProcTyped, NoOneAssumption DEF ExecutionInv, TypeOK, RetireRow, PassUnch, Cleaning,
        Scans, First, Manifest, Matched, Contradiction
<1>1. TypeOK' /\ OneBoot' /\ Order'
  BY DEF Live, Terminal, Phases, OneBoot, Order, Pipeline
<1>2. Pipeline' /\ Provenance' /\ Written'
  BY DEF Pipeline, Live, Provenance, Written
<1>3. OneAuthority' /\ Covered'
  BY DEF OneAuthority, Pipeline, Provenance, Order, Covered, SlotHeld, CanRun, PassSafe, Live,
         Terminal
<1>4. PassSafe'
  BY KeyAssumption DEF PassSafe, CanRun, Covered, SlotHeld, Order, Pipeline, Provenance, Live
<1>5. CreateAwaited' /\ LateRecords'
  BY DEF Excused, CreateAwaited, Pipeline, Provenance, Written, OneBoot, Stale, LateRecords,
         Order, Terminal
<1> QED
  BY <1>1, <1>2, <1>3, <1>4, <1>5

LEMMA AdoptRecordStep == ASSUME ExecutionInv, NEW k \in Keys, AdoptRecord(k)
                         PROVE  ExecutionInv'
<1> USE ProcTyped, NoOneAssumption DEF ExecutionInv, TypeOK, AdoptRecord, AdoptInactive,
        PassUnch, Cleaning, Scans, First, Manifest, Matched, Contradiction
<1>1. TypeOK' /\ OneBoot' /\ Order'
  BY DEF Live, Terminal, Phases, OneBoot, Order, Pipeline
<1>2. Pipeline' /\ Provenance' /\ Written'
  BY DEF Pipeline, Live, Provenance, Written
<1>3. OneAuthority' /\ Covered'
  BY DEF OneAuthority, Pipeline, Provenance, Order, Covered, SlotHeld, CanRun, PassSafe, Live,
         Terminal
<1>4. PassSafe'
  BY KeyAssumption DEF PassSafe, CanRun, Covered, SlotHeld, Order, Pipeline, Provenance, Live
<1>5. CreateAwaited' /\ LateRecords'
  BY DEF Excused, CreateAwaited, Pipeline, Provenance, Written, OneBoot, Stale, LateRecords,
         Order, Terminal
<1> QED
  BY <1>1, <1>2, <1>3, <1>4, <1>5

LEMMA MismatchStep == ASSUME ExecutionInv, NEW k \in Keys, Mismatch(k)
                      PROVE  ExecutionInv'
<1> USE ProcTyped, NoOneAssumption DEF ExecutionInv, TypeOK, Mismatch, PassUnch, Cleaning,
        Scans, First, Manifest, Matched, Contradiction
<1>1. TypeOK' /\ OneBoot' /\ Order'
  BY DEF Live, Terminal, Phases, OneBoot, Order, Pipeline
<1>2. Pipeline' /\ Provenance' /\ Written'
  BY DEF Pipeline, Live, Provenance, Written
<1>3. OneAuthority' /\ Covered'
  BY DEF OneAuthority, Pipeline, Provenance, Order, Covered, SlotHeld, CanRun, PassSafe, Live,
         Terminal
<1>4. PassSafe'
  BY KeyAssumption DEF PassSafe, CanRun, Covered, SlotHeld, Order, Pipeline, Provenance, Live
<1>5. CreateAwaited' /\ LateRecords'
  BY DEF Excused, CreateAwaited, Pipeline, Provenance, Written, OneBoot, Stale, LateRecords,
         Order, Terminal
<1> QED
  BY <1>1, <1>2, <1>3, <1>4, <1>5

\* The pass has read a record that never started, or the target is gone.
LEMMA ReadRecordStep == ASSUME ExecutionInv, NEW k \in Keys, ReadRecord(k)
                        PROVE  ExecutionInv'
<1> USE ProcTyped, NoOneAssumption DEF ExecutionInv, TypeOK, ReadRecord, PassUnch, Cleaning,
        Scans, First, Manifest, Matched, Contradiction
<1>1. TypeOK' /\ OneBoot' /\ Order'
  BY DEF Live, Terminal, Phases, OneBoot, Order, Pipeline
<1>2. Pipeline' /\ Provenance' /\ Written'
  BY DEF Pipeline, Live, Provenance, Written
<1>3. OneAuthority' /\ Covered'
  BY DEF OneAuthority, Pipeline, Provenance, Order, Covered, SlotHeld, CanRun, PassSafe, Live,
         Terminal
<1>4. PassSafe'
  BY KeyAssumption DEF PassSafe, CanRun, Covered, SlotHeld, Order, Pipeline, Provenance, Live
<1>5. CreateAwaited' /\ LateRecords'
  BY DEF Excused, CreateAwaited, Pipeline, Provenance, Written, OneBoot, Stale, LateRecords,
         Order, Terminal
<1> QED
  BY <1>1, <1>2, <1>3, <1>4, <1>5

LEMMA AwaitTargetDestructionStep == ASSUME ExecutionInv, NEW k \in Keys, AwaitTargetDestruction(k)
                                    PROVE  ExecutionInv'
<1> USE ProcTyped, NoOneAssumption DEF ExecutionInv, TypeOK, AwaitTargetDestruction, Settle,
        PassUnch, Cleaning, Scans, First, Manifest, Matched, Contradiction
<1>1. TypeOK' /\ OneBoot' /\ Order'
  BY DEF Live, Terminal, Phases, OneBoot, Order, Pipeline
<1>2. Pipeline' /\ Provenance' /\ Written'
  BY DEF Pipeline, Live, Provenance, Written
<1>3. OneAuthority' /\ Covered'
  BY DEF OneAuthority, Pipeline, Provenance, Order, Covered, SlotHeld, CanRun, PassSafe, Live,
         Terminal
<1>4. PassSafe'
  BY KeyAssumption DEF PassSafe, CanRun, Covered, SlotHeld, Order, Pipeline, Provenance, Live
<1>5. CreateAwaited' /\ LateRecords'
  BY DEF Excused, CreateAwaited, Pipeline, Provenance, Written, OneBoot, Stale, LateRecords,
         Order, Terminal
<1> QED
  BY <1>1, <1>2, <1>3, <1>4, <1>5

LEMMA CancelRecordStep == ASSUME ExecutionInv, NEW k \in Keys, CancelRecord(k)
                          PROVE  ExecutionInv'
<1> USE ProcTyped, NoOneAssumption DEF ExecutionInv, TypeOK, CancelRecord, Settle, PassUnch,
        Cleaning, Scans, First, Manifest, Matched, Contradiction
<1>1. TypeOK' /\ OneBoot' /\ Order'
  BY DEF Live, Terminal, Phases, OneBoot, Order, Pipeline
<1>2. Pipeline' /\ Provenance' /\ Written'
  BY DEF Pipeline, Live, Provenance, Written
<1>3. OneAuthority' /\ Covered'
  BY DEF OneAuthority, Pipeline, Provenance, Order, Covered, SlotHeld, CanRun, PassSafe, Live,
         Terminal
<1>4. PassSafe'
  BY KeyAssumption DEF PassSafe, CanRun, Covered, SlotHeld, Order, Pipeline, Provenance, Live
<1>5. CreateAwaited' /\ LateRecords'
  BY DEF Excused, CreateAwaited, Pipeline, Provenance, Written, OneBoot, Stale, LateRecords,
         Order, Terminal
<1> QED
  BY <1>1, <1>2, <1>3, <1>4, <1>5

\* A slot is freed, of a key nothing runs for.
LEMMA CompleteCapacityStep == ASSUME ExecutionInv, NEW k \in Keys, CompleteCapacity(k)
                              PROVE  ExecutionInv'
<1> USE ProcTyped, NoOneAssumption DEF ExecutionInv, TypeOK, CompleteCapacity, PassUnch,
        Cleaning, Scans, First, Manifest, Matched, Contradiction
<1>1. TypeOK' /\ OneBoot' /\ Order'
  BY DEF Live, Terminal, Phases, OneBoot, Order, Pipeline
<1>2. Pipeline' /\ Provenance' /\ Written'
  BY DEF Pipeline, Live, Provenance, Written
<1>3. OneAuthority' /\ Covered'
  BY DEF OneAuthority, Pipeline, Provenance, Order, Covered, SlotHeld, CanRun, PassSafe, Live,
         Terminal
<1>4. PassSafe'
  BY KeyAssumption DEF PassSafe, CanRun, Covered, SlotHeld, Order, Pipeline, Provenance, Live
<1>5. CreateAwaited' /\ LateRecords'
  BY DEF Excused, CreateAwaited, Pipeline, Provenance, Written, OneBoot, Stale, LateRecords,
         Order, Terminal
<1> QED
  BY <1>1, <1>2, <1>3, <1>4, <1>5

\* A record is removed, of a key nothing runs for.
LEMMA RemoveRecordStep == ASSUME ExecutionInv, NEW k \in Keys, RemoveRecord(k)
                          PROVE  ExecutionInv'
<1> USE ProcTyped, NoOneAssumption DEF ExecutionInv, TypeOK, RemoveRecord, PassUnch, Cleaning,
        Scans, First, Manifest, Matched, Contradiction
<1>1. TypeOK' /\ OneBoot' /\ Order'
  BY DEF Live, Terminal, Phases, OneBoot, Order, Pipeline
<1>2. Pipeline' /\ Provenance' /\ Written'
  BY DEF Pipeline, Live, Provenance, Written
<1>3. OneAuthority' /\ Covered'
  BY DEF OneAuthority, Pipeline, Provenance, Order, Covered, SlotHeld, CanRun, PassSafe, Live,
         Terminal
<1>4. PassSafe'
  BY KeyAssumption DEF PassSafe, CanRun, Covered, SlotHeld, Order, Pipeline, Provenance, Live
<1>5. CreateAwaited' /\ LateRecords'
  BY DEF Excused, CreateAwaited, Pipeline, Provenance, Written, OneBoot, Stale, LateRecords,
         Order, Terminal
<1> QED
  BY <1>1, <1>2, <1>3, <1>4, <1>5

\* The reaper gives up a row only when the process that wrote it is dead.
LEMMA ReapOrphanStep == ASSUME ExecutionInv, NEW k \in Keys, NEW p \in Procs, ReapOrphan(k, p)
                        PROVE  ExecutionInv'
<1> USE ProcTyped, NoOneAssumption DEF ExecutionInv, TypeOK, ReapOrphan, ReaperUnch, AnyUp,
        Stale
<1>1. TypeOK' /\ OneBoot' /\ Order'
  BY DEF Live, Terminal, Phases, OneBoot, Order, Pipeline, Cleaning, Manifest, First
<1>2. Pipeline' /\ Provenance' /\ Written'
  BY DEF Pipeline, Live, Provenance, Written
<1>3. OneAuthority' /\ Covered'
  BY DEF OneAuthority, Pipeline, Provenance, Order, Cleaning, Covered, SlotHeld, CanRun,
         PassSafe, First, Manifest, Live, Terminal
<1>4. PassSafe'
  BY KeyAssumption DEF PassSafe, CanRun, First, Manifest, Covered, SlotHeld, Order, Pipeline,
         Provenance, Live, Cleaning
<1>5. CreateAwaited' /\ LateRecords'
  BY DEF Excused, CreateAwaited, Pipeline, Provenance, Written, OneBoot, LateRecords, Order,
         Cleaning, Terminal
<1> QED
  BY <1>1, <1>2, <1>3, <1>4, <1>5

-----------------------------------------------------------------------------
(* Processes, the release, and its steps. *)

LEMMA StartProcessStep == ASSUME ExecutionInv, NEW p \in Procs, StartProcess(p)
                          PROVE  ExecutionInv'
<1> USE ProcTyped, NoOneAssumption DEF ExecutionInv, TypeOK, StartProcess
<1>1. TypeOK' /\ OneBoot' /\ Order'
  BY DEF Live, Terminal, Phases, OneBoot, Order, Pipeline, Cleaning, Manifest, First
<1>2. Pipeline' /\ Provenance' /\ Written'
  BY DEF Pipeline, Live, Provenance, Written
<1>3. OneAuthority' /\ Covered'
  BY DEF OneAuthority, Pipeline, Provenance, Order, Cleaning, Covered, SlotHeld, CanRun,
         PassSafe, First, Manifest, Live, Terminal
<1>4. PassSafe'
  BY KeyAssumption DEF PassSafe, CanRun, First, Manifest, Covered, SlotHeld, Order, Pipeline,
         Provenance, Live, Cleaning
<1>5. CreateAwaited' /\ LateRecords'
  BY DEF Excused, CreateAwaited, Pipeline, Provenance, Written, OneBoot, Stale, LateRecords,
         Order, Cleaning, Terminal
<1> QED
  BY <1>1, <1>2, <1>3, <1>4, <1>5

\* A process dies with its handlers and resolvers; what they sent stays.
LEMMA CrashStep == ASSUME ExecutionInv, NEW p \in Procs, Crash(p)
                   PROVE  ExecutionInv'
<1> USE ProcTyped, NoOneAssumption DEF ExecutionInv, TypeOK, Crash
<1>1. TypeOK' /\ OneBoot' /\ Order'
  BY DEF Live, Terminal, Phases, OneBoot, Order, Pipeline, Cleaning, Manifest, First
<1>2. Pipeline' /\ Provenance' /\ Written'
  BY DEF Pipeline, Live, Provenance, Written
<1>3. OneAuthority' /\ Covered'
  BY DEF OneAuthority, Pipeline, Provenance, Order, Cleaning, Covered, SlotHeld, CanRun,
         PassSafe, First, Manifest, Live, Terminal
<1>4. PassSafe'
  BY KeyAssumption DEF PassSafe, CanRun, First, Manifest, Covered, SlotHeld, Order, Pipeline,
         Provenance, Live, Cleaning
<1>5. CreateAwaited' /\ LateRecords'
  BY DEF Excused, CreateAwaited, Pipeline, Provenance, Written, OneBoot, Stale, LateRecords,
         Order, Cleaning, Terminal
<1> QED
  BY <1>1, <1>2, <1>3, <1>4, <1>5

LEMMA EndLeaseStep == ASSUME ExecutionInv, EndLease
                      PROVE  ExecutionInv'
<1> USE ProcTyped, NoOneAssumption DEF ExecutionInv, TypeOK, EndLease
<1>1. TypeOK' /\ OneBoot' /\ Order'
  BY DEF Live, Terminal, Phases, OneBoot, Order, Pipeline, Cleaning, Manifest, First
<1>2. Pipeline' /\ Provenance' /\ Written'
  BY DEF Pipeline, Live, Provenance, Written
<1>3. OneAuthority' /\ Covered'
  BY DEF OneAuthority, Pipeline, Provenance, Order, Cleaning, Covered, SlotHeld, CanRun,
         PassSafe, First, Manifest, Live, Terminal
<1>4. PassSafe'
  BY KeyAssumption DEF PassSafe, CanRun, First, Manifest, Covered, SlotHeld, Order, Pipeline,
         Provenance, Live, Cleaning
<1>5. CreateAwaited' /\ LateRecords'
  BY DEF Excused, CreateAwaited, Pipeline, Provenance, Written, OneBoot, Stale, LateRecords,
         Order, Cleaning, Terminal
<1> QED
  BY <1>1, <1>2, <1>3, <1>4, <1>5

LEMMA CloseGateStep == ASSUME ExecutionInv, CloseGate
                       PROVE  ExecutionInv'
<1> USE ProcTyped, NoOneAssumption DEF ExecutionInv, TypeOK, CloseGate
<1>1. TypeOK' /\ OneBoot' /\ Order'
  BY DEF Live, Terminal, Phases, OneBoot, Order, Pipeline, Cleaning, Manifest, First
<1>2. Pipeline' /\ Provenance' /\ Written'
  BY DEF Pipeline, Live, Provenance, Written
<1>3. OneAuthority' /\ Covered'
  BY DEF OneAuthority, Pipeline, Provenance, Order, Cleaning, Covered, SlotHeld, CanRun,
         PassSafe, First, Manifest, Live, Terminal
<1>4. PassSafe'
  BY KeyAssumption DEF PassSafe, CanRun, First, Manifest, Covered, SlotHeld, Order, Pipeline,
         Provenance, Live, Cleaning
<1>5. CreateAwaited' /\ LateRecords'
  BY DEF Excused, CreateAwaited, Pipeline, Provenance, Written, OneBoot, Stale, LateRecords,
         Order, Cleaning, Terminal
<1> QED
  BY <1>1, <1>2, <1>3, <1>4, <1>5

LEMMA DrainedStep == ASSUME ExecutionInv, Drained
                     PROVE  ExecutionInv'
<1> USE ProcTyped, NoOneAssumption DEF ExecutionInv, TypeOK, Drained, PassUnch, Cleaning, Scans,
        First, Manifest, Matched, Contradiction
<1>1. TypeOK' /\ OneBoot' /\ Order'
  BY DEF Live, Terminal, Phases, OneBoot, Order, Pipeline
<1>2. Pipeline' /\ Provenance' /\ Written'
  BY DEF Pipeline, Live, Provenance, Written
<1>3. OneAuthority' /\ Covered'
  BY DEF OneAuthority, Pipeline, Provenance, Order, Covered, SlotHeld, CanRun, PassSafe, Live,
         Terminal
<1>4. PassSafe'
  BY KeyAssumption DEF PassSafe, CanRun, Covered, SlotHeld, Order, Pipeline, Provenance, Live
<1>5. CreateAwaited' /\ LateRecords'
  BY DEF Excused, CreateAwaited, Pipeline, Provenance, Written, OneBoot, Stale, LateRecords,
         Order, Terminal
<1> QED
  BY <1>1, <1>2, <1>3, <1>4, <1>5

\* The manifest is empty.
LEMMA FinishCleanupStep == ASSUME ExecutionInv, FinishCleanup
                           PROVE  ExecutionInv'
<1> USE ProcTyped, NoOneAssumption DEF ExecutionInv, TypeOK, FinishCleanup, PassUnch, Cleaning,
        Scans, First, Manifest, Matched, Contradiction
<1>1. TypeOK' /\ OneBoot' /\ Order'
  BY DEF Live, Terminal, Phases, OneBoot, Order, Pipeline
<1>2. Pipeline' /\ Provenance' /\ Written'
  BY DEF Pipeline, Live, Provenance, Written
<1>3. OneAuthority' /\ Covered'
  BY DEF OneAuthority, Pipeline, Provenance, Order, Covered, SlotHeld, CanRun, PassSafe, Live,
         Terminal
<1>4. PassSafe'
  BY KeyAssumption DEF PassSafe, CanRun, Covered, SlotHeld, Order, Pipeline, Provenance, Live
<1>5. CreateAwaited' /\ LateRecords'
  BY DEF Excused, CreateAwaited, Pipeline, Provenance, Written, OneBoot, Stale, LateRecords,
         Order, Terminal
<1> QED
  BY <1>1, <1>2, <1>3, <1>4, <1>5

\* The target goes, and everything in it.
LEMMA DestroyTargetStep == ASSUME ExecutionInv, DestroyTarget
                           PROVE  ExecutionInv'
<1> USE ProcTyped, NoOneAssumption DEF ExecutionInv, TypeOK, DestroyTarget
<1>1. TypeOK' /\ OneBoot' /\ Order'
  BY DEF Live, Terminal, Phases, OneBoot, Order, Pipeline, Cleaning, Manifest, First
<1>2. Pipeline' /\ Provenance' /\ Written'
  BY DEF Pipeline, Live, Provenance, Written
<1>3. OneAuthority' /\ Covered'
  BY DEF OneAuthority, Pipeline, Provenance, Order, Cleaning, Covered, SlotHeld, CanRun,
         PassSafe, First, Manifest, Live, Terminal
<1>4. PassSafe'
  BY KeyAssumption DEF PassSafe, CanRun, First, Manifest, Covered, SlotHeld, Order, Pipeline,
         Provenance, Live, Cleaning
<1>5. CreateAwaited' /\ LateRecords'
  BY DEF Excused, CreateAwaited, Pipeline, Provenance, Written, OneBoot, Stale, LateRecords,
         Order, Cleaning, Terminal
<1> QED
  BY <1>1, <1>2, <1>3, <1>4, <1>5

LEMMA ProveAbsenceStep == ASSUME ExecutionInv, ProveAbsence
                          PROVE  ExecutionInv'
<1> USE ProcTyped, NoOneAssumption DEF ExecutionInv, TypeOK, ProveAbsence, PassUnch, Cleaning,
        Scans, First, Manifest, Matched, Contradiction
<1>1. TypeOK' /\ OneBoot' /\ Order'
  BY DEF Live, Terminal, Phases, OneBoot, Order, Pipeline
<1>2. Pipeline' /\ Provenance' /\ Written'
  BY DEF Pipeline, Live, Provenance, Written
<1>3. OneAuthority' /\ Covered'
  BY DEF OneAuthority, Pipeline, Provenance, Order, Covered, SlotHeld, CanRun, PassSafe, Live,
         Terminal
<1>4. PassSafe'
  BY KeyAssumption DEF PassSafe, CanRun, Covered, SlotHeld, Order, Pipeline, Provenance, Live
<1>5. CreateAwaited' /\ LateRecords'
  BY DEF Excused, CreateAwaited, Pipeline, Provenance, Written, OneBoot, Stale, LateRecords,
         Order, Terminal
<1> QED
  BY <1>1, <1>2, <1>3, <1>4, <1>5

LEMMA AbandonPassStep == ASSUME ExecutionInv, AbandonPass
                         PROVE  ExecutionInv'
<1> USE ProcTyped, NoOneAssumption DEF ExecutionInv, TypeOK, AbandonPass, PassUnch, Cleaning,
        Scans, First, Manifest, Matched, Contradiction
<1>1. TypeOK' /\ OneBoot' /\ Order'
  BY DEF Live, Terminal, Phases, OneBoot, Order, Pipeline
<1>2. Pipeline' /\ Provenance' /\ Written'
  BY DEF Pipeline, Live, Provenance, Written
<1>3. OneAuthority' /\ Covered'
  BY DEF OneAuthority, Pipeline, Provenance, Order, Covered, SlotHeld, CanRun, PassSafe, Live,
         Terminal
<1>4. PassSafe'
  BY KeyAssumption DEF PassSafe, CanRun, Covered, SlotHeld, Order, Pipeline, Provenance, Live
<1>5. CreateAwaited' /\ LateRecords'
  BY DEF Excused, CreateAwaited, Pipeline, Provenance, Written, OneBoot, Stale, LateRecords,
         Order, Terminal
<1> QED
  BY <1>1, <1>2, <1>3, <1>4, <1>5

LEMMA RequeueStep == ASSUME ExecutionInv, Requeue
                     PROVE  ExecutionInv'
<1> USE ProcTyped, NoOneAssumption DEF ExecutionInv, TypeOK, Requeue, PassUnch, Cleaning, Scans,
        First, Manifest, Matched, Contradiction
<1>1. TypeOK' /\ OneBoot' /\ Order'
  BY DEF Live, Terminal, Phases, OneBoot, Order, Pipeline
<1>2. Pipeline' /\ Provenance' /\ Written'
  BY DEF Pipeline, Live, Provenance, Written
<1>3. OneAuthority' /\ Covered'
  BY DEF OneAuthority, Pipeline, Provenance, Order, Covered, SlotHeld, CanRun, PassSafe, Live,
         Terminal
<1>4. PassSafe'
  BY KeyAssumption DEF PassSafe, CanRun, Covered, SlotHeld, Order, Pipeline, Provenance, Live
<1>5. CreateAwaited' /\ LateRecords'
  BY DEF Excused, CreateAwaited, Pipeline, Provenance, Written, OneBoot, Stale, LateRecords,
         Order, Terminal
<1> QED
  BY <1>1, <1>2, <1>3, <1>4, <1>5

-----------------------------------------------------------------------------
\* No step of the specification breaks the invariant.
LEMMA NextInv == ASSUME ExecutionInv, [Next]_vars PROVE ExecutionInv'
<1>1. ASSUME NEW h \in Handlers, HandlerStep(h) PROVE ExecutionInv'
  BY <1>1, RegisterStep, ReserveStep, AnswerStep, GiveUpStep, SetupFailsStep, SendMarkStep,
     MarkAnswerStep, SendStartStep, FinishStartStep DEF HandlerStep
<1>2. ASSUME NEW h \in Handlers, ResolverStep(h) \/ NetworkStep(h) PROVE ExecutionInv'
  BY <1>2, SendCreateStep, CreateAmbiguousStep, BindStep, RejectCreationStep, LandCreateStep,
     LoseCreateStep, CommitMarkStep, LandStartStep DEF ResolverStep, NetworkStep
<1>3. ASSUME NEW h \in Handlers, RetireEntry(h) \/ Exit(h) PROVE ExecutionInv'
  BY <1>3, RetireEntryStep, ExitStep
<1>4. ASSUME NEW k \in Keys, ReaperStep(k) PROVE ExecutionInv'
  BY <1>4, RecordOutcomeStep, ReapQueuedStep, ReapCompleteStep, ReapUnboundStep,
     ReapOrphanStep DEF ReaperStep
<1>5. ASSUME NEW k \in Keys, RowStep(k) PROVE ExecutionInv'
  BY <1>5, RetireRowStep, AdoptRecordStep, MismatchStep, ReadRecordStep,
     AwaitTargetDestructionStep, CancelRecordStep, CompleteCapacityStep, RemoveRecordStep
     DEF RowStep
<1>6. ASSUME NEW p \in Procs, StartProcess(p) \/ Crash(p) PROVE ExecutionInv'
  BY <1>6, StartProcessStep, CrashStep
<1>7. CASE EndLease \/ ReleaseStep \/ AbandonPass \/ Requeue
  BY <1>7, EndLeaseStep, CloseGateStep, DrainedStep, FinishCleanupStep, DestroyTargetStep,
     ProveAbsenceStep, AbandonPassStep, RequeueStep DEF ReleaseStep
<1>8. CASE UNCHANGED vars
  <2> USE <1>8 DEF vars, rows, records, requests, world, control
  <2>1. TypeOK' /\ Pipeline' /\ Provenance' /\ Written' /\ OneAuthority' /\ Order' /\ OneBoot'
    BY DEF ExecutionInv, TypeOK, Pipeline, Provenance, Written, OneAuthority, Order, OneBoot
  <2>2. Covered' /\ PassSafe'
    BY DEF ExecutionInv, Covered, PassSafe, SlotHeld, CanRun, First, Manifest
  <2>3. CreateAwaited' /\ LateRecords'
    BY DEF ExecutionInv, CreateAwaited, LateRecords, Excused
  <2> QED
    BY <2>1, <2>2, <2>3 DEF ExecutionInv
<1> QED
  BY <1>1, <1>2, <1>3, <1>4, <1>5, <1>6, <1>7, <1>8 DEF Next, Sound

\* The inductive invariant of executions and their retirement: what a handler, a row, a
\* record and a cleanup pass each know of the others.
THEOREM ExecutionInvariant == Spec => []ExecutionInv
<1>1. ExecutionInv /\ [Next]_vars => ExecutionInv'
  BY NextInv
<1> QED
  BY InitInv, <1>1, PTL DEF Spec

\* start_execution: one key starts at most one command, for any number of retries on any
\* replicas, whatever answers were lost.
THEOREM StartedOnce == Spec => []SpawnOnce
<1>1. ExecutionInv => SpawnOnce
  BY DEF ExecutionInv, Pipeline, OneAuthority, SpawnOnce
<1> QED
  BY <1>1, ExecutionInvariant, PTL

\* complete_capacity_for_record, cleanup_lease_executions: no report, reaper, retry or
\* cleanup pass frees the slot or forgets the record of a process that may still run.
THEOREM SlotsCover == Spec => []SlotCoversProcess
<1>1. ExecutionInv => SlotCoversProcess
  BY DEF ExecutionInv, Covered, SlotHeld, SlotCoversProcess
<1> QED
  BY <1>1, ExecutionInvariant, PTL

\* drive_release: after absence is proven no handler is left that could bind or start, and
\* after the release no record says that anything ran.
THEOREM QuietAfterClean == Spec => []NothingAfterClean
<1>1. ExecutionInv => NothingAfterClean
  BY DEF ExecutionInv, Order, Pipeline, LateRecords, NothingAfterClean
<1> QED
  BY <1>1, ExecutionInvariant, PTL

\* retire_inactive_execution: a CREATE that lands after the release is one whose process
\* died or whose key another request shared.
THEOREM NothingLeft == Spec => []ReleasedLeavesNothing
<1>1. ASSUME ExecutionInv, phase = "released", NEW h \in Handlers,
             create[h] = "flight" \/ recUid[key[h]] = h
      PROVE  Excused(h)
  <2>1. key[h] \in Keys
    BY <1>1 DEF ExecutionInv, TypeOK
  <2>2. rowSt[key[h]] = "none"
    BY <1>1, <2>1 DEF ExecutionInv, Order
  <2> QED
    BY <1>1, <2>2 DEF ExecutionInv, CreateAwaited, LateRecords
<1>2. ExecutionInv => ReleasedLeavesNothing
  BY <1>1 DEF ReleasedLeavesNothing, Excused
<1> QED
  BY <1>2, ExecutionInvariant, PTL
=============================================================================
