-------------------------- MODULE Settlement_proof --------------------------
(***************************************************************************)
(* Theorems about Settlement, for every set of payments, workers and       *)
(* handlers and every setting of the other constants.                      *)
(***************************************************************************)
EXTENDS Settlement, TLAPS

-----------------------------------------------------------------------------
(* The ledger's statements keep its types.                                 *)

\* upsert_job yields a row, whatever status and signature it is given.
LEMMA UpsertJobType ==
    ASSUME NEW row \in Rows, NEW status \in Statuses,
           NEW sig \in Transactions \union {None}
    PROVE  UpsertJob(row, status, sig) \in Rows
BY DEF UpsertJob, Rows

\* The record_* calls keep the ledger's types.
LEMMA RecordType ==
    ASSUME LedgerTypeOK, NEW p \in Payments, NEW status \in Statuses,
           NEW event \in EventNames, NEW o, Record(p, status, event, o)
    PROVE  LedgerTypeOK'
<1>1. jobs' \in [Payments -> Rows]
  BY UpsertJobType DEF Record, LedgerTypeOK
<1>2. events' \in [Payments -> SUBSET EventNames]
  BY DEF Record, LedgerTypeOK
<1>3. lateJobs' \subseteq
         [payment : Payments, status : Statuses, sig : Transactions \union {None}]
  BY DEF Record, Behind, LedgerTypeOK
<1> QED
  BY <1>1, <1>2, <1>3 DEF Record, LedgerTypeOK

\* record_settled's first statement keeps the ledger's types.
LEMMA UpsertSettledType ==
    ASSUME LedgerTypeOK, NEW p \in Payments, NEW s \in Transactions \union {None},
           NEW o, UpsertSettled(p, s, o)
    PROVE  LedgerTypeOK'
<1>1. jobs' \in [Payments -> Rows]
  BY UpsertJobType DEF UpsertSettled, LedgerTypeOK, Statuses
<1>2. lateJobs' \subseteq
         [payment : Payments, status : Statuses, sig : Transactions \union {None}]
  BY DEF UpsertSettled, Behind, LedgerTypeOK, Statuses
<1> QED
  BY <1>1, <1>2 DEF UpsertSettled, LedgerTypeOK

\* record_settled's last statements keep the ledger's types.
LEMMA InsertVerdictType ==
    ASSUME LedgerTypeOK, NEW p \in Payments, NEW approved \in BOOLEAN, NEW o,
           InsertVerdict(p, approved, o)
    PROVE  LedgerTypeOK'
<1>1. verdicts' \in [Payments -> BOOLEAN \union {None}]
  BY DEF InsertVerdict, LedgerTypeOK
<1>2. events' \in [Payments -> SUBSET EventNames]
  BY DEF InsertVerdict, LedgerTypeOK, EventNames
<1>3. lateVerdicts' \subseteq [payment : Payments, approved : BOOLEAN]
  BY DEF InsertVerdict, Behind, LedgerTypeOK
<1> QED
  BY <1>1, <1>2, <1>3 DEF InsertVerdict, LedgerTypeOK

\* A statement that runs late keeps the ledger's types.
LEMMA RunLateType ==
    ASSUME LedgerTypeOK, RunLate
    PROVE  LedgerTypeOK'
<1>1. ASSUME NEW s \in lateJobs, RunLateJob(s) PROVE LedgerTypeOK'
  <2>1. s.payment \in Payments /\ s.status \in Statuses
        /\ s.sig \in Transactions \union {None}
    BY DEF LedgerTypeOK
  <2>2. jobs' \in [Payments -> Rows]
    BY <1>1, <2>1, UpsertJobType DEF RunLateJob, LedgerTypeOK
  <2> QED BY <1>1, <2>2 DEF RunLateJob, LedgerTypeOK
<1>2. ASSUME NEW s \in lateVerdicts, RunLateVerdict(s) PROVE LedgerTypeOK'
  BY <1>2 DEF RunLateVerdict, LedgerTypeOK
<1> QED BY <1>1, <1>2 DEF RunLate

-----------------------------------------------------------------------------
(* Type correctness.                                                       *)

TaskOK == TaskTypeOK /\ \A t \in Tasks : HasLocals(t)

\* A move to a call that needs no transaction keeps the tasks' locals in order.
LEMMA GotoType ==
    ASSUME TaskOK, NEW t \in Tasks, job[t] \in Payments, NEW call \in Calls,
           call \notin {"confirm", "record_settled", "insert_verdict"},
           Goto(t, call), UNCHANGED <<job, tx>>, attempt' \in [Tasks -> Nat]
    PROVE  TaskOK'
BY DEF TaskOK, TaskTypeOK, HasLocals, Goto, Calls, PipelineCalls

\* So does a task that has gone idle.
LEMMA ResetType ==
    ASSUME TaskOK, NEW ts, Reset(ts)
    PROVE  TaskOK'
BY DEF TaskOK, TaskTypeOK, HasLocals, Reset, Calls, PipelineCalls

\* Dropping a job's attempts keeps the types of the worker's state.
LEMMA ForgetType ==
    ASSUME WorkerTypeOK, NEW t, ForgetAttempts(t), UNCHANGED <<queue, processed>>
    PROVE  WorkerTypeOK'
BY DEF ForgetAttempts, WorkerTypeOK

\* The steps of the chain keep the types of its state.
LEMMA ChainType ==
    ASSUME EscrowTypeOK, Chain
    PROVE  EscrowTypeOK'
<1>1. ASSUME NEW p \in Payments, SubmitDelivery(p) PROVE EscrowTypeOK'
  BY <1>1 DEF SubmitDelivery, EscrowTypeOK
<1>2. ASSUME NEW p \in Payments, Expire(p) PROVE EscrowTypeOK'
  BY <1>2 DEF Expire, EscrowTypeOK
<1>3. ASSUME NEW p \in Payments, Reassign(p) PROVE EscrowTypeOK'
  BY <1>3 DEF Reassign, EscrowTypeOK
<1>4. ASSUME NEW s \in sent, Land(s) PROVE EscrowTypeOK'
  BY <1>4 DEF Land, EscrowTypeOK
<1>5. ASSUME NEW s \in sent, Drop(s) PROVE EscrowTypeOK'
  BY <1>5 DEF Drop, EscrowTypeOK
<1> QED
  BY <1>1, <1>2, <1>3, <1>4, <1>5 DEF Chain

\* The steps workers and handlers share keep the types.
LEMMA PipelineType ==
    ASSUME TypeInv, NEW t \in Tasks, RunPipeline(t)
    PROVE  TypeInv'
<1> USE SettlementAssumption
<1> SUFFICES EscrowTypeOK' /\ LedgerTypeOK' /\ WorkerTypeOK' /\ TaskOK'
  BY DEF TypeInv, TypeOK, TaskOK
<1>0. EscrowTypeOK /\ LedgerTypeOK /\ WorkerTypeOK /\ TaskOK
  BY DEF TypeInv, TypeOK, TaskOK
<1>1. CASE PassEligible(t) \/ FetchEvidence(t) \/ PipelineFails(t)
  <2>1. EscrowTypeOK' /\ LedgerTypeOK' /\ WorkerTypeOK'
    BY <1>0, <1>1 DEF PassEligible, FetchEvidence, PipelineFails, escrowVars,
       ledgerVars, workerVars, EscrowTypeOK, LedgerTypeOK, WorkerTypeOK
  <2>2. TaskOK'
    BY <1>0, <1>1, GotoType DEF PassEligible, FetchEvidence, PipelineFails, TaskOK,
       TaskTypeOK, HasLocals, Calls, PipelineCalls
  <2> QED BY <2>1, <2>2
<1>2. CASE Submit(t)
  <2>1. PICK b \in Blockhashes :
          LET signed == [payment |-> job[t], approved |-> Approve(job[t]),
                         blockhash |-> b]
          IN  tx' = [tx EXCEPT ![t] = signed] /\ sent' = sent \union {signed}
    BY <1>2 DEF Submit
  <2> DEFINE signed == [payment |-> job[t], approved |-> Approve(job[t]),
                        blockhash |-> b]
  <2>2. signed \in Transactions
    BY <1>0, <1>2 DEF Submit, TaskOK, HasLocals, Transactions, Approve
  <2>3. EscrowTypeOK'
    BY <1>0, <1>2, <2>1, <2>2 DEF Submit, EscrowTypeOK
  <2>4. LedgerTypeOK' /\ WorkerTypeOK'
    BY <1>0, <1>2 DEF Submit, ledgerVars, workerVars, LedgerTypeOK, WorkerTypeOK
  <2>5. TaskOK'
    BY <1>0, <1>2, <2>1, <2>2 DEF Submit, TaskOK, TaskTypeOK, HasLocals, Goto,
       Calls, PipelineCalls
  <2> QED BY <2>3, <2>4, <2>5
<1>3. CASE Confirm(t)
  <2>1. EscrowTypeOK' /\ LedgerTypeOK' /\ WorkerTypeOK'
    BY <1>0, <1>3 DEF Confirm, escrowVars, ledgerVars, workerVars, EscrowTypeOK,
       LedgerTypeOK, WorkerTypeOK
  <2>2. TaskOK'
    BY <1>0, <1>3 DEF Confirm, TaskOK, TaskTypeOK, HasLocals, Goto, Calls,
       PipelineCalls
  <2> QED BY <2>1, <2>2
<1>4. ForgetAttempts(t) /\ UNCHANGED <<queue, processed>> => WorkerTypeOK'
  BY <1>0, ForgetType
<1>5. CASE RecordSettled(t)
  <2>1. PICK o \in Outcomes :
          /\ UpsertSettled(job[t], tx[t], o)
          /\ IF o = "ok"
             THEN /\ Goto(t, "insert_verdict")
                  /\ UNCHANGED <<attemptsMem, job, tx, attempt>>
             ELSE Reset({t}) /\ ForgetAttempts(t)
    BY <1>5 DEF RecordSettled
  <2>2. EscrowTypeOK'
    BY <1>0, <1>5 DEF RecordSettled, escrowVars, EscrowTypeOK
  <2>3. LedgerTypeOK'
    BY <1>0, <1>5, <2>1, UpsertSettledType DEF RecordSettled, TaskOK, TaskTypeOK,
       HasLocals
  <2>4. UNCHANGED <<queue, processed>>
    BY <1>5 DEF RecordSettled
  <2>5. WorkerTypeOK'
    BY <1>0, <1>4, <2>1, <2>4 DEF WorkerTypeOK
  <2>6. TaskOK'
    <3>1. CASE o = "ok"
      BY <1>0, <1>5, <2>1, <3>1 DEF RecordSettled, TaskOK, TaskTypeOK, HasLocals,
         Goto, Calls, PipelineCalls
    <3>2. CASE o # "ok"
      BY <1>0, <2>1, <3>2, ResetType
    <3> QED BY <3>1, <3>2
  <2> QED BY <2>2, <2>3, <2>5, <2>6
<1>6. CASE RecordVerdict(t)
  <2>1. EscrowTypeOK'
    BY <1>0, <1>6 DEF RecordVerdict, escrowVars, EscrowTypeOK
  <2>2. tx[t].approved \in BOOLEAN /\ job[t] \in Payments
    BY <1>0, <1>6 DEF RecordVerdict, TaskOK, TaskTypeOK, HasLocals, Transactions
  <2>3. LedgerTypeOK'
    BY <1>0, <1>6, <2>2, InsertVerdictType DEF RecordVerdict
  <2>4. WorkerTypeOK'
    BY <1>6, <1>4 DEF RecordVerdict
  <2>5. TaskOK'
    BY <1>0, <1>6, ResetType DEF RecordVerdict
  <2> QED BY <2>1, <2>3, <2>4, <2>5
<1>7. CASE FinishInMemory(t)
  BY <1>0, <1>4, <1>7, ResetType DEF FinishInMemory, escrowVars, ledgerVars,
     EscrowTypeOK, LedgerTypeOK
<1> QED
  BY <1>1, <1>2, <1>3, <1>5, <1>6, <1>7 DEF RunPipeline

\* A worker's steps keep the types.
LEMMA WorkerType ==
    ASSUME TypeInv, NEW w \in Workers, WorkerStep(w)
    PROVE  TypeInv'
<1> USE SettlementAssumption
<1> SUFFICES (EscrowTypeOK /\ LedgerTypeOK /\ WorkerTypeOK /\ TaskOK)'
  BY DEF TypeInv, TypeOK, TaskOK
<1>0. EscrowTypeOK /\ LedgerTypeOK /\ WorkerTypeOK /\ TaskOK /\ w \in Tasks
  BY DEF TypeInv, TypeOK, TaskOK, Tasks
<1>1. pc[w] # "idle" => job[w] \in Payments
  BY <1>0 DEF TaskOK, HasLocals
<1>2. CASE Recv(w)
  <2>1. Head(queue[w]) \in Payments /\ Tail(queue[w]) \in Seq(Payments)
        /\ Len(Tail(queue[w])) <= ChannelCapacity
    BY <1>0, <1>2 DEF Recv, WorkerTypeOK
  <2>2. (EscrowTypeOK /\ LedgerTypeOK /\ WorkerTypeOK)'
    BY <1>0, <1>2, <2>1 DEF Recv, escrowVars, ledgerVars, EscrowTypeOK, LedgerTypeOK,
       WorkerTypeOK
  <2>3. TaskOK'
    BY <1>0, <1>2, <2>1 DEF Recv, TaskOK, TaskTypeOK, HasLocals, Goto, Calls,
       PipelineCalls
  <2> QED BY <2>2, <2>3
<1>3. CASE SkipTerminal(w) \/ SkipDuplicate(w)
  <2>1. (EscrowTypeOK /\ LedgerTypeOK /\ WorkerTypeOK)'
    BY <1>0, <1>3 DEF SkipTerminal, SkipDuplicate, escrowVars, ledgerVars, workerVars,
       EscrowTypeOK, LedgerTypeOK, WorkerTypeOK
  <2> QED BY <1>0, <1>3, <2>1, ResetType DEF SkipTerminal, SkipDuplicate
<1>4. CASE PassProbe(w) \/ ReadAttempts(w)
  <2>1. (EscrowTypeOK /\ LedgerTypeOK /\ WorkerTypeOK)'
    BY <1>0, <1>4 DEF PassProbe, ReadAttempts, escrowVars, ledgerVars, workerVars,
       EscrowTypeOK, LedgerTypeOK, WorkerTypeOK
  <2>2. attempt' \in [Tasks -> Nat]
    BY <1>0, <1>1, <1>4 DEF PassProbe, ReadAttempts, TaskOK, TaskTypeOK, LedgerTypeOK,
       Rows
  <2>3. TaskOK'
    BY <1>0, <1>1, <1>4, <2>2, GotoType DEF PassProbe, ReadAttempts, Calls,
       PipelineCalls
  <2> QED BY <2>1, <2>3
<1>5. CASE AdmitInMemory(w)
  <2>1. (EscrowTypeOK /\ LedgerTypeOK /\ WorkerTypeOK)'
    BY <1>0, <1>1, <1>5 DEF AdmitInMemory, escrowVars, ledgerVars, EscrowTypeOK,
       LedgerTypeOK, WorkerTypeOK
  <2>2. attempt' \in [Tasks -> Nat]
    BY <1>0, <1>1, <1>5 DEF AdmitInMemory, TaskOK, TaskTypeOK, WorkerTypeOK
  <2>3. TaskOK'
    BY <1>0, <1>1, <1>5, <2>2, GotoType DEF AdmitInMemory, Calls, PipelineCalls
  <2> QED BY <2>1, <2>3
<1>6. CASE RecordDetected(w) \/ RecordQueued(w) \/ RecordStarted(w)
  <2>1. (EscrowTypeOK /\ WorkerTypeOK)'
    BY <1>0, <1>6 DEF RecordDetected, RecordQueued, RecordStarted, escrowVars,
       workerVars, EscrowTypeOK, WorkerTypeOK
  <2>2. LedgerTypeOK'
    BY <1>0, <1>1, <1>6, RecordType DEF RecordDetected, RecordQueued, RecordStarted,
       Statuses, EventNames
  <2>3. attempt' \in [Tasks -> Nat]
    BY <1>0, <1>6 DEF RecordDetected, RecordQueued, RecordStarted, TaskOK, TaskTypeOK
  <2>4. TaskOK'
    BY <1>0, <1>1, <1>6, <2>3, GotoType DEF RecordDetected, RecordQueued,
       RecordStarted, Calls, PipelineCalls
  <2> QED BY <2>1, <2>2, <2>4
<1>7. CASE RecordFailed(w) \/ RecordDeadLetter(w)
  <2>1. (EscrowTypeOK /\ WorkerTypeOK)'
    <3>1. EscrowTypeOK'
      BY <1>0, <1>7 DEF RecordFailed, RecordDeadLetter, escrowVars, EscrowTypeOK
    <3>2. CASE RecordFailed(w)
      BY <1>0, <3>1, <3>2 DEF RecordFailed, WorkerTypeOK
    <3>3. CASE RecordDeadLetter(w)
      BY <1>0, <3>1, <3>3, ForgetType DEF RecordDeadLetter
    <3> QED BY <1>7, <3>1, <3>2, <3>3
  <2>2. ASSUME NEW status \in {"failed", "dead_letter"}, LedgerFailure(job[w], status)
        PROVE  LedgerTypeOK'
    <3>1. CASE UNCHANGED ledgerVars
      BY <1>0, <3>1 DEF ledgerVars, LedgerTypeOK
    <3>2. CASE \E o \in Outcomes : Record(job[w], status, status, o)
      BY <1>0, <1>1, <1>7, <3>2, RecordType DEF RecordFailed, RecordDeadLetter,
         Statuses, EventNames
    <3> QED BY <2>2, <3>1, <3>2 DEF LedgerFailure
  <2>3. TaskOK'
    BY <1>0, <1>7, ResetType DEF RecordFailed, RecordDeadLetter
  <2> QED BY <1>7, <2>1, <2>2, <2>3 DEF RecordFailed, RecordDeadLetter
<1>8. CASE RunPipeline(w)
  BY <1>0, <1>8, PipelineType DEF TypeInv, TypeOK, TaskOK
<1> QED
  BY <1>2, <1>3, <1>4, <1>5, <1>6, <1>7, <1>8 DEF WorkerStep

\* A handler's steps keep the types.
LEMMA HandlerType ==
    ASSUME TypeInv, NEW h \in Handlers, HandlerStep(h)
    PROVE  TypeInv'
<1> USE SettlementAssumption
<1> SUFFICES (EscrowTypeOK /\ LedgerTypeOK /\ WorkerTypeOK /\ TaskOK)'
  BY DEF TypeInv, TypeOK, TaskOK
<1>0. EscrowTypeOK /\ LedgerTypeOK /\ WorkerTypeOK /\ TaskOK /\ h \in Tasks
  BY DEF TypeInv, TypeOK, TaskOK, Tasks
<1>1. CASE RecordQueued(h)
  <2>1. (EscrowTypeOK /\ WorkerTypeOK)'
    BY <1>0, <1>1 DEF RecordQueued, escrowVars, workerVars, EscrowTypeOK, WorkerTypeOK
  <2>2. LedgerTypeOK'
    BY <1>0, <1>1, RecordType DEF RecordQueued, Statuses, EventNames, TaskOK, HasLocals
  <2>3. TaskOK'
    BY <1>0, <1>1, GotoType DEF RecordQueued, TaskOK, TaskTypeOK, HasLocals, Calls,
       PipelineCalls
  <2> QED BY <2>1, <2>2, <2>3
<1>2. CASE RecordManualFailed(h)
  <2>1. (EscrowTypeOK /\ WorkerTypeOK)'
    BY <1>0, <1>2 DEF RecordManualFailed, escrowVars, workerVars, EscrowTypeOK,
       WorkerTypeOK
  <2>2. LedgerTypeOK'
    <3>1. CASE UNCHANGED ledgerVars
      BY <1>0, <3>1 DEF ledgerVars, LedgerTypeOK
    <3>2. CASE \E o \in Outcomes : Record(job[h], "failed", "failed", o)
      BY <1>0, <1>2, <3>2, RecordType DEF RecordManualFailed, Statuses, EventNames, TaskOK,
         HasLocals
    <3> QED BY <1>2, <3>1, <3>2 DEF RecordManualFailed, LedgerFailure
  <2> QED BY <1>0, <1>2, <2>1, <2>2, ResetType DEF RecordManualFailed
<1>3. CASE RunPipeline(h)
  BY <1>0, <1>3, PipelineType DEF TypeInv, TypeOK, TaskOK
<1> QED
  BY <1>1, <1>2, <1>3 DEF HandlerStep

\* The environment's steps keep the types.
LEMMA EnvironmentType ==
    ASSUME TypeInv, Environment
    PROVE  TypeInv'
<1> USE SettlementAssumption
<1> SUFFICES (EscrowTypeOK /\ LedgerTypeOK /\ WorkerTypeOK /\ TaskOK)'
  BY DEF TypeInv, TypeOK, TaskOK
<1>0. EscrowTypeOK /\ LedgerTypeOK /\ WorkerTypeOK /\ TaskOK
  BY DEF TypeInv, TypeOK, TaskOK
<1>1. CASE Chain /\ UNCHANGED <<ledgerVars, workerVars, taskVars>>
  BY <1>0, <1>1, ChainType DEF ledgerVars, workerVars, taskVars, LedgerTypeOK,
     WorkerTypeOK, TaskOK, TaskTypeOK, HasLocals
<1>2. ASSUME NEW w \in Workers, NEW p \in Payments, Notice(w, p)
      PROVE  (EscrowTypeOK /\ LedgerTypeOK /\ WorkerTypeOK /\ TaskOK)'
  <2>1. Append(queue[w], p) \in Seq(Payments)
        /\ Len(Append(queue[w], p)) <= ChannelCapacity
    BY <1>0, <1>2 DEF Notice, WorkerTypeOK
  <2>2. WorkerTypeOK'
    BY <1>0, <1>2, <2>1 DEF Notice, WorkerTypeOK
  <2> QED
    BY <1>0, <1>2, <2>2 DEF Notice, escrowVars, ledgerVars, taskVars, EscrowTypeOK,
       LedgerTypeOK, TaskOK, TaskTypeOK, HasLocals
<1>3. ASSUME NEW h \in Handlers, NEW p \in Payments, ManualEvaluate(h, p)
      PROVE  (EscrowTypeOK /\ LedgerTypeOK /\ WorkerTypeOK /\ TaskOK)'
  <2>1. (EscrowTypeOK /\ LedgerTypeOK /\ WorkerTypeOK)'
    BY <1>0, <1>3 DEF ManualEvaluate, escrowVars, ledgerVars, workerVars, EscrowTypeOK,
       LedgerTypeOK, WorkerTypeOK
  <2>2. TaskOK'
    BY <1>0, <1>3 DEF ManualEvaluate, TaskOK, TaskTypeOK, HasLocals, Goto, Calls,
       PipelineCalls, Tasks
  <2> QED BY <2>1, <2>2
<1>4. ASSUME NEW h \in Handlers, Disconnect(h)
      PROVE  (EscrowTypeOK /\ LedgerTypeOK /\ WorkerTypeOK /\ TaskOK)'
  <2>1. (EscrowTypeOK /\ LedgerTypeOK /\ WorkerTypeOK)'
    BY <1>0, <1>4 DEF Disconnect, escrowVars, ledgerVars, workerVars, EscrowTypeOK,
       LedgerTypeOK, WorkerTypeOK
  <2> QED BY <1>0, <1>4, <2>1, ResetType DEF Disconnect
<1>5. ASSUME NEW w \in Workers, Crash(w)
      PROVE  (EscrowTypeOK /\ LedgerTypeOK /\ WorkerTypeOK /\ TaskOK)'
  <2>1. (EscrowTypeOK /\ LedgerTypeOK)'
    BY <1>0, <1>5 DEF Crash, escrowVars, ledgerVars, EscrowTypeOK, LedgerTypeOK
  <2>2. WorkerTypeOK'
    BY <1>0, <1>5 DEF Crash, WorkerTypeOK, NoAttempts
  <2> QED BY <1>0, <1>5, <2>1, <2>2, ResetType DEF Crash
<1>6. CASE RunLate /\ UNCHANGED <<escrowVars, workerVars, taskVars>>
  BY <1>0, <1>6, RunLateType DEF escrowVars, workerVars, taskVars, EscrowTypeOK,
     WorkerTypeOK, TaskOK, TaskTypeOK, HasLocals
<1> QED
  BY <1>1, <1>2, <1>3, <1>4, <1>5, <1>6 DEF Environment

\* Every step keeps the types.
LEMMA TypeStep == TypeInv /\ [Next]_vars => TypeInv'
<1> SUFFICES ASSUME TypeInv, [Next]_vars PROVE TypeInv'
  OBVIOUS
<1>1. CASE UNCHANGED vars
  BY <1>1 DEF vars, escrowVars, ledgerVars, workerVars, taskVars, TypeInv, TypeOK,
     EscrowTypeOK, LedgerTypeOK, WorkerTypeOK, TaskTypeOK, HasLocals
<1>2. CASE Next
  BY <1>2, WorkerType, HandlerType, EnvironmentType DEF Next
<1> QED BY <1>1, <1>2

\* The state starts well-typed.
LEMMA TypeInit == Init => TypeInv
BY SettlementAssumption DEF Init, EscrowInit, LedgerInit, TypeInv, TypeOK, EscrowTypeOK,
   LedgerTypeOK, WorkerTypeOK, TaskTypeOK, HasLocals, NoAttempts, Rows, Statuses,
   EventNames, Calls, PipelineCalls, Tasks

\* Type correctness: every variable keeps its type, the channel never holds more
\* than job_channel_capacity jobs (main.rs), and a task that uses a payment or a
\* transaction has one.
THEOREM TypeCorrectness == Spec => []TypeInv
<1>1. Init => TypeInv
  BY TypeInit
<1>2. TypeInv /\ [Next]_vars => TypeInv'
  BY TypeStep
<1> QED BY <1>1, <1>2, PTL DEF Spec

-----------------------------------------------------------------------------
(* The ledger agrees with the chain.                                       *)

\* A call that is one upsert and one event never invents or drops a signature,
\* settles no row and leaves the verdicts alone.
LEMMA RecordKeeps ==
    ASSUME LedgerTypeOK, NEW p, NEW status \in Statuses \ {"settled"}, NEW event,
           NEW o, Record(p, status, event, o), NEW q \in Payments
    PROVE  /\ jobs'[q].sig = jobs[q].sig
           /\ jobs'[q].status = "settled" => jobs[q].status = "settled"
           /\ jobs'[q].attempts >= jobs[q].attempts
           /\ verdicts' = verdicts
BY DEF Record, UpsertJob, LedgerTypeOK, Rows

\* Nor does the statement it may leave behind.
LEMMA RecordLeaves ==
    ASSUME NEW p, NEW status \in Statuses \ {"settled"}, NEW event,
           NEW o, Record(p, status, event, o)
    PROVE  /\ \A s \in lateJobs' :
                 s \in lateJobs \/ (s.status # "settled" /\ s.sig = None)
           /\ lateVerdicts' = lateVerdicts
BY DEF Record, Behind

\* A resolution, once made, is never changed, and only the chain makes one.
LEMMA ChainKeeps ==
    ASSUME EscrowTypeOK, Chain, NEW p \in Payments, resolvedBy[p] # None
    PROVE  resolvedBy'[p] = resolvedBy[p]
BY DEF Chain, SubmitDelivery, Expire, Reassign, Land, Drop, EscrowTypeOK, Transactions

\* Ledger and late statements together.
Agrees == LedgerAgreesWithChain /\ LateAgrees

\* Any step that changes no resolution once made, no signature and no verdict,
\* settles no row and leaves no statement that would, keeps the agreement.
LEMMA AgreementFrame ==
    ASSUME LedgerTypeOK, Agrees,
           \A p \in Payments :
              /\ resolvedBy[p] # None => resolvedBy'[p] = resolvedBy[p]
              /\ jobs'[p].sig = jobs[p].sig
              /\ jobs'[p].status = "settled" => jobs[p].status = "settled"
              /\ verdicts'[p] = verdicts[p],
           \A s \in lateJobs' :
              s \in lateJobs \/ (s.status # "settled" /\ s.sig = None),
           lateVerdicts' = lateVerdicts
    PROVE  Agrees'
<1>1. LedgerAgreesWithChain'
  BY DEF Agrees, LedgerAgreesWithChain
<1>2. LateAgrees'
  <2>1. ASSUME NEW s \in lateJobs'
        PROVE  /\ s.status = "settled" => s.sig # None
               /\ s.sig # None => s.sig = resolvedBy'[s.payment]
    <3>1. CASE s \in lateJobs
      BY <3>1 DEF Agrees, LateAgrees, LedgerTypeOK
    <3>2. CASE s.status # "settled" /\ s.sig = None
      BY <3>2
    <3> QED BY <2>1, <3>1, <3>2
  <2>2. ASSUME NEW s \in lateVerdicts
        PROVE  /\ resolvedBy'[s.payment] # None
               /\ s.approved = resolvedBy'[s.payment].approved
    BY DEF Agrees, LateAgrees, LedgerTypeOK
  <2> QED BY <2>1, <2>2 DEF LateAgrees
<1> QED BY <1>1, <1>2 DEF Agrees

\* record_settled's first statement keeps the agreement, for the transaction
\* that settled the payment.
LEMMA UpsertSettledAgrees ==
    ASSUME LedgerTypeOK, Agrees, NEW p \in Payments, NEW o,
           resolvedBy[p] # None, UpsertSettled(p, resolvedBy[p], o),
           UNCHANGED resolvedBy
    PROVE  Agrees'
<1>1. LedgerAgreesWithChain'
  BY DEF LedgerTypeOK, Rows, UpsertSettled, UpsertJob, Agrees, LedgerAgreesWithChain
<1>2. LateAgrees'
  BY DEF UpsertSettled, Behind, Agrees, LateAgrees
<1> QED BY <1>1, <1>2 DEF Agrees

\* So do its last statements.
LEMMA InsertVerdictAgrees ==
    ASSUME LedgerTypeOK, Agrees, NEW p \in Payments, NEW o,
           resolvedBy[p] # None, InsertVerdict(p, resolvedBy[p].approved, o),
           UNCHANGED resolvedBy
    PROVE  Agrees'
<1>1. LedgerAgreesWithChain'
  BY DEF LedgerTypeOK, InsertVerdict, Agrees, LedgerAgreesWithChain
<1>2. LateAgrees'
  BY DEF InsertVerdict, Behind, Agrees, LateAgrees
<1> QED BY <1>1, <1>2 DEF Agrees

\* And so does any statement that runs late: nothing resolves a payment twice,
\* so what was true when the client gave up is true when the server runs it.
LEMMA RunLateAgrees ==
    ASSUME LedgerTypeOK, Agrees, RunLate, UNCHANGED resolvedBy
    PROVE  Agrees'
<1>1. ASSUME NEW s \in lateJobs, RunLateJob(s) PROVE Agrees'
  <2>1. /\ s.payment \in Payments
        /\ s.status = "settled" => s.sig # None
        /\ s.sig # None => s.sig = resolvedBy[s.payment]
    BY DEF LedgerTypeOK, Agrees, LateAgrees
  <2>2. LedgerAgreesWithChain'
    BY <1>1, <2>1 DEF LedgerTypeOK, Rows, RunLateJob, UpsertJob, Agrees,
       LedgerAgreesWithChain
  <2>3. LateAgrees'
    BY <1>1 DEF RunLateJob, Agrees, LateAgrees
  <2> QED BY <2>2, <2>3 DEF Agrees
<1>2. ASSUME NEW s \in lateVerdicts, RunLateVerdict(s) PROVE Agrees'
  <2>1. /\ s.payment \in Payments /\ resolvedBy[s.payment] # None
        /\ s.approved = resolvedBy[s.payment].approved
    BY DEF LedgerTypeOK, Agrees, LateAgrees
  <2>2. LedgerAgreesWithChain'
    BY <1>2, <2>1 DEF LedgerTypeOK, RunLateVerdict, Agrees, LedgerAgreesWithChain
  <2>3. LateAgrees'
    BY <1>2 DEF RunLateVerdict, Agrees, LateAgrees
  <2> QED BY <2>2, <2>3 DEF Agrees
<1> QED BY <1>1, <1>2 DEF RunLate

\* A step of the tasks leaves the resolutions alone, and what it records is what
\* the chain did.
LEMMA TaskAgreement ==
    ASSUME TypeInv, AgreementInv, NEW t \in Tasks,
           \/ t \in Workers /\ WorkerStep(t)
           \/ t \in Handlers /\ HandlerStep(t)
    PROVE  AgreementInv'
<1> USE SettlementAssumption
<1>0. LedgerTypeOK /\ TaskTypeOK /\ HasLocals(t) /\ Confirmed(t) /\ Agrees
  BY DEF TypeInv, TypeOK, AgreementInv, Agrees
<1>1. UNCHANGED resolvedBy
  BY DEF WorkerStep, HandlerStep, RunPipeline, Recv, SkipTerminal, PassProbe,
     SkipDuplicate, AdmitInMemory, RecordDetected, RecordQueued, RecordStarted,
     ReadAttempts, PassEligible, FetchEvidence, Submit, Confirm, PipelineFails,
     RecordSettled, RecordVerdict, FinishInMemory, RecordFailed, RecordDeadLetter,
     RecordManualFailed, escrowVars
<1>2. \A u \in Tasks : Confirmed(u)'
  BY <1>0, <1>1 DEF AgreementInv, Confirmed, TaskTypeOK, Calls, Goto, Reset,
     WorkerStep, HandlerStep, RunPipeline, Recv, SkipTerminal, PassProbe,
     SkipDuplicate, AdmitInMemory, RecordDetected, RecordQueued, RecordStarted,
     ReadAttempts, PassEligible, FetchEvidence, Submit, Confirm, PipelineFails,
     RecordSettled, RecordVerdict, FinishInMemory, RecordFailed, RecordDeadLetter,
     RecordManualFailed
<1>3. CASE RecordSettled(t)
  <2>1. PICK o \in Outcomes : UpsertSettled(job[t], tx[t], o)
    BY <1>3 DEF RecordSettled
  <2> QED
    BY <1>0, <1>1, <1>2, <1>3, <2>1, UpsertSettledAgrees DEF RecordSettled, HasLocals,
       Confirmed, AgreementInv, Agrees
<1>4. CASE RecordVerdict(t)
  <2>1. PICK o \in Outcomes : InsertVerdict(job[t], tx[t].approved, o)
    BY <1>4 DEF RecordVerdict
  <2> QED
    BY <1>0, <1>1, <1>2, <1>4, <2>1, InsertVerdictAgrees DEF RecordVerdict, HasLocals,
       Confirmed, AgreementInv, Agrees
<1>5. ASSUME NEW status \in Statuses \ {"settled"}, NEW event, NEW o,
             Record(job[t], status, event, o)
      PROVE  AgreementInv'
  BY <1>0, <1>1, <1>2, <1>5, RecordKeeps, RecordLeaves, AgreementFrame DEF AgreementInv,
     Agrees
<1>6. CASE UNCHANGED ledgerVars
  BY <1>0, <1>1, <1>2, <1>6, AgreementFrame DEF AgreementInv, Agrees, ledgerVars
<1>7. CASE RecordDetected(t) \/ RecordQueued(t) \/ RecordStarted(t)
  BY <1>5, <1>7 DEF RecordDetected, RecordQueued, RecordStarted, Statuses
<1>8. CASE RecordFailed(t) \/ RecordDeadLetter(t) \/ RecordManualFailed(t)
  BY <1>5, <1>6, <1>8 DEF RecordFailed, RecordDeadLetter, RecordManualFailed,
     LedgerFailure, Statuses
<1> QED
  BY <1>3, <1>4, <1>6, <1>7, <1>8 DEF WorkerStep, HandlerStep, RunPipeline, Recv,
     SkipTerminal, PassProbe, SkipDuplicate, AdmitInMemory, ReadAttempts, PassEligible,
     FetchEvidence, Submit, Confirm, PipelineFails, FinishInMemory

\* Neither the chain nor anything else outside the tasks breaks the agreement.
LEMMA EnvironmentAgreement ==
    ASSUME TypeInv, AgreementInv, Environment
    PROVE  AgreementInv'
<1> USE SettlementAssumption
<1>0. EscrowTypeOK /\ LedgerTypeOK /\ TaskTypeOK /\ Agrees
  BY DEF TypeInv, TypeOK, AgreementInv, Agrees
<1>1. UNCHANGED ledgerVars \/ (RunLate /\ UNCHANGED escrowVars)
  BY DEF Environment, Notice, ManualEvaluate, Disconnect, Crash
<1>2. \A p \in Payments : resolvedBy[p] # None => resolvedBy'[p] = resolvedBy[p]
  BY <1>0, ChainKeeps DEF Environment, Notice, ManualEvaluate, Disconnect, Crash,
     escrowVars
<1>3. Agrees'
  <2>1. CASE UNCHANGED ledgerVars
    BY <1>0, <1>2, <2>1, AgreementFrame DEF ledgerVars
  <2>2. CASE RunLate /\ UNCHANGED escrowVars
    BY <1>0, <2>2, RunLateAgrees DEF escrowVars
  <2> QED BY <1>1, <2>1, <2>2
<1>4. \A t \in Tasks : Confirmed(t)'
  <2> SUFFICES ASSUME NEW t \in Tasks,
                      pc'[t] \in {"record_settled", "insert_verdict"}
               PROVE  resolvedBy'[job'[t]] = tx'[t]
    BY DEF Confirmed
  <2>1. pc[t] = pc'[t] /\ job[t] = job'[t] /\ tx[t] = tx'[t]
    BY <1>0 DEF Environment, Notice, ManualEvaluate, Disconnect, Crash, Reset, Goto,
       taskVars, TaskTypeOK
  <2>2. job[t] \in Payments /\ tx[t] # None /\ resolvedBy[job[t]] = tx[t]
    BY <2>1 DEF TypeInv, HasLocals, AgreementInv, Confirmed
  <2> QED BY <1>2, <2>1, <2>2
<1> QED BY <1>3, <1>4 DEF AgreementInv, Agrees

\* The agreement holds at the start.
LEMMA AgreementInit == Init => AgreementInv
BY DEF Init, EscrowInit, LedgerInit, AgreementInv, LedgerAgreesWithChain, LateAgrees,
   Confirmed

\* Every step keeps the agreement.
LEMMA AgreementStep ==
    ASSUME TypeInv, AgreementInv, [Next]_vars
    PROVE  AgreementInv'
<1>1. CASE UNCHANGED vars
  BY <1>1 DEF vars, escrowVars, ledgerVars, taskVars, AgreementInv,
     LedgerAgreesWithChain, LateAgrees, Confirmed
<1>2. CASE Next
  BY <1>2, TaskAgreement, EnvironmentAgreement DEF Next, Tasks
<1> QED BY <1>1, <1>2

\* Whatever the interleaving of workers, handlers, crashes and failed
\* statements, what the ledger says of a settlement is true of the chain
\* (record_settled, db.rs; run_pipeline and settle before it).
THEOREM Agreement == Spec => []LedgerAgreesWithChain
<1>1. Init => TypeInv /\ AgreementInv
  BY TypeInit, AgreementInit
<1>2. TypeInv /\ AgreementInv /\ [Next]_vars => (TypeInv /\ AgreementInv)'
  BY TypeStep, AgreementStep
<1>3. AgreementInv => LedgerAgreesWithChain
  BY DEF AgreementInv
<1> QED BY <1>1, <1>2, <1>3, PTL DEF Spec

-----------------------------------------------------------------------------
(* Dead letters.                                                           *)

\* A call that records one event dead-letters a row only if it is told to.
LEMMA RecordBudget ==
    ASSUME LedgerTypeOK, DeadLetterOnlyAfterBudget, NEW p, NEW status \in Statuses,
           NEW event, NEW o, Record(p, status, event, o),
           status = "dead_letter" =>
              \/ DeadLetterMaxAttempts <= 1
              \/ p \in Payments /\ jobs[p].attempts >= DeadLetterMaxAttempts
    PROVE  DeadLetterOnlyAfterBudget'
BY SettlementAssumption DEF Record, UpsertJob, LedgerTypeOK, Rows,
   DeadLetterOnlyAfterBudget

\* The attempts of a row never go down.
LEMMA AttemptsGrow ==
    ASSUME TypeInv, NEW t \in Tasks,
           \/ t \in Workers /\ WorkerStep(t)
           \/ t \in Handlers /\ HandlerStep(t)
    PROVE  \A p \in Payments : jobs'[p].attempts >= jobs[p].attempts
<1>0. LedgerTypeOK
  BY DEF TypeInv, TypeOK
<1>1. ASSUME NEW status \in Statuses \ {"settled"}, NEW event, NEW o,
             Record(job[t], status, event, o)
      PROVE  \A p \in Payments : jobs'[p].attempts >= jobs[p].attempts
  BY <1>0, <1>1, RecordKeeps
<1>2. CASE UNCHANGED jobs
  BY <1>0, <1>2 DEF LedgerTypeOK, Rows
<1>3. CASE RecordSettled(t)
  BY <1>0, <1>3 DEF RecordSettled, UpsertSettled, UpsertJob, LedgerTypeOK, Rows
<1>4. CASE RecordDetected(t) \/ RecordQueued(t) \/ RecordStarted(t)
  BY <1>1, <1>4 DEF RecordDetected, RecordQueued, RecordStarted, Statuses
<1>5. CASE RecordFailed(t) \/ RecordDeadLetter(t) \/ RecordManualFailed(t)
  BY <1>1, <1>2, <1>5 DEF RecordFailed, RecordDeadLetter, RecordManualFailed,
     LedgerFailure, Statuses, ledgerVars
<1> QED
  BY <1>2, <1>3, <1>4, <1>5 DEF WorkerStep, HandlerStep, RunPipeline, Recv,
     SkipTerminal, PassProbe, SkipDuplicate, AdmitInMemory, ReadAttempts, PassEligible,
     FetchEvidence, Submit, Confirm, PipelineFails, FinishInMemory, RecordVerdict,
     InsertVerdict, ledgerVars

\* A step of the tasks keeps every worker's attempt count honest.
LEMMA TaskAttempts ==
    ASSUME TypeInv, BudgetInv, NEW t \in Tasks,
           \/ t \in Workers /\ WorkerStep(t)
           \/ t \in Handlers /\ HandlerStep(t)
    PROVE  \A w \in Workers : AttemptInv(w)'
<1> USE SettlementAssumption
<1> SUFFICES ASSUME NEW w \in Workers PROVE AttemptInv(w)'
  OBVIOUS
<1>0. /\ LedgerTypeOK /\ TaskTypeOK /\ HasLocals(w) /\ HasLocals(t) /\ AttemptInv(w)
      /\ w \in Tasks
      /\ \A p \in Payments : jobs'[p].attempts >= jobs[p].attempts
  BY AttemptsGrow DEF TypeInv, TypeOK, BudgetInv, Tasks
<1>1. CASE pc'[w] = pc[w] /\ job'[w] = job[w] /\ attempt'[w] = attempt[w]
  <2>1. CASE pc[w] = "idle"
    BY <1>1, <2>1 DEF AttemptInv, PipelineCalls
  <2>2. CASE job[w] \in Payments
    <3>1. /\ jobs'[job[w]].attempts >= jobs[job[w]].attempts
          /\ jobs'[job[w]].attempts \in Nat /\ jobs[job[w]].attempts \in Nat
          /\ attempt[w] \in Nat
      BY <1>0, <2>2, TypeStep DEF TypeInv, TypeOK, LedgerTypeOK, Rows, Next, TaskTypeOK
    <3> QED BY <1>0, <1>1, <3>1 DEF AttemptInv
  <2> QED BY <1>0, <2>1, <2>2 DEF HasLocals
<1>2. CASE t # w
  BY <1>0, <1>1, <1>2 DEF TaskTypeOK, Goto, Reset,
     WorkerStep, HandlerStep, RunPipeline, Recv, SkipTerminal, PassProbe,
     SkipDuplicate, AdmitInMemory, RecordDetected, RecordQueued, RecordStarted,
     ReadAttempts, PassEligible, FetchEvidence, Submit, Confirm, PipelineFails,
     RecordSettled, RecordVerdict, FinishInMemory, RecordFailed, RecordDeadLetter,
     RecordManualFailed
<1>3. CASE t = w
  <2>0. WorkerStep(w)
    BY <1>3
  <2>1. CASE pc'[w] \notin PipelineCalls \union {"record_failure", "admit_in_memory"}
    BY <2>1 DEF AttemptInv
  <2>2. CASE Recv(w)
    BY <1>0, <2>2 DEF Recv, Goto, TaskTypeOK, AttemptInv, PipelineCalls
  <2>3. CASE AdmitInMemory(w)
    BY <1>0, <2>3 DEF AdmitInMemory, Goto, TaskTypeOK, AttemptInv
  <2>4. CASE RecordStarted(w)
    BY <1>0, <2>1, <2>4 DEF RecordStarted, Goto, TaskTypeOK, AttemptInv, PipelineCalls
  <2>5. CASE ReadAttempts(w)
    BY <1>0, <2>5 DEF ReadAttempts, Goto, TaskTypeOK, AttemptInv, ledgerVars,
       LedgerTypeOK, Rows, HasLocals
  <2>6. CASE PassEligible(w) \/ FetchEvidence(w) \/ Submit(w) \/ PipelineFails(w)
    BY <1>0, <2>6 DEF PassEligible, FetchEvidence, Submit, PipelineFails, Goto,
       TaskTypeOK, AttemptInv, ledgerVars, PipelineCalls
  <2>7. CASE SkipTerminal(w) \/ PassProbe(w) \/ SkipDuplicate(w) \/ RecordDetected(w)
             \/ RecordQueued(w) \/ Confirm(w) \/ RecordSettled(w) \/ RecordVerdict(w)
             \/ FinishInMemory(w) \/ RecordFailed(w) \/ RecordDeadLetter(w)
    <3>1. pc'[w] \in {"idle", "record_detected", "record_queued", "record_started",
                      "record_settled", "insert_verdict"}
      BY <1>0, <2>7 DEF SkipTerminal, PassProbe, SkipDuplicate, RecordDetected,
         RecordQueued, Confirm, RecordSettled, RecordVerdict, FinishInMemory,
         RecordFailed, RecordDeadLetter, Goto, Reset, TaskTypeOK
    <3> QED BY <2>1, <3>1 DEF PipelineCalls
  <2> QED
    BY <2>0, <2>2, <2>3, <2>4, <2>5, <2>6, <2>7 DEF WorkerStep, RunPipeline
<1> QED BY <1>2, <1>3

\* A worker dead-letters a job whose row has counted its attempts.
LEMMA DeadLetterEarned ==
    ASSUME TypeInv, BudgetInv, UseLedger, NEW t \in Workers, RecordDeadLetter(t)
    PROVE  /\ job[t] \in Payments
           /\ \/ DeadLetterMaxAttempts <= 1
              \/ jobs[job[t]].attempts >= DeadLetterMaxAttempts
<1> USE SettlementAssumption
<1>0. LedgerTypeOK /\ TaskTypeOK /\ HasLocals(t) /\ AttemptInv(t) /\ t \in Tasks
  BY DEF TypeInv, TypeOK, BudgetInv, Tasks
<1>1. attempt[t] >= DeadLetterMaxAttempts /\ job[t] \in Payments
  BY <1>0 DEF RecordDeadLetter, ShouldDeadLetter, HasLocals
<1>2. attempt[t] <= 1 \/ attempt[t] <= jobs[job[t]].attempts
  BY <1>0 DEF AttemptInv, RecordDeadLetter
<1>3. attempt[t] \in Nat /\ jobs[job[t]].attempts \in Nat
  BY <1>0, <1>1 DEF TaskTypeOK, LedgerTypeOK, Rows
<1> QED BY <1>1, <1>2, <1>3

\* A step of the tasks dead-letters no row before its attempts are counted.
LEMMA TaskBudget ==
    ASSUME TypeInv, BudgetInv, NEW t \in Tasks,
           \/ t \in Workers /\ WorkerStep(t)
           \/ t \in Handlers /\ HandlerStep(t)
    PROVE  DeadLetterOnlyAfterBudget'
<1> USE SettlementAssumption
<1>0. LedgerTypeOK /\ TaskTypeOK /\ HasLocals(t) /\ DeadLetterOnlyAfterBudget
  BY DEF TypeInv, TypeOK, BudgetInv
<1>1. CASE UNCHANGED jobs
  BY <1>0, <1>1 DEF DeadLetterOnlyAfterBudget
<1>2. CASE RecordSettled(t)
  BY <1>0, <1>2 DEF RecordSettled, UpsertSettled, UpsertJob, LedgerTypeOK, Rows,
     DeadLetterOnlyAfterBudget
<1>3. ASSUME NEW status \in Statuses \ {"dead_letter"}, NEW event, NEW o,
             Record(job[t], status, event, o)
      PROVE  DeadLetterOnlyAfterBudget'
  BY <1>0, <1>3, RecordBudget
<1>4. CASE RecordDetected(t) \/ RecordQueued(t) \/ RecordStarted(t)
  BY <1>3, <1>4 DEF RecordDetected, RecordQueued, RecordStarted, Statuses
<1>5. CASE RecordFailed(t) \/ RecordManualFailed(t)
  BY <1>1, <1>3, <1>5 DEF RecordFailed, RecordManualFailed, LedgerFailure, Statuses,
     ledgerVars
<1>6. CASE RecordDeadLetter(t)
  <2>1. CASE UNCHANGED ledgerVars
    BY <1>1, <2>1 DEF ledgerVars
  <2>2. ASSUME UseLedger,
               NEW o \in Outcomes, Record(job[t], "dead_letter", "dead_letter", o)
        PROVE  DeadLetterOnlyAfterBudget'
    BY <1>0, <1>6, <2>2, DeadLetterEarned, RecordBudget DEF RecordDeadLetter, Statuses
  <2> QED BY <1>6, <2>1, <2>2 DEF RecordDeadLetter, LedgerFailure
<1> QED
  BY <1>1, <1>2, <1>4, <1>5, <1>6 DEF WorkerStep, HandlerStep, RunPipeline, Recv,
     SkipTerminal, PassProbe, SkipDuplicate, AdmitInMemory, ReadAttempts, PassEligible,
     FetchEvidence, Submit, Confirm, PipelineFails, FinishInMemory, RecordVerdict,
     InsertVerdict, ledgerVars

\* A dead letter among the late statements was earned when the client gave up,
\* and attempts only grow.
LEMMA LateBudgetFrame ==
    ASSUME LedgerTypeOK, LedgerTypeOK', LateBudget,
           \A p \in Payments : jobs'[p].attempts >= jobs[p].attempts,
           \A s \in lateJobs' :
              s.status = "dead_letter" =>
                 \/ s \in lateJobs
                 \/ DeadLetterMaxAttempts <= 1
                 \/ jobs[s.payment].attempts >= DeadLetterMaxAttempts
    PROVE  LateBudget'
<1> SUFFICES ASSUME NEW s \in lateJobs', s.status = "dead_letter",
                    ~(DeadLetterMaxAttempts <= 1)
             PROVE  jobs'[s.payment].attempts >= DeadLetterMaxAttempts
  BY DEF LateBudget
<1>1. s.payment \in Payments
  BY DEF LedgerTypeOK
<1>2. jobs[s.payment].attempts >= DeadLetterMaxAttempts
  BY DEF LateBudget
<1>3. jobs[s.payment].attempts \in Nat /\ jobs'[s.payment].attempts \in Nat
  BY <1>1 DEF LedgerTypeOK, Rows
<1>4. jobs'[s.payment].attempts >= jobs[s.payment].attempts
  BY <1>1
<1> QED BY <1>2, <1>3, <1>4, SettlementAssumption

\* A step of the tasks leaves no dead letter behind that was not earned.
LEMMA TaskLateBudget ==
    ASSUME TypeInv, BudgetInv, NEW t \in Tasks,
           \/ t \in Workers /\ WorkerStep(t)
           \/ t \in Handlers /\ HandlerStep(t)
    PROVE  LateBudget'
<1> USE SettlementAssumption
<1>0. /\ LedgerTypeOK /\ LedgerTypeOK' /\ LateBudget
      /\ \A p \in Payments : jobs'[p].attempts >= jobs[p].attempts
  BY AttemptsGrow, TypeStep DEF TypeInv, TypeOK, BudgetInv, Next
<1>1. CASE UNCHANGED lateJobs
  BY <1>0, <1>1, LateBudgetFrame
<1>2. ASSUME NEW p, NEW status, NEW event, NEW o, Record(p, status, event, o),
             status = "dead_letter" =>
                \/ DeadLetterMaxAttempts <= 1
                \/ jobs[p].attempts >= DeadLetterMaxAttempts
      PROVE  LateBudget'
  BY <1>0, <1>2, LateBudgetFrame DEF Record, Behind
<1>3. CASE RecordSettled(t)
  BY <1>0, <1>3, LateBudgetFrame DEF RecordSettled, UpsertSettled, Behind
<1>4. CASE RecordDetected(t) \/ RecordQueued(t) \/ RecordStarted(t)
  BY <1>2, <1>4 DEF RecordDetected, RecordQueued, RecordStarted
<1>5. CASE RecordFailed(t) \/ RecordManualFailed(t)
  BY <1>1, <1>2, <1>5 DEF RecordFailed, RecordManualFailed, LedgerFailure, ledgerVars
<1>6. CASE RecordDeadLetter(t)
  BY <1>1, <1>2, <1>6, DeadLetterEarned DEF RecordDeadLetter, LedgerFailure, ledgerVars
<1> QED
  BY <1>1, <1>3, <1>4, <1>5, <1>6 DEF WorkerStep, HandlerStep, RunPipeline, Recv,
     SkipTerminal, PassProbe, SkipDuplicate, AdmitInMemory, ReadAttempts, PassEligible,
     FetchEvidence, Submit, Confirm, PipelineFails, FinishInMemory, RecordVerdict,
     InsertVerdict, ledgerVars

\* A statement that runs late takes no attempt back, and dead-letters only what
\* was earned.
LEMMA RunLateBudget ==
    ASSUME TypeInv, BudgetInv, RunLate, UNCHANGED <<escrowVars, workerVars, taskVars>>
    PROVE  /\ DeadLetterOnlyAfterBudget' /\ LateBudget'
           /\ \A p \in Payments : jobs'[p].attempts >= jobs[p].attempts
<1> USE SettlementAssumption
<1>0. LedgerTypeOK /\ LedgerTypeOK' /\ DeadLetterOnlyAfterBudget /\ LateBudget
  BY TypeStep DEF TypeInv, TypeOK, BudgetInv, Next, Environment
<1>1. CASE UNCHANGED <<jobs, lateJobs>>
  BY <1>0, <1>1 DEF DeadLetterOnlyAfterBudget, LateBudget, LedgerTypeOK, Rows
<1>2. ASSUME NEW s \in lateJobs, RunLateJob(s)
      PROVE  /\ DeadLetterOnlyAfterBudget' /\ LateBudget'
             /\ \A p \in Payments : jobs'[p].attempts >= jobs[p].attempts
  <2>1. s.payment \in Payments
    BY <1>0 DEF LedgerTypeOK
  <2>2. \A p \in Payments : jobs'[p].attempts >= jobs[p].attempts
    BY <1>0, <1>2, <2>1 DEF RunLateJob, UpsertJob, LedgerTypeOK, Rows
  <2>3. LateBudget'
    BY <1>0, <1>2, <2>2, LateBudgetFrame DEF RunLateJob
  <2>4. ASSUME NEW p \in Payments, jobs'[p].status = "dead_letter",
               ~(DeadLetterMaxAttempts <= 1)
        PROVE  jobs'[p].attempts >= DeadLetterMaxAttempts
    <3>1. jobs[p].attempts >= DeadLetterMaxAttempts
      <4>1. CASE p = s.payment
        BY <1>0, <1>2, <2>4, <4>1 DEF RunLateJob, UpsertJob, LedgerTypeOK, LateBudget
      <4>2. CASE p # s.payment
        BY <1>0, <1>2, <2>4, <4>2 DEF RunLateJob, LedgerTypeOK,
           DeadLetterOnlyAfterBudget
      <4> QED BY <4>1, <4>2
    <3>2. jobs[p].attempts \in Nat /\ jobs'[p].attempts \in Nat
      BY <1>0 DEF LedgerTypeOK, Rows
    <3> QED BY <2>2, <3>1, <3>2
  <2> QED BY <2>2, <2>3, <2>4 DEF DeadLetterOnlyAfterBudget
<1> QED BY <1>1, <1>2 DEF RunLate, RunLateVerdict

\* Requests, notices, crashes, the chain and late statements dead-letter nothing
\* that was not earned.
LEMMA EnvironmentBudget ==
    ASSUME TypeInv, BudgetInv, Environment
    PROVE  BudgetInv'
<1> USE SettlementAssumption
<1>0. /\ TaskTypeOK /\ LedgerTypeOK /\ LedgerTypeOK'
      /\ \A w \in Workers : w \in Tasks /\ HasLocals(w) /\ AttemptInv(w)
      /\ DeadLetterOnlyAfterBudget /\ LateBudget
  BY TypeStep DEF TypeInv, TypeOK, BudgetInv, Next, Tasks
<1>1. \/ UNCHANGED ledgerVars
      \/ RunLate /\ UNCHANGED <<escrowVars, workerVars, taskVars>>
  BY DEF Environment, Notice, ManualEvaluate, Disconnect, Crash
<1>2. /\ DeadLetterOnlyAfterBudget' /\ LateBudget'
      /\ \A p \in Payments : jobs'[p].attempts >= jobs[p].attempts
  <2>1. CASE UNCHANGED ledgerVars
    BY <1>0, <2>1 DEF ledgerVars, DeadLetterOnlyAfterBudget, LateBudget, LedgerTypeOK,
       Rows
  <2> QED BY <1>1, <2>1, RunLateBudget
<1>3. ASSUME NEW w \in Workers PROVE AttemptInv(w)'
  <2>1. pc'[w] = "idle"
        \/ (pc'[w] = pc[w] /\ job'[w] = job[w] /\ attempt'[w] = attempt[w])
    BY <1>0 DEF Environment, Notice, ManualEvaluate, Disconnect, Crash, Goto, Reset,
       taskVars, TaskTypeOK, Tasks
  <2>2. CASE pc'[w] = "idle"
    BY <2>2 DEF AttemptInv, PipelineCalls
  <2>3. CASE pc[w] # "idle" /\ pc'[w] = pc[w] /\ job'[w] = job[w]
             /\ attempt'[w] = attempt[w]
    <3>1. /\ jobs'[job[w]].attempts >= jobs[job[w]].attempts
          /\ jobs'[job[w]].attempts \in Nat /\ jobs[job[w]].attempts \in Nat
          /\ attempt[w] \in Nat
      BY <1>0, <1>2, <2>3 DEF HasLocals, LedgerTypeOK, Rows, TaskTypeOK
    <3> QED BY <1>0, <2>3, <3>1 DEF AttemptInv
  <2> QED BY <2>1, <2>2, <2>3
<1> QED BY <1>2, <1>3 DEF BudgetInv

\* The budget holds at the start.
LEMMA BudgetInit == Init => BudgetInv
BY DEF Init, LedgerInit, BudgetInv, DeadLetterOnlyAfterBudget, LateBudget, AttemptInv,
   PipelineCalls, Tasks

\* The budget holds in every state.
LEMMA BudgetInvariant == Spec => [](TypeInv /\ BudgetInv)
<1>1. Init => TypeInv /\ BudgetInv
  BY TypeInit, BudgetInit
<1>2. TypeInv /\ BudgetInv /\ [Next]_vars => (TypeInv /\ BudgetInv)'
  <2> SUFFICES ASSUME TypeInv, BudgetInv, [Next]_vars PROVE BudgetInv'
    BY TypeStep
  <2>1. CASE UNCHANGED vars
    BY <2>1 DEF vars, ledgerVars, taskVars, BudgetInv, DeadLetterOnlyAfterBudget,
       LateBudget, AttemptInv
  <2>2. CASE Next
    BY <2>2, TaskBudget, TaskLateBudget, TaskAttempts, EnvironmentBudget DEF Next, Tasks,
       BudgetInv
  <2> QED BY <2>1, <2>2
<1> QED BY <1>1, <1>2, PTL DEF Spec

\* No job is dead-lettered before the ledger has counted its attempts, for every
\* value of ORACLE_DEAD_LETTER_MAX_ATTEMPTS and however many statements fail
\* (the Err and timeout arms of the worker loop, main.rs).
THEOREM DeadLetterBudget == Spec => []DeadLetterOnlyAfterBudget
<1>1. BudgetInv => DeadLetterOnlyAfterBudget
  BY DEF BudgetInv
<1> QED BY <1>1, BudgetInvariant, PTL

-----------------------------------------------------------------------------
(* The verdicts are the ones the documents call for.                       *)

\* No step sends, or executes, a transaction that misjudges its payment.
LEMMA JudgementStep ==
    ASSUME TypeInv, JudgementInv, [Next]_vars
    PROVE  JudgementInv'
<1> USE SettlementAssumption
<1>0. /\ EscrowTypeOK /\ TaskTypeOK /\ TransactionsAreJudged
      /\ \A t \in Tasks : HasLocals(t)
      /\ \A t \in Tasks : pc[t] = "settle" => Docs[job[t]] # "unusable"
  BY DEF TypeInv, TypeOK, JudgementInv
<1>1. ASSUME NEW t \in Tasks, RunPipeline(t) PROVE JudgementInv'
  <2>1. CASE Submit(t)
    <3>1. PICK b \in Blockhashes :
            sent' = sent \union {[payment |-> job[t], approved |-> Approve(job[t]),
                                  blockhash |-> b]}
      BY <2>1 DEF Submit
    <3>2. TransactionsAreJudged'
      BY <1>0, <2>1, <3>1 DEF Submit, TransactionsAreJudged, Judged
    <3>3. \A u \in Tasks : pc'[u] = "settle" => Docs[job'[u]] # "unusable"
      BY <1>0, <2>1 DEF Submit, Goto, TaskTypeOK
    <3> QED BY <3>2, <3>3 DEF JudgementInv
  <2>2. CASE ~Submit(t)
    <3>1. UNCHANGED <<sent, resolvedBy>>
      BY <1>1, <2>2 DEF RunPipeline, PassEligible, FetchEvidence, Confirm,
         PipelineFails, RecordSettled, RecordVerdict, FinishInMemory, escrowVars
    <3>2. \A u \in Tasks : pc'[u] = "settle" => Docs[job'[u]] # "unusable"
      BY <1>0, <1>1, <2>2 DEF RunPipeline, PassEligible, FetchEvidence, Confirm,
         PipelineFails, RecordSettled, RecordVerdict, FinishInMemory, Goto, Reset,
         TaskTypeOK
    <3> QED BY <1>0, <3>1, <3>2 DEF JudgementInv, TransactionsAreJudged
  <2> QED BY <2>1, <2>2
<1>2. ASSUME NEW w \in Workers, WorkerStep(w) PROVE JudgementInv'
  <2>1. CASE RunPipeline(w)
    BY <1>1, <2>1 DEF Tasks
  <2>2. CASE ~RunPipeline(w)
    <3>1. UNCHANGED <<sent, resolvedBy>>
      BY <1>2, <2>2 DEF WorkerStep, Recv, SkipTerminal, PassProbe, SkipDuplicate,
         AdmitInMemory, RecordDetected, RecordQueued, RecordStarted, ReadAttempts,
         RecordFailed, RecordDeadLetter, escrowVars
    <3>2. \A u \in Tasks : pc'[u] = "settle" => Docs[job'[u]] # "unusable"
      BY <1>0, <1>2, <2>2 DEF WorkerStep, Recv, SkipTerminal, PassProbe,
         SkipDuplicate, AdmitInMemory, RecordDetected, RecordQueued, RecordStarted,
         ReadAttempts, RecordFailed, RecordDeadLetter, Goto, Reset, TaskTypeOK
    <3> QED BY <1>0, <3>1, <3>2 DEF JudgementInv, TransactionsAreJudged
  <2> QED BY <2>1, <2>2
<1>3. ASSUME NEW h \in Handlers, HandlerStep(h) PROVE JudgementInv'
  <2>1. CASE RunPipeline(h)
    BY <1>1, <2>1 DEF Tasks
  <2>2. CASE RecordQueued(h) \/ RecordManualFailed(h)
    BY <1>0, <2>2 DEF RecordQueued, RecordManualFailed, Goto, Reset, TaskTypeOK,
       escrowVars, JudgementInv, TransactionsAreJudged
  <2> QED BY <1>3, <2>1, <2>2 DEF HandlerStep
<1>4. CASE Chain /\ UNCHANGED <<ledgerVars, workerVars, taskVars>>
  <2>1. TransactionsAreJudged'
    BY <1>0, <1>4 DEF Chain, SubmitDelivery, Expire, Reassign, Land, Drop,
       EscrowTypeOK, Transactions, TransactionsAreJudged, Judged, Approve
  <2> QED BY <1>0, <1>4, <2>1 DEF taskVars, JudgementInv
<1>5. CASE \/ \E w \in Workers, p \in Payments : Notice(w, p)
           \/ \E h \in Handlers, p \in Payments : ManualEvaluate(h, p)
           \/ \E h \in Handlers : Disconnect(h)
           \/ \E w \in Workers : Crash(w)
           \/ RunLate /\ UNCHANGED <<escrowVars, workerVars, taskVars>>
           \/ UNCHANGED vars
  BY <1>0, <1>5 DEF Notice, ManualEvaluate, Disconnect, Crash, vars, taskVars, Goto,
     Reset, TaskTypeOK, escrowVars, JudgementInv, TransactionsAreJudged
<1> QED
  BY <1>2, <1>3, <1>4, <1>5 DEF Next, Environment

\* The judgement holds at the start.
LEMMA JudgementInit == Init => JudgementInv
BY DEF Init, EscrowInit, JudgementInv, TransactionsAreJudged

\* A step changes a verdict row only to the verdict of the transaction that
\* resolved the payment.
LEMMA VerdictStep ==
    ASSUME TypeInv, AgreementInv, [Next]_vars, NEW p \in Payments,
           verdicts'[p] # verdicts[p]
    PROVE  /\ resolvedBy[p] # None /\ UNCHANGED resolvedBy
           /\ verdicts' = [verdicts EXCEPT ![p] = resolvedBy[p].approved]
<1> USE SettlementAssumption
<1>0. LedgerTypeOK /\ LateAgrees /\ \A t \in Tasks : HasLocals(t) /\ Confirmed(t)
  BY DEF TypeInv, TypeOK, AgreementInv
<1>1. \/ \E t \in Tasks : RecordVerdict(t)
      \/ UNCHANGED escrowVars /\ \E s \in lateVerdicts : RunLateVerdict(s)
  <2>1. ASSUME NEW t \in Tasks, RunPipeline(t) PROVE RecordVerdict(t)
    BY <2>1 DEF RunPipeline, PassEligible, FetchEvidence, Submit, Confirm, PipelineFails,
       RecordSettled, UpsertSettled, FinishInMemory, ledgerVars
  <2>2. ASSUME NEW w \in Workers, WorkerStep(w) PROVE RunPipeline(w)
    BY <2>2 DEF WorkerStep, Recv, SkipTerminal, PassProbe, SkipDuplicate, AdmitInMemory,
       RecordDetected, RecordQueued, RecordStarted, ReadAttempts, RecordFailed,
       RecordDeadLetter, LedgerFailure, Record, ledgerVars
  <2>3. ASSUME NEW h \in Handlers, HandlerStep(h) PROVE RunPipeline(h)
    BY <2>3 DEF HandlerStep, RecordQueued, RecordManualFailed, LedgerFailure, Record,
       ledgerVars
  <2>4. CASE Environment
    BY <2>4 DEF Environment, Notice, ManualEvaluate, Disconnect, Crash, RunLate,
       RunLateJob, ledgerVars
  <2>5. ~(UNCHANGED vars)
    BY DEF vars, ledgerVars
  <2> QED BY <2>1, <2>2, <2>3, <2>4, <2>5 DEF Next, Tasks
<1>2. ASSUME NEW t \in Tasks, RecordVerdict(t)
      PROVE  /\ resolvedBy[p] # None /\ UNCHANGED resolvedBy
             /\ verdicts' = [verdicts EXCEPT ![p] = resolvedBy[p].approved]
  <2>1. PICK o \in Outcomes : InsertVerdict(job[t], tx[t].approved, o)
    BY <1>2 DEF RecordVerdict
  <2>2. job[t] \in Payments /\ tx[t] # None /\ resolvedBy[job[t]] = tx[t]
    BY <1>0, <1>2 DEF RecordVerdict, HasLocals, Confirmed
  <2>3. p = job[t] /\ verdicts' = [verdicts EXCEPT ![job[t]] = tx[t].approved]
    BY <1>0, <2>1, <2>2 DEF InsertVerdict, LedgerTypeOK
  <2> QED BY <1>2, <2>2, <2>3 DEF RecordVerdict, escrowVars
<1>3. ASSUME NEW s \in lateVerdicts, RunLateVerdict(s), UNCHANGED escrowVars
      PROVE  /\ resolvedBy[p] # None /\ UNCHANGED resolvedBy
             /\ verdicts' = [verdicts EXCEPT ![p] = resolvedBy[p].approved]
  <2>1. p = s.payment
    BY <1>0, <1>3 DEF RunLateVerdict, LedgerTypeOK
  <2> QED BY <1>0, <1>3, <2>1 DEF LateAgrees, RunLateVerdict, escrowVars
<1> QED BY <1>1, <1>2, <1>3

\* A step changes a resolution only by executing one transaction for a payment
\* that had none.
LEMMA ResolutionStep ==
    ASSUME TypeInv, [Next]_vars, NEW p \in Payments, resolvedBy'[p] # resolvedBy[p]
    PROVE  /\ resolvedBy[p] = None /\ UNCHANGED verdicts
           /\ \E s \in Transactions : resolvedBy' = [resolvedBy EXCEPT ![p] = s]
<1>0. EscrowTypeOK
  BY DEF TypeInv, TypeOK
<1>1. Chain /\ UNCHANGED ledgerVars
  BY DEF Next, vars, WorkerStep, HandlerStep, RunPipeline, Recv, SkipTerminal,
     PassProbe, SkipDuplicate, AdmitInMemory, RecordDetected, RecordQueued,
     RecordStarted, ReadAttempts, PassEligible, FetchEvidence, Submit, Confirm,
     PipelineFails, RecordSettled, RecordVerdict, FinishInMemory, RecordFailed,
     RecordDeadLetter, RecordManualFailed, Environment, Notice, ManualEvaluate,
     Disconnect, Crash, escrowVars
<1>2. PICK s \in sent : Land(s)
  BY <1>1 DEF Chain, SubmitDelivery, Expire, Reassign, Drop
<1>3. s \in Transactions /\ s.payment = p
  BY <1>0, <1>2 DEF Land, EscrowTypeOK, Transactions
<1> QED BY <1>1, <1>2, <1>3 DEF Land, ledgerVars

\* No step takes the signature out of a row.
LEMMA RowStep ==
    ASSUME TypeInv, [Next]_vars, NEW p \in Payments, jobs[p].sig # None
    PROVE  jobs'[p].sig # None
<1> USE SettlementAssumption
<1>0. LedgerTypeOK
  BY DEF TypeInv, TypeOK
<1>1. ASSUME NEW q, NEW status \in Statuses \ {"settled"}, NEW event, NEW o,
             Record(q, status, event, o)
      PROVE  jobs'[p].sig # None
  BY <1>0, <1>1, RecordKeeps
<1>2. ASSUME NEW q, NEW s, NEW o, UpsertSettled(q, s, o)
      PROVE  jobs'[p].sig # None
  BY <1>0, <1>2 DEF UpsertSettled, UpsertJob, LedgerTypeOK, Rows
<1>3. CASE UNCHANGED jobs
  BY <1>3
<1>4. ASSUME NEW q, NEW status \in {"failed", "dead_letter"}, LedgerFailure(q, status)
      PROVE  jobs'[p].sig # None
  <2>1. CASE UNCHANGED ledgerVars
    BY <1>3, <2>1 DEF ledgerVars
  <2> QED BY <1>1, <1>4, <2>1 DEF LedgerFailure, Statuses
<1>5. ASSUME NEW t \in Tasks, RunPipeline(t) PROVE jobs'[p].sig # None
  BY <1>2, <1>3, <1>5 DEF RunPipeline, PassEligible, FetchEvidence, Submit, Confirm,
     PipelineFails, RecordSettled, RecordVerdict, InsertVerdict, FinishInMemory,
     ledgerVars
<1>6. ASSUME NEW w \in Workers, WorkerStep(w) PROVE jobs'[p].sig # None
  <2>1. CASE RunPipeline(w)
    BY <1>5, <2>1 DEF Tasks
  <2>2. CASE Recv(w) \/ SkipTerminal(w) \/ PassProbe(w) \/ SkipDuplicate(w)
             \/ AdmitInMemory(w) \/ ReadAttempts(w)
    BY <1>3, <2>2 DEF Recv, SkipTerminal, PassProbe, SkipDuplicate, AdmitInMemory,
       ReadAttempts, ledgerVars
  <2>3. CASE RecordDetected(w) \/ RecordQueued(w) \/ RecordStarted(w)
    BY <1>1, <2>3 DEF RecordDetected, RecordQueued, RecordStarted, Statuses
  <2>4. CASE RecordFailed(w) \/ RecordDeadLetter(w)
    BY <1>4, <2>4 DEF RecordFailed, RecordDeadLetter
  <2> QED BY <1>6, <2>1, <2>2, <2>3, <2>4 DEF WorkerStep
<1>7. ASSUME NEW h \in Handlers, HandlerStep(h) PROVE jobs'[p].sig # None
  <2>1. CASE RunPipeline(h)
    BY <1>5, <2>1 DEF Tasks
  <2>2. CASE RecordQueued(h)
    BY <1>1, <2>2 DEF RecordQueued, Statuses
  <2>3. CASE RecordManualFailed(h)
    BY <1>4, <2>3 DEF RecordManualFailed
  <2> QED BY <1>7, <2>1, <2>2, <2>3 DEF HandlerStep
<1>8. CASE RunLate
  <2>1. ASSUME NEW s \in lateJobs, RunLateJob(s) PROVE jobs'[p].sig # None
    BY <1>0, <2>1 DEF RunLateJob, UpsertJob, LedgerTypeOK, Rows
  <2> QED BY <1>3, <1>8, <2>1 DEF RunLate, RunLateVerdict
<1>9. CASE (Environment /\ ~RunLate) \/ UNCHANGED vars
  BY <1>3, <1>9 DEF Environment, Notice, ManualEvaluate, Disconnect, Crash, ledgerVars,
     vars
<1> QED BY <1>6, <1>7, <1>8, <1>9 DEF Next

\* Once a row names the settlement, it names it for ever: the COALESCE of
\* upsert_job, and the agreement, which lets nobody settle a payment again.
THEOREM SignatureKept == Spec => SignatureNeverLost
<1>1. Init => TypeInv /\ AgreementInv
  BY TypeInit, AgreementInit
<1>2. TypeInv /\ AgreementInv /\ [Next]_vars => (TypeInv /\ AgreementInv)'
  BY TypeStep, AgreementStep
<1>3. TypeInv /\ AgreementInv /\ (TypeInv /\ AgreementInv)' /\ [Next]_vars
        => \A p \in Payments : jobs[p].sig # None => jobs'[p].sig = jobs[p].sig
  <2> SUFFICES ASSUME TypeInv, AgreementInv, AgreementInv', [Next]_vars,
                      NEW p \in Payments, jobs[p].sig # None
               PROVE  jobs'[p].sig = jobs[p].sig
    OBVIOUS
  <2>1. resolvedBy'[p] = resolvedBy[p]
    BY ResolutionStep DEF AgreementInv, LedgerAgreesWithChain
  <2>2. jobs'[p].sig # None
    BY RowStep
  <2> QED BY <2>1, <2>2 DEF AgreementInv, LedgerAgreesWithChain
<1> QED BY <1>1, <1>2, <1>3, PTL DEF Spec, SignatureNeverLost

-----------------------------------------------------------------------------
(* The audit trail.                                                        *)

\* No step writes a 'settled' event without the verdict row.
LEMMA AuditStep ==
    ASSUME TypeInv, AuditTrail, [Next]_vars
    PROVE  AuditTrail'
<1> USE SettlementAssumption
<1>0. LedgerTypeOK /\ TaskTypeOK /\ \A t \in Tasks : HasLocals(t)
  BY DEF TypeInv, TypeOK
<1>1. CASE UNCHANGED <<verdicts, events>>
  BY <1>1 DEF AuditTrail
<1>2. ASSUME NEW t \in Tasks, RecordVerdict(t) PROVE AuditTrail'
  <2>1. PICK o \in Outcomes : InsertVerdict(job[t], tx[t].approved, o)
    BY <1>2 DEF RecordVerdict
  <2>2. job[t] \in Payments /\ tx[t].approved \in BOOLEAN
    BY <1>0, <1>2 DEF RecordVerdict, HasLocals, TaskTypeOK, Transactions
  <2> QED
    BY <1>0, <2>1, <2>2 DEF InsertVerdict, FirstRan, AllRan, AuditTrail, LedgerTypeOK
<1>3. ASSUME NEW p, NEW status, NEW event \in EventNames \ {"settled"}, NEW o,
             Record(p, status, event, o)
      PROVE  AuditTrail'
  BY <1>0, <1>3 DEF Record, AuditTrail, LedgerTypeOK
<1>4. ASSUME NEW p, NEW status \in {"failed", "dead_letter"}, LedgerFailure(p, status)
      PROVE  AuditTrail'
  <2>1. CASE UNCHANGED ledgerVars
    BY <1>1, <2>1 DEF ledgerVars
  <2> QED BY <1>3, <1>4, <2>1 DEF LedgerFailure, EventNames
<1>5. ASSUME NEW t \in Tasks, RunPipeline(t) PROVE AuditTrail'
  <2>1. CASE RecordVerdict(t)
    BY <1>2, <2>1
  <2>2. CASE ~RecordVerdict(t)
    BY <1>1, <1>5, <2>2 DEF RunPipeline, PassEligible, FetchEvidence, Submit, Confirm,
       PipelineFails, RecordSettled, UpsertSettled, FinishInMemory, ledgerVars
  <2> QED BY <2>1, <2>2
<1>6. ASSUME NEW w \in Workers, WorkerStep(w) PROVE AuditTrail'
  <2>1. CASE RunPipeline(w)
    BY <1>5, <2>1 DEF Tasks
  <2>2. CASE Recv(w) \/ SkipTerminal(w) \/ PassProbe(w) \/ SkipDuplicate(w)
             \/ AdmitInMemory(w) \/ ReadAttempts(w)
    BY <1>1, <2>2 DEF Recv, SkipTerminal, PassProbe, SkipDuplicate, AdmitInMemory,
       ReadAttempts, ledgerVars
  <2>3. CASE RecordDetected(w) \/ RecordQueued(w) \/ RecordStarted(w)
    BY <1>3, <2>3 DEF RecordDetected, RecordQueued, RecordStarted, EventNames
  <2>4. CASE RecordFailed(w) \/ RecordDeadLetter(w)
    BY <1>4, <2>4 DEF RecordFailed, RecordDeadLetter
  <2> QED BY <1>6, <2>1, <2>2, <2>3, <2>4 DEF WorkerStep
<1>7. ASSUME NEW h \in Handlers, HandlerStep(h) PROVE AuditTrail'
  <2>1. CASE RunPipeline(h)
    BY <1>5, <2>1 DEF Tasks
  <2>2. CASE RecordQueued(h)
    BY <1>3, <2>2 DEF RecordQueued, EventNames
  <2>3. CASE RecordManualFailed(h)
    BY <1>4, <2>3 DEF RecordManualFailed
  <2> QED BY <1>7, <2>1, <2>2, <2>3 DEF HandlerStep
<1>8. CASE RunLate
  <2>1. ASSUME NEW s \in lateVerdicts, RunLateVerdict(s) PROVE AuditTrail'
    <3>1. s.approved # None
      BY <1>0 DEF LedgerTypeOK
    <3> QED BY <1>0, <2>1, <3>1 DEF RunLateVerdict, AuditTrail, LedgerTypeOK
  <2> QED BY <1>1, <1>8, <2>1 DEF RunLate, RunLateJob
<1>9. CASE (Environment /\ ~RunLate) \/ UNCHANGED vars
  BY <1>1, <1>9 DEF Environment, Notice, ManualEvaluate, Disconnect, Crash, ledgerVars,
     vars
<1> QED BY <1>6, <1>7, <1>8, <1>9 DEF Next

\* A 'settled' event always has its verdict row, wherever a statement of
\* record_settled (db.rs) fails or its caller is dropped.
THEOREM AuditTrailHolds == Spec => []AuditTrail
<1>1. Init => TypeInv /\ AuditTrail
  BY TypeInit DEF Init, LedgerInit, AuditTrail
<1>2. TypeInv /\ AuditTrail /\ [Next]_vars => (TypeInv /\ AuditTrail)'
  BY TypeStep, AuditStep
<1> QED BY <1>1, <1>2, PTL DEF Spec

-----------------------------------------------------------------------------
(* Settlement implements EscrowOracle.                                     *)

\* The invariants the refinement rests on, together.
LEMMA RefinementInvariant == Spec => [](TypeInv /\ AgreementInv /\ JudgementInv)
<1>1. Init => TypeInv /\ AgreementInv /\ JudgementInv
  BY TypeInit, AgreementInit, JudgementInit
<1>2. TypeInv /\ AgreementInv /\ JudgementInv /\ [Next]_vars
        => (TypeInv /\ AgreementInv /\ JudgementInv)'
  BY TypeStep, AgreementStep, JudgementStep
<1> QED BY <1>1, <1>2, PTL DEF Spec

\* The initial state maps to EscrowOracle's.
LEMMA RefinementInit == Init => Oracle!Init
BY DEF Init, EscrowInit, LedgerInit, Oracle!Init, Resolution

\* A step that executes a transaction is a Resolve of its payment.
LEMMA RefinesResolve ==
    ASSUME TypeInv, JudgementInv, JudgementInv', [Next]_vars, NEW p \in Payments,
           resolvedBy'[p] # resolvedBy[p]
    PROVE  Oracle!Resolve(p)
<1> USE SettlementAssumption
<1>1. PICK s \in Transactions : resolvedBy' = [resolvedBy EXCEPT ![p] = s]
  BY ResolutionStep
<1>2. resolvedBy[p] = None /\ UNCHANGED verdicts /\ s # None
  BY ResolutionStep
<1>3. resolvedBy \in [Payments -> Transactions \union {None}]
  BY DEF TypeInv, TypeOK, EscrowTypeOK
<1>4. Docs[p] # "unusable" /\ s.approved = (Docs[p] = "compliant")
  BY <1>1, <1>2, <1>3 DEF JudgementInv, TransactionsAreJudged, Judged, Approve
<1>5. Docs[p] \in {"compliant", "violating"}
  BY <1>4 DEF DocKinds
<1>6. [q \in Payments |-> Resolution(resolvedBy[q])]'
        = [[q \in Payments |-> Resolution(resolvedBy[q])] EXCEPT
             ![p] = IF Docs[p] = "compliant" THEN "approved" ELSE "rejected"]
  BY <1>1, <1>2, <1>3, <1>4 DEF Resolution
<1> QED
  BY <1>2, <1>5, <1>6 DEF Oracle!Resolve, Resolution

\* A step that writes a verdict row is a Publish of its payment.
LEMMA RefinesPublish ==
    ASSUME TypeInv, AgreementInv, [Next]_vars, NEW p \in Payments,
           verdicts'[p] # verdicts[p]
    PROVE  Oracle!Publish(p)
<1> USE SettlementAssumption
<1>1. /\ resolvedBy[p] # None /\ UNCHANGED resolvedBy
      /\ verdicts' = [verdicts EXCEPT ![p] = resolvedBy[p].approved]
  BY VerdictStep
<1>2. verdicts \in [Payments -> BOOLEAN \union {None}]
      /\ resolvedBy \in [Payments -> Transactions \union {None}]
  BY DEF TypeInv, TypeOK, EscrowTypeOK, LedgerTypeOK
<1>3. resolvedBy[p].approved \in BOOLEAN
  BY <1>1, <1>2 DEF Transactions
<1>4. verdicts[p] = None
  BY <1>1, <1>2 DEF AgreementInv, LedgerAgreesWithChain
<1> DEFINE pub(v) == IF v = None THEN "none" ELSE IF v THEN "approved" ELSE "rejected"
<1>5. [q \in Payments |-> pub(verdicts'[q])]
        = [[q \in Payments |-> pub(verdicts[q])] EXCEPT ![p] = Resolution(resolvedBy[p])]
  BY <1>1, <1>2, <1>3 DEF Resolution
<1>6. Resolution(resolvedBy[p]) # "open"
  BY <1>1 DEF Resolution
<1> QED
  BY <1>1, <1>4, <1>5, <1>6 DEF Oracle!Publish

\* Every step is a step of EscrowOracle, or changes nothing it shows.
LEMMA RefinementStep ==
    ASSUME TypeInv, AgreementInv, JudgementInv, JudgementInv', [Next]_vars
    PROVE  [Oracle!Next]_(Oracle!vars)
<1>1. CASE \E p \in Payments : resolvedBy'[p] # resolvedBy[p]
  BY <1>1, RefinesResolve DEF Oracle!Next
<1>2. CASE \E p \in Payments : verdicts'[p] # verdicts[p]
  BY <1>2, RefinesPublish DEF Oracle!Next
<1>3. CASE \A p \in Payments : resolvedBy'[p] = resolvedBy[p] /\ verdicts'[p] = verdicts[p]
  BY <1>3 DEF Oracle!vars
<1> QED BY <1>1, <1>2, <1>3

\* Workers, handlers, crashes and a failing ledger implement the promise to the
\* parties: one verdict per payment, the one its documents call for, and a
\* published verdict that is the chain's (run_pipeline, record_settled).
THEOREM Refinement == Spec => ImplementsEscrowOracle
<1>1. Init => Oracle!Init
  BY RefinementInit
<1>2. /\ TypeInv /\ AgreementInv /\ JudgementInv
      /\ (TypeInv /\ AgreementInv /\ JudgementInv)' /\ [Next]_vars
      => [Oracle!Next]_(Oracle!vars)
  BY RefinementStep
<1> QED
  BY <1>1, <1>2, RefinementInvariant, PTL DEF Spec, ImplementsEscrowOracle, Oracle!Spec

-----------------------------------------------------------------------------
(* The types, and the invariant as a whole.                                *)

\* Every variable keeps its type; in particular the channel never holds more
\* jobs than its capacity (mpsc::channel, main.rs).
THEOREM TypesHold == Spec => []TypeOK
<1>1. TypeInv => TypeOK
  BY DEF TypeInv
<1> QED BY <1>1, TypeCorrectness, PTL

\* The inductive invariant that TLC checks on a small instance holds for every
\* number of payments, workers and handlers (the worker loop, main.rs;
\* manual_evaluate, server.rs; record_settled, db.rs).
THEOREM InvariantHolds == Spec => []IInv
<1>1. TypeInv /\ AgreementInv /\ JudgementInv /\ BudgetInv /\ AuditTrail => IInv
  BY DEF IInv
<1> QED BY <1>1, RefinementInvariant, BudgetInvariant, AuditTrailHolds, PTL

-----------------------------------------------------------------------------
(* The in-memory dedupe.                                                   *)

\* The calls of a worker whose job has passed the dedupe set.
Admitted == PipelineCalls \union {"record_settled", "record_failure"}

Released(w, p) == p \notin processed[w] /\ attemptsMem[w][p] < DeadLetterMaxAttempts

\* With a ledger the maps stay empty.  Without one, an admitted job runs on the
\* count of its map entry, and every other counted job has been released.
MemoryInv(w) ==
    /\ UseLedger => pc[w] # "admit_in_memory"
    /\ UseLedger => \A p \in Payments : attemptsMem[w][p] = 0
    /\ ~UseLedger => pc[w] \in Admitted \union {"idle", "admit_in_memory"}
    /\ ~UseLedger /\ pc[w] \in Admitted => attempt[w] = attemptsMem[w][job[w]]
    /\ \A p \in Payments :
          attemptsMem[w][p] > 0 => Released(w, p) \/ (pc[w] \in Admitted /\ job[w] = p)

\* What others do leaves a worker's maps alone.
LEMMA MemoryFrame ==
    ASSUME NEW w \in Workers, MemoryInv(w),
           pc'[w] = pc[w], job'[w] = job[w], attempt'[w] = attempt[w],
           processed'[w] = processed[w], attemptsMem'[w] = attemptsMem[w]
    PROVE  MemoryInv(w)'
BY DEF MemoryInv, Released

\* A worker's own step keeps its maps in order.
LEMMA MemoryStep ==
    ASSUME TypeInv, NEW w \in Workers, MemoryInv(w), WorkerStep(w)
    PROVE  MemoryInv(w)'
<1> USE SettlementAssumption
<1>0. /\ TaskTypeOK /\ WorkerTypeOK /\ HasLocals(w) /\ w \in Tasks
      /\ attemptsMem[w] \in [Payments -> Nat]
  BY DEF TypeInv, TypeOK, WorkerTypeOK, Tasks
<1>1. CASE Recv(w)
  <2>1. pc'[w] = (IF UseLedger THEN "is_terminal" ELSE "admit_in_memory")
    BY <1>0, <1>1 DEF Recv, Goto, TaskTypeOK
  <2>2. pc[w] = "idle" /\ UNCHANGED <<processed, attemptsMem>>
    BY <1>1 DEF Recv
  <2> QED BY <2>1, <2>2 DEF MemoryInv, Released, Admitted, PipelineCalls
<1>2. CASE AdmitInMemory(w)
  <2>1. /\ pc[w] = "admit_in_memory" /\ pc'[w] = "is_eligible"
        /\ job'[w] = job[w] /\ job[w] \in Payments
        /\ attempt'[w] = attemptsMem[w][job[w]] + 1
        /\ processed'[w] = processed[w] \union {job[w]}
        /\ attemptsMem'[w] = [attemptsMem[w] EXCEPT ![job[w]] = @ + 1]
    BY <1>0, <1>2 DEF AdmitInMemory, Goto, TaskTypeOK, WorkerTypeOK, HasLocals
  <2>2. ASSUME NEW p \in Payments, attemptsMem'[w][p] > 0, p # job[w]
        PROVE  Released(w, p)'
    BY <1>0, <2>1, <2>2 DEF MemoryInv, Released, Admitted, PipelineCalls
  <2> QED BY <1>0, <2>1, <2>2 DEF MemoryInv, Admitted, PipelineCalls
<1>3. CASE SkipTerminal(w) \/ SkipDuplicate(w)
  <2>1. /\ pc[w] \in {"is_terminal", "admit_in_memory"} /\ pc'[w] = "idle"
        /\ UNCHANGED <<processed, attemptsMem>>
    BY <1>0, <1>3 DEF SkipTerminal, SkipDuplicate, Reset, workerVars
  <2> QED BY <2>1 DEF MemoryInv, Released, Admitted, PipelineCalls
<1>4. CASE PassProbe(w) \/ RecordDetected(w) \/ RecordQueued(w) \/ RecordStarted(w)
           \/ ReadAttempts(w)
  <2>1. /\ pc[w] \in {"is_terminal", "record_detected", "record_queued",
                      "record_started", "attempt_count"}
        /\ pc'[w] # "admit_in_memory" /\ UNCHANGED <<processed, attemptsMem>>
    BY <1>0, <1>4 DEF PassProbe, RecordDetected, RecordQueued, RecordStarted,
       ReadAttempts, Goto, TaskTypeOK, workerVars
  <2> QED BY <2>1 DEF MemoryInv, Released, Admitted, PipelineCalls
<1>5. CASE PassEligible(w) \/ FetchEvidence(w) \/ Submit(w) \/ Confirm(w)
           \/ PipelineFails(w)
  <2>1. /\ pc[w] \in Admitted /\ pc'[w] \in Admitted
        /\ job'[w] = job[w] /\ attempt'[w] = attempt[w]
        /\ UNCHANGED <<processed, attemptsMem>>
    BY <1>0, <1>5 DEF PassEligible, FetchEvidence, Submit, Confirm, PipelineFails,
       Goto, TaskTypeOK, workerVars, Admitted, PipelineCalls
  <2> QED BY <2>1 DEF MemoryInv, Released, Admitted, PipelineCalls
<1>6. CASE RecordSettled(w) \/ RecordVerdict(w) \/ FinishInMemory(w)
           \/ RecordDeadLetter(w)
  <2>1. /\ pc[w] \in Admitted \union {"insert_verdict"}
        /\ job[w] \in Payments
    BY <1>0, <1>6 DEF RecordSettled, RecordVerdict, FinishInMemory, RecordDeadLetter,
       Admitted, HasLocals
  <2>2. UNCHANGED processed
    BY <1>6 DEF RecordSettled, RecordVerdict, FinishInMemory, RecordDeadLetter
  <2>3. CASE pc'[w] = "idle" /\ ForgetAttempts(w)
    <3>1. attemptsMem'[w] = [attemptsMem[w] EXCEPT ![job[w]] = 0]
      BY <1>0, <2>1, <2>3 DEF ForgetAttempts, WorkerTypeOK
    <3> QED BY <1>0, <2>1, <2>2, <2>3, <3>1 DEF MemoryInv, Released, Admitted,
            PipelineCalls
  <2>4. CASE pc'[w] = "insert_verdict" /\ UseLedger /\ UNCHANGED attemptsMem
    BY <2>2, <2>4 DEF MemoryInv, Released, Admitted, PipelineCalls
  <2>5. \/ pc'[w] = "idle" /\ ForgetAttempts(w)
        \/ pc'[w] = "insert_verdict" /\ UseLedger /\ UNCHANGED attemptsMem
    BY <1>0, <1>6 DEF RecordSettled, RecordVerdict, FinishInMemory, RecordDeadLetter,
       Goto, Reset, TaskTypeOK
  <2> QED BY <2>3, <2>4, <2>5
<1>7. CASE RecordFailed(w)
  <2>1. /\ pc[w] = "record_failure" /\ pc'[w] = "idle" /\ job[w] \in Payments
        /\ ~(attempt[w] >= DeadLetterMaxAttempts)
        /\ processed'[w] = processed[w] \ {job[w]} /\ UNCHANGED attemptsMem
    BY <1>0, <1>7 DEF RecordFailed, ShouldDeadLetter, Reset, WorkerTypeOK, HasLocals
  <2>2. attempt[w] \in Nat
    BY <1>0 DEF TaskTypeOK
  <2>3. ~UseLedger => attemptsMem[w][job[w]] < DeadLetterMaxAttempts
    BY <2>1, <2>2 DEF MemoryInv, Admitted
  <2> QED BY <1>0, <2>1, <2>3 DEF MemoryInv, Released, Admitted, PipelineCalls
<1> QED
  BY <1>1, <1>2, <1>3, <1>4, <1>5, <1>6, <1>7 DEF WorkerStep, RunPipeline

\* Without a ledger a payment is held back by the dedupe set only while it runs or
\* after its budget was spent, however jobs are queued, fail, settle or crash
\* (processed_mem and attempts_mem, main.rs).
THEOREM FailedAreReleased == Spec => []FailedJobsAreReleased
<1> DEFINE MInv == \A w \in Workers : MemoryInv(w)
<1>1. Init => MInv
  BY SettlementAssumption DEF Init, NoAttempts, MemoryInv, Admitted, PipelineCalls, Tasks
<1>2. TypeInv /\ MInv /\ [Next]_vars => MInv'
  <2> SUFFICES ASSUME TypeInv, MInv, [Next]_vars, NEW w \in Workers
               PROVE  MemoryInv(w)'
    OBVIOUS
  <2>0. /\ TaskTypeOK /\ WorkerTypeOK /\ MemoryInv(w) /\ w \in Tasks /\ w \notin Handlers
    BY SettlementAssumption DEF TypeInv, TypeOK, Tasks
  <2>1. CASE WorkerStep(w)
    BY <2>1, <2>0, MemoryStep
  <2>2. ASSUME NEW v \in Workers, v # w, WorkerStep(v) PROVE MemoryInv(w)'
    <3>1. /\ pc'[w] = pc[w] /\ job'[w] = job[w] /\ attempt'[w] = attempt[w]
      BY <2>0, <2>2 DEF TaskTypeOK, Goto, Reset, WorkerStep, RunPipeline, Recv,
         SkipTerminal, PassProbe, SkipDuplicate, AdmitInMemory, RecordDetected,
         RecordQueued, RecordStarted, ReadAttempts, PassEligible, FetchEvidence, Submit,
         Confirm, PipelineFails, RecordSettled, RecordVerdict, FinishInMemory,
         RecordFailed, RecordDeadLetter
    <3>2. processed'[w] = processed[w] /\ attemptsMem'[w] = attemptsMem[w]
      BY <2>0, <2>2 DEF WorkerTypeOK, WorkerStep, RunPipeline, Recv, workerVars,
         SkipTerminal, PassProbe, SkipDuplicate, AdmitInMemory, RecordDetected,
         RecordQueued, RecordStarted, ReadAttempts, PassEligible, FetchEvidence, Submit,
         Confirm, PipelineFails, RecordSettled, RecordVerdict, FinishInMemory,
         RecordFailed, RecordDeadLetter, ForgetAttempts
    <3> QED BY <2>0, <3>1, <3>2, MemoryFrame
  <2>3. ASSUME NEW h \in Handlers, HandlerStep(h) PROVE MemoryInv(w)'
    <3>0. h # w /\ h \notin Workers
      BY <2>0, SettlementAssumption
    <3>1. /\ pc'[w] = pc[w] /\ job'[w] = job[w] /\ attempt'[w] = attempt[w]
      BY <2>0, <2>3, <3>0 DEF TaskTypeOK, Goto, Reset, HandlerStep, RunPipeline,
         RecordQueued, PassEligible, FetchEvidence, Submit, Confirm, PipelineFails,
         RecordSettled, RecordVerdict, FinishInMemory, RecordManualFailed
    <3>2. processed' = processed /\ attemptsMem' = attemptsMem
      BY <2>3, <3>0 DEF HandlerStep, RunPipeline, workerVars, RecordQueued, PassEligible,
         FetchEvidence, Submit, Confirm, PipelineFails, RecordSettled, RecordVerdict,
         FinishInMemory, RecordManualFailed, ForgetAttempts
    <3> QED BY <2>0, <3>1, <3>2, MemoryFrame
  <2>4. CASE Crash(w)
    <3>1. /\ pc'[w] = "idle" /\ processed'[w] = {}
          /\ attemptsMem'[w] = [p \in Payments |-> 0]
      BY <2>0, <2>4 DEF Crash, Reset, NoAttempts, WorkerTypeOK
    <3> QED BY <3>1 DEF MemoryInv, Released, Admitted, PipelineCalls
  <2>5. ASSUME NEW v \in Workers, v # w, Crash(v) PROVE MemoryInv(w)'
    <3>1. /\ pc'[w] = pc[w] /\ job'[w] = job[w] /\ attempt'[w] = attempt[w]
          /\ processed'[w] = processed[w] /\ attemptsMem'[w] = attemptsMem[w]
      BY <2>0, <2>5 DEF Crash, Reset, WorkerTypeOK
    <3> QED BY <2>0, <3>1, MemoryFrame
  <2>6. CASE \/ Chain /\ UNCHANGED <<ledgerVars, workerVars, taskVars>>
             \/ \E v \in Workers, p \in Payments : Notice(v, p)
             \/ \E h \in Handlers, p \in Payments : ManualEvaluate(h, p)
             \/ \E h \in Handlers : Disconnect(h)
             \/ RunLate /\ UNCHANGED <<escrowVars, workerVars, taskVars>>
             \/ UNCHANGED vars
    <3>1. /\ pc'[w] = pc[w] /\ job'[w] = job[w] /\ attempt'[w] = attempt[w]
          /\ processed' = processed /\ attemptsMem' = attemptsMem
      BY <2>0, <2>6 DEF Notice, ManualEvaluate, Disconnect, Goto, Reset, vars,
         workerVars, taskVars, TaskTypeOK
    <3> QED BY <2>0, <3>1, MemoryFrame
  <2> QED
    BY <2>1, <2>2, <2>3, <2>4, <2>5, <2>6 DEF Next, Environment
<1>3. TypeInv /\ MInv => FailedJobsAreReleased
  BY DEF MemoryInv, Released, FailedJobsAreReleased
<1> HIDE DEF MInv
<1> QED BY <1>1, <1>2, <1>3, TypeCorrectness, PTL DEF Spec

-----------------------------------------------------------------------------
(* Redundant submissions.                                                  *)

OneTask == Handlers = {} /\ \A v, w \in Workers : v = w

\* Between the eligibility check and the submission neither the row nor a
\* statement on its way to it names a settlement.
Unsettled(w) ==
    pc[w] \in {"fetch_evidence", "settle"} =>
        /\ jobs[job[w]].sig = None
        /\ \A s \in lateJobs : s.payment = job[w] => s.sig = None

\* A worker that has passed the check holds a payment without a settlement.
LEMMA UnsettledStep ==
    ASSUME OneTask, TypeInv, AgreementInv, NEW w \in Workers, Unsettled(w), [Next]_vars
    PROVE  Unsettled(w)'
<1> USE SettlementAssumption
<1>0. /\ TaskTypeOK /\ LedgerTypeOK /\ HasLocals(w) /\ w \in Tasks
      /\ LedgerAgreesWithChain /\ LateAgrees
  BY DEF TypeInv, TypeOK, AgreementInv, Tasks
<1>1. CASE PassEligible(w)
  <2>1. job'[w] = job[w] /\ job[w] \in Payments /\ UNCHANGED <<jobs, lateJobs>>
    BY <1>0, <1>1 DEF PassEligible, HasLocals, ledgerVars, PipelineCalls
  <2>2. resolvedBy[job[w]] = None
    BY <1>1 DEF PassEligible, Eligible, ReadsAsJob
  <2>3. /\ jobs[job[w]].sig = None
        /\ \A s \in lateJobs : s.payment = job[w] => s.sig = None
    BY <1>0, <2>1, <2>2 DEF LedgerAgreesWithChain, LateAgrees
  <2> QED BY <2>1, <2>3 DEF Unsettled
<1>2. CASE FetchEvidence(w)
  BY <1>0, <1>2 DEF FetchEvidence, Goto, TaskTypeOK, ledgerVars, Unsettled
<1>3. CASE WorkerStep(w) /\ ~PassEligible(w) /\ ~FetchEvidence(w)
  <2>1. pc'[w] \notin {"fetch_evidence", "settle"}
    BY <1>0, <1>3 DEF TaskTypeOK, Goto, Reset, WorkerStep, RunPipeline, Recv,
       SkipTerminal, PassProbe, SkipDuplicate, AdmitInMemory, RecordDetected,
       RecordQueued, RecordStarted, ReadAttempts, Submit, Confirm, PipelineFails,
       RecordSettled, RecordVerdict, FinishInMemory, RecordFailed, RecordDeadLetter
  <2> QED BY <2>1 DEF Unsettled
<1>4. CASE Crash(w)
  BY <1>0, <1>4 DEF Crash, Reset, Unsettled
<1>5. CASE \/ Chain /\ UNCHANGED <<ledgerVars, workerVars, taskVars>>
           \/ \E v \in Workers, p \in Payments : Notice(v, p)
           \/ UNCHANGED vars
  BY <1>5 DEF Notice, vars, ledgerVars, taskVars, Unsettled
<1>6. CASE RunLate /\ UNCHANGED <<escrowVars, workerVars, taskVars>>
  <2>1. pc'[w] = pc[w] /\ job'[w] = job[w]
    BY <1>6 DEF taskVars
  <2>2. ASSUME NEW s \in lateJobs, RunLateJob(s) PROVE Unsettled(w)'
    BY <1>0, <2>1, <2>2 DEF RunLateJob, UpsertJob, LedgerTypeOK, Unsettled, HasLocals
  <2>3. ASSUME NEW s \in lateVerdicts, RunLateVerdict(s) PROVE Unsettled(w)'
    BY <2>1, <2>3 DEF RunLateVerdict, Unsettled
  <2> QED BY <1>6, <2>2, <2>3 DEF RunLate
<1> QED
  BY <1>1, <1>2, <1>3, <1>4, <1>5, <1>6 DEF Next, Environment, OneTask

\* One worker whose ledger names the settlement of a payment sends no second
\* ConfirmOracle for it, although every ledger statement and probe may fail
\* and the expiry be judged by a clock that lags (main.rs, the dedupe comment).
\* With a second worker or a manual request this does not hold.
THEOREM OneTaskNeverResubmits ==
    ASSUME OneTask
    PROVE  Spec => NoRedundantSubmit
<1> DEFINE UInv == \A w \in Workers : Unsettled(w)
<1>1. Init => UInv
  BY DEF Init, Unsettled, Tasks
<1>2. TypeInv /\ AgreementInv /\ UInv /\ [Next]_vars => UInv'
  BY UnsettledStep
<1>3. TypeInv /\ UInv /\ [Next]_vars =>
        \A p \in Payments : (\E s \in sent' \ sent : s.payment = p) => jobs[p].sig = None
  <2> SUFFICES ASSUME TypeInv, UInv, [Next]_vars, NEW p \in Payments,
                      NEW s \in sent' \ sent, s.payment = p
               PROVE  jobs[p].sig = None
    OBVIOUS
  <2>1. PICK w \in Workers : Submit(w)
    BY DEF OneTask, Next, vars, escrowVars, Environment, Chain, SubmitDelivery, Expire,
       Reassign, Land, Drop, Notice, Crash, WorkerStep, RunPipeline, Recv, SkipTerminal,
       PassProbe, SkipDuplicate, AdmitInMemory, RecordDetected, RecordQueued,
       RecordStarted, ReadAttempts, PassEligible, FetchEvidence, Confirm, PipelineFails,
       RecordSettled, RecordVerdict, FinishInMemory, RecordFailed, RecordDeadLetter
  <2>2. s.payment = job[w] /\ pc[w] = "settle"
    BY <2>1 DEF Submit
  <2> QED BY <2>1, <2>2 DEF Unsettled
<1> HIDE DEF UInv
<1> QED BY <1>1, <1>2, <1>3, RefinementInvariant, PTL DEF Spec, NoRedundantSubmit

-----------------------------------------------------------------------------
(* Finished rows.                                                          *)

NothingLate == lateJobs = {} /\ lateVerdicts = {}

\* A ledger that answers leaves no statement behind.
LEMMA NothingLateStep ==
    ASSUME ~FaultyDb, NothingLate, [Next]_vars
    PROVE  NothingLate'
<1>0. Outcomes = {"ok"}
  BY DEF Outcomes
<1>1. ASSUME NEW p, NEW status, NEW event, NEW o \in Outcomes, Record(p, status, event, o)
      PROVE  NothingLate'
  BY <1>0, <1>1 DEF Record, Behind, NothingLate
<1>2. CASE UNCHANGED ledgerVars
  BY <1>2 DEF ledgerVars, NothingLate
<1>3. ASSUME NEW t, RunPipeline(t) PROVE NothingLate'
  <2>1. CASE RecordSettled(t) \/ RecordVerdict(t)
    BY <1>0, <2>1 DEF RecordSettled, RecordVerdict, UpsertSettled, InsertVerdict, Behind,
       NothingLate
  <2> QED
    BY <1>2, <1>3, <2>1 DEF RunPipeline, PassEligible, FetchEvidence, Submit, Confirm,
       PipelineFails, FinishInMemory
<1>4. ASSUME NEW w, WorkerStep(w) PROVE NothingLate'
  BY <1>1, <1>2, <1>3, <1>4 DEF WorkerStep, Recv, SkipTerminal, PassProbe, SkipDuplicate,
     AdmitInMemory, RecordDetected, RecordQueued, RecordStarted, ReadAttempts,
     RecordFailed, RecordDeadLetter, LedgerFailure
<1>5. ASSUME NEW h, HandlerStep(h) PROVE NothingLate'
  BY <1>1, <1>2, <1>3, <1>5 DEF HandlerStep, RecordQueued, RecordManualFailed,
     LedgerFailure
<1>6. CASE Environment
  BY <1>2, <1>6 DEF Environment, Notice, ManualEvaluate, Disconnect, Crash, RunLate,
     NothingLate
<1> QED BY <1>2, <1>4, <1>5, <1>6 DEF Next, vars

\* From the probe to the record of how it ended, a job's row is not terminal.
Unfinished(w) ==
    pc[w] \notin {"idle", "is_terminal", "insert_verdict"} => ~IsTerminal(jobs[job[w]])

\* Between the probe and the record of its end the only task keeps its row open.
LEMMA UnfinishedStep ==
    ASSUME OneTask, UseLedger, ~FaultyDb, TypeInv, NothingLate, NEW w \in Workers,
           Unfinished(w), [Next]_vars
    PROVE  Unfinished(w)'
<1> USE SettlementAssumption
<1>0. /\ TaskTypeOK /\ LedgerTypeOK /\ HasLocals(w) /\ w \in Tasks /\ Outcomes = {"ok"}
  BY DEF TypeInv, TypeOK, Tasks, Outcomes
<1>1. CASE PassProbe(w)
  BY <1>0, <1>1 DEF PassProbe, Goto, TaskTypeOK, ledgerVars, Unfinished
<1>2. CASE RecordDetected(w) \/ RecordQueued(w) \/ RecordStarted(w)
  <2>1. /\ job'[w] = job[w] /\ job[w] \in Payments
        /\ \E status \in {"detected", "queued", "running"}, event \in EventNames,
              o \in Outcomes : Record(job[w], status, event, o)
    BY <1>0, <1>2 DEF RecordDetected, RecordQueued, RecordStarted, HasLocals, EventNames
  <2>2. jobs'[job[w]].status \in {"detected", "queued", "running"}
    BY <1>0, <2>1 DEF Record, FirstRan, UpsertJob, LedgerTypeOK
  <2> QED BY <2>1, <2>2 DEF Unfinished, IsTerminal
<1>3. CASE AdmitInMemory(w) \/ ReadAttempts(w) \/ PassEligible(w) \/ FetchEvidence(w)
           \/ Submit(w) \/ Confirm(w) \/ PipelineFails(w)
  <2>1. /\ job'[w] = job[w] /\ UNCHANGED jobs
        /\ pc[w] \notin {"idle", "is_terminal", "insert_verdict"}
    BY <1>3 DEF AdmitInMemory, ReadAttempts, PassEligible, FetchEvidence, Submit,
       Confirm, PipelineFails, ledgerVars, PipelineCalls
  <2> QED BY <2>1 DEF Unfinished
<1>4. CASE Recv(w) \/ SkipTerminal(w) \/ SkipDuplicate(w) \/ RecordSettled(w)
           \/ RecordVerdict(w) \/ FinishInMemory(w) \/ RecordFailed(w)
           \/ RecordDeadLetter(w) \/ Crash(w)
  <2>1. pc'[w] \in {"idle", "is_terminal", "insert_verdict"}
    BY <1>0, <1>4 DEF Recv, SkipTerminal, SkipDuplicate, RecordSettled, RecordVerdict,
       FinishInMemory, RecordFailed, RecordDeadLetter, Crash, Goto, Reset, TaskTypeOK
  <2> QED BY <2>1 DEF Unfinished
<1>5. CASE \/ Chain /\ UNCHANGED <<ledgerVars, workerVars, taskVars>>
           \/ \E v \in Workers, p \in Payments : Notice(v, p)
           \/ UNCHANGED vars
  BY <1>5 DEF Notice, vars, ledgerVars, taskVars, Unfinished
<1>6. ~RunLate
  BY DEF NothingLate, RunLate
<1> QED
  BY <1>1, <1>2, <1>3, <1>4, <1>5, <1>6 DEF Next, Environment, OneTask, WorkerStep,
     RunPipeline

\* One worker over a ledger that answers never touches a row it has settled or
\* dead-lettered, restarts included (is_terminal, db.rs).  A failed probe, a
\* second task or a manual request may.
THEOREM OneTaskTerminalIsFinal ==
    ASSUME OneTask, UseLedger, ~FaultyDb
    PROVE  Spec => TerminalIsFinal
<1> DEFINE FInv == NothingLate /\ \A w \in Workers : Unfinished(w)
<1>1. Init => FInv
  BY DEF Init, LedgerInit, NothingLate, Unfinished, Tasks
<1>2. TypeInv /\ FInv /\ [Next]_vars => FInv'
  BY UnfinishedStep, NothingLateStep
<1>3. TypeInv /\ FInv /\ [Next]_vars =>
        \A p \in Payments :
           jobs[p].status \in {"settled", "dead_letter"} => jobs'[p] = jobs[p]
  <2> SUFFICES ASSUME TypeInv, FInv, [Next]_vars, NEW p \in Payments, IsTerminal(jobs[p])
               PROVE  jobs'[p] = jobs[p]
    BY DEF IsTerminal
  <2>0. LedgerTypeOK
    BY DEF TypeInv, TypeOK
  <2>1. CASE UNCHANGED jobs
    BY <2>1
  <2>2. ASSUME NEW w \in Workers,
               \/ RecordDetected(w) \/ RecordQueued(w) \/ RecordStarted(w)
               \/ RecordSettled(w) \/ RecordFailed(w) \/ RecordDeadLetter(w)
        PROVE  jobs'[p] = jobs[p]
    <3>1. pc[w] \notin {"idle", "is_terminal", "insert_verdict"}
      BY <2>2 DEF RecordDetected, RecordQueued, RecordStarted, RecordSettled,
         RecordFailed, RecordDeadLetter
    <3>2. job[w] # p
      BY <3>1 DEF Unfinished
    <3> QED
      BY <2>0, <2>2, <3>2 DEF RecordDetected, RecordQueued, RecordStarted, RecordSettled,
         RecordFailed, RecordDeadLetter, LedgerFailure, Record, UpsertSettled, ledgerVars,
         LedgerTypeOK
  <2>3. ~RunLate
    BY DEF NothingLate, RunLate
  <2> QED
    BY <2>1, <2>2, <2>3 DEF OneTask, Next, vars, ledgerVars, Environment, Notice, Crash,
       WorkerStep, RunPipeline, Recv, SkipTerminal, PassProbe, SkipDuplicate,
       AdmitInMemory, ReadAttempts, PassEligible, FetchEvidence, Submit, Confirm,
       PipelineFails, RecordVerdict, InsertVerdict, FinishInMemory
<1> HIDE DEF FInv
<1> QED BY <1>1, <1>2, <1>3, TypeCorrectness, PTL DEF Spec, TerminalIsFinal

-----------------------------------------------------------------------------
(* Rows left behind.                                                       *)

\* A worker's step leaves every open row to a task, itself or the one before.
LEMMA StrandedWorkerStep ==
    ASSUME UseLedger, ~FaultyDb, TypeInv, NoRowIsStranded,
           NEW w \in Workers, WorkerStep(w)
    PROVE  NoRowIsStranded'
<1> USE SettlementAssumption
<1> DEFINE Open(p) == jobs[p].status \in {"detected", "queued", "running"}
<1>0. /\ TaskTypeOK /\ LedgerTypeOK /\ HasLocals(w) /\ w \in Tasks /\ Outcomes = {"ok"}
  BY DEF TypeInv, TypeOK, Tasks, Outcomes
<1>1. \A t \in Tasks : t # w => pc'[t] = pc[t] /\ job'[t] = job[t]
  BY <1>0 DEF TaskTypeOK, Goto, Reset, WorkerStep, RunPipeline, Recv,
     SkipTerminal, PassProbe, SkipDuplicate, AdmitInMemory, RecordDetected,
     RecordQueued, RecordStarted, ReadAttempts, PassEligible, FetchEvidence, Submit,
     Confirm, PipelineFails, RecordSettled, RecordVerdict, FinishInMemory,
     RecordFailed, RecordDeadLetter
<1>2. ASSUME NEW p \in Payments, Open(p), ~AtWork(w, p)
      PROVE  \E t \in Tasks : AtWork(t, p)'
  <2>1. PICK t \in Tasks : AtWork(t, p)
    BY <1>2 DEF NoRowIsStranded
  <2> QED BY <1>1, <1>2, <2>1 DEF AtWork
<1>3. ASSUME NEW p \in Payments, Open(p), ~AtWork(w, p) \/ AtWork(w, p)'
      PROVE  \E t \in Tasks : AtWork(t, p)'
  BY <1>0, <1>2, <1>3
<1>4. CASE RecordDetected(w) \/ RecordQueued(w) \/ RecordStarted(w)
  <2>1. AtWork(w, job[w])'
    BY <1>0, <1>4 DEF RecordDetected, RecordQueued, RecordStarted, AtWork, Goto,
       TaskTypeOK, PipelineCalls
  <2>2. \A p \in Payments : p # job[w] => jobs'[p] = jobs[p]
    BY <1>0, <1>4 DEF RecordDetected, RecordQueued, RecordStarted, Record, LedgerTypeOK
  <2>3. ASSUME NEW p \in Payments, Open(p)' PROVE \E t \in Tasks : AtWork(t, p)'
    <3>1. CASE p = job[w]
      BY <1>0, <1>4, <2>1, <3>1 DEF RecordDetected, RecordQueued, RecordStarted, AtWork
    <3>2. CASE p # job[w]
      BY <1>2, <2>2, <2>3, <3>2 DEF AtWork
    <3> QED BY <3>1, <3>2
  <2> QED BY <2>3 DEF NoRowIsStranded
<1>5. CASE RecordSettled(w) \/ RecordFailed(w) \/ RecordDeadLetter(w)
  <2>0. job[w] \in Payments
    BY <1>0, <1>5 DEF RecordSettled, RecordFailed, RecordDeadLetter, HasLocals
  <2>1. /\ jobs'[job[w]].status \in {"settled", "failed", "dead_letter"}
        /\ \A p \in Payments : p # job[w] => jobs'[p] = jobs[p]
    BY <1>0, <1>5, <2>0 DEF RecordSettled, RecordFailed, RecordDeadLetter, LedgerFailure,
       Record, UpsertSettled, UpsertJob, FirstRan, LedgerTypeOK
  <2>2. ASSUME NEW p \in Payments, Open(p)' PROVE \E t \in Tasks : AtWork(t, p)'
    BY <1>2, <2>1, <2>2 DEF AtWork
  <2> QED BY <2>2 DEF NoRowIsStranded
<1>6. CASE ReadAttempts(w) \/ PassEligible(w) \/ FetchEvidence(w) \/ Submit(w)
           \/ Confirm(w) \/ PipelineFails(w)
  <2>1. UNCHANGED <<jobs, job>>
    BY <1>6 DEF ReadAttempts, PassEligible, FetchEvidence, Submit, Confirm, PipelineFails,
       ledgerVars
  <2>2. AtWork(w, job[w])'
    BY <1>0, <1>6, <2>1 DEF ReadAttempts, PassEligible, FetchEvidence, Submit, Confirm,
       PipelineFails, Goto, TaskTypeOK, PipelineCalls, AtWork
  <2>3. ASSUME NEW p \in Payments, Open(p)' PROVE \E t \in Tasks : AtWork(t, p)'
    BY <1>3, <2>1, <2>2, <2>3 DEF AtWork
  <2> QED BY <2>3 DEF NoRowIsStranded
<1>7. CASE Recv(w) \/ SkipTerminal(w) \/ PassProbe(w) \/ SkipDuplicate(w)
           \/ AdmitInMemory(w) \/ RecordVerdict(w) \/ FinishInMemory(w)
  <2>1. UNCHANGED jobs
    BY <1>7 DEF Recv, SkipTerminal, PassProbe, SkipDuplicate, AdmitInMemory, RecordVerdict,
       FinishInMemory, InsertVerdict, ledgerVars
  <2>2. \A p : ~AtWork(w, p)
    BY <1>7 DEF Recv, SkipTerminal, PassProbe, SkipDuplicate, AdmitInMemory, RecordVerdict,
       FinishInMemory, AtWork, PipelineCalls
  <2>3. ASSUME NEW p \in Payments, Open(p)' PROVE \E t \in Tasks : AtWork(t, p)'
    BY <1>2, <2>1, <2>2, <2>3
  <2> QED BY <2>3 DEF NoRowIsStranded
<1> QED BY <1>4, <1>5, <1>6, <1>7 DEF WorkerStep, RunPipeline

\* With a ledger that answers and processes that do not crash, a row that says a
\* payment is being worked on has a task that will say how it ended, for any number
\* of processes that share ledger and key (main.rs, the worker loop).  A request
\* whose client goes away leaves its row behind, so that there are none here.
THEOREM NoRowStranded ==
    ASSUME UseLedger, ~FaultyDb, ~Crashes, Handlers = {}
    PROVE  Spec => []NoRowIsStranded
<1>1. Init => NoRowIsStranded
  BY DEF Init, LedgerInit, NoRowIsStranded
<1>2. TypeInv /\ NothingLate /\ NoRowIsStranded /\ [Next]_vars => NoRowIsStranded'
  <2> SUFFICES ASSUME TypeInv, NothingLate, NoRowIsStranded, [Next]_vars
               PROVE  NoRowIsStranded'
    OBVIOUS
  <2>1. ASSUME NEW w \in Workers, WorkerStep(w) PROVE NoRowIsStranded'
    BY <2>1, StrandedWorkerStep
  <2>2. CASE \/ Chain /\ UNCHANGED <<ledgerVars, workerVars, taskVars>>
             \/ \E w \in Workers, p \in Payments : Notice(w, p)
             \/ UNCHANGED vars
    <3>1. UNCHANGED <<jobs, pc, job>>
      BY <2>2 DEF Notice, vars, ledgerVars, taskVars
    <3> QED BY <3>1 DEF NoRowIsStranded, AtWork
  <2>3. ~RunLate
    BY DEF NothingLate, RunLate
  <2> QED BY <2>1, <2>2, <2>3 DEF Next, Environment, Crash
<1>3. Init => NothingLate
  BY DEF Init, LedgerInit, NothingLate
<1> QED BY <1>1, <1>2, <1>3, NothingLateStep, TypeCorrectness, PTL DEF Spec

=============================================================================
