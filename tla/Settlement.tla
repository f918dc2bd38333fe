----------------------------- MODULE Settlement -----------------------------
(***************************************************************************)
(* The two kinds of task that settle payments, over the escrow program and *)
(* the ledger they share:                                                  *)
(*                                                                         *)
(*   - the evaluation worker of each oracle process (main.rs): takes jobs  *)
(*     from a bounded channel, skips the ones already finished, runs the   *)
(*     pipeline under a timeout and records how it ended;                  *)
(*   - the POST /evaluate handlers (server.rs): run the same pipeline for  *)
(*     one payment on an operator's request.                               *)
(*                                                                         *)
(* A task moves through the calls it makes, one step per call, so another  *)
(* task, the chain or a crash may come between any two of them.  pc[t] is  *)
(* the call t makes next.                                                  *)
(***************************************************************************)
EXTENDS Ledger, Sequences

CONSTANTS
    Workers,                \* evaluation workers; each stands for its process
    Handlers,               \* manual evaluation requests a process may serve
    Host,                   \* the worker whose process serves a handler
    Docs,                   \* what the documents a payment commits to amount to
    UseLedger,              \* whether DATABASE_URL is set
    DeadLetterMaxAttempts,  \* ORACLE_DEAD_LETTER_MAX_ATTEMPTS
    ChannelCapacity,        \* job_channel_capacity
    ClockFallback,          \* whether the Clock sysvar read may fail
    Crashes,                \* whether processes may crash
    MaxAttempts             \* model bound: no notice after so many attempts

\* The documents are bound to the payment by hash, so what evaluation makes of
\* them never changes: they comply, they violate the SLA, or they do not parse.
DocKinds == {"compliant", "violating", "unusable"}

Tasks == Workers \union Handlers

ASSUME SettlementAssumption ==
    /\ None \notin Payments
    /\ None \notin Transactions
    /\ None \notin BOOLEAN
    /\ Workers \intersect Handlers = {}
    /\ Host \in [Handlers -> Workers]
    /\ Docs \in [Payments -> DocKinds]
    /\ DeadLetterMaxAttempts \in Nat
    /\ ChannelCapacity \in Nat \ {0}
    /\ {MaxAttempts, MaxLate} \subseteq Nat
    /\ {FaultyDb, UseLedger, ClockFallback, Crashes} \subseteq BOOLEAN

VARIABLES
    queue,        \* the mpsc channel from monitor and backfill to the worker
    processed,    \* processed_mem, the in-memory dedupe set (ledger disabled)
    attemptsMem,  \* attempts_mem, 0 for a missing entry
    pc,           \* the call a task makes next, "idle" between jobs
    job,          \* the payment a task works on
    tx,           \* the transaction a task has submitted
    attempt       \* attempt_count, of a worker's job

workerVars == <<queue, processed, attemptsMem>>
taskVars   == <<pc, job, tx, attempt>>
vars       == <<escrowVars, ledgerVars, workerVars, taskVars>>

\* The calls made inside run_pipeline, which the evaluation timeout covers.
PipelineCalls == {"is_eligible", "fetch_evidence", "settle", "confirm"}

Calls == PipelineCalls \union
    {"idle", "is_terminal", "admit_in_memory", "record_detected", "record_queued",
     "record_started", "attempt_count", "record_settled", "insert_verdict",
     "record_failure"}

WorkerTypeOK ==
    /\ queue \in [Workers -> Seq(Payments)]
    /\ \A w \in Workers : Len(queue[w]) <= ChannelCapacity
    /\ processed \in [Workers -> SUBSET Payments]
    /\ attemptsMem \in [Workers -> [Payments -> Nat]]

TaskTypeOK ==
    /\ pc \in [Tasks -> Calls]
    /\ job \in [Tasks -> Payments \union {None}]
    /\ tx \in [Tasks -> Transactions \union {None}]
    /\ attempt \in [Tasks -> Nat]

TypeOK == EscrowTypeOK /\ LedgerTypeOK /\ WorkerTypeOK /\ TaskTypeOK

NoAttempts == [p \in Payments |-> 0]

Init ==
    /\ EscrowInit
    /\ LedgerInit
    /\ queue = [w \in Workers |-> <<>>]
    /\ processed = [w \in Workers |-> {}]
    /\ attemptsMem = [w \in Workers |-> NoAttempts]
    /\ pc = [t \in Tasks |-> "idle"]
    /\ job = [t \in Tasks |-> None]
    /\ tx = [t \in Tasks |-> None]
    /\ attempt = [t \in Tasks |-> 0]

Goto(t, call) == pc' = [pc EXCEPT ![t] = call]

\* The tasks in ts drop their locals and are idle again.
Reset(ts) ==
    /\ pc' = [t \in Tasks |-> IF t \in ts THEN "idle" ELSE pc[t]]
    /\ job' = [t \in Tasks |-> IF t \in ts THEN None ELSE job[t]]
    /\ tx' = [t \in Tasks |-> IF t \in ts THEN None ELSE tx[t]]
    /\ attempt' = [t \in Tasks |-> IF t \in ts THEN 0 ELSE attempt[t]]

-----------------------------------------------------------------------------
(* The channel and the worker's dedupe.                                    *)

BugNoticeIgnoresCapacity(w, p) ==
    /\ ReadsAsJob(p)
    /\ jobs[p].attempts < MaxAttempts
    /\ queue' = [queue EXCEPT ![w] = Append(@, p)]
    /\ UNCHANGED <<escrowVars, ledgerVars, processed, attemptsMem, taskVars>>

\* monitor_deliveries or backfill_missed_deliveries reads the payment and sends
\* the job; the send waits while the channel is full.  How often they do so is
\* the business of the chain: the same payment may be sent any number of times.
Notice(w, p) ==
    /\ ReadsAsJob(p)
    /\ jobs[p].attempts < MaxAttempts
    /\ Len(queue[w]) < ChannelCapacity
    /\ queue' = [queue EXCEPT ![w] = Append(@, p)]
    /\ UNCHANGED <<escrowVars, ledgerVars, processed, attemptsMem, taskVars>>

Recv(w) ==
    /\ pc[w] = "idle"
    /\ queue[w] # <<>>
    /\ job' = [job EXCEPT ![w] = Head(queue[w])]
    /\ queue' = [queue EXCEPT ![w] = Tail(@)]
    /\ Goto(w, IF UseLedger THEN "is_terminal" ELSE "admit_in_memory")
    /\ UNCHANGED <<escrowVars, ledgerVars, processed, attemptsMem, tx, attempt>>

SkipTerminal(w) ==
    /\ pc[w] = "is_terminal"
    /\ IsTerminal(jobs[job[w]])
    /\ Reset({w})
    /\ UNCHANGED <<escrowVars, ledgerVars, workerVars>>

\* The probe finds no terminal row, or fails: then the worker "proceeds cautiously".
PassProbe(w) ==
    /\ pc[w] = "is_terminal"
    /\ FaultyDb \/ ~IsTerminal(jobs[job[w]])
    /\ Goto(w, "record_detected")
    /\ UNCHANGED <<escrowVars, ledgerVars, workerVars, job, tx, attempt>>

SkipDuplicate(w) ==
    /\ pc[w] = "admit_in_memory"
    /\ job[w] \in processed[w]
    /\ Reset({w})
    /\ UNCHANGED <<escrowVars, ledgerVars, workerVars>>

\* processed_mem.insert, then the in-memory attempt count.  Only the worker
\* touches either map.
AdmitInMemory(w) ==
    /\ pc[w] = "admit_in_memory"
    /\ job[w] \notin processed[w]
    /\ processed' = [processed EXCEPT ![w] = @ \union {job[w]}]
    /\ attemptsMem' = [attemptsMem EXCEPT ![w][job[w]] = @ + 1]
    /\ attempt' = [attempt EXCEPT ![w] = attemptsMem[w][job[w]] + 1]
    /\ Goto(w, "is_eligible")
    /\ UNCHANGED <<escrowVars, ledgerVars, queue, job, tx>>

RecordDetected(w) ==
    /\ pc[w] = "record_detected"
    /\ \E o \in Outcomes : Record(job[w], "detected", "detected", o)
    /\ Goto(w, "record_queued")
    /\ UNCHANGED <<escrowVars, workerVars, job, tx, attempt>>

\* record_queued, by a worker and by a handler; neither looks at how it ends.
RecordQueued(t) ==
    /\ pc[t] = "record_queued"
    /\ \E o \in Outcomes : Record(job[t], "queued", "queued", o)
    /\ Goto(t, IF t \in Workers THEN "record_started" ELSE "is_eligible")
    /\ UNCHANGED <<escrowVars, workerVars, job, tx, attempt>>

\* When record_started fails the attempt counts as the first.
RecordStarted(w) ==
    /\ pc[w] = "record_started"
    /\ \E o \in Outcomes :
          /\ Record(job[w], "running", "started", o)
          /\ IF o = "ok"
             THEN Goto(w, "attempt_count") /\ UNCHANGED attempt
             ELSE Goto(w, "is_eligible") /\ attempt' = [attempt EXCEPT ![w] = 1]
    /\ UNCHANGED <<escrowVars, workerVars, job, tx>>

\* attempt_count; a failed read, or a count of 0, is taken as the first attempt.
ReadAttempts(w) ==
    /\ pc[w] = "attempt_count"
    /\ \/ /\ jobs[job[w]].attempts > 0
          /\ attempt' = [attempt EXCEPT ![w] = jobs[job[w]].attempts]
       \/ /\ FaultyDb \/ jobs[job[w]].attempts = 0
          /\ attempt' = [attempt EXCEPT ![w] = 1]
    /\ Goto(w, "is_eligible")
    /\ UNCHANGED <<escrowVars, ledgerVars, workerVars, job, tx>>

-----------------------------------------------------------------------------
(* run_pipeline.                                                           *)

\* is_eligible answers true.  Without the Clock sysvar it compares expires_at
\* with the wall clock, which may lag the chain.
PassEligible(t) ==
    /\ pc[t] = "is_eligible"
    /\ Eligible(job[t]) \/ (ClockFallback /\ ReadsAsJob(job[t]))
    /\ Goto(t, "fetch_evidence")
    /\ UNCHANGED <<escrowVars, ledgerVars, workerVars, job, tx, attempt>>

\* Both documents arrive, match their hashes, parse and can be evaluated.
FetchEvidence(t) ==
    /\ pc[t] = "fetch_evidence"
    /\ Docs[job[t]] # "unusable"
    /\ Goto(t, "settle")
    /\ UNCHANGED <<escrowVars, ledgerVars, workerVars, job, tx, attempt>>

BugApprove(p) == Docs[p] # "unusable"

\* The verdict evaluate gives on the payment's documents.
Approve(p) == Docs[p] = "compliant"

\* settle signs ConfirmOracle on a recent blockhash and sends it.
Submit(t) ==
    /\ pc[t] = "settle"
    /\ \E b \in Blockhashes :
          LET signed == [payment |-> job[t], approved |-> Approve(job[t]), blockhash |-> b]
          IN  /\ tx' = [tx EXCEPT ![t] = signed]
              /\ sent' = sent \union {signed}
    /\ Goto(t, "confirm")
    /\ UNCHANGED <<delivered, expired, reassigned, resolvedBy>>
    /\ UNCHANGED <<ledgerVars, workerVars, job, attempt>>

BugConfirmWithoutLanding(t) ==
    /\ pc[t] = "confirm"
    /\ Goto(t, "record_settled")
    /\ UNCHANGED <<escrowVars, ledgerVars, workerVars, job, tx, attempt>>

\* send_and_confirm_transaction returns Ok: this very transaction was executed.
Confirm(t) ==
    /\ pc[t] = "confirm"
    /\ resolvedBy[job[t]] = tx[t]
    /\ Goto(t, "record_settled")
    /\ UNCHANGED <<escrowVars, ledgerVars, workerVars, job, tx, attempt>>

BugTimeoutSparesConfirm(t) ==
    /\ pc[t] \in PipelineCalls \ {"confirm"}
    /\ Goto(t, "record_failure")
    /\ UNCHANGED <<escrowVars, ledgerVars, workerVars, job, tx, attempt>>

BugIneligibleIsSkipped(t) ==
    /\ pc[t] \in PipelineCalls
    /\ IF pc[t] = "is_eligible" THEN Reset({t})
       ELSE Goto(t, "record_failure") /\ UNCHANGED <<job, tx, attempt>>
    /\ UNCHANGED <<escrowVars, ledgerVars, workerVars>>

\* run_pipeline returns Err, or the timeout drops it at the call it is waiting
\* for.  A transaction already sent is not recalled.
PipelineFails(t) ==
    /\ pc[t] \in PipelineCalls
    /\ Goto(t, "record_failure")
    /\ UNCHANGED <<escrowVars, ledgerVars, workerVars, job, tx, attempt>>

-----------------------------------------------------------------------------
(* Recording how the pipeline ended.                                       *)

\* After a success the worker drops the job's in-memory attempts.
ForgetAttempts(t) ==
    attemptsMem' = IF t \in Workers
                   THEN [attemptsMem EXCEPT ![t][job[t]] = 0] ELSE attemptsMem

\* record_settled, the job row; when that fails there is no verdict row either.
RecordSettled(t) ==
    /\ pc[t] = "record_settled"
    /\ UseLedger
    /\ \E o \in Outcomes :
          /\ UpsertSettled(job[t], tx[t], o)
          /\ IF o = "ok"
             THEN Goto(t, "insert_verdict") /\ UNCHANGED <<attemptsMem, job, tx, attempt>>
             ELSE Reset({t}) /\ ForgetAttempts(t)
    /\ UNCHANGED <<escrowVars, queue, processed>>

\* record_settled, the verdict row and the 'settled' event.
RecordVerdict(t) ==
    /\ pc[t] = "insert_verdict"
    /\ \E o \in Outcomes : InsertVerdict(job[t], tx[t].approved, o)
    /\ Reset({t})
    /\ ForgetAttempts(t)
    /\ UNCHANGED <<escrowVars, queue, processed>>

\* A success without a ledger.
FinishInMemory(t) ==
    /\ pc[t] = "record_settled"
    /\ ~UseLedger
    /\ Reset({t})
    /\ ForgetAttempts(t)
    /\ UNCHANGED <<escrowVars, ledgerVars, queue, processed>>

BugShouldDeadLetter(w) == attempt[w] + 1 >= DeadLetterMaxAttempts

ShouldDeadLetter(w) == attempt[w] >= DeadLetterMaxAttempts

\* record_dead_letter or record_failed, where there is a ledger.
LedgerFailure(p, status) ==
    IF UseLedger THEN \E o \in Outcomes : Record(p, status, status, o)
    ELSE UNCHANGED ledgerVars

BugKeepsFailedInDedupe(w) ==
    /\ pc[w] = "record_failure"
    /\ w \in Workers
    /\ ~ShouldDeadLetter(w)
    /\ LedgerFailure(job[w], "failed")
    /\ Reset({w})
    /\ UNCHANGED <<escrowVars, workerVars>>

\* With budget left the payment leaves the in-memory dedupe set, so that a later
\* event can run it again.
RecordFailed(w) ==
    /\ pc[w] = "record_failure"
    /\ w \in Workers
    /\ ~ShouldDeadLetter(w)
    /\ LedgerFailure(job[w], "failed")
    /\ processed' = [processed EXCEPT ![w] = @ \ {job[w]}]
    /\ Reset({w})
    /\ UNCHANGED <<escrowVars, queue, attemptsMem>>

RecordDeadLetter(w) ==
    /\ pc[w] = "record_failure"
    /\ w \in Workers
    /\ ShouldDeadLetter(w)
    /\ LedgerFailure(job[w], "dead_letter")
    /\ ForgetAttempts(w)
    /\ Reset({w})
    /\ UNCHANGED <<escrowVars, queue, processed>>

\* A handler records 'failed' whatever the attempts.
RecordManualFailed(h) ==
    /\ pc[h] = "record_failure"
    /\ h \in Handlers
    /\ LedgerFailure(job[h], "failed")
    /\ Reset({h})
    /\ UNCHANGED <<escrowVars, workerVars>>

-----------------------------------------------------------------------------
(* Requests, disconnects and crashes.                                      *)

\* manual_evaluate past authorization: read_payment finds a job.  It asks the
\* ledger nothing.
ManualEvaluate(h, p) ==
    /\ pc[h] = "idle"
    /\ ReadsAsJob(p)
    /\ job' = [job EXCEPT ![h] = p]
    /\ Goto(h, IF UseLedger THEN "record_queued" ELSE "is_eligible")
    /\ UNCHANGED <<escrowVars, ledgerVars, workerVars, tx, attempt>>

\* The client goes away and the server drops the handler where it stands.
Disconnect(h) ==
    /\ pc[h] # "idle"
    /\ Reset({h})
    /\ UNCHANGED <<escrowVars, ledgerVars, workerVars>>

\* The process dies and starts again with an empty channel and empty maps.
Crash(w) ==
    /\ Crashes
    /\ queue' = [queue EXCEPT ![w] = <<>>]
    /\ processed' = [processed EXCEPT ![w] = {}]
    /\ attemptsMem' = [attemptsMem EXCEPT ![w] = NoAttempts]
    /\ Reset({w} \union {h \in Handlers : Host[h] = w})
    /\ UNCHANGED <<escrowVars, ledgerVars>>

-----------------------------------------------------------------------------
\* What a worker, or a handler, does on its own once it has a job.
RunPipeline(t) ==
    \/ PassEligible(t) \/ FetchEvidence(t) \/ Submit(t) \/ Confirm(t)
    \/ PipelineFails(t)
    \/ RecordSettled(t) \/ RecordVerdict(t) \/ FinishInMemory(t)

WorkerStep(w) ==
    \/ Recv(w) \/ SkipTerminal(w) \/ PassProbe(w)
    \/ SkipDuplicate(w) \/ AdmitInMemory(w)
    \/ RecordDetected(w) \/ RecordQueued(w) \/ RecordStarted(w) \/ ReadAttempts(w)
    \/ RunPipeline(w)
    \/ RecordFailed(w) \/ RecordDeadLetter(w)

HandlerStep(h) == RecordQueued(h) \/ RunPipeline(h) \/ RecordManualFailed(h)

Environment ==
    \/ Chain /\ UNCHANGED <<ledgerVars, workerVars, taskVars>>
    \/ \E w \in Workers, p \in Payments : Notice(w, p)
    \/ \E h \in Handlers, p \in Payments : ManualEvaluate(h, p)
    \/ \E h \in Handlers : Disconnect(h)
    \/ \E w \in Workers : Crash(w)
    \/ RunLate /\ UNCHANGED <<escrowVars, workerVars, taskVars>>

Next ==
    \/ \E w \in Workers : WorkerStep(w)
    \/ \E h \in Handlers : HandlerStep(h)
    \/ Environment

Spec == Init /\ [][Next]_vars

\* Every await of a worker or a handler ends: the pipeline runs under
\* evaluation_timeout_ms and every statement under QUERY_TIMEOUT.  Nothing is
\* assumed of the chain, of operators or of crashes.
Fairness ==
    /\ \A w \in Workers : WF_vars(WorkerStep(w))
    /\ \A h \in Handlers : WF_vars(HandlerStep(h))

FairSpec == Spec /\ Fairness
-----------------------------------------------------------------------------
(* Properties.                                                             *)

\* What the ledger says of a payment is true of the chain: a settled row names
\* the transaction that resolved the payment, and a verdict row repeats the
\* verdict of that transaction.  record_settled (db.rs) writes both long after
\* the transaction was built, with races, crashes and failed statements between.
LedgerAgreesWithChain ==
    \A p \in Payments :
        /\ jobs[p].status = "settled" => jobs[p].sig # None
        /\ jobs[p].sig # None => jobs[p].sig = resolvedBy[p]
        /\ verdicts[p] # None => /\ resolvedBy[p] # None
                                 /\ verdicts[p] = resolvedBy[p].approved

\* A job is dead-lettered (main.rs) only when its row has counted the attempts
\* that ORACLE_DEAD_LETTER_MAX_ATTEMPTS allows, however many of the statements
\* that count them were lost, and whoever else writes the row.
DeadLetterOnlyAfterBudget ==
    \A p \in Payments :
        jobs[p].status = "dead_letter" =>
            \/ jobs[p].attempts >= DeadLetterMaxAttempts
            \/ DeadLetterMaxAttempts <= 1

\* The event a reader of the audit trail relies on: where there is a 'settled'
\* event there is a verdict row to look up (record_settled, db.rs).
AuditTrail ==
    \A p \in Payments : "settled" \in events[p] => verdicts[p] # None

\* is_terminal's promise (db.rs): a row that is settled or dead-lettered is left
\* as it is by every later step, restarts included.
TerminalIsFinal ==
    [][\A p \in Payments :
           jobs[p].status \in {"settled", "dead_letter"} => jobs'[p] = jobs[p]]_vars

\* No ConfirmOracle is sent for a payment whose settlement the ledger already
\* names (main.rs, the dedupe comment; db.rs, is_terminal).
NoRedundantSubmit ==
    [][\A p \in Payments :
           (\E s \in sent' \ sent : s.payment = p) => jobs[p].sig = None]_vars

\* upsert_job's COALESCE: whatever later happens to the row, the signature of
\* the settlement stays in it.
SignatureNeverLost ==
    [][\A p \in Payments :
           jobs[p].sig # None => jobs'[p].sig = jobs[p].sig]_vars

\* In-memory dedupe (main.rs, ledger disabled): a payment with attempts counted
\* and budget left is not held back by the dedupe set once its job is over, and
\* one whose budget is spent has been given up for good.
FailedJobsAreReleased ==
    \A w \in Workers, p \in Payments :
        job[w] # p /\ attemptsMem[w][p] > 0 =>
            /\ p \notin processed[w]
            /\ attemptsMem[w][p] < DeadLetterMaxAttempts

\* Task t has yet to write how its job, the payment p, ended.
AtWork(t, p) ==
    /\ job[t] = p
    /\ pc[t] \in PipelineCalls \union
          {"record_queued", "record_started", "attempt_count", "record_settled",
           "record_failure"}

\* A row that says a payment is being worked on has a task that will say how it
\* ended, though two processes overwrite each other's rows and one may end while
\* the other has just begun (main.rs, the worker loop).  A failed statement, a
\* crash or a dropped request leaves such a row to nobody.
NoRowIsStranded ==
    \A p \in Payments :
        jobs[p].status \in {"detected", "queued", "running"} => \E t \in Tasks : AtWork(t, p)

\* The worker serves its channel: a job that was queued gets a row that says how
\* it ended (main.rs, the worker loop), whatever the pipeline is waiting for.
QueuedJobsAreAccounted ==
    \A w \in Workers, p \in Payments :
        (\E i \in DOMAIN queue[w] : queue[w][i] = p)
            ~> jobs[p].status \in {"settled", "failed", "dead_letter"}

\* No job holds up the worker for ever, not even one whose transaction is never
\* heard of again (main.rs, the evaluation timeout).
WorkerReturns ==
    \A w \in Workers : pc[w] # "idle" ~> pc[w] = "idle"

\* The oracle as its users see it: verdicts on chain and verdicts in the ledger.
Resolution(t) ==
    IF t = None THEN "open" ELSE IF t.approved THEN "approved" ELSE "rejected"

Oracle == INSTANCE EscrowOracle WITH
    Verdict    <- [p \in Payments |->
                     CASE Docs[p] = "compliant" -> "approved"
                       [] Docs[p] = "violating" -> "rejected"
                       [] OTHER                 -> "none"],
    resolution <- [p \in Payments |-> Resolution(resolvedBy[p])],
    published  <- [p \in Payments |->
                     IF verdicts[p] = None THEN "none"
                     ELSE IF verdicts[p] THEN "approved" ELSE "rejected"]

\* Workers, handlers, crashes and a failing ledger together implement
\* EscrowOracle: one verdict per payment, the one its documents call for, and a
\* published verdict that is the chain's.
ImplementsEscrowOracle == Oracle!Spec

-----------------------------------------------------------------------------
(* The inductive invariant behind the safety properties.                   *)

\* A transaction carries the verdict its payment's documents call for.
Judged(t) == Docs[t.payment] # "unusable" /\ t.approved = Approve(t.payment)

TransactionsAreJudged ==
    /\ \A t \in sent : Judged(t)
    /\ \A p \in Payments :
          resolvedBy[p] # None => resolvedBy[p].payment = p /\ Judged(resolvedBy[p])

\* A busy task has a job, and from the submission on a transaction.
HasLocals(t) ==
    /\ pc[t] # "idle" => job[t] \in Payments
    /\ pc[t] \in {"confirm", "record_settled", "insert_verdict"} => tx[t] # None

TypeInv == TypeOK /\ \A t \in Tasks : HasLocals(t)

\* A task that is recording a settlement holds the transaction that made it.
Confirmed(t) ==
    pc[t] \in {"record_settled", "insert_verdict"} => resolvedBy[job[t]] = tx[t]

\* A statement the server has yet to run says nothing else.
LateAgrees ==
    /\ \A s \in lateJobs :
          /\ s.status = "settled" => s.sig # None
          /\ s.sig # None => s.sig = resolvedBy[s.payment]
    /\ \A s \in lateVerdicts :
          /\ resolvedBy[s.payment] # None
          /\ s.approved = resolvedBy[s.payment].approved

AgreementInv ==
    LedgerAgreesWithChain /\ LateAgrees /\ \A t \in Tasks : Confirmed(t)

\* Only documents that can be evaluated get as far as a transaction.
JudgementInv ==
    /\ TransactionsAreJudged
    /\ \A t \in Tasks : pc[t] = "settle" => Docs[job[t]] # "unusable"

\* A worker's attempt count is 1 or was counted in the row.
AttemptInv(w) ==
    /\ pc[w] = "admit_in_memory" => ~UseLedger
    /\ UseLedger /\ pc[w] \in PipelineCalls \union {"record_failure"} =>
          attempt[w] <= 1 \/ attempt[w] <= jobs[job[w]].attempts

\* A dead letter the server has yet to record was earned as well.
LateBudget ==
    \A s \in lateJobs :
        s.status = "dead_letter" =>
            \/ jobs[s.payment].attempts >= DeadLetterMaxAttempts
            \/ DeadLetterMaxAttempts <= 1

BudgetInv ==
    DeadLetterOnlyAfterBudget /\ LateBudget /\ \A w \in Workers : AttemptInv(w)

IInv == TypeInv /\ AgreementInv /\ JudgementInv /\ BudgetInv /\ AuditTrail

=============================================================================
