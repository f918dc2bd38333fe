------------------------------- MODULE Ledger -------------------------------
(***************************************************************************)
(* The PostgreSQL ledger (db.rs): one oracle_jobs row per payment_uid, at  *)
(* most one oracle_verdicts row per job, and the append-only lifecycle     *)
(* events.  Every call of db.rs is one or more statements on a pooled      *)
(* connection, each of which may fail when FaultyDb is TRUE; no call is a  *)
(* database transaction.  A statement that timed out is not taken back:    *)
(* the server may run it later, after others of the same row.              *)
(***************************************************************************)
EXTENDS Escrow, Naturals, FiniteSets

CONSTANTS
    FaultyDb,  \* whether statements may fail or time out
    MaxLate    \* model bound: statements the server has yet to run

VARIABLES
    jobs,         \* oracle_jobs: status, attempts, settlement_signature
    verdicts,     \* oracle_verdicts.approved, or None while there is no row
    events,       \* oracle_lifecycle_events: which events a payment has
    lateJobs,     \* upserts of oracle_jobs that timed out and may still run
    lateVerdicts  \* the same for oracle_verdicts

ledgerVars == <<jobs, verdicts, events, lateJobs, lateVerdicts>>

Statuses == {"absent", "detected", "queued", "running",
             "failed", "dead_letter", "settled"}

EventNames == {"detected", "queued", "started", "failed", "dead_letter", "settled"}

Rows == [status : Statuses, attempts : Nat, sig : Transactions \union {None}]

LedgerTypeOK ==
    /\ jobs \in [Payments -> Rows]
    /\ verdicts \in [Payments -> BOOLEAN \union {None}]
    /\ events \in [Payments -> SUBSET EventNames]
    /\ lateJobs \subseteq
          [payment : Payments, status : Statuses, sig : Transactions \union {None}]
    /\ lateVerdicts \subseteq [payment : Payments, approved : BOOLEAN]

LedgerInit ==
    /\ jobs = [p \in Payments |-> [status |-> "absent", attempts |-> 0, sig |-> None]]
    /\ verdicts = [p \in Payments |-> None]
    /\ events = [p \in Payments |-> {}]
    /\ lateJobs = {}
    /\ lateVerdicts = {}

-----------------------------------------------------------------------------
(* Statements.                                                             *)

BugSignatureNotCoalesced(row, status, sig) ==
    [status   |-> status,
     attempts |-> IF status = "running" THEN row.attempts + 1 ELSE row.attempts,
     sig      |-> sig]

\* upsert_job: the status is overwritten whatever it was; attempts counts the
\* upserts to 'running'; COALESCE keeps an earlier signature.
UpsertJob(row, status, sig) ==
    [status   |-> status,
     attempts |-> IF status = "running" THEN row.attempts + 1 ELSE row.attempts,
     sig      |-> IF sig = None THEN row.sig ELSE sig]

BugSettledNotTerminal(row) == row.status = "dead_letter"

\* is_terminal: a row exists with one of the two terminal statuses.
IsTerminal(row) == row.status \in {"settled", "dead_letter"}

\* How a call ends.  "ok": every statement ran.  "unanswered": every statement
\* ran, but the last answer was lost.  "partial": the first statement ran, the
\* next did not.  "lost": none ran.  "late": the first has yet to run.  All but
\* "ok" return Err.
Outcomes ==
    IF ~FaultyDb THEN {"ok"}
    ELSE {"ok", "unanswered", "partial", "lost"} \union
         (IF Cardinality(lateJobs) + Cardinality(lateVerdicts) < MaxLate
          THEN {"late"} ELSE {})

\* The statements of a call that took effect.
FirstRan(outcome) == outcome \notin {"lost", "late"}
AllRan(outcome)   == outcome \in {"ok", "unanswered"}

\* A statement that timed out joins those the server has yet to run.
Behind(late, statement, outcome) ==
    IF outcome = "late" THEN late \union {statement} ELSE late

\* The record_* calls that are one upsert and one lifecycle event.
Record(p, status, event, outcome) ==
    /\ jobs' = IF FirstRan(outcome)
               THEN [jobs EXCEPT ![p] = UpsertJob(@, status, None)] ELSE jobs
    /\ events' = IF AllRan(outcome)
                 THEN [events EXCEPT ![p] = @ \union {event}] ELSE events
    /\ lateJobs' = Behind(lateJobs, [payment |-> p, status |-> status, sig |-> None],
                          outcome)
    /\ UNCHANGED <<verdicts, lateVerdicts>>

BugEventBeforeVerdict(p, tx, outcome) ==
    /\ jobs' = IF FirstRan(outcome)
               THEN [jobs EXCEPT ![p] = UpsertJob(@, "settled", tx)] ELSE jobs
    /\ events' = IF AllRan(outcome)
                 THEN [events EXCEPT ![p] = @ \union {"settled"}] ELSE events
    /\ UNCHANGED <<verdicts, lateJobs, lateVerdicts>>

\* record_settled, first statement: the job row.
UpsertSettled(p, tx, outcome) ==
    /\ jobs' = IF FirstRan(outcome)
               THEN [jobs EXCEPT ![p] = UpsertJob(@, "settled", tx)] ELSE jobs
    /\ lateJobs' = Behind(lateJobs, [payment |-> p, status |-> "settled", sig |-> tx],
                          outcome)
    /\ UNCHANGED <<verdicts, events, lateVerdicts>>

\* record_settled, the rest: the verdict row, then the 'settled' event.
InsertVerdict(p, approved, outcome) ==
    /\ verdicts' = IF FirstRan(outcome)
                   THEN [verdicts EXCEPT ![p] = approved] ELSE verdicts
    /\ events' = IF AllRan(outcome)
                 THEN [events EXCEPT ![p] = @ \union {"settled"}] ELSE events
    /\ lateVerdicts' = Behind(lateVerdicts, [payment |-> p, approved |-> approved],
                              outcome)
    /\ UNCHANGED <<jobs, lateJobs>>

-----------------------------------------------------------------------------
(* Statements the client has given up (external).                          *)

\* The server runs an upsert of oracle_jobs late.
RunLateJob(s) ==
    /\ s \in lateJobs
    /\ jobs' = [jobs EXCEPT ![s.payment] = UpsertJob(@, s.status, s.sig)]
    /\ lateJobs' = lateJobs \ {s}
    /\ UNCHANGED <<verdicts, events, lateVerdicts>>

\* The server runs an upsert of oracle_verdicts late.
RunLateVerdict(s) ==
    /\ s \in lateVerdicts
    /\ verdicts' = [verdicts EXCEPT ![s.payment] = s.approved]
    /\ lateVerdicts' = lateVerdicts \ {s}
    /\ UNCHANGED <<jobs, events, lateJobs>>

RunLate ==
    \/ \E s \in lateJobs : RunLateJob(s)
    \/ \E s \in lateVerdicts : RunLateVerdict(s)
=============================================================================
