--------------------------- MODULE DeliveryMatch ---------------------------
(***************************************************************************)
(* fetch_delivery_job (chain.rs): which payment, if any, a transaction of  *)
(* the program's log makes a job of.  The accounts of its SubmitDelivery   *)
(* instructions are tried first, in key order, then every account it       *)
(* names; each is one read of the chain, on which payments may be resolved *)
(* meanwhile.                                                              *)
(***************************************************************************)
EXTENDS Naturals

CONSTANTS
    Payments,      \* the payments, numbered in the order of their keys
    Instructions,  \* the instructions a transaction may have, top-level or inner
    LogLines,      \* the lines its logs may have
    None           \* Rust's Option::None

\* An instruction as JsonParsed returns it: decoded by the cluster ("parsed"), with
\* its accounts ("partial") or with indices of the account list ("compiled").
\* The payment of a SubmitDelivery is its fifth account.
InstructionType ==
    [form     : {"partial", "compiled", "parsed"},
     program  : {"escrow", "other"},
     opcode   : {"SubmitDelivery", "other"},
     accounts : Nat,
     payment  : Payments]

\* A log line: a DeliverySubmittedEvent, with the delivery hash its payment has on
\* chain or another one, or anything else, data of another length included.
LineType ==
    [data    : {"event", "other"},
     payment : Payments,
     hash    : {"current", "stale"}]

ASSUME DeliveryMatchAssumption ==
    /\ Payments \subseteq Nat
    /\ None \notin Payments
    /\ Instructions \subseteq InstructionType
    /\ LogLines \subseteq LineType

VARIABLES
    strict,        \* require_event_match, set by ORACLE_REQUIRE_EVENT_MATCH
    instructions,  \* the transaction's instructions
    accounts,      \* payments among the accounts the transaction names
    logs,          \* its log lines, none if the RPC node returns no logs
    pending,       \* payments of this oracle, delivered and not resolved
    phase,         \* "candidates", "accounts" or "done"
    unread,        \* the payments this phase has yet to read
    result,        \* the payment the job is for, or None
    failed         \* history: payments whose read failed

transaction == <<strict, instructions, accounts, logs>>
vars == <<transaction, pending, phase, unread, result, failed>>

TypeOK ==
    /\ {accounts, pending, unread, failed} \subseteq SUBSET Payments
    /\ instructions \subseteq Instructions
    /\ logs \subseteq LogLines
    /\ strict \in BOOLEAN
    /\ phase \in {"candidates", "accounts", "done"}
    /\ result \in Payments \union {None}
    /\ result # None => phase = "done" /\ unread = {}

BugNamesPayment(ix) ==
    /\ ix.form \in {"partial", "compiled"}
    /\ ix.opcode = "SubmitDelivery"
    /\ ix.accounts >= 5

\* payment_from_partial_ix, payment_from_compiled_ix; what the cluster has decoded
\* itself is skipped.
NamesPayment(ix) ==
    /\ ix.form \in {"partial", "compiled"}
    /\ ix.program = "escrow"
    /\ ix.opcode = "SubmitDelivery"
    /\ ix.accounts >= 5

\* The payments the SubmitDelivery instructions name, each once.
Candidates == {ix.payment : ix \in {i \in instructions : NamesPayment(i)}}

\* parse_delivery_events_from_logs
Events == {line \in logs : line.data = "event"}

\* Any transaction, in either mode: instructions name accounts of the transaction,
\* and events may be missing from the logs or match none of its payments.
Init ==
    /\ strict \in BOOLEAN
    /\ instructions \in SUBSET Instructions
    /\ accounts \in SUBSET Payments
    /\ \A ix \in instructions : ix.payment \in accounts
    /\ logs \in SUBSET LogLines
    /\ pending \in SUBSET Payments
    /\ phase = "candidates"
    /\ unread = Candidates
    /\ result = None
    /\ failed = {}

-----------------------------------------------------------------------------

\* Some other task resolves a payment (external).
Resolve(p) ==
    /\ phase # "done"
    /\ pending' = pending \ {p}
    /\ UNCHANGED <<transaction, phase, unread, result, failed>>

Matched(p) == \E e \in Events : e.payment = p /\ e.hash = "current"

\* event_matches_job
EventMatches(p) == Events = {} \/ Matched(p)

BugAccepts(p) == EventMatches(p) \/ ~strict

\* Whether a pending payment becomes the job, in either loop: an event matches
\* it, or there is no event and the loop does not ask for one.
Accepts(p) ==
    \/ EventMatches(p)
    \/ ~strict /\ Events = {}

BugReadAccepted(p) ==
    /\ p \in unread
    /\ p \in pending
    /\ Accepts(p)
    /\ result' = p
    /\ unread' = unread \ {p}
    /\ UNCHANGED <<transaction, pending, phase, failed>>

\* read_payment returns Some(job) and the payment is accepted: it is the job.
ReadAccepted(p) ==
    /\ p \in unread
    /\ p \in pending
    /\ Accepts(p)
    /\ result' = p
    /\ phase' = "done"
    /\ unread' = {}
    /\ UNCHANGED <<transaction, pending, failed>>

\* read_payment returns None, or a job that is not accepted.
ReadPassedOver(p) ==
    /\ p \in unread
    /\ p \notin pending \/ ~Accepts(p)
    /\ unread' = unread \ {p}
    /\ UNCHANGED <<transaction, pending, phase, result, failed>>

BugReadFailed(p) ==
    /\ p \in unread
    /\ unread' = {}
    /\ failed' = failed \union {p}
    /\ UNCHANGED <<transaction, pending, phase, result>>

\* read_payment returns an error, which is passed over like None.
ReadFailed(p) ==
    /\ p \in unread
    /\ unread' = unread \ {p}
    /\ failed' = failed \union {p}
    /\ UNCHANGED <<transaction, pending, phase, result>>

BugTurn(p) == p \in unread

\* Candidates are sorted by key; accounts come in the transaction's own order,
\* which may be any.
Turn(p) == phase = "candidates" => \A q \in unread : p <= q

ReadNext == \E p \in unread :
    Turn(p) /\ (ReadAccepted(p) \/ ReadPassedOver(p) \/ ReadFailed(p))

BugScanAccounts ==
    /\ phase = "candidates" /\ unread = {}
    /\ phase' = "accounts"
    /\ unread' = accounts
    /\ UNCHANGED <<transaction, pending, result, failed>>

\* No candidate made a job.  In strict mode that is all; otherwise every account
\* of the transaction is read.
ScanAccounts ==
    /\ phase = "candidates" /\ unread = {}
    /\ IF strict
       THEN phase' = "done" /\ UNCHANGED unread
       ELSE phase' = "accounts" /\ unread' = accounts
    /\ UNCHANGED <<transaction, pending, result, failed>>

NoJob ==
    /\ phase = "accounts" /\ unread = {}
    /\ phase' = "done"
    /\ UNCHANGED <<transaction, pending, unread, result, failed>>

Next == ReadNext \/ ScanAccounts \/ NoJob \/ \E p \in pending : Resolve(p)

Spec == Init /\ [][Next]_vars

-----------------------------------------------------------------------------
(* Properties.                                                             *)

\* A transaction whose logs carry events makes a job only of a payment one of
\* them matches with the hash it has on chain, in strict mode or not and by
\* whichever loop it was found (chain.rs, fetch_delivery_job).
JobMatchesEvents == result # None /\ Events # {} => Matched(result)

\* Strict mode makes a job only of a payment that is the fifth account of a
\* SubmitDelivery of the escrow program, never of one that is merely among the
\* transaction's accounts or those of another program (chain.rs,
\* fetch_delivery_job).
StrictJobIsInstructed ==
    strict /\ result # None =>
        \E ix \in instructions :
            /\ ix.payment = result
            /\ ix.program = "escrow"
            /\ ix.opcode = "SubmitDelivery"

\* A delivery is passed over only for a reason: a payment that an instruction
\* names, that the events match and that is pending to the end is found, unless
\* its own read failed or another payment became the job (chain.rs,
\* fetch_delivery_job).
DeliveryIsFound ==
    phase = "done" /\ result = None =>
        \A p \in Candidates \intersect pending : EventMatches(p) => p \in failed

\* Of several deliveries in one transaction, of which one becomes the job, it is
\* decided which: instructed payments come before those that are merely among the
\* accounts, and among them the lowest key, whatever is resolved meanwhile.  One
\* that is pending and matches yields only to those, or to its own failed read
\* (chain.rs, fetch_delivery_job).
FirstDeliveryWins ==
    result # None =>
        \A p \in Candidates \intersect pending :
            EventMatches(p) =>
                \/ result \in Candidates /\ result <= p
                \/ p \in failed

\* What README.md says of ORACLE_REQUIRE_EVENT_MATCH: no job unless the
\* transaction carries a matching DeliverySubmittedEvent.
StrictJobHasEvent == strict /\ result # None => Matched(result)
=============================================================================
