--------------------------- MODULE DeliveryWatch ---------------------------
(***************************************************************************)
(* How an oracle process learns of deliveries (chain.rs).  Two tasks watch *)
(* the log of transactions that mention the escrow program and send jobs   *)
(* into the one channel the worker reads:                                  *)
(*                                                                         *)
(*   - monitor_deliveries follows a websocket subscription;                *)
(*   - backfill_missed_deliveries runs once at startup and walks the log   *)
(*     backwards, page by page, to a watermark kept in the ledger.         *)
(*                                                                         *)
(* An entry of the log stands for a transaction; a delivery is known by    *)
(* its place in the log, and a job by the delivery it is for.              *)
(***************************************************************************)
EXTENDS Integers, Sequences

CONSTANTS
    UseLedger,        \* whether DATABASE_URL is set
    Lookback,         \* ORACLE_BACKFILL_LOOKBACK_SIGNATURES
    PageLimit,        \* limit_per_page
    ChannelCapacity,  \* job_channel_capacity
    Kinds,            \* what the transactions of the log may be
    Faults,           \* whether RPC calls and ledger statements may fail
    Drops,            \* whether the log subscription may end
    Crashes,          \* whether the process may crash
    MaxLog            \* model bound: length of the log

ASSUME DeliveryWatchAssumption ==
    /\ {Lookback, MaxLog} \subseteq Nat
    /\ {PageLimit, ChannelCapacity} \subseteq Nat \ {0}
    /\ Kinds \subseteq {"delivery", "other", "failed"}
    /\ {UseLedger, Faults, Drops, Crashes} \subseteq BOOLEAN

VARIABLES
    log,         \* the transactions that mention the program, oldest first
    subscribed,  \* whether the log subscription is up
    inbox,       \* notifications the subscription holds, oldest first
    connected,   \* RuntimeHealth.websocket_connected, what /health answers by
    observed,    \* the entry the monitor works on, 0 for none
    holding,     \* whether it has its job and waits for room in the channel
    lastSeen,    \* RuntimeHealth.last_seen_slot
    scan,        \* the backfill's position
    queue,       \* the mpsc channel to the worker
    working,     \* the job the worker runs, 0 for none
    watermark,   \* oracle_parameters "chain.last_seen_slot", 0 when absent
    settled,     \* deliveries whose payment is resolved
    sent,        \* history: deliveries a job was ever sent for
    processed    \* history: deliveries the worker ever finished a job for

monitorVars == <<subscribed, inbox, connected, observed, holding>>
workerVars  == <<working, settled, processed>>
vars == <<log, monitorVars, lastSeen, scan, queue, workerVars, watermark, sent>>

Entries == 0 .. MaxLog   \* places in the log; 0 stands for Rust's None
Slots   == 0 .. MaxLog

\* The backfill's locals.  top and cut are history: the length of the log when
\* the first page was fetched, and whether an RPC failure cut the scan short.
Scans == [pc : {"off", "start", "page", "entry", "send", "persist", "done"},
          last : Slots,       \* last_seen_slot, the watermark it started from
          scanned : 0 .. Lookback,
          before : Entries,   \* the entry the next page comes before
          next : Entries,     \* the entry of the page to look at next
          until : 0 .. MaxLog + 1,  \* the oldest entry of the page
          full : BOOLEAN,     \* whether the page held all that was asked for
          highest : Slots,    \* highest_slot
          top : Entries,
          cut : BOOLEAN]

ScanOff ==
    [pc |-> "off", last |-> 0, scanned |-> 0, before |-> 0, next |-> 0,
     until |-> 0, full |-> FALSE, highest |-> 0, top |-> 0, cut |-> FALSE]

TypeOK ==
    /\ log \in Seq([slot : Slots, kind : Kinds])
    /\ Len(log) <= MaxLog
    /\ subscribed \in BOOLEAN
    /\ inbox \in Seq(Entries)
    /\ connected \in BOOLEAN
    /\ observed \in Entries
    /\ holding \in BOOLEAN
    /\ lastSeen \in Slots
    /\ scan \in Scans
    /\ queue \in Seq(Entries)
    /\ Len(queue) <= ChannelCapacity
    /\ working \in Entries
    /\ watermark \in Slots
    /\ settled \subseteq Entries
    /\ sent \subseteq Entries
    /\ processed \subseteq Entries

\* The process is about to be started.
Init ==
    /\ log = <<>>
    /\ subscribed = FALSE
    /\ inbox = <<>>
    /\ connected = FALSE
    /\ observed = 0
    /\ holding = FALSE
    /\ lastSeen = 0
    /\ scan = ScanOff
    /\ queue = <<>>
    /\ working = 0
    /\ watermark = 0
    /\ settled = {}
    /\ sent = {}
    /\ processed = {}

Running == scan.pc # "off"

Later(a, b) == IF a > b THEN a ELSE b
Fewer(a, b) == IF a < b THEN a ELSE b

-----------------------------------------------------------------------------
(* The chain and the process's life (external).                            *)

\* A transaction that mentions the program is confirmed, in the slot of the
\* one before it or in a later one.  A subscription up at the time holds it.
LandEntry(kind) ==
    /\ Len(log) < MaxLog
    /\ LET newest == IF log = <<>> THEN 0 ELSE log[Len(log)].slot
       IN \E slot \in {Later(1, newest), newest + 1} :
             log' = Append(log, [slot |-> slot, kind |-> kind])
    /\ inbox' = IF subscribed THEN Append(inbox, Len(log) + 1) ELSE inbox
    /\ UNCHANGED <<subscribed, connected, observed, holding, lastSeen, scan, queue,
                   workerVars, watermark, sent>>

\* The process starts: both tasks are spawned.
Start ==
    /\ ~Running
    /\ scan' = [scan EXCEPT !.pc = IF Lookback = 0 THEN "done" ELSE "start"]
    /\ UNCHANGED <<log, monitorVars, lastSeen, queue, workerVars, watermark, sent>>

\* The process stops at any point; what it held in memory is gone.
Crash ==
    /\ Crashes /\ Running
    /\ subscribed' = FALSE
    /\ inbox' = <<>>
    /\ connected' = FALSE
    /\ observed' = 0
    /\ holding' = FALSE
    /\ lastSeen' = 0
    /\ scan' = ScanOff
    /\ queue' = <<>>
    /\ working' = 0
    /\ UNCHANGED <<log, watermark, settled, sent, processed>>

-----------------------------------------------------------------------------
(* fetch_delivery_job, and the send that follows it.  Between the two the  *)
(* job is held: its payment may be resolved before there is room.          *)

\* The transaction yields a job: it is a delivery, and read_payment finds its
\* payment still unresolved.
YieldsJob(i) == log[i].kind = "delivery" /\ i \notin settled

BugSendIgnoresCapacity(i) ==
    /\ queue' = Append(queue, i)
    /\ sent' = sent \union {i}

BugSendDropsWhenFull(i) ==
    IF Len(queue) < ChannelCapacity
    THEN queue' = Append(queue, i) /\ sent' = sent \union {i}
    ELSE UNCHANGED <<queue, sent>>

\* The send waits for room in the channel.
SendJob(i) ==
    /\ Len(queue) < ChannelCapacity
    /\ queue' = Append(queue, i)
    /\ sent' = sent \union {i}

-----------------------------------------------------------------------------
(* monitor_deliveries.                                                     *)

\* logs_subscribe succeeds, at last: between attempts the monitor sleeps.
Subscribe ==
    /\ Running
    /\ ~connected
    /\ subscribed' = TRUE
    /\ connected' = TRUE
    /\ UNCHANGED <<log, inbox, observed, holding, lastSeen, scan, queue, workerVars,
                   watermark, sent>>

\* The websocket goes down.  What the stream holds is still handed out, then
\* it ends.
Unsubscribe ==
    /\ Drops /\ subscribed
    /\ subscribed' = FALSE
    /\ UNCHANGED <<log, inbox, connected, observed, holding, lastSeen, scan, queue,
                   workerVars, watermark, sent>>

\* stream.next(): the slot is noted before the transaction is looked at.
Observe ==
    /\ observed = 0 /\ inbox # <<>>
    /\ observed' = Head(inbox)
    /\ inbox' = Tail(inbox)
    /\ lastSeen' = Later(lastSeen, log[Head(inbox)].slot)
    /\ UNCHANGED <<log, subscribed, connected, holding, scan, queue, workerVars,
                   watermark, sent>>

BugStreamEnds ==
    /\ connected /\ ~subscribed /\ inbox = <<>> /\ observed = 0
    /\ subscribed' = TRUE
    /\ UNCHANGED <<log, connected, inbox, observed, holding, lastSeen, scan, queue,
                   workerVars, watermark, sent>>

\* stream.next() has nothing more to hand out: the outage is noted, and the
\* monitor connects again.
StreamEnds ==
    /\ connected /\ ~subscribed /\ inbox = <<>> /\ observed = 0
    /\ connected' = FALSE
    /\ UNCHANGED <<log, subscribed, inbox, observed, holding, lastSeen, scan, queue,
                   workerVars, watermark, sent>>

\* fetch_delivery_job yields a job, or none; on an error the notification is
\* dropped with a warning.
Fetch ==
    /\ observed # 0 /\ ~holding
    /\ \/ YieldsJob(observed) /\ holding' = TRUE /\ UNCHANGED observed
       \/ (~YieldsJob(observed) \/ Faults) /\ observed' = 0 /\ UNCHANGED holding
    /\ UNCHANGED <<log, subscribed, inbox, connected, lastSeen, scan, queue, workerVars,
                   watermark, sent>>

\* The job is sent as soon as there is room.
Send ==
    /\ holding
    /\ SendJob(observed)
    /\ holding' = FALSE
    /\ observed' = 0
    /\ UNCHANGED <<log, subscribed, inbox, connected, lastSeen, scan, workerVars, watermark>>

-----------------------------------------------------------------------------
(* backfill_missed_deliveries.                                             *)

\* get_parameter(PARAM_LAST_SEEN_SLOT); a failed read counts as no watermark.
ReadWatermark ==
    /\ scan.pc = "start"
    /\ \E last \in (IF UseLedger THEN {watermark} ELSE {0})
                   \union (IF Faults THEN {0} ELSE {}) :
          scan' = [scan EXCEPT !.pc = "page", !.last = last, !.highest = last]
    /\ UNCHANGED <<log, monitorVars, lastSeen, queue, workerVars, watermark, sent>>

BugPageTop == IF scan.scanned = 0 THEN Len(log) ELSE Len(log) - scan.scanned

BugPageTopSkipsOne == IF scan.before = 0 THEN Len(log) ELSE scan.before - 2

\* The newest entry the next page may hold.
PageTop == IF scan.before = 0 THEN Len(log) ELSE scan.before - 1

Want == Fewer(Lookback - scan.scanned, PageLimit)

\* getSignaturesForAddress: the next `want' entries, newest first.  With none
\* wanted, none left or an error the scan is over.
FetchPage ==
    /\ scan.pc = "page"
    /\ LET got == Fewer(Want, PageTop)
           page == [scan EXCEPT !.next = PageTop, !.until = PageTop - got + 1,
                                !.full = (got = Want), !.pc = "entry",
                                !.top = IF scan.scanned = 0 THEN Len(log) ELSE @]
       IN \/ got > 0 /\ scan' = page
          \/ got = 0 /\ scan' = [scan EXCEPT !.pc = "persist"]
          \/ Faults /\ Want > 0 /\ scan' = [scan EXCEPT !.pc = "persist", !.cut = TRUE]
    /\ UNCHANGED <<log, monitorVars, lastSeen, queue, workerVars, watermark, sent>>

BugAdvanceFreeOnFailed(before, cut) ==
    LET i == scan.next
        pageDone == i = scan.until
    IN scan' = [scan EXCEPT
                  !.scanned = IF log[i].kind = "failed" THEN @ ELSE @ + 1,
                  !.highest = Later(@, log[i].slot),
                  !.before = before,
                  !.cut = @ \/ cut,
                  !.next = i - 1,
                  !.pc = IF ~pageDone THEN "entry"
                         ELSE IF scan.full THEN "page" ELSE "persist"]

\* The scan moves past the entry it looked at; the next page comes before
\* `before'.
Advance(before, cut) ==
    LET i == scan.next
        pageDone == i = scan.until
    IN scan' = [scan EXCEPT
                  !.scanned = @ + 1,
                  !.highest = Later(@, log[i].slot),
                  !.before = before,
                  !.cut = @ \/ cut,
                  !.next = i - 1,
                  !.pc = IF ~pageDone THEN "entry"
                         ELSE IF scan.full THEN "page" ELSE "persist"]

BelowWatermark(i) == scan.last > 0 /\ log[i].slot <= scan.last

\* The scan ends at the first entry not above the watermark.
StopAtWatermark ==
    /\ scan.pc = "entry"
    /\ BelowWatermark(scan.next)
    /\ scan' = [scan EXCEPT !.pc = "persist", !.scanned = @ + 1,
                            !.highest = Later(@, log[scan.next].slot)]
    /\ UNCHANGED <<log, monitorVars, lastSeen, queue, workerVars, watermark, sent>>

\* A failed transaction is passed over, without moving `before'.
SkipFailed ==
    /\ scan.pc = "entry"
    /\ ~BelowWatermark(scan.next)
    /\ log[scan.next].kind = "failed"
    /\ Advance(scan.before, FALSE)
    /\ UNCHANGED <<log, monitorVars, lastSeen, queue, workerVars, watermark, sent>>

\* A transaction is fetched; without a job, and on an error, it is passed over.
ScanEntry ==
    LET i == scan.next
    IN /\ scan.pc = "entry"
       /\ ~BelowWatermark(i)
       /\ log[i].kind # "failed"
       /\ \/ YieldsJob(i) /\ scan' = [scan EXCEPT !.pc = "send"]
          \/ ~YieldsJob(i) /\ Advance(i, FALSE)
          \/ Faults /\ Advance(i, TRUE)
       /\ UNCHANGED <<log, monitorVars, lastSeen, queue, workerVars, watermark, sent>>

\* The job found is sent as soon as there is room.
SendFound ==
    /\ scan.pc = "send"
    /\ SendJob(scan.next)
    /\ Advance(scan.next, FALSE)
    /\ UNCHANGED <<log, monitorVars, lastSeen, workerVars, watermark>>

BugPersistHighest ==
    /\ scan.pc = "persist"
    /\ \/ /\ UseLedger /\ scan.highest > 0
          /\ watermark' = scan.highest
       \/ /\ ~UseLedger \/ scan.highest = 0 \/ Faults
          /\ UNCHANGED watermark
    /\ lastSeen' = IF scan.highest > 0 THEN scan.highest ELSE lastSeen
    /\ scan' = [scan EXCEPT !.pc = "done"]
    /\ UNCHANGED <<log, monitorVars, queue, workerVars, sent>>

\* The highest slot met becomes the watermark, however the scan ended.
PersistHighest ==
    /\ scan.pc = "persist"
    /\ \/ /\ UseLedger /\ scan.highest > 0
          /\ watermark' = scan.highest
       \/ /\ ~UseLedger \/ scan.highest = 0 \/ Faults
          /\ UNCHANGED watermark
    /\ lastSeen' = Later(lastSeen, scan.highest)
    /\ scan' = [scan EXCEPT !.pc = "done"]
    /\ UNCHANGED <<log, monitorVars, queue, workerVars, sent>>

-----------------------------------------------------------------------------
(* The worker, as far as it matters here.  Settlement has the rest of it.  *)

\* job_rx.recv().  A job whose row is terminal is skipped.
Take ==
    /\ working = 0 /\ queue # <<>>
    /\ queue' = Tail(queue)
    /\ working' = IF Head(queue) \in settled THEN 0 ELSE Head(queue)
    /\ UNCHANGED <<log, monitorVars, lastSeen, scan, settled, processed,
                   watermark, sent>>

\* The pipeline settles the payment, and persist_slot_watermark writes the slot
\* the process has seen so far.
Settle ==
    /\ working # 0
    /\ working' = 0
    /\ settled' = settled \union {working}
    /\ processed' = processed \union {working}
    /\ \/ UseLedger /\ lastSeen > 0 /\ watermark' = lastSeen
       \/ (~UseLedger \/ lastSeen = 0 \/ Faults) /\ UNCHANGED watermark
    /\ UNCHANGED <<log, monitorVars, lastSeen, scan, queue, sent>>

\* The pipeline fails; nothing is sent again.
FailJob ==
    /\ working # 0
    /\ working' = 0
    /\ processed' = processed \union {working}
    /\ UNCHANGED <<log, monitorVars, lastSeen, scan, queue, settled, watermark, sent>>

-----------------------------------------------------------------------------
Environment == (\E kind \in Kinds : LandEntry(kind)) \/ Start \/ Crash \/ Unsubscribe
Monitor  == Observe \/ StreamEnds \/ Fetch \/ Send
Backfill == ReadWatermark \/ FetchPage \/ StopAtWatermark \/ SkipFailed \/ ScanEntry
            \/ SendFound \/ PersistHighest
Worker   == Take \/ Settle \/ FailJob

Next == Environment \/ Subscribe \/ Monitor \/ Backfill \/ Worker

\* The three tasks are scheduled, every RPC call and statement of theirs ends,
\* and every pipeline run ends at the evaluation timeout.  Nothing makes the
\* websocket endpoint take a subscription.
Fairness == WF_vars(Monitor) /\ WF_vars(Backfill) /\ WF_vars(Worker)

Spec     == Init /\ [][Next]_vars
FairSpec == Spec /\ Fairness

-----------------------------------------------------------------------------
(* Properties.                                                             *)

\* A backfill no RPC failure cut short has sent a job for every delivery among
\* the newest Lookback transactions above its watermark, unless the payment was
\* resolved: the pages neither overlap nor leave a gap, whatever lands, is
\* settled or is notified meanwhile (backfill_missed_deliveries).
BackfillCovers ==
    scan.pc = "done" /\ ~scan.cut =>
        \A i \in 1 .. scan.top :
            /\ log[i].kind = "delivery"
            /\ log[i].slot > scan.last
            /\ i > scan.top - Lookback
            => i \in sent \union settled

\* The slot the process has seen never falls back while it runs, though monitor
\* and backfill both write it and backfill looks at older slots (last_seen_slot).
SeenSlotNeverRegresses ==
    [][scan'.pc # "off" => lastSeen' >= lastSeen]_vars

\* Whatever the transactions are, and also where failed ones keep the cursor back
\* or are read again on the next page, a backfill no RPC failure cut short leaves
\* no delivery out above the last entry it looked at, and it stops there only at
\* its watermark, at the beginning of the log or with its lookback used up
\* (backfill_missed_deliveries).
ScanLeavesNoGap ==
    scan.pc = "done" /\ ~scan.cut =>
        /\ \A i \in 1 .. scan.top :
              i > scan.next /\ log[i].kind = "delivery" /\ log[i].slot > scan.last
              => i \in sent \union settled
        /\ scan.scanned = Lookback \/ scan.next = 0 \/ BelowWatermark(scan.next)

\* Two tasks write the watermark from what each has seen, and after a restart the
\* process has seen nothing.  Still the worker never takes it back; the backfill
\* may, and then not behind the watermark its scan began with
\* (persist_slot_watermark, backfill_missed_deliveries).
WatermarkFallsOnlyByBackfill ==
    [][\/ watermark' >= watermark
       \/ scan.pc = "persist" /\ watermark' >= scan.last]_vars

\* The deliveries notified and not yet dealt with.
InHand ==
    {i \in 1 .. Len(log) :
        /\ log[i].kind = "delivery"
        /\ i = observed \/ \E k \in 1 .. Len(inbox) : inbox[k] = i}

\* While the process runs and its RPC calls succeed, a delivery it was notified of
\* leaves the monitor's hands only as a job or because its payment is resolved,
\* not even when the websocket goes down behind it (monitor_deliveries).
NotifiedIsKept ==
    [][scan'.pc # "off" /\ ~Faults => InHand \subseteq InHand' \union sent' \union settled']_vars

\* How many steps a backfill has left at most: an entry takes three of them, for
\* its page, for its fetch and for its job.
ScanSteps ==
    LET unscanned == Lookback - scan.scanned
    IN CASE scan.pc = "start"   -> 3 * unscanned + 3
         [] scan.pc = "page"    -> 3 * unscanned + 2
         [] scan.pc = "entry"   -> 3 * unscanned + 1
         [] scan.pc = "send"    -> 3 * unscanned
         [] scan.pc = "persist" -> 1
         [] OTHER               -> 0

\* A backfill takes no more steps than its lookback allows for, however the log
\* grows while it walks it and however often it is thrown back to transactions it
\* has looked at: nothing but a full channel can hold it up (the loop of
\* backfill_missed_deliveries).
ScanStepsRunOut ==
    [][Running /\ scan'.pc # "off" /\ scan' # scan => ScanSteps' < ScanSteps]_vars

\* A backfill comes to an end, whatever the pages hold and however fast the log
\* grows (the loop of backfill_missed_deliveries).
ScanEnds ==
    scan.pc \in {"start", "page", "entry", "send", "persist"} ~> scan.pc \in {"done", "off"}

\* A delivery the subscription notified becomes a job, also when the channel is
\* full at the time (the send of monitor_deliveries waits).
NotifiedDeliveriesAreSent ==
    \A i \in 1 .. MaxLog :
        (\E k \in 1 .. Len(inbox) : inbox[k] = i /\ log[i].kind = "delivery")
        ~> i \in sent \union settled

\* An outage of the websocket is reported, though the monitor first works off what
\* the stream still holds and may have to wait for room in the channel: /health
\* does not go on for ever saying that it is connected (websocket_connected).
OutageIsReported ==
    connected /\ ~subscribed ~> ~connected

\* What a comment in backfill_missed_deliveries says of the watermark: every
\* delivery not above it was processed in a prior run.
WatermarkWasProcessed ==
    \A i \in 1 .. Len(log) :
        log[i].kind = "delivery" /\ log[i].slot <= scan.last => i \in processed
=============================================================================
