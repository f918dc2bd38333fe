------------------------ MODULE DeliveryWatch_proof ------------------------
(***************************************************************************)
(* Proofs about DeliveryWatch, for any lookback, page limit and channel.   *)
(* Places in the log stay valid because the log only grows, and what the   *)
(* backfill has looked at is always the newest scan.scanned entries of the *)
(* log its first page was taken from.                                      *)
(***************************************************************************)
EXTENDS DeliveryWatch, SequenceTheorems, TLAPS

LogEntry == [slot : Slots, kind : Kinds]

LogIsOrdered ==
    \A k \in 1 .. Len(log) :
        /\ log[k].slot \in 1 .. k
        /\ \A j \in 1 .. k : log[j].slot <= log[k].slot

\* Notifications and the entry the monitor works on are places in the log.
NotedIsInLog ==
    /\ \A k \in 1 .. Len(inbox) : inbox[k] \in 1 .. Len(log)
    /\ observed <= Len(log)
    /\ holding => observed # 0

\* So are the places of the backfill; the rest of the page fits the lookback.
ScanIsInLog ==
    /\ scan.top <= Len(log)
    /\ scan.before <= Len(log)
    /\ scan.pc \in {"entry", "send"} =>
           /\ 1 <= scan.until /\ scan.until <= scan.next /\ scan.next <= Len(log)
           /\ scan.scanned + (scan.next - scan.until + 1) <= Lookback

IInv == TypeOK /\ LogIsOrdered /\ NotedIsInLog /\ ScanIsInLog

-----------------------------------------------------------------------------
(* Facts about the variables in states with IInv.                          *)

LEMMA Constants ==
    /\ Lookback \in Nat /\ MaxLog \in Nat
    /\ PageLimit \in Nat \ {0} /\ ChannelCapacity \in Nat \ {0}
    /\ Entries \subseteq Nat /\ Slots \subseteq Nat /\ Entries = Slots
    /\ 0 \in Entries /\ Slots = 0 .. MaxLog
BY DeliveryWatchAssumption DEF Entries, Slots

LEMMA LogTyped ==
    ASSUME TypeOK
    PROVE  /\ log \in Seq(LogEntry) /\ Len(log) \in 0 .. MaxLog
           /\ \A k \in 1 .. Len(log) : log[k] \in LogEntry
<1>1. log \in Seq(LogEntry) /\ Len(log) <= MaxLog
  BY DEF TypeOK, LogEntry
<1>2. \A k \in 1 .. Len(log) : log[k] \in LogEntry
  BY <1>1, ElementOfSeq
<1>3. Len(log) \in Nat
  BY <1>1, LenProperties
<1> QED
  BY <1>1, <1>2, <1>3, Constants

LEMMA ScanTyped ==
    ASSUME TypeOK
    PROVE  /\ scan.last \in Slots /\ scan.highest \in Slots
           /\ scan.scanned \in 0 .. Lookback
           /\ scan.before \in Entries /\ scan.next \in Entries /\ scan.top \in Entries
           /\ scan.until \in 0 .. MaxLog + 1
           /\ scan.full \in BOOLEAN /\ scan.cut \in BOOLEAN
BY DEF TypeOK, Scans

LEMMA LaterInSlots ==
    ASSUME NEW a \in Slots, NEW b \in Slots
    PROVE  Later(a, b) \in Slots /\ Later(a, b) >= a /\ Later(a, b) >= b
BY Constants DEF Later

\* What a longer log does to places in it.
LEMMA GrowingLog ==
    ASSUME IInv, UNCHANGED scan, Len(log) \in Nat, Len(log') \in Nat, Len(log) <= Len(log')
    PROVE  ScanIsInLog'
<1>1. scan.top \in Nat /\ scan.before \in Nat /\ scan.next \in Nat
  BY ScanTyped, Constants DEF IInv
<1> QED
  BY <1>1 DEF IInv, ScanIsInLog

LEMMA LandEntryIInv ==
    ASSUME IInv, NEW kind \in Kinds, LandEntry(kind)
    PROVE  /\ IInv'
           /\ Len(log) <= Len(log') /\ \A k \in 1 .. Len(log) : log'[k] = log[k]
<1> DEFINE n == Len(log)
<1>1. TypeOK /\ n \in Nat /\ n < MaxLog /\ MaxLog \in Nat /\ log \in Seq(LogEntry)
  BY LogTyped, Constants DEF IInv, LandEntry
<1> DEFINE newest == IF log = <<>> THEN 0 ELSE log[n].slot
<1>2. newest \in 0 .. n /\ \A k \in 1 .. n : log[k].slot <= newest
  <2>1. CASE log = <<>>
    BY <1>1, <2>1
  <2>2. CASE log # <<>>
    <3>1. n \in 1 .. n
      BY <1>1, <2>2, EmptySeq
    <3> QED
      BY <1>1, <2>2, <3>1 DEF IInv, LogIsOrdered
  <2> QED
    BY <2>1, <2>2
<1>3. PICK slot \in {Later(1, newest), newest + 1} :
          log' = Append(log, [slot |-> slot, kind |-> kind])
  BY DEF LandEntry
<1>4. slot \in 1 .. n + 1 /\ newest <= slot
  BY <1>1, <1>2 DEF Later
<1>5. [slot |-> slot, kind |-> kind] \in LogEntry
  BY <1>1, <1>4, Constants DEF LogEntry
<1>6. /\ log' \in Seq(LogEntry) /\ Len(log') = n + 1
      /\ \A k \in 1 .. n : log'[k] = log[k]
      /\ log'[n + 1] = [slot |-> slot, kind |-> kind]
  BY <1>1, <1>3, <1>5, AppendProperties
<1>7. LogIsOrdered'
  <2>1. ASSUME NEW k \in 1 .. n
        PROVE  log'[k].slot \in 1 .. k /\ \A j \in 1 .. k : log'[j].slot <= log'[k].slot
    <3>1. \A j \in 1 .. k : j \in 1 .. n
      BY <1>1
    <3> QED
      BY <1>6, <3>1 DEF IInv, LogIsOrdered
  <2>2. ASSUME NEW j \in 1 .. n + 1 PROVE log'[j].slot <= slot
    <3>1. CASE j \in 1 .. n
      <4>1. log[j].slot \in 1 .. j /\ log[j].slot <= newest
        BY <1>2, <3>1 DEF IInv, LogIsOrdered
      <4> QED
        BY <1>1, <1>2, <1>4, <1>6, <3>1, <4>1
    <3>2. CASE j = n + 1
      BY <1>4, <1>6, <3>2
    <3> QED
      BY <1>1, <3>1, <3>2
  <2>3. log'[n + 1].slot = slot
    BY <1>6
  <2>4. \A k \in 1 .. n + 1 : k \in 1 .. n \/ k = n + 1
    BY <1>1
  <2> QED
    BY <1>4, <1>6, <2>1, <2>2, <2>3, <2>4 DEF LogIsOrdered
<1>8. inbox' \in Seq(Entries) /\ \A k \in 1 .. Len(inbox') : inbox'[k] \in 1 .. n + 1
  <2>1. inbox \in Seq(Entries) /\ n + 1 \in Entries /\ \A k \in 1 .. Len(inbox) : inbox[k] \in 1 .. n + 1
    BY <1>1 DEF IInv, TypeOK, NotedIsInLog, Entries
  <2>2. CASE inbox' = Append(inbox, n + 1)
    <3>1. /\ inbox' \in Seq(Entries) /\ Len(inbox') = Len(inbox) + 1 /\ Len(inbox) \in Nat
          /\ \A k \in 1 .. Len(inbox) : inbox'[k] = inbox[k]
          /\ inbox'[Len(inbox) + 1] = n + 1
      BY <2>1, <2>2, AppendProperties, LenProperties
    <3>2. \A k \in 1 .. Len(inbox') : k \in 1 .. Len(inbox) \/ k = Len(inbox) + 1
      BY <3>1
    <3> QED
      BY <1>1, <2>1, <3>1, <3>2
  <2>3. CASE inbox' = inbox
    BY <2>1, <2>3
  <2> QED
    BY <2>2, <2>3 DEF LandEntry
<1>9. UNCHANGED <<subscribed, connected, observed, holding, lastSeen, scan, queue,
                  workerVars, watermark, sent>>
  BY DEF LandEntry
<1>10. TypeOK'
  BY <1>1, <1>6, <1>8, <1>9 DEF TypeOK, LogEntry, workerVars
<1>11. NotedIsInLog'
  BY <1>1, <1>6, <1>8, <1>9 DEF IInv, NotedIsInLog, TypeOK, Entries
<1>12. ScanIsInLog'
  BY <1>1, <1>6, <1>9, GrowingLog
<1> QED
  BY <1>1, <1>6, <1>7, <1>10, <1>11, <1>12 DEF IInv

-----------------------------------------------------------------------------
(* The steps that do not touch the log.                                    *)

LEMMA InitIInv == Init => IInv
<1> SUFFICES ASSUME Init PROVE IInv
  OBVIOUS
<1>1. <<>> \in Seq(LogEntry) /\ <<>> \in Seq(Entries) /\ Len(<<>>) = 0
  OBVIOUS
<1>2. Len(log) = 0 /\ Len(inbox) = 0 /\ Len(queue) = 0
  BY <1>1 DEF Init
<1>3. ScanOff \in Scans
  BY Constants DEF ScanOff, Scans
<1>4. TypeOK
  <2>1. Len(log) <= MaxLog /\ Len(queue) <= ChannelCapacity
    BY <1>2, Constants
  <2>2. log \in Seq(LogEntry) /\ inbox \in Seq(Entries) /\ queue \in Seq(Entries)
    BY <1>1 DEF Init
  <2>3. 0 \in Slots /\ 0 \in Entries
    BY Constants
  <2> QED
    BY <1>3, <2>1, <2>2, <2>3 DEF Init, TypeOK, LogEntry
<1>5. LogIsOrdered /\ NotedIsInLog /\ ScanIsInLog
  BY <1>2 DEF Init, LogIsOrdered, NotedIsInLog, ScanIsInLog, ScanOff
<1> QED
  BY <1>4, <1>5 DEF IInv

\* A job sent keeps the channel within its capacity.
LEMMA SendTyped ==
    ASSUME TypeOK, NEW i \in Entries, SendJob(i)
    PROVE  /\ queue' \in Seq(Entries) /\ Len(queue') <= ChannelCapacity
           /\ sent' \subseteq Entries /\ sent \subseteq sent' /\ i \in sent'
<1>1. queue \in Seq(Entries) /\ Len(queue) \in Nat /\ Len(queue) < ChannelCapacity
  BY LenProperties DEF TypeOK, SendJob
<1>2. Len(queue') = Len(queue) + 1 /\ queue' \in Seq(Entries)
  BY <1>1, AppendProperties DEF SendJob
<1> QED
  BY <1>1, <1>2, Constants DEF SendJob, TypeOK

\* Steps of monitor, worker and environment with log and scan unchanged.
LEMMA OutsideScanIInv ==
    ASSUME IInv, UNCHANGED <<log, scan>>, TypeOK', NotedIsInLog'
    PROVE  IInv'
BY DEF IInv, LogIsOrdered, ScanIsInLog

LEMMA MonitorIInv == IInv /\ (Subscribe \/ Unsubscribe \/ Monitor) => IInv'
<1> SUFFICES ASSUME IInv, Subscribe \/ Unsubscribe \/ Monitor PROVE IInv'
  OBVIOUS
<1>0. TypeOK /\ NotedIsInLog
  BY DEF IInv
<1>1. CASE Subscribe \/ Unsubscribe \/ StreamEnds
  <2>1. /\ subscribed' \in BOOLEAN /\ connected' \in BOOLEAN
        /\ UNCHANGED <<log, inbox, observed, holding, lastSeen, scan, queue, workerVars,
                       watermark, sent>>
    BY <1>0, <1>1 DEF Subscribe, Unsubscribe, StreamEnds, TypeOK
  <2>2. TypeOK'
    BY <1>0, <2>1 DEF TypeOK, workerVars
  <2>3. NotedIsInLog'
    BY <1>0, <2>1 DEF NotedIsInLog
  <2> QED
    BY <2>1, <2>2, <2>3, OutsideScanIInv
<1>2. CASE Observe
  <2>1. inbox \in Seq(Entries) /\ inbox # <<>> /\ inbox' = Tail(inbox) /\ observed' = Head(inbox)
    BY <1>2 DEF Observe, IInv, TypeOK
  <2>2. /\ Len(inbox) \in Nat \ {0} /\ Len(inbox') = Len(inbox) - 1
        /\ inbox' \in Seq(Entries) /\ observed' = inbox[1] /\ observed' \in Entries
        /\ \A k \in 1 .. Len(inbox') : inbox'[k] = inbox[k + 1]
    BY <2>1, HeadTailProperties, LenProperties, EmptySeq
  <2>3. \A k \in 1 .. Len(inbox) : inbox[k] \in 1 .. Len(log)
    BY DEF IInv, NotedIsInLog
  <2>4. \A k \in 1 .. Len(inbox') : inbox'[k] \in 1 .. Len(log)
    <3>1. \A k \in 1 .. Len(inbox') : k + 1 \in 1 .. Len(inbox)
      BY <2>2
    <3> QED
      BY <2>2, <2>3, <3>1
  <2>5. observed' \in 1 .. Len(log)
    BY <2>2, <2>3
  <2>6. /\ lastSeen' = Later(lastSeen, log[observed'].slot)
        /\ UNCHANGED <<log, subscribed, connected, holding, scan, queue, workerVars,
                       watermark, sent>>
    BY <1>2 DEF Observe
  <2>7. lastSeen' \in Slots
    BY <1>0, <2>5, <2>6, LogTyped, LaterInSlots DEF LogEntry, TypeOK
  <2>8. TypeOK'
    BY <1>0, <2>2, <2>6, <2>7 DEF TypeOK, workerVars
  <2>9. NotedIsInLog'
    BY <1>0, <2>4, <2>5, <2>6, LogTyped DEF NotedIsInLog
  <2> QED
    BY <2>6, <2>8, <2>9, OutsideScanIInv
<1>3. CASE Fetch
  <2>1. /\ observed' \in {observed, 0} /\ holding' \in BOOLEAN
        /\ holding' => observed' # 0
        /\ UNCHANGED <<log, subscribed, inbox, connected, lastSeen, scan, queue, workerVars,
                       watermark, sent>>
    <3>1. CASE holding' = TRUE /\ UNCHANGED observed
      BY <1>3, <3>1 DEF Fetch
    <3>2. CASE observed' = 0 /\ UNCHANGED holding
      <4>1. ~holding /\ holding \in BOOLEAN
        BY <1>0, <1>3 DEF Fetch, TypeOK
      <4>2. holding' = holding
        BY <3>2
      <4>3. ~holding' /\ holding' \in BOOLEAN
        BY <4>1, <4>2
      <4> QED
        BY <1>3, <3>2, <4>3 DEF Fetch
    <3> QED
      BY <1>3, <3>1, <3>2 DEF Fetch
  <2>2. TypeOK' /\ NotedIsInLog'
    BY <1>0, <2>1, LogTyped, Constants DEF TypeOK, NotedIsInLog, workerVars
  <2> QED
    BY <2>1, <2>2, OutsideScanIInv
<1>4. CASE Send
  <2>1. /\ observed' = 0 /\ holding' = FALSE /\ SendJob(observed) /\ observed \in Entries
        /\ UNCHANGED <<log, subscribed, inbox, connected, lastSeen, scan, workerVars, watermark>>
    BY <1>0, <1>4 DEF Send, TypeOK
  <2>2. TypeOK'
    BY <1>0, <2>1, SendTyped, Constants DEF TypeOK, workerVars
  <2>3. NotedIsInLog'
    BY <1>0, <2>1, LogTyped DEF NotedIsInLog
  <2> QED
    BY <2>1, <2>2, <2>3, OutsideScanIInv
<1> QED
  BY <1>1, <1>2, <1>3, <1>4 DEF Monitor

LEMMA WorkerIInv == IInv /\ Worker => IInv'
<1> SUFFICES ASSUME IInv, Worker PROVE IInv'
  OBVIOUS
<1>0. TypeOK /\ NotedIsInLog
  BY DEF IInv
<1>1. CASE Take
  <2>1. queue \in Seq(Entries) /\ queue # <<>> /\ queue' = Tail(queue)
    BY <1>0, <1>1 DEF Take, TypeOK
  <2>2. /\ Head(queue) \in Entries /\ queue' \in Seq(Entries)
        /\ Len(queue') = Len(queue) - 1 /\ Len(queue) \in Nat
    BY <2>1, HeadTailProperties, LenProperties
  <2>3. working' \in Entries
    BY <1>1, <2>2, Constants DEF Take
  <2>4. UNCHANGED <<log, monitorVars, lastSeen, scan, settled, processed, watermark, sent>>
    BY <1>1 DEF Take
  <2>5. Len(queue') <= ChannelCapacity
    BY <1>0, <2>2, Constants DEF TypeOK
  <2>6. TypeOK' /\ NotedIsInLog'
    BY <1>0, <2>2, <2>3, <2>4, <2>5 DEF TypeOK, NotedIsInLog, monitorVars
  <2> QED
    BY <2>4, <2>6, OutsideScanIInv
<1>2. CASE Settle \/ FailJob
  <2>1. /\ working' = 0 /\ settled' \subseteq Entries /\ processed' \subseteq Entries
        /\ watermark' \in Slots
        /\ UNCHANGED <<log, monitorVars, lastSeen, scan, queue, sent>>
    BY <1>0, <1>2 DEF Settle, FailJob, TypeOK
  <2>2. TypeOK' /\ NotedIsInLog'
    BY <1>0, <2>1, Constants DEF TypeOK, NotedIsInLog, monitorVars
  <2> QED
    BY <2>1, <2>2, OutsideScanIInv
<1> QED
  BY <1>1, <1>2 DEF Worker

LEMMA LifeIInv == IInv /\ (Start \/ Crash) => IInv'
<1> SUFFICES ASSUME IInv, Start \/ Crash PROVE IInv'
  OBVIOUS
<1>0. TypeOK /\ NotedIsInLog /\ LogIsOrdered
  BY DEF IInv
<1>1. CASE Start
  <2>1. /\ scan.pc = "off" /\ scan' = [scan EXCEPT !.pc = scan'.pc] /\ scan'.pc \in {"start", "done"}
        /\ UNCHANGED <<log, monitorVars, lastSeen, queue, workerVars, watermark, sent>>
    BY <1>0, <1>1 DEF Start, Running, TypeOK, Scans
  <2>2. scan' \in Scans
    BY <1>0, <2>1 DEF TypeOK, Scans
  <2>3. scan'.top = scan.top /\ scan'.before = scan.before
    BY <1>0, <2>1 DEF TypeOK, Scans
  <2>4. ScanIsInLog'
    BY <2>1, <2>3 DEF IInv, ScanIsInLog
  <2>5. TypeOK' /\ NotedIsInLog' /\ LogIsOrdered'
    BY <1>0, <2>1, <2>2 DEF TypeOK, NotedIsInLog, LogIsOrdered, monitorVars, workerVars
  <2> QED
    BY <2>4, <2>5 DEF IInv
<1>2. CASE Crash
  <2>1. /\ inbox' = <<>> /\ connected' = FALSE /\ subscribed' = FALSE /\ observed' = 0
        /\ holding' = FALSE /\ lastSeen' = 0 /\ scan' = ScanOff /\ queue' = <<>> /\ working' = 0
        /\ UNCHANGED <<log, watermark, settled, sent, processed>>
    BY <1>2 DEF Crash
  <2>2. ScanOff \in Scans /\ <<>> \in Seq(Entries) /\ Len(<<>>) = 0
    BY Constants DEF ScanOff, Scans
  <2>3. TypeOK'
    <3>1. Len(queue') <= ChannelCapacity /\ queue' \in Seq(Entries) /\ inbox' \in Seq(Entries)
      BY <2>1, <2>2, Constants
    <3>2. 0 \in Slots /\ 0 \in Entries /\ scan' \in Scans
      BY <2>1, <2>2, Constants
    <3> QED
      BY <1>0, <2>1, <3>1, <3>2 DEF TypeOK
  <2>4. NotedIsInLog' /\ LogIsOrdered' /\ ScanIsInLog'
    BY <1>0, <2>1, <2>2, LogTyped DEF NotedIsInLog, LogIsOrdered, ScanIsInLog, ScanOff
  <2> QED
    BY <2>3, <2>4 DEF IInv
<1> QED
  BY <1>1, <1>2

-----------------------------------------------------------------------------
(* The steps of the backfill.                                              *)

\* What the scan is after it has moved past the entry it looked at.
LEMMA AdvanceFields ==
    ASSUME TypeOK, NEW before, NEW cut \in BOOLEAN, Advance(before, cut)
    PROVE  /\ scan'.scanned = scan.scanned + 1 /\ scan'.next = scan.next - 1
           /\ scan'.before = before /\ (scan'.cut <=> scan.cut \/ cut)
           /\ scan'.until = scan.until /\ scan'.top = scan.top /\ scan'.last = scan.last
           /\ scan'.full = scan.full
           /\ scan'.highest = Later(scan.highest, log[scan.next].slot)
           /\ scan.next # scan.until => scan'.pc = "entry"
           /\ scan.next = scan.until => scan'.pc = IF scan.full THEN "page" ELSE "persist"
BY DEF Advance, TypeOK, Scans

LEMMA AdvanceScan ==
    ASSUME IInv, scan.pc \in {"entry", "send"}, NEW before \in {scan.before, scan.next},
           NEW cut \in BOOLEAN, Advance(before, cut), UNCHANGED log
    PROVE  scan' \in Scans /\ ScanIsInLog'
<1>0. /\ scan.next \in Nat /\ scan.until \in Nat /\ scan.top \in Nat /\ scan.before \in Nat
      /\ scan.scanned \in 0 .. Lookback /\ Lookback \in Nat
      /\ scan.next \in Entries /\ scan.before \in Entries
      /\ Len(log) \in Nat /\ TypeOK
  BY ScanTyped, LogTyped, Constants DEF IInv
<1>1. /\ 1 <= scan.until /\ scan.until <= scan.next /\ scan.next <= Len(log)
      /\ scan.scanned + (scan.next - scan.until + 1) <= Lookback
      /\ scan.top <= Len(log) /\ scan.before <= Len(log)
  BY DEF IInv, ScanIsInLog
<1>2. log[scan.next].slot \in Slots
  BY <1>0, <1>1, LogTyped DEF LogEntry
<1>3. scan' \in Scans
  <2>1. scan.scanned + 1 \in 0 .. Lookback /\ scan.next - 1 \in Entries
    <3>1. scan.scanned + 1 \in 0 .. Lookback
      BY <1>0, <1>1
    <3>2. scan.next \in 0 .. MaxLog /\ MaxLog \in Nat
      BY <1>0, Constants DEF Entries
    <3>3. scan.next - 1 \in 0 .. MaxLog
      BY <1>0, <1>1, <3>2
    <3> QED
      BY <3>1, <3>3 DEF Entries
  <2>2. Later(scan.highest, log[scan.next].slot) \in Slots
    BY <1>0, <1>2, ScanTyped, LaterInSlots
  <2>3. scan'.pc \in {"entry", "page", "persist"}
    BY <1>0, AdvanceFields
  <2>4. before \in Entries /\ (scan.cut \/ cut) \in BOOLEAN
    BY <1>0
  <2>5. scan \in Scans
    BY <1>0 DEF TypeOK
  <2>6. scan' = [scan EXCEPT
            !.scanned = scan.scanned + 1, !.highest = Later(scan.highest, log[scan.next].slot),
            !.before = before, !.cut = scan.cut \/ cut, !.next = scan.next - 1, !.pc = scan'.pc]
    BY <2>5 DEF Advance, Scans
  <2> QED
    BY <2>1, <2>2, <2>3, <2>4, <2>5, <2>6 DEF Scans
<1>4. ScanIsInLog'
  <2>1. /\ scan'.scanned = scan.scanned + 1 /\ scan'.next = scan.next - 1
        /\ scan'.before \in {scan.before, scan.next} /\ scan'.until = scan.until
        /\ scan'.top = scan.top
    BY <1>0, AdvanceFields
  <2>2. scan'.pc \in {"entry", "send"} => scan.next # scan.until
    BY <1>0, AdvanceFields
  <2>3. scan'.top <= Len(log') /\ scan'.before <= Len(log')
    BY <1>1, <2>1
  <2>4. ASSUME scan.next # scan.until
        PROVE  /\ 1 <= scan'.until /\ scan'.until <= scan'.next /\ scan'.next <= Len(log')
               /\ scan'.scanned + (scan'.next - scan'.until + 1) <= Lookback
    <3>1. /\ scan.until <= scan.next - 1 /\ scan.next - 1 <= Len(log)
          /\ scan.scanned + 1 + (scan.next - 1 - scan.until + 1) <= Lookback
      BY <1>0, <1>1, <2>4
    <3> QED
      BY <1>1, <2>1, <3>1
  <2> QED
    BY <2>2, <2>3, <2>4 DEF ScanIsInLog
<1> QED
  BY <1>3, <1>4

\* Steps of the backfill that send nothing and write no slot.
LEMMA ScanOnlyIInv ==
    ASSUME IInv, scan' \in Scans, ScanIsInLog',
           UNCHANGED <<log, monitorVars, lastSeen, queue, workerVars, watermark, sent>>
    PROVE  IInv'
BY DEF IInv, TypeOK, LogIsOrdered, NotedIsInLog, monitorVars, workerVars

\* What FetchPage makes of the scan.
LEMMA FetchPageCases ==
    ASSUME IInv, FetchPage
    PROVE  /\ PageTop \in 0 .. Len(log) /\ Want \in 0 .. Lookback
           /\ Want = Lookback - scan.scanned \/ Want = PageLimit
           /\ Want <= Lookback - scan.scanned /\ Want <= PageLimit
           /\ \/ \E got \in 1 .. Want :
                    /\ got <= PageTop /\ (got = Want \/ got = PageTop)
                    /\ scan' = [scan EXCEPT !.next = PageTop, !.until = PageTop - got + 1,
                                            !.full = (got = Want), !.pc = "entry",
                                            !.top = IF scan.scanned = 0 THEN Len(log)
                                                    ELSE scan.top]
              \/ /\ Want = 0 \/ PageTop = 0
                 /\ scan' = [scan EXCEPT !.pc = "persist"]
              \/ scan' = [scan EXCEPT !.pc = "persist", !.cut = TRUE]
<1>0. /\ scan.scanned \in 0 .. Lookback /\ Lookback \in Nat /\ PageLimit \in Nat \ {0}
      /\ scan.before \in Nat /\ scan.before <= Len(log) /\ Len(log) \in Nat
  BY ScanTyped, LogTyped, Constants DEF IInv, ScanIsInLog
<1>1. PageTop \in 0 .. Len(log)
  BY <1>0 DEF PageTop
<1>2. /\ Want \in 0 .. Lookback
      /\ Want = Lookback - scan.scanned \/ Want = PageLimit
      /\ Want <= Lookback - scan.scanned /\ Want <= PageLimit
  BY <1>0 DEF Want, Fewer
<1> HIDE DEF PageTop, Want
<1>3. /\ Fewer(Want, PageTop) \in Nat /\ Fewer(Want, PageTop) <= Want
      /\ Fewer(Want, PageTop) <= PageTop
      /\ Fewer(Want, PageTop) = Want \/ Fewer(Want, PageTop) = PageTop
  BY <1>0, <1>1, <1>2 DEF Fewer
<1>4. CASE /\ Fewer(Want, PageTop) > 0
           /\ scan' = [scan EXCEPT !.next = PageTop,
                                   !.until = PageTop - Fewer(Want, PageTop) + 1,
                                   !.full = (Fewer(Want, PageTop) = Want), !.pc = "entry",
                                   !.top = IF scan.scanned = 0 THEN Len(log) ELSE @]
  <2>1. Fewer(Want, PageTop) \in 1 .. Want
    BY <1>2, <1>3, <1>4
  <2> QED
    BY <1>1, <1>2, <1>3, <1>4, <2>1
<1>5. CASE Fewer(Want, PageTop) = 0 /\ scan' = [scan EXCEPT !.pc = "persist"]
  BY <1>1, <1>2, <1>3, <1>5
<1>6. CASE scan' = [scan EXCEPT !.pc = "persist", !.cut = TRUE]
  BY <1>1, <1>2, <1>6
<1> QED
  BY <1>4, <1>5, <1>6 DEF FetchPage

LEMMA FetchPageScan ==
    ASSUME IInv, FetchPage
    PROVE  scan' \in Scans /\ ScanIsInLog'
<1>0. /\ scan \in Scans /\ UNCHANGED log
      /\ Len(log) \in 0 .. MaxLog /\ scan.scanned \in 0 .. Lookback
      /\ Lookback \in Nat /\ MaxLog \in Nat /\ scan.top \in Entries
      /\ scan.top <= Len(log) /\ scan.before <= Len(log)
  BY ScanTyped, LogTyped, Constants DEF IInv, TypeOK, FetchPage, ScanIsInLog
<1>1. PageTop \in 0 .. Len(log) /\ Want \in 0 .. Lookback /\ Want <= Lookback - scan.scanned
  BY FetchPageCases
<1> HIDE DEF PageTop, Want
<1>2. ASSUME NEW got \in 1 .. Want, got <= PageTop,
             scan' = [scan EXCEPT !.next = PageTop, !.until = PageTop - got + 1,
                                  !.full = (got = Want), !.pc = "entry",
                                  !.top = IF scan.scanned = 0 THEN Len(log) ELSE scan.top]
      PROVE  scan' \in Scans /\ ScanIsInLog'
  <2> DEFINE top == IF scan.scanned = 0 THEN Len(log) ELSE scan.top
             until == PageTop - got + 1
             full == got = Want
  <2>1. /\ PageTop \in Entries /\ until \in 0 .. MaxLog + 1 /\ top \in Entries
        /\ full \in BOOLEAN /\ top <= Len(log)
        /\ 1 <= until /\ until <= PageTop
        /\ scan.scanned + (PageTop - until + 1) <= Lookback
    <3>1. got \in Nat /\ 1 <= got /\ got <= Lookback - scan.scanned
      BY <1>0, <1>1
    <3>2. PageTop \in Entries /\ top \in Entries /\ full \in BOOLEAN /\ top <= Len(log)
      BY <1>0, <1>1 DEF Entries
    <3>3. until \in 0 .. MaxLog + 1 /\ 1 <= until /\ until <= PageTop /\ PageTop - until + 1 = got
      BY <1>0, <1>1, <1>2, <3>1
    <3>4. scan.scanned + (PageTop - until + 1) <= Lookback
      BY <1>0, <3>1, <3>3
    <3> QED
      BY <3>2, <3>3, <3>4
  <2>2. scan' = [scan EXCEPT !.next = PageTop, !.until = until, !.full = full, !.pc = "entry",
                             !.top = top]
    BY <1>2
  <2> HIDE DEF top, until, full
  <2>3. scan' \in Scans
    BY <1>0, <2>1, <2>2 DEF Scans
  <2>4. /\ scan'.next = PageTop /\ scan'.until = until /\ scan'.top = top
        /\ scan'.before = scan.before /\ scan'.scanned = scan.scanned
    BY <1>0, <2>2 DEF Scans
  <2>5. ScanIsInLog'
    BY <1>0, <1>1, <2>1, <2>4 DEF ScanIsInLog
  <2> QED
    BY <2>3, <2>5
<1>3. CASE \/ scan' = [scan EXCEPT !.pc = "persist"]
           \/ scan' = [scan EXCEPT !.pc = "persist", !.cut = TRUE]
  <2>1. scan' \in Scans
    BY <1>0, <1>3 DEF Scans
  <2>2. scan'.pc = "persist" /\ scan'.top = scan.top /\ scan'.before = scan.before
    BY <1>0, <1>3 DEF Scans
  <2> QED
    BY <1>0, <2>1, <2>2 DEF ScanIsInLog
<1> QED
  BY <1>2, <1>3, FetchPageCases

LEMMA BackfillIInv == IInv /\ Backfill => IInv'
<1> SUFFICES ASSUME IInv, Backfill PROVE IInv'
  OBVIOUS
<1>0. TypeOK /\ scan \in Scans /\ NotedIsInLog /\ LogIsOrdered
  BY DEF IInv, TypeOK
<1>1. CASE ReadWatermark
  <2>1. PICK last \in {watermark, 0} :
            scan' = [scan EXCEPT !.pc = "page", !.last = last, !.highest = last]
    BY <1>1 DEF ReadWatermark
  <2>2. last \in Slots
    BY <1>0, Constants DEF TypeOK
  <2>3. /\ scan' \in Scans /\ scan'.pc = "page"
        /\ scan'.top = scan.top /\ scan'.before = scan.before
    BY <1>0, <2>1, <2>2 DEF Scans
  <2>4. ScanIsInLog'
    BY <1>1, <2>3 DEF ReadWatermark, IInv, ScanIsInLog
  <2> QED
    BY <1>1, <2>3, <2>4, ScanOnlyIInv DEF ReadWatermark
<1>2. CASE FetchPage
  BY <1>2, FetchPageScan, ScanOnlyIInv DEF FetchPage
<1>3. CASE StopAtWatermark
  <2>1. /\ scan.pc = "entry"
        /\ scan' = [scan EXCEPT !.pc = "persist", !.scanned = scan.scanned + 1,
                                !.highest = Later(scan.highest, log[scan.next].slot)]
        /\ UNCHANGED <<log, monitorVars, lastSeen, queue, workerVars, watermark, sent>>
    BY <1>3 DEF StopAtWatermark
  <2>2. /\ scan.next \in 1 .. Len(log) /\ scan.scanned + 1 \in 0 .. Lookback
    <3>1. /\ 1 <= scan.until /\ scan.until <= scan.next /\ scan.next <= Len(log)
          /\ scan.scanned + (scan.next - scan.until + 1) <= Lookback
      BY <2>1 DEF IInv, ScanIsInLog
    <3>2. /\ scan.next \in Nat /\ scan.until \in Nat /\ scan.scanned \in 0 .. Lookback
          /\ Lookback \in Nat /\ Len(log) \in Nat
      BY <1>0, ScanTyped, LogTyped, Constants
    <3> QED
      BY <3>1, <3>2
  <2>3. Later(scan.highest, log[scan.next].slot) \in Slots
    <3>1. scan.highest \in Slots /\ log[scan.next].slot \in Slots
      BY <1>0, <2>2, ScanTyped, LogTyped DEF LogEntry
    <3> QED
      BY <3>1, LaterInSlots
  <2>4. /\ scan' \in Scans /\ scan'.pc = "persist"
        /\ scan'.top = scan.top /\ scan'.before = scan.before
    BY <1>0, <2>1, <2>2, <2>3 DEF Scans
  <2>5. ScanIsInLog'
    BY <2>1, <2>4 DEF IInv, ScanIsInLog
  <2> QED
    BY <2>1, <2>4, <2>5, ScanOnlyIInv
<1>4. CASE SkipFailed
  BY <1>4, AdvanceScan, ScanOnlyIInv DEF SkipFailed
<1>5. CASE ScanEntry
  <2>1. CASE scan' = [scan EXCEPT !.pc = "send"]
    <3>1. /\ scan' \in Scans /\ scan'.pc = "send" /\ scan'.top = scan.top
          /\ scan'.before = scan.before /\ scan'.until = scan.until /\ scan'.next = scan.next
          /\ scan'.scanned = scan.scanned
      BY <1>0, <2>1 DEF Scans
    <3>2. ScanIsInLog'
      BY <1>5, <3>1 DEF ScanEntry, IInv, ScanIsInLog
    <3> QED
      BY <1>5, <3>1, <3>2, ScanOnlyIInv DEF ScanEntry
  <2>2. CASE Advance(scan.next, FALSE) \/ Advance(scan.next, TRUE)
    BY <1>5, <2>2, AdvanceScan, ScanOnlyIInv DEF ScanEntry
  <2> QED
    BY <1>5, <2>1, <2>2 DEF ScanEntry
<1>6. CASE SendFound
  <2>1. /\ SendJob(scan.next) /\ scan.next \in Entries
        /\ UNCHANGED <<log, monitorVars, lastSeen, workerVars, watermark>>
    BY <1>0, <1>6, ScanTyped DEF SendFound
  <2>2. scan' \in Scans /\ ScanIsInLog'
    BY <1>6, <2>1, AdvanceScan DEF SendFound
  <2>3. TypeOK' /\ NotedIsInLog' /\ LogIsOrdered'
    BY <1>0, <2>1, <2>2, SendTyped DEF TypeOK, NotedIsInLog, LogIsOrdered, monitorVars, workerVars
  <2> QED
    BY <2>2, <2>3 DEF IInv
<1>7. CASE PersistHighest
  <2>1. /\ scan' = [scan EXCEPT !.pc = "done"] /\ watermark' \in {watermark, scan.highest}
        /\ lastSeen' = Later(lastSeen, scan.highest)
        /\ UNCHANGED <<log, monitorVars, queue, workerVars, sent>>
    BY <1>7 DEF PersistHighest
  <2>2. watermark' \in Slots /\ lastSeen' \in Slots
    BY <1>0, <2>1, ScanTyped, LaterInSlots DEF TypeOK
  <2>3. /\ scan' \in Scans /\ scan'.pc = "done"
        /\ scan'.top = scan.top /\ scan'.before = scan.before
    BY <1>0, <2>1 DEF Scans
  <2>4. ScanIsInLog'
    BY <2>1, <2>3 DEF IInv, ScanIsInLog
  <2>5. TypeOK' /\ NotedIsInLog' /\ LogIsOrdered'
    BY <1>0, <2>1, <2>2, <2>3 DEF TypeOK, NotedIsInLog, LogIsOrdered, monitorVars, workerVars
  <2> QED
    BY <2>4, <2>5 DEF IInv
<1> QED
  BY <1>1, <1>2, <1>3, <1>4, <1>5, <1>6, <1>7 DEF Backfill

LEMMA NextIInv == IInv /\ [Next]_vars => IInv'
<1>1. CASE UNCHANGED vars
  BY <1>1 DEF vars, monitorVars, workerVars, IInv, TypeOK, LogIsOrdered, NotedIsInLog, ScanIsInLog
<1> QED
  BY <1>1, LandEntryIInv, LifeIInv, MonitorIInv, WorkerIInv, BackfillIInv
  DEF Next, Environment

LEMMA Invariance == Spec => []IInv
BY InitIInv, NextIInv, PTL DEF Spec

\* Every variable keeps its type, the channel is never overfull and the scan never
\* exceeds its lookback (chain.rs, monitor_deliveries, backfill_missed_deliveries).
THEOREM WatchTypes == Spec => []TypeOK
<1>1. IInv => TypeOK
  BY DEF IInv
<1> QED
  BY <1>1, Invariance, PTL

LEMMA SlotStep == IInv /\ [Next]_vars => [scan'.pc # "off" => lastSeen' >= lastSeen]_vars
<1> SUFFICES ASSUME IInv, Next, scan'.pc # "off" PROVE lastSeen' >= lastSeen
  OBVIOUS
<1>1. lastSeen \in Slots /\ lastSeen >= lastSeen
  BY Constants DEF IInv, TypeOK
<1>2. CASE UNCHANGED lastSeen
  BY <1>1, <1>2
<1>3. CASE Observe
  <2>1. inbox \in Seq(Entries) /\ inbox # <<>>
    BY <1>3 DEF Observe, IInv, TypeOK
  <2>2. Head(inbox) = inbox[1] /\ Len(inbox) \in Nat \ {0}
    BY <2>1, EmptySeq, HeadTailProperties
  <2>3. Head(inbox) \in 1 .. Len(log)
    BY <2>2 DEF IInv, NotedIsInLog
  <2>4. log[Head(inbox)].slot \in Slots
    BY <2>3, LogTyped DEF IInv, LogEntry
  <2> QED
    BY <1>1, <1>3, <2>4, LaterInSlots DEF Observe
<1>4. CASE PersistHighest
  BY <1>1, <1>4, ScanTyped, LaterInSlots DEF IInv, PersistHighest
<1>5. CASE Crash
  BY <1>5 DEF Crash, ScanOff
<1> QED
  BY <1>2, <1>3, <1>4, <1>5
  DEF Next, Environment, Monitor, Backfill, Worker, LandEntry, Start, Unsubscribe, Subscribe,
      StreamEnds, Fetch, Send, ReadWatermark, FetchPage, StopAtWatermark, SkipFailed, ScanEntry,
      SendFound, Take, Settle, FailJob

\* The slot seen only grows while the process runs, whichever of the two tasks
\* writes it (chain.rs, RuntimeHealth.last_seen_slot).
THEOREM SeenSlotGrows == Spec => SeenSlotNeverRegresses
BY Invariance, SlotStep, PTL DEF Spec, SeenSlotNeverRegresses
-----------------------------------------------------------------------------
(* What a scan covers.                                                     *)

\* A failed transaction does not move the cursor between pages, so that it may
\* be read twice and use up the lookback: either there is none, or one page is all.
CursorIsExact == "failed" \notin Kinds \/ PageLimit >= Lookback

\* Every delivery of the scan's log from place k on was sent or is resolved.
CoveredFrom(k) ==
    \A i \in 1 .. scan.top :
        i >= k /\ log[i].kind = "delivery" /\ log[i].slot > scan.last
            => i \in sent \union settled

PageCovers ==
    scan.pc = "page" =>
        /\ scan.scanned = 0 => scan.before = 0 /\ scan.top = 0
        /\ scan.scanned > 0 =>
               /\ scan.scanned <= scan.top
               /\ scan.before = scan.top - scan.scanned + 1 \/ scan.scanned = Lookback
               /\ scan.cut \/ CoveredFrom(scan.top - scan.scanned + 1)

EntryCovers ==
    scan.pc \in {"entry", "send"} =>
        /\ scan.next = scan.top - scan.scanned
        /\ scan.cut \/ CoveredFrom(scan.next + 1)
        /\ scan.full /\ PageLimit >= Lookback =>
               scan.scanned + (scan.next - scan.until + 1) = Lookback
        /\ ~scan.full => scan.until = 1

EndCovers ==
    scan.pc \in {"persist", "done"} =>
        scan.cut \/ CoveredFrom(scan.top - Lookback + 1)

StartCovers == scan.pc = "start" => scan.scanned = 0 /\ scan.before = 0 /\ scan.top = 0

CInv == PageCovers /\ EntryCovers /\ EndCovers /\ StartCovers
          /\ (scan.pc = "off" => scan = ScanOff)

LEMMA ScanNumbers ==
    ASSUME IInv
    PROVE  /\ scan \in Scans /\ Lookback \in Nat /\ PageLimit \in Nat \ {0}
           /\ scan.scanned \in Nat /\ scan.scanned <= Lookback
           /\ scan.top \in Nat /\ scan.before \in Nat /\ scan.next \in Nat /\ scan.until \in Nat
           /\ scan.last \in Nat /\ scan.full \in BOOLEAN /\ scan.cut \in BOOLEAN
           /\ Len(log) \in Nat /\ scan.top <= Len(log)
<1>1. TypeOK
  BY DEF IInv
<1>2. scan \in Scans
  BY <1>1 DEF TypeOK
<1> QED
  BY <1>1, <1>2, ScanTyped, LogTyped, Constants DEF IInv, ScanIsInLog

LEMMA InitCInv == Init => CInv
BY DEF Init, ScanOff, CInv, PageCovers, EntryCovers, EndCovers, StartCovers

\* Steps outside the backfill only add to what is covered.
LEMMA OutsideScanCInv ==
    ASSUME IInv, CInv, UNCHANGED scan, \A k \in 1 .. Len(log) : log'[k] = log[k],
           sent \subseteq sent', settled \subseteq settled'
    PROVE  CInv'
<1>1. \A i \in 1 .. scan.top : i \in 1 .. Len(log)
  BY ScanTyped, LogTyped, Constants DEF IInv, ScanIsInLog
<1>2. ASSUME NEW k, CoveredFrom(k)
      PROVE  \A i \in 1 .. scan'.top :
                 i >= k /\ log'[i].kind = "delivery" /\ log'[i].slot > scan'.last
                     => i \in sent' \union settled'
  BY <1>1, <1>2 DEF CoveredFrom
<1>3. \A k : CoveredFrom(k) => CoveredFrom(k)'
  BY <1>2 DEF CoveredFrom
<1>4. PageCovers'
  BY <1>3 DEF CInv, PageCovers, CoveredFrom
<1>5. EntryCovers'
  BY <1>3 DEF CInv, EntryCovers, CoveredFrom
<1>6. EndCovers'
  BY <1>3 DEF CInv, EndCovers, CoveredFrom
<1>7. StartCovers' /\ (scan'.pc = "off" => scan' = ScanOff)
  BY DEF CInv, StartCovers
<1> QED
  BY <1>4, <1>5, <1>6, <1>7 DEF CInv

\* Moving past an entry that is sent, resolved or no delivery keeps the scan's
\* newest entries covered.
LEMMA AdvanceCInv ==
    ASSUME IInv, CInv, scan.pc \in {"entry", "send"}, NEW before, NEW cut \in BOOLEAN,
           Advance(before, cut), UNCHANGED <<log, settled>>, sent \subseteq sent',
           before = scan.next \/ (before = scan.before /\ PageLimit >= Lookback),
           \/ cut
           \/ log[scan.next].kind = "delivery" /\ log[scan.next].slot > scan.last
                  => scan.next \in sent' \union settled
    PROVE  CInv'
<1>0. TypeOK
  BY DEF IInv
<1>1. /\ scan.next \in Nat /\ scan.until \in Nat /\ scan.top \in Nat /\ scan.scanned \in Nat
      /\ Lookback \in Nat /\ PageLimit \in Nat /\ scan.scanned <= Lookback
      /\ scan.full \in BOOLEAN /\ scan.cut \in BOOLEAN
  BY ScanNumbers
<1>2. /\ 1 <= scan.until /\ scan.until <= scan.next
  BY DEF IInv, ScanIsInLog
<1>3. /\ scan.next = scan.top - scan.scanned
      /\ scan.cut \/ CoveredFrom(scan.next + 1)
      /\ scan.full /\ PageLimit >= Lookback =>
             scan.scanned + (scan.next - scan.until + 1) = Lookback
      /\ ~scan.full => scan.until = 1
  BY DEF CInv, EntryCovers
<1>4. /\ scan'.scanned = scan.scanned + 1 /\ scan'.next = scan.next - 1
      /\ scan'.before = before /\ (scan'.cut <=> scan.cut \/ cut)
      /\ scan'.until = scan.until /\ scan'.top = scan.top /\ scan'.last = scan.last
      /\ scan'.full = scan.full
  BY <1>0, AdvanceFields
<1>5. /\ scan.next # scan.until => scan'.pc = "entry"
      /\ scan.next = scan.until => scan'.pc = IF scan.full THEN "page" ELSE "persist"
  BY <1>0, AdvanceFields
<1>6. ASSUME ~scan'.cut
      PROVE  \A i \in 1 .. scan.top :
                 i >= scan.next /\ log[i].kind = "delivery" /\ log[i].slot > scan.last
                     => i \in sent' \union settled
  <2>1. ~scan.cut /\ ~cut
    BY <1>4, <1>6
  <2>2. \A i \in 1 .. scan.top : i >= scan.next => i = scan.next \/ i >= scan.next + 1
    BY <1>1
  <2>3. CoveredFrom(scan.next + 1)
    BY <1>3, <2>1
  <2> QED
    BY <2>1, <2>2, <2>3 DEF CoveredFrom
<1>7. PageCovers'
  <2> SUFFICES ASSUME scan'.pc = "page" PROVE PageCovers'
    BY DEF PageCovers
  <2>1. scan.next = scan.until /\ scan.full
    BY <1>1, <1>5
  <2>2. scan'.scanned > 0 /\ scan'.scanned <= scan'.top
    BY <1>1, <1>2, <1>3, <1>4
  <2>3. scan'.before = scan'.top - scan'.scanned + 1 \/ scan'.scanned = Lookback
    <3>1. scan.next = scan.top - (scan.scanned + 1) + 1
      BY <1>1, <1>3
    <3>2. CASE before = scan.next
      BY <1>4, <3>1, <3>2
    <3>3. CASE PageLimit >= Lookback
      <4>1. scan.scanned + (scan.next - scan.until + 1) = Lookback
        BY <1>3, <2>1, <3>3
      <4> QED
        BY <1>1, <1>4, <2>1, <4>1
    <3> QED
      BY <3>2, <3>3
  <2>4. scan'.top - scan'.scanned + 1 = scan.next
    BY <1>1, <1>3, <1>4
  <2>5. ASSUME ~scan'.cut
        PROVE  \A i \in 1 .. scan'.top :
                   i >= scan'.top - scan'.scanned + 1 /\ log'[i].kind = "delivery"
                     /\ log'[i].slot > scan'.last => i \in sent' \union settled'
    BY <1>4, <1>6, <2>4, <2>5
  <2> QED
    BY <1>1, <1>4, <2>2, <2>3, <2>5 DEF PageCovers, CoveredFrom
<1>8. EntryCovers'
  <2> SUFFICES ASSUME scan'.pc \in {"entry", "send"} PROVE EntryCovers'
    BY DEF EntryCovers
  <2>1. scan'.next = scan'.top - scan'.scanned
    BY <1>1, <1>3, <1>4
  <2>2. scan'.full /\ PageLimit >= Lookback =>
            scan'.scanned + (scan'.next - scan'.until + 1) = Lookback
    <3> SUFFICES ASSUME scan.full, PageLimit >= Lookback
                 PROVE  scan.scanned + 1 + (scan.next - 1 - scan.until + 1) = Lookback
      BY <1>4
    <3> QED
      BY <1>1, <1>3
  <2>3. ~scan'.full => scan'.until = 1
    BY <1>3, <1>4
  <2>4. scan.next - 1 + 1 = scan.next
    BY <1>1
  <2>5. ASSUME ~scan'.cut
        PROVE  \A i \in 1 .. scan'.top :
                   i >= scan'.next + 1 /\ log'[i].kind = "delivery"
                     /\ log'[i].slot > scan'.last => i \in sent' \union settled'
    BY <1>4, <1>6, <2>4, <2>5
  <2> QED
    BY <2>1, <2>2, <2>3, <2>5 DEF EntryCovers, CoveredFrom
<1>9. EndCovers'
  <2> SUFFICES ASSUME scan'.pc \in {"persist", "done"}, ~scan'.cut
               PROVE  \A i \in 1 .. scan'.top :
                          log'[i].kind = "delivery" /\ log'[i].slot > scan'.last
                              => i \in sent' \union settled'
    BY DEF EndCovers, CoveredFrom
  <2>1. scan.next = scan.until /\ ~scan.full
    BY <1>1, <1>5
  <2>2. \A i \in 1 .. scan.top : i >= scan.next
    BY <1>1, <1>3, <2>1
  <2> QED
    BY <1>4, <1>6, <2>2
<1>10. scan'.pc \in {"entry", "page", "persist"}
  BY <1>1, <1>5
<1> QED
  BY <1>7, <1>8, <1>9, <1>10 DEF CInv, StartCovers

LEMMA FetchPageCInv ==
    ASSUME IInv, CInv, FetchPage
    PROVE  CInv'
<1>1. /\ scan.top \in Nat /\ scan.scanned \in Nat /\ scan.before \in Nat /\ Len(log) \in Nat
      /\ Lookback \in Nat /\ PageLimit \in Nat \ {0} /\ scan.scanned <= Lookback
      /\ scan \in Scans /\ scan.cut \in BOOLEAN
  BY ScanNumbers
<1>2. /\ scan.pc = "page"
      /\ UNCHANGED <<log, settled, sent>>
  BY DEF FetchPage, workerVars
<1>3. /\ scan.scanned = 0 => scan.before = 0 /\ scan.top = 0
      /\ scan.scanned > 0 =>
             /\ scan.scanned <= scan.top
             /\ scan.before = scan.top - scan.scanned + 1 \/ scan.scanned = Lookback
             /\ scan.cut \/ CoveredFrom(scan.top - scan.scanned + 1)
  BY <1>2 DEF CInv, PageCovers
<1>4. /\ PageTop \in Nat /\ Want \in Nat
      /\ Want = Lookback - scan.scanned \/ Want = PageLimit
      /\ Want <= Lookback - scan.scanned
  <2>1. PageTop \in 0 .. Len(log) /\ Want \in 0 .. Lookback
    BY FetchPageCases
  <2>2. Want = Lookback - scan.scanned \/ Want = PageLimit
    BY FetchPageCases
  <2>3. Want <= Lookback - scan.scanned
    BY FetchPageCases
  <2> QED
    BY <1>1, <2>1, <2>2, <2>3
<1>5. PageTop = IF scan.before = 0 THEN Len(log) ELSE scan.before - 1
  BY DEF PageTop
<1> HIDE DEF PageTop, Want
<1>6. ASSUME NEW got \in 1 .. Want, got <= PageTop, got = Want \/ got = PageTop,
             scan' = [scan EXCEPT !.next = PageTop, !.until = PageTop - got + 1,
                                  !.full = (got = Want), !.pc = "entry",
                                  !.top = IF scan.scanned = 0 THEN Len(log) ELSE scan.top]
      PROVE  CInv'
  <2>1. /\ scan'.next = PageTop /\ scan'.until = PageTop - got + 1
        /\ (scan'.full <=> got = Want) /\ scan'.pc = "entry"
        /\ scan'.top = IF scan.scanned = 0 THEN Len(log) ELSE scan.top
        /\ scan'.scanned = scan.scanned /\ scan'.last = scan.last /\ scan'.cut = scan.cut
    BY <1>1, <1>6 DEF Scans
  <2>2. scan.scanned < Lookback
    BY <1>1, <1>4, <1>6
  <2>3. scan'.next = scan'.top - scan'.scanned
    <3>1. CASE scan.scanned = 0
      BY <1>1, <1>3, <1>5, <2>1, <3>1
    <3>2. CASE scan.scanned > 0
      <4>1. /\ scan.before = scan.top - scan.scanned + 1 /\ scan.before # 0
            /\ PageTop = scan.top - scan.scanned
        BY <1>1, <1>3, <1>5, <2>2, <3>2
      <4> QED
        BY <1>1, <2>1, <3>2, <4>1
    <3> QED
      BY <1>1, <3>1, <3>2
  <2>4. ASSUME ~scan'.cut
        PROVE  \A i \in 1 .. scan'.top :
                   i >= scan'.next + 1 /\ log'[i].kind = "delivery"
                     /\ log'[i].slot > scan'.last => i \in sent' \union settled'
    <3>1. CASE scan.scanned = 0
      <4>1. \A i \in 1 .. scan'.top : ~(i >= scan'.next + 1)
        BY <1>1, <2>1, <2>3, <3>1
      <4> QED
        BY <4>1
    <3>2. CASE scan.scanned > 0
      <4>1. scan'.top = scan.top /\ CoveredFrom(scan.top - scan.scanned + 1)
        BY <1>1, <1>3, <2>1, <2>4, <3>2
      <4>2. scan'.next + 1 = scan.top - scan.scanned + 1
        BY <2>1, <2>3, <4>1
      <4> QED
        BY <1>2, <2>1, <4>1, <4>2 DEF CoveredFrom
    <3> QED
      BY <1>1, <3>1, <3>2
  <2>5. scan'.full /\ PageLimit >= Lookback =>
            scan'.scanned + (scan'.next - scan'.until + 1) = Lookback
    <3> SUFFICES ASSUME got = Want, PageLimit >= Lookback
                 PROVE  scan.scanned + (PageTop - (PageTop - got + 1) + 1) = Lookback
      BY <2>1
    <3>1. Want = Lookback - scan.scanned
      BY <1>1, <1>4
    <3>2. PageTop - (PageTop - got + 1) + 1 = got /\ got = Want
      BY <1>4
    <3>3. scan.scanned + (Lookback - scan.scanned) = Lookback
      BY <1>1
    <3> QED
      BY <3>1, <3>2, <3>3
  <2>6. ~scan'.full => scan'.until = 1
    BY <1>4, <1>6, <2>1
  <2>7. EntryCovers'
    BY <2>3, <2>4, <2>5, <2>6 DEF EntryCovers, CoveredFrom
  <2> QED
    BY <2>1, <2>7 DEF CInv, PageCovers, EndCovers, StartCovers
<1>7. CASE (Want = 0 \/ PageTop = 0) /\ scan' = [scan EXCEPT !.pc = "persist"]
  <2>1. /\ scan'.pc = "persist" /\ scan'.top = scan.top /\ scan'.last = scan.last
        /\ scan'.cut = scan.cut
    BY <1>1, <1>7 DEF Scans
  <2>2. ASSUME NEW i \in 1 .. scan.top, i >= scan.top - Lookback + 1
        PROVE  scan.scanned > 0 /\ i >= scan.top - scan.scanned + 1
    <3>1. scan.scanned > 0
      BY <1>1, <1>3
    <3>2. scan.scanned = Lookback \/ scan.top = scan.scanned
      <4>1. CASE Want = 0
        BY <1>1, <1>4, <4>1
      <4>2. CASE PageTop = 0 /\ scan.scanned # Lookback
        <5>1. scan.before = scan.top - scan.scanned + 1 /\ scan.before # 0
          BY <1>1, <1>3, <3>1, <4>2
        <5> QED
          BY <1>1, <1>5, <4>2, <5>1
      <4> QED
        BY <1>7, <4>1, <4>2
    <3> QED
      BY <1>1, <2>2, <3>1, <3>2
  <2>3. scan'.cut \/ CoveredFrom(scan.top - Lookback + 1)
    BY <1>1, <1>3, <2>1, <2>2 DEF CoveredFrom
  <2>4. EndCovers'
    BY <1>2, <2>1, <2>3 DEF EndCovers, CoveredFrom
  <2> QED
    BY <2>1, <2>4 DEF CInv, PageCovers, EntryCovers, StartCovers
<1>8. CASE scan' = [scan EXCEPT !.pc = "persist", !.cut = TRUE]
  <2>1. scan'.pc = "persist" /\ scan'.cut
    BY <1>1, <1>8 DEF Scans
  <2> QED
    BY <2>1 DEF CInv, PageCovers, EntryCovers, StartCovers, EndCovers
<1> QED
  BY <1>6, <1>7, <1>8, FetchPageCases

LEMMA BackfillCInv ==
    ASSUME CursorIsExact
    PROVE  IInv /\ CInv /\ Backfill => CInv'
<1> SUFFICES ASSUME IInv, CInv, Backfill PROVE CInv'
  OBVIOUS
<1>0. /\ scan \in Scans /\ scan.top \in Nat /\ scan.scanned \in Nat /\ Lookback \in Nat
      /\ scan.next \in Nat
  BY ScanNumbers
<1>1. CASE ReadWatermark
  <2>1. PICK last \in {watermark, 0} :
            scan' = [scan EXCEPT !.pc = "page", !.last = last, !.highest = last]
    BY <1>1 DEF ReadWatermark
  <2>2. /\ scan'.pc = "page" /\ scan'.scanned = scan.scanned /\ scan'.before = scan.before
        /\ scan'.top = scan.top
    BY <1>0, <2>1 DEF Scans
  <2> QED
    BY <1>1, <2>2 DEF ReadWatermark, CInv, StartCovers, PageCovers, EntryCovers, EndCovers
<1>2. CASE FetchPage
  BY <1>2, FetchPageCInv
<1>3. CASE StopAtWatermark
  <2>1. /\ scan.pc = "entry" /\ BelowWatermark(scan.next)
        /\ scan' = [scan EXCEPT !.pc = "persist", !.scanned = scan.scanned + 1,
                                !.highest = Later(scan.highest, log[scan.next].slot)]
        /\ UNCHANGED <<log, sent, settled>>
    BY <1>3 DEF StopAtWatermark, workerVars
  <2>2. /\ scan'.pc = "persist" /\ scan'.top = scan.top /\ scan'.last = scan.last
        /\ scan'.cut = scan.cut
    BY <1>0, <2>1 DEF Scans
  <2>3. scan.cut \/ CoveredFrom(scan.next + 1)
    BY <2>1 DEF CInv, EntryCovers
  <2>4. /\ scan.next \in 1 .. Len(log) /\ scan.top <= Len(log)
    BY <1>0, <2>1, ScanNumbers DEF IInv, ScanIsInLog
  <2>5. ASSUME NEW i \in 1 .. scan.top, ~(i >= scan.next + 1)
        PROVE  ~(log[i].slot > scan.last)
    <3>1. i \in 1 .. scan.next /\ i \in 1 .. Len(log)
      BY <1>0, <2>4, <2>5, ScanNumbers
    <3>2. log[i].slot <= log[scan.next].slot /\ log[scan.next].slot <= scan.last
      BY <2>1, <2>4, <3>1 DEF IInv, LogIsOrdered, BelowWatermark
    <3>3. log[i].slot \in Nat /\ log[scan.next].slot \in Nat /\ scan.last \in Nat
      BY <2>4, <3>1, ScanNumbers DEF IInv, LogIsOrdered
    <3> QED
      BY <3>2, <3>3
  <2>6. scan.cut \/ CoveredFrom(scan.top - Lookback + 1)
    BY <2>3, <2>5 DEF CoveredFrom
  <2>7. EndCovers'
    BY <2>1, <2>2, <2>6 DEF EndCovers, CoveredFrom
  <2> QED
    BY <2>2, <2>7 DEF CInv, PageCovers, EntryCovers, StartCovers
<1>4. CASE SkipFailed
  <2>1. /\ scan.pc = "entry" /\ log[scan.next].kind = "failed" /\ Advance(scan.before, FALSE)
        /\ UNCHANGED <<log, settled, sent>>
    BY <1>4 DEF SkipFailed, workerVars
  <2>2. scan.next \in 1 .. Len(log)
    BY <1>0, <2>1, ScanNumbers DEF IInv, ScanIsInLog
  <2>3. "failed" \in Kinds
    BY <2>1, <2>2, LogTyped DEF IInv, LogEntry
  <2>4. PageLimit >= Lookback
    BY <2>3 DEF CursorIsExact
  <2> QED
    BY <2>1, <2>4, AdvanceCInv
<1>5. CASE ScanEntry
  <2>1. scan.pc = "entry" /\ UNCHANGED <<log, settled, sent>>
    BY <1>5 DEF ScanEntry, workerVars
  <2>2. CASE scan' = [scan EXCEPT !.pc = "send"]
    <3>1. /\ scan'.pc = "send" /\ scan'.top = scan.top /\ scan'.last = scan.last
          /\ scan'.cut = scan.cut /\ scan'.next = scan.next /\ scan'.scanned = scan.scanned
          /\ scan'.full = scan.full /\ scan'.until = scan.until
      BY <1>0, <2>2 DEF Scans
    <3>2. EntryCovers'
      BY <2>1, <3>1 DEF CInv, EntryCovers, CoveredFrom
    <3> QED
      BY <3>1, <3>2 DEF CInv, PageCovers, EndCovers, StartCovers
  <2>3. CASE ~YieldsJob(scan.next) /\ Advance(scan.next, FALSE)
    BY <2>1, <2>3, AdvanceCInv DEF YieldsJob
  <2>4. CASE Advance(scan.next, TRUE)
    BY <2>1, <2>4, AdvanceCInv
  <2> QED
    BY <1>5, <2>2, <2>3, <2>4 DEF ScanEntry
<1>6. CASE SendFound
  <2>1. /\ scan.pc = "send" /\ Advance(scan.next, FALSE) /\ SendJob(scan.next)
        /\ UNCHANGED <<log, settled>>
    BY <1>6 DEF SendFound, workerVars
  <2>2. sent \subseteq sent' /\ scan.next \in sent'
    BY <2>1 DEF SendJob
  <2> QED
    BY <2>1, <2>2, AdvanceCInv
<1>7. CASE PersistHighest
  <2>1. /\ scan.pc = "persist" /\ scan' = [scan EXCEPT !.pc = "done"]
        /\ UNCHANGED <<log, sent, settled>>
    BY <1>7 DEF PersistHighest, workerVars
  <2>2. /\ scan'.pc = "done" /\ scan'.top = scan.top /\ scan'.last = scan.last
        /\ scan'.cut = scan.cut
    BY <1>0, <2>1 DEF Scans
  <2>3. EndCovers'
    BY <2>1, <2>2 DEF CInv, EndCovers, CoveredFrom
  <2> QED
    BY <2>2, <2>3 DEF CInv, PageCovers, EntryCovers, StartCovers
<1> QED
  BY <1>1, <1>2, <1>3, <1>4, <1>5, <1>6, <1>7 DEF Backfill

LEMMA NextCInv ==
    ASSUME CursorIsExact
    PROVE  IInv /\ CInv /\ [Next]_vars => CInv'
<1> SUFFICES ASSUME IInv, CInv, [Next]_vars PROVE CInv'
  OBVIOUS
<1>1. CASE Backfill
  BY <1>1, BackfillCInv
<1>2. ASSUME NEW kind \in Kinds, LandEntry(kind) PROVE CInv'
  BY <1>2, LandEntryIInv, OutsideScanCInv DEF LandEntry, workerVars
<1>3. CASE Start
  <2>1. scan = ScanOff /\ scan' = [scan EXCEPT !.pc = IF Lookback = 0 THEN "done" ELSE "start"]
    BY <1>3 DEF Start, Running, CInv
  <2>2. /\ scan'.pc \in {"start", "done"} /\ scan'.scanned = 0 /\ scan'.before = 0
        /\ scan'.top = 0
    BY <2>1 DEF ScanOff
  <2>3. EndCovers'
    BY <2>2 DEF EndCovers, CoveredFrom
  <2> QED
    BY <2>2, <2>3 DEF CInv, PageCovers, EntryCovers, StartCovers
<1>4. CASE Crash
  BY <1>4 DEF Crash, CInv, PageCovers, EntryCovers, EndCovers, StartCovers, ScanOff
<1>5. CASE Subscribe \/ Unsubscribe \/ Monitor
  <2>1. UNCHANGED <<log, scan, settled>> /\ sent \subseteq sent'
    BY <1>5 DEF Subscribe, Unsubscribe, Monitor, Observe, StreamEnds, Fetch, Send, SendJob,
       workerVars
  <2> QED
    BY <2>1, OutsideScanCInv
<1>6. CASE Worker
  <2>1. UNCHANGED <<log, scan, sent>> /\ settled \subseteq settled'
    BY <1>6 DEF Worker, Take, Settle, FailJob
  <2> QED
    BY <2>1, OutsideScanCInv
<1>7. CASE UNCHANGED vars
  BY <1>7, OutsideScanCInv DEF vars, workerVars
<1> QED
  BY <1>1, <1>2, <1>3, <1>4, <1>5, <1>6, <1>7 DEF Next, Environment

\* A scan no failure cut short leaves no delivery out between its watermark and its
\* lookback, for any page limit and lookback, whatever lands, is notified or is
\* settled while it runs, if failed transactions do not blur the cursor between
\* pages (chain.rs, backfill_missed_deliveries).
THEOREM BackfillCoverage ==
    ASSUME CursorIsExact
    PROVE  Spec => []BackfillCovers
<1>1. IInv /\ CInv /\ [Next]_vars => IInv' /\ CInv'
  BY NextIInv, NextCInv
<1>2. Init => IInv /\ CInv
  BY InitIInv, InitCInv
<1>3. ASSUME IInv, CInv PROVE BackfillCovers
  <2>1. \A i \in 1 .. scan.top : i > scan.top - Lookback => i >= scan.top - Lookback + 1
    BY <1>3, ScanNumbers
  <2> QED
    BY <1>3, <2>1 DEF CInv, EndCovers, CoveredFrom, BackfillCovers
<1> QED
  BY <1>1, <1>2, <1>3, PTL DEF Spec

-----------------------------------------------------------------------------
(* The order in which a scan works: for any transactions, exact cursor or  *)
(* not.                                                                    *)

\* Where the scan's places are, relative to each other.
ScanIsOrdered ==
    /\ scan.next <= Len(log)
    /\ scan.scanned = 0 => scan.before = 0
    /\ scan.before > 0 => scan.next < scan.before
    /\ scan.pc = "off" => scan = ScanOff
    /\ scan.pc = "start" => scan.scanned = 0
    /\ scan.pc \in {"start", "page"} /\ scan.scanned = 0 => scan.top = 0 /\ scan.next = 0
    /\ scan.pc \in {"entry", "send"} /\ ~scan.full => scan.until = 1

\* Nothing is left out above the entry the scan looks at, nor above the one its next
\* page comes before, to which it may be thrown back.
NothingLeftOut ==
    ~scan.cut =>
        /\ CoveredFrom(scan.next + 1)
        /\ scan.before > 0 => CoveredFrom(scan.before)

StopsForAReason ==
    scan.pc \in {"persist", "done"} =>
        \/ scan.cut
        \/ scan.scanned = Lookback \/ scan.next = 0 \/ BelowWatermark(scan.next)

GapInv == ScanIsOrdered /\ NothingLeftOut /\ StopsForAReason

LEMMA InitGapInv == Init => GapInv
<1> SUFFICES ASSUME Init PROVE GapInv
  OBVIOUS
<1>1. scan = ScanOff /\ Len(log) = 0
  BY DEF Init
<1>2. /\ scan.pc = "off" /\ scan.next = 0 /\ scan.top = 0 /\ scan.before = 0
      /\ scan.scanned = 0
  BY <1>1 DEF ScanOff
<1> QED
  BY <1>1, <1>2 DEF GapInv, ScanIsOrdered, NothingLeftOut, StopsForAReason, CoveredFrom

\* Steps outside the backfill only add to the log and to what is covered.
LEMMA OutsideScanGapInv ==
    ASSUME IInv, GapInv, UNCHANGED scan, \A k \in 1 .. Len(log) : log'[k] = log[k],
           Len(log') \in Nat, Len(log) <= Len(log'),
           sent \subseteq sent', settled \subseteq settled'
    PROVE  GapInv'
<1>0. /\ scan.next \in Nat /\ Len(log) \in Nat /\ scan.top \in Nat /\ scan.top <= Len(log)
  BY ScanNumbers
<1>1. ScanIsOrdered'
  BY <1>0 DEF GapInv, ScanIsOrdered
<1>2. \A i \in 1 .. scan.top : i \in 1 .. Len(log)
  BY <1>0
<1>3. \A k : CoveredFrom(k) => CoveredFrom(k)'
  BY <1>2 DEF CoveredFrom
<1>4. NothingLeftOut'
  BY <1>3 DEF GapInv, NothingLeftOut, CoveredFrom
<1>5. StopsForAReason'
  <2>1. scan.next = 0 \/ scan.next \in 1 .. Len(log)
    BY <1>0 DEF GapInv, ScanIsOrdered
  <2>2. scan.next = 0 \/ (BelowWatermark(scan.next) => BelowWatermark(scan.next)')
    BY <2>1 DEF BelowWatermark
  <2> QED
    BY <2>2 DEF GapInv, StopsForAReason, BelowWatermark
<1> QED
  BY <1>1, <1>4, <1>5 DEF GapInv

\* Moving past an entry that is sent, resolved or no delivery, wherever the cursor
\* is left.
LEMMA AdvanceGapInv ==
    ASSUME IInv, GapInv, scan.pc \in {"entry", "send"},
           NEW before \in {scan.before, scan.next}, NEW cut \in BOOLEAN,
           Advance(before, cut), UNCHANGED <<log, settled>>, sent \subseteq sent',
           \/ cut
           \/ log[scan.next].kind = "delivery" /\ log[scan.next].slot > scan.last
                  => scan.next \in sent' \union settled
    PROVE  GapInv'
<1>0. TypeOK
  BY DEF IInv
<1>1. /\ scan.next \in Nat /\ scan.until \in Nat /\ scan.top \in Nat /\ scan.before \in Nat
      /\ scan.scanned \in Nat /\ Len(log) \in Nat
      /\ scan.full \in BOOLEAN /\ scan.cut \in BOOLEAN
  BY ScanNumbers
<1>2. /\ 1 <= scan.until /\ scan.until <= scan.next /\ scan.next <= Len(log)
  BY DEF IInv, ScanIsInLog
<1>3. /\ scan'.scanned = scan.scanned + 1 /\ scan'.next = scan.next - 1
      /\ scan'.before = before /\ (scan'.cut <=> scan.cut \/ cut)
      /\ scan'.until = scan.until /\ scan'.top = scan.top /\ scan'.last = scan.last
      /\ scan'.full = scan.full
  BY <1>0, AdvanceFields
<1>4. /\ scan.next # scan.until => scan'.pc = "entry"
      /\ scan.next = scan.until => scan'.pc = IF scan.full THEN "page" ELSE "persist"
  BY <1>0, AdvanceFields
<1>5. ~scan.full => scan.until = 1
  BY DEF GapInv, ScanIsOrdered
<1>6. ScanIsOrdered'
  <2>1. scan'.scanned # 0 /\ scan'.next <= Len(log')
    BY <1>1, <1>2, <1>3
  <2>2. scan'.before > 0 => scan'.next < scan'.before
    BY <1>1, <1>3 DEF GapInv, ScanIsOrdered
  <2>3. scan'.pc \in {"entry", "page", "persist"}
    BY <1>1, <1>4
  <2>4. ~scan'.full => scan'.until = 1
    BY <1>3, <1>5
  <2> QED
    BY <2>1, <2>2, <2>3, <2>4 DEF ScanIsOrdered
<1>7. ASSUME ~scan'.cut, NEW i \in 1 .. scan.top,
             log[i].kind = "delivery", log[i].slot > scan.last,
             i >= scan.next \/ (scan.before > 0 /\ i >= scan.before)
      PROVE  i \in sent' \union settled
  <2>1. ~scan.cut /\ ~cut
    BY <1>3, <1>7
  <2>2. i = scan.next \/ i >= scan.next + 1 \/ (scan.before > 0 /\ i >= scan.before)
    BY <1>1, <1>7
  <2>3. CoveredFrom(scan.next + 1) /\ (scan.before > 0 => CoveredFrom(scan.before))
    BY <2>1 DEF GapInv, NothingLeftOut
  <2> QED
    BY <1>7, <2>1, <2>2, <2>3 DEF CoveredFrom
<1>8. NothingLeftOut'
  <2> SUFFICES ASSUME ~scan'.cut, NEW i \in 1 .. scan'.top,
                      log[i].kind = "delivery", log[i].slot > scan'.last,
                      i >= scan'.next + 1 \/ (scan'.before > 0 /\ i >= scan'.before)
               PROVE  i \in sent' \union settled
    BY DEF NothingLeftOut, CoveredFrom
  <2>1. i >= scan.next \/ (scan.before > 0 /\ i >= scan.before)
    BY <1>1, <1>3
  <2> QED
    BY <1>3, <1>7, <2>1
<1>9. StopsForAReason'
  <2> SUFFICES ASSUME scan'.pc \in {"persist", "done"} PROVE scan'.next = 0
    BY DEF StopsForAReason
  <2>1. scan.next = scan.until /\ ~scan.full
    BY <1>1, <1>4
  <2> QED
    BY <1>1, <1>3, <1>5, <2>1
<1> QED
  BY <1>6, <1>8, <1>9 DEF GapInv

LEMMA FetchPageGapInv ==
    ASSUME IInv, GapInv, FetchPage
    PROVE  GapInv'
<1>1. /\ scan.top \in Nat /\ scan.scanned \in Nat /\ scan.before \in Nat /\ Len(log) \in Nat
      /\ scan.next \in Nat /\ scan.top <= Len(log) /\ scan.before <= Len(log)
      /\ Lookback \in Nat /\ PageLimit \in Nat \ {0} /\ scan.scanned <= Lookback
      /\ scan \in Scans /\ scan.cut \in BOOLEAN
  BY ScanNumbers DEF IInv, ScanIsInLog
<1>2. scan.pc = "page" /\ UNCHANGED <<log, settled, sent>>
  BY DEF FetchPage, workerVars
<1>3. ScanIsOrdered /\ NothingLeftOut
  BY DEF GapInv
<1>4. /\ PageTop \in Nat /\ PageTop <= Len(log) /\ Want \in Nat
      /\ Want = Lookback - scan.scanned \/ Want = PageLimit
  <2>1. PageTop \in 0 .. Len(log) /\ Want \in 0 .. Lookback
    BY FetchPageCases
  <2>2. Want = Lookback - scan.scanned \/ Want = PageLimit
    BY FetchPageCases
  <2> QED
    BY <1>1, <2>1, <2>2
<1>5. PageTop = IF scan.before = 0 THEN Len(log) ELSE scan.before - 1
  BY DEF PageTop
<1> HIDE DEF PageTop, Want
<1>6. ASSUME NEW got \in 1 .. Want, got <= PageTop, got = Want \/ got = PageTop,
             scan' = [scan EXCEPT !.next = PageTop, !.until = PageTop - got + 1,
                                  !.full = (got = Want), !.pc = "entry",
                                  !.top = IF scan.scanned = 0 THEN Len(log) ELSE scan.top]
      PROVE  GapInv'
  <2>1. /\ scan'.next = PageTop /\ scan'.until = PageTop - got + 1
        /\ (scan'.full <=> got = Want) /\ scan'.pc = "entry"
        /\ scan'.top = IF scan.scanned = 0 THEN Len(log) ELSE scan.top
        /\ scan'.scanned = scan.scanned /\ scan'.last = scan.last /\ scan'.cut = scan.cut
        /\ scan'.before = scan.before
    BY <1>1, <1>6 DEF Scans
  <2>2. ScanIsOrdered'
    <3>1. scan'.next <= Len(log')
      BY <1>2, <1>4, <2>1
    <3>2. scan'.before > 0 => scan'.next < scan'.before
      BY <1>1, <1>5, <2>1
    <3>3. ~scan'.full => scan'.until = 1
      BY <1>4, <1>6, <2>1
    <3>4. scan'.scanned = 0 => scan'.before = 0
      BY <1>3, <2>1 DEF ScanIsOrdered
    <3> QED
      BY <2>1, <3>1, <3>2, <3>3, <3>4 DEF ScanIsOrdered
  <2>3. NothingLeftOut'
    <3>1. CASE scan.before = 0
      <4>1. scan'.next = Len(log) /\ scan'.top <= Len(log) /\ scan'.before = 0
        BY <1>1, <1>5, <2>1, <3>1
      <4>2. \A i \in 1 .. scan'.top : ~(i >= scan'.next + 1)
        BY <1>1, <2>1, <4>1
      <4> QED
        BY <4>1, <4>2 DEF NothingLeftOut, CoveredFrom
    <3>2. CASE scan.before # 0
      <4>1. scan'.next + 1 = scan.before /\ scan.before > 0 /\ scan'.top = scan.top
        BY <1>1, <1>3, <1>5, <2>1, <3>2 DEF ScanIsOrdered
      <4> SUFFICES ASSUME ~scan'.cut, NEW i \in 1 .. scan'.top,
                          log[i].kind = "delivery", log[i].slot > scan'.last,
                          i >= scan'.next + 1 \/ (scan'.before > 0 /\ i >= scan'.before)
                   PROVE  i \in sent \union settled
        BY <1>2 DEF NothingLeftOut, CoveredFrom
      <4>2. CoveredFrom(scan.before) /\ i \in 1 .. scan.top /\ i >= scan.before
        BY <1>3, <2>1, <4>1 DEF NothingLeftOut
      <4> QED
        BY <2>1, <4>2 DEF CoveredFrom
    <3> QED
      BY <3>1, <3>2
  <2> QED
    BY <2>1, <2>2, <2>3 DEF GapInv, StopsForAReason
<1>7. CASE \/ (Want = 0 \/ PageTop = 0) /\ scan' = [scan EXCEPT !.pc = "persist"]
           \/ scan' = [scan EXCEPT !.pc = "persist", !.cut = TRUE]
  <2>1. /\ scan'.pc = "persist" /\ scan'.top = scan.top /\ scan'.last = scan.last
        /\ scan'.next = scan.next /\ scan'.before = scan.before
        /\ scan'.scanned = scan.scanned
        /\ scan'.cut \/ (scan'.cut = scan.cut /\ (Want = 0 \/ PageTop = 0))
    BY <1>1, <1>7 DEF Scans
  <2>2. ScanIsOrdered'
    BY <1>2, <1>3, <2>1 DEF ScanIsOrdered
  <2>3. NothingLeftOut'
    BY <1>2, <1>3, <2>1 DEF NothingLeftOut, CoveredFrom
  <2>4. Want = 0 => scan.scanned = Lookback
    BY <1>1, <1>4
  <2>5. PageTop = 0 => scan.next = 0
    <3> SUFFICES ASSUME PageTop = 0 PROVE scan.next = 0
      OBVIOUS
    <3>1. CASE scan.before = 0
      BY <1>1, <1>3, <1>5, <3>1 DEF ScanIsOrdered
    <3>2. CASE scan.before # 0
      <4>1. scan.before = 1 /\ scan.next < scan.before
        BY <1>1, <1>3, <1>5, <3>2 DEF ScanIsOrdered
      <4> QED
        BY <1>1, <4>1
    <3> QED
      BY <3>1, <3>2
  <2>6. StopsForAReason'
    BY <2>1, <2>4, <2>5 DEF StopsForAReason
  <2> QED
    BY <2>2, <2>3, <2>6 DEF GapInv
<1> QED
  BY <1>6, <1>7, FetchPageCases

LEMMA BackfillGapInv == IInv /\ GapInv /\ Backfill => GapInv'
<1> SUFFICES ASSUME IInv, GapInv, Backfill PROVE GapInv'
  OBVIOUS
<1>0. /\ scan \in Scans /\ scan.top \in Nat /\ scan.scanned \in Nat /\ Lookback \in Nat
      /\ scan.next \in Nat /\ ScanIsOrdered /\ NothingLeftOut /\ StopsForAReason
  BY ScanNumbers DEF GapInv
<1>1. CASE ReadWatermark
  <2>1. PICK last \in {watermark, 0} :
            scan' = [scan EXCEPT !.pc = "page", !.last = last, !.highest = last]
    BY <1>1 DEF ReadWatermark
  <2>2. /\ scan.pc = "start" /\ UNCHANGED log
        /\ scan'.pc = "page" /\ scan'.scanned = scan.scanned /\ scan'.before = scan.before
        /\ scan'.top = scan.top /\ scan'.next = scan.next
    BY <1>0, <1>1, <2>1 DEF ReadWatermark, Scans
  <2>3. scan.top = 0 /\ scan.scanned = 0
    BY <1>0, <2>2 DEF ScanIsOrdered
  <2>4. ScanIsOrdered'
    BY <1>0, <2>2, <2>3 DEF ScanIsOrdered
  <2>5. NothingLeftOut'
    BY <2>2, <2>3 DEF NothingLeftOut, CoveredFrom
  <2> QED
    BY <2>2, <2>4, <2>5 DEF GapInv, StopsForAReason
<1>2. CASE FetchPage
  BY <1>2, FetchPageGapInv
<1>3. CASE StopAtWatermark
  <2>1. /\ scan.pc = "entry" /\ BelowWatermark(scan.next)
        /\ scan' = [scan EXCEPT !.pc = "persist", !.scanned = scan.scanned + 1,
                                !.highest = Later(scan.highest, log[scan.next].slot)]
        /\ UNCHANGED <<log, sent, settled>>
    BY <1>3 DEF StopAtWatermark, workerVars
  <2>2. /\ scan'.pc = "persist" /\ scan'.top = scan.top /\ scan'.last = scan.last
        /\ scan'.cut = scan.cut /\ scan'.next = scan.next /\ scan'.before = scan.before
        /\ scan'.scanned = scan.scanned + 1
    BY <1>0, <2>1 DEF Scans
  <2>3. ScanIsOrdered'
    BY <1>0, <2>1, <2>2 DEF ScanIsOrdered
  <2>4. NothingLeftOut'
    BY <1>0, <2>1, <2>2 DEF NothingLeftOut, CoveredFrom
  <2>5. StopsForAReason'
    BY <2>1, <2>2 DEF StopsForAReason, BelowWatermark
  <2> QED
    BY <2>3, <2>4, <2>5 DEF GapInv
<1>4. CASE SkipFailed
  <2>1. /\ scan.pc = "entry" /\ log[scan.next].kind = "failed" /\ Advance(scan.before, FALSE)
        /\ UNCHANGED <<log, settled, sent>>
    BY <1>4 DEF SkipFailed, workerVars
  <2> QED
    BY <2>1, AdvanceGapInv
<1>5. CASE ScanEntry
  <2>1. scan.pc = "entry" /\ UNCHANGED <<log, settled, sent>>
    BY <1>5 DEF ScanEntry, workerVars
  <2>2. CASE scan' = [scan EXCEPT !.pc = "send"]
    <3>1. /\ scan'.pc = "send" /\ scan'.top = scan.top /\ scan'.last = scan.last
          /\ scan'.cut = scan.cut /\ scan'.next = scan.next /\ scan'.scanned = scan.scanned
          /\ scan'.full = scan.full /\ scan'.until = scan.until /\ scan'.before = scan.before
      BY <1>0, <2>2 DEF Scans
    <3>2. ScanIsOrdered'
      BY <1>0, <2>1, <3>1 DEF ScanIsOrdered
    <3>3. NothingLeftOut'
      BY <1>0, <2>1, <3>1 DEF NothingLeftOut, CoveredFrom
    <3> QED
      BY <3>1, <3>2, <3>3 DEF GapInv, StopsForAReason
  <2>3. CASE ~YieldsJob(scan.next) /\ Advance(scan.next, FALSE)
    BY <2>1, <2>3, AdvanceGapInv DEF YieldsJob
  <2>4. CASE Advance(scan.next, TRUE)
    BY <2>1, <2>4, AdvanceGapInv
  <2> QED
    BY <1>5, <2>2, <2>3, <2>4 DEF ScanEntry
<1>6. CASE SendFound
  <2>1. /\ scan.pc = "send" /\ Advance(scan.next, FALSE) /\ SendJob(scan.next)
        /\ UNCHANGED <<log, settled>>
    BY <1>6 DEF SendFound, workerVars
  <2>2. sent \subseteq sent' /\ scan.next \in sent'
    BY <2>1 DEF SendJob
  <2> QED
    BY <2>1, <2>2, AdvanceGapInv
<1>7. CASE PersistHighest
  <2>1. /\ scan.pc = "persist" /\ scan' = [scan EXCEPT !.pc = "done"]
        /\ UNCHANGED <<log, sent, settled>>
    BY <1>7 DEF PersistHighest, workerVars
  <2>2. /\ scan'.pc = "done" /\ scan'.top = scan.top /\ scan'.last = scan.last
        /\ scan'.cut = scan.cut /\ scan'.next = scan.next /\ scan'.before = scan.before
        /\ scan'.scanned = scan.scanned
    BY <1>0, <2>1 DEF Scans
  <2>3. ScanIsOrdered'
    BY <1>0, <2>1, <2>2 DEF ScanIsOrdered
  <2>4. NothingLeftOut'
    BY <1>0, <2>1, <2>2 DEF NothingLeftOut, CoveredFrom
  <2>5. StopsForAReason'
    BY <1>0, <2>1, <2>2 DEF StopsForAReason, BelowWatermark
  <2> QED
    BY <2>3, <2>4, <2>5 DEF GapInv
<1> QED
  BY <1>1, <1>2, <1>3, <1>4, <1>5, <1>6, <1>7 DEF Backfill

LEMMA NextGapInv == IInv /\ GapInv /\ [Next]_vars => GapInv'
<1> SUFFICES ASSUME IInv, GapInv, [Next]_vars PROVE GapInv'
  OBVIOUS
<1>0. Len(log) \in Nat /\ Len(log) <= Len(log)
  BY ScanNumbers
<1>1. CASE Backfill
  BY <1>1, BackfillGapInv
<1>2. ASSUME NEW kind \in Kinds, LandEntry(kind) PROVE GapInv'
  <2>1. IInv' /\ Len(log) <= Len(log') /\ \A k \in 1 .. Len(log) : log'[k] = log[k]
    BY <1>2, LandEntryIInv
  <2>2. Len(log') \in Nat
    BY <2>1, LenProperties DEF IInv, TypeOK
  <2>3. UNCHANGED scan /\ sent \subseteq sent' /\ settled \subseteq settled'
    BY <1>2 DEF LandEntry, workerVars
  <2> QED
    BY <2>1, <2>2, <2>3, OutsideScanGapInv
<1>3. CASE Start
  <2>1. scan = ScanOff /\ scan' = [scan EXCEPT !.pc = IF Lookback = 0 THEN "done" ELSE "start"]
    BY <1>3 DEF Start, Running, GapInv, ScanIsOrdered
  <2>2. /\ scan'.pc \in {"start", "done"} /\ scan'.scanned = 0 /\ scan'.before = 0
        /\ scan'.top = 0 /\ scan'.next = 0 /\ UNCHANGED log
    BY <1>3, <2>1 DEF ScanOff, Start
  <2> QED
    BY <1>0, <2>2 DEF GapInv, ScanIsOrdered, NothingLeftOut, StopsForAReason, CoveredFrom
<1>4. CASE Crash
  <2>1. scan' = ScanOff /\ UNCHANGED log
    BY <1>4 DEF Crash
  <2>2. /\ scan'.pc = "off" /\ scan'.scanned = 0 /\ scan'.before = 0
        /\ scan'.top = 0 /\ scan'.next = 0
    BY <2>1 DEF ScanOff
  <2> QED
    BY <1>0, <2>1, <2>2 DEF GapInv, ScanIsOrdered, NothingLeftOut, StopsForAReason, CoveredFrom
<1>5. CASE Subscribe \/ Unsubscribe \/ Monitor
  <2>1. UNCHANGED <<log, scan, settled>> /\ sent \subseteq sent'
    BY <1>5 DEF Subscribe, Unsubscribe, Monitor, Observe, StreamEnds, Fetch, Send, SendJob,
       workerVars
  <2> QED
    BY <1>0, <2>1, OutsideScanGapInv
<1>6. CASE Worker
  <2>1. UNCHANGED <<log, scan, sent>> /\ settled \subseteq settled'
    BY <1>6 DEF Worker, Take, Settle, FailJob
  <2> QED
    BY <1>0, <2>1, OutsideScanGapInv
<1>7. CASE UNCHANGED vars
  BY <1>0, <1>7, OutsideScanGapInv DEF vars, workerVars
<1> QED
  BY <1>1, <1>2, <1>3, <1>4, <1>5, <1>6, <1>7 DEF Next, Environment

LEMMA GapInvariance == Spec => [](IInv /\ GapInv)
<1>1. IInv /\ GapInv /\ [Next]_vars => IInv' /\ GapInv'
  BY NextIInv, NextGapInv
<1> QED
  BY <1>1, InitIInv, InitGapInv, PTL DEF Spec

\* For any transactions, pages and lookback, failed transactions included, a scan no
\* RPC failure cut short has no gap above the place where it stopped, and it stopped
\* there for a reason (chain.rs, backfill_missed_deliveries).
THEOREM NoGapInScan == Spec => []ScanLeavesNoGap
<1>1. ASSUME IInv, GapInv PROVE ScanLeavesNoGap
  <2>1. \A i \in 1 .. scan.top : i > scan.next => i >= scan.next + 1
    BY <1>1, ScanNumbers
  <2> QED
    BY <1>1, <2>1 DEF GapInv, NothingLeftOut, StopsForAReason, CoveredFrom, ScanLeavesNoGap
<1> QED
  BY <1>1, GapInvariance, PTL
-----------------------------------------------------------------------------
(* The slots that monitor, backfill and worker write.                      *)

\* A slot some transaction of the log is in or above; 0 stands for none.
Reached(transactions, slot) ==
    slot > 0 => \E k \in 1 .. Len(transactions) : slot <= transactions[k].slot

SlotsAreReached ==
    /\ Reached(log, watermark) /\ Reached(log, lastSeen) /\ Reached(log, scan.highest)
    /\ scan.highest >= scan.last
    /\ scan.scanned > 0 => scan.highest > 0

\* What the process has seen is not behind the watermark; and as long as it has seen
\* nothing, whatever either task is about to note is not behind it.
NothingBehind ==
    /\ lastSeen > 0 => lastSeen >= watermark
    /\ lastSeen = 0 =>
           /\ \A k \in 1 .. Len(inbox) : log[inbox[k]].slot >= watermark
           /\ scan.highest > 0 => scan.highest >= watermark
           /\ scan.pc \in {"entry", "send"} /\ scan.scanned = 0
                  => log[scan.next].slot >= watermark

SlotInv == SlotsAreReached /\ NothingBehind

LEMMA SlotNumbers ==
    ASSUME IInv
    PROVE  /\ lastSeen \in Nat /\ watermark \in Nat /\ Len(log) \in Nat
           /\ scan.last \in Nat /\ scan.highest \in Nat /\ scan.scanned \in Nat
           /\ \A k \in 1 .. Len(log) : log[k].slot \in Nat \ {0}
           /\ \A k \in 1 .. Len(log) : \A j \in 1 .. k : log[j].slot <= log[k].slot
<1>1. /\ lastSeen \in Nat /\ watermark \in Nat /\ Len(log) \in Nat
      /\ scan.last \in Nat /\ scan.highest \in Nat /\ scan.scanned \in Nat
  BY ScanTyped, LogTyped, Constants DEF IInv, TypeOK
<1>2. ASSUME NEW k \in 1 .. Len(log)
      PROVE  /\ log[k].slot \in Nat \ {0}
             /\ \A j \in 1 .. k : log[j].slot <= log[k].slot
  <2>1. log[k].slot \in 1 .. k /\ \A j \in 1 .. k : log[j].slot <= log[k].slot
    BY <1>2 DEF IInv, LogIsOrdered
  <2> QED
    BY <1>1, <2>1
<1> QED
  BY <1>1, <1>2

LEMMA InitSlotInv == Init => SlotInv
<1> SUFFICES ASSUME Init PROVE SlotInv
  OBVIOUS
<1>1. /\ watermark = 0 /\ lastSeen = 0 /\ Len(inbox) = 0
      /\ scan.highest = 0 /\ scan.last = 0 /\ scan.scanned = 0 /\ scan.pc = "off"
  BY DEF Init, ScanOff
<1> QED
  BY <1>1 DEF SlotInv, SlotsAreReached, NothingBehind, Reached

\* Steps that leave what the slots depend on alone, but for notifications and entries
\* of the log that are added.
LEMMA OutsideSlotInv ==
    ASSUME IInv, SlotInv, IInv', UNCHANGED <<watermark, lastSeen, scan>>,
           Len(log) <= Len(log'), \A k \in 1 .. Len(log) : log'[k] = log[k],
           \A k \in 1 .. Len(inbox') :
               \/ inbox'[k] = Len(log') /\ inbox'[k] \in 1 .. Len(log')
               \/ k \in 1 .. Len(inbox) /\ inbox'[k] = inbox[k]
    PROVE  SlotInv'
<1>1. /\ Len(log) \in Nat /\ Len(log') \in Nat /\ watermark \in Nat /\ lastSeen \in Nat
      /\ \A k \in 1 .. Len(log) : k \in 1 .. Len(log') /\ log[k].slot \in Nat
      /\ \A k \in 1 .. Len(log') : log'[k].slot \in Nat
  <2>1. log' \in Seq(LogEntry)
    BY DEF IInv, TypeOK, LogEntry
  <2>2. Len(log') \in Nat
    BY <2>1, LenProperties
  <2>3. \A k \in 1 .. Len(log') : log'[k].slot \in 1 .. k
    BY DEF IInv, LogIsOrdered
  <2> QED
    BY <2>2, <2>3, SlotNumbers
<1>2. \A slot : Reached(log, slot) => Reached(log', slot)
  BY <1>1 DEF Reached
<1>3. SlotsAreReached'
  BY <1>2 DEF SlotInv, SlotsAreReached
<1>4. ASSUME lastSeen = 0, NEW k \in 1 .. Len(inbox') PROVE log'[inbox'[k]].slot >= watermark
  <2>1. CASE k \in 1 .. Len(inbox) /\ inbox'[k] = inbox[k]
    <3>1. inbox[k] \in 1 .. Len(log) /\ log[inbox[k]].slot >= watermark
      BY <1>4, <2>1 DEF IInv, NotedIsInLog, SlotInv, NothingBehind
    <3> QED
      BY <2>1, <3>1
  <2>2. CASE inbox'[k] = Len(log') /\ inbox'[k] \in 1 .. Len(log')
    <3>1. CASE watermark = 0
      BY <1>1, <2>2, <3>1
    <3>2. CASE watermark > 0
      <4>1. PICK j \in 1 .. Len(log') : watermark <= log'[j].slot
        BY <1>3, <3>2 DEF SlotsAreReached, Reached
      <4>2. j \in 1 .. Len(log') /\ Len(log') \in 1 .. Len(log') /\ j \in 1 .. Len(log')
        BY <2>2, <4>1
      <4>3. log'[j].slot <= log'[Len(log')].slot
        BY <4>2 DEF IInv, LogIsOrdered
      <4>4. log'[j].slot \in Nat /\ log'[Len(log')].slot \in Nat
        BY <1>1, <4>2
      <4> QED
        BY <1>1, <2>2, <4>1, <4>3, <4>4
    <3> QED
      BY <1>1, <3>1, <3>2
  <2> QED
    BY <2>1, <2>2
<1>5. ASSUME scan.pc \in {"entry", "send"} PROVE log'[scan.next] = log[scan.next]
  <2>1. scan.next \in 1 .. Len(log)
    BY <1>5, ScanNumbers DEF IInv, ScanIsInLog
  <2> QED
    BY <2>1
<1>6. NothingBehind'
  BY <1>4, <1>5 DEF SlotInv, NothingBehind
<1> QED
  BY <1>3, <1>6 DEF SlotInv

\* A step of the scan that notes no slot.
LEMMA UnnotedSlotInv ==
    ASSUME SlotInv, UNCHANGED <<log, inbox, lastSeen, watermark>>,
           scan'.highest = scan.highest, scan'.last = scan.last,
           scan'.scanned = scan.scanned,
           scan'.pc \in {"entry", "send"} /\ scan'.scanned = 0 /\ lastSeen = 0
               => log[scan'.next].slot >= watermark
    PROVE  SlotInv'
BY DEF SlotInv, SlotsAreReached, NothingBehind

\* A step of the scan that notes the slot of the entry it looks at.
LEMMA NotedSlotInv ==
    ASSUME IInv, SlotInv, UNCHANGED <<log, inbox, lastSeen, watermark>>,
           scan.pc \in {"entry", "send"},
           scan'.highest = Later(scan.highest, log[scan.next].slot),
           scan'.last = scan.last, scan'.scanned = scan.scanned + 1
    PROVE  SlotInv'
<1>1. /\ watermark \in Nat /\ scan.last \in Nat /\ scan.highest \in Nat
      /\ scan.scanned \in Nat /\ Len(log) \in Nat
  BY SlotNumbers
<1>2. scan.next \in 1 .. Len(log)
  BY ScanNumbers DEF IInv, ScanIsInLog
<1>3. log[scan.next].slot \in Nat \ {0}
  BY <1>2, SlotNumbers
<1>4. /\ scan'.highest \in Nat /\ scan'.highest > 0 /\ scan'.highest >= scan.highest
      /\ scan'.highest \in {scan.highest, log[scan.next].slot}
      /\ scan'.highest >= log[scan.next].slot
  BY <1>1, <1>3 DEF Later
<1>5. Reached(log, scan'.highest)
  <2>1. CASE scan'.highest = scan.highest
    BY <2>1 DEF SlotInv, SlotsAreReached
  <2>2. CASE scan'.highest = log[scan.next].slot
    BY <1>2, <1>3, <2>2 DEF Reached
  <2> QED
    BY <1>4, <2>1, <2>2
<1>6. SlotsAreReached'
  BY <1>1, <1>4, <1>5 DEF SlotInv, SlotsAreReached
<1>7. ASSUME lastSeen = 0 PROVE scan'.highest >= watermark
  <2>1. CASE scan.scanned = 0
    <3>1. log[scan.next].slot >= watermark
      BY <1>7, <2>1 DEF SlotInv, NothingBehind
    <3> QED
      BY <1>1, <1>3, <1>4, <3>1
  <2>2. CASE scan.scanned > 0
    <3>1. scan.highest >= watermark
      BY <1>7, <2>2 DEF SlotInv, SlotsAreReached, NothingBehind
    <3> QED
      BY <1>1, <1>4, <3>1
  <2> QED
    BY <1>1, <2>1, <2>2
<1>8. NothingBehind'
  BY <1>1, <1>7 DEF SlotInv, NothingBehind
<1> QED
  BY <1>6, <1>8 DEF SlotInv

LEMMA BackfillSlotInv == IInv /\ GapInv /\ SlotInv /\ Backfill => SlotInv'
<1> SUFFICES ASSUME IInv, GapInv, SlotInv, Backfill PROVE SlotInv'
  OBVIOUS
<1>0. scan \in Scans /\ TypeOK
  BY DEF IInv, TypeOK
<1>1. CASE ReadWatermark
  <2>1. PICK last \in {watermark, 0} :
            scan' = [scan EXCEPT !.pc = "page", !.last = last, !.highest = last]
    BY <1>1 DEF ReadWatermark
  <2>2. /\ scan'.pc = "page" /\ scan'.last = last /\ scan'.highest = last
        /\ scan'.scanned = scan.scanned /\ scan.scanned = 0
        /\ UNCHANGED <<log, inbox, lastSeen, watermark>>
    BY <1>0, <1>1, <2>1 DEF ReadWatermark, Scans, GapInv, ScanIsOrdered, monitorVars
  <2>3. last >= last /\ (last > 0 => last >= watermark)
    BY <2>1, SlotNumbers
  <2>4. Reached(log, last)
    BY <2>1 DEF SlotInv, SlotsAreReached, Reached
  <2> QED
    BY <2>2, <2>3, <2>4 DEF SlotInv, SlotsAreReached, NothingBehind
<1>2. CASE FetchPage
  <2>1. UNCHANGED <<log, inbox, lastSeen, watermark>> /\ scan.pc = "page"
    BY <1>2 DEF FetchPage, monitorVars
  <2>2. /\ scan'.highest = scan.highest /\ scan'.last = scan.last
        /\ scan'.scanned = scan.scanned
        /\ scan'.pc \in {"entry", "send"} => scan'.next = PageTop /\ PageTop # 0
    <3>1. PageTop \in 0 .. Len(log) /\ Want \in 0 .. Lookback
      BY <1>2, FetchPageCases
    <3> HIDE DEF PageTop, Want
    <3>2. ASSUME NEW got \in 1 .. Want, got <= PageTop,
                 scan' = [scan EXCEPT !.next = PageTop, !.until = PageTop - got + 1,
                                      !.full = (got = Want), !.pc = "entry",
                                      !.top = IF scan.scanned = 0 THEN Len(log)
                                              ELSE scan.top]
          PROVE  /\ scan'.highest = scan.highest /\ scan'.last = scan.last
                 /\ scan'.scanned = scan.scanned /\ scan'.next = PageTop /\ PageTop # 0
      <4>1. PageTop # 0
        BY <3>1, <3>2, ScanNumbers
      <4> QED
        BY <1>0, <3>2, <4>1 DEF Scans
    <3>3. CASE \/ scan' = [scan EXCEPT !.pc = "persist"]
               \/ scan' = [scan EXCEPT !.pc = "persist", !.cut = TRUE]
      BY <1>0, <3>3 DEF Scans
    <3> QED
      BY <1>2, <3>2, <3>3, FetchPageCases
  <2>3. ASSUME scan'.pc \in {"entry", "send"}, scan.scanned = 0
        PROVE  log[scan'.next].slot >= watermark
    <3>1. scan'.next = Len(log) /\ Len(log) \in 1 .. Len(log)
      BY <2>1, <2>2, <2>3, SlotNumbers DEF GapInv, ScanIsOrdered, PageTop
    <3>2. log[Len(log)].slot \in Nat /\ watermark \in Nat
      BY <3>1, SlotNumbers
    <3>3. CASE watermark > 0
      <4>1. PICK k \in 1 .. Len(log) : watermark <= log[k].slot
        BY <3>3 DEF SlotInv, SlotsAreReached, Reached
      <4>2. log[k].slot <= log[Len(log)].slot /\ log[k].slot \in Nat
        BY <3>1, SlotNumbers
      <4> QED
        BY <3>1, <3>2, <4>1, <4>2
    <3> QED
      BY <3>1, <3>2, <3>3
  <2> QED
    BY <2>1, <2>2, <2>3, UnnotedSlotInv
<1>3. CASE StopAtWatermark
  <2>1. /\ scan.pc = "entry" /\ UNCHANGED <<log, inbox, lastSeen, watermark>>
        /\ scan' = [scan EXCEPT !.pc = "persist", !.scanned = scan.scanned + 1,
                                !.highest = Later(scan.highest, log[scan.next].slot)]
    BY <1>3 DEF StopAtWatermark, monitorVars
  <2>2. /\ scan'.highest = Later(scan.highest, log[scan.next].slot)
        /\ scan'.last = scan.last /\ scan'.scanned = scan.scanned + 1
    BY <1>0, <2>1 DEF Scans
  <2> QED
    BY <2>1, <2>2, NotedSlotInv
<1>4. CASE \E before \in {scan.before, scan.next}, cut \in BOOLEAN :
               /\ scan.pc \in {"entry", "send"} /\ Advance(before, cut)
               /\ UNCHANGED <<log, inbox, lastSeen, watermark>>
  BY <1>0, <1>4, AdvanceFields, NotedSlotInv
<1>5. CASE SkipFailed \/ SendFound
  BY <1>4, <1>5 DEF SkipFailed, SendFound, monitorVars
<1>6. CASE ScanEntry
  <2>1. scan.pc = "entry" /\ UNCHANGED <<log, inbox, lastSeen, watermark>>
    BY <1>6 DEF ScanEntry, monitorVars
  <2>2. CASE scan' = [scan EXCEPT !.pc = "send"]
    <3>1. /\ scan'.highest = scan.highest /\ scan'.last = scan.last
          /\ scan'.scanned = scan.scanned /\ scan'.next = scan.next
      BY <1>0, <2>2 DEF Scans
    <3> QED
      BY <2>1, <3>1, UnnotedSlotInv DEF SlotInv, NothingBehind
  <2> QED
    BY <1>4, <1>6, <2>1, <2>2 DEF ScanEntry
<1>7. CASE PersistHighest
  <2>1. /\ scan.pc = "persist" /\ scan' = [scan EXCEPT !.pc = "done"]
        /\ watermark' = scan.highest \/ watermark' = watermark
        /\ watermark' # watermark => scan.highest > 0
        /\ lastSeen' = Later(lastSeen, scan.highest)
        /\ UNCHANGED <<log, inbox>>
    BY <1>7 DEF PersistHighest, monitorVars
  <2>2. /\ scan'.highest = scan.highest /\ scan'.last = scan.last
        /\ scan'.scanned = scan.scanned /\ scan'.pc = "done"
    BY <1>0, <2>1 DEF Scans
  <2>3. /\ lastSeen' \in {lastSeen, scan.highest} /\ lastSeen' >= scan.highest
        /\ lastSeen' >= lastSeen /\ lastSeen' \in Nat
    BY <2>1, SlotNumbers DEF Later
  <2>4. SlotsAreReached'
    BY <2>1, <2>2, <2>3 DEF SlotInv, SlotsAreReached
  <2>5. lastSeen' > 0 => lastSeen' >= watermark'
    <3>1. CASE watermark' = scan.highest
      BY <2>3, <3>1
    <3>2. CASE watermark' = watermark /\ lastSeen > 0
      BY <2>3, <3>2, SlotNumbers DEF SlotInv, NothingBehind
    <3>3. CASE watermark' = watermark /\ lastSeen = 0
      BY <2>3, <3>3, SlotNumbers DEF SlotInv, NothingBehind
    <3> QED
      BY <2>1, <3>1, <3>2, <3>3, SlotNumbers
  <2>6. lastSeen' = 0 => lastSeen = 0 /\ scan.highest = 0 /\ watermark' = watermark
    BY <2>1, <2>3, SlotNumbers
  <2>7. NothingBehind'
    BY <2>1, <2>2, <2>5, <2>6 DEF SlotInv, NothingBehind
  <2> QED
    BY <2>4, <2>7 DEF SlotInv
<1> QED
  BY <1>1, <1>2, <1>3, <1>5, <1>6, <1>7 DEF Backfill

\* The notification taken up is a place in the log, and the first in the inbox.
LEMMA ObserveFields ==
    ASSUME IInv, Observe
    PROVE  /\ inbox \in Seq(Entries) /\ Len(inbox) \in Nat \ {0} /\ Len(inbox') = Len(inbox) - 1
           /\ observed' = inbox[1] /\ observed' \in 1 .. Len(log)
           /\ \A k \in 1 .. Len(inbox') : k + 1 \in 1 .. Len(inbox) /\ inbox'[k] = inbox[k + 1]
<1>1. inbox \in Seq(Entries) /\ inbox # <<>> /\ inbox' = Tail(inbox) /\ observed' = Head(inbox)
  BY DEF Observe, IInv, TypeOK
<1>2. /\ Len(inbox) \in Nat \ {0} /\ Len(inbox') = Len(inbox) - 1 /\ observed' = inbox[1]
      /\ \A k \in 1 .. Len(inbox') : inbox'[k] = inbox[k + 1]
  BY <1>1, HeadTailProperties, LenProperties, EmptySeq
<1>3. observed' \in 1 .. Len(log)
  BY <1>2 DEF IInv, NotedIsInLog
<1> QED
  BY <1>1, <1>2, <1>3

\* What a transaction that lands does to log and inbox.
LEMMA LandEntryFields ==
    ASSUME IInv, NEW kind \in Kinds, LandEntry(kind)
    PROVE  /\ Len(log) \in Nat /\ Len(log') = Len(log) + 1
           /\ Len(inbox) \in Nat /\ Len(inbox) <= Len(inbox')
           /\ \A k \in 1 .. Len(inbox) : inbox'[k] = inbox[k]
           /\ \A k \in 1 .. Len(inbox') :
                  \/ k \in 1 .. Len(inbox) /\ inbox'[k] = inbox[k]
                  \/ inbox'[k] = Len(log')
<1>1. inbox \in Seq(Entries) /\ Len(log) \in 0 .. MaxLog /\ log \in Seq(LogEntry)
  BY LogTyped DEF IInv, TypeOK
<1>2. Len(log) < MaxLog /\ \E e : log' = Append(log, e)
  BY DEF LandEntry
<1>3. Len(log') = Len(log) + 1
  BY <1>2 
<1>4. CASE inbox' = inbox
  <2>1. Len(inbox) \in Nat
    BY <1>1, LenProperties
  <2> QED
    BY <1>1, <1>3, <1>4, <2>1
<1>5. CASE inbox' = Append(inbox, Len(log) + 1)
  <2>1. Len(log) + 1 \in Entries
    BY <1>1, <1>2, Constants DEF Entries
  <2>2. /\ Len(inbox') = Len(inbox) + 1 /\ Len(inbox) \in Nat
        /\ \A k \in 1 .. Len(inbox) : inbox'[k] = inbox[k]
        /\ inbox'[Len(inbox) + 1] = Len(log) + 1
    BY <1>1, <1>5, <2>1, AppendProperties, LenProperties
  <2>3. \A k \in 1 .. Len(inbox') : k \in 1 .. Len(inbox) \/ k = Len(inbox) + 1
    BY <2>2
  <2> QED
    BY <1>1, <1>3, <2>2, <2>3
<1> QED
  BY <1>4, <1>5 DEF LandEntry

LEMMA NextSlotInv == IInv /\ GapInv /\ SlotInv /\ [Next]_vars => SlotInv'
<1> SUFFICES ASSUME IInv, GapInv, SlotInv, [Next]_vars PROVE SlotInv'
  OBVIOUS
<1>0. IInv' /\ Len(log) \in Nat
  BY NextIInv, SlotNumbers
<1>1. CASE Backfill
  BY <1>1, BackfillSlotInv
<1>2. ASSUME NEW kind \in Kinds, LandEntry(kind) PROVE SlotInv'
  <2>1. /\ Len(log) <= Len(log') /\ \A k \in 1 .. Len(log) : log'[k] = log[k]
        /\ UNCHANGED <<watermark, lastSeen, scan>>
    BY <1>2, LandEntryIInv DEF LandEntry
  <2>2. \A k \in 1 .. Len(inbox') :
            \/ inbox'[k] = Len(log') /\ inbox'[k] \in 1 .. Len(log')
            \/ k \in 1 .. Len(inbox) /\ inbox'[k] = inbox[k]
    BY <1>2, LandEntryFields
  <2> QED
    BY <1>0, <2>1, <2>2, OutsideSlotInv
<1>3. CASE Start
  <2>1. /\ scan.pc = "off" /\ scan' = [scan EXCEPT !.pc = IF Lookback = 0 THEN "done" ELSE "start"]
        /\ UNCHANGED <<log, inbox, lastSeen, watermark>>
    BY <1>3 DEF Start, Running, monitorVars
  <2>2. /\ scan'.pc \in {"start", "done"} /\ scan'.highest = scan.highest
        /\ scan'.last = scan.last /\ scan'.scanned = scan.scanned
    BY <2>1 DEF IInv, TypeOK, Scans
  <2> QED
    BY <2>1, <2>2, UnnotedSlotInv
<1>4. CASE Crash
  <2>1. /\ UNCHANGED <<log, watermark>> /\ lastSeen' = 0 /\ Len(inbox') = 0
        /\ scan'.highest = 0 /\ scan'.last = 0 /\ scan'.scanned = 0 /\ scan'.pc = "off"
    BY <1>4 DEF Crash, ScanOff
  <2> QED
    BY <2>1 DEF SlotInv, SlotsAreReached, NothingBehind, Reached
<1>5. CASE Observe
  <2>1. /\ lastSeen' = Later(lastSeen, log[observed'].slot)
        /\ UNCHANGED <<log, scan, watermark>>
    BY <1>5 DEF Observe
  <2>2. observed' \in 1 .. Len(log) /\ observed' = inbox[1] /\ 1 \in 1 .. Len(inbox)
    BY <1>5, ObserveFields
  <2>3. log[observed'].slot \in Nat \ {0} /\ lastSeen \in Nat /\ watermark \in Nat
    BY <2>2, SlotNumbers
  <2>4. /\ lastSeen' \in {lastSeen, log[observed'].slot} /\ lastSeen' > 0
        /\ lastSeen' >= log[observed'].slot /\ lastSeen' >= lastSeen /\ lastSeen' \in Nat
    BY <2>1, <2>3 DEF Later
  <2>5. Reached(log, lastSeen')
    BY <2>2, <2>3, <2>4 DEF SlotInv, SlotsAreReached, Reached
  <2>6. lastSeen = 0 => log[observed'].slot >= watermark
    BY <2>2 DEF SlotInv, NothingBehind
  <2>7. lastSeen' >= watermark
    BY <2>3, <2>4, <2>6 DEF SlotInv, NothingBehind
  <2> QED
    BY <2>1, <2>4, <2>5, <2>7 DEF SlotInv, SlotsAreReached, NothingBehind
<1>6. CASE Settle
  <2>1. /\ watermark' = watermark \/ (lastSeen > 0 /\ watermark' = lastSeen)
        /\ UNCHANGED <<log, inbox, lastSeen, scan>>
    BY <1>6 DEF Settle, monitorVars
  <2> QED
    BY <2>1, SlotNumbers DEF SlotInv, SlotsAreReached, NothingBehind
<1>7. CASE Subscribe \/ Unsubscribe \/ StreamEnds \/ Fetch \/ Send \/ Take \/ FailJob \/ UNCHANGED vars
  <2>1. UNCHANGED <<log, inbox, lastSeen, scan, watermark>>
    BY <1>7 DEF Subscribe, Unsubscribe, StreamEnds, Fetch, Send, Take, FailJob, vars, monitorVars
  <2> QED
    BY <2>1 DEF SlotInv, SlotsAreReached, NothingBehind
<1> QED
  BY <1>1, <1>2, <1>3, <1>4, <1>5, <1>6, <1>7 DEF Next, Environment, Monitor, Worker

LEMMA WatermarkStep ==
    IInv /\ SlotInv /\ [Next]_vars =>
        [\/ watermark' >= watermark
         \/ scan.pc = "persist" /\ watermark' >= scan.last]_vars
<1> SUFFICES ASSUME IInv, SlotInv, Next
             PROVE  \/ watermark' >= watermark
                    \/ scan.pc = "persist" /\ watermark' >= scan.last
  OBVIOUS
<1>1. watermark \in Nat /\ watermark >= watermark
  BY SlotNumbers
<1>2. CASE UNCHANGED watermark
  BY <1>1, <1>2
<1>3. CASE Settle
  BY <1>1, <1>3 DEF Settle, SlotInv, NothingBehind
<1>4. CASE PersistHighest
  BY <1>1, <1>4 DEF PersistHighest, SlotInv, SlotsAreReached
<1> QED
  BY <1>2, <1>3, <1>4
  DEF Next, Environment, Monitor, Backfill, Worker, LandEntry, Start, Crash, Unsubscribe,
      Subscribe, Observe, StreamEnds, Fetch, Send, ReadWatermark, FetchPage, StopAtWatermark,
      SkipFailed, ScanEntry, SendFound, Take, FailJob

\* For any log, page size and lookback, with crashes and failed statements: only the
\* end of a backfill takes the watermark back, and not behind the one it began with
\* (chain.rs, persist_slot_watermark, backfill_missed_deliveries).
THEOREM WatermarkHeld == Spec => WatermarkFallsOnlyByBackfill
<1>1. Init => IInv /\ GapInv /\ SlotInv
  BY InitIInv, InitGapInv, InitSlotInv
<1>2. IInv /\ GapInv /\ SlotInv /\ [Next]_vars => IInv' /\ GapInv' /\ SlotInv'
  BY NextIInv, NextGapInv, NextSlotInv
<1> QED
  BY <1>1, <1>2, WatermarkStep, PTL DEF Spec, WatermarkFallsOnlyByBackfill
-----------------------------------------------------------------------------
(* What was notified is not lost, and a scan does not go on for ever.      *)

LEMMA KeptStep ==
    IInv /\ [Next]_vars =>
        [scan'.pc # "off" /\ ~Faults => InHand \subseteq InHand' \union sent' \union settled']_vars
<1> SUFFICES ASSUME IInv, Next, scan'.pc # "off", ~Faults, NEW i \in InHand
             PROVE  i \in InHand' \union sent' \union settled'
  OBVIOUS
<1>0. /\ i \in 1 .. Len(log) /\ log[i].kind = "delivery"
      /\ i = observed \/ \E k \in 1 .. Len(inbox) : inbox[k] = i
  BY DEF InHand
<1>1. CASE UNCHANGED <<log, observed, inbox>>
  BY <1>0, <1>1 DEF InHand
<1>2. ASSUME NEW kind \in Kinds, LandEntry(kind) PROVE i \in InHand'
  <2>1. /\ Len(log') = Len(log) + 1 /\ Len(log) \in Nat /\ log'[i] = log[i] /\ UNCHANGED observed
        /\ Len(inbox) \in Nat /\ Len(inbox') \in Nat /\ Len(inbox) <= Len(inbox')
        /\ \A k \in 1 .. Len(inbox) : inbox'[k] = inbox[k]
    <3>1. inbox' \in Seq(Entries)
      BY <1>2, LandEntryIInv DEF IInv, TypeOK
    <3> QED
      BY <1>0, <1>2, <3>1, LandEntryIInv, LandEntryFields, LenProperties DEF LandEntry
  <2>2. i \in 1 .. Len(log') /\ log'[i].kind = "delivery"
    BY <1>0, <2>1
  <2>3. i = observed' \/ \E k \in 1 .. Len(inbox') : inbox'[k] = i
    <3>1. \A k \in 1 .. Len(inbox) : k \in 1 .. Len(inbox')
      BY <2>1
    <3> QED
      BY <1>0, <2>1, <3>1
  <2> QED
    BY <2>2, <2>3 DEF InHand
<1>3. CASE Observe
  <2>1. observed = 0 /\ i # 0 /\ UNCHANGED log
    BY <1>0, <1>3, SlotNumbers DEF Observe
  <2>2. PICK k \in 1 .. Len(inbox) : inbox[k] = i
    BY <1>0, <2>1
  <2>3. CASE k = 1
    BY <1>0, <1>3, <2>1, <2>2, <2>3, ObserveFields DEF InHand
  <2>4. CASE k # 1
    <3>1. k - 1 \in 1 .. Len(inbox') /\ (k - 1) + 1 = k
      BY <1>3, <2>2, <2>4, ObserveFields
    <3>2. inbox'[k - 1] = i
      BY <1>3, <2>2, <3>1, ObserveFields
    <3> QED
      BY <1>0, <2>1, <3>1, <3>2 DEF InHand
  <2> QED
    BY <2>3, <2>4
<1>4. CASE Fetch
  <2>1. UNCHANGED <<log, inbox, settled>>
    BY <1>4 DEF Fetch, workerVars
  <2>2. CASE \E k \in 1 .. Len(inbox) : inbox[k] = i
    BY <1>0, <2>1, <2>2 DEF InHand
  <2>3. CASE i = observed
    <3>1. CASE UNCHANGED observed
      BY <1>0, <2>1, <2>3, <3>1 DEF InHand
    <3>2. CASE ~YieldsJob(observed)
      BY <1>0, <2>1, <2>3, <3>2 DEF YieldsJob
    <3> QED
      BY <1>4, <3>1, <3>2 DEF Fetch
  <2> QED
    BY <1>0, <2>2, <2>3
<1>5. CASE Send
  <2>1. UNCHANGED <<log, inbox>> /\ observed \in sent'
    BY <1>5 DEF Send, SendJob
  <2> QED
    BY <1>0, <2>1 DEF InHand
<1>6. CASE Crash
  BY <1>6 DEF Crash, ScanOff
<1> QED
  BY <1>1, <1>2, <1>3, <1>4, <1>5, <1>6
  DEF Next, Environment, Monitor, Backfill, Worker, Start, Unsubscribe, Subscribe, StreamEnds,
      ReadWatermark, FetchPage, StopAtWatermark, SkipFailed, ScanEntry, SendFound,
      PersistHighest, Take, Settle, FailJob, monitorVars

\* Whatever lands, however small the channel and also while the websocket goes down:
\* without RPC failures a notified delivery is kept until its job is sent or its payment
\* resolved (chain.rs, monitor_deliveries).
THEOREM NotifiedNeverLost == Spec => NotifiedIsKept
BY Invariance, KeptStep, PTL DEF Spec, NotifiedIsKept

\* ScanSteps where the scan is at work.
LEMMA StepsLeft ==
    ASSUME IInv
    PROVE  /\ Lookback - scan.scanned \in Nat
           /\ scan.pc = "start" => ScanSteps = 3 * (Lookback - scan.scanned) + 3
           /\ scan.pc = "page" => ScanSteps = 3 * (Lookback - scan.scanned) + 2
           /\ scan.pc = "entry" => ScanSteps = 3 * (Lookback - scan.scanned) + 1
           /\ scan.pc = "send" => ScanSteps = 3 * (Lookback - scan.scanned)
           /\ scan.pc = "persist" => ScanSteps = 1
           /\ scan.pc = "done" => ScanSteps = 0
           /\ scan.pc \in {"entry", "send"} => scan.scanned + 1 <= Lookback
<1>1. Lookback - scan.scanned \in Nat
  BY ScanNumbers
<1>2. scan.pc \in {"entry", "send"} => scan.scanned + 1 <= Lookback
  BY ScanNumbers DEF IInv, ScanIsInLog
<1> QED
  BY <1>1, <1>2 DEF ScanSteps

LEMMA BackfillSteps ==
    ASSUME IInv, Backfill
    PROVE  ScanSteps' < ScanSteps
<1> DEFINE unscanned == Lookback - scan.scanned
           unscannedThen == Lookback - scan'.scanned
<1>0. /\ scan \in Scans /\ TypeOK /\ scan.scanned \in Nat /\ Lookback \in Nat
      /\ unscanned \in Nat
  BY StepsLeft, ScanNumbers DEF IInv
<1>1. /\ scan'.pc = "page" => ScanSteps' = 3 * unscannedThen + 2
      /\ scan'.pc = "entry" => ScanSteps' = 3 * unscannedThen + 1
      /\ scan'.pc = "send" => ScanSteps' = 3 * unscannedThen
      /\ scan'.pc = "persist" => ScanSteps' = 1
      /\ scan'.pc = "done" => ScanSteps' = 0
  BY DEF ScanSteps
<1>2. CASE ReadWatermark
  <2>1. scan.pc = "start" /\ scan'.pc = "page" /\ scan'.scanned = scan.scanned
    BY <1>0, <1>2 DEF ReadWatermark, Scans
  <2> QED
    BY <1>0, <1>1, <2>1, StepsLeft
<1>3. CASE FetchPage
  <2>1. scan.pc = "page" /\ scan'.pc \in {"entry", "persist"} /\ scan'.scanned = scan.scanned
    BY <1>0, <1>3 DEF FetchPage, Scans
  <2> QED
    BY <1>0, <1>1, <2>1, StepsLeft
<1>4. CASE StopAtWatermark
  <2>1. scan.pc = "entry" /\ scan'.pc = "persist"
    BY <1>0, <1>4 DEF StopAtWatermark, Scans
  <2> QED
    BY <1>0, <1>1, <2>1, StepsLeft
<1>5. ASSUME scan.pc \in {"entry", "send"}, NEW before, NEW cut \in BOOLEAN, Advance(before, cut)
      PROVE  ScanSteps' < ScanSteps
  <2>1. scan'.scanned = scan.scanned + 1 /\ scan'.pc \in {"entry", "page", "persist"}
    BY <1>0, <1>5, AdvanceFields
  <2>2. unscannedThen = unscanned - 1 /\ unscanned >= 1
    BY <1>0, <1>5, <2>1, StepsLeft
  <2> QED
    BY <1>0, <1>1, <1>5, <2>1, <2>2, StepsLeft
<1>6. CASE SkipFailed \/ SendFound
  BY <1>5, <1>6 DEF SkipFailed, SendFound
<1>7. CASE ScanEntry
  <2>1. CASE scan' = [scan EXCEPT !.pc = "send"]
    <3>1. scan.pc = "entry" /\ scan'.pc = "send" /\ scan'.scanned = scan.scanned
      BY <1>0, <1>7, <2>1 DEF ScanEntry, Scans
    <3> QED
      BY <1>0, <1>1, <3>1, StepsLeft
  <2> QED
    BY <1>5, <1>7, <2>1 DEF ScanEntry
<1>8. CASE PersistHighest
  <2>1. scan.pc = "persist" /\ scan'.pc = "done"
    BY <1>0, <1>8 DEF PersistHighest, Scans
  <2> QED
    BY <1>1, <2>1, StepsLeft
<1> QED
  BY <1>2, <1>3, <1>4, <1>6, <1>7, <1>8 DEF Backfill

LEMMA ScanStep ==
    IInv /\ [Next]_vars =>
        [Running /\ scan'.pc # "off" /\ scan' # scan => ScanSteps' < ScanSteps]_vars
<1> SUFFICES ASSUME IInv, Next, Running, scan'.pc # "off", scan' # scan
             PROVE  ScanSteps' < ScanSteps
  OBVIOUS
<1>1. CASE Backfill
  BY <1>1, BackfillSteps
<1>2. ~Crash
  BY DEF Crash, ScanOff
<1> QED
  BY <1>1, <1>2
  DEF Next, Environment, Monitor, Worker, LandEntry, Start, Unsubscribe, Subscribe, Observe,
      StreamEnds, Fetch, Send, Take, Settle, FailJob

\* For any log, page size and lookback, also where failed transactions throw the scan
\* back: each of its steps uses up some of what the lookback allows for (chain.rs,
\* backfill_missed_deliveries).
THEOREM ScanIsBounded == Spec => ScanStepsRunOut
BY Invariance, ScanStep, PTL DEF Spec, ScanStepsRunOut
=============================================================================
