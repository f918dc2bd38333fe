------------------------ MODULE DeliveryMatch_proof ------------------------
(***************************************************************************)
(* Proofs about DeliveryMatch, for any payments and any transaction.       *)
(***************************************************************************)
EXTENDS DeliveryMatch, TLAPS

\* What is left to read while candidates are read was named by an instruction, and
\* strict mode goes no further than that.
OnlyCandidatesAreRead ==
    /\ phase = "candidates" => unread \subseteq Candidates
    /\ phase = "accounts" => ~strict
    /\ phase = "done" => unread = {}

ResultIsAccepted ==
    result # None =>
        /\ Accepts(result)
        /\ strict => result \in Candidates

\* A candidate that made no job is still to be read, or was settled, or does not
\* match, or could not be read.
CandidatesAreAccounted ==
    result = None =>
        \A p \in Candidates \intersect pending :
            \/ phase = "candidates" /\ p \in unread
            \/ ~EventMatches(p)
            \/ p \in failed

IInv ==
    /\ TypeOK
    /\ OnlyCandidatesAreRead
    /\ ResultIsAccepted
    /\ CandidatesAreAccounted

-----------------------------------------------------------------------------

LEMMA CandidatesArePayments ==
    ASSUME instructions \subseteq Instructions
    PROVE  Candidates \subseteq Payments
BY DeliveryMatchAssumption DEF Candidates, InstructionType

LEMMA InitIInv == Init => IInv
<1> SUFFICES ASSUME Init PROVE IInv
  OBVIOUS
<1>1. TypeOK
  BY CandidatesArePayments DEF Init, TypeOK
<1>2. OnlyCandidatesAreRead /\ ResultIsAccepted /\ CandidatesAreAccounted
  BY DEF Init, OnlyCandidatesAreRead, ResultIsAccepted, CandidatesAreAccounted
<1> QED
  BY <1>1, <1>2 DEF IInv

LEMMA NextIInv == IInv /\ [Next]_vars => IInv'
<1> SUFFICES ASSUME IInv, [Next]_vars PROVE IInv'
  OBVIOUS
<1>0. /\ TypeOK /\ Candidates \subseteq Payments /\ None \notin Payments
      /\ unread \subseteq Payments /\ accounts \subseteq Payments
  BY CandidatesArePayments, DeliveryMatchAssumption DEF IInv, TypeOK
\* The transaction does not change, nor does what is derived from it.
<1>1. ASSUME UNCHANGED transaction
      PROVE  /\ Candidates' = Candidates /\ Events' = Events /\ strict' = strict
             /\ \A p : /\ EventMatches(p)' <=> EventMatches(p)
                       /\ Accepts(p)' <=> Accepts(p)
  BY <1>1 DEF transaction, Candidates, Events, EventMatches, Matched, Accepts
<1>2. ASSUME NEW p \in unread, ReadAccepted(p) PROVE IInv'
  <2>1. /\ result' = p /\ phase' = "done" /\ unread' = {}
        /\ UNCHANGED <<transaction, pending, failed>> /\ phase # "done" /\ p # None
    BY <1>0, <1>2 DEF ReadAccepted, IInv, OnlyCandidatesAreRead
  <2>2. TypeOK'
    BY <1>0, <2>1 DEF TypeOK, transaction
  <2>3. result' # None /\ Accepts(p) /\ (strict => p \in Candidates)
    BY <1>2, <2>1 DEF ReadAccepted, IInv, OnlyCandidatesAreRead, TypeOK
  <2>4. OnlyCandidatesAreRead' /\ CandidatesAreAccounted'
    BY <2>1, <2>3 DEF OnlyCandidatesAreRead, CandidatesAreAccounted
  <2>5. ResultIsAccepted'
    BY <1>1, <2>1, <2>3 DEF ResultIsAccepted
  <2> QED
    BY <2>2, <2>4, <2>5 DEF IInv
<1>3. ASSUME NEW p \in unread, ReadPassedOver(p) PROVE IInv'
  <2>1. /\ unread' = unread \ {p}
        /\ UNCHANGED <<transaction, pending, phase, result, failed>>
        /\ p \notin pending \/ ~Accepts(p)
    BY <1>3 DEF ReadPassedOver
  <2>2. TypeOK'
    BY <1>0, <2>1 DEF TypeOK, transaction
  <2>3. OnlyCandidatesAreRead' /\ ResultIsAccepted'
    BY <1>1, <2>1 DEF IInv, OnlyCandidatesAreRead, ResultIsAccepted
  <2>4. CandidatesAreAccounted'
    BY <1>1, <2>1 DEF IInv, CandidatesAreAccounted, Accepts
  <2> QED
    BY <2>2, <2>3, <2>4 DEF IInv
<1>4. ASSUME NEW p \in unread, ReadFailed(p) PROVE IInv'
  <2>1. /\ unread' = unread \ {p} /\ failed' = failed \union {p}
        /\ UNCHANGED <<transaction, pending, phase, result>>
    BY <1>4 DEF ReadFailed
  <2>2. TypeOK'
    BY <1>0, <2>1 DEF TypeOK, transaction
  <2>3. OnlyCandidatesAreRead' /\ ResultIsAccepted'
    BY <1>1, <2>1 DEF IInv, OnlyCandidatesAreRead, ResultIsAccepted
  <2>4. CandidatesAreAccounted'
    BY <1>1, <2>1 DEF IInv, CandidatesAreAccounted
  <2> QED
    BY <2>2, <2>3, <2>4 DEF IInv
<1>5. CASE ScanAccounts
  <2>1. /\ phase = "candidates" /\ unread = {}
        /\ UNCHANGED <<transaction, pending, result, failed>>
        /\ \/ strict /\ phase' = "done" /\ unread' = {}
           \/ ~strict /\ phase' = "accounts" /\ unread' = accounts
    BY <1>0, <1>5 DEF ScanAccounts, TypeOK
  <2>2. TypeOK'
    BY <1>0, <2>1 DEF TypeOK, transaction
  <2>3. OnlyCandidatesAreRead'
    BY <1>1, <2>1 DEF OnlyCandidatesAreRead
  <2>4. ResultIsAccepted'
    BY <1>1, <2>1 DEF IInv, ResultIsAccepted
  <2>5. CandidatesAreAccounted'
    BY <1>1, <2>1 DEF IInv, CandidatesAreAccounted
  <2> QED
    BY <2>2, <2>3, <2>4, <2>5 DEF IInv
<1>6. CASE NoJob
  <2>1. /\ phase = "accounts" /\ phase' = "done" /\ unread = {}
        /\ UNCHANGED <<transaction, pending, unread, result, failed>>
    BY <1>6 DEF NoJob
  <2>2. TypeOK'
    BY <1>0, <2>1 DEF TypeOK, transaction
  <2>3. OnlyCandidatesAreRead' /\ ResultIsAccepted'
    BY <1>1, <2>1 DEF IInv, OnlyCandidatesAreRead, ResultIsAccepted
  <2>4. CandidatesAreAccounted'
    BY <1>1, <2>1 DEF IInv, CandidatesAreAccounted
  <2> QED
    BY <2>2, <2>3, <2>4 DEF IInv
<1>7. ASSUME NEW p \in pending, Resolve(p) PROVE IInv'
  <2>1. /\ pending' = pending \ {p}
        /\ UNCHANGED <<transaction, phase, unread, result, failed>>
    BY <1>7 DEF Resolve
  <2>2. TypeOK'
    BY <1>0, <2>1 DEF TypeOK, transaction
  <2>3. OnlyCandidatesAreRead' /\ ResultIsAccepted'
    BY <1>1, <2>1 DEF IInv, OnlyCandidatesAreRead, ResultIsAccepted
  <2>4. CandidatesAreAccounted'
    BY <1>1, <2>1 DEF IInv, CandidatesAreAccounted
  <2> QED
    BY <2>2, <2>3, <2>4 DEF IInv
<1>8. CASE UNCHANGED vars
  BY <1>1, <1>8 DEF vars, transaction, IInv, TypeOK, OnlyCandidatesAreRead, ResultIsAccepted,
     CandidatesAreAccounted
<1> QED
  BY <1>2, <1>3, <1>4, <1>5, <1>6, <1>7, <1>8 DEF Next, ReadNext

LEMMA Invariance == Spec => []IInv
BY InitIInv, NextIInv, PTL DEF Spec

\* Every variable keeps its type, and a job ends the search (chain.rs,
\* fetch_delivery_job).
THEOREM MatchTypes == Spec => []TypeOK
<1>1. IInv => TypeOK
  BY DEF IInv
<1> QED
  BY <1>1, Invariance, PTL

\* Logs that carry events decide which payment becomes the job (chain.rs,
\* fetch_delivery_job, event_matches_job).
THEOREM JobsMatchEvents == Spec => []JobMatchesEvents
<1>1. IInv => JobMatchesEvents
  BY DEF IInv, ResultIsAccepted, Accepts, EventMatches, JobMatchesEvents
<1> QED
  BY <1>1, Invariance, PTL

\* In strict mode a job comes of a SubmitDelivery instruction (chain.rs,
\* fetch_delivery_job, payment_from_partial_ix, payment_from_compiled_ix).
THEOREM StrictJobsInstructed == Spec => []StrictJobIsInstructed
<1>1. ASSUME IInv, strict, result # None
      PROVE  \E ix \in instructions :
                 ix.payment = result /\ ix.program = "escrow" /\ ix.opcode = "SubmitDelivery"
  <2>1. result \in Candidates
    BY <1>1 DEF IInv, ResultIsAccepted
  <2> QED
    BY <2>1 DEF Candidates, NamesPayment
<1>2. IInv => StrictJobIsInstructed
  BY <1>1 DEF StrictJobIsInstructed
<1> QED
  BY <1>2, Invariance, PTL

\* No pending delivery is passed over without a reason (chain.rs,
\* fetch_delivery_job).
THEOREM DeliveriesFound == Spec => []DeliveryIsFound
<1>1. IInv => DeliveryIsFound
  BY DEF IInv, CandidatesAreAccounted, DeliveryIsFound
<1> QED
  BY <1>1, Invariance, PTL

-----------------------------------------------------------------------------
(* Which delivery is taken.                                                *)

\* The first payment accepted ends the search, so that only the step that finds it
\* has to be looked at: what comes before it was read, and passed over for a reason.
LEMMA FirstStep == IInv /\ FirstDeliveryWins /\ [Next]_vars => FirstDeliveryWins'
<1> SUFFICES ASSUME IInv, FirstDeliveryWins, [Next]_vars, result' # None
             PROVE  FirstDeliveryWins'
  BY DEF FirstDeliveryWins
<1>1. CASE result # None
  <2>1. phase = "done" /\ unread = {}
    BY <1>1 DEF IInv, TypeOK
  <2>2. UNCHANGED vars
    BY <2>1 DEF Next, ReadNext, ScanAccounts, NoJob, Resolve
  <2> QED
    BY <2>2 DEF vars, transaction, FirstDeliveryWins, Candidates, EventMatches, Events, Matched
<1>2. CASE result = None
  <2>1. PICK p \in unread : Turn(p) /\ ReadAccepted(p)
    BY <1>2 DEF Next, ReadNext, ReadPassedOver, ReadFailed, ScanAccounts, NoJob, Resolve, vars
  <2>2. result' = p /\ UNCHANGED <<transaction, pending, failed>>
    BY <2>1 DEF ReadAccepted
  <2>3. Candidates' = Candidates /\ \A q : EventMatches(q)' <=> EventMatches(q)
    BY <2>2 DEF transaction, Candidates, EventMatches, Events, Matched
  <2>4. ASSUME NEW q \in Candidates \intersect pending, EventMatches(q)
        PROVE  (p \in Candidates /\ p <= q) \/ q \in failed
    <3>1. (phase = "candidates" /\ q \in unread) \/ q \in failed
      BY <1>2, <2>4 DEF IInv, CandidatesAreAccounted
    <3>2. ASSUME phase = "candidates", q \in unread
          PROVE  p \in Candidates /\ p <= q
      BY <2>1, <3>2 DEF IInv, OnlyCandidatesAreRead, Turn
    <3> QED
      BY <3>1, <3>2
  <2> QED
    BY <2>2, <2>3, <2>4 DEF FirstDeliveryWins
<1> QED
  BY <1>1, <1>2

\* Which of several deliveries in a transaction becomes the job is decided by their
\* keys, for any number of payments, instructions and failed reads (chain.rs,
\* fetch_delivery_job).
THEOREM FirstDeliveryFound == Spec => []FirstDeliveryWins
<1>1. Init => FirstDeliveryWins
  BY DEF Init, FirstDeliveryWins
<1> QED
  BY <1>1, FirstStep, Invariance, PTL DEF Spec
=============================================================================
