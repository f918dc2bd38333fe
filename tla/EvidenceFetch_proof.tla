------------------------ MODULE EvidenceFetch_proof ------------------------
(***************************************************************************)
(* Theorems about EvidenceFetch, for any number of mirrors and attempts.   *)
(***************************************************************************)
EXTENDS EvidenceFetch, TLAPS

USE EvidenceFetchAssumption

-----------------------------------------------------------------------------
(* The inductive invariant.                                                *)

\* What has been asked for the artifact at hand: mirrors before `base' hold
\* nothing or were asked as often as allowed, the one at `base' was asked
\* `attempt' times, those after it not at all.
AskedInOrder ==
    \A m \in Mirrors :
        /\ m < base => \/ holds[artifact][m] = "nothing"
                       \/ asked[artifact][m] = MaxRetries
        /\ m = base => asked[artifact][m] = attempt
        /\ m > base => asked[artifact][m] = 0

\* The loops run while the fetch is pending.
LoopInv ==
    /\ outcome = "pending" => AskedInOrder
    /\ outcome = "pending" /\ MaxRetries > 0 => attempt < MaxRetries
    /\ outcome = "pending" /\ artifact = "sla" =>
          \A m \in Mirrors : asked["delivery"][m] = 0

\* The SLA document comes first.
TakenInv ==
    artifact = "delivery" => taken["sla"] = "committed" /\ parses["sla"]

FetchInv ==
    /\ TypeOK
    /\ LoopInv
    /\ TakenInv
    /\ OnlyCommittedIsEvaluated
    /\ GivesUpOnlyAfterAll

LEMMA FetchInit == Init => FetchInv
  BY DEF Init, FetchInv, TypeOK, LoopInv, AskedInOrder, TakenInv, Mirrors, Artifacts,
         Contents, Failures, OnlyCommittedIsEvaluated, GivesUpOnlyAfterAll

-----------------------------------------------------------------------------
(* Preservation.                                                           *)

\* A request leaves the counters in their types, and adds one to that of the
\* mirror whose turn it is.
LEMMA AskingCounts ==
    ASSUME FetchInv, Asking
    PROVE  /\ base \in Mirrors
           /\ asked' \in [Artifacts -> [Mirrors -> 0 .. MaxRetries]]
           /\ asked[artifact][base] = attempt
           /\ \A a \in Artifacts, m \in Mirrors :
                 asked'[a][m] = IF a = artifact /\ m = base THEN attempt + 1 ELSE asked[a][m]
<1>1. base \in Mirrors /\ artifact \in Artifacts
  BY DEF FetchInv, TypeOK, Asking, Mirrors
<1>2. asked[artifact][base] = attempt /\ attempt + 1 \in 0 .. MaxRetries
  BY <1>1 DEF FetchInv, TypeOK, LoopInv, AskedInOrder, Asking, Mirrors
<1>3. asked' = [asked EXCEPT ![artifact][base] = attempt + 1]
  BY <1>2 DEF Asking
<1> QED
  BY <1>1, <1>2, <1>3 DEF FetchInv, TypeOK

\* Going on with the next mirror keeps the order, once the one whose turn it was
\* holds nothing or has been asked as often as allowed.
LEMMA NextMirrorInOrder ==
    ASSUME FetchInv, Asking, NextMirror, UNCHANGED <<artifact, outcome, taken>>,
           holds[artifact][base] = "nothing" \/ attempt + 1 = MaxRetries
    PROVE  FetchInv'
<1>0. asked' \in [Artifacts -> [Mirrors -> 0 .. MaxRetries]] /\ base \in Mirrors
  BY AskingCounts
<1>1. TypeOK'
  <2>1. base' \in 1 .. MirrorCount + 1 /\ attempt' \in 0 .. MaxRetries
    BY <1>0, EvidenceFetchAssumption DEF NextMirror, Mirrors
  <2>2. UNCHANGED <<holds, parses>>
    BY DEF Asking
  <2> QED BY <1>0, <2>1, <2>2 DEF FetchInv, TypeOK
<1>2. AskedInOrder'
  BY AskingCounts DEF FetchInv, TypeOK, LoopInv, AskedInOrder, Asking, NextMirror, Mirrors
<1>3. LoopInv'
  BY <1>2, AskingCounts DEF FetchInv, TypeOK, LoopInv, Asking, NextMirror, Artifacts
<1> QED
  BY <1>1, <1>3 DEF FetchInv, TakenInv, OnlyCommittedIsEvaluated, GivesUpOnlyAfterAll, Asking

\* Every step keeps the invariant.
LEMMA FetchInvStep == FetchInv /\ [Next]_vars => FetchInv'
<1> SUFFICES ASSUME FetchInv, [Next]_vars PROVE FetchInv'
  OBVIOUS
<1>1. CASE Accept
  <2> DEFINE content == holds[artifact][base]
  <2>1. /\ Asking
        /\ content = "committed"
        /\ taken' = [taken EXCEPT ![artifact] = "committed"]
    BY <1>1 DEF Accept, HashMatches
  <2>2. \A a \in Artifacts :
           taken'[a] = IF a = artifact THEN "committed" ELSE taken[a]
    BY <2>1 DEF FetchInv, TypeOK
  <2>3. CASE parses[artifact] /\ artifact = "sla"
    <3>1. artifact' = "delivery" /\ base' = 1 /\ attempt' = 0 /\ UNCHANGED outcome
      BY <1>1, <2>3 DEF Accept
    <3>2. TypeOK'
      <4>1. taken' \in [Artifacts -> Contents]
        BY <2>1 DEF FetchInv, TypeOK, Contents
      <4>2. artifact' \in Artifacts /\ base' \in 1 .. MirrorCount + 1 /\ attempt' \in 0 .. MaxRetries
        BY <3>1 DEF Artifacts
      <4> QED
        BY <2>1, <3>1, <4>1, <4>2, AskingCounts DEF FetchInv, TypeOK, Asking
    <3>3. \A m \in Mirrors : asked'["delivery"][m] = 0
      BY <2>1, <2>3, AskingCounts DEF FetchInv, LoopInv, Asking, Artifacts
    <3>4. LoopInv'
      BY <2>1, <3>1, <3>3 DEF LoopInv, AskedInOrder, Mirrors, Asking
    <3>5. TakenInv' /\ OnlyCommittedIsEvaluated'
      BY <2>1, <2>2, <2>3, <3>1
      DEF FetchInv, TakenInv, OnlyCommittedIsEvaluated, Asking, Artifacts
    <3> QED
      BY <2>1, <3>1, <3>2, <3>4, <3>5 DEF FetchInv, GivesUpOnlyAfterAll, Asking
  <2>4. CASE ~(parses[artifact] /\ artifact = "sla")
    <3>1. /\ outcome' = IF parses[artifact] THEN "evaluate" ELSE "parse_error"
          /\ UNCHANGED <<artifact, base, attempt>>
      BY <1>1, <2>4 DEF Accept
    <3>2. TypeOK'
      BY <2>1, <3>1, AskingCounts DEF FetchInv, TypeOK, Asking, Failures, Contents
    <3>3. LoopInv' /\ GivesUpOnlyAfterAll'
      BY <3>1 DEF LoopInv, GivesUpOnlyAfterAll
    <3>4. TakenInv' /\ OnlyCommittedIsEvaluated'
      BY <2>1, <2>2, <2>4, <3>1
      DEF FetchInv, TypeOK, TakenInv, OnlyCommittedIsEvaluated, Asking, Artifacts
    <3> QED
      BY <3>2, <3>3, <3>4 DEF FetchInv
  <2> QED
    BY <2>3, <2>4
<1>2. CASE Mismatch
  <2>1. TypeOK'
    BY <1>2, AskingCounts DEF Mismatch, FetchInv, TypeOK, Asking, Failures
  <2> QED
    BY <1>2, <2>1 DEF Mismatch, FetchInv, LoopInv, TakenInv, OnlyCommittedIsEvaluated,
                      GivesUpOnlyAfterAll, Asking
<1>3. CASE Refused
  BY <1>3, NextMirrorInOrder DEF Refused
<1>4. CASE Faulted
  <2>1. CASE attempt + 1 < MaxRetries
    <3>1. Asking /\ attempt' = attempt + 1 /\ UNCHANGED <<base, artifact, outcome, taken>>
      BY <1>4, <2>1 DEF Faulted
    <3>2. TypeOK'
      BY <2>1, <3>1, AskingCounts DEF FetchInv, TypeOK, Asking
    <3>3. AskedInOrder'
      BY <3>1, AskingCounts DEF FetchInv, TypeOK, LoopInv, AskedInOrder, Asking, Mirrors
    <3>4. LoopInv'
      BY <2>1, <3>1, <3>3, AskingCounts DEF FetchInv, TypeOK, LoopInv, Asking, Artifacts
    <3> QED
      BY <3>1, <3>2, <3>4
      DEF FetchInv, TakenInv, OnlyCommittedIsEvaluated, GivesUpOnlyAfterAll, Asking
  <2>2. CASE ~(attempt + 1 < MaxRetries)
    <3>1. Asking /\ NextMirror /\ UNCHANGED <<artifact, outcome, taken>>
      BY <1>4, <2>2 DEF Faulted
    <3>2. attempt + 1 = MaxRetries
      BY <2>2, <3>1 DEF FetchInv, TypeOK, Asking
    <3> QED
      BY <3>1, <3>2, NextMirrorInOrder
  <2> QED
    BY <2>1, <2>2
<1>5. CASE NotFound
  <2>1. TypeOK' /\ LoopInv' /\ TakenInv' /\ OnlyCommittedIsEvaluated'
    BY <1>5 DEF NotFound, FetchInv, TypeOK, LoopInv, TakenInv, OnlyCommittedIsEvaluated,
                Failures
  <2>2. GivesUpOnlyAfterAll'
    BY <1>5 DEF NotFound, FetchInv, TypeOK, LoopInv, AskedInOrder, GivesUpOnlyAfterAll,
                Mirrors
  <2> QED
    BY <2>1, <2>2 DEF FetchInv
<1>6. CASE TimeOut
  BY <1>6 DEF TimeOut, FetchInv, TypeOK, LoopInv, TakenInv, OnlyCommittedIsEvaluated,
              GivesUpOnlyAfterAll, Failures
<1>7. CASE UNCHANGED vars
  BY <1>7 DEF vars, FetchInv, TypeOK, LoopInv, AskedInOrder, TakenInv,
              OnlyCommittedIsEvaluated, GivesUpOnlyAfterAll
<1> QED
  BY <1>1, <1>2, <1>3, <1>4, <1>5, <1>6, <1>7 DEF Next, FetchStep

-----------------------------------------------------------------------------
(* Theorems.                                                               *)

\* The invariant holds throughout every fetch.
THEOREM FetchInvariant == Spec => []FetchInv
  BY FetchInit, FetchInvStep, PTL DEF Spec

\* Every variable keeps its type; in particular no mirror is ever asked for an
\* artifact more than EVIDENCE_FETCH_MAX_RETRIES times (the inner loop of
\* fetch_evidence in pipeline.rs).
THEOREM FetchTypes == Spec => []TypeOK
<1>1. FetchInv => TypeOK
  BY DEF FetchInv
<1> QED
  BY <1>1, FetchInvariant, PTL

\* Nothing but the bytes committed to is parsed, and evaluation starts only on
\* committed bytes of both artifacts (the hash comparison of fetch_evidence in
\* pipeline.rs, and the order of run_pipeline).
THEOREM CommittedOnly == Spec => []OnlyCommittedIsEvaluated
<1>1. FetchInv => OnlyCommittedIsEvaluated
  BY DEF FetchInv
<1> QED
  BY <1>1, FetchInvariant, PTL

\* An artifact counts as not found only after every mirror holding it was asked
\* as often as the configuration allows (the two loops of fetch_evidence in
\* pipeline.rs).
THEOREM NoMirrorSpared == Spec => []GivesUpOnlyAfterAll
<1>1. FetchInv => GivesUpOnlyAfterAll
  BY DEF FetchInv
<1> QED
  BY <1>1, FetchInvariant, PTL

=============================================================================
