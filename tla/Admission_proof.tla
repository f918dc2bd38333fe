-------------------------- MODULE Admission_proof --------------------------
(***************************************************************************)
(* Proofs about Admission, for any number of requests, limit and window.   *)
(* The queue holds the stamps of the latest admissions, and a stamp leaves *)
(* it only when it is older than the window by the time stamp of a request *)
(* that held the lock.                                                     *)
(***************************************************************************)
EXTENDS Admission, SequenceTheorems, FiniteSetTheorems, TLAPS

Admission == [request : Requests, stamp : Times, at : Times]

\* The queue is the stamps of the latest admissions, in their order.
QueueIsLatest ==
    /\ Len(requests) <= Len(admissions)
    /\ \A i \in 1 .. Len(requests) :
           requests[i] = admissions[Len(admissions) - Len(requests) + i].stamp

\* An admission that has left the queue is older than the window.
DroppedIsOld ==
    \A i \in 1 .. Len(admissions) - Len(requests) : now - admissions[i].stamp > Window

\* An admission came no more than MaxWait after its time stamp.
AdmittedInTime ==
    \A i \in 1 .. Len(admissions) :
        /\ phase[admissions[i].request] = "admitted"
        /\ admissions[i].stamp <= admissions[i].at
        /\ admissions[i].at <= admissions[i].stamp + MaxWait

WaitingInTime ==
    \A r \in Requests :
        phase[r] = "waiting" => stamp[r] <= now /\ now <= stamp[r] + MaxWait

\* A token with which a request may be let through.
Qualifies(brought) ==
    \/ env.sha256 # Absent /\ brought = env.sha256
    \/ env.sha256 = Absent /\ env.plain # Absent /\ brought = env.plain
    \/ env.sha256 = Absent /\ env.plain = Absent /\ env.allow_unauthenticated

WaitingIsAuthorized ==
    \A r \in Requests : phase[r] \in {"waiting", "admitted"} => Qualifies(token[r])

IInv ==
    /\ TypeOK
    /\ QueueIsLatest
    /\ DroppedIsOld
    /\ AdmittedInTime
    /\ WaitingInTime
    /\ WaitingIsAuthorized
    /\ RateIsBounded

-----------------------------------------------------------------------------

\* The arithmetic of the window, with the lock waited for from s to t.
LEMMA WindowArithmetic ==
    ASSUME NEW t \in Int, NEW at \in Int, NEW s \in Int, NEW W \in Int, NEW D \in Int,
           t - s > W, at <= s + D
    PROVE  t - at > W - D
OBVIOUS

LEMMA RefusalArithmetic ==
    ASSUME NEW t \in Int, NEW at \in Int, NEW s \in Int, NEW u \in Int,
           NEW W \in Int, NEW D \in Int,
           ~(s - u > W), t <= s + D, u <= at
    PROVE  t - at <= W + D
OBVIOUS

LEMMA LengthArithmetic ==
    ASSUME NEW k \in Int, NEW q \in Int, NEW n \in Int
    PROVE  /\ k + 1 - (q - n + 1) = k - q + n
           /\ k - (q - n) = k - q + n
OBVIOUS

LEMMA RestProperties ==
    ASSUME requests \in Seq(Times), NEW n \in 0 .. Len(requests)
    PROVE  /\ Rest(n) \in Seq(Times)
           /\ Len(Rest(n)) = Len(requests) - n
           /\ \A i \in 1 .. Len(requests) - n : Rest(n)[i] = requests[n + i]
<1>1. Len(requests) \in Nat
  BY LenProperties
<1>2. \A i \in n + 1 .. Len(requests) : requests[i] \in Times
  BY <1>1, ElementOfSeq
<1>3. n + 1 \in Int /\ Len(requests) \in Int
  BY <1>1
<1> HIDE DEF Times
<1>4. /\ SubSeq(requests, n + 1, Len(requests)) \in Seq(Times)
      /\ Len(SubSeq(requests, n + 1, Len(requests)))
           = IF n + 1 <= Len(requests) THEN Len(requests) - (n + 1) + 1 ELSE 0
      /\ \A i \in 1 .. Len(requests) - (n + 1) + 1 :
             SubSeq(requests, n + 1, Len(requests))[i] = requests[n + 1 + i - 1]
  BY <1>2, <1>3, SubSeqProperties
<1>5. Len(requests) - (n + 1) + 1 = Len(requests) - n
  BY <1>1
<1>6. Len(Rest(n)) = Len(requests) - n
  <2>1. CASE n + 1 <= Len(requests)
    BY <1>4, <1>5, <2>1 DEF Rest
  <2>2. CASE ~(n + 1 <= Len(requests))
    <3>1. Len(requests) - n = 0
      BY <1>1, <2>2
    <3> QED
      BY <1>4, <2>2, <3>1 DEF Rest
  <2> QED
    BY <2>1, <2>2
<1>7. ASSUME NEW i \in 1 .. Len(requests) - n PROVE Rest(n)[i] = requests[n + i]
  <2>1. i \in 1 .. Len(requests) - (n + 1) + 1 /\ n + 1 + i - 1 = n + i
    BY <1>1
  <2>2. SubSeq(requests, n + 1, Len(requests))[i] = requests[n + 1 + i - 1]
    BY <1>4, <2>1
  <2> QED
    BY <2>1, <2>2 DEF Rest
<1> QED
  BY <1>4, <1>6, <1>7 DEF Rest

LEMMA AdmissionsTyped ==
    ASSUME TypeOK
    PROVE  /\ admissions \in Seq(Admission)
           /\ Len(admissions) \in Nat
           /\ DOMAIN admissions = 1 .. Len(admissions)
           /\ \A i \in 1 .. Len(admissions) : /\ admissions[i].request \in Requests
                                            /\ admissions[i].stamp \in Int
                                            /\ admissions[i].at \in Int
<1>1. admissions \in Seq(Admission)
  BY DEF TypeOK, Admission
<1>2. \A i \in 1 .. Len(admissions) : admissions[i] \in Admission
  BY <1>1, ElementOfSeq
<1> QED
  BY <1>1, <1>2, LenProperties DEF Admission, Times

LEMMA InitIInv == Init => IInv
<1> SUFFICES ASSUME Init PROVE IInv
  OBVIOUS
<1>1. Len(requests) = 0 /\ Len(admissions) = 0 /\ DOMAIN admissions = {}
  BY DEF Init
<1>2. TypeOK
  <2>1. <<>> \in Seq(Times) /\ <<>> \in Seq(Admission)
    OBVIOUS
  <2>2. Absent \in OptionalTokens /\ "new" \in Phases
    BY DEF OptionalTokens, Phases
  <2>3. 0 \in Times /\ 0 <= Limit
    BY AdmissionAssumption DEF Times
  <2> QED
    BY <1>1, <2>1, <2>2, <2>3 DEF Init, TypeOK, Admission
<1>3. QueueIsLatest /\ DroppedIsOld /\ AdmittedInTime /\ RateIsBounded
  BY <1>1 DEF QueueIsLatest, DroppedIsOld, AdmittedInTime, RateIsBounded
<1>4. WaitingInTime /\ WaitingIsAuthorized
  BY DEF Init, WaitingInTime, WaitingIsAuthorized
<1> QED
  BY <1>2, <1>3, <1>4 DEF IInv

-----------------------------------------------------------------------------
(* What one admission and one refusal do to the queue.                     *)

LEMMA AdmitIInv ==
    ASSUME IInv, NEW r \in Requests, NEW n \in 0 .. Len(requests), Admit(r, n)
    PROVE  IInv'
<1> DEFINE q == Len(requests)
           k == Len(admissions)
           new == [request |-> r, stamp |-> stamp[r], at |-> now]
<1>1. /\ requests \in Seq(Times) /\ admissions \in Seq(Admission)
      /\ stamp[r] \in Times /\ now \in Times /\ new \in Admission
      /\ stamp[r] \in Int /\ now \in Int
      /\ q \in Nat /\ k \in Nat /\ n \in Nat
  BY LenProperties DEF IInv, TypeOK, Admission, Times
<1>2. /\ Limit \in Nat /\ Window \in Nat /\ MaxWait \in Nat /\ Times \subseteq Int
  BY AdmissionAssumption DEF Times
<1>3. /\ requests' \in Seq(Times)
      /\ Len(requests') = q - n + 1
      /\ \A i \in 1 .. q - n : requests'[i] = requests[n + i]
      /\ requests'[q - n + 1] = stamp[r]
  <2>1. requests' = Append(Rest(n), stamp[r])
    BY DEF Admit
  <2> QED
    BY <1>1, <2>1, RestProperties, AppendProperties
<1>4. /\ admissions' \in Seq(Admission)
      /\ Len(admissions') = k + 1
      /\ DOMAIN admissions' = 1 .. k + 1
      /\ \A i \in 1 .. k : admissions'[i] = admissions[i]
      /\ admissions'[k + 1] = new
  <2>1. admissions' = Append(admissions, new)
    BY DEF Admit
  <2> QED
    BY <1>1, <2>1, AppendProperties, LenProperties
<1>5. \A i \in 1 .. k : admissions[i] \in Admission
  BY <1>1, ElementOfSeq
<1>6. /\ phase[r] = "waiting" /\ phase' = [phase EXCEPT ![r] = "admitted"]
      /\ stamp' = [stamp EXCEPT ![r] = 0]
      /\ UNCHANGED <<env, now, token>>
  BY DEF Admit, Return, Answer
<1>7. stamp[r] <= now /\ now <= stamp[r] + MaxWait
  BY <1>6 DEF IInv, WaitingInTime
<1>8. q - n < Limit
  <2>1. ~(Len(Rest(n)) >= Limit)
    BY DEF Admit, IsFull
  <2> QED
    BY <1>1, <1>2, <2>1, RestProperties
<1>9. \A i \in 1 .. n : stamp[r] - requests[i] > Window
  BY DEF Admit, Prunes, Expired
<1>10. q <= k /\ \A i \in 1 .. q : requests[i] = admissions[k - q + i].stamp
  BY DEF IInv, QueueIsLatest
<1>11. TypeOK'
  <2>1. phase' \in [Requests -> Phases] /\ stamp' \in [Requests -> Times]
    BY <1>6, AdmissionAssumption DEF IInv, TypeOK, Phases, Times
  <2>2. Len(requests') <= Limit
    BY <1>1, <1>2, <1>3, <1>8
  <2> QED
    BY <1>3, <1>4, <1>6, <2>1, <2>2 DEF IInv, TypeOK, Admission
<1>12. QueueIsLatest'
  <2>1. Len(requests') <= Len(admissions')
    BY <1>1, <1>3, <1>4, <1>10
  <2>2. ASSUME NEW i \in 1 .. q - n + 1
        PROVE  requests'[i] = admissions'[k + 1 - (q - n + 1) + i].stamp
    <3>1. CASE i <= q - n
      <4>1. n + i \in 1 .. q /\ k - q + (n + i) \in 1 .. k
        BY <1>1, <1>10, <3>1
      <4>2. k + 1 - (q - n + 1) + i = k - q + (n + i)
        BY <1>1
      <4>3. requests'[i] = requests[n + i]
        BY <1>1, <1>3, <3>1
      <4>4. requests[n + i] = admissions[k - q + (n + i)].stamp
        BY <1>10, <4>1
      <4>5. admissions'[k - q + (n + i)] = admissions[k - q + (n + i)]
        BY <1>4, <4>1
      <4> QED
        BY <4>2, <4>3, <4>4, <4>5
    <3>2. CASE i = q - n + 1
      <4>1. k + 1 - (q - n + 1) + i = k + 1
        BY <1>1, <3>2
      <4> QED
        BY <1>3, <1>4, <3>2, <4>1
    <3>3. i <= q - n \/ i = q - n + 1
      BY <1>1
    <3> QED
      BY <3>1, <3>2, <3>3
  <2> QED
    BY <1>3, <1>4, <2>1, <2>2 DEF QueueIsLatest
<1>13. \A i \in 1 .. k - q + n : now - admissions[i].stamp > Window
  <2> SUFFICES ASSUME NEW i \in 1 .. k - q + n
               PROVE  now - admissions[i].stamp > Window
    OBVIOUS
  <2>1. i \in 1 .. k /\ admissions[i].stamp \in Int
    BY <1>1, <1>10, AdmissionsTyped DEF IInv
  <2>2. CASE i <= k - q
    BY <1>1, <2>2 DEF IInv, DroppedIsOld
  <2>3. CASE i > k - q
    <3>1. i - (k - q) \in 1 .. n /\ i - (k - q) \in 1 .. q /\ k - q + (i - (k - q)) = i
      BY <1>1, <2>3
    <3>2. stamp[r] - admissions[i].stamp > Window
      BY <1>9, <1>10, <3>1
    <3> QED
      BY <1>1, <1>2, <1>7, <2>1, <3>2
  <2> QED
    BY <1>1, <2>2, <2>3
<1>14. DroppedIsOld'
  <2>1. Len(admissions') - Len(requests') = k - q + n
    <3>1. k \in Int /\ q \in Int /\ n \in Int
      BY <1>1
    <3>2. Len(admissions') = k + 1 /\ Len(requests') = q - n + 1
      BY <1>3, <1>4
    <3> QED
      BY <3>1, <3>2, LengthArithmetic
  <2>2. \A i \in 1 .. k - q + n : admissions'[i] = admissions[i]
    BY <1>1, <1>4
  <2> QED
    BY <1>6, <1>13, <2>1, <2>2 DEF DroppedIsOld
<1>15. AdmittedInTime'
  <2> SUFFICES ASSUME NEW i \in 1 .. k + 1
               PROVE  /\ phase'[admissions'[i].request] = "admitted"
                      /\ admissions'[i].stamp <= admissions'[i].at
                      /\ admissions'[i].at <= admissions'[i].stamp + MaxWait
    BY <1>4 DEF AdmittedInTime
  <2>1. CASE i \in 1 .. k
    <3>1. admissions[i].request \in Requests
      BY <1>5, <2>1 DEF Admission
    <3> QED
      BY <1>4, <1>6, <2>1, <3>1 DEF IInv, TypeOK, AdmittedInTime
  <2>2. CASE i = k + 1
    BY <1>4, <1>6, <1>7, <2>2 DEF IInv, TypeOK
  <2> QED
    BY <1>1, <2>1, <2>2
<1>16. WaitingInTime' /\ WaitingIsAuthorized'
  BY <1>6 DEF IInv, TypeOK, WaitingInTime, WaitingIsAuthorized, Qualifies
<1>17. RateIsBounded'
  <2> SUFFICES ASSUME NEW i \in 1 .. k + 1, NEW j \in 1 .. k + 1, j >= i + Limit
               PROVE  admissions'[j].at - admissions'[i].at > Window - MaxWait
    BY <1>4 DEF RateIsBounded
  <2>1. CASE j <= k
    <3>1. i \in 1 .. k /\ j \in 1 .. k /\ DOMAIN admissions = 1 .. k
      BY <1>1, <1>2, <2>1, LenProperties
    <3> QED
      BY <1>4, <3>1 DEF IInv, RateIsBounded
  <2>2. CASE j = k + 1
    <3>1. i \in 1 .. k - q + n /\ i \in 1 .. k
      BY <1>1, <1>2, <1>8, <1>10, <2>2
    <3>2. now - admissions[i].stamp > Window
      BY <1>13, <3>1
    <3>3. admissions[i].at <= admissions[i].stamp + MaxWait
      BY <3>1 DEF IInv, AdmittedInTime
    <3>4. admissions[i].at \in Int /\ admissions[i].stamp \in Int
      BY <3>1, AdmissionsTyped DEF IInv
    <3>5. admissions'[j].at = now /\ admissions'[i] = admissions[i]
      BY <1>4, <2>2, <3>1
    <3>6. now - admissions[i].at > Window - MaxWait
      <4>1. now \in Int /\ Window \in Int /\ MaxWait \in Int
        BY <1>1, <1>2
      <4> QED
        BY <3>2, <3>3, <3>4, <4>1, WindowArithmetic
    <3> QED
      BY <3>5, <3>6
  <2> QED
    BY <1>1, <2>1, <2>2
<1> QED
  BY <1>11, <1>12, <1>14, <1>15, <1>16, <1>17 DEF IInv

LEMMA RefuseIInv ==
    ASSUME IInv, NEW r \in Requests, NEW n \in 0 .. Len(requests), Refuse(r, n)
    PROVE  IInv'
<1> DEFINE q == Len(requests)
           k == Len(admissions)
<1>1. /\ requests \in Seq(Times) /\ admissions \in Seq(Admission)
      /\ stamp[r] \in Times /\ now \in Times
      /\ stamp[r] \in Int /\ now \in Int
      /\ q \in Nat /\ k \in Nat /\ n \in Nat
  BY LenProperties DEF IInv, TypeOK, Admission, Times
<1>2. /\ Limit \in Nat /\ Window \in Nat /\ MaxWait \in Nat /\ Times \subseteq Int
  BY AdmissionAssumption DEF Times
<1>3. /\ requests' \in Seq(Times)
      /\ Len(requests') = q - n
      /\ \A i \in 1 .. q - n : requests'[i] = requests[n + i]
  <2>1. requests' = Rest(n)
    BY DEF Refuse
  <2> QED
    BY <1>1, <2>1, RestProperties
<1>4. \A i \in 1 .. k : admissions[i] \in Admission
  BY <1>1, ElementOfSeq
<1>5. /\ phase[r] = "waiting" /\ phase' = [phase EXCEPT ![r] = "limited"]
      /\ stamp' = [stamp EXCEPT ![r] = 0]
      /\ UNCHANGED <<env, now, token, admissions>>
  BY DEF Refuse, Return, Answer
<1>6. stamp[r] <= now
  BY <1>5 DEF IInv, WaitingInTime
<1>7. \A i \in 1 .. n : stamp[r] - requests[i] > Window
  BY DEF Refuse, Prunes, Expired
<1>8. q <= k /\ \A i \in 1 .. q : requests[i] = admissions[k - q + i].stamp
  BY DEF IInv, QueueIsLatest
<1>9. TypeOK'
  <2>1. phase' \in [Requests -> Phases] /\ stamp' \in [Requests -> Times]
    BY <1>5, AdmissionAssumption DEF IInv, TypeOK, Phases, Times
  <2>2. Len(requests') <= Limit
    BY <1>1, <1>2, <1>3 DEF IInv, TypeOK
  <2> QED
    BY <1>3, <1>5, <2>1, <2>2 DEF IInv, TypeOK
<1>10. QueueIsLatest'
  <2>1. Len(requests') <= Len(admissions')
    BY <1>1, <1>3, <1>5, <1>8
  <2>2. ASSUME NEW i \in 1 .. q - n
        PROVE  requests'[i] = admissions[k - (q - n) + i].stamp
    <3>1. n + i \in 1 .. q /\ k - (q - n) + i = k - q + (n + i)
      BY <1>1
    <3> QED
      BY <1>3, <1>8, <3>1
  <2> QED
    BY <1>3, <1>5, <2>1, <2>2 DEF QueueIsLatest
<1>11. DroppedIsOld'
  <2> SUFFICES ASSUME NEW i \in 1 .. k - (q - n)
               PROVE  now - admissions[i].stamp > Window
    BY <1>3, <1>5 DEF DroppedIsOld
  <2>1. i \in 1 .. k /\ admissions[i].stamp \in Int
    BY <1>1, <1>8, AdmissionsTyped DEF IInv
  <2>2. CASE i <= k - q
    BY <1>1, <2>2 DEF IInv, DroppedIsOld
  <2>3. CASE i > k - q
    <3>1. i - (k - q) \in 1 .. n /\ i - (k - q) \in 1 .. q /\ k - q + (i - (k - q)) = i
      BY <1>1, <2>3
    <3>2. stamp[r] - admissions[i].stamp > Window
      BY <1>7, <1>8, <3>1
    <3> QED
      BY <1>1, <1>2, <1>6, <2>1, <3>2
  <2> QED
    BY <1>1, <2>2, <2>3
<1>12. AdmittedInTime'
  <2>1. \A i \in 1 .. k : admissions[i].request \in Requests
    BY <1>4 DEF Admission
  <2> QED
    BY <1>5, <2>1 DEF IInv, TypeOK, AdmittedInTime
<1>13. WaitingInTime' /\ WaitingIsAuthorized'
  BY <1>5 DEF IInv, TypeOK, WaitingInTime, WaitingIsAuthorized, Qualifies
<1>14. RateIsBounded'
  BY <1>5 DEF IInv, RateIsBounded
<1> QED
  BY <1>9, <1>10, <1>11, <1>12, <1>13, <1>14 DEF IInv

-----------------------------------------------------------------------------

LEMMA AuthorizedQualifies ==
    ASSUME TypeOK, NEW headers \in Headers, Enabled, Authorized(headers)
    PROVE  Qualifies(Supplied(headers))
<1>1. env.sha256 \in {Absent, Present("hashed")} /\ env.plain \in {Absent, Present("plain")}
  BY DEF TypeOK, Environments
<1>2. CASE env.sha256 # Absent
  BY <1>2 DEF Authorized, ExpectedToken, Qualifies
<1>3. CASE env.sha256 = Absent /\ env.plain # Absent
  BY <1>3 DEF Authorized, ExpectedToken, Qualifies
<1>4. CASE env.sha256 = Absent /\ env.plain = Absent
  BY <1>4 DEF Enabled, ExpectedToken, Qualifies
<1> QED
  BY <1>2, <1>3, <1>4

\* A step that leaves clock, queue and history alone and moves one request, which
\* is not among the admitted, to another phase.
LEMMA AnswerIInv ==
    ASSUME IInv, NEW r \in Requests, phase[r] # "admitted",
           NEW kind \in Phases, Answer(r, kind),
           stamp' \in [Requests -> Times], token' \in [Requests -> OptionalTokens],
           UNCHANGED <<env, now, requests, admissions>>,
           WaitingInTime', WaitingIsAuthorized'
    PROVE  IInv'
<1>1. phase' = [phase EXCEPT ![r] = kind]
  BY DEF Answer
<1>2. TypeOK'
  BY <1>1 DEF IInv, TypeOK
<1>3. QueueIsLatest' /\ DroppedIsOld' /\ RateIsBounded'
  BY DEF IInv, QueueIsLatest, DroppedIsOld, RateIsBounded
<1>4. AdmittedInTime'
  <2>1. \A i \in 1 .. Len(admissions) : admissions[i].request \in Requests
    BY AdmissionsTyped DEF IInv
  <2> QED
    BY <1>1, <2>1 DEF IInv, TypeOK, AdmittedInTime
<1> QED
  BY <1>2, <1>3, <1>4 DEF IInv

LEMMA TickIInv == ASSUME IInv, Tick PROVE IInv'
<1>1. /\ now \in Nat /\ now < MaxTime /\ now' = now + 1
      /\ UNCHANGED <<env, phase, stamp, token, requests, admissions>>
  BY DEF IInv, TypeOK, Times, Tick
<1>2. MaxTime \in Nat /\ Window \in Nat /\ MaxWait \in Nat
  BY AdmissionAssumption
<1>3. TypeOK'
  BY <1>1, <1>2 DEF IInv, TypeOK, Times
<1>4. QueueIsLatest' /\ AdmittedInTime' /\ RateIsBounded' /\ WaitingIsAuthorized'
  BY <1>1 DEF IInv, QueueIsLatest, AdmittedInTime, RateIsBounded, WaitingIsAuthorized, Qualifies
<1>5. DroppedIsOld'
  <2>1. Len(admissions) \in Nat /\ Len(requests) \in Nat
    BY AdmissionsTyped, LenProperties DEF IInv, TypeOK
  <2>2. ASSUME NEW i \in 1 .. Len(admissions) - Len(requests)
        PROVE  now' - admissions'[i].stamp > Window
    <3>1. admissions'[i].stamp = admissions[i].stamp /\ admissions[i].stamp \in Int
      BY <1>1, <2>1, AdmissionsTyped DEF IInv
    <3>2. now - admissions[i].stamp > Window
      BY DEF IInv, DroppedIsOld
    <3>3. now + 1 - admissions[i].stamp > Window
      BY <1>1, <1>2, <3>1, <3>2
    <3> QED
      BY <1>1, <3>1, <3>3
  <2> QED
    BY <1>1, <2>2 DEF DroppedIsOld
<1>6. WaitingInTime'
  <2> SUFFICES ASSUME NEW r \in Requests, phase[r] = "waiting"
               PROVE  stamp[r] <= now + 1 /\ now + 1 <= stamp[r] + MaxWait
    BY <1>1 DEF WaitingInTime
  <2>1. stamp[r] \in Int /\ stamp[r] <= now /\ now < stamp[r] + MaxWait
    BY DEF Tick, IInv, TypeOK, Times, WaitingInTime
  <2> QED
    BY <1>1, <1>2, <2>1
<1> QED
  BY <1>3, <1>4, <1>5, <1>6 DEF IInv

LEMMA NextIInv == IInv /\ [Next]_vars => IInv'
<1> SUFFICES ASSUME IInv, [Next]_vars PROVE IInv'
  OBVIOUS
<1>0. /\ phase \in [Requests -> Phases] /\ stamp \in [Requests -> Times]
      /\ token \in [Requests -> OptionalTokens] /\ now \in Times /\ TypeOK
  BY DEF IInv, TypeOK
<1>1. CASE Tick
  BY <1>1, TickIInv
<1>2. ASSUME NEW r \in Requests, Unavailable(r) PROVE IInv'
  <2>1. "unavailable" \in Phases /\ Answer(r, "unavailable") /\ phase[r] # "admitted"
    BY <1>2 DEF Unavailable, Phases
  <2>2. UNCHANGED <<env, now, stamp, token, requests, admissions>>
    BY <1>2 DEF Unavailable
  <2>3. WaitingInTime' /\ WaitingIsAuthorized'
    BY <1>0, <2>1, <2>2 DEF IInv, WaitingInTime, WaitingIsAuthorized, Qualifies, Answer
  <2> QED
    BY <1>0, <2>1, <2>2, <2>3, AnswerIInv
<1>3. ASSUME NEW r \in Requests, NEW headers \in Headers, Unauthorized(r, headers) PROVE IInv'
  <2>1. "unauthorized" \in Phases /\ Answer(r, "unauthorized") /\ phase[r] # "admitted"
    BY <1>3 DEF Unauthorized, Phases
  <2>2. UNCHANGED <<env, now, stamp, token, requests, admissions>>
    BY <1>3 DEF Unauthorized
  <2>3. WaitingInTime' /\ WaitingIsAuthorized'
    BY <1>0, <2>1, <2>2 DEF IInv, WaitingInTime, WaitingIsAuthorized, Qualifies, Answer
  <2> QED
    BY <1>0, <2>1, <2>2, <2>3, AnswerIInv
<1>4. ASSUME NEW r \in Requests, NEW headers \in Headers, Stamp(r, headers) PROVE IInv'
  <2>1. "waiting" \in Phases /\ Answer(r, "waiting") /\ phase[r] # "admitted"
    BY <1>4 DEF Stamp, Phases
  <2>2. /\ UNCHANGED <<env, now, requests, admissions>>
        /\ stamp' = [stamp EXCEPT ![r] = now]
        /\ token' = [token EXCEPT ![r] = Supplied(headers)]
    BY <1>4 DEF Stamp
  <2>3. Supplied(headers) \in OptionalTokens
    BY DEF Supplied, Headers
  <2>4. WaitingInTime'
    <3>1. \A t \in Times : t <= t /\ t <= t + MaxWait
      BY AdmissionAssumption DEF Times
    <3> QED
      BY <1>0, <2>1, <2>2, <3>1 DEF IInv, WaitingInTime, Answer
  <2>5. WaitingIsAuthorized'
    <3>1. Qualifies(Supplied(headers))
      BY <1>0, <1>4, AuthorizedQualifies DEF Stamp
    <3> QED
      BY <1>0, <2>1, <2>2, <3>1 DEF IInv, WaitingIsAuthorized, Qualifies, Answer
  <2> QED
    BY <1>0, <2>1, <2>2, <2>3, <2>4, <2>5, AnswerIInv
<1>5. ASSUME NEW r \in Requests, NEW n \in 0 .. Len(requests), Admit(r, n) PROVE IInv'
  BY <1>5, AdmitIInv
<1>6. ASSUME NEW r \in Requests, NEW n \in 0 .. Len(requests), Refuse(r, n) PROVE IInv'
  BY <1>6, RefuseIInv
<1>7. ASSUME NEW r \in Requests, Leave(r) PROVE IInv'
  <2>1. "gone" \in Phases /\ Answer(r, "gone") /\ phase[r] # "admitted"
    BY <1>7 DEF Leave, Return, Phases
  <2>2. /\ UNCHANGED <<env, now, token, requests, admissions>>
        /\ stamp' = [stamp EXCEPT ![r] = 0]
    BY <1>7 DEF Leave, Return
  <2>3. stamp' \in [Requests -> Times]
    BY <1>0, <2>2, AdmissionAssumption DEF Times
  <2>4. WaitingInTime' /\ WaitingIsAuthorized'
    BY <1>0, <2>1, <2>2 DEF IInv, WaitingInTime, WaitingIsAuthorized, Qualifies, Answer
  <2> QED
    BY <1>0, <2>1, <2>2, <2>3, <2>4, AnswerIInv
<1>8. CASE UNCHANGED vars
  BY <1>8 DEF vars, IInv, TypeOK, QueueIsLatest, DroppedIsOld, AdmittedInTime, WaitingInTime,
     WaitingIsAuthorized, Qualifies, RateIsBounded
<1> QED
  BY <1>1, <1>2, <1>3, <1>4, <1>5, <1>6, <1>7, <1>8 DEF Next, Handle

LEMMA Invariance == Spec => []IInv
BY InitIInv, NextIInv, PTL DEF Spec

\* Every variable keeps its type and the queue never outgrows the limit
\* (server.rs, authorize_manual_evaluate).
THEOREM AdmissionTypes == Spec => []TypeOK
<1>1. IInv => TypeOK
  BY DEF IInv
<1> QED
  BY <1>1, Invariance, PTL

\* However long handlers wait for the lock, up to MaxWait, and in whatever order
\* they get it, more than Limit admissions take more than Window - MaxWait
\* (server.rs, authorize_manual_evaluate).
THEOREM RateBound == Spec => []RateIsBounded
<1>1. IInv => RateIsBounded
  BY DEF IInv
<1> QED
  BY <1>1, Invariance, PTL

\* Only operators are admitted where a token is configured, and nobody where
\* neither a token nor unauthenticated use is (server.rs,
\* authorize_manual_evaluate; config.rs, Config::from_env).
THEOREM OnlyAuthorizedAdmitted == Spec => []AdmittedIsAuthorized
<1>1. ASSUME IInv PROVE AdmittedIsAuthorized
  <2>1. /\ DOMAIN admissions = 1 .. Len(admissions)
        /\ \A i \in 1 .. Len(admissions) : admissions[i].request \in Requests
    BY <1>1, AdmissionsTyped DEF IInv
  <2> SUFFICES ASSUME NEW i \in 1 .. Len(admissions)
               PROVE  Qualifies(token[admissions[i].request])
    BY <2>1 DEF AdmittedIsAuthorized, Qualifies
  <2> QED
    BY <1>1, <2>1 DEF IInv, AdmittedInTime, WaitingIsAuthorized
<1> QED
  BY <1>1, Invariance, PTL

LEMMA RefusalStep == IInv /\ IInv' /\ [Next]_vars => [RefusalIsEarned]_vars
<1> SUFFICES ASSUME IInv, Next, NEW r \in Requests,
                    phase[r] = "waiting", phase'[r] = "limited", Limit # 0
             PROVE  /\ Len(admissions) >= Limit
                    /\ now - admissions[Len(admissions) - Limit + 1].at <= Window + MaxWait
  BY DEF RefusalIsEarned
<1>0. phase \in [Requests -> Phases]
  BY DEF IInv, TypeOK
<1>1. PICK n \in 0 .. Len(requests) : Refuse(r, n)
  BY <1>0 DEF Next, Handle, Tick, Unavailable, Unauthorized, Stamp, Admit, Refuse, Leave, Return, Answer
<1> DEFINE q == Len(requests)
           k == Len(admissions)
<1>2. /\ requests \in Seq(Times) /\ admissions \in Seq(Admission)
      /\ stamp[r] \in Int /\ now \in Int /\ q \in Nat /\ k \in Nat /\ n \in Nat /\ q <= Limit
      /\ Limit \in Nat /\ Window \in Nat /\ MaxWait \in Nat
  BY LenProperties, AdmissionAssumption DEF IInv, TypeOK, Admission, Times
<1>3. q - n >= Limit
  BY <1>1, <1>2, RestProperties DEF Refuse, IsFull
<1>4. n = 0 /\ q = Limit
  BY <1>2, <1>3
<1>5. 1 \in 1 .. q /\ k - Limit + 1 \in 1 .. k /\ Limit <= k
  BY <1>2, <1>4 DEF IInv, QueueIsLatest
<1>6. requests[1] = admissions[k - Limit + 1].stamp
  BY <1>4, <1>5 DEF IInv, QueueIsLatest
<1>7. ~(stamp[r] - requests[1] > Window)
  BY <1>1, <1>2, <1>4, <1>5 DEF Refuse, Prunes, Expired
<1>8. /\ admissions[k - Limit + 1].stamp \in Int /\ admissions[k - Limit + 1].at \in Int
      /\ admissions[k - Limit + 1].stamp <= admissions[k - Limit + 1].at
  BY <1>5, AdmissionsTyped DEF IInv, AdmittedInTime
<1>9. now <= stamp[r] + MaxWait
  BY DEF IInv, WaitingInTime
<1>10. now - admissions[k - Limit + 1].at <= Window + MaxWait
  <2>1. Window \in Int /\ MaxWait \in Int /\ now \in Int /\ stamp[r] \in Int
    BY <1>2
  <2>2. ~(stamp[r] - admissions[k - Limit + 1].stamp > Window)
    BY <1>6, <1>7
  <2> QED
    BY <1>8, <1>9, <2>1, <2>2, RefusalArithmetic
<1> QED
  BY <1>5, <1>10

\* A request is refused only when the budget of the last Window + MaxWait is
\* really spent (server.rs, authorize_manual_evaluate).
THEOREM RefusalsEarned == Spec => RefusalsAreEarned
BY Invariance, RefusalStep, PTL DEF Spec, RefusalsAreEarned

-----------------------------------------------------------------------------
(* The limiter implements SlidingWindow: what the queue holds is counted.  *)

\* The admissions are in the order of their times, each of another request.
AdmissionsInOrder ==
    \A i \in 1 .. Len(admissions) :
        /\ admissions[i].at <= now
        /\ \A j \in 1 .. i - 1 :
               /\ admissions[j].at <= admissions[i].at
               /\ admissions[j].request # admissions[i].request

\* What an admission does to the history.
LEMMA AdmitFields ==
    ASSUME TypeOK, NEW r \in Requests, NEW n \in 0 .. Len(requests), Admit(r, n)
    PROVE  /\ Len(admissions) \in Nat /\ Len(admissions') = Len(admissions) + 1
           /\ DOMAIN admissions' = 1 .. Len(admissions) + 1
           /\ \A i \in 1 .. Len(admissions) : admissions'[i] = admissions[i]
           /\ admissions'[Len(admissions) + 1].request = r
           /\ admissions'[Len(admissions) + 1].at = now
<1>1. admissions \in Seq(Admission) /\ [request |-> r, stamp |-> stamp[r], at |-> now] \in Admission
  BY DEF TypeOK, Admission
<1>2. admissions' = Append(admissions, [request |-> r, stamp |-> stamp[r], at |-> now])
  BY DEF Admit
<1> QED
  BY <1>1, <1>2, AppendProperties, LenProperties

LEMMA NextInOrder == IInv /\ AdmissionsInOrder /\ [Next]_vars => AdmissionsInOrder'
<1> SUFFICES ASSUME IInv, AdmissionsInOrder, [Next]_vars PROVE AdmissionsInOrder'
  OBVIOUS
<1>0. /\ TypeOK /\ now \in Nat /\ Len(admissions) \in Nat
      /\ \A i \in 1 .. Len(admissions) : admissions[i].at \in Int
      /\ \A i \in 1 .. Len(admissions) : phase[admissions[i].request] = "admitted"
  BY AdmissionsTyped DEF IInv, TypeOK, Times, AdmittedInTime
<1>1. CASE UNCHANGED <<now, admissions>>
  BY <1>1 DEF AdmissionsInOrder
<1>2. CASE Tick
  <2>1. now' = now + 1 /\ UNCHANGED admissions
    BY <1>2 DEF Tick
  <2> QED
    BY <1>0, <2>1 DEF AdmissionsInOrder
<1>3. ASSUME NEW r \in Requests, NEW n \in 0 .. Len(requests), Admit(r, n)
      PROVE  AdmissionsInOrder'
  <2>1. phase[r] = "waiting" /\ UNCHANGED now
    BY <1>3 DEF Admit
  <2> DEFINE k == Len(admissions)
  <2>2. /\ Len(admissions') = k + 1 /\ \A i \in 1 .. k : admissions'[i] = admissions[i]
        /\ admissions'[k + 1].at = now /\ admissions'[k + 1].request = r
    <3>1. TypeOK /\ Admit(r, n)
      BY <1>0, <1>3
    <3> QED
      BY <3>1, AdmitFields
  <2>3. ASSUME NEW i \in 1 .. k
        PROVE  /\ admissions'[i].at <= now'
               /\ \A j \in 1 .. i - 1 : /\ admissions'[j].at <= admissions'[i].at
                                        /\ admissions'[j].request # admissions'[i].request
    <3>1. \A j \in 1 .. i - 1 : j \in 1 .. k
      BY <1>0
    <3> QED
      BY <2>1, <2>2, <3>1 DEF AdmissionsInOrder
  <2>4. ASSUME NEW j \in 1 .. k
        PROVE  /\ admissions'[j].at <= admissions'[k + 1].at
               /\ admissions'[j].request # admissions'[k + 1].request
    <3>1. admissions[j].at <= now /\ admissions[j].request # r
      BY <1>0, <2>1 DEF AdmissionsInOrder
    <3> QED
      BY <2>2, <3>1
  <2>5. admissions'[k + 1].at <= now' /\ (k + 1) - 1 = k
    BY <1>0, <2>1, <2>2
  <2>6. \A i \in 1 .. k + 1 : i \in 1 .. k \/ i = k + 1
    BY <1>0
  <2> QED
    BY <2>2, <2>3, <2>4, <2>5, <2>6 DEF AdmissionsInOrder
<1> QED
  BY <1>1, <1>2, <1>3
  DEF Next, Handle, Unavailable, Unauthorized, Stamp, Refuse, Leave, vars

\* The admissions of the last `duration', as SlidingWindow counts them.
Latest(duration) == {a \in {LetIn(i) : i \in DOMAIN admissions} : now - a.at <= duration}

LEMMA LatelyCounts == \A duration : Limiter!Lately(duration) = Cardinality(Latest(duration))
BY DEF Limiter!Lately, Latest, Limiter!Cardinality, Cardinality

LEMMA LatestIsFinite ==
    ASSUME TypeOK, NEW duration
    PROVE  IsFiniteSet(Latest(duration)) /\ Cardinality(Latest(duration)) \in Nat
<1> DEFINE all == {LetIn(i) : i \in DOMAIN admissions}
           f == [i \in 1 .. Len(admissions) |-> LetIn(i)]
<1>1. DOMAIN admissions = 1 .. Len(admissions) /\ Len(admissions) \in Nat
  BY AdmissionsTyped
<1>2. f \in Surjection(1 .. Len(admissions), all)
  BY <1>1 DEF Surjection
<1>3. IsFiniteSet(1 .. Len(admissions))
  BY <1>1, FS_Interval
<1> HIDE DEF f
<1>4. IsFiniteSet(all)
  BY <1>2, <1>3, FS_Surjection
<1>5. Latest(duration) \in SUBSET all
  BY DEF Latest
<1> HIDE DEF all
<1> QED
  BY <1>4, <1>5, FS_Subset, FS_CardinalityType

\* Where all admissions but the latest m are older than a duration, no more than m
\* are counted in it.
LEMMA FewAreLate ==
    ASSUME TypeOK, NEW duration \in Int, NEW m \in Nat,
           \A i \in 1 .. Len(admissions) : i <= Len(admissions) - m => now - admissions[i].at > duration
    PROVE  Cardinality(Latest(duration)) <= m
<1> DEFINE k == Len(admissions)
           places == {i \in k - m + 1 .. k : i >= 1}
           late == {LetIn(i) : i \in places}
           f == [i \in places |-> LetIn(i)]
<1>1. /\ DOMAIN admissions = 1 .. k /\ k \in Nat /\ now \in Int
      /\ \A i \in 1 .. k : admissions[i].at \in Int
  BY AdmissionsTyped DEF TypeOK, Times
<1>2. IsFiniteSet(k - m + 1 .. k) /\ Cardinality(k - m + 1 .. k) = m
  <2>1. k - m + 1 \in Int /\ k \in Int
    BY <1>1
  <2>2. (IF k - m + 1 > k THEN 0 ELSE k - (k - m + 1) + 1) = m
    BY <1>1
  <2> QED
    BY <2>1, <2>2, FS_Interval
<1>3. IsFiniteSet(places) /\ Cardinality(places) <= m /\ Cardinality(places) \in Nat
  <2>1. places \in SUBSET (k - m + 1 .. k)
    OBVIOUS
  <2> QED
    BY <1>2, <2>1, FS_Subset, FS_CardinalityType
<1>4. f \in Surjection(places, late)
  BY DEF Surjection
<1>5. Latest(duration) \in SUBSET late
  <2> SUFFICES ASSUME NEW a \in Latest(duration) PROVE a \in late
    OBVIOUS
  <2>1. PICK i \in 1 .. k : a = LetIn(i) /\ now - a.at <= duration
    BY <1>1 DEF Latest
  <2>2. a.at = admissions[i].at
    BY <2>1 DEF LetIn
  <2>3. ~(i <= k - m)
    BY <1>1, <2>1, <2>2
  <2>4. i \in places
    BY <1>1, <2>3
  <2> QED
    BY <2>1, <2>4
<1> HIDE DEF f, late, places
<1>6. IsFiniteSet(late) /\ Cardinality(late) <= Cardinality(places)
  BY <1>3, <1>4, FS_Surjection
<1>7. Cardinality(Latest(duration)) <= Cardinality(late)
  BY <1>5, <1>6, FS_Subset
<1>8. Cardinality(late) \in Nat /\ Cardinality(Latest(duration)) \in Nat
  BY <1>6, FS_CardinalityType, LatestIsFinite
<1> QED
  BY <1>3, <1>6, <1>7, <1>8

\* Where the latest m admissions are all of a duration, at least m are counted in it.
LEMMA ManyAreLate ==
    ASSUME TypeOK, AdmissionsInOrder, NEW duration \in Int, NEW m \in Nat,
           m <= Len(admissions),
           \A i \in 1 .. Len(admissions) : i > Len(admissions) - m => now - admissions[i].at <= duration
    PROVE  Cardinality(Latest(duration)) >= m
<1> DEFINE k == Len(admissions)
           places == k - m + 1 .. k
           f == [i \in places |-> LetIn(i)]
<1>1. /\ DOMAIN admissions = 1 .. k /\ k \in Nat
      /\ \A i \in places : i \in 1 .. k /\ i > k - m
  BY AdmissionsTyped
<1>2. Cardinality(places) = m
  <2>1. k - m + 1 \in Int /\ k \in Int
    BY <1>1
  <2>2. (IF k - m + 1 > k THEN 0 ELSE k - (k - m + 1) + 1) = m
    BY <1>1
  <2> QED
    BY <2>1, <2>2, FS_Interval
<1>3. ASSUME NEW i \in places PROVE LetIn(i) \in Latest(duration)
  BY <1>1, <1>3 DEF Latest, LetIn
<1>4. ASSUME NEW i \in places, NEW j \in places, LetIn(i) = LetIn(j) PROVE i = j
  <2>1. admissions[i].request = admissions[j].request
    BY <1>4 DEF LetIn
  <2>2. i < j => i \in 1 .. j - 1
    BY <1>1, <1>4
  <2>3. j < i => j \in 1 .. i - 1
    BY <1>1, <1>4
  <2>4. ~(i < j) /\ ~(j < i)
    BY <1>1, <1>4, <2>1, <2>2, <2>3 DEF AdmissionsInOrder
  <2> QED
    BY <1>1, <1>4, <2>4
<1>5. f \in Injection(places, Latest(duration))
  BY <1>3, <1>4 DEF Injection, IsInjective
<1> HIDE DEF f, places
<1> QED
  BY <1>2, <1>5, LatestIsFinite, FS_Injection

LEMMA LimiterInit == Init => Limiter!Init
<1> SUFFICES ASSUME Init PROVE Limiter!Init
  OBVIOUS
<1>1. DOMAIN admissions = {} /\ now = 0
  BY DEF Init
<1>2. \A r \in Requests : Told(phase[r]) = "none"
  BY DEF Init, Told
<1> QED
  BY <1>1, <1>2 DEF Limiter!Init

\* A request that is given its answer is told what the answer stands for.
LEMMA AnswerTells ==
    ASSUME TypeOK, NEW r \in Requests, NEW kind \in Phases, phase[r] \in {"new", "waiting"},
           Answer(r, kind), UNCHANGED now
    PROVE  Limiter!Tell(r, Told(kind))
<1>1. phase \in [Requests -> Phases] /\ phase' = [phase EXCEPT ![r] = kind]
  BY DEF TypeOK, Answer
<1>2. Told(phase[r]) = "none"
  BY DEF Told
<1>3. [p \in Requests |-> Told(phase'[p])]
        = [[p \in Requests |-> Told(phase[p])] EXCEPT ![r] = Told(kind)]
  BY <1>1
<1> QED
  BY <1>2, <1>3 DEF Limiter!Tell

LEMMA LimiterAdmit ==
    ASSUME IInv, RateIsBounded', NEW r \in Requests, NEW n \in 0 .. Len(requests), Admit(r, n)
    PROVE  Limiter!Admit(r)
<1> DEFINE k == Len(admissions)
<1>0. /\ TypeOK /\ Limit \in Nat /\ Window - MaxWait \in Int /\ k \in Nat
      /\ requests \in Seq(Times) /\ Len(requests) \in Nat /\ n \in Nat
      /\ DOMAIN admissions = 1 .. k
  BY AdmissionAssumption, AdmissionsTyped, LenProperties DEF IInv, TypeOK
<1>1. phase[r] = "waiting" /\ Answer(r, "admitted") /\ UNCHANGED now
  BY DEF Admit, Return
<1> HIDE DEF k
<1>8. /\ k \in Nat /\ Len(admissions') = k + 1 /\ DOMAIN admissions' = 1 .. k + 1
      /\ \A i \in 1 .. k : admissions'[i] = admissions[i]
      /\ admissions'[k + 1].request = r /\ admissions'[k + 1].at = now
  <2>1. TypeOK
    BY <1>0
  <2> QED
    BY <2>1, AdmitFields DEF k
<1>2. Limiter!Tell(r, "admitted")
  BY <1>0, <1>1, AnswerTells DEF Told, Phases
<1>3. Limit - 1 \in Nat
  <2>1. Len(Rest(n)) = Len(requests) - n /\ ~(Len(Rest(n)) >= Limit)
    BY <1>0, RestProperties DEF Admit, IsFull
  <2> QED
    BY <1>0, <2>1
<1>4. \A i \in 1 .. k : i <= k - (Limit - 1) => now - admissions[i].at > Window - MaxWait
  <2> SUFFICES ASSUME NEW i \in 1 .. k, i <= k - (Limit - 1)
               PROVE  now - admissions[i].at > Window - MaxWait
    OBVIOUS
  <2>1. i \in 1 .. k + 1 /\ k + 1 \in 1 .. k + 1 /\ k + 1 >= i + Limit
    BY <1>0
  <2>2. admissions'[k + 1].at - admissions'[i].at > Window - MaxWait
    BY <1>8, <2>1 DEF RateIsBounded
  <2> QED
    BY <1>8, <2>2
<1>5. Cardinality(Latest(Window - MaxWait)) <= Limit - 1
  BY <1>0, <1>3, <1>4, FewAreLate DEF k
<1>6. Cardinality(Latest(Window - MaxWait)) < Limit
  BY <1>0, <1>3, <1>5, LatestIsFinite
<1>7. {LetIn(i) : i \in DOMAIN admissions}'
        = {LetIn(i) : i \in DOMAIN admissions} \union {[request |-> r, at |-> now]}
  <2>1. \A i \in 1 .. k + 1 : i \in 1 .. k \/ i = k + 1
    BY <1>0
  <2>2. \A i \in 1 .. k : i \in 1 .. k + 1 /\ LetIn(i)' = LetIn(i)
    BY <1>8 DEF LetIn
  <2>3. \A i : i = k + 1 => LetIn(i)' = [request |-> r, at |-> now] /\ i \in 1 .. k + 1
    BY <1>8 DEF LetIn
  <2> QED
    BY <1>0, <1>8, <2>1, <2>2, <2>3
<1> QED
  BY <1>2, <1>6, <1>7, LatelyCounts DEF Limiter!Admit

LEMMA LimiterRefuse ==
    ASSUME IInv, AdmissionsInOrder, RefusalIsEarned,
           NEW r \in Requests, NEW n \in 0 .. Len(requests), Refuse(r, n)
    PROVE  Limiter!Refuse(r)
<1> DEFINE k == Len(admissions)
<1>0. /\ TypeOK /\ Limit \in Nat /\ Window + MaxWait \in Int /\ k \in Nat /\ now \in Int
      /\ \A i \in 1 .. k : admissions[i].at \in Int
  BY AdmissionAssumption, AdmissionsTyped DEF IInv, TypeOK, Times
<1>1. phase[r] = "waiting" /\ Answer(r, "limited") /\ UNCHANGED <<now, admissions>>
  BY DEF Refuse, Return
<1>2. Limiter!Tell(r, "refused")
  BY <1>0, <1>1, AnswerTells DEF Told, Phases
<1>3. phase'[r] = "limited"
  BY <1>0, <1>1 DEF Answer, TypeOK
<1>4. ASSUME Limit = 0 PROVE Cardinality(Latest(Window + MaxWait)) >= Limit
  BY <1>0, <1>4, LatestIsFinite
<1>5. ASSUME Limit # 0 PROVE Cardinality(Latest(Window + MaxWait)) >= Limit
  <2>1. /\ k >= Limit
        /\ now - admissions[k - Limit + 1].at <= Window + MaxWait
    BY <1>1, <1>3, <1>5 DEF RefusalIsEarned
  <2>2. ASSUME NEW i \in 1 .. k, i > k - Limit
        PROVE  now - admissions[i].at <= Window + MaxWait
    <3>1. k - Limit + 1 \in 1 .. k /\ (i = k - Limit + 1 \/ k - Limit + 1 \in 1 .. i - 1)
      BY <1>0, <1>5, <2>1, <2>2
    <3>2. CASE i = k - Limit + 1
      BY <2>1, <3>2
    <3>3. CASE k - Limit + 1 \in 1 .. i - 1
      <4>1. admissions[k - Limit + 1].at <= admissions[i].at
        BY <3>3 DEF AdmissionsInOrder
      <4>2. admissions[k - Limit + 1].at \in Int /\ admissions[i].at \in Int
        BY <1>0, <3>1
      <4> QED
        BY <1>0, <2>1, <4>1, <4>2
    <3> QED
      BY <3>1, <3>2, <3>3
  <2> QED
    BY <1>0, <2>1, <2>2, ManyAreLate
<1>6. Cardinality(Latest(Window + MaxWait)) >= Limit
  BY <1>4, <1>5
<1>7. UNCHANGED {LetIn(i) : i \in DOMAIN admissions}
  BY <1>1 DEF LetIn
<1> QED
  BY <1>2, <1>6, <1>7, LatelyCounts DEF Limiter!Refuse

\* A request answered before it reaches the queue, or left, is turned away.
LEMMA LimiterTurnAway ==
    ASSUME TypeOK, NEW r \in Requests, NEW kind \in {"unavailable", "unauthorized", "gone"},
           phase[r] \in {"new", "waiting"}, Answer(r, kind), UNCHANGED <<now, admissions>>
    PROVE  Limiter!TurnAway(r)
<1>1. kind \in Phases /\ Told(kind) = "turned away"
  BY DEF Phases, Told
<1>2. Limiter!Tell(r, "turned away")
  BY <1>1, AnswerTells
<1>3. UNCHANGED {LetIn(i) : i \in DOMAIN admissions}
  BY DEF LetIn
<1> QED
  BY <1>2, <1>3 DEF Limiter!TurnAway

LEMMA LimiterStep ==
    ASSUME IInv, AdmissionsInOrder, RateIsBounded', [RefusalIsEarned]_vars, [Next]_vars
    PROVE  [Limiter!Next]_(Limiter!vars)
<1>0. TypeOK
  BY DEF IInv
<1>1. CASE UNCHANGED vars
  <2>1. UNCHANGED <<now, phase, admissions>>
    BY <1>1 DEF vars
  <2> QED
    BY <2>1 DEF Limiter!vars, LetIn
<1>2. CASE Tick
  <2>1. now' = now + 1 /\ UNCHANGED <<phase, admissions>>
    BY <1>2 DEF Tick
  <2> QED
    BY <2>1 DEF Limiter!Next, Limiter!Tick, LetIn
<1>3. ASSUME NEW r \in Requests, NEW headers \in Headers,
             Unavailable(r) \/ Unauthorized(r, headers) \/ Leave(r)
      PROVE  Limiter!Next
  BY <1>0, <1>3, LimiterTurnAway DEF Unavailable, Unauthorized, Leave, Return, Limiter!Next
<1>4. ASSUME NEW r \in Requests, NEW headers \in Headers, Stamp(r, headers)
      PROVE  UNCHANGED Limiter!vars
  <2>1. /\ UNCHANGED <<now, admissions>> /\ phase[r] = "new"
        /\ phase' = [phase EXCEPT ![r] = "waiting"]
    BY <1>4 DEF Stamp, Answer
  <2>2. \A p \in Requests : Told(phase'[p]) = Told(phase[p])
    BY <1>0, <2>1 DEF Told, TypeOK
  <2> QED
    BY <2>1, <2>2 DEF Limiter!vars, LetIn
<1>5. ASSUME NEW r \in Requests, NEW n \in 0 .. Len(requests), Admit(r, n)
      PROVE  Limiter!Next
  BY <1>5, LimiterAdmit DEF Limiter!Next
<1>6. ASSUME NEW r \in Requests, NEW n \in 0 .. Len(requests), Refuse(r, n)
      PROVE  [Limiter!Next]_(Limiter!vars)
  <2>1. CASE UNCHANGED vars
    BY <1>1, <2>1
  <2>2. CASE RefusalIsEarned
    BY <1>6, <2>2, LimiterRefuse DEF Limiter!Next
  <2> QED
    BY <2>1, <2>2
<1>7. ASSUME NEW r \in Requests, Unavailable(r) \/ Leave(r) PROVE Limiter!Next
  BY <1>0, <1>7, LimiterTurnAway DEF Unavailable, Leave, Return, Limiter!Next
<1> QED
  BY <1>1, <1>2, <1>3, <1>4, <1>5, <1>6, <1>7 DEF Next, Handle

\* For any number of requests, limit, window and wait: seen from outside, the queue
\* behind its lock is a count of the latest admissions, out by at most the wait
\* (server.rs, authorize_manual_evaluate).
THEOREM LimiterRefinement == Spec => ImplementsSlidingWindow
<1>1. IInv /\ AdmissionsInOrder /\ [Next]_vars => IInv' /\ AdmissionsInOrder'
  BY NextIInv, NextInOrder
<1>2. Init => IInv /\ AdmissionsInOrder
  <2>1. Init => Len(admissions) = 0
    BY DEF Init
  <2> QED
    BY <2>1, InitIInv DEF AdmissionsInOrder
<1>3. IInv /\ IInv' /\ AdmissionsInOrder /\ [Next]_vars => [Limiter!Next]_(Limiter!vars)
  <2>1. IInv' => RateIsBounded'
    BY DEF IInv
  <2> QED
    BY <2>1, RefusalStep, LimiterStep
<1> QED
  BY <1>1, <1>2, <1>3, LimiterInit, PTL DEF Spec, ImplementsSlidingWindow, Limiter!Spec
=============================================================================
