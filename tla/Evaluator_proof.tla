--------------------------- MODULE Evaluator_proof ---------------------------
(***************************************************************************)
(* The evaluator follows the rule set, for all documents.                  *)
(***************************************************************************)
EXTENDS Evaluator, SequenceTheorems, FiniteSetTheorems, WellFoundedInduction, TLAPS

CheckRecord == [name : DOMAIN ReasonOf, passed : BOOLEAN]

Verdict(checks) ==
    [approved |-> Approved(checks), resolution_reason |-> ResolutionReason(checks)]

Rejected(reason) == [approved |-> FALSE, resolution_reason |-> reason]

-----------------------------------------------------------------------------
(* Verdicts on sequences of checks.                                        *)

\* A set of natural numbers that is not empty has a least element: of the
\* intervals below its members one contains no other.
LEMMA LeastElement ==
    ASSUME NEW S \in SUBSET Nat, S # {}
    PROVE  \E n \in S : \A k \in S : n <= k
<1> DEFINE Below == {0 .. k : k \in S}
<1>1. Below \subseteq FiniteSubsetsOf(Nat) /\ Below # {}
  <2>1. ASSUME NEW k \in S
        PROVE  0 .. k \in FiniteSubsetsOf(Nat)
    <3>1. IsFiniteSet(0 .. k)
      BY FS_Interval
    <3>2. 0 .. k \in SUBSET Nat
      OBVIOUS
    <3> QED
      BY <3>1, <3>2 DEF FiniteSubsetsOf
  <2> QED
    BY <2>1
<1>2. PICK B \in Below : \A C \in Below : <<C, B>> \notin StrictSubsetOrdering(Nat)
  BY <1>1, FS_StrictSubsetOrderingWellFounded, WFMin
<1>3. PICK n \in S : B = 0 .. n
  BY <1>2
<1>4. ASSUME NEW k \in S, k < n
      PROVE  FALSE
  <2>1. 0 .. k \in SUBSET Nat /\ B \in SUBSET Nat /\ 0 .. k \subseteq B /\ 0 .. k # B
    BY <1>3, <1>4
  <2>2. <<0 .. k, B>> \in StrictSubsetOrdering(Nat)
    BY <2>1 DEF StrictSubsetOrdering
  <2> QED
    BY <1>2, <2>2
<1> QED
  BY <1>3, <1>4

\* Checks that do not all pass have a first that fails.
LEMMA FirstFailure ==
    ASSUME NEW checks \in Seq(CheckRecord), ~Approved(checks)
    PROVE  \E n \in DOMAIN checks :
              /\ ~checks[n].passed
              /\ \A k \in 1 .. n - 1 : checks[k].passed
<1> DEFINE failed == {i \in DOMAIN checks : ~checks[i].passed}
<1>1. failed # {} /\ failed \subseteq Nat
  BY DEF Approved
<1>2. PICK n \in failed : \A k \in failed : n <= k
  BY <1>1, LeastElement
<1> QED
  BY <1>2

\* The reason of a rejection is that of the first check that fails.
LEMMA ReasonIsFirst ==
    ASSUME NEW checks \in Seq(CheckRecord),
           NEW n \in DOMAIN checks, ~checks[n].passed,
           \A k \in 1 .. n - 1 : checks[k].passed
    PROVE  Verdict(checks) = Rejected(ReasonOf[checks[n].name])
<1> DEFINE failed == {i \in DOMAIN checks : ~checks[i].passed}
<1>1. n \in failed /\ \A k \in failed : n <= k
  OBVIOUS
<1>2. \A m \in failed : (\A k \in failed : m <= k) => m = n
  BY <1>1
<1>3. Min(failed) = n
  BY <1>1, <1>2 DEF Min
<1> QED
  BY <1>1, <1>3 DEF Verdict, Rejected, ResolutionReason, Approved

\* Checks that pass leave the verdict to those that follow them.
LEMMA PassedChecks ==
    ASSUME NEW s \in Seq(CheckRecord), NEW t \in Seq(CheckRecord), Approved(s)
    PROVE  Verdict(s \o t) = Verdict(t)
<1>1. /\ s \o t \in Seq(CheckRecord)
      /\ Len(s \o t) = Len(s) + Len(t)
      /\ \A i \in 1 .. Len(s) + Len(t) :
            (s \o t)[i] = IF i <= Len(s) THEN s[i] ELSE t[i - Len(s)]
  BY ConcatProperties
<1>2. CASE Approved(t)
  <2>1. Approved(s \o t)
    BY <1>1, <1>2 DEF Approved
  <2> QED
    BY <1>2, <2>1 DEF Verdict, ResolutionReason
<1>3. CASE ~Approved(t)
  <2>1. PICK n \in DOMAIN t : ~t[n].passed /\ \A k \in 1 .. n - 1 : t[k].passed
    BY <1>3, FirstFailure
  <2> DEFINE m == Len(s) + n
  <2>2. m \in DOMAIN (s \o t) /\ (s \o t)[m] = t[n]
    BY <1>1
  <2>3. ASSUME NEW k \in 1 .. m - 1
        PROVE  (s \o t)[k].passed
    <3>1. CASE k <= Len(s)
      BY <1>1, <2>2, <3>1 DEF Approved
    <3>2. CASE k > Len(s)
      BY <1>1, <2>1, <2>2, <3>2
    <3> QED
      BY <3>1, <3>2
  <2>4. Verdict(s \o t) = Rejected(ReasonOf[t[n].name])
    BY <1>1, <2>1, <2>2, <2>3, ReasonIsFirst
  <2> QED
    BY <2>1, <2>4, ReasonIsFirst
<1> QED
  BY <1>2, <1>3

\* Once a check has failed, those that follow do not change the verdict.
LEMMA FailedChecks ==
    ASSUME NEW s \in Seq(CheckRecord), NEW t \in Seq(CheckRecord), ~Approved(s)
    PROVE  Verdict(s \o t) = Verdict(s)
<1>1. /\ s \o t \in Seq(CheckRecord)
      /\ Len(s \o t) = Len(s) + Len(t)
      /\ \A i \in 1 .. Len(s) : (s \o t)[i] = s[i]
  BY ConcatProperties
<1>2. PICK n \in DOMAIN s : ~s[n].passed /\ \A k \in 1 .. n - 1 : s[k].passed
  BY FirstFailure
<1>3. n \in DOMAIN (s \o t) /\ (s \o t)[n] = s[n] /\ \A k \in 1 .. n - 1 : (s \o t)[k] = s[k]
  BY <1>1, <1>2
<1>4. Verdict(s) = Rejected(ReasonOf[s[n].name])
  BY <1>2, ReasonIsFirst
<1>5. ~(s \o t)[n].passed /\ \A k \in 1 .. n - 1 : (s \o t)[k].passed
  BY <1>2, <1>3
<1>6. Verdict(s \o t) = Rejected(ReasonOf[(s \o t)[n].name])
  BY <1>1, <1>3, <1>5, ReasonIsFirst
<1> QED
  BY <1>3, <1>4, <1>6

\* Checks that share a reason are rejected for it.
LEMMA OneReason ==
    ASSUME NEW s \in Seq(CheckRecord), ~Approved(s),
           NEW reason, \A i \in DOMAIN s : ReasonOf[s[i].name] = reason
    PROVE  Verdict(s) = Rejected(reason)
  BY FirstFailure, ReasonIsFirst

\* Together: a verdict on s \o t, and whether it approves.
LEMMA Concatenation ==
    ASSUME NEW s \in Seq(CheckRecord), NEW t \in Seq(CheckRecord)
    PROVE  /\ s \o t \in Seq(CheckRecord)
           /\ Verdict(s \o t) = IF Approved(s) THEN Verdict(t) ELSE Verdict(s)
           /\ Approved(s \o t) <=> Approved(s) /\ Approved(t)
<1>1. s \o t \in Seq(CheckRecord)
  BY ConcatProperties
<1>2. Verdict(s \o t) = IF Approved(s) THEN Verdict(t) ELSE Verdict(s)
  BY PassedChecks, FailedChecks
<1>3. \A c : Verdict(c).approved = Approved(c)
  BY DEF Verdict
<1> QED
  BY <1>1, <1>2, <1>3

-----------------------------------------------------------------------------
(* The parts of the battery.                                               *)

\* Every part of the battery is about one rule: it passes exactly if the rule
\* holds, and is rejected for the rule's reason.
IsAbout(checks, holds, reason) ==
    /\ checks \in Seq(CheckRecord)
    /\ Approved(checks) <=> holds
    /\ ~Approved(checks) => Verdict(checks) = Rejected(reason)

LEMMA OneCheck ==
    ASSUME NEW name \in DOMAIN ReasonOf, NEW passed \in BOOLEAN
    PROVE  IsAbout(Check(name, passed), passed, ReasonOf[name])
<1>1. /\ Check(name, passed) \in Seq(CheckRecord)
      /\ Approved(Check(name, passed)) <=> passed
      /\ \A i \in DOMAIN Check(name, passed) :
            ReasonOf[Check(name, passed)[i].name] = ReasonOf[name]
  BY DEF Check, CheckRecord, Approved
<1> QED
  BY <1>1, OneReason DEF IsAbout

LEMMA NoCheck ==
    ASSUME NEW reason
    PROVE  IsAbout(Skip, TRUE, reason)
  BY DEF IsAbout, Skip, Approved

LEMMA VersionPart ==
    ASSUME NEW sla, NEW strict \in BOOLEAN
    PROVE  IsAbout(VersionCheck(sla, strict), sla.version = 1, "GeneralRejection")
<1> DEFINE passed == sla.version = 1
<1>1. passed \in BOOLEAN
  OBVIOUS
<1>2. "version" \in DOMAIN ReasonOf /\ ReasonOf["version"] = "GeneralRejection"
  BY DEF ReasonOf
<1>3. VersionCheck(sla, strict) = IF strict \/ ~passed THEN Check("version", passed) ELSE Skip
  BY DEF VersionCheck
<1> HIDE DEF passed
<1>4. IsAbout(VersionCheck(sla, strict), passed, "GeneralRejection")
  BY <1>1, <1>2, <1>3, OneCheck, NoCheck
<1> QED
  BY <1>4 DEF passed

ProfileHolds(sla, strict) ==
    (strict => sla.profile_id # {}) /\ \A id \in sla.profile_id : id = ProfileId

LEMMA ProfilePart ==
    ASSUME NEW sla \in SlaDocuments, NEW strict \in BOOLEAN
    PROVE  IsAbout(ProfileCheck(sla, strict), ProfileHolds(sla, strict), "GeneralRejection")
<1> DEFINE passed == sla.profile_id = {ProfileId}
<1>1. passed \in BOOLEAN
  OBVIOUS
<1>2. "profile_id" \in DOMAIN ReasonOf /\ ReasonOf["profile_id"] = "GeneralRejection"
  BY DEF ReasonOf
<1>3. \A id, other \in sla.profile_id : id = other
  BY DEF SlaDocuments, Option
<1>4. ProfileHolds(sla, strict) <=> IF strict \/ sla.profile_id # {} THEN passed ELSE TRUE
  BY <1>3 DEF ProfileHolds
<1>5. ProfileCheck(sla, strict) =
         IF strict \/ sla.profile_id # {} THEN Check("profile_id", passed) ELSE Skip
  BY DEF ProfileCheck
<1> HIDE DEF passed
<1>6. IsAbout(Check("profile_id", passed), passed, "GeneralRejection")
  BY <1>1, <1>2, OneCheck
<1>7. IsAbout(Skip, TRUE, "GeneralRejection")
  BY NoCheck
<1> QED
  BY <1>4, <1>5, <1>6, <1>7 DEF IsAbout

LEMMA StatusPart ==
    ASSUME NEW sla \in SlaDocuments, NEW evidence \in DeliveryEvidence
    PROVE  IsAbout(StatusCheck(sla, evidence),
                   /\ sla.min_status_code <= evidence.status_code
                   /\ evidence.status_code <= sla.max_status_code,
                   "StatusCodeOutOfRange")
<1> DEFINE passed == evidence.status_code \in sla.min_status_code .. sla.max_status_code
<1>1. passed \in BOOLEAN
  OBVIOUS
<1>2. "status_code" \in DOMAIN ReasonOf /\ ReasonOf["status_code"] = "StatusCodeOutOfRange"
  BY DEF ReasonOf
<1>3. passed <=> /\ sla.min_status_code <= evidence.status_code
                 /\ evidence.status_code <= sla.max_status_code
  BY DEF SlaDocuments, DeliveryEvidence
<1>4. StatusCheck(sla, evidence) = Check("status_code", passed)
  BY DEF StatusCheck
<1> HIDE DEF passed
<1>5. IsAbout(Check("status_code", passed), passed, "StatusCodeOutOfRange")
  BY <1>1, <1>2, OneCheck
<1> QED
  BY <1>3, <1>4, <1>5 DEF IsAbout

LEMMA LatencyPart ==
    ASSUME NEW sla, NEW evidence
    PROVE  IsAbout(LatencyCheck(sla, evidence),
                   evidence.latency_ms <= sla.max_latency_ms, "LatencyExceeded")
<1> DEFINE passed == evidence.latency_ms <= sla.max_latency_ms
<1>1. passed \in BOOLEAN
  OBVIOUS
<1>2. "latency" \in DOMAIN ReasonOf /\ ReasonOf["latency"] = "LatencyExceeded"
  BY DEF ReasonOf
<1>3. LatencyCheck(sla, evidence) = Check("latency", passed)
  BY DEF LatencyCheck
<1> HIDE DEF passed
<1>4. IsAbout(LatencyCheck(sla, evidence), passed, "LatencyExceeded")
  BY <1>1, <1>2, <1>3, OneCheck
<1> QED
  BY <1>4 DEF passed

LEMMA FieldPart ==
    ASSUME NEW sla \in SlaDocuments, NEW evidence
    PROVE  IsAbout(FieldChecks(sla, evidence),
                   \A i \in DOMAIN sla.required_fields :
                      HasField(evidence, sla.required_fields[i]),
                   "RequiredFieldsMissing")
<1> DEFINE n == Len(sla.required_fields)
           has(i) == HasField(evidence, sla.required_fields[i])
           F == [i \in 1 .. n |-> [name |-> "required_field", passed |-> has(i)]]
<1>1. n \in Nat /\ DOMAIN sla.required_fields = 1 .. n
  BY DEF SlaDocuments
<1>2. \A i : has(i) \in BOOLEAN
  BY DEF HasField
<1>3. "required_field" \in DOMAIN ReasonOf /\ ReasonOf["required_field"] = "RequiredFieldsMissing"
  BY DEF ReasonOf
<1>4. FieldChecks(sla, evidence) = F
  BY <1>1 DEF FieldChecks
<1> HIDE DEF n, has
<1>5. \A i \in 1 .. n : F[i] \in CheckRecord
  BY <1>2, <1>3 DEF CheckRecord
<1>6. F \in Seq(CheckRecord) /\ DOMAIN F = 1 .. n
  BY <1>1, <1>5, IsASeq
<1>7. Approved(F) <=> \A i \in 1 .. n : has(i)
  BY <1>6 DEF Approved
<1>8. \A i \in DOMAIN F : ReasonOf[F[i].name] = "RequiredFieldsMissing"
  BY <1>3, <1>6
<1>9. IsAbout(F, \A i \in 1 .. n : has(i), "RequiredFieldsMissing")
  BY <1>6, <1>7, <1>8, OneReason DEF IsAbout
<1> QED
  BY <1>1, <1>4, <1>9 DEF has

LEMMA SchemaPart ==
    ASSUME NEW sla \in SlaDocuments, NEW evidence \in DeliveryEvidence
    PROVE  IsAbout(SchemaCheck(sla, evidence),
                   \A schema \in sla.response_schema :
                      schema = "sound" /\ evidence.response_body.conforms,
                   "SchemaValidationFailed")
<1> DEFINE passed == sla.response_schema = {"sound"} /\ evidence.response_body.conforms
           holds == \A schema \in sla.response_schema :
                       schema = "sound" /\ evidence.response_body.conforms
<1>1. passed \in BOOLEAN
  OBVIOUS
<1>2. "json_schema" \in DOMAIN ReasonOf /\ ReasonOf["json_schema"] = "SchemaValidationFailed"
  BY DEF ReasonOf
<1>3. sla.response_schema \in {{}, {"sound"}, {"broken"}}
  BY DEF SlaDocuments, Option
<1>4. holds <=> IF sla.response_schema = {} THEN TRUE ELSE passed
  BY <1>3
<1>5. SchemaCheck(sla, evidence) =
         IF sla.response_schema = {} THEN Skip ELSE Check("json_schema", passed)
  BY DEF SchemaCheck
<1> HIDE DEF passed, holds
<1>6. IsAbout(Check("json_schema", passed), passed, "SchemaValidationFailed")
  BY <1>1, <1>2, OneCheck
<1>7. IsAbout(Skip, TRUE, "SchemaValidationFailed")
  BY NoCheck
<1>8. IsAbout(SchemaCheck(sla, evidence), holds, "SchemaValidationFailed")
  BY <1>4, <1>5, <1>6, <1>7 DEF IsAbout
<1> QED
  BY <1>8 DEF holds

LEMMA LengthPart ==
    ASSUME NEW sla \in SlaDocuments, NEW evidence \in DeliveryEvidence
    PROVE  IsAbout(LengthCheck(sla, evidence),
                   \A min \in sla.min_body_length : min <= evidence.response_body.length,
                   "BodyTooShort")
<1> DEFINE length == evidence.response_body.length
           passed == \A min \in sla.min_body_length : length >= min
           holds == \A min \in sla.min_body_length : min <= length
<1>1. passed \in BOOLEAN
  OBVIOUS
<1>2. "body_length" \in DOMAIN ReasonOf /\ ReasonOf["body_length"] = "BodyTooShort"
  BY DEF ReasonOf
<1>3. length \in Nat /\ sla.min_body_length \in SUBSET Nat
  BY DEF SlaDocuments, DeliveryEvidence, Option
<1>4. holds <=> IF sla.min_body_length = {} THEN TRUE ELSE passed
  BY <1>3
<1>5. LengthCheck(sla, evidence) =
         IF sla.min_body_length = {} THEN Skip ELSE Check("body_length", passed)
  BY DEF LengthCheck
<1> HIDE DEF passed, holds
<1>6. IsAbout(Check("body_length", passed), passed, "BodyTooShort")
  BY <1>1, <1>2, OneCheck
<1>7. IsAbout(Skip, TRUE, "BodyTooShort")
  BY NoCheck
<1>8. IsAbout(LengthCheck(sla, evidence), holds, "BodyTooShort")
  BY <1>4, <1>5, <1>6, <1>7 DEF IsAbout
<1> QED
  BY <1>8 DEF holds, length

-----------------------------------------------------------------------------
(* The theorem.                                                            *)

\* A part about the next rule, added to parts about those before it.
LEMMA NextPart ==
    ASSUME NEW s \in Seq(CheckRecord), NEW t, NEW holds \in BOOLEAN, NEW reason,
           IsAbout(t, holds, reason)
    PROVE  /\ s \o t \in Seq(CheckRecord)
           /\ Approved(s \o t) <=> Approved(s) /\ holds
           /\ ~Approved(s) => Verdict(s \o t) = Verdict(s)
           /\ Approved(s) /\ ~holds => Verdict(s \o t) = Rejected(reason)
  BY Concatenation DEF IsAbout

\* The parts of a list of six rules.
LEMMA SixRules ==
    ASSUME NEW h1 \in BOOLEAN, NEW h2 \in BOOLEAN, NEW h3 \in BOOLEAN,
           NEW h4 \in BOOLEAN, NEW h5 \in BOOLEAN, NEW h6 \in BOOLEAN,
           NEW r1, NEW r2, NEW r3, NEW r4, NEW r5, NEW r6, NEW R,
           R = <<[holds |-> h1, reason |-> r1], [holds |-> h2, reason |-> r2],
                 [holds |-> h3, reason |-> r3], [holds |-> h4, reason |-> r4],
                 [holds |-> h5, reason |-> r5], [holds |-> h6, reason |-> r6]>>
    PROVE  /\ DOMAIN R = 1 .. 6
           /\ (R[1].holds <=> h1) /\ R[1].reason = r1
           /\ (R[2].holds <=> h2) /\ R[2].reason = r2
           /\ (R[3].holds <=> h3) /\ R[3].reason = r3
           /\ (R[4].holds <=> h4) /\ R[4].reason = r4
           /\ (R[5].holds <=> h5) /\ R[5].reason = r5
           /\ (R[6].holds <=> h6) /\ R[6].reason = r6
<1>1. /\ R[1] = [holds |-> h1, reason |-> r1]
      /\ R[2] = [holds |-> h2, reason |-> r2]
      /\ R[3] = [holds |-> h3, reason |-> r3]
      /\ R[4] = [holds |-> h4, reason |-> r4]
      /\ R[5] = [holds |-> h5, reason |-> r5]
      /\ R[6] = [holds |-> h6, reason |-> r6]
  OBVIOUS
<1>2. DOMAIN R = 1 .. 6
  OBVIOUS
<1> QED
  BY <1>1, <1>2

\* A rejection for the first rule that does not hold follows the rules.
LEMMA FirstBroken ==
    ASSUME NEW verdict, NEW rules, NEW n \in DOMAIN rules, n \in Nat,
           ~rules[n].holds, \A k \in 1 .. n - 1 : rules[k].holds,
           verdict = Rejected(rules[n].reason)
    PROVE  FollowsRules(verdict, rules)
  BY DEF FollowsRules, Rejected

\* A verdict that follows the rules approves exactly if all of them hold.
LEMMA ApprovalFollows ==
    ASSUME NEW verdict, NEW rules, FollowsRules(verdict, rules), DOMAIN rules \subseteq Nat
    PROVE  /\ verdict.approved \in BOOLEAN
           /\ verdict.approved <=> \A n \in DOMAIN rules : rules[n].holds
<1>1. CASE \A n \in DOMAIN rules : rules[n].holds
  <2>1. verdict = [approved |-> TRUE, resolution_reason |-> "None"]
    BY <1>1 DEF FollowsRules
  <2>2. verdict.approved = TRUE
    BY <2>1
  <2> QED
    BY <1>1, <2>2
<1>2. CASE ~\A n \in DOMAIN rules : rules[n].holds
  <2>1. \E n \in DOMAIN rules : verdict = [approved |-> FALSE, resolution_reason |-> rules[n].reason]
    BY <1>2 DEF FollowsRules
  <2>2. verdict.approved = FALSE
    BY <2>1
  <2> QED
    BY <1>2, <2>2
<1> QED
  BY <1>1, <1>2

\* For every SLA document and every evidence, strictly or not, the verdict is
\* that of the rule set: approval exactly if all rules hold, and else rejection
\* for the first that does not (evaluate_impl in evaluator.rs; NORMATIVE.md).
THEOREM EvaluatorFollowsRules ==
    ASSUME NEW sla \in SlaDocuments, NEW evidence \in DeliveryEvidence, NEW strict \in BOOLEAN
    PROVE  FollowsRules(Evaluate(sla, evidence, strict), Rules(sla, evidence, strict))
<1> DEFINE R  == Rules(sla, evidence, strict)
           h0 == sla.version = 1
           h1 == ProfileHolds(sla, strict)
           h01 == h0 /\ h1
           h2 == /\ sla.min_status_code <= evidence.status_code
                 /\ evidence.status_code <= sla.max_status_code
           h3 == evidence.latency_ms <= sla.max_latency_ms
           h4 == \A i \in DOMAIN sla.required_fields : HasField(evidence, sla.required_fields[i])
           h5 == \A schema \in sla.response_schema :
                    schema = "sound" /\ evidence.response_body.conforms
           h6 == \A min \in sla.min_body_length : min <= evidence.response_body.length
           c0 == VersionCheck(sla, strict)
           c1 == c0 \o ProfileCheck(sla, strict)
           c2 == c1 \o StatusCheck(sla, evidence)
           c3 == c2 \o LatencyCheck(sla, evidence)
           c4 == c3 \o FieldChecks(sla, evidence)
           c5 == c4 \o SchemaCheck(sla, evidence)
           c6 == c5 \o LengthCheck(sla, evidence)
<1>1. /\ h0 \in BOOLEAN /\ h1 \in BOOLEAN /\ h2 \in BOOLEAN /\ h3 \in BOOLEAN
      /\ h4 \in BOOLEAN /\ h01 \in BOOLEAN /\ h5 \in BOOLEAN /\ h6 \in BOOLEAN
  BY DEF ProfileHolds
<1>2. IsAbout(c0, h0, "GeneralRejection")
  BY VersionPart
<1>3. IsAbout(ProfileCheck(sla, strict), h1, "GeneralRejection")
  BY ProfilePart
<1>4. IsAbout(StatusCheck(sla, evidence), h2, "StatusCodeOutOfRange")
  BY StatusPart
<1>5. IsAbout(LatencyCheck(sla, evidence), h3, "LatencyExceeded")
  BY LatencyPart
<1>6. IsAbout(FieldChecks(sla, evidence), h4, "RequiredFieldsMissing")
  BY FieldPart
<1>7. IsAbout(SchemaCheck(sla, evidence), h5, "SchemaValidationFailed")
  BY SchemaPart
<1>8. IsAbout(LengthCheck(sla, evidence), h6, "BodyTooShort")
  BY LengthPart
<1>9. Evaluate(sla, evidence, strict) = Verdict(c6)
  BY DEF Evaluate, Checks, Verdict
<1>10. R = <<[holds |-> h01, reason |-> "GeneralRejection"],
             [holds |-> h2, reason |-> "StatusCodeOutOfRange"],
             [holds |-> h3, reason |-> "LatencyExceeded"],
             [holds |-> h4, reason |-> "RequiredFieldsMissing"],
             [holds |-> h5, reason |-> "SchemaValidationFailed"],
             [holds |-> h6, reason |-> "BodyTooShort"]>>
  BY DEF Rules, ProfileHolds
<1> SUFFICES FollowsRules(Verdict(c6), R)
  BY <1>9
<1>11. h01 <=> h0 /\ h1
  OBVIOUS
<1> HIDE DEF R, h0, h1, h01, h2, h3, h4, h5, h6
<1>12. /\ DOMAIN R = 1 .. 6
       /\ (R[1].holds <=> h0 /\ h1) /\ R[1].reason = "GeneralRejection"
       /\ (R[2].holds <=> h2) /\ R[2].reason = "StatusCodeOutOfRange"
       /\ (R[3].holds <=> h3) /\ R[3].reason = "LatencyExceeded"
       /\ (R[4].holds <=> h4) /\ R[4].reason = "RequiredFieldsMissing"
       /\ (R[5].holds <=> h5) /\ R[5].reason = "SchemaValidationFailed"
       /\ (R[6].holds <=> h6) /\ R[6].reason = "BodyTooShort"
  BY <1>1, <1>10, <1>11, SixRules
<1>13. /\ c1 \in Seq(CheckRecord)
       /\ Approved(c1) <=> h0 /\ h1
       /\ ~(h0 /\ h1) => Verdict(c1) = Rejected("GeneralRejection")
  BY <1>1, <1>2, <1>3, Concatenation DEF IsAbout
<1> HIDE DEF c1
<1>14. /\ c2 \in Seq(CheckRecord)
       /\ Approved(c2) <=> Approved(c1) /\ h2
       /\ ~Approved(c1) => Verdict(c2) = Verdict(c1)
       /\ Approved(c1) /\ ~h2 => Verdict(c2) = Rejected("StatusCodeOutOfRange")
  BY <1>1, <1>4, <1>13, NextPart
<1> HIDE DEF c2
<1>15. /\ c3 \in Seq(CheckRecord)
       /\ Approved(c3) <=> Approved(c2) /\ h3
       /\ ~Approved(c2) => Verdict(c3) = Verdict(c2)
       /\ Approved(c2) /\ ~h3 => Verdict(c3) = Rejected("LatencyExceeded")
  BY <1>1, <1>5, <1>14, NextPart
<1> HIDE DEF c3
<1>16. /\ c4 \in Seq(CheckRecord)
       /\ Approved(c4) <=> Approved(c3) /\ h4
       /\ ~Approved(c3) => Verdict(c4) = Verdict(c3)
       /\ Approved(c3) /\ ~h4 => Verdict(c4) = Rejected("RequiredFieldsMissing")
  BY <1>1, <1>6, <1>15, NextPart
<1> HIDE DEF c4
<1>17. /\ c5 \in Seq(CheckRecord)
       /\ Approved(c5) <=> Approved(c4) /\ h5
       /\ ~Approved(c4) => Verdict(c5) = Verdict(c4)
       /\ Approved(c4) /\ ~h5 => Verdict(c5) = Rejected("SchemaValidationFailed")
  BY <1>1, <1>7, <1>16, NextPart
<1> HIDE DEF c5
<1>18. /\ c6 \in Seq(CheckRecord)
       /\ Approved(c6) <=> Approved(c5) /\ h6
       /\ ~Approved(c5) => Verdict(c6) = Verdict(c5)
       /\ Approved(c5) /\ ~h6 => Verdict(c6) = Rejected("BodyTooShort")
  BY <1>1, <1>8, <1>17, NextPart
<1> HIDE DEF c6
<1>19. Approved(c6) => Verdict(c6) = [approved |-> TRUE, resolution_reason |-> "None"]
  BY DEF Verdict, ResolutionReason
<1>20. CASE h0 /\ h1 /\ h2 /\ h3 /\ h4 /\ h5 /\ h6
  <2>1. Verdict(c6) = [approved |-> TRUE, resolution_reason |-> "None"]
    BY <1>13, <1>14, <1>15, <1>16, <1>17, <1>18, <1>19, <1>20
  <2>2. \A n \in DOMAIN R : R[n].holds
    BY <1>12, <1>20
  <2> QED
    BY <2>1, <2>2 DEF FollowsRules
<1>21. CASE ~(h0 /\ h1)
  <2>1. Verdict(c6) = Rejected("GeneralRejection")
    BY <1>13, <1>14, <1>15, <1>16, <1>17, <1>18, <1>21
  <2>2. 1 \in DOMAIN R /\ ~R[1].holds /\ \A j \in 1 .. 0 : R[j].holds
    BY <1>12, <1>21
  <2> QED
    BY <2>1, <2>2, <1>12, FirstBroken
<1>22. CASE h0 /\ h1 /\ ~h2
  <2>1. Verdict(c6) = Rejected("StatusCodeOutOfRange")
    BY <1>13, <1>14, <1>15, <1>16, <1>17, <1>18, <1>22
  <2>2. 2 \in DOMAIN R /\ ~R[2].holds /\ \A j \in 1 .. 1 : R[j].holds
    BY <1>12, <1>22
  <2> QED
    BY <2>1, <2>2, <1>12, FirstBroken
<1>23. CASE h0 /\ h1 /\ h2 /\ ~h3
  <2>1. Verdict(c6) = Rejected("LatencyExceeded")
    BY <1>13, <1>14, <1>15, <1>16, <1>17, <1>18, <1>23
  <2>2. 3 \in DOMAIN R /\ ~R[3].holds /\ \A j \in 1 .. 2 : R[j].holds
    BY <1>12, <1>23
  <2> QED
    BY <2>1, <2>2, <1>12, FirstBroken
<1>24. CASE h0 /\ h1 /\ h2 /\ h3 /\ ~h4
  <2>1. Verdict(c6) = Rejected("RequiredFieldsMissing")
    BY <1>13, <1>14, <1>15, <1>16, <1>17, <1>18, <1>24
  <2>2. 4 \in DOMAIN R /\ ~R[4].holds /\ \A j \in 1 .. 3 : R[j].holds
    BY <1>12, <1>24
  <2> QED
    BY <2>1, <2>2, <1>12, FirstBroken
<1>25. CASE h0 /\ h1 /\ h2 /\ h3 /\ h4 /\ ~h5
  <2>1. Verdict(c6) = Rejected("SchemaValidationFailed")
    BY <1>13, <1>14, <1>15, <1>16, <1>17, <1>18, <1>25
  <2>2. 5 \in DOMAIN R /\ ~R[5].holds /\ \A j \in 1 .. 4 : R[j].holds
    BY <1>12, <1>25
  <2> QED
    BY <2>1, <2>2, <1>12, FirstBroken
<1>26. CASE h0 /\ h1 /\ h2 /\ h3 /\ h4 /\ h5 /\ ~h6
  <2>1. Verdict(c6) = Rejected("BodyTooShort")
    BY <1>13, <1>14, <1>15, <1>16, <1>17, <1>18, <1>26
  <2>2. 6 \in DOMAIN R /\ ~R[6].holds /\ \A j \in 1 .. 5 : R[j].holds
    BY <1>12, <1>26
  <2> QED
    BY <2>1, <2>2, <1>12, FirstBroken
<1> QED
  BY <1>20, <1>21, <1>22, <1>23, <1>24, <1>25, <1>26

\* What a strict oracle approves, any oracle approves: ORACLE_STRICT_PROFILE only
\* adds reasons to reject (evaluate_impl in evaluator.rs).
THEOREM StrictOnlyRejectsMore ==
    ASSUME NEW sla \in SlaDocuments, NEW evidence \in DeliveryEvidence,
           Evaluate(sla, evidence, TRUE).approved
    PROVE  Evaluate(sla, evidence, FALSE).approved
<1> DEFINE S == Rules(sla, evidence, TRUE)
           L == Rules(sla, evidence, FALSE)
           strictly == Evaluate(sla, evidence, TRUE)
           loosely  == Evaluate(sla, evidence, FALSE)
<1>1. DOMAIN S = 1 .. 6 /\ DOMAIN L = 1 .. 6
  BY DEF Rules
<1>2. S[1].holds => L[1].holds
  BY DEF Rules
<1>3. S[2] = L[2] /\ S[3] = L[3] /\ S[4] = L[4] /\ S[5] = L[5] /\ S[6] = L[6]
  BY DEF Rules
<1> HIDE DEF S, L
<1>4. FollowsRules(strictly, S)
  BY EvaluatorFollowsRules DEF S
<1>5. FollowsRules(loosely, L)
  BY EvaluatorFollowsRules DEF L
<1>6. strictly.approved
  OBVIOUS
<1> HIDE DEF strictly, loosely
<1>7. \A n \in 1 .. 6 : S[n].holds
  BY <1>1, <1>4, <1>6, ApprovalFollows
<1>8. \A n \in 1 .. 6 : L[n].holds
  BY <1>2, <1>3, <1>7
<1>9. loosely.approved
  BY <1>1, <1>5, <1>8, ApprovalFollows
<1> QED
  BY <1>9 DEF loosely

=============================================================================
