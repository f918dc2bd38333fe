----------------------------- MODULE Evaluator -----------------------------
(***************************************************************************)
(* The evaluation of delivery evidence against an SLA document             *)
(* (evaluator.rs, types.rs), next to the rule set it is to implement       *)
(* (spec/api-quality-v1/NORMATIVE.md, section 6).                          *)
(*                                                                         *)
(* An optional value is a set of at most one element.                      *)
(***************************************************************************)
EXTENDS Naturals, Sequences, FiniteSetsExt

CONSTANT Fields  \* names a response body may have as keys

ProfileId == "x402/oracle-qa/api-quality/v1"

Option(S) == {o \in SUBSET S : \A v, w \in o : v = w}

\* Numbers are those the fields' types hold: anything else does not parse.
SlaDocuments ==
    [version         : Nat,
     profile_id      : Option(STRING),
     response_schema : Option({"sound", "broken"}),  \* whether the schema compiles
     required_fields : Seq(Fields),
     max_latency_ms  : Nat,
     min_status_code : Nat,
     max_status_code : Nat,
     min_body_length : Option(Nat)]

DeliveryEvidence ==
    [status_code   : Nat,
     latency_ms    : Nat,
     response_body : [keys     : Option(SUBSET Fields),  \* none: not an object
                      conforms : BOOLEAN,  \* to the SLA's schema, if that compiles
                      length   : Nat]]     \* of its serialization

OrElse(option, default) == IF option = {} THEN default ELSE CHOOSE v \in option : TRUE

\* Parsing fills in what the SLA's text leaves out.
WithDefaults(text) ==
    [text EXCEPT !.max_latency_ms  = OrElse(@, 5000),
                 !.min_status_code = OrElse(@, 200),
                 !.max_status_code = OrElse(@, 299)]

-----------------------------------------------------------------------------
(* The checks, in the order the code pushes them.                          *)

Check(name, passed) == <<[name |-> name, passed |-> passed]>>
Skip == <<>>

VersionCheck(sla, strict) ==
    IF strict \/ sla.version # 1
    THEN Check("version", sla.version = 1)
    ELSE Skip

ProfileCheck(sla, strict) ==
    IF strict \/ sla.profile_id # {}
    THEN Check("profile_id", sla.profile_id = {ProfileId})
    ELSE Skip

StatusCheck(sla, evidence) ==
    Check("status_code", evidence.status_code \in sla.min_status_code .. sla.max_status_code)

LatencyCheck(sla, evidence) ==
    Check("latency", evidence.latency_ms <= sla.max_latency_ms)

HasField(evidence, field) == \E keys \in evidence.response_body.keys : field \in keys

FieldChecks(sla, evidence) ==
    [i \in DOMAIN sla.required_fields |->
        [name   |-> "required_field",
         passed |-> HasField(evidence, sla.required_fields[i])]]

SchemaCheck(sla, evidence) ==
    IF sla.response_schema = {}
    THEN Skip
    ELSE Check("json_schema",
               sla.response_schema = {"sound"} /\ evidence.response_body.conforms)

LengthCheck(sla, evidence) ==
    IF sla.min_body_length = {}
    THEN Skip
    ELSE Check("body_length",
               \A min \in sla.min_body_length : evidence.response_body.length >= min)

BugChecks(sla, evidence, strict) ==
    VersionCheck(sla, strict) \o ProfileCheck(sla, strict)
    \o StatusCheck(sla, evidence) \o LatencyCheck(sla, evidence)
    \o SchemaCheck(sla, evidence) \o FieldChecks(sla, evidence)
    \o LengthCheck(sla, evidence)

Checks(sla, evidence, strict) ==
    VersionCheck(sla, strict) \o ProfileCheck(sla, strict)
    \o StatusCheck(sla, evidence) \o LatencyCheck(sla, evidence)
    \o FieldChecks(sla, evidence) \o SchemaCheck(sla, evidence)
    \o LengthCheck(sla, evidence)

ReasonOf ==
    [version        |-> "GeneralRejection",
     profile_id     |-> "GeneralRejection",
     status_code    |-> "StatusCodeOutOfRange",
     latency        |-> "LatencyExceeded",
     required_field |-> "RequiredFieldsMissing",
     json_schema    |-> "SchemaValidationFailed",
     body_length    |-> "BodyTooShort"]

Approved(checks) == \A i \in DOMAIN checks : checks[i].passed

\* The reason of the first check that failed.
ResolutionReason(checks) ==
    IF Approved(checks)
    THEN "None"
    ELSE LET first == Min({i \in DOMAIN checks : ~checks[i].passed})
         IN ReasonOf[checks[first].name]

Evaluate(sla, evidence, strict) ==
    LET checks == Checks(sla, evidence, strict)
    IN [approved          |-> Approved(checks),
        resolution_reason |-> ResolutionReason(checks)]

-----------------------------------------------------------------------------
(* The rule set.                                                           *)

\* The predicates of section 6, in its fixed order, each with its reason.  The
\* first is that of section 4.2 for version and profile_id; a strict oracle
\* wants profile_id present as well (README.md).
Rules(sla, evidence, strict) ==
    <<[holds  |-> /\ sla.version = 1
                  /\ strict => sla.profile_id # {}
                  /\ \A id \in sla.profile_id : id = ProfileId,
       reason |-> "GeneralRejection"],
      [holds  |-> /\ sla.min_status_code <= evidence.status_code
                  /\ evidence.status_code <= sla.max_status_code,
       reason |-> "StatusCodeOutOfRange"],
      [holds  |-> evidence.latency_ms <= sla.max_latency_ms,
       reason |-> "LatencyExceeded"],
      [holds  |-> \A i \in DOMAIN sla.required_fields :
                     HasField(evidence, sla.required_fields[i]),
       reason |-> "RequiredFieldsMissing"],
      [holds  |-> \A schema \in sla.response_schema :
                     schema = "sound" /\ evidence.response_body.conforms,
       reason |-> "SchemaValidationFailed"],
      [holds  |-> \A min \in sla.min_body_length : min <= evidence.response_body.length,
       reason |-> "BodyTooShort"]>>

\* A verdict follows the rules when it approves exactly if all of them hold, and
\* else names the reason of one that does not hold although those before it do.
FollowsRules(verdict, rules) ==
    \/ /\ \A n \in DOMAIN rules : rules[n].holds
       /\ verdict = [approved |-> TRUE, resolution_reason |-> "None"]
    \/ \E n \in DOMAIN rules :
          /\ ~rules[n].holds
          /\ \A k \in 1 .. n - 1 : rules[k].holds
          /\ verdict = [approved |-> FALSE, resolution_reason |-> rules[n].reason]
=============================================================================
