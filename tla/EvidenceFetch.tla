--------------------------- MODULE EvidenceFetch ---------------------------
(***************************************************************************)
(* Step 2 of run_pipeline (pipeline.rs): the SLA document, and after it    *)
(* the delivery evidence, are fetched by hash from a list of registry      *)
(* mirrors, with retries, and checked against the hash before parsing.     *)
(*                                                                         *)
(* What a mirror holds under a hash is fixed for the length of a fetch;    *)
(* what a request to it meets is not.                                      *)
(***************************************************************************)
EXTENDS Naturals

CONSTANTS
    MirrorCount,  \* number of registry base URLs
    MaxRetries    \* EVIDENCE_FETCH_MAX_RETRIES

ASSUME EvidenceFetchAssumption ==
    /\ MirrorCount \in Nat \ {0}
    /\ MaxRetries \in Nat

Mirrors   == 1 .. MirrorCount
Artifacts == {"sla", "delivery"}

\* The bytes that hash to the key, other bytes, or nothing (a 4xx answer).
Contents == {"committed", "altered", "nothing"}

VARIABLES
    holds,     \* what each mirror holds under each artifact's hash
    parses,    \* whether the committed bytes of an artifact parse
    artifact,  \* the artifact being fetched
    base,      \* the mirror whose turn it is
    attempt,   \* the attempt at it, from 0
    outcome,   \* "pending", or how the two fetches ended
    asked,     \* history: requests made for each artifact at each mirror
    taken      \* history: the bytes each artifact was parsed from

vars == <<holds, parses, artifact, base, attempt, outcome, asked, taken>>

Failures == {"not_found", "mismatch", "parse_error", "timed_out"}

TypeOK ==
    /\ holds \in [Artifacts -> [Mirrors -> Contents]]
    /\ parses \in [Artifacts -> BOOLEAN]
    /\ artifact \in Artifacts
    /\ base \in 1 .. MirrorCount + 1
    /\ attempt \in 0 .. MaxRetries
    /\ outcome \in {"pending", "evaluate"} \union Failures
    /\ asked \in [Artifacts -> [Mirrors -> 0 .. MaxRetries]]
    /\ taken \in [Artifacts -> Contents]

Init ==
    /\ holds \in [Artifacts -> [Mirrors -> Contents]]
    /\ parses \in [Artifacts -> BOOLEAN]
    /\ artifact = "sla"
    /\ base = 1
    /\ attempt = 0
    /\ outcome = "pending"
    /\ asked = [a \in Artifacts |-> [m \in Mirrors |-> 0]]
    /\ taken = [a \in Artifacts |-> "nothing"]

-----------------------------------------------------------------------------

\* A request is out to the mirror whose turn it is.
Asking ==
    /\ outcome = "pending"
    /\ base <= MirrorCount
    /\ attempt < MaxRetries
    /\ asked' = [asked EXCEPT ![artifact][base] = @ + 1]
    /\ UNCHANGED <<holds, parses>>

NextMirror == base' = base + 1 /\ attempt' = 0

BugHashUnchecked(content) == content # "nothing"

\* The SHA-256 of the body is the hash it was asked for by.
HashMatches(content) == content = "committed"

\* The committed bytes arrive and are parsed.  After the SLA document comes the
\* delivery evidence, from the first mirror again; after that both are evaluated.
Accept ==
    LET content == holds[artifact][base]
    IN /\ Asking
       /\ HashMatches(content)
       /\ taken' = [taken EXCEPT ![artifact] = content]
       /\ IF parses[artifact] /\ artifact = "sla"
          THEN artifact' = "delivery" /\ base' = 1 /\ attempt' = 0 /\ UNCHANGED outcome
          ELSE /\ outcome' = IF parses[artifact] THEN "evaluate" ELSE "parse_error"
               /\ UNCHANGED <<artifact, base, attempt>>

\* Bytes with another hash arrive: the fetch ends there and then.
Mismatch ==
    /\ Asking
    /\ holds[artifact][base] # "nothing"
    /\ ~HashMatches(holds[artifact][base])
    /\ outcome' = "mismatch"
    /\ UNCHANGED <<artifact, base, attempt, taken>>

\* A 4xx answer: the mirror is given up.
Refused ==
    /\ Asking
    /\ holds[artifact][base] = "nothing"
    /\ NextMirror
    /\ UNCHANGED <<artifact, outcome, taken>>

BugFaultedKeepsAttempt ==
    /\ Asking
    /\ IF attempt + 1 < MaxRetries
       THEN UNCHANGED <<base, attempt>>
       ELSE NextMirror
    /\ UNCHANGED <<artifact, outcome, taken>>

BugFaultedGivesUpEarly ==
    /\ Asking
    /\ IF attempt + 2 < MaxRetries
       THEN attempt' = attempt + 1 /\ UNCHANGED base
       ELSE NextMirror
    /\ UNCHANGED <<artifact, outcome, taken>>

BugFaultedNeverMovesOn ==
    /\ Asking
    /\ attempt' = attempt + 1
    /\ UNCHANGED <<artifact, base, outcome, taken>>

\* A 5xx answer, a body cut short or no answer: after a pause the mirror is
\* asked again, unless its attempts are spent.
Faulted ==
    /\ Asking
    /\ IF attempt + 1 < MaxRetries
       THEN attempt' = attempt + 1 /\ UNCHANGED base
       ELSE NextMirror
    /\ UNCHANGED <<artifact, outcome, taken>>

\* Every mirror has been given up.
NotFound ==
    /\ outcome = "pending"
    /\ base > MirrorCount \/ MaxRetries = 0
    /\ outcome' = "not_found"
    /\ UNCHANGED <<holds, parses, artifact, base, attempt, asked, taken>>

\* The evaluation timeout drops the pipeline.
TimeOut ==
    /\ outcome = "pending"
    /\ outcome' = "timed_out"
    /\ UNCHANGED <<holds, parses, artifact, base, attempt, asked, taken>>

FetchStep == Accept \/ Mismatch \/ Refused \/ Faulted \/ NotFound

Next == FetchStep \/ TimeOut

\* Requests end: the HTTP client's timeouts bound each of them.
Spec     == Init /\ [][Next]_vars
FairSpec == Spec /\ WF_vars(FetchStep)

-----------------------------------------------------------------------------
(* Properties.                                                             *)

\* Nothing but the committed bytes is ever parsed, and evaluation starts only
\* on committed bytes of both artifacts: a mirror cannot pass off other bytes by
\* coming first, or after failures of another (fetch_evidence).
OnlyCommittedIsEvaluated ==
    /\ \A a \in Artifacts : taken[a] # "altered"
    /\ outcome = "evaluate" => \A a \in Artifacts : taken[a] = "committed" /\ parses[a]

\* An artifact counts as not found only after every mirror that holds it was
\* asked as often as the configuration allows: faults of one mirror cost the
\* others no attempt (the two loops of fetch_evidence).
GivesUpOnlyAfterAll ==
    outcome = "not_found" =>
        \A m \in Mirrors :
            holds[artifact][m] # "nothing" => asked[artifact][m] = MaxRetries

\* A fetch comes to an end by itself, however its requests fail: no mirror is
\* asked for ever (the two loops of fetch_evidence).
FetchEnds == <>(outcome # "pending")

\* What README.md and .env.example say of the mirrors: the first hash-valid
\* response wins.  Other bytes at an earlier mirror should not end a fetch that
\* a later one can still serve.
FirstHashValidWins ==
    outcome = "mismatch" => \A m \in Mirrors : holds[artifact][m] # "committed"
=============================================================================
