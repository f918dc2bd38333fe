----------------------------- MODULE Admission -----------------------------
(***************************************************************************)
(* What stands before a manual evaluation: authorize_manual_evaluate       *)
(* (server.rs), with the operator token from the environment (config.rs).  *)
(*                                                                         *)
(* A handler takes its time stamp and then waits for the lock on the queue *)
(* of earlier stamps, so that stamps may enter the queue out of order.     *)
(* An optional value is a set of at most one element.                      *)
(***************************************************************************)
EXTENDS Integers, Sequences

CONSTANTS
    Requests,  \* requests to POST /evaluate
    Limit,     \* ORACLE_MANUAL_EVALUATE_RATE_LIMIT
    Window,    \* ORACLE_MANUAL_EVALUATE_RATE_WINDOW_MS, at least 1
    MaxWait,   \* longest wait for the lock
    MaxTime    \* bound on the clock

ASSUME AdmissionAssumption ==
    /\ Limit \in Nat
    /\ Window \in Nat \ {0}
    /\ MaxWait \in Nat
    /\ MaxTime \in Nat

\* "hashed" is the token ORACLE_OPERATOR_TOKEN_SHA256 is the hash of, "plain" the
\* value of ORACLE_OPERATOR_TOKEN.
Tokens  == {"hashed", "plain", "other"}
Absent  == {}
Present(token) == {token}

Environments ==
    [sha256 : {Absent, Present("hashed")},
     plain  : {Absent, Present("plain")},
     allow_unauthenticated : BOOLEAN]

\* Bearer token and x-oracle-token header.
OptionalTokens == {Absent} \union {Present(t) : t \in Tokens}

Headers == [bearer : OptionalTokens, custom : OptionalTokens]

VARIABLES
    env,        \* the configuration
    now,        \* the monotonic clock
    phase,      \* where the handling of each request is
    stamp,      \* the time stamp a waiting handler holds, 0 before
    token,      \* history: the token each request was let through with
    requests,   \* manual_evaluate_requests: stamps of admitted requests
    admissions  \* history: all admissions, with their stamps and their times

vars == <<env, now, phase, stamp, token, requests, admissions>>

Phases == {"new", "waiting", "admitted", "unavailable", "unauthorized", "limited", "gone"}

Times == 0 .. MaxTime

Init ==
    /\ env \in Environments
    /\ now = 0
    /\ phase = [r \in Requests |-> "new"]
    /\ stamp = [r \in Requests |-> 0]
    /\ token = [r \in Requests |-> Absent]
    /\ requests = <<>>
    /\ admissions = <<>>

-----------------------------------------------------------------------------
(* Authorization.                                                          *)

\* The hash has precedence over the token itself.
ExpectedToken == IF env.sha256 # Absent THEN env.sha256 ELSE env.plain

BugSupplied(headers) == headers.custom \union headers.bearer

\* The bearer token has precedence over the other header.
Supplied(headers) == IF headers.bearer # Absent THEN headers.bearer ELSE headers.custom

Enabled == ExpectedToken # Absent \/ env.allow_unauthenticated

BugAuthorized(headers) == ExpectedToken = Absent \/ ExpectedToken \subseteq BugSupplied(headers)

Authorized(headers) == ExpectedToken # Absent => Supplied(headers) = ExpectedToken

Answer(r, kind) == phase' = [phase EXCEPT ![r] = kind]

Unavailable(r) ==
    /\ phase[r] = "new"
    /\ ~Enabled
    /\ Answer(r, "unavailable")
    /\ UNCHANGED <<env, now, stamp, token, requests, admissions>>

Unauthorized(r, headers) ==
    /\ phase[r] = "new"
    /\ Enabled
    /\ ~Authorized(headers)
    /\ Answer(r, "unauthorized")
    /\ UNCHANGED <<env, now, stamp, token, requests, admissions>>

\* The time stamp is taken before the wait for the lock.
Stamp(r, headers) ==
    /\ phase[r] = "new"
    /\ Enabled
    /\ Authorized(headers)
    /\ Answer(r, "waiting")
    /\ stamp' = [stamp EXCEPT ![r] = now]
    /\ token' = [token EXCEPT ![r] = Supplied(headers)]
    /\ UNCHANGED <<env, now, requests, admissions>>

-----------------------------------------------------------------------------
(* The limiter.                                                            *)

BugExpired(t, s) == s - t >= Window

\* Durations saturate at zero: a stamp of a later time is never expired.
Expired(t, s) == s - t > Window

BugPrunes(n, s) == n = 0

\* With stamp s, the holder of the lock drops the first n stamps of the queue.
Prunes(n, s) ==
    /\ \A i \in 1 .. n : Expired(requests[i], s)
    /\ n < Len(requests) => ~Expired(requests[n + 1], s)

Rest(n) == SubSeq(requests, n + 1, Len(requests))

BugIsFull(queue) == Len(queue) > Limit

IsFull(queue) == Len(queue) >= Limit

\* The handler's time stamp goes with it.
Return(r, kind) == Answer(r, kind) /\ stamp' = [stamp EXCEPT ![r] = 0]

BugAdmitInFront(r, n) ==
    /\ phase[r] = "waiting"
    /\ Prunes(n, stamp[r])
    /\ ~IsFull(Rest(n))
    /\ requests' = <<stamp[r]>> \o Rest(n)
    /\ admissions' = Append(admissions, [request |-> r, stamp |-> stamp[r], at |-> now])
    /\ Return(r, "admitted")
    /\ UNCHANGED <<env, now, token>>

Admit(r, n) ==
    /\ phase[r] = "waiting"
    /\ Prunes(n, stamp[r])
    /\ ~IsFull(Rest(n))
    /\ requests' = Append(Rest(n), stamp[r])
    /\ admissions' = Append(admissions, [request |-> r, stamp |-> stamp[r], at |-> now])
    /\ Return(r, "admitted")
    /\ UNCHANGED <<env, now, token>>

\* A refused request has pruned the queue all the same.
Refuse(r, n) ==
    /\ phase[r] = "waiting"
    /\ Prunes(n, stamp[r])
    /\ IsFull(Rest(n))
    /\ requests' = Rest(n)
    /\ Return(r, "limited")
    /\ UNCHANGED <<env, now, token, admissions>>

\* The client goes away while its handler waits for the lock.
Leave(r) ==
    /\ phase[r] = "waiting"
    /\ Return(r, "gone")
    /\ UNCHANGED <<env, now, token, requests, admissions>>

\* No handler waits for the lock for longer than MaxWait.
Tick ==
    /\ now < MaxTime
    /\ \A r \in Requests : phase[r] = "waiting" => now < stamp[r] + MaxWait
    /\ now' = now + 1
    /\ UNCHANGED <<env, phase, stamp, token, requests, admissions>>

Handle(r) ==
    \/ Unavailable(r)
    \/ \E headers \in Headers : Unauthorized(r, headers) \/ Stamp(r, headers)
    \/ \E n \in 0 .. Len(requests) : Admit(r, n) \/ Refuse(r, n)
    \/ Leave(r)

Next == Tick \/ \E r \in Requests : Handle(r)

Spec == Init /\ [][Next]_vars

-----------------------------------------------------------------------------
(* Properties.                                                             *)

\* Every variable keeps its type, and the queue never holds more than Limit
\* stamps (server.rs, authorize_manual_evaluate).
TypeOK ==
    /\ env \in Environments
    /\ now \in Times
    /\ phase \in [Requests -> Phases]
    /\ stamp \in [Requests -> Times]
    /\ token \in [Requests -> OptionalTokens]
    /\ requests \in Seq(Times)
    /\ Len(requests) <= Limit
    /\ admissions \in Seq([request : Requests, stamp : Times, at : Times])

\* In no interval of real time of length Window - MaxWait are more than Limit
\* evaluations admitted, in whatever order the stamps enter the queue: the wait
\* for the lock may shorten the window, and by no more than its own length
\* (server.rs, authorize_manual_evaluate).
RateIsBounded ==
    \A i, j \in DOMAIN admissions :
        j >= i + Limit => admissions[j].at - admissions[i].at > Window - MaxWait

\* A request is refused only if Limit requests were admitted within Window +
\* MaxWait: neither refused requests nor those that never got past the token,
\* nor stamps that are overdue in the queue, use up the budget (server.rs,
\* authorize_manual_evaluate).
RefusalIsEarned ==
    \A r \in Requests :
        phase[r] = "waiting" /\ phase'[r] = "limited" =>
            \/ Limit = 0
            \/ /\ Len(admissions) >= Limit
               /\ now - admissions[Len(admissions) - Limit + 1].at <= Window + MaxWait

RefusalsAreEarned == [][RefusalIsEarned]_vars

\* Whatever headers are combined, a request admitted to an oracle with an operator
\* token brought it: the hash where both variables are set. Without one the
\* operator has allowed it (config.rs, Config::from_env; server.rs,
\* authorize_manual_evaluate).
AdmittedIsAuthorized ==
    \A i \in DOMAIN admissions :
        LET brought == token[admissions[i].request]
        IN  \/ env.sha256 # Absent /\ brought = env.sha256
            \/ env.sha256 = Absent /\ env.plain # Absent /\ brought = env.plain
            \/ env.sha256 = Absent /\ env.plain = Absent /\ env.allow_unauthenticated

-----------------------------------------------------------------------------
(* The promise of the limiter.                                             *)

Told(kind) ==
    CASE kind \in {"new", "waiting"} -> "none"
      [] kind = "admitted"           -> "admitted"
      [] kind = "limited"            -> "refused"
      [] OTHER                       -> "turned away"

LetIn(i) == [request |-> admissions[i].request, at |-> admissions[i].at]

Limiter == INSTANCE SlidingWindow WITH
    Slack    <- MaxWait,
    answer   <- [r \in Requests |-> Told(phase[r])],
    admitted <- {LetIn(i) : i \in DOMAIN admissions}

\* The queue of stamps, taken before the lock and pruned by whoever holds it, lets in
\* and refuses as a count of the latest admissions would; it is out by no more than
\* the wait for the lock (server.rs, authorize_manual_evaluate).
ImplementsSlidingWindow == Limiter!Spec
=============================================================================
