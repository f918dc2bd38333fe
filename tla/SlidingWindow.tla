--------------------------- MODULE SlidingWindow ---------------------------
(***************************************************************************)
(* What the limiter of manual evaluations promises, seen from outside: at  *)
(* one moment a request is let in or refused, by nothing but the number of *)
(* requests let in lately.  How late counts as lately is known up to Slack.*)
(***************************************************************************)
EXTENDS Integers, FiniteSets

CONSTANTS Requests, Limit, Window, Slack

VARIABLES
    now,      \* the clock
    answer,   \* what each request was told, "none" before it was told anything
    admitted  \* the requests let in, each with the time of it

vars == <<now, answer, admitted>>

Init ==
    /\ now = 0
    /\ answer = [r \in Requests |-> "none"]
    /\ admitted = {}

\* How many were let in within the last `duration'.
Lately(duration) == Cardinality({a \in admitted : now - a.at <= duration})

Tell(r, what) ==
    /\ answer[r] = "none"
    /\ answer' = [answer EXCEPT ![r] = what]
    /\ UNCHANGED now

Admit(r) ==
    /\ Tell(r, "admitted")
    /\ Lately(Window - Slack) < Limit
    /\ admitted' = admitted \union {[request |-> r, at |-> now]}

Refuse(r) ==
    /\ Tell(r, "refused")
    /\ Lately(Window + Slack) >= Limit
    /\ UNCHANGED admitted

\* The request is not entitled, or its client goes away: the limiter keeps no trace.
TurnAway(r) ==
    /\ Tell(r, "turned away")
    /\ UNCHANGED admitted

Tick == now' = now + 1 /\ UNCHANGED <<answer, admitted>>

Next == Tick \/ \E r \in Requests : Admit(r) \/ Refuse(r) \/ TurnAway(r)

Spec == Init /\ [][Next]_vars
=============================================================================
