-------------------------- MODULE MCDeliveryMatch --------------------------
(* Instances of DeliveryMatch for TLC. *)
EXTENDS DeliveryMatch

Three == 1 .. 3

Delivers(p, f) ==
    [form |-> f, program |-> "escrow", opcode |-> "SubmitDelivery", accounts |-> 5, payment |-> p]

\* A delivery for each payment, and four instructions that only resemble one.
SomeInstructions ==
    {Delivers(1, "partial"), Delivers(2, "compiled"), Delivers(3, "partial"),
     Delivers(3, "parsed"),
     [Delivers(3, "partial")  EXCEPT !.program = "other"],
     [Delivers(2, "compiled") EXCEPT !.opcode = "other"],
     [Delivers(2, "compiled") EXCEPT !.accounts = 4]}

\* An event for two of the payments, one of an older delivery, one line that is none.
SomeLines ==
    {[data |-> "event", payment |-> 2, hash |-> "current"],
     [data |-> "event", payment |-> 3, hash |-> "current"],
     [data |-> "event", payment |-> 1, hash |-> "stale"],
     [data |-> "other", payment |-> 1, hash |-> "current"]}
=============================================================================
