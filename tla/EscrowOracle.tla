---------------------------- MODULE EscrowOracle ----------------------------
(***************************************************************************)
(* What the oracle promises the parties of an escrow: every payment is     *)
(* resolved at most once, with the verdict its documents call for, and the *)
(* oracle's own record of the verdict follows the chain and never departs  *)
(* from it.                                                                *)
(***************************************************************************)
CONSTANTS
    Payments,
    Verdict      \* the verdict each payment's documents call for, or "none"

VARIABLES
    resolution,  \* the verdict on chain, "open" before there is one
    published    \* the verdict in the oracle's ledger, "none" before there is one

vars == <<resolution, published>>

Init ==
    /\ resolution = [p \in Payments |-> "open"]
    /\ published = [p \in Payments |-> "none"]

Resolve(p) ==
    /\ resolution[p] = "open"
    /\ Verdict[p] # "none"
    /\ resolution' = [resolution EXCEPT ![p] = Verdict[p]]
    /\ UNCHANGED published

Publish(p) ==
    /\ published[p] = "none"
    /\ resolution[p] # "open"
    /\ published' = [published EXCEPT ![p] = resolution[p]]
    /\ UNCHANGED resolution

Next == \E p \in Payments : Resolve(p) \/ Publish(p)

Spec == Init /\ [][Next]_vars
=============================================================================
