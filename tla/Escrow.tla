------------------------------- MODULE Escrow -------------------------------
(***************************************************************************)
(* The on-chain side of the oracle, as far as oracle-qa can see it.        *)
(*                                                                         *)
(* The SLA-Escrow program is a dependency, not part of the repository: the *)
(* actions below are modelled from the fields read_payment and is_eligible *)
(* look at (oracle_authority, delivery_timestamp, resolution_state,        *)
(* expires_at) and from what their comments say the ConfirmOracle handler  *)
(* enforces.  The two predicates at the end are the oracle's own reads.    *)
(***************************************************************************)
CONSTANTS
    Payments,     \* payment accounts; each stands for its PDA and payment_uid
    Blockhashes,  \* the recent blockhashes an RPC node may hand out
    None          \* Rust's Option::None

VARIABLES
    delivered,    \* payments whose delivery_timestamp is non-zero
    expired,      \* payments whose expires_at lies behind the chain clock
    reassigned,   \* payments whose oracle_authority is no longer this oracle
    sent,         \* ConfirmOracle transactions submitted and not yet processed
    resolvedBy    \* the transaction that set resolution_state, or None

escrowVars == <<delivered, expired, reassigned, sent, resolvedBy>>

\* A signed ConfirmOracle transaction.  Signing is deterministic, so two tasks
\* that settle the same verdict on the same blockhash hold the same transaction
\* (and the same signature); otherwise the transactions differ.
Transactions ==
    [payment : Payments, approved : BOOLEAN, blockhash : Blockhashes]

EscrowTypeOK ==
    /\ delivered \subseteq Payments
    /\ expired \subseteq Payments
    /\ reassigned \subseteq Payments
    /\ sent \subseteq Transactions
    /\ resolvedBy \in [Payments -> Transactions \union {None}]

EscrowInit ==
    /\ delivered = {}
    /\ expired = {}
    /\ reassigned = {}
    /\ sent = {}
    /\ resolvedBy = [p \in Payments |-> None]

-----------------------------------------------------------------------------
(* The program and the cluster (external).                                 *)

\* The seller's SubmitDelivery sets delivery_timestamp and delivery_hash.
SubmitDelivery(p) ==
    /\ p \notin delivered \union expired
    /\ delivered' = delivered \union {p}
    /\ UNCHANGED <<expired, reassigned, sent, resolvedBy>>

\* The chain clock passes the payment's expires_at.
Expire(p) ==
    /\ p \notin expired
    /\ expired' = expired \union {p}
    /\ UNCHANGED <<delivered, reassigned, sent, resolvedBy>>

\* Governance rotates oracle_authority away from this oracle.
Reassign(p) ==
    /\ p \notin reassigned
    /\ resolvedBy[p] = None
    /\ reassigned' = reassigned \union {p}
    /\ UNCHANGED <<delivered, expired, sent, resolvedBy>>

\* ConfirmOracle executes: the program accepts one verdict per payment, from
\* its authority, after delivery and before expiry.
Land(tx) ==
    /\ tx \in sent
    /\ tx.payment \in delivered \ (expired \union reassigned)
    /\ resolvedBy[tx.payment] = None
    /\ resolvedBy' = [resolvedBy EXCEPT ![tx.payment] = tx]
    /\ sent' = sent \ {tx}
    /\ UNCHANGED <<delivered, expired, reassigned>>

\* ConfirmOracle fails on chain, or its blockhash ages out before it is processed.
Drop(tx) ==
    /\ tx \in sent
    /\ sent' = sent \ {tx}
    /\ UNCHANGED <<delivered, expired, reassigned, resolvedBy>>

Chain ==
    \/ \E p \in Payments : SubmitDelivery(p) \/ Expire(p) \/ Reassign(p)
    \/ \E tx \in sent : Land(tx) \/ Drop(tx)

-----------------------------------------------------------------------------
(* The oracle's reads of a payment account.                                *)

\* read_payment returns Some(job): assigned to this oracle, delivered, and not
\* resolved.  It does not look at expires_at.
ReadsAsJob(p) ==
    /\ p \in delivered
    /\ p \notin reassigned
    /\ resolvedBy[p] = None

BugEligible(p) ==
    /\ p \in delivered
    /\ p \notin reassigned
    /\ p \notin expired

\* is_eligible returns true, with the on-chain clock.
Eligible(p) ==
    /\ p \in delivered
    /\ p \notin reassigned
    /\ resolvedBy[p] = None
    /\ p \notin expired

=============================================================================
