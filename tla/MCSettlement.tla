---------------------------- MODULE MCSettlement ----------------------------
(***************************************************************************)
(* Instances of Settlement for TLC: the processes that serve requests, and *)
(* what the documents of the payments amount to.                           *)
(***************************************************************************)
EXTENDS Settlement, TLC

CONSTANTS p1, p2, w1, w2, h1

\* No process serves manual requests, or w1 does.
HostNone == <<>>
HostOne  == [h \in {h1} |-> w1]

\* One payment that complies or violates its SLA, or two with one that does not
\* even parse.
DocsCompliant == p1 :> "compliant"
DocsViolating == p1 :> "violating"
DocsMixed     == p1 :> "violating" @@ p2 :> "unusable"
=============================================================================
