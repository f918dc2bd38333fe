------------------------------ MODULE Pipeline ------------------------------
(***************************************************************************)
(* Steps 2 and 3 of run_pipeline (pipeline.rs) and the arguments of        *)
(* step 4: what EvidenceFetch delivers is parsed, evaluated by Evaluator   *)
(* and turned into the ConfirmOracle instruction to submit.                *)
(***************************************************************************)
EXTENDS EvidenceFetch, Evaluator

CONSTANTS
    SlaTexts,  \* SLA texts, in which optional values may be left out
    Evidences  \* delivery evidence

ASSUME PipelineAssumption ==
    /\ \A text \in SlaTexts : WithDefaults(text) \in SlaDocuments
    /\ Evidences \subseteq DeliveryEvidence

VARIABLES
    judged,      \* history: what was evaluated, and whether strictly
    instruction  \* the arguments of ConfirmOracle

pipelineVars == <<vars, judged, instruction>>

NotJudged   == [text |-> {}, evidence |-> {}, strict |-> {}]
Unsubmitted == [resolution_state |-> 0, resolution_reason |-> "None"]

PipelineInit ==
    /\ Init
    /\ judged = NotJudged
    /\ instruction = Unsubmitted

ResolutionState(approved) == IF approved THEN 1 ELSE 2

\* Both artifacts are there.  No wait separates the fetch from the evaluation,
\* so that the timeout cannot come between them.
Judge ==
    /\ outcome = "evaluate"
    /\ judged = NotJudged
    /\ \E text \in SlaTexts, evidence \in Evidences, strict \in BOOLEAN :
          LET result == Evaluate(WithDefaults(text), evidence, strict)
          IN /\ judged' = [text |-> {text}, evidence |-> {evidence}, strict |-> {strict}]
             /\ instruction' = [resolution_state  |-> ResolutionState(result.approved),
                                resolution_reason |-> result.resolution_reason]
    /\ UNCHANGED vars

PipelineNext ==
    \/ Next /\ UNCHANGED <<judged, instruction>>
    \/ Judge

PipelineSpec ==
    /\ PipelineInit
    /\ [][PipelineNext]_pipelineVars
    /\ WF_pipelineVars(FetchStep /\ UNCHANGED <<judged, instruction>>)

-----------------------------------------------------------------------------
(* Properties.                                                             *)

\* What is submitted is the verdict of NORMATIVE.md section 6 on documents whose
\* bytes are the committed ones: approved exactly if every rule holds, and else
\* with the reason of the first one that does not (run_pipeline, evaluate_impl).
VerdictFollowsRules ==
    judged # NotJudged =>
        /\ \A a \in Artifacts : taken[a] = "committed"
        /\ instruction.resolution_state \in {1, 2}
        /\ \A text \in judged.text, evidence \in judged.evidence, strict \in judged.strict :
              FollowsRules([approved          |-> instruction.resolution_state = 1,
                            resolution_reason |-> instruction.resolution_reason],
                           Rules(WithDefaults(text), evidence, strict))
=============================================================================
