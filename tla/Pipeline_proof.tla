--------------------------- MODULE Pipeline_proof ---------------------------
(***************************************************************************)
(* Steps 2 and 3 of run_pipeline as a whole: for any mirrors, failures and *)
(* documents, what is submitted is the verdict of the rule set on the      *)
(* committed documents.                                                    *)
(***************************************************************************)
EXTENDS Pipeline, EvidenceFetch_proof, Evaluator_proof

\* What has been judged was complete, and nothing moves afterwards.
PipelineInv ==
    /\ FetchInv
    /\ judged # NotJudged => outcome = "evaluate"
    /\ VerdictFollowsRules

LEMMA PipelineInvInit == PipelineInit => PipelineInv
  BY FetchInit DEF PipelineInit, PipelineInv, VerdictFollowsRules

\* The instruction says what the evaluator answered.
LEMMA JudgeFollowsRules ==
    ASSUME PipelineInv, Judge
    PROVE  VerdictFollowsRules'
<1>1. PICK text \in SlaTexts, evidence \in Evidences, strict \in BOOLEAN :
         LET result == Evaluate(WithDefaults(text), evidence, strict)
         IN /\ judged' = [text |-> {text}, evidence |-> {evidence}, strict |-> {strict}]
            /\ instruction' = [resolution_state  |-> ResolutionState(result.approved),
                               resolution_reason |-> result.resolution_reason]
  BY DEF Judge
<1> DEFINE sla    == WithDefaults(text)
           result == Evaluate(sla, evidence, strict)
           rules  == Rules(sla, evidence, strict)
<1>2. sla \in SlaDocuments /\ evidence \in DeliveryEvidence
  BY PipelineAssumption
<1>3. FollowsRules(result, rules)
  BY <1>2, EvaluatorFollowsRules
<1>4. result = [approved          |-> Approved(Checks(sla, evidence, strict)),
                resolution_reason |-> ResolutionReason(Checks(sla, evidence, strict))]
  BY DEF Evaluate
<1>5. result.approved \in BOOLEAN
  BY <1>4 DEF Approved
<1>6. /\ instruction'.resolution_state = IF result.approved THEN 1 ELSE 2
      /\ instruction'.resolution_reason = result.resolution_reason
  BY <1>1 DEF ResolutionState
<1> HIDE DEF result
<1>7. [approved          |-> instruction'.resolution_state = 1,
       resolution_reason |-> instruction'.resolution_reason] = result
  <2>1. (instruction'.resolution_state = 1) = result.approved
    BY <1>5, <1>6
  <2> QED
    BY <1>4, <1>6, <2>1
<1>8. \A a \in Artifacts : taken'[a] = "committed"
  BY DEF PipelineInv, FetchInv, OnlyCommittedIsEvaluated, Judge, vars
<1>9. instruction'.resolution_state \in {1, 2}
  BY <1>6
<1>10. judged'.text = {text} /\ judged'.evidence = {evidence} /\ judged'.strict = {strict}
  BY <1>1
<1> QED
  BY <1>3, <1>7, <1>8, <1>9, <1>10 DEF VerdictFollowsRules, result

LEMMA PipelineInvStep == PipelineInv /\ [PipelineNext]_pipelineVars => PipelineInv'
<1> SUFFICES ASSUME PipelineInv, [PipelineNext]_pipelineVars
             PROVE  PipelineInv'
  OBVIOUS
<1>1. CASE Next /\ UNCHANGED <<judged, instruction>>
  <2>1. judged = NotJudged
    BY <1>1 DEF PipelineInv, Next, FetchStep, Accept, Mismatch, Refused, Faulted, NotFound,
                TimeOut, Asking
  <2>2. FetchInv'
    BY <1>1, FetchInvStep DEF PipelineInv
  <2> QED
    BY <1>1, <2>1, <2>2 DEF PipelineInv, VerdictFollowsRules, NotJudged
<1>2. CASE Judge
  <2>1. FetchInv'
    BY <1>2, FetchInvStep DEF PipelineInv, Judge
  <2> QED
    BY <1>2, <2>1, JudgeFollowsRules DEF PipelineInv, Judge, vars
<1>3. CASE UNCHANGED pipelineVars
  <2>1. FetchInv'
    BY <1>3, FetchInvStep DEF PipelineInv, pipelineVars
  <2> QED
    BY <1>3, <2>1 DEF PipelineInv, VerdictFollowsRules, pipelineVars, vars, NotJudged
<1> QED
  BY <1>1, <1>2, <1>3 DEF PipelineNext

\* For any number of mirrors and attempts and any documents, ConfirmOracle is
\* submitted with the verdict of the rule set on committed documents, or not at
\* all (run_pipeline in pipeline.rs, evaluate_impl in evaluator.rs).
THEOREM PipelineFollowsRules == PipelineSpec => []VerdictFollowsRules
<1>1. PipelineInv => VerdictFollowsRules
  BY DEF PipelineInv
<1> QED
  BY <1>1, PipelineInvInit, PipelineInvStep, PTL DEF PipelineSpec
=============================================================================
