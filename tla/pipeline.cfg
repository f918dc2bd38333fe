SPECIFICATION PipelineSpec
CHECK_DEADLOCK FALSE
CONSTANTS
    MirrorCount = 2
    MaxRetries = 2
    Fields = {"a", "b"}
    SlaTexts <- MCSlaTexts
    Evidences <- MCEvidences
INVARIANT TypeOK
INVARIANT OnlyCommittedIsEvaluated
 
INVARIANT VerdictFollowsRules
PROPERTY FetchEnds
