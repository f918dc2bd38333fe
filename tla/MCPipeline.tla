----------------------------- MODULE MCPipeline -----------------------------
(***************************************************************************)
(* Documents for the runs of Pipeline: every check can pass, fail or be    *)
(* left out, alone or with others, and numbers stand at their limits.      *)
(***************************************************************************)
EXTENDS Pipeline

\* Which of version and profile_id is in order, and which limits are left out.
Heads ==
    {[version |-> 1, profile_id |-> {}], [version |-> 1, profile_id |-> {ProfileId}],
     [version |-> 1, profile_id |-> {"other"}], [version |-> 2, profile_id |-> {ProfileId}]}

Limits ==
    {[status |-> {},    latency |-> {},     length |-> {7}],
     [status |-> {201}, latency |-> {5001}, length |-> {}]}

MCSlaTexts ==
    {[version         |-> head.version,
      profile_id      |-> head.profile_id,
      response_schema |-> schema,
      required_fields |-> required,
      max_latency_ms  |-> limits.latency,
      min_status_code |-> limits.status,
      max_status_code |-> limits.status,
      min_body_length |-> limits.length] :
        head \in Heads, limits \in Limits,
        schema \in Option({"sound", "broken"}), required \in {<<>>, <<"a", "b">>}}

MCEvidences ==
    {[status_code |-> sent[1], latency_ms |-> sent[2], response_body |-> body] :
        sent \in {<<199, 5000>>, <<200, 5001>>, <<201, 5001>>, <<299, 5000>>, <<300, 5000>>},
        body \in {[keys |-> {{"a", "b"}}, conforms |-> TRUE,  length |-> 7],
                  [keys |-> {{"b"}},      conforms |-> FALSE, length |-> 7],
                  [keys |-> {},           conforms |-> TRUE,  length |-> 4]}}
=============================================================================
