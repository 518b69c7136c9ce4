----------------------------- MODULE MCJobEdits -----------------------------
(* Payloads for three jobs and two requests at a time. *)
EXTENDS JobEdits

CONSTANTS a, b, c, conf1, conf2

OneTime == [action_type |-> "http", action_config |-> conf1, job_type |-> "normal",
            enabled |-> TRUE, upstream_job_ids |-> {a}, downstream_job_ids |-> {b}]
MCCreates == {OneTime}
MCUpdates ==
    {[action_type |-> "shell"], [action_config |-> conf2, enabled |-> FALSE],
     [enabled |-> TRUE], [upstream_job_ids |-> {a, b}], [upstream_job_ids |-> {}],
     [downstream_job_ids |-> {a}]}
MCFits == {"http", "shell"} \X {conf1, conf2}

=============================================================================
