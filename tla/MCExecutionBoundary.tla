------------------------- MODULE MCExecutionBoundary -------------------------
(* ExecutionBoundary with a routine intent and an override, one good approval, *)
(* one for the other intent, and two callers that try either for the first.    *)
EXTENDS ExecutionBoundary

Intent(type, loss, size, expires) ==
    [intent_type |-> type, max_loss |-> loss, max_position_size |-> size,
     expires_at |-> expires]

MCIntents == [open |-> Intent("open_position", {5}, {1}, {0}),
              over |-> Intent("manual_override", {}, {}, {})]

Approval(i, ok, who, conditional, conditions, expires) ==
    [intent_id |-> i, approved |-> ok, authority_level |-> who,
     conditional_approval |-> conditional, approval_conditions |-> conditions,
     expires_at |-> expires]

MCApprovals == [good |-> Approval("open", TRUE, "human_trader", FALSE, 0, {1}),
                trader |-> Approval("over", TRUE, "human_trader", FALSE, 0, {})]

MCJobs == {<<"open", {"good"}>>, <<"open", {"trader"}>>}

MCSymmetry == Permutations(Callers)
=============================================================================
