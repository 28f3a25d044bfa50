---------------------------- MODULE HumanApproval ----------------------------
(***************************************************************************)
(* Stage 8, reasoner_service/human_approval_manager.py: humans approve or  *)
(* reject advisories, which expire; a caller asks whether an advisory may  *)
(* be executed.  The manager keeps the approved snapshot and the outcome   *)
(* of each advisory in two dictionaries, and an audit log that is meant to *)
(* be the source of truth for both.                                        *)
(*                                                                         *)
(* Calls do not overlap.  Time passes between them, and an advisory may be *)
(* presented again with the same id and other contents.                    *)
(***************************************************************************)
EXTENDS Naturals, Sequences

CONSTANTS
    AdvisoryIds,    \* advisory_id
    Snapshots,      \* the AdvisorySnapshots that may be presented
    MaxTime,        \* bound: the clock stops there
    MaxCalls        \* bound: how many calls are answered

\* price stands for the contents that are executed; "complete" tells whether the
\* required fields are present.
AdvisorySnapshot ==
    [advisory_id : AdvisoryIds, price : Nat, expiration : Nat, complete : BOOLEAN]

ASSUME ApprovalAssumption ==
    /\ Snapshots \subseteq AdvisorySnapshot
    /\ MaxTime \in Nat
    /\ MaxCalls \in Nat

VARIABLES
    approvals,           \* advisory_id -> approved snapshot; None when absent
    approval_outcomes,   \* advisory_id -> outcome; "none" when absent
    audit_log,
    now,                 \* the wall clock
    granted              \* history: the executions that were let through

vars == <<approvals, approval_outcomes, audit_log, now, granted>>

None == [advisory_id |-> "none"]
Decisions == {"APPROVED", "REJECTED"}

AuditLogEntry == [state_snapshot : Snapshots, outcome : Decisions \cup {"EXPIRED"}]

\* audits: the length of the audit log when the execution was let through.
Grant == [snapshot : Snapshots, at : Nat, audits : Nat]

-----------------------------------------------------------------------------
\* _stage7_expiration_check(): the last moment itself is still valid.
Expired(snapshot) == now > snapshot.expiration

\* One more call is answered.
WithinBound == Len(audit_log) + Len(granted) < MaxCalls

\* approve_advisory() on an expired advisory: audited, and nothing else.
ApproveExpired_mut_stores(snapshot) ==
    /\ WithinBound
    /\ snapshot.complete
    /\ Expired(snapshot)
    /\ audit_log' = Append(audit_log,
                           [state_snapshot |-> snapshot, outcome |-> "EXPIRED"])
    /\ approvals' = [approvals EXCEPT ![snapshot.advisory_id] = snapshot]
    /\ UNCHANGED <<approval_outcomes, now, granted>>
ApproveExpired(snapshot) ==
    /\ WithinBound
    /\ snapshot.complete
    /\ Expired(snapshot)
    /\ audit_log' = Append(audit_log,
                           [state_snapshot |-> snapshot, outcome |-> "EXPIRED"])
    /\ UNCHANGED <<approvals, approval_outcomes, now, granted>>

\* approve_advisory() with a decision: an approval stores the snapshot, a
\* rejection leaves an earlier one where it is; both store the outcome.
\* An incomplete snapshot raises before anything is stored.
ApproveAdvisory_mut_keeps_outcome(snapshot, approve) ==
    /\ WithinBound
    /\ snapshot.complete
    /\ ~Expired(snapshot)
    /\ LET id == snapshot.advisory_id
           outcome == IF approve THEN "APPROVED" ELSE "REJECTED"
       IN /\ approvals' = IF approve THEN [approvals EXCEPT ![id] = snapshot]
                                     ELSE approvals
          /\ approval_outcomes' = IF approve
                                    THEN [approval_outcomes EXCEPT ![id] = outcome]
                                    ELSE approval_outcomes
          /\ audit_log' = Append(audit_log, [state_snapshot |-> snapshot,
                                             outcome |-> outcome])
    /\ UNCHANGED <<now, granted>>
ApproveAdvisory(snapshot, approve) ==
    /\ WithinBound
    /\ snapshot.complete
    /\ ~Expired(snapshot)
    /\ LET id == snapshot.advisory_id
           outcome == IF approve THEN "APPROVED" ELSE "REJECTED"
       IN /\ approvals' = IF approve THEN [approvals EXCEPT ![id] = snapshot]
                                     ELSE approvals
          /\ approval_outcomes' = [approval_outcomes EXCEPT ![id] = outcome]
          /\ audit_log' = Append(audit_log, [state_snapshot |-> snapshot,
                                             outcome |-> outcome])
    /\ UNCHANGED <<now, granted>>

\* is_approval_valid(), and the condition of execute_if_approved().
IsApprovalValid(id) ==
    /\ approval_outcomes[id] = "APPROVED"
    /\ approvals[id] # None
    /\ ~Expired(approvals[id])

\* execute_if_approved() returning True; otherwise it changes nothing.
ExecuteIfApproved(id) ==
    /\ WithinBound
    /\ IsApprovalValid(id)
    /\ granted' = Append(granted, [snapshot |-> approvals[id], at |-> now,
                                   audits |-> Len(audit_log)])
    /\ UNCHANGED <<approvals, approval_outcomes, audit_log, now>>

Tick ==
    /\ now < MaxTime
    /\ now' = now + 1
    /\ UNCHANGED <<approvals, approval_outcomes, audit_log, granted>>

Init ==
    /\ approvals = [id \in AdvisoryIds |-> None]
    /\ approval_outcomes = [id \in AdvisoryIds |-> "none"]
    /\ audit_log = <<>>
    /\ now = 0
    /\ granted = <<>>

\* The bounds are reached.
AllAnswered ==
    /\ ~WithinBound
    /\ now = MaxTime
    /\ UNCHANGED vars

Next ==
    \/ \E s \in Snapshots :
          \/ ApproveExpired(s)
          \/ \E approve \in BOOLEAN : ApproveAdvisory(s, approve)
    \/ \E id \in AdvisoryIds : ExecuteIfApproved(id)
    \/ Tick
    \/ AllAnswered

Spec == Init /\ [][Next]_vars

-----------------------------------------------------------------------------
(* Properties *)

\* Every variable keeps the type the code gives it.
TypeOK ==
    /\ approvals \in [AdvisoryIds -> Snapshots \cup {None}]
    /\ approval_outcomes \in [AdvisoryIds -> Decisions \cup {"none"}]
    /\ audit_log \in Seq(AuditLogEntry)
    /\ now \in Nat
    /\ granted \in Seq(Grant)

\* An entry about an advisory whose outcome is of the given kinds.
Concerns(entry, id, kinds) ==
    /\ entry.state_snapshot.advisory_id = id
    /\ entry.outcome \in kinds

\* Entry k is the last such entry among the first n of a log.
IsLast(log, k, id, kinds, n) ==
    /\ k \in 1..n
    /\ Concerns(log[k], id, kinds)
    /\ \A j \in 1..n : j > k => ~Concerns(log[j], id, kinds)

\* "Audit trail is source of truth": what the dictionaries hold can be read off
\* the audit log, through any sequence of approvals, rejections, expiries and
\* resubmissions: the outcome is that of the last decision and the snapshot
\* that of the last approval.
StoreMatchesAudit ==
    \A id \in AdvisoryIds :
        /\ approval_outcomes[id] # "none" =>
              \E k \in DOMAIN audit_log :
                  /\ IsLast(audit_log, k, id, Decisions, Len(audit_log))
                  /\ audit_log[k].outcome = approval_outcomes[id]
        /\ approvals[id] # None =>
              \E k \in DOMAIN audit_log :
                  /\ IsLast(audit_log, k, id, {"APPROVED"}, Len(audit_log))
                  /\ audit_log[k].state_snapshot = approvals[id]

\* "Execute only if approved AND unexpired": an execution that was let through
\* used the very snapshot a human approved in the last decision about that
\* advisory, not one that a later rejection or a later version has replaced, and
\* did so before it expired.
GrantsAreDecided ==
    \A g \in DOMAIN granted :
        /\ granted[g].at <= granted[g].snapshot.expiration
        /\ \E k \in DOMAIN audit_log :
              /\ IsLast(audit_log, k, granted[g].snapshot.advisory_id, Decisions,
                        granted[g].audits)
              /\ audit_log[k].outcome = "APPROVED"
              /\ audit_log[k].state_snapshot = granted[g].snapshot

=============================================================================
