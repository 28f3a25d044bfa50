------------------------------ MODULE HumanReview ------------------------------
(***************************************************************************)
(* DecisionHumanReviewService: review sessions, what people attach to      *)
(* them, and one log of everything.  The log is exported in the order of   *)
(* its timestamps, and an auditor reads the sessions off it.               *)
(***************************************************************************)
EXTENDS Optionals

CONSTANTS
    ReviewedIds,      \* correlation ids of the contexts under review
    AnnotationTypes,  \* of which the summary knows some
    PnlImpacts,       \* pnl_impact of a disagreement, {} when float() fails
    MaxReviews,       \* bound: entries of the log
    MaxReviewTime     \* bound: the clock stops there

ASSUME HumanReviewAssumption == MaxReviews \in Nat /\ MaxReviewTime \in Nat

VARIABLES
    reviewTime,       \* the wall clock
    setBack,          \* history: it was ever set back
    reviewSessions,   \* _review_sessions, by <<correlation id, time of creation>>
    annotations, disagreements,    \* by session id
    allReviews        \* _all_reviews
reviewVars == <<reviewTime, setBack, reviewSessions, annotations, disagreements, allReviews>>

ReviewStatus == {"created", "in_progress", "completed", "archived"}
DisagreementSeverity == {"minor", "moderate", "severe", "catastrophic"}

HumanReviewTypeOK ==
    /\ reviewTime \in 0..MaxReviewTime /\ setBack \in BOOLEAN /\ Len(allReviews) <= MaxReviews
    /\ DOMAIN reviewSessions = DOMAIN annotations /\ DOMAIN reviewSessions = DOMAIN disagreements
    /\ \A id \in DOMAIN reviewSessions :
          reviewSessions[id] \in [status : ReviewStatus, annotation_count : 0..MaxReviews,
                                  disagreement_count : 0..MaxReviews]

HumanReviewInit ==
    /\ reviewTime = 0 /\ setBack = FALSE /\ allReviews = <<>>
    /\ reviewSessions = <<>> /\ annotations = <<>> /\ disagreements = <<>>

Log(type, id, data) ==
    /\ Len(allReviews) < MaxReviews
    /\ allReviews' = Append(allReviews,
          [type |-> type, session_id |-> id, timestamp |-> reviewTime, data |-> data])
    /\ UNCHANGED <<reviewTime, setBack>>

WithEntry(f, id, value) == [i \in DOMAIN f \cup {id} |-> IF i = id THEN value ELSE f[i]]

\* The id is a digest of correlation id and time: the same two name the same
\* session, and creating it again empties it.
CreateReviewSession_mut_keepsNotes(correlation_id) ==
    LET id == <<correlation_id, reviewTime>>
    IN  /\ Log("session_created", id, "")
        /\ reviewSessions' = WithEntry(reviewSessions, id,
              [status |-> "created", annotation_count |-> 0, disagreement_count |-> 0])
        /\ annotations' = WithEntry(annotations, id, IF id \in DOMAIN annotations THEN annotations[id] ELSE <<>>)
        /\ disagreements' = WithEntry(disagreements, id, <<>>)
CreateReviewSession(correlation_id) ==
    LET id == <<correlation_id, reviewTime>>
    IN  /\ Log("session_created", id, "")
        /\ reviewSessions' = WithEntry(reviewSessions, id,
              [status |-> "created", annotation_count |-> 0, disagreement_count |-> 0])
        /\ annotations' = WithEntry(annotations, id, <<>>)
        /\ disagreements' = WithEntry(disagreements, id, <<>>)

\* An annotation of an unknown session, or one that is no dict or whose
\* confidence is no number, changes nothing.
AttachAnnotation(id, annotation_type) ==
    /\ Log("annotation_attached", id, annotation_type)
    /\ annotations' = [annotations EXCEPT ![id] =
          Append(@, [annotation_type |-> annotation_type, attached_at |-> reviewTime])]
    /\ reviewSessions' = [reviewSessions EXCEPT ![id] =
          [status |-> "in_progress", annotation_count |-> @.annotation_count + 1,
           disagreement_count |-> @.disagreement_count]]
    /\ UNCHANGED disagreements

\* A severity of no known name is moderate.
Severity(name) == IF name \in DisagreementSeverity THEN name ELSE "moderate"

RecordDisagreement(id, severity, pnl_impact) ==
    /\ pnl_impact # {}
    /\ Log("disagreement_recorded", id, Severity(severity))
    /\ disagreements' = [disagreements EXCEPT ![id] =
          Append(@, [severity |-> Severity(severity), recorded_at |-> reviewTime,
                     pnl_impact |-> CHOOSE x \in pnl_impact : TRUE])]
    /\ reviewSessions' = [reviewSessions EXCEPT ![id] =
          [status |-> "in_progress", annotation_count |-> @.annotation_count,
           disagreement_count |-> @.disagreement_count + 1]]
    /\ UNCHANGED annotations

\* Time passes, or the clock is set back.
ReviewTimePasses ==
    /\ \/ reviewTime < MaxReviewTime /\ reviewTime' = reviewTime + 1 /\ UNCHANGED setBack
       \/ reviewTime > 0 /\ reviewTime' = 0 /\ setBack' = TRUE
    /\ UNCHANGED <<reviewSessions, annotations, disagreements, allReviews>>

HumanReviewNext ==
    \/ \E c \in ReviewedIds : CreateReviewSession(c)
    \/ \E id \in DOMAIN reviewSessions :
          \/ \E type \in AnnotationTypes : AttachAnnotation(id, type)
          \/ \E severity \in {"severe", "unknown"}, x \in PnlImpacts :
                RecordDisagreement(id, severity, x)
    \/ ReviewTimePasses

-----------------------------------------------------------------------------
(* Reports *)

\* sorted() by the timestamp is stable.
Chronological(log) ==
    LET at(i) == log[i].timestamp
        earlier(i, j) == at(i) < at(j) \/ (at(i) = at(j) /\ i < j)
        rank(j) == Cardinality({i \in DOMAIN log : earlier(i, j)}) + 1
    IN  [k \in DOMAIN log |-> log[CHOOSE j \in DOMAIN log : rank(j) = k]]

ExportReviewLog_mut_unstable ==
    [sessions |-> reviewSessions, all_reviews_chronological |-> Chronological(Reverse(allReviews))]
ExportReviewLog ==
    [sessions |-> reviewSessions, all_reviews_chronological |-> Chronological(allReviews)]

\* Annotations of a type, disagreements of a severity, sessions of a status, as
\* summarize_reviews() counts them; types it does not list have no count.
Total(f) == SumFunction([id \in DOMAIN f |-> Len(f[id])])
WithSeverity(s) ==
    SumFunction([id \in DOMAIN disagreements |->
        Cardinality({i \in DOMAIN disagreements[id] : disagreements[id][i].severity = s})])
SummarizeReviews ==
    [total_annotations |-> Total(annotations), total_disagreements |-> Total(disagreements),
     sessions_by_status |-> [s \in ReviewStatus |->
         Cardinality({id \in DOMAIN reviewSessions : reviewSessions[id].status = s})],
     severities |-> [s \in DisagreementSeverity |-> WithSeverity(s)]]

-----------------------------------------------------------------------------
(* Properties *)

\* Replaying a log for one session: what came after its last creation counts.
Replayed(log, id, type) ==
    LET created == {i \in DOMAIN log : log[i].session_id = id /\ log[i].type = "session_created"}
    IN  Cardinality({i \in DOMAIN log : /\ log[i].session_id = id /\ log[i].type = type
                                        /\ created # {} /\ i > Max(created)})

\* What the sessions say of themselves, what hangs on them and what the log
\* tells agree, also when a session is created twice in one instant.
LogTellsSessions ==
    \A id \in DOMAIN reviewSessions :
        /\ reviewSessions[id].annotation_count = Replayed(allReviews, id, "annotation_attached")
        /\ Len(annotations[id]) = reviewSessions[id].annotation_count
        /\ Len(disagreements[id]) = Replayed(allReviews, id, "disagreement_recorded")
        /\ (reviewSessions[id].status = "created")
              <=> annotations[id] = <<>> /\ disagreements[id] = <<>>

\* Unless the clock was set back, the exported log replays to the same sessions:
\* entries of one instant keep their order, none comes before its session.
ExportReplays ==
    LET log == ExportReviewLog.all_reviews_chronological
        summary == SummarizeReviews
    IN  ~setBack =>
          /\ \A id \in DOMAIN reviewSessions :
                Len(annotations[id]) = Replayed(log, id, "annotation_attached")
          /\ summary.total_disagreements = SumFunction([id \in DOMAIN reviewSessions |->
                Replayed(log, id, "disagreement_recorded")])
          /\ summary.severities["severe"] + summary.severities["moderate"]
                = summary.total_disagreements

\* Sessions, log and export of the reviews tell one story.
ReviewsReplay == LogTellsSessions /\ ExportReplays
=============================================================================
