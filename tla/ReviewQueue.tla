----------------------------- MODULE ReviewQueue -----------------------------
(***************************************************************************)
(* Stage 8's human review queue and the approval that opens Stage 9, while *)
(* Stage 6 goes on re-deciding: routing runs that insert what they read    *)
(* some time ago, reviewers who claim, release and close, and approvers    *)
(* whose transaction reads the review, approves it and inserts a           *)
(* remediation action in several statements at READ COMMITTED.             *)
(*                                                                         *)
(* A verdict is its severity: V008 derives routing, decision, the two      *)
(* flags and the headline reason code from it.                             *)
(***************************************************************************)
EXTENDS Naturals, Sequences

CONSTANTS
    Anomalies,   \* anomalies with a Stage 6 decision, under one decision_version
    Reviewers,   \* the people who review and approve
    Runs,        \* concurrent runs of the routing workflow
    Verdicts,    \* the severities Stage 6 may come to
    Resolutions, \* what people may conclude
    ActionTypes, \* the remediations an approver may ask for
    NoOne,       \* SQL NULL in an actor column
    MaxEvents    \* bound: an item is claimed only while its history is shorter

Severities == {"none", "minor", "major", "critical"}
ValidResolutions ==
    {"confirmed", "requires_follow_up", "false_positive", "expected_business_variation"}

ASSUME ConstantsAssumption ==
    /\ NoOne \notin Reviewers \cup Anomalies
    /\ Verdicts \subseteq Severities /\ Resolutions \subseteq ValidResolutions
    /\ ActionTypes \subseteq {"create_investigation", "request_refund_review"}
    /\ MaxEvents \in Nat

\* Stage 6 sends a verdict to a person, and Stage 9 lets a person answer it.
NeedsReview(s) == s \in {"major", "critical"}
Eligible == {<<"major", "create_investigation">>,
             <<"critical", "create_investigation">>,
             <<"critical", "request_refund_review">>}

Terminal == {"resolved", "dismissed", "approved"}
Statuses == {"absent", "pending", "in_review"} \cup Terminal

\* APPROVABLE_RESOLUTIONS: the conclusions that can carry an approval. The service
\* refuses the others, and so does a CHECK.
Approving == Resolutions \cap {"confirmed", "requires_follow_up"}

MaybeReviewer == Reviewers \cup {NoOne}

VARIABLES
    decision,    \* anomaly_decisions.severity, live
    status,      \* review_queue.status; "absent" before the INSERT
    queued,      \* review_queue.severity, snapshotted when queued
    assignee,    \* review_queue.assigned_to
    resolution,  \* review_queue.resolution
    approvedBy,  \* review_queue.approved_by
    events,      \* review_events of the item
    actions,     \* remediation_actions of the item, by action type
    todo,        \* rows each routing run has read and not yet handled
    approval     \* what each approver's open transaction has read and done

row == <<status, queued, assignee, resolution, approvedBy, events>>
vars == <<decision, status, queued, assignee, resolution, approvedBy, events,
          actions, todo, approval>>

NoAction == [severity |-> "none", by |-> NoOne, resolution |-> "none"]
NoApproval == [pc |-> "idle", anomaly |-> NoOne, type |-> "none", resolution |-> "none"]

Init ==
    /\ decision \in [Anomalies -> Verdicts]
    /\ status = [a \in Anomalies |-> "absent"]
    /\ queued = [a \in Anomalies |-> "none"]
    /\ assignee = [a \in Anomalies |-> NoOne]
    /\ resolution = [a \in Anomalies |-> "none"]
    /\ approvedBy = [a \in Anomalies |-> NoOne]
    /\ events = [a \in Anomalies |-> <<>>]
    /\ actions = [a \in Anomalies |-> [t \in ActionTypes |-> NoAction]]
    /\ todo = [u \in Runs |-> {}]
    /\ approval = [r \in Reviewers |-> NoApproval]

Event(from, to, actor) == [from |-> from, to |-> to, actor |-> actor]
Happens(a, from, to, actor) ==
    events' = [events EXCEPT ![a] = Append(@, Event(from, to, actor))]

-----------------------------------------------------------------------------
(* Stage 6 and the routing run.                                            *)

\* decide_anomalies upserts: the verdict follows the evidence, and neither
\* looks at nor waits for the queue.
Redecide(a, s) ==
    /\ decision[a] # s
    /\ decision' = [decision EXCEPT ![a] = s]
    /\ UNCHANGED <<row, actions, todo, approval>>

Routable(a) == NeedsReview(decision[a]) /\ status[a] = "absent"

\* load_routable_decisions: one read at the start of the run.
RouteRead(u) ==
    /\ todo[u] = {}
    /\ \E a \in Anomalies : Routable(a)
    /\ todo' = [todo EXCEPT ![u] = {[anomaly |-> a, severity |-> decision[a]] :
                                       a \in {b \in Anomalies : Routable(b)}}]
    /\ UNCHANGED <<decision, row, actions, approval>>

\* _queue_review, one row, one transaction. The snapshot guard refuses a
\* verdict that has changed since the read; the unique key ignores an item that
\* another run has queued.
RouteQueue(u, read) ==
    LET a == read.anomaly
    IN  /\ read \in todo[u]
        /\ todo' = [todo EXCEPT ![u] = @ \ {read}]
        /\ IF status[a] = "absent" /\ decision[a] = read.severity
           THEN /\ status' = [status EXCEPT ![a] = "pending"]
                /\ queued' = [queued EXCEPT ![a] = read.severity]
                /\ Happens(a, "absent", "pending", NoOne)
                /\ UNCHANGED <<assignee, resolution, approvedBy>>
           ELSE UNCHANGED row
        /\ UNCHANGED <<decision, actions, approval>>

-----------------------------------------------------------------------------
(* Review transitions: one UPDATE by review_id, judged by two triggers.    *)

AllowedTransitions ==
    { <<"pending", "in_review">>, <<"pending", "dismissed">>,
      <<"in_review", "resolved">>, <<"in_review", "dismissed">>,
      <<"in_review", "approved">>, <<"in_review", "pending">> }

\* Mutation: a closed item can be taken up again.
ReopeningAllowed(from, to) ==
    <<from, to>> \in AllowedTransitions \cup {<<"resolved", "in_review">>}

\* guard_review_transition on a status change.
Allowed(from, to) == <<from, to>> \in AllowedTransitions

\* guard_stage8_snapshot, on every write to the row.
SnapshotHolds(a) == queued[a] = decision[a]

\* An approver's uncommitted UPDATE holds the row lock.
Locked(a) == \E r \in Reviewers : approval[r].pc = "holding" /\ approval[r].anomaly = a

Transition(a, to, actor, res) ==
    LET assigned == IF actor = NoOne THEN assignee[a] ELSE actor
        concluded == IF res = "none" THEN resolution[a] ELSE res
    IN  /\ status[a] # "absent" /\ ~Locked(a) /\ SnapshotHolds(a)
        /\ IF status[a] = to
           THEN /\ to \in Terminal => concluded = resolution[a]
                /\ assignee' = [assignee EXCEPT ![a] = assigned]
                /\ UNCHANGED <<status, resolution, events>>
           ELSE /\ Allowed(status[a], to)
                /\ status' = [status EXCEPT ![a] = to]
                /\ assignee' = [assignee EXCEPT ![a] = IF to = "pending" THEN NoOne
                                                                       ELSE assigned]
                /\ resolution' = [resolution EXCEPT ![a] = concluded]
                /\ Happens(a, status[a], to, IF to = "pending" THEN assignee[a]
                                                              ELSE assigned)
        /\ UNCHANGED <<decision, queued, approvedBy, actions, todo, approval>>

Claim(a, r) ==
    /\ Len(events[a]) < MaxEvents
    /\ Transition(a, "in_review", r, "none")

Release(a) == Transition(a, "pending", NoOne, "none")

Resolve(a, r, res) == Transition(a, "resolved", r, res)

Dismiss(a, r, res) == Transition(a, "dismissed", r, res)

-----------------------------------------------------------------------------
(* Approval: read, approve, insert; one transaction in three statements.   *)

\* What the read of the review decides; t and res are what the caller asks for.
ReadForApproval(a, t, res) ==
    [pc |-> IF status[a] = "approved" THEN "approved" ELSE "read",
     anomaly |-> a, type |-> t, resolution |-> res]

ApproveRead(r, a, t, res) ==
    /\ approval[r].pc = "idle"
    /\ status[a] \in {"in_review", "approved"}
    /\ approval' = [approval EXCEPT ![r] = ReadForApproval(a, t, res)]
    /\ UNCHANGED <<decision, row, actions, todo>>

\* The conditions of the conditional UPDATE and its triggers.
Approvable(a) == status[a] = "in_review" /\ SnapshotHolds(a)

\* The conditional UPDATE, once the row is free. An approver who lost the race
\* to another reads again and goes on with the other's approval.
ApproveUpdate(r) ==
    LET a == approval[r].anomaly
    IN  /\ approval[r].pc = "read" /\ ~Locked(a)
        /\ approval' = [approval EXCEPT ![r] =
              CASE Approvable(a) -> [@ EXCEPT !.pc = "holding"]
                [] status[a] = "approved" -> ReadForApproval(a, @.type, @.resolution)
                [] OTHER -> NoApproval]
        /\ UNCHANGED <<decision, row, actions, todo>>

\* Mutation: the action records what its caller concluded, not what the review says.
CallersResolution(a, r) ==
    [by |-> IF approval[r].pc = "holding" THEN r ELSE approvedBy[a],
     resolution |-> approval[r].resolution]

\* The approval an action records: the review's, by whoever approved it first.
ApprovalOf(a, r) ==
    IF approval[r].pc = "holding" THEN [by |-> r, resolution |-> approval[r].resolution]
    ELSE [by |-> approvedBy[a], resolution |-> resolution[a]]

\* What the conditional UPDATE and its trigger write, seen at commit.
Approve(a, r) ==
    /\ status' = [status EXCEPT ![a] = "approved"]
    /\ resolution' = [resolution EXCEPT ![a] = approval[r].resolution]
    /\ approvedBy' = [approvedBy EXCEPT ![a] = r]
    /\ assignee' = [assignee EXCEPT ![a] = IF @ = NoOne THEN r ELSE @]
    /\ Happens(a, "in_review", "approved", r)
    /\ UNCHANGED queued

\* The reason codes are read (nothing here depends on them), the action is inserted
\* unless it exists, and all of it commits; an action the policy does not permit rolls
\* the approval back.
ApproveInsert(r) ==
    LET a == approval[r].anomaly
        t == approval[r].type
    IN  /\ approval[r].pc \in {"holding", "approved"}
        /\ <<queued[a], t>> \in Eligible
        /\ IF approval[r].pc = "holding" THEN Approve(a, r) ELSE UNCHANGED row
        /\ actions' = IF actions[a][t] # NoAction THEN actions
                      ELSE [actions EXCEPT ![a][t] =
                              [severity |-> queued[a], by |-> ApprovalOf(a, r).by,
                               resolution |-> ApprovalOf(a, r).resolution]]
        /\ approval' = [approval EXCEPT ![r] = NoApproval]
        /\ UNCHANGED <<decision, todo>>

\* Mutation: the approval is committed before the insert that is then refused.
ApprovalKept(r) ==
    /\ approval[r].pc = "holding"
    /\ Approve(approval[r].anomaly, r)
    /\ approval' = [approval EXCEPT ![r] = NoApproval]
    /\ UNCHANGED <<decision, actions, todo>>

\* Refused by the policy's foreign key, or abandoned: nothing is written.
ApproveFails(r) ==
    /\ approval[r].pc # "idle"
    /\ approval' = [approval EXCEPT ![r] = NoApproval]
    /\ UNCHANGED <<decision, row, actions, todo>>

-----------------------------------------------------------------------------
RunStep(u) == RouteRead(u) \/ \E read \in todo[u] : RouteQueue(u, read)

ReviewStep(a) ==
    \/ \E r \in Reviewers : Claim(a, r)
    \/ Release(a)
    \/ \E r \in MaybeReviewer, res \in Resolutions :
          Resolve(a, r, res) \/ Dismiss(a, r, res)

ApproverStep(r) ==
    \/ \E a \in Anomalies, t \in ActionTypes, res \in Approving : ApproveRead(r, a, t, res)
    \/ ApproveUpdate(r)
    \/ ApproveInsert(r)
    \/ ApproveFails(r)

Next ==
    \/ \E a \in Anomalies : ReviewStep(a) \/ \E s \in Verdicts : Redecide(a, s)
    \/ \E u \in Runs : RunStep(u)
    \/ \E r \in Reviewers : ApproverStep(r)

Spec == Init /\ [][Next]_vars

-----------------------------------------------------------------------------
TypeOK ==
    /\ decision \in [Anomalies -> Severities]
    /\ status \in [Anomalies -> Statuses]
    /\ queued \in [Anomalies -> {"none", "major", "critical"}]
    /\ assignee \in [Anomalies -> MaybeReviewer]
    /\ resolution \in [Anomalies -> Resolutions \cup {"none"}]
    /\ approvedBy \in [Anomalies -> MaybeReviewer]
    /\ events \in [Anomalies -> Seq([from : Statuses, to : Statuses, actor : MaybeReviewer])]
    /\ actions \in [Anomalies -> [ActionTypes ->
          [severity : Severities, by : MaybeReviewer, resolution : Resolutions \cup {"none"}]]]
    /\ todo \in [Runs -> SUBSET [anomaly : Anomalies, severity : {"major", "critical"}]]
    /\ approval \in [Reviewers ->
          [pc : {"idle", "read", "holding", "approved"}, anomaly : Anomalies \cup {NoOne},
           type : ActionTypes \cup {"none"}, resolution : Approving \cup {"none"}]]

LastEvent(a) == events[a][Len(events[a])]

\* The history of an item is one unbroken path from its creation to the status
\* it has, leaves no closed status, and names a person at every conclusion
\* reached from review: whoever approves, and the holder when the caller of
\* "resolve" gives no name.
HistoryIsAPath ==
    \A a \in Anomalies :
        /\ (status[a] = "absent") <=> (events[a] = <<>>)
        /\ status[a] # "absent" => LastEvent(a).to = status[a]
        /\ \A i \in 1 .. Len(events[a]) :
              /\ events[a][i].from = IF i = 1 THEN "absent" ELSE events[a][i - 1].to
              /\ events[a][i].from \notin Terminal
              /\ events[a][i].from = "in_review" => events[a][i].actor # NoOne

\* Every remediation action rests on a review that is approved now and for
\* good: concluded as something that can carry an approval, at a severity the
\* policy permits, by the person the history's last entry names. The action names
\* that person and that conclusion, however many approvers raced, asking for
\* different ones.
ActionsRestOnApproval ==
    \A a \in Anomalies, t \in ActionTypes : actions[a][t] # NoAction =>
        /\ status[a] = "approved" /\ resolution[a] \in Approving
        /\ actions[a][t].by = approvedBy[a] /\ actions[a][t].resolution = resolution[a]
        /\ LastEvent(a) = Event("in_review", "approved", approvedBy[a])
        /\ actions[a][t].severity = queued[a]
        /\ <<queued[a], t>> \in Eligible

\* A conclusion is final: nothing that a reviewer, an approver or a routing run
\* does later changes it or who approved it.
ConclusionsAreFinal ==
    [][\A a \in Anomalies : status[a] \in Terminal =>
          UNCHANGED <<status[a], resolution[a], approvedBy[a], queued[a], events[a]>>]_vars

\* An approval and the action it authorises come in one transaction: nobody's
\* approval stands without an action, whatever fails after it.
ApprovedWithAction ==
    \A a \in Anomalies :
        status[a] = "approved" => \E t \in ActionTypes : actions[a][t] # NoAction
=============================================================================
