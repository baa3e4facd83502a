-------------------------- MODULE ReviewQueue_proofs --------------------------
(***************************************************************************)
(* Proofs about ReviewQueue: whoever reviews, approves, routes and           *)
(* re-decides, and in whatever order their statements interleave, the        *)
(* history of an item is one path, its conclusion is final, and every        *)
(* remediation action rests on exactly one approval and records it.          *)
(***************************************************************************)
EXTENDS ReviewQueue, TLAPS

HistoryEvents == [from : Statuses, to : Statuses, actor : MaybeReviewer]

\* HistoryIsAPath, of one history.
IsPath(s) ==
    \A i \in 1 .. Len(s) :
        /\ s[i].from = IF i = 1 THEN "absent" ELSE s[i - 1].to
        /\ s[i].from \notin Terminal
        /\ s[i].from = "in_review" => s[i].actor # NoOne

\* Whatever is in review has a holder: release and conclusion name somebody.
InReviewIsHeld == \A a \in Anomalies : status[a] = "in_review" => assignee[a] # NoOne

\* What an approver's open transaction has read stays so, and the lock is one's own.
TransactionsStand ==
    \A r \in Reviewers :
        LET a == approval[r].anomaly
        IN  /\ approval[r].pc # "idle" =>
                  a \in Anomalies /\ approval[r].type \in ActionTypes /\ approval[r].resolution \in Approving
            /\ approval[r].pc = "holding" => status[a] = "in_review"
            /\ approval[r].pc = "approved" => status[a] = "approved"
            /\ \A q \in Reviewers :
                  approval[r].pc = "holding" /\ approval[q].pc = "holding"
                     /\ approval[q].anomaly = a => q = r

\* An approved row is what Approve wrote.
ApprovedRows ==
    \A a \in Anomalies : status[a] = "approved" =>
        /\ resolution[a] \in Approving
        /\ LastEvent(a) = Event("in_review", "approved", approvedBy[a])

IInv ==
    /\ TypeOK /\ HistoryIsAPath /\ InReviewIsHeld /\ TransactionsStand
    /\ ApprovedRows /\ ActionsRestOnApproval /\ ApprovedWithAction

USE ConstantsAssumption DEF Severities, Terminal, Statuses, Approving, MaybeReviewer

-----------------------------------------------------------------------------
LEMMA InitInv == Init => IInv
<1> SUFFICES ASSUME Init PROVE IInv
  OBVIOUS
<1>1. TypeOK
  <2>1. <<>> \in Seq([from : Statuses, to : Statuses, actor : MaybeReviewer])
    OBVIOUS
  <2>2. NoAction \in [severity : Severities, by : MaybeReviewer, resolution : Resolutions \cup {"none"}]
    BY DEF NoAction
  <2>3. NoApproval \in [pc : {"idle", "read", "holding", "approved"},
                        anomaly : Anomalies \cup {NoOne},
                        type : ActionTypes \cup {"none"}, resolution : Approving \cup {"none"}]
    BY DEF NoApproval
  <2>4. decision \in [Anomalies -> Severities] /\ approval \in [Reviewers ->
           [pc : {"idle", "read", "holding", "approved"}, anomaly : Anomalies \cup {NoOne},
            type : ActionTypes \cup {"none"}, resolution : Approving \cup {"none"}]]
    BY <2>3 DEF Init
  <2>5. /\ events \in [Anomalies -> Seq([from : Statuses, to : Statuses, actor : MaybeReviewer])]
        /\ actions \in [Anomalies -> [ActionTypes ->
              [severity : Severities, by : MaybeReviewer, resolution : Resolutions \cup {"none"}]]]
    BY <2>1, <2>2 DEF Init
  <2> QED
    BY <2>4, <2>5 DEF Init, TypeOK
<1>2. HistoryIsAPath
  <2>1. \A a \in Anomalies : events[a] = <<>> /\ status[a] = "absent"
    BY DEF Init
  <2>2. Len(<<>>) = 0 /\ 1 .. 0 = {}
    OBVIOUS
  <2> QED
    BY <2>1, <2>2, Zenon DEF HistoryIsAPath
<1>3. InReviewIsHeld /\ ApprovedRows /\ ActionsRestOnApproval /\ ApprovedWithAction
  BY DEF Init, InReviewIsHeld, ApprovedRows, ActionsRestOnApproval, ApprovedWithAction
<1>4. TransactionsStand
  BY DEF Init, TransactionsStand, NoApproval
<1> QED
  BY <1>1, <1>2, <1>3, <1>4 DEF IInv

\* A history goes on from where it ended.
LEMMA PathGrows ==
  ASSUME NEW s \in Seq(HistoryEvents), IsPath(s), NEW e \in HistoryEvents,
         e.from = IF s = <<>> THEN "absent" ELSE s[Len(s)].to,
         e.from \notin Terminal, e.from = "in_review" => e.actor # NoOne
  PROVE  /\ Append(s, e) \in Seq(HistoryEvents) /\ IsPath(Append(s, e))
         /\ Len(Append(s, e)) = Len(s) + 1 /\ Append(s, e)[Len(s) + 1] = e
         /\ Append(s, e) # <<>>
<1>1. /\ Append(s, e) \in Seq(HistoryEvents) /\ Len(Append(s, e)) = Len(s) + 1
      /\ Append(s, e)[Len(s) + 1] = e
      /\ \A i \in 1 .. Len(s) : Append(s, e)[i] = s[i]
      /\ Len(s) \in Nat /\ (s = <<>> <=> Len(s) = 0)
  OBVIOUS
<1>2. IsPath(Append(s, e))
  <2> SUFFICES ASSUME NEW i \in 1 .. Len(s) + 1
               PROVE  LET t == Append(s, e)
                      IN  /\ t[i].from = IF i = 1 THEN "absent" ELSE t[i - 1].to
                          /\ t[i].from \notin Terminal
                          /\ t[i].from = "in_review" => t[i].actor # NoOne
    BY <1>1 DEF IsPath
  <2>1. CASE i \in 1 .. Len(s)
    BY <2>1, <1>1 DEF IsPath
  <2>2. CASE i = Len(s) + 1
    BY <2>2, <1>1
  <2> QED
    BY <1>1, <2>1, <2>2
<1> QED
  BY <1>1, <1>2

\* One change of one item's status, by anybody, that its history records: what it
\* does to the row's own invariants.
LEMMA ItemMoves ==
  ASSUME IInv, NEW a \in Anomalies, NEW to \in Statuses \ {"absent"}, NEW actor \in MaybeReviewer,
         status' = [status EXCEPT ![a] = to],
         events' = [events EXCEPT ![a] = Append(@, Event(status[a], to, actor))],
         status[a] \notin Terminal, status[a] = "in_review" => actor # NoOne
  PROVE  /\ HistoryIsAPath' /\ LastEvent(a)' = Event(status[a], to, actor)
         /\ events' \in [Anomalies -> Seq(HistoryEvents)]
         /\ \A b \in Anomalies \ {a} : LastEvent(b)' = LastEvent(b) /\ status'[b] = status[b]
         /\ status'[a] = to /\ status' \in [Anomalies -> Statuses]
<1> DEFINE s == events[a] e == Event(status[a], to, actor)
<1>0. status \in [Anomalies -> Statuses] /\ events \in [Anomalies -> Seq(HistoryEvents)]
  BY DEF IInv, TypeOK, HistoryEvents
<1>1. /\ s \in Seq(HistoryEvents) /\ e \in HistoryEvents /\ IsPath(s)
      /\ e.from = IF s = <<>> THEN "absent" ELSE s[Len(s)].to
      /\ e.from \notin Terminal /\ (e.from = "in_review" => e.actor # NoOne)
  <2>1. e \in HistoryEvents /\ e.from = status[a] /\ e.actor = actor
    BY <1>0 DEF HistoryEvents, Event
  <2>2. IsPath(s) /\ (s = <<>> <=> status[a] = "absent") /\ (s # <<>> => s[Len(s)].to = status[a])
    BY DEF IInv, HistoryIsAPath, IsPath, LastEvent
  <2> QED
    BY <1>0, <2>1, <2>2
<1> HIDE DEF e
<1>2. /\ Append(s, e) \in Seq(HistoryEvents) /\ IsPath(Append(s, e))
      /\ Len(Append(s, e)) = Len(s) + 1 /\ Append(s, e)[Len(s) + 1] = e
      /\ Append(s, e) # <<>>
  BY <1>1, PathGrows
<1>3. /\ events'[a] = Append(s, e) /\ status'[a] = to
      /\ \A b \in Anomalies \ {a} : events'[b] = events[b] /\ status'[b] = status[b]
      /\ events' \in [Anomalies -> Seq(HistoryEvents)] /\ status' \in [Anomalies -> Statuses]
  BY <1>0, <1>2 DEF e
<1>4. LastEvent(a)' = e /\ \A b \in Anomalies \ {a} : LastEvent(b)' = LastEvent(b)
  BY <1>2, <1>3 DEF LastEvent
<1>5. e.to = to
  BY DEF e, Event
<1>6. HistoryIsAPath'
  <2> SUFFICES ASSUME NEW b \in Anomalies
               PROVE  /\ (status'[b] = "absent") <=> (events'[b] = <<>>)
                      /\ status'[b] # "absent" => LastEvent(b)'.to = status'[b]
                      /\ IsPath(events'[b])
    BY DEF HistoryIsAPath, IsPath
  <2>1. CASE b = a
    BY <2>1, <1>2, <1>3, <1>4, <1>5
  <2>2. CASE b # a
    BY <2>2, <1>3, <1>4 DEF IInv, HistoryIsAPath, IsPath
  <2> QED
    BY <2>1, <2>2
<1> QED
  BY <1>3, <1>4, <1>6 DEF e

\* Steps that touch no item.
LEMMA QuietItems ==
  ASSUME IInv, UNCHANGED <<row, actions>>
  PROVE  HistoryIsAPath' /\ InReviewIsHeld' /\ ApprovedRows' /\ ActionsRestOnApproval'
         /\ ApprovedWithAction'
<1>1. \A a \in Anomalies : LastEvent(a)' = LastEvent(a)
  BY DEF row, LastEvent
<1>2. HistoryIsAPath'
  BY <1>1 DEF IInv, row, HistoryIsAPath
<1> QED
  BY <1>1, <1>2 DEF IInv, row, InReviewIsHeld, ApprovedRows, ActionsRestOnApproval, ApprovedWithAction

\* Steps that touch no item and no approver.
LEMMA QuietTransactions ==
  ASSUME IInv, UNCHANGED <<row, approval>>
  PROVE  TransactionsStand'
BY DEF IInv, TransactionsStand, row

LEMMA RedecideInv ==
  ASSUME IInv, NEW a \in Anomalies, NEW s \in Verdicts, Redecide(a, s)
  PROVE  IInv'
<1>1. UNCHANGED <<row, actions, todo, approval>> /\ decision' \in [Anomalies -> Severities]
  BY DEF Redecide, IInv, TypeOK
<1>2. TypeOK' /\ TransactionsStand'
  <2>1. TypeOK'
    BY <1>1 DEF IInv, TypeOK, row
  <2> QED
    BY <1>1, <2>1, QuietTransactions
<1> QED
  BY <1>1, <1>2, QuietItems DEF IInv

LEMMA RouteReadInv ==
  ASSUME IInv, NEW u \in Runs, RouteRead(u)
  PROVE  IInv'
<1>1. /\ UNCHANGED <<decision, row, actions, approval>>
      /\ todo' \in [Runs -> SUBSET [anomaly : Anomalies, severity : {"major", "critical"}]]
  <2>1. {[anomaly |-> a, severity |-> decision[a]] : a \in {b \in Anomalies : Routable(b)}}
           \subseteq [anomaly : Anomalies, severity : {"major", "critical"}]
    BY DEF IInv, TypeOK, Routable, NeedsReview
  <2> QED
    BY <2>1 DEF RouteRead, IInv, TypeOK
<1>2. TypeOK' /\ TransactionsStand'
  <2>1. TypeOK'
    BY <1>1 DEF IInv, TypeOK, row
  <2> QED
    BY <1>1, <2>1, QuietTransactions
<1> QED
  BY <1>1, <1>2, QuietItems DEF IInv

LEMMA RouteQueueInv ==
  ASSUME IInv, NEW u \in Runs, NEW read \in todo[u], RouteQueue(u, read)
  PROVE  IInv'
<1>0. PICK a \in Anomalies : a = read.anomaly
  BY DEF IInv, TypeOK
<1>1. /\ UNCHANGED <<decision, actions, approval>>
      /\ todo' \in [Runs -> SUBSET [anomaly : Anomalies, severity : {"major", "critical"}]]
  BY DEF RouteQueue, IInv, TypeOK
<1>2. CASE ~(status[a] = "absent" /\ decision[a] = read.severity)
  <2>1. UNCHANGED row
    BY <1>0, <1>2 DEF RouteQueue
  <2>2. TypeOK' /\ TransactionsStand'
    <3>1. TypeOK'
      BY <1>1, <2>1 DEF IInv, TypeOK, row
    <3> QED
      BY <1>1, <2>1, <3>1, QuietTransactions
  <2> QED
    BY <1>1, <2>1, <2>2, QuietItems DEF IInv
<1>3. CASE status[a] = "absent" /\ decision[a] = read.severity
  <2>1. /\ status' = [status EXCEPT ![a] = "pending"]
        /\ queued' = [queued EXCEPT ![a] = read.severity]
        /\ events' = [events EXCEPT ![a] = Append(@, Event(status[a], "pending", NoOne))]
        /\ UNCHANGED <<assignee, resolution, approvedBy>>
    BY <1>0, <1>3 DEF RouteQueue, Happens
  <2>2. /\ HistoryIsAPath' /\ events' \in [Anomalies -> Seq(HistoryEvents)]
        /\ \A b \in Anomalies \ {a} : LastEvent(b)' = LastEvent(b) /\ status'[b] = status[b]
        /\ status'[a] = "pending" /\ status' \in [Anomalies -> Statuses]
    BY <2>1, <1>3, ItemMoves
  <2>3. TypeOK'
    <3>1. read.severity \in {"major", "critical"}
      BY DEF IInv, TypeOK
    <3> QED
      BY <1>1, <2>1, <2>2, <3>1 DEF IInv, TypeOK, HistoryEvents
  <2>4. InReviewIsHeld'
    BY <2>1, <2>2 DEF IInv, InReviewIsHeld
  <2>5. TransactionsStand'
    BY <1>1, <1>3, <2>2 DEF IInv, TransactionsStand
  <2>6. ApprovedRows' /\ ActionsRestOnApproval' /\ ApprovedWithAction'
    <3>1. ApprovedRows' /\ ApprovedWithAction'
      BY <1>1, <2>1, <2>2 DEF IInv, ApprovedRows, ApprovedWithAction
    <3>2. \A b \in Anomalies \ {a} : queued'[b] = queued[b]
      BY <2>1 DEF IInv, TypeOK
    <3>3. \A t \in ActionTypes : actions[a][t] = NoAction
      BY <1>3 DEF IInv, ActionsRestOnApproval
    <3>4. ActionsRestOnApproval'
      BY <1>1, <2>1, <2>2, <3>2, <3>3 DEF IInv, ActionsRestOnApproval
    <3> QED
      BY <3>1, <3>4
  <2> QED
    BY <2>2, <2>3, <2>4, <2>5, <2>6 DEF IInv
<1> QED
  BY <1>2, <1>3

\* Any of the reviewers' operations.
LEMMA TransitionInv ==
  ASSUME IInv, NEW a \in Anomalies, NEW to \in {"in_review", "pending", "resolved", "dismissed"},
         NEW actor \in MaybeReviewer, NEW res \in Resolutions \cup {"none"},
         Transition(a, to, actor, res), to = "in_review" => actor # NoOne
  PROVE  IInv'
<1> DEFINE assigned == IF actor = NoOne THEN assignee[a] ELSE actor
           concluded == IF res = "none" THEN resolution[a] ELSE res
<1>0. /\ UNCHANGED <<decision, queued, approvedBy, actions, todo, approval>>
      /\ status[a] # "absent" /\ ~Locked(a)
      /\ assigned \in MaybeReviewer /\ concluded \in Resolutions \cup {"none"}
      /\ assignee[a] \in MaybeReviewer
  BY DEF Transition, IInv, TypeOK
<1>1. CASE status[a] = to
  <2>1. /\ assignee' = [assignee EXCEPT ![a] = assigned]
        /\ UNCHANGED <<status, resolution, events>>
    BY <1>1 DEF Transition
  <2>2. \A b \in Anomalies : LastEvent(b)' = LastEvent(b)
    BY <2>1 DEF LastEvent
  <2>3. TypeOK'
    BY <1>0, <2>1 DEF IInv, TypeOK
  <2>4. HistoryIsAPath'
    BY <2>1, <2>2 DEF IInv, HistoryIsAPath
  <2>5. InReviewIsHeld'
    BY <1>1, <2>1 DEF IInv, InReviewIsHeld, TypeOK
  <2>6. TransactionsStand'
    BY <1>0, <2>1 DEF IInv, TransactionsStand
  <2>7. ApprovedRows' /\ ActionsRestOnApproval' /\ ApprovedWithAction'
    BY <1>0, <2>1, <2>2 DEF IInv, ApprovedRows, ActionsRestOnApproval, ApprovedWithAction
  <2> QED
    BY <2>3, <2>4, <2>5, <2>6, <2>7 DEF IInv
<1>2. CASE status[a] # to
  <2> DEFINE by == IF to = "pending" THEN assignee[a] ELSE assigned
  <2>1. /\ status' = [status EXCEPT ![a] = to]
        /\ assignee' = [assignee EXCEPT ![a] = IF to = "pending" THEN NoOne ELSE assigned]
        /\ resolution' = [resolution EXCEPT ![a] = concluded]
        /\ events' = [events EXCEPT ![a] = Append(@, Event(status[a], to, by))]
        /\ Allowed(status[a], to)
    BY <1>2 DEF Transition, Happens
  <2>2. status[a] \in {"pending", "in_review"}
    BY <2>1 DEF Allowed, AllowedTransitions
  <2>3. by \in MaybeReviewer /\ (status[a] = "in_review" => by # NoOne)
    BY <1>0 DEF IInv, InReviewIsHeld
  <2>4. /\ HistoryIsAPath' /\ events' \in [Anomalies -> Seq(HistoryEvents)]
        /\ \A b \in Anomalies \ {a} : LastEvent(b)' = LastEvent(b) /\ status'[b] = status[b]
        /\ status'[a] = to /\ status' \in [Anomalies -> Statuses]
    <3> HIDE DEF by
    <3> QED
      BY <2>1, <2>2, <2>3, ItemMoves
  <2>5. TypeOK'
    <3>1. assignee' \in [Anomalies -> MaybeReviewer]
      BY <1>0, <2>1 DEF IInv, TypeOK
    <3>2. resolution' \in [Anomalies -> Resolutions \cup {"none"}]
      BY <1>0, <2>1 DEF IInv, TypeOK
    <3> QED
      BY <1>0, <2>4, <3>1, <3>2 DEF IInv, TypeOK, HistoryEvents
  <2>6. InReviewIsHeld'
    BY <2>1, <2>4 DEF IInv, InReviewIsHeld, TypeOK
  <2>7. TransactionsStand'
    BY <1>0, <2>2, <2>4 DEF IInv, TransactionsStand, Locked
  <2>8. ApprovedRows'
    BY <1>0, <2>1, <2>4 DEF IInv, ApprovedRows, TypeOK
  <2>9. ActionsRestOnApproval'
    BY <1>0, <2>1, <2>2, <2>4 DEF IInv, ActionsRestOnApproval, TypeOK
  <2>10. ApprovedWithAction'
    BY <1>0, <2>4 DEF IInv, ApprovedWithAction
  <2> QED
    BY <2>4, <2>5, <2>6, <2>7, <2>8, <2>9, <2>10 DEF IInv
<1> QED
  BY <1>1, <1>2

\* The statements of an approval that write nothing others see.
LEMMA ApproverReadsInv ==
  ASSUME IInv, NEW r \in Reviewers,
         \/ \E a \in Anomalies, t \in ActionTypes, res \in Approving : ApproveRead(r, a, t, res)
         \/ ApproveUpdate(r)
         \/ ApproveFails(r)
  PROVE  IInv'
<1>1. UNCHANGED <<decision, row, actions, todo>>
  BY DEF ApproveRead, ApproveUpdate, ApproveFails
<1>2. PICK pc \in {"idle", "read", "holding", "approved"}, b \in Anomalies \cup {NoOne},
           t \in ActionTypes \cup {"none"}, res \in Approving \cup {"none"} :
        /\ approval' = [approval EXCEPT ![r] = [pc |-> pc, anomaly |-> b, type |-> t, resolution |-> res]]
        /\ pc # "idle" => b \in Anomalies /\ t \in ActionTypes /\ res \in Approving
        /\ pc = "holding" => status[b] = "in_review" /\ ~Locked(b)
        /\ pc = "approved" => status[b] = "approved"
  <2>1. CASE \E a \in Anomalies, t \in ActionTypes, res \in Approving : ApproveRead(r, a, t, res)
    <3>1. PICK a \in Anomalies, t \in ActionTypes, res \in Approving : ApproveRead(r, a, t, res)
      BY <2>1
    <3>2. PICK pc \in {"approved", "read"} :
             /\ approval' = [approval EXCEPT ![r] = [pc |-> pc, anomaly |-> a, type |-> t, resolution |-> res]]
             /\ pc = "approved" => status[a] = "approved"
      BY <3>1 DEF ApproveRead, ReadForApproval
    <3> QED
      BY <3>2
  <2>2. CASE ApproveUpdate(r)
    <3> DEFINE a == approval[r].anomaly
    <3>1. /\ approval[r].pc = "read" /\ ~Locked(a) /\ a \in Anomalies
          /\ approval[r].type \in ActionTypes /\ approval[r].resolution \in Approving
          /\ approval[r] = [pc |-> "read", anomaly |-> a, type |-> approval[r].type,
                            resolution |-> approval[r].resolution]
      BY <2>2 DEF ApproveUpdate, IInv, TypeOK, TransactionsStand
    <3>2. CASE Approvable(a)
      <4>1. approval' = [approval EXCEPT ![r] = [pc |-> "holding", anomaly |-> a,
                            type |-> approval[r].type, resolution |-> approval[r].resolution]]
        <5>1. approval' = [approval EXCEPT ![r] = [approval[r] EXCEPT !.pc = "holding"]]
          BY <2>2, <3>2 DEF ApproveUpdate, Approvable
        <5>2. [approval[r] EXCEPT !.pc = "holding"] =
                 [pc |-> "holding", anomaly |-> a, type |-> approval[r].type,
                  resolution |-> approval[r].resolution]
          BY <3>1
        <5> QED
          BY <5>1, <5>2
      <4> QED
        BY <3>1, <3>2, <4>1 DEF Approvable
    <3>3. CASE ~Approvable(a) /\ status[a] = "approved"
      <4>1. approval' = [approval EXCEPT ![r] = [pc |-> "approved", anomaly |-> a,
                            type |-> approval[r].type, resolution |-> approval[r].resolution]]
        BY <2>2, <3>3 DEF ApproveUpdate, ReadForApproval
      <4> QED
        BY <3>1, <3>3, <4>1
    <3>4. CASE ~Approvable(a) /\ status[a] # "approved"
      BY <2>2, <3>4 DEF ApproveUpdate, NoApproval
    <3> QED
      BY <3>2, <3>3, <3>4
  <2>3. CASE ApproveFails(r)
    BY <2>3 DEF ApproveFails, NoApproval
  <2> QED
    BY <2>1, <2>2, <2>3
<1>3. TypeOK'
  BY <1>1, <1>2 DEF IInv, TypeOK, row
<1>4. TransactionsStand'
  <2>1. \A q \in Reviewers :
           approval'[q] = IF q = r THEN [pc |-> pc, anomaly |-> b, type |-> t, resolution |-> res]
                          ELSE approval[q]
    BY <1>2 DEF IInv, TypeOK
  <2> QED
    BY <1>1, <1>2, <2>1 DEF IInv, TransactionsStand, row, Locked
<1> QED
  BY <1>1, <1>3, <1>4, QuietItems DEF IInv

\* The last statement and the commit.
LEMMA ApproveInsertInv ==
  ASSUME IInv, NEW r \in Reviewers, ApproveInsert(r)
  PROVE  IInv'
<1>0. PICK a \in Anomalies, t \in ActionTypes : a = approval[r].anomaly /\ t = approval[r].type
  BY DEF ApproveInsert, IInv, TransactionsStand
<1>1. PICK new : /\ new = [severity |-> queued[a], by |-> ApprovalOf(a, r).by,
                           resolution |-> ApprovalOf(a, r).resolution]
                 /\ actions' = IF actions[a][t] # NoAction THEN actions
                               ELSE [actions EXCEPT ![a][t] = new]
  BY <1>0 DEF ApproveInsert
<1>2. /\ <<queued[a], t>> \in Eligible
      /\ approval' = [approval EXCEPT ![r] = NoApproval]
      /\ UNCHANGED <<decision, todo>>
  BY <1>0 DEF ApproveInsert
<1>3. new \in [severity : Severities, by : MaybeReviewer, resolution : Resolutions \cup {"none"}]
  BY <1>1 DEF IInv, TypeOK, ApprovalOf, TransactionsStand
<1>4. new # NoAction /\ queued[a] \in {"major", "critical"}
  BY <1>1, <1>2 DEF Eligible, NoAction
<1>5. /\ \A b \in Anomalies, s \in ActionTypes :
            (b # a \/ s # t) => actions'[b][s] = actions[b][s]
      /\ actions'[a][t] = IF actions[a][t] # NoAction THEN actions[a][t] ELSE new
      /\ actions' \in [Anomalies -> [ActionTypes ->
            [severity : Severities, by : MaybeReviewer, resolution : Resolutions \cup {"none"}]]]
  BY <1>1, <1>3 DEF IInv, TypeOK
<1>6. /\ approval' \in [Reviewers ->
            [pc : {"idle", "read", "holding", "approved"}, anomaly : Anomalies \cup {NoOne},
             type : ActionTypes \cup {"none"}, resolution : Approving \cup {"none"}]]
      /\ approval'[r].pc = "idle" /\ \A q \in Reviewers \ {r} : approval'[q] = approval[q]
  BY <1>2 DEF NoApproval, IInv, TypeOK
<1>9. /\ actions'[a][t] # NoAction
      /\ \A b \in Anomalies \ {a} : \A s \in ActionTypes : actions'[b][s] = actions[b][s]
  BY <1>4, <1>5
<1>7. CASE approval[r].pc = "approved"
  <2>1. UNCHANGED row /\ status[a] = "approved" /\ new.by = approvedBy[a] /\ new.severity = queued[a]
      /\ new.resolution = resolution[a]
    BY <1>0, <1>1, <1>7 DEF ApproveInsert, ApprovalOf, IInv, TransactionsStand
  <2>2. \A b \in Anomalies : LastEvent(b)' = LastEvent(b)
    BY <2>1 DEF row, LastEvent
  <2>3. TypeOK'
    BY <1>2, <1>5, <1>6, <2>1 DEF IInv, TypeOK, row
  <2>4. HistoryIsAPath' /\ InReviewIsHeld' /\ ApprovedRows'
    BY <2>1, <2>2 DEF IInv, row, HistoryIsAPath, InReviewIsHeld, ApprovedRows
  <2>5. TransactionsStand'
    BY <1>6, <2>1 DEF IInv, row, TransactionsStand
  <2>6. ActionsRestOnApproval'
    BY <1>2, <1>5, <2>1, <2>2 DEF IInv, row, ActionsRestOnApproval, ApprovedRows
  <2>7. ApprovedWithAction'
    BY <1>9, <2>1 DEF IInv, row, ApprovedWithAction
  <2> QED
    BY <2>3, <2>4, <2>5, <2>6, <2>7 DEF IInv
<1>8. CASE approval[r].pc = "holding"
  <2>1. /\ status' = [status EXCEPT ![a] = "approved"]
        /\ resolution' = [resolution EXCEPT ![a] = approval[r].resolution]
        /\ approvedBy' = [approvedBy EXCEPT ![a] = r]
        /\ assignee' = [assignee EXCEPT ![a] = IF @ = NoOne THEN r ELSE @]
        /\ events' = [events EXCEPT ![a] = Append(@, Event(status[a], "approved", r))]
        /\ queued' = queued /\ status[a] = "in_review"
        /\ new.by = r /\ new.severity = queued[a] /\ new.resolution = approval[r].resolution
        /\ approval[r].resolution \in Approving
    BY <1>0, <1>1, <1>8 DEF ApproveInsert, Approve, Happens, ApprovalOf, IInv, TransactionsStand
  <2>2. r \in MaybeReviewer /\ r # NoOne
    OBVIOUS
  <2>11. "approved" \in Statuses \ {"absent"} /\ status[a] \notin Terminal
    BY <2>1
  <2>3. /\ HistoryIsAPath' /\ LastEvent(a)' = Event("in_review", "approved", r)
        /\ events' \in [Anomalies -> Seq(HistoryEvents)]
        /\ \A b \in Anomalies \ {a} : LastEvent(b)' = LastEvent(b) /\ status'[b] = status[b]
        /\ status'[a] = "approved" /\ status' \in [Anomalies -> Statuses]
    <3>1. /\ HistoryIsAPath' /\ LastEvent(a)' = Event(status[a], "approved", r)
          /\ events' \in [Anomalies -> Seq(HistoryEvents)]
          /\ \A b \in Anomalies \ {a} : LastEvent(b)' = LastEvent(b) /\ status'[b] = status[b]
          /\ status'[a] = "approved" /\ status' \in [Anomalies -> Statuses]
      BY <2>1, <2>2, <2>11, ItemMoves
    <3> QED
      BY <2>1, <3>1
  <2>4. \A b \in Anomalies : /\ resolution'[b] = IF b = a THEN approval[r].resolution ELSE resolution[b]
                             /\ approvedBy'[b] = IF b = a THEN r ELSE approvedBy[b]
    BY <2>1 DEF IInv, TypeOK
  <2>5. TypeOK'
    <3>1. /\ assignee' \in [Anomalies -> MaybeReviewer]
          /\ approvedBy' \in [Anomalies -> MaybeReviewer]
          /\ resolution' \in [Anomalies -> Resolutions \cup {"none"}]
      BY <2>1 DEF IInv, TypeOK
    <3> QED
      BY <1>2, <1>5, <1>6, <2>1, <2>3, <3>1 DEF IInv, TypeOK, HistoryEvents
  <2>6. InReviewIsHeld'
    BY <2>1, <2>3 DEF IInv, InReviewIsHeld, TypeOK
  <2>7. TransactionsStand'
    <3>1. \A q \in Reviewers \ {r} : approval[q].pc = "holding" => approval[q].anomaly # a
      BY <1>0, <1>8 DEF IInv, TransactionsStand
    <3>2. \A q \in Reviewers \ {r} : approval[q].pc = "approved" => approval[q].anomaly # a
      BY <2>1 DEF IInv, TransactionsStand
    <3>3. \A q \in Reviewers \ {r} : approval[q].pc \in {"holding", "approved"} =>
             status'[approval[q].anomaly] = status[approval[q].anomaly]
      BY <2>3, <3>1, <3>2 DEF IInv, TransactionsStand
    <3> QED
      BY <1>6, <3>3 DEF IInv, TransactionsStand
  <2>8. ApprovedRows'
    BY <2>1, <2>3, <2>4 DEF IInv, ApprovedRows
  <2>9. ActionsRestOnApproval'
    <3>1. \A s \in ActionTypes : actions[a][s] = NoAction
      BY <2>1 DEF IInv, ActionsRestOnApproval
    <3>2. \A s \in ActionTypes : actions'[a][s] # NoAction => s = t /\ actions'[a][s] = new
      BY <1>5, <3>1
    <3>3. ASSUME NEW s \in ActionTypes, actions'[a][s] # NoAction
          PROVE  /\ status'[a] = "approved" /\ resolution'[a] \in Approving
                 /\ actions'[a][s].by = approvedBy'[a]
                 /\ actions'[a][s].resolution = resolution'[a]
                 /\ LastEvent(a)' = Event("in_review", "approved", approvedBy'[a])
                 /\ actions'[a][s].severity = queued'[a]
                 /\ <<queued'[a], s>> \in Eligible
      BY <1>2, <2>1, <2>3, <2>4, <3>2, <3>3
    <3>4. ASSUME NEW b \in Anomalies \ {a}, NEW s \in ActionTypes, actions'[b][s] # NoAction
          PROVE  /\ status'[b] = "approved" /\ resolution'[b] \in Approving
                 /\ actions'[b][s].by = approvedBy'[b]
                 /\ actions'[b][s].resolution = resolution'[b]
                 /\ LastEvent(b)' = Event("in_review", "approved", approvedBy'[b])
                 /\ actions'[b][s].severity = queued'[b]
                 /\ <<queued'[b], s>> \in Eligible
      <4>1. actions'[b][s] = actions[b][s]
        BY <1>9
      <4>2. /\ status[b] = "approved" /\ resolution[b] \in Approving
            /\ actions[b][s].by = approvedBy[b]
            /\ actions[b][s].resolution = resolution[b]
            /\ LastEvent(b) = Event("in_review", "approved", approvedBy[b])
            /\ actions[b][s].severity = queued[b]
            /\ <<queued[b], s>> \in Eligible
        BY <3>4, <4>1 DEF IInv, ActionsRestOnApproval
      <4>3. /\ status'[b] = status[b] /\ resolution'[b] = resolution[b]
            /\ approvedBy'[b] = approvedBy[b] /\ LastEvent(b)' = LastEvent(b)
            /\ queued'[b] = queued[b]
        BY <2>1, <2>3, <2>4
      <4> QED
        BY <4>1, <4>2, <4>3
    <3>5. ASSUME NEW b \in Anomalies, NEW s \in ActionTypes, actions'[b][s] # NoAction
          PROVE  /\ status'[b] = "approved" /\ resolution'[b] \in Approving
                 /\ actions'[b][s].by = approvedBy'[b]
                 /\ actions'[b][s].resolution = resolution'[b]
                 /\ LastEvent(b)' = Event("in_review", "approved", approvedBy'[b])
                 /\ actions'[b][s].severity = queued'[b]
                 /\ <<queued'[b], s>> \in Eligible
      <4>1. CASE b = a
        BY <3>3, <3>5, <4>1
      <4>2. CASE b # a
        BY <3>4, <3>5, <4>2
      <4> QED
        BY <4>1, <4>2
    <3> QED
      BY <3>5 DEF ActionsRestOnApproval, Event
  <2>10. ApprovedWithAction'
    <3>1. ASSUME NEW b \in Anomalies, status'[b] = "approved"
          PROVE  \E s \in ActionTypes : actions'[b][s] # NoAction
      <4>1. CASE b = a
        BY <1>9, <4>1
      <4>2. CASE b # a
        <5>1. b \in Anomalies \ {a} /\ status[b] = "approved"
          BY <2>3, <3>1, <4>2
        <5>2. PICK s \in ActionTypes : actions[b][s] # NoAction
          BY <5>1 DEF IInv, ApprovedWithAction
        <5>3. actions'[b][s] = actions[b][s]
          BY <1>9, <5>1
        <5> QED
          BY <5>2, <5>3
      <4> QED
        BY <4>1, <4>2
    <3> QED
      BY <3>1 DEF ApprovedWithAction
  <2> QED
    BY <2>3, <2>5, <2>6, <2>7, <2>8, <2>9, <2>10 DEF IInv
<1> QED
  BY <1>7, <1>8 DEF ApproveInsert

LEMMA Inductive == IInv /\ [Next]_vars => IInv'
<1> SUFFICES ASSUME IInv, [Next]_vars PROVE IInv'
  OBVIOUS
<1>1. ASSUME NEW a \in Anomalies, NEW s \in Verdicts, Redecide(a, s) PROVE IInv'
  BY <1>1, RedecideInv
<1>2. ASSUME NEW u \in Runs, RunStep(u) PROVE IInv'
  BY <1>2, RouteReadInv, RouteQueueInv DEF RunStep
<1>3. ASSUME NEW a \in Anomalies, ReviewStep(a) PROVE IInv'
  <2>1. ASSUME NEW r \in Reviewers, Claim(a, r) PROVE IInv'
    BY <2>1, TransitionInv DEF Claim
  <2>2. ASSUME Release(a) PROVE IInv'
    BY <2>2, TransitionInv DEF Release
  <2>3. ASSUME NEW r \in MaybeReviewer, NEW res \in Resolutions,
               Resolve(a, r, res) \/ Dismiss(a, r, res)
        PROVE  IInv'
    BY <2>3, TransitionInv DEF Resolve, Dismiss
  <2> QED
    BY <1>3, <2>1, <2>2, <2>3 DEF ReviewStep
<1>4. ASSUME NEW r \in Reviewers, ApproverStep(r) PROVE IInv'
  BY <1>4, ApproverReadsInv, ApproveInsertInv DEF ApproverStep
<1>5. CASE UNCHANGED vars
  <2>1. UNCHANGED <<decision, row, actions, todo, approval>>
    BY <1>5 DEF vars, row
  <2>2. TypeOK' /\ TransactionsStand'
    <3>1. TypeOK'
      BY <2>1 DEF IInv, TypeOK, row
    <3> QED
      BY <2>1, <3>1, QuietTransactions
  <2> QED
    BY <2>1, <2>2, QuietItems DEF IInv
<1> QED
  BY <1>1, <1>2, <1>3, <1>4, <1>5 DEF Next

LEMMA Invariance == Spec => []IInv
BY InitInv, Inductive, PTL DEF Spec

\* Every variable keeps its type; in particular only verdicts that need a person
\* are ever queued.
THEOREM TypeCorrect == Spec => []TypeOK
<1>1. IInv => TypeOK
  BY DEF IInv
<1> QED
  BY <1>1, Invariance, PTL

\* review_events tells how an item got to its status: without a gap, through no
\* closed status, and with a name at every step out of review.
THEOREM HistoryIsUnbroken == Spec => []HistoryIsAPath
<1>1. IInv => HistoryIsAPath
  BY DEF IInv
<1> QED
  BY <1>1, Invariance, PTL

\* A remediation action exists only upon an approval that stands, and names the one
\* who gave it and what they concluded ("confirmed" or "requires_follow_up"), however
\* many approvers raced, for whatever conclusion, and whatever Stage 6 decided meanwhile.
THEOREM ActionsAreApproved == Spec => []ActionsRestOnApproval
<1>1. IInv => ActionsRestOnApproval
  BY DEF IInv
<1> QED
  BY <1>1, Invariance, PTL

\* approve_review_remediation leaves no approval without its action.
THEOREM ApprovalsHaveActions == Spec => []ApprovedWithAction
<1>1. IInv => ApprovedWithAction
  BY DEF IInv
<1> QED
  BY <1>1, Invariance, PTL

\* What a step does to a concluded item: nothing that counts.
LEMMA ConcludedStays ==
  ASSUME IInv, [Next]_vars, NEW a \in Anomalies, status[a] \in Terminal
  PROVE  UNCHANGED <<status[a], resolution[a], approvedBy[a], queued[a], events[a]>>
<1> DEFINE Same == UNCHANGED <<status[a], resolution[a], approvedBy[a], queued[a], events[a]>>
<1>1. ASSUME UNCHANGED row PROVE Same
  BY <1>1 DEF row
<1>2. ASSUME NEW b \in Anomalies, NEW s \in Verdicts, Redecide(b, s) PROVE Same
  BY <1>1, <1>2 DEF Redecide
<1>3. ASSUME NEW u \in Runs, RouteRead(u) PROVE Same
  BY <1>1, <1>3 DEF RouteRead
<1>4. ASSUME NEW u \in Runs, NEW read \in todo[u], RouteQueue(u, read) PROVE Same
  <2>1. CASE UNCHANGED row
    BY <1>1, <2>1
  <2>2. CASE ~UNCHANGED row
    <3>1. status[read.anomaly] = "absent"
      BY <1>4, <2>2 DEF RouteQueue
    <3>2. read.anomaly # a
      BY <3>1
    <3> QED
      BY <1>4, <3>2 DEF RouteQueue, Happens, row, IInv, TypeOK
  <2> QED
    BY <2>1, <2>2
<1>5. ASSUME NEW b \in Anomalies, NEW to \in {"in_review", "pending", "resolved", "dismissed"},
             NEW actor \in MaybeReviewer, NEW res \in Resolutions \cup {"none"},
             Transition(b, to, actor, res)
      PROVE  Same
  <2>1. CASE status[b] = to
    BY <1>5, <2>1 DEF Transition
  <2>2. CASE status[b] # to
    <3>1. b # a
      BY <1>5, <2>2 DEF Transition, Allowed, AllowedTransitions
    <3> QED
      BY <1>5, <2>2, <3>1 DEF Transition, Happens, IInv, TypeOK
  <2> QED
    BY <2>1, <2>2
<1>6. ASSUME NEW b \in Anomalies, ReviewStep(b) PROVE Same
  <2>1. ASSUME NEW r \in Reviewers, Claim(b, r) PROVE Same
    BY <2>1, <1>5 DEF Claim
  <2>2. ASSUME Release(b) PROVE Same
    BY <2>2, <1>5 DEF Release
  <2>3. ASSUME NEW r \in MaybeReviewer, NEW res \in Resolutions,
               Resolve(b, r, res) \/ Dismiss(b, r, res)
        PROVE  Same
    BY <2>3, <1>5 DEF Resolve, Dismiss
  <2> QED
    BY <1>6, <2>1, <2>2, <2>3 DEF ReviewStep
<1>7. ASSUME NEW r \in Reviewers, ApproveInsert(r) PROVE Same
  <2>1. CASE UNCHANGED row
    BY <1>1, <2>1
  <2>2. CASE ~UNCHANGED row
    <3>1. approval[r].pc = "holding" /\ Approve(approval[r].anomaly, r)
      BY <1>7, <2>2 DEF ApproveInsert
    <3>2. approval[r].anomaly # a
      BY <3>1 DEF IInv, TransactionsStand
    <3> QED
      BY <3>1, <3>2 DEF Approve, Happens, IInv, TypeOK
  <2> QED
    BY <2>1, <2>2
<1>8. ASSUME NEW r \in Reviewers, ApproverStep(r) PROVE Same
  BY <1>1, <1>7, <1>8 DEF ApproverStep, ApproveRead, ApproveUpdate, ApproveFails
<1>9. CASE UNCHANGED vars
  BY <1>9 DEF vars
<1> HIDE DEF Same
<1>10. ASSUME NEW u \in Runs, RunStep(u) PROVE Same
  BY <1>3, <1>4, <1>10 DEF RunStep
<1>11. ASSUME Next PROVE Same
  BY <1>2, <1>6, <1>8, <1>10, <1>11, Zenon DEF Next
<1> QED
  BY <1>9, <1>11 DEF Same

\* A conclusion is final: no reviewer, approver or routing run changes it, who
\* approved it or its history.
THEOREM ConclusionsStand == Spec => ConclusionsAreFinal
<1>1. IInv /\ [Next]_vars =>
         [\A a \in Anomalies : status[a] \in Terminal =>
            UNCHANGED <<status[a], resolution[a], approvedBy[a], queued[a], events[a]>>]_vars
  BY ConcludedStays
<1> QED
  BY <1>1, Invariance, PTL DEF Spec, ConclusionsAreFinal
=============================================================================
