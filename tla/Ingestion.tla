------------------------------ MODULE Ingestion ------------------------------
(***************************************************************************)
(* Stage 3: the hourly workflow that copies a window of the order book into *)
(* fact_orders. Executions overlap (the schedule and a manual run), fail at *)
(* any node, are killed, and may be so slow that maintenance closes them    *)
(* while they work. The order system changes between any two of its nodes;  *)
(* Upstream says how, and OrderBook implements Upstream.                    *)
(***************************************************************************)
EXTENDS Upstream

CONSTANTS
    Slots,      \* executions that may overlap
    Scheduled,  \* the one the schedule starts; the others are manual
    ColdStart   \* days that a first window reaches back, 180 in the workflow

ASSUME SlotsAssumption ==
    IsFiniteSet(Slots) /\ Scheduled \in Slots /\ ColdStart \in Nat \ {0}

VARIABLES
    facts,      \* fact_orders: the uids of the orders inserted
    letters,    \* uids of the staged rows with status failed: the dead letters
    lastTo,     \* newest window_to of a successful or partial run, 0 if none
    run         \* per slot: the execution's node, its ledger row, its batch

flow == <<facts, letters, lastTo, run>>
vars == <<upstreamVars, flow>>

Nodes == {"idle", "opened", "validated", "inserted"}

\* open: the ledger row says 'running'. batch holds the rows of its batch that are
\* pending in staging. A closed run matters through lastTo only.
Idle == [node |-> "idle", open |-> FALSE, from |-> 0, to |-> 0, batch |-> {}]

IngestInit == Init /\ facts = {} /\ letters = {} /\ lastTo = 0 /\ run = [r \in Slots |-> Idle]

-----------------------------------------------------------------------------
(* The workflow's nodes.                                                   *)

\* Mutation: the window starts on the day the last one ended.
WindowAfter(to) == to

\* Create Batch Context: from one day before the last successful window's end, or
\* from a fixed number of days back on a cold start; no order is dated before day 0.
WindowFrom(to) == IF to = 0 THEN Max({0, today - ColdStart}) ELSE to - 1

OpenRun(r) ==
    /\ run[r] = Idle
    /\ run' = [run EXCEPT ![r] = [node |-> "opened", open |-> TRUE, batch |-> {},
                                  from |-> WindowFrom(lastTo), to |-> today]]
    /\ UNCHANGED <<upstreamVars, facts, letters, lastTo>>

\* GET /orders: list_orders under the lock, both ends inclusive.
Listed(from, to) == {o \in book : o.date >= from /\ o.date <= to}

\* Fetch Orders, Validate API Response (which an answer of this service passes),
\* Stage Raw Orders and Validate Orders: from the answer on, the run works on a
\* copy that nobody else reads. Of the rules an order can break, those of the order
\* system break one, a refund above the order's worth.
Fetch(r) ==
    LET listed == Listed(run[r].from, run[r].to)
        bad    == {o \in listed : o.bad}
    IN  /\ run[r].node = "opened"
        /\ letters' = letters \cup Uids(bad)
        /\ run' = [run EXCEPT ![r].node = "validated", ![r].from = 0, ![r].batch = Uids(listed \ bad)]
        /\ UNCHANGED <<upstreamVars, facts, lastTo>>

\* ON CONFLICT (order_id) DO NOTHING, and one row of those that share an id.
NewFacts(batch) ==
    {u \in batch : /\ \A f \in facts : made[f].id # made[u].id
                   /\ \A v \in batch : made[v].id = made[u].id => u <= v}

\* Insert Facts.
Insert(r) ==
    /\ run[r].node = "validated"
    /\ facts' = facts \cup NewFacts(run[r].batch)
    /\ run' = [run EXCEPT ![r].node = "inserted", ![r].batch = {}]
    /\ UNCHANGED <<upstreamVars, letters, lastTo>>

\* Finalize Ingestion Run writes by batch_id, whatever the ledger row says by now:
\* a run that recovery has closed becomes a success all the same.
Finalize(r) ==
    /\ run[r].node = "inserted"
    /\ run' = [run EXCEPT ![r] = Idle]
    /\ lastTo' = Max({lastTo, run[r].to})
    /\ UNCHANGED <<upstreamVars, facts, letters>>

\* A node throws, and the error workflow closes the run if it is still running.
NodeFails(r) ==
    /\ run[r].node # "idle"
    /\ run' = [run EXCEPT ![r] = Idle]
    /\ UNCHANGED <<upstreamVars, facts, letters, lastTo>>

\* n8n dies, or the error workflow cannot reach the database: nobody closes it.
RunKilled(r) ==
    /\ run[r].node # "idle"
    /\ run' = [run EXCEPT ![r] = [Idle EXCEPT !.open = run[r].open]]
    /\ UNCHANGED <<upstreamVars, facts, letters, lastTo>>

-----------------------------------------------------------------------------
(* Maintenance.                                                            *)

\* Older than the timeout. How long a run has been open is not modelled.
Overdue(r) == run[r].open

\* recover_stale_runs: every row that is overdue, in one statement. The execution,
\* if there still is one, is not told.
RecoverStale(stale) ==
    /\ stale # {} /\ \A r \in stale : Overdue(r)
    /\ run' = [r \in Slots |-> IF r \in stale THEN [run[r] EXCEPT !.open = FALSE] ELSE run[r]]
    /\ UNCHANGED <<upstreamVars, facts, letters, lastTo>>

RunStep(r) == Fetch(r) \/ Insert(r) \/ Finalize(r)

FlowNext ==
    \/ \E r \in Slots : OpenRun(r) \/ RunStep(r) \/ NodeFails(r) \/ RunKilled(r)
    \/ \E stale \in SUBSET Slots : RecoverStale(stale)

Next == (UpstreamNext /\ UNCHANGED flow) \/ FlowNext

Spec == IngestInit /\ [][Next]_vars

\* The clock advances. The schedule starts executions again and again, and one that
\* is tried again and again reaches its next node at last; manual ones need not.
\* Maintenance runs, and a run that stays open gets old. Errors need not happen.
Fairness ==
    /\ WF_vars(Tick /\ UNCHANGED flow)
    /\ WF_vars(OpenRun(Scheduled))
    /\ SF_vars(Fetch(Scheduled)) /\ SF_vars(Insert(Scheduled)) /\ SF_vars(Finalize(Scheduled))
    /\ \A r \in Slots : WF_vars(\E stale \in SUBSET Slots : r \in stale /\ RecoverStale(stale))

FairSpec == Spec /\ Fairness

-----------------------------------------------------------------------------
TypeOK ==
    /\ UpstreamTypeOK
    /\ facts \cup letters \subseteq DOMAIN made
    /\ lastTo \in 0 .. LastDay
    /\ run \in [Slots -> [node : Nodes, open : BOOLEAN, from : 0 .. LastDay, to : 0 .. LastDay,
                          batch : SUBSET (1 .. MaxOrders)]]

Landed(u) == u \in facts \cup letters

FirstOfItsId(u) == \A v \in 1 .. u - 1 : made[v].id # made[u].id

\* A day of grace: an order may be dated the day before it is made. One that is older
\* than a cold start's reach may be too old for a first window.
Punctual(u) ==
    /\ u \notin unsaved /\ FirstOfItsId(u)
    /\ made[u].date >= made[u].on - 1 /\ made[u].date >= today - ColdStart

\* No order falls between two windows: once a window reaches past the day an order was
\* made, and includes its date, the order is a fact or a dead letter, whatever runs
\* overlapped, failed, died or were taken for dead.
WindowsLeaveNoGap ==
    \A o \in book :
        Punctual(o.uid) /\ made[o.uid].on < lastTo /\ o.date <= lastTo => Landed(o.uid)

\* An order that stays in the book gets into the warehouse.
OrdersLand ==
    \A u \in 1 .. MaxOrders :
        (<>[](u \in Uids(book) /\ Punctual(u))) => <>Landed(u)
=============================================================================
