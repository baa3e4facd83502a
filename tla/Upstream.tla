------------------------------- MODULE Upstream -------------------------------
(***************************************************************************)
(* What ingestion may expect of the order system: dated orders appear, lose *)
(* or gain soundness, disappear; now and then a fault takes some away or    *)
(* brings some back. OrderBook implements it, Ingestion is built on it.     *)
(***************************************************************************)
EXTENDS Integers, Sequences, FiniteSets, FiniteSetsExt

CONSTANTS
    LastDay,      \* bound: the last day of the clock
    MaxOrders,    \* bound: orders ever made
    MaxBatch,     \* bound: orders made at once
    MaxBackdate,  \* bound: days an order may be dated in the past
    MaxAhead,     \* bound: days an order may be dated ahead
    MaxFaults     \* bound: faults

ASSUME UpstreamAssumption ==
    /\ {LastDay, MaxOrders, MaxBatch} \subseteq Nat \ {0}
    /\ {MaxBackdate, MaxAhead, MaxFaults} \subseteq Nat

VARIABLES
    today,
    book,     \* the orders a reader sees; bad: its refund exceeds its worth
    made,     \* history: id, date and day of creation of every order, by uid
    unsaved,  \* history: uids a fault has taken away or brought back
    faults

upstreamVars == <<today, book, made, unsaved, faults>>

\* The clock starts on day 1; an order may be dated the day before.
Days == 0 .. LastDay
Dates == {d \in Days : today - MaxBackdate <= d /\ d <= today + MaxAhead}
Orders == [uid : 1 .. MaxOrders, id : Nat \ {0}, date : Days, bad : BOOLEAN]
Uids(orders) == {o.uid : o \in orders}

Init ==
    /\ today = 1
    /\ book = {} /\ made = <<>> /\ unsaved = {}
    /\ faults = 0

Tick ==
    /\ today < LastDay
    /\ today' = today + 1
    /\ UNCHANGED <<book, made, unsaved, faults>>

\* New orders, each with a good refund and an id above every id in the book. An id
\* that has left the book may come again.
Place(dates, start) ==
    LET uid(i) == Len(made) + i
        id(i)  == start + i - 1
    IN  /\ Len(made) + Len(dates) <= MaxOrders
        /\ \A o \in book : start > o.id
        /\ book' = book \cup {[uid |-> uid(i), id |-> id(i), date |-> dates[i], bad |-> FALSE] :
                                 i \in DOMAIN dates}
        /\ made' = made \o [i \in DOMAIN dates |-> [id |-> id(i), date |-> dates[i], on |-> today]]
        /\ UNCHANGED <<today, unsaved, faults>>

\* The order with this uid, sound or not.
OrderOf(u, bad) == [uid |-> u, id |-> made[u].id, date |-> made[u].date, bad |-> bad[u]]

\* An anomaly: orders lose or gain their soundness, or disappear.
Alter(gone, bad) ==
    /\ gone \subseteq Uids(book)
    /\ book' = {OrderOf(u, bad) : u \in Uids(book) \ gone}
    /\ UNCHANGED <<today, made, unsaved, faults>>

\* A fault: orders disappear or come back, and all of them are known to be in doubt.
Lapse(after, doubt, bad) ==
    /\ faults < MaxFaults /\ faults' = faults + 1
    /\ unsaved' = unsaved \cup doubt
    /\ (Uids(book) \ after) \cup (after \ Uids(book)) \subseteq unsaved'
    /\ \A u, v \in after : made[u].id = made[v].id => u = v
    /\ book' = {OrderOf(u, bad) : u \in after}
    /\ UNCHANGED <<today, made>>

Made == DOMAIN made

UpstreamNext ==
    \/ Tick
    \/ \E n \in 1 .. MaxBatch, start \in 1 .. MaxOrders :
          \E dates \in [1 .. n -> Dates] : Place(dates, start)
    \/ \E gone \in SUBSET Made, bad \in [Made -> BOOLEAN] : Alter(gone, bad)
    \/ \E after \in SUBSET Made : \E doubt \in SUBSET Made : \E bad \in [Made -> BOOLEAN] :
          Lapse(after, doubt, bad)

UpstreamSpec == Init /\ [][UpstreamNext]_upstreamVars

UpstreamTypeOK ==
    /\ today \in 1 .. LastDay
    /\ book \subseteq Orders
    /\ made \in Seq([id : Nat \ {0}, date : Days, on : Days]) /\ Len(made) <= MaxOrders
    /\ unsaved \subseteq Made
    /\ faults \in 0 .. MaxFaults
=============================================================================
