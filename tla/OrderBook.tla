------------------------------ MODULE OrderBook ------------------------------
(***************************************************************************)
(* The upstream order system (the mock API): an order book in memory, two   *)
(* files on a volume, and the operator's two ways of changing the book. A   *)
(* mutation changes the memory first and then writes one file after the     *)
(* other, all under one lock; the process may die, or a write fail, between *)
(* any two of these steps.                                                  *)
(***************************************************************************)
EXTENDS Integers, Sequences, FiniteSets, FiniteSetsExt

CONSTANTS
    Regions,
    Draws,          \* what the generator may draw: region, quantity, price, refund
    Severities,     \* severities of an injection, in percent
    LastDay,        \* bound: the last day of the clock
    MaxOrders,      \* bound: orders ever created
    MaxBatch,       \* bound: orders of one generate call
    MaxBackdate,    \* bound: days an order_date lies in the past
    MaxAhead,       \* bound: days an order_date lies ahead
    MaxInjections,  \* bound: records in the log
    MaxFaults       \* bound: kills and failed writes

\* Order.quantity, unit_price and refund_amount (models.py), in minor units.
ASSUME DrawsAssumption ==
    \A d \in Draws :
        /\ d.region \in Regions
        /\ d.quantity \in Nat \ {0} /\ d.price \in Nat
        /\ d.refund \in 0 .. d.quantity * d.price
ASSUME BookBoundsAssumption ==
    /\ Severities \subseteq 1 .. 100
    /\ {LastDay, MaxOrders, MaxBatch} \subseteq Nat \ {0}
    /\ {MaxBackdate, MaxAhead, MaxInjections, MaxFaults} \subseteq Nat

VARIABLES
    today,
    proc,      \* "down", "starting" (in bootstrap) or "serving"
    write,     \* the file _persist writes next, "none" when the lock is free
    book,      \* _orders
    log,       \* _anomalies
    nextSeq,   \* _next_sequence
    disk,      \* orders.jsonl and anomalies.json
    made,      \* history: every order ever created, in order of creation
    dropped,   \* history: orders an injection has removed from the book
    unsaved,   \* history: orders a cut-short persist left in one place only
    faults

memory == <<book, log, nextSeq>>
bookVars == <<today, proc, write, book, log, nextSeq, disk, made, dropped, unsaved, faults>>

\* The clock starts on day 1; an order may be dated the day before.
Days == 0 .. LastDay
Dates == {d \in Days : today - MaxBackdate <= d /\ d <= today + MaxAhead}
-----------------------------------------------------------------------------
(* What an injection does to the orders it matches.                        *)

\* Python's round: halves go to the even neighbour.
RoundTo(n, unit) ==
    LET q == n \div unit
        r == n % unit
    IN  IF 2 * r > unit \/ (2 * r = unit /\ q % 2 = 1) THEN q + 1 ELSE q

Gross(o) == o.quantity * o.price

Retained(amount, severity) == RoundTo(amount * (100 - severity), 100)

\* Mutation: the refund is not scaled with the price.
RevenueDropPriceOnly(o, severity) == [o EXCEPT !.price = Retained(@, severity)]

\* apply_revenue_drop.
RevenueDrop(o, severity) ==
    [o EXCEPT !.price = Retained(@, severity),
              !.refund = IF @ > 0 THEN Retained(@, severity) ELSE @]

Refunded(o) == [o EXCEPT !.refund = IF @ < Gross(o) THEN Gross(o) ELSE @]

\* The share of orders to refund, 5 % to 90 %, in hundredths of a percent.
TargetShare(severity) == Min({9000, 500 + 85 * severity})

ToConvert(matched, severity) ==
    LET already    == Cardinality({o \in matched : o.refund > 0})
        candidates == Cardinality(matched) - already
        wanted     == RoundTo(Cardinality(matched) * TargetShare(severity), 10000) - already
    IN  IF candidates = 0 THEN 0 ELSE Min({candidates, Max({1, wanted})})

\* apply_refund_spike: partial refunds become full, and so many more.
RefundSpikes(matched, severity) ==
    LET already == {o \in matched : o.refund > 0}
    IN  {{Refunded(o) : o \in already \cup S} \cup ((matched \ already) \ S) :
            S \in kSubset(ToConvert(matched, severity), matched \ already)}

RemoveCount(matched, severity) ==
    Min({Cardinality(matched), Max({1, RoundTo(Cardinality(matched) * severity, 100)})})

\* apply_regional_drop.
RegionalDrops(matched, severity) ==
    {matched \ S : S \in kSubset(RemoveCount(matched, severity), matched)}

-----------------------------------------------------------------------------
(* Identifiers.                                                            *)

\* Mutation: as many as there are, and one.
SequenceAfterCount(orders) == Cardinality(orders) + 1

\* _compute_next_sequence.
SequenceAfter(orders) == IF orders = {} THEN 1 ELSE Max({o.id : o \in orders}) + 1

\* _build_order, for each draw of a batch: the id is the next of the sequence.
\* uid, which no code has, tells orders apart that share an id.
Built(draws, dates, start) ==
    {[uid |-> Len(made) + i, id |-> start + i - 1, date |-> dates[i],
      region |-> draws[i].region, quantity |-> draws[i].quantity,
      price |-> draws[i].price, refund |-> draws[i].refund] : i \in DOMAIN draws}

Remember(draws, dates, start) ==
    made \o [i \in DOMAIN draws |-> [id |-> start + i - 1, date |-> dates[i], on |-> today]]

-----------------------------------------------------------------------------
BookInit ==
    /\ today = 1
    /\ proc = "down" /\ write = "none"
    /\ book = {} /\ log = <<>> /\ nextSeq = 1
    /\ disk = [exists |-> FALSE, orders |-> {}, log |-> <<>>]
    /\ made = <<>> /\ dropped = {} /\ unsaved = {}
    /\ faults = 0

Tick ==
    /\ today < LastDay
    /\ today' = today + 1
    /\ UNCHANGED <<proc, write, memory, disk, made, dropped, unsaved, faults>>

\* bootstrap on a volume that holds a book.
Load ==
    /\ proc = "down" /\ disk.exists
    /\ book' = disk.orders /\ log' = disk.log
    /\ nextSeq' = SequenceAfter(disk.orders)
    /\ proc' = "serving"
    /\ UNCHANGED <<today, write, disk, made, dropped, unsaved, faults>>

\* bootstrap on an empty volume: a history that ends today, then _persist.
GenerateHistory ==
    /\ proc = "down" /\ ~disk.exists
    /\ \E n \in 0 .. MaxBatch :
        /\ Len(made) + n <= MaxOrders
        /\ \E draws \in [1 .. n -> Draws], dates \in [1 .. n -> Dates \cap 0 .. today] :
            /\ \A i, j \in 1 .. n : i < j => dates[i] <= dates[j]
            /\ book' = Built(draws, dates, 1)
            /\ made' = Remember(draws, dates, 1)
    /\ log' = <<>> /\ nextSeq' = SequenceAfter(book')
    /\ proc' = "starting" /\ write' = "orders"
    /\ UNCHANGED <<today, disk, dropped, unsaved, faults>>

Free == proc = "serving" /\ write = "none"

\* current_business_date: today, or the newest stored date when that is later.
BusinessDate == Max({today} \cup {o.date : o \in book})

\* POST /admin/generate-orders, with or without an explicit order_date.
Generate(draws, date) ==
    LET dates == [i \in DOMAIN draws |-> date]
    IN  /\ Free
        /\ Len(made) + Len(draws) <= MaxOrders
        /\ book' = book \cup Built(draws, dates, nextSeq)
        /\ made' = Remember(draws, dates, nextSeq)
        /\ nextSeq' = nextSeq + Len(draws)
        /\ write' = "orders"
        /\ UNCHANGED <<today, proc, log, disk, dropped, unsaved, faults>>

\* POST /admin/inject-anomaly: LookupError when nothing matches, and
\* regional_drop needs a region.
Inject(kind, date, region, severity) ==
    LET matched == {o \in book : o.date = date /\ region \in {"all", o.region}}
        becomes == CASE kind = "revenue_drop"  -> {{RevenueDrop(o, severity) : o \in matched}}
                     [] kind = "refund_spike"  -> RefundSpikes(matched, severity)
                     [] kind = "regional_drop" -> RegionalDrops(matched, severity)
    IN  /\ Free /\ matched # {}
        /\ kind = "regional_drop" => region # "all"
        /\ Len(log) < MaxInjections
        /\ \E after \in becomes :
            LET gone == {o \in matched : \A p \in after : p.uid # o.uid}
            IN  /\ book' = (book \ matched) \cup after
                /\ log' = Append(log, [kind |-> kind, removed |-> {o.id : o \in gone},
                                            gone |-> {o.uid : o \in gone}])
                /\ dropped' = dropped \cup {o.uid : o \in gone}
        /\ write' = "orders"
        /\ UNCHANGED <<today, proc, nextSeq, disk, made, unsaved, faults>>

\* Mutation: only the orders are written.
WriteOrdersOnly ==
    /\ write = "orders"
    /\ disk' = [disk EXCEPT !.exists = TRUE, !.orders = book]
    /\ write' = "none" /\ proc' = "serving"
    /\ UNCHANGED <<today, memory, made, dropped, unsaved, faults>>

\* _persist, one atomic replacement of a file after the other.
WriteOrders ==
    /\ write = "orders"
    /\ disk' = [disk EXCEPT !.exists = TRUE, !.orders = book]
    /\ write' = "anomalies"
    /\ UNCHANGED <<today, proc, memory, made, dropped, unsaved, faults>>

WriteAnomalies ==
    /\ write = "anomalies"
    /\ disk' = [disk EXCEPT !.log = log]
    /\ write' = "none" /\ proc' = "serving"
    /\ UNCHANGED <<today, memory, made, dropped, unsaved, faults>>

Uids(orders) == {o.uid : o \in orders}

\* What a persist that is cut short leaves in one place only: orders, and the
\* record of their removal.
Disputed ==
    (Uids(book) \ Uids(disk.orders)) \cup (Uids(disk.orders) \ Uids(book))
    \cup UNION {log[i].gone : i \in Len(disk.log) + 1 .. Len(log)}

\* A write raises: the caller gets a 500, the mutation stays in memory. In
\* bootstrap the service does not start.
PersistFails ==
    /\ write # "none" /\ proc = "serving"
    /\ faults < MaxFaults /\ faults' = faults + 1
    /\ unsaved' = unsaved \cup Disputed
    /\ write' = "none"
    /\ UNCHANGED <<today, proc, memory, disk, made, dropped>>

Killed ==
    /\ proc # "down"
    /\ faults < MaxFaults /\ faults' = faults + 1
    /\ unsaved' = unsaved \cup (IF write # "none" THEN Disputed ELSE {})
    /\ proc' = "down" /\ write' = "none"
    /\ book' = {} /\ log' = <<>> /\ nextSeq' = 1
    /\ UNCHANGED <<today, disk, made, dropped>>

Kinds == {"revenue_drop", "refund_spike", "regional_drop"}

BookNext ==
    \/ Tick \/ Load \/ GenerateHistory
    \/ \E n \in 1 .. MaxBatch :
          \E draws \in [1 .. n -> Draws], date \in {BusinessDate} \cup Dates : Generate(draws, date)
    \/ \E kind \in Kinds, date \in Days, region \in Regions \cup {"all"}, severity \in Severities :
          Inject(kind, date, region, severity)
    \/ WriteOrders \/ WriteAnomalies \/ PersistFails \/ Killed

BookSpec == BookInit /\ [][BookNext]_bookVars

-----------------------------------------------------------------------------
\* A change of the book survives every restart, with its record: each order ever
\* made is on the volume, or named by the volume's log as removed, unless the
\* service died or failed between the change and the end of its persist.
NothingVanishesSilently ==
    \A u \in DOMAIN made \ unsaved :
        write # "none" \/ u \in Uids(disk.orders)
                       \/ \E i \in DOMAIN disk.log : u \in disk.log[i].gone

\* generate_orders: "order_id stays globally unique". It does within the book,
\* through restarts; across time it does not: the id of an order that was removed,
\* or never saved, may be given again after a restart.
IdsAreUniqueInTheBook ==
    /\ \A o, p \in book : o.id = p.id => o.uid = p.uid
    /\ \A a, b \in DOMAIN made :
          a < b /\ made[a].id = made[b].id => a \in dropped \cup unsaved

\* What the order service serves is refused only where price cuts have rounded price
\* and refund apart, which takes an order of several units: half a cent for the refund
\* and for each unit, with every injection on record, and with every one whose record a
\* fault has lost.
OnlyRoundingIsRefused ==
    \A o \in book : o.refund > Gross(o) =>
        /\ o.quantity > 1
        /\ 2 * (o.refund - Gross(o)) <= (Len(log) + faults) * (o.quantity + 1)

\* While the service is down its book is the one it will load.
Visible == IF proc = "down" THEN disk.orders ELSE book

Expected == INSTANCE Upstream WITH
    book <- {[uid |-> o.uid, id |-> o.id, date |-> o.date, bad |-> o.refund > Gross(o)] :
                o \in Visible}

\* The order service is the order system that ingestion expects.
ImplementsUpstream == Expected!UpstreamSpec
=============================================================================
