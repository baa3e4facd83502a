------------------------------ MODULE Edges_proofs ------------------------------
(***************************************************************************)
(* Proofs about the two programs at the system's edges, which share nothing: *)
(* the mock order service it reads from, and the provisioner of the         *)
(* dashboards that read from it.                                            *)
(*                                                                          *)
(* OrderBook: for any orders, draws, injections and faults, no change of     *)
(* the book vanishes silently, ids are unique in the book, price cuts drift  *)
(* by half a cent a time, and the service is the order system that           *)
(* ingestion expects.  Provision: for any catalogue whose keys and names     *)
(* are unique, nothing is made twice, and a run that ends leaves everything  *)
(* as it is specified, whatever earlier runs left.                          *)
(***************************************************************************)

EXTENDS OrderBook, Provision, FiniteSetTheorems, WellFoundedInduction, TLAPS

Number == Nat \ {0}
Order  == [uid : Number, id : Number, date : Days, region : Regions,
           quantity : Number, price : Nat, refund : Nat]
Entry  == [kind : Kinds, removed : SUBSET Number, gone : SUBSET Number]
Maker  == [id : Number, date : Days, on : Days]

\* Every variable ranges over its type.
TypeOK ==
    /\ today \in 1 .. LastDay
    /\ proc \in {"down", "starting", "serving"} /\ write \in {"none", "orders", "anomalies"}
    /\ book \subseteq Order /\ log \in Seq(Entry) /\ nextSeq \in Number
    /\ disk \in [exists : BOOLEAN, orders : SUBSET Order, log : Seq(Entry)]
    /\ made \in Seq(Maker) /\ Len(made) <= MaxOrders
    /\ dropped \subseteq DOMAIN made /\ unsaved \subseteq DOMAIN made
    /\ faults \in 0 .. MaxFaults

\* A service that is down remembers nothing; one that serves, or is about to write its
\* log, has a volume with a book; a volume without a book is empty.
PhasesAreOrderly ==
    /\ proc = "down" => write = "none" /\ book = {} /\ log = <<>> /\ nextSeq = 1
    /\ proc = "starting" => write # "none" /\ log = <<>>
    /\ proc = "serving" \/ write = "anomalies" => disk.exists
    /\ write = "anomalies" => disk.orders = book
    /\ ~disk.exists => disk.orders = {} /\ disk.log = <<>>

\* The volume's log is how the log in memory begins.
LogIsKept ==
    /\ proc # "down" => /\ Len(disk.log) <= Len(log)
                        /\ \A i \in 1 .. Len(disk.log) : disk.log[i] = log[i]
    /\ \A i \in DOMAIN log : log[i].gone \subseteq dropped
    /\ \A i \in DOMAIN disk.log : disk.log[i].gone \subseteq dropped

\* A book is a book of orders that were made, each once, each with an id of its own.
IsBook(orders) ==
    /\ \A o \in orders : /\ o.uid \in DOMAIN made
                         /\ o.id = made[o.uid].id /\ o.date = made[o.uid].date
    /\ \A o, p \in orders : o.uid = p.uid \/ o.id = p.id => o = p
BooksAreBooks == IsBook(book) /\ IsBook(disk.orders)

\* An order is in the book or on record as removed, or a fault has put it in doubt.
Accounted(u, orders, entries) ==
    u \in Uids(orders) \/ \E i \in DOMAIN entries : u \in entries[i].gone
NothingIsLost ==
    /\ proc # "down" => \A u \in DOMAIN made \ unsaved : Accounted(u, book, log)
    /\ write = "none" => \A u \in DOMAIN made \ unsaved : Accounted(u, disk.orders, disk.log)
    /\ proc # "down" /\ write = "none" =>
          (Uids(book) \ Uids(disk.orders)) \cup (Uids(disk.orders) \ Uids(book)) \subseteq unsaved

\* The sequence is above every id of the book, and counts no further than the orders
\* made. Of two orders with one id the older has left the book, or is in doubt.
IdsAreFresh ==
    /\ nextSeq <= Len(made) + 1
    /\ \A u \in DOMAIN made : made[u].id <= u /\ made[u].date <= today + MaxAhead
    /\ \A o \in book : o.id < nextSeq
    /\ \A a, b \in DOMAIN made :
          a < b /\ made[a].id = made[b].id => a \in dropped \cup unsaved

\* After n price cuts.
Near(o, n) ==
    o.refund > Gross(o) => /\ o.quantity > 1
                           /\ 2 * (o.refund - Gross(o)) <= n * (o.quantity + 1)

\* Price cuts are on record, but for those whose records were lost: one per fault, and
\* the one whose persist is under way.
CutsAreOnRecord ==
    \E lost \in 0 .. faults :
        /\ proc # "down" => lost + Len(log) - Len(disk.log) <= faults + (IF write = "none" THEN 0 ELSE 1)
        /\ \A o \in book : Near(o, Len(log) + lost)
        /\ \A o \in disk.orders : Near(o, (IF proc = "down" THEN Len(disk.log) ELSE Len(log)) + lost)

IInv ==
    /\ TypeOK /\ PhasesAreOrderly /\ LogIsKept /\ BooksAreBooks /\ NothingIsLost /\ IdsAreFresh
    /\ CutsAreOnRecord

USE BookBoundsAssumption

-----------------------------------------------------------------------------
(* Numbers.                                                                 *)

LEMMA LeastNumber ==
  ASSUME NEW S \in SUBSET Nat, S # {}
  PROVE  \E m \in S : \A n \in S : m <= n
<1>1. PICK m \in S : \A n \in S : ~(<<n, m>> \in OpToRel(<, Nat))
  BY WFMin, NatLessThanWellFounded, Zenon
<1>2. \A n \in S : ~(n < m)
  BY <1>1, Zenon DEF OpToRel
<1> QED
  BY <1>2

\* The greatest of a bounded set of numbers is its least upper bound.
LEMMA MaxOfNumbers ==
  ASSUME NEW S \in SUBSET Nat, S # {}, NEW b \in Nat, \A n \in S : n <= b
  PROVE  Max(S) \in S /\ \A n \in S : n <= Max(S)
<1> DEFINE T == {n \in Nat : \A k \in S : k <= n}
<1>1. PICK m \in T : \A n \in T : m <= n
  <2>1. T # {}
    OBVIOUS
  <2> QED
    BY <2>1, LeastNumber
<1>2. m \in S
  <2> SUFFICES ASSUME m \notin S PROVE FALSE
    OBVIOUS
  <2>1. \A k \in S : k < m
    BY <1>1
  <2>2. m - 1 \in Nat
    <3>1. PICK k \in S : TRUE
      OBVIOUS
    <3>2. k \in Nat /\ m \in Nat /\ k < m
      BY <2>1
    <3> QED
      BY <3>2
  <2>3. \A k \in S : k <= m - 1
    BY <1>1, <2>1
  <2>4. m - 1 \in T
    BY <2>2, <2>3
  <2> QED
    BY <1>1, <2>4
<1> QED
  BY <1>1, <1>2 DEF Max

\* Python's round: the nearest integer, and monotone.
LEMMA Rounding ==
  ASSUME NEW n \in Nat
  PROVE  /\ RoundTo(n, 100) \in Nat
         /\ 100 * RoundTo(n, 100) - n <= 50 /\ n - 100 * RoundTo(n, 100) <= 50
BY DEF RoundTo

LEMMA RoundingIsMonotone ==
  ASSUME NEW n \in Nat, NEW k \in Nat, n <= k
  PROVE  RoundTo(n, 100) <= RoundTo(k, 100)
<1>1. n \div 100 \in Nat /\ k \div 100 \in Nat /\ n % 100 \in 0 .. 99 /\ k % 100 \in 0 .. 99
      /\ n = 100 * (n \div 100) + (n % 100) /\ k = 100 * (k \div 100) + (k % 100)
  OBVIOUS
<1>2. CASE n \div 100 < k \div 100
  BY <1>1, <1>2 DEF RoundTo
<1>3. CASE n \div 100 >= k \div 100
  <2>1. n \div 100 = k \div 100 /\ n % 100 <= k % 100
    BY <1>1, <1>3
  <2> QED
    BY <1>1, <2>1 DEF RoundTo
<1> QED
  BY <1>1, <1>2, <1>3

-----------------------------------------------------------------------------
(* What an injection makes of an order.                                     *)

\* A cut to c percent drifts by half a cent for the refund and for each unit.
LEMMA CutDrifts ==
  ASSUME NEW q \in Number, NEW p \in Nat, NEW r \in Nat, NEW c \in 0 .. 100, NEW n \in Nat,
         r > q * p => 2 * (r - q * p) <= n * (q + 1)
  PROVE  LET g == q * RoundTo(p * c, 100)
         IN  2 * (RoundTo(r * c, 100) - g) <= (n + 1) * (q + 1)
<1> DEFINE u == RoundTo(p * c, 100)
           v == RoundTo(r * c, 100)
           d == r - q * p
<1>1. p * c \in Nat /\ r * c \in Nat /\ q * p \in Nat /\ c \in Nat /\ c <= 100 /\ d \in Int
  BY DEF Number
<1>2. u \in Nat /\ v \in Nat /\ 100 * v - r * c <= 50 /\ p * c - 100 * u <= 50
  BY <1>1, Rounding
<1> HIDE DEF u, v
<1>3. 100 * v - 100 * (q * u) <= d * c + 50 * (q + 1)
  <2>1. q * (p * c - 100 * u) <= q * 50
    <3> DEFINE e == p * c - 100 * u
    <3>1. e \in Int /\ e <= 50
      BY <1>1, <1>2
    <3> HIDE DEF e
    <3>2. q * e <= q * 50
      BY <3>1 DEF Number
    <3> QED
      BY <3>2 DEF e
  <2>2. q * (p * c - 100 * u) = (q * p) * c - 100 * (q * u)
    BY <1>1, <1>2 DEF Number
  <2>3. d * c = r * c - (q * p) * c
    BY <1>1
  <2>4. (q * p) * c \in Int /\ q * u \in Int /\ q * 50 \in Int /\ d * c \in Int
    BY <1>1, <1>2 DEF Number
  <2> QED
    BY <1>1, <1>2, <2>1, <2>2, <2>3, <2>4 DEF Number
<1>4. 2 * (d * c) <= 100 * (n * (q + 1))
  <2>1. n * (q + 1) \in Nat
    BY DEF Number
  <2>2. CASE d <= 0
    <3>1. d * c <= 0
      BY <1>1, <2>2
    <3> QED
      BY <1>1, <2>1, <3>1
  <2>3. CASE d > 0
    <3>1. 2 * d <= n * (q + 1)
      BY <1>1, <2>3
    <3>2. d * c <= d * 100
      BY <1>1, <2>3
    <3> QED
      BY <1>1, <2>1, <3>1, <3>2
  <2> QED
    BY <1>1, <2>2, <2>3
<1>5. (n + 1) * (q + 1) = n * (q + 1) + (q + 1)
  BY DEF Number
<1>6. 2 * (v - q * u) <= (n + 1) * (q + 1)
  <2> DEFINE k == n * (q + 1)
             w == q * u
             x == d * c
  <2>1. k \in Int /\ w \in Int /\ x \in Int /\ q \in Int
    BY <1>1, <1>2 DEF Number
  <2>2. 100 * v - 100 * w <= x + 50 * (q + 1) /\ 2 * x <= 100 * k
    BY <1>3, <1>4
  <2> HIDE DEF k, w, x
  <2>3. 2 * (v - w) <= k + (q + 1)
    BY <1>2, <2>1, <2>2
  <2> QED
    BY <1>5, <2>3 DEF k, w
<1> QED
  BY <1>6 DEF u, v

\* The order it was, so far as nobody changes it.
Same(o, p) == p.uid = o.uid /\ p.id = o.id /\ p.date = o.date

LEMMA GrossIsNumber ==
  ASSUME NEW o \in Order
  PROVE  Gross(o) \in Nat /\ o.refund \in Nat
BY DEF Gross, Order, Number

LEMMA CutOrder ==
  ASSUME NEW o \in Order, NEW s \in Severities, NEW n \in Nat, Near(o, n)
  PROVE  RevenueDrop(o, s) \in Order /\ Same(o, RevenueDrop(o, s)) /\ Near(RevenueDrop(o, s), n + 1)
<1> DEFINE c == 100 - s
           u == RoundTo(o.price * c, 100)
           v == IF o.refund > 0 THEN RoundTo(o.refund * c, 100) ELSE o.refund
           p == [o EXCEPT !.price = u, !.refund = v]
<1>1. c \in 0 .. 100 /\ o.quantity \in Number /\ o.price \in Nat /\ o.refund \in Nat
  BY DEF Order
<1>2. o.price * c \in Nat /\ o.refund * c \in Nat
  BY <1>1
<1>3. v = RoundTo(o.refund * c, 100)
  <2>1. CASE o.refund = 0
    <3>1. o.refund * c = 0
      BY <1>1, <2>1
    <3>2. RoundTo(0, 100) = 0
      BY DEF RoundTo
    <3> QED
      BY <2>1, <3>1, <3>2
  <2> QED
    BY <1>1, <2>1
<1>4. u \in Nat /\ v \in Nat
  <2>1. \A k \in Nat : RoundTo(k, 100) \in Nat
    BY Rounding
  <2> HIDE DEF c
  <2> QED
    BY <1>2, <1>3, <2>1
<1>5. RevenueDrop(o, s) = p
  BY DEF RevenueDrop, Retained
<1> HIDE DEF u, v
<1>6. p \in Order /\ Same(o, p) /\ p.quantity = o.quantity /\ p.price = u /\ p.refund = v
  BY <1>4 DEF Order, Same
<1>7. 2 * (v - o.quantity * u) <= (n + 1) * (o.quantity + 1)
  <2>1. o.refund > o.quantity * o.price => 2 * (o.refund - o.quantity * o.price) <= n * (o.quantity + 1)
    BY DEF Near, Gross
  <2> HIDE DEF c
  <2> QED
    BY <1>1, <1>3, <2>1, CutDrifts DEF u
<1>8. o.quantity = 1 => v <= u
  <2> SUFFICES ASSUME o.quantity = 1 PROVE v <= u
    OBVIOUS
  <2>1. o.refund <= o.price
    BY <1>1 DEF Near, Gross
  <2>2. o.refund * c <= o.price * c
    BY <1>1, <2>1
  <2> HIDE DEF c
  <2> QED
    BY <1>2, <1>3, <2>2, RoundingIsMonotone DEF u
<1> HIDE DEF p
<1>9. v > o.quantity * u => o.quantity > 1
  BY <1>1, <1>4, <1>8 DEF Number
<1> QED
  BY <1>5, <1>6, <1>7, <1>9 DEF Near, Gross

LEMMA NearLonger ==
  ASSUME NEW o \in Order, NEW n \in Nat, NEW k \in Nat, n <= k, Near(o, n)
  PROVE  Near(o, k)
<1>1. o.quantity + 1 \in Nat
  BY DEF Order, Number
<1>2. n * (o.quantity + 1) <= k * (o.quantity + 1)
  BY <1>1
<1>3. n * (o.quantity + 1) \in Nat /\ k * (o.quantity + 1) \in Nat
  BY <1>1
<1>4. 2 * (o.refund - Gross(o)) \in Int
  BY DEF Gross, Order, Number
<1> QED
  BY <1>2, <1>3, <1>4 DEF Near

LEMMA RefundedOrder ==
  ASSUME NEW o \in Order, NEW n \in Nat, Near(o, n)
  PROVE  Refunded(o) \in Order /\ Same(o, Refunded(o)) /\ Near(Refunded(o), n + 1)
<1>1. Gross(o) \in Nat /\ o.refund \in Nat
  BY DEF Gross, Order, Number
<1>2. CASE o.refund < Gross(o)
  <2> DEFINE p == [o EXCEPT !.refund = Gross(o)]
  <2>1. p \in Order /\ Same(o, p) /\ p.quantity = o.quantity /\ p.price = o.price /\ p.refund = Gross(o)
    BY <1>1 DEF Order, Same
  <2>2. Gross(p) = Gross(o)
    BY <2>1 DEF Gross
  <2>3. Refunded(o) = p
    BY <1>2 DEF Refunded
  <2> QED
    BY <1>1, <2>1, <2>2, <2>3 DEF Near
<1>3. CASE ~(o.refund < Gross(o))
  <2>1. Refunded(o) = o
    <3>1. Refunded(o) = [o EXCEPT !.refund = o.refund]
      BY <1>3 DEF Refunded
    <3> QED
      BY <3>1 DEF Order
  <2> QED
    BY <2>1, NearLonger DEF Same
<1> QED
  BY <1>2, <1>3

\* Every order after an injection is one before it, and has drifted by one cut at most.
Becomes(matched, after) ==
    /\ \A p \in after : \E o \in matched : Same(o, p)
    /\ \A p, q \in after : p.uid = q.uid => p = q
    /\ \A n \in Nat : (\A o \in matched : Near(o, n)) => \A p \in after : p \in Order /\ Near(p, n + 1)

LEMMA CutsBecome ==
  ASSUME NEW matched \in SUBSET Order, \A o, p \in matched : o.uid = p.uid => o = p, NEW s \in Severities,
         NEW k \in Nat, \A o \in matched : Near(o, k)
  PROVE  Becomes(matched, {RevenueDrop(o, s) : o \in matched})
<1>1. \A o \in matched : Same(o, RevenueDrop(o, s))
  BY CutOrder
<1>2. ASSUME NEW n \in Nat, \A o \in matched : Near(o, n), NEW o \in matched
      PROVE  RevenueDrop(o, s) \in Order /\ Near(RevenueDrop(o, s), n + 1)
  BY <1>2, CutOrder
<1> QED
  BY <1>1, <1>2 DEF Becomes, Same

LEMMA SpikesBecome ==
  ASSUME NEW matched \in SUBSET Order, \A o, p \in matched : o.uid = p.uid => o = p, NEW s \in Severities,
         NEW k \in Nat, \A o \in matched : Near(o, k),
         NEW after \in RefundSpikes(matched, s)
  PROVE  Becomes(matched, after)
<1>1. PICK S \in SUBSET matched : after = {Refunded(o) : o \in S} \cup (matched \ S)
  <2> DEFINE already == {o \in matched : o.refund > 0}
  <2>1. PICK S \in kSubset(ToConvert(matched, s), matched \ already) :
           after = {Refunded(o) : o \in already \cup S} \cup ((matched \ already) \ S)
    BY DEF RefundSpikes
  <2>2. S \subseteq matched \ already
    BY DEF kSubset
  <2>3. already \cup S \in SUBSET matched /\ (matched \ already) \ S = matched \ (already \cup S)
    BY <2>2
  <2> QED
    BY <2>1, <2>3
<1>2. \A o \in matched : Same(o, Refunded(o))
  BY RefundedOrder
<1>3. ASSUME NEW n \in Nat, \A o \in matched : Near(o, n), NEW o \in matched
      PROVE  Refunded(o) \in Order /\ Near(Refunded(o), n + 1) /\ Near(o, n + 1)
  BY <1>3, RefundedOrder, NearLonger
<1>4. \A o \in matched : Same(o, o)
  BY DEF Same
<1>5. \A p \in after : \E o \in matched : Same(o, p) /\ p = IF o \in S THEN Refunded(o) ELSE o
  BY <1>1, <1>2, <1>4
<1>6. \A p, q \in after : p.uid = q.uid => p = q
  BY <1>5 DEF Same
<1>7. \A n \in Nat : (\A o \in matched : Near(o, n)) => \A p \in after : p \in Order /\ Near(p, n + 1)
  BY <1>3, <1>5
<1> QED
  BY <1>5, <1>6, <1>7 DEF Becomes

LEMMA DropsBecome ==
  ASSUME NEW matched \in SUBSET Order, \A o, p \in matched : o.uid = p.uid => o = p, NEW s \in Severities,
         NEW after \in RegionalDrops(matched, s)
  PROVE  Becomes(matched, after)
<1>1. after \subseteq matched
  BY DEF RegionalDrops
<1>2. ASSUME NEW n \in Nat, \A o \in matched : Near(o, n), NEW o \in matched
      PROVE  Near(o, n + 1)
  BY <1>2, NearLonger
<1> QED
  BY <1>1, <1>2 DEF Becomes, Same

-----------------------------------------------------------------------------
(* New orders.                                                              *)

LEMMA SequenceIsAbove ==
  ASSUME NEW orders, NEW b \in Nat, \A o \in orders : o.id \in Number /\ o.id <= b
  PROVE  /\ SequenceAfter(orders) \in Number /\ SequenceAfter(orders) <= b + 1
         /\ \A o \in orders : o.id < SequenceAfter(orders)
<1> DEFINE S == {o.id : o \in orders}
<1>1. CASE orders = {}
  BY <1>1 DEF SequenceAfter, Number
<1>2. CASE orders # {}
  <2>1. S \in SUBSET Nat /\ S # {} /\ \A n \in S : n <= b
    BY <1>2 DEF Number
  <2>2. Max(S) \in S /\ \A n \in S : n <= Max(S)
    <3> HIDE DEF S
    <3> QED
      BY <2>1, MaxOfNumbers
  <2>3. SequenceAfter(orders) = Max(S) + 1
    BY <1>2 DEF SequenceAfter
  <2>4. Max(S) \in Nat /\ Max(S) <= b
    BY <2>1, <2>2
  <2>5. \A o \in orders : o.id <= Max(S) /\ o.id \in Nat
    BY <2>2 DEF Number
  <2> HIDE DEF S
  <2> QED
    BY <2>3, <2>4, <2>5 DEF Number
<1> QED
  BY <1>1, <1>2

\* What _build_order makes for each of n draws, and what is remembered of it.
NewOrders(n, draws, dates, start) ==
    /\ n \in Nat /\ draws \in [1 .. n -> Draws] /\ dates \in [1 .. n -> Dates]
    /\ start \in Number /\ start <= Len(made) + 1 /\ Len(made) + n <= MaxOrders
    /\ made' = Remember(draws, dates, start)

LEMMA MadeGrows ==
  ASSUME TypeOK, NEW n, NEW draws, NEW dates, NEW start, NewOrders(n, draws, dates, start)
  PROVE  /\ made' \in Seq(Maker) /\ Len(made') = Len(made) + n /\ Len(made) \in Nat
         /\ DOMAIN made = 1 .. Len(made) /\ DOMAIN made' = 1 .. Len(made) + n
         /\ \A u \in DOMAIN made : made'[u] = made[u]
         /\ \A i \in 1 .. n : made'[Len(made) + i] = [id |-> start + i - 1, date |-> dates[i], on |-> today]
         /\ \A u \in DOMAIN made' \ DOMAIN made :
               /\ u - Len(made) \in 1 .. n
               /\ made'[u] = [id |-> start + (u - Len(made)) - 1, date |-> dates[u - Len(made)], on |-> today]
<1> DEFINE new == [i \in 1 .. n |-> [id |-> start + i - 1, date |-> dates[i], on |-> today]]
<1>1. n \in Nat /\ made \in Seq(Maker) /\ today \in Days /\ start \in Number /\ DOMAIN draws = 1 .. n
  BY DEF NewOrders, TypeOK, Days
<1>2. \A i \in 1 .. n : start + i - 1 \in Number /\ dates[i] \in Days
  <2>1. \A i \in 1 .. n : dates[i] \in Days
    BY DEF NewOrders, Dates
  <2>2. \A i \in 1 .. n : start + i - 1 \in Number
    BY <1>1 DEF Number
  <2> QED
    BY <2>1, <2>2
<1>3. new \in [1 .. n -> Maker]
  BY <1>1, <1>2 DEF Maker
<1>4. made' = made \o new
  BY <1>1 DEF NewOrders, Remember
<1>5. \A i \in 1 .. n : new[i] = [id |-> start + i - 1, date |-> dates[i], on |-> today]
  OBVIOUS
<1> HIDE DEF new
<1>6. new \in Seq(Maker) /\ Len(new) = n
  BY <1>1, <1>3
<1>7. /\ made' \in Seq(Maker) /\ Len(made') = Len(made) + n /\ Len(made) \in Nat
      /\ DOMAIN made = 1 .. Len(made) /\ DOMAIN made' = 1 .. Len(made) + n
  <2>1. Len(made) \in Nat /\ DOMAIN made = 1 .. Len(made)
    BY <1>1
  <2>2. made' \in Seq(Maker)
    BY <1>1, <1>4, <1>6
  <2>3. Len(made') = Len(made) + n
    <3>1. \A a, b \in Seq(Maker) : Len(a \o b) = Len(a) + Len(b)
      OBVIOUS
    <3> QED
      BY <1>1, <1>4, <1>6, <3>1
  <2>4. DOMAIN made' = 1 .. Len(made')
    BY <2>2
  <2> QED
    BY <2>1, <2>2, <2>3, <2>4
<1>8. \A u \in DOMAIN made : made'[u] = made[u]
  BY <1>1, <1>4, <1>6
<1>9. \A i \in 1 .. n : made'[Len(made) + i] = new[i]
  BY <1>1, <1>4, <1>6
<1>10. ASSUME NEW u \in DOMAIN made' \ DOMAIN made
       PROVE  u - Len(made) \in 1 .. n /\ made'[u] = new[u - Len(made)]
  BY <1>1, <1>4, <1>6, <1>7
<1> QED
  BY <1>5, <1>7, <1>8, <1>9, <1>10

LEMMA BuiltOrders ==
  ASSUME TypeOK, NEW n, NEW draws, NEW dates, NEW start, NewOrders(n, draws, dates, start)
  PROVE  /\ Built(draws, dates, start) \subseteq Order
         /\ \A o \in Built(draws, dates, start) :
               /\ \E i \in 1 .. n : o.uid = Len(made) + i /\ o.id = start + i - 1 /\ o.date = dates[i]
               /\ o.refund <= Gross(o)
         /\ \A o, p \in Built(draws, dates, start) : o.uid = p.uid \/ o.id = p.id => o = p
         /\ Uids(Built(draws, dates, start)) = Len(made) + 1 .. Len(made) + n
<1> DEFINE order(i) == [uid |-> Len(made) + i, id |-> start + i - 1, date |-> dates[i],
                        region |-> draws[i].region, quantity |-> draws[i].quantity,
                        price |-> draws[i].price, refund |-> draws[i].refund]
<1>1. n \in Nat /\ Len(made) \in Nat /\ start \in Number /\ DOMAIN draws = 1 .. n
  BY DEF NewOrders, TypeOK
<1>2. Built(draws, dates, start) = {order(i) : i \in 1 .. n}
  BY <1>1 DEF Built
<1>3. ASSUME NEW i \in 1 .. n
      PROVE  /\ order(i) \in Order /\ order(i).refund <= Gross(order(i))
             /\ order(i).uid = Len(made) + i /\ order(i).id = start + i - 1 /\ order(i).date = dates[i]
  <2>1. /\ draws[i] \in Draws /\ dates[i] \in Days
    BY DEF NewOrders, Dates
  <2>2. /\ draws[i].region \in Regions /\ draws[i].quantity \in Number /\ draws[i].price \in Nat
        /\ draws[i].refund \in 0 .. draws[i].quantity * draws[i].price
    BY <2>1, DrawsAssumption DEF Number
  <2>3. draws[i].refund \in Nat /\ draws[i].refund <= draws[i].quantity * draws[i].price
    <3>1. draws[i].quantity * draws[i].price \in Nat
      BY <2>2 DEF Number
    <3> QED
      BY <2>2, <3>1
  <2>4. Len(made) + i \in Number /\ start + i - 1 \in Number
    BY <1>1 DEF Number
  <2> QED
    BY <2>1, <2>2, <2>3, <2>4 DEF Order, Gross
<1> HIDE DEF order
<1>4. ASSUME NEW i \in 1 .. n, NEW j \in 1 .. n, order(i).uid = order(j).uid \/ order(i).id = order(j).id
      PROVE  i = j
  <2> DEFINE base == Len(made)
  <2>1. base \in Int /\ start \in Int /\ i \in Int /\ j \in Int
    BY <1>1 DEF Number
  <2>2. base + i = base + j \/ start + i - 1 = start + j - 1
    BY <1>3, <1>4
  <2> HIDE DEF base
  <2> QED
    BY <2>1, <2>2
<1>5. \A o \in Built(draws, dates, start) : \E i \in 1 .. n : o = order(i)
  BY <1>2
<1>6. \A i \in 1 .. n : order(i) \in Built(draws, dates, start)
  BY <1>2
<1>7. Built(draws, dates, start) \subseteq Order
  BY <1>3, <1>5
<1>8. ASSUME NEW o \in Built(draws, dates, start)
      PROVE  /\ \E i \in 1 .. n : o.uid = Len(made) + i /\ o.id = start + i - 1 /\ o.date = dates[i]
             /\ o.refund <= Gross(o)
  BY <1>3, <1>5
<1>9. \A o, p \in Built(draws, dates, start) : o.uid = p.uid \/ o.id = p.id => o = p
  BY <1>4, <1>5
<1>10. Uids(Built(draws, dates, start)) = Len(made) + 1 .. Len(made) + n
  <2>1. \A i \in 1 .. n : Len(made) + i \in Uids(Built(draws, dates, start))
    BY <1>3, <1>6 DEF Uids
  <2>2. ASSUME NEW u \in Len(made) + 1 .. Len(made) + n PROVE u \in Uids(Built(draws, dates, start))
    <3>1. u - Len(made) \in 1 .. n /\ Len(made) + (u - Len(made)) = u
      BY <1>1
    <3> QED
      BY <2>1, <3>1
  <2>3. ASSUME NEW o \in Built(draws, dates, start) PROVE o.uid \in Len(made) + 1 .. Len(made) + n
    <3>1. PICK i \in 1 .. n : o.uid = Len(made) + i
      BY <1>8
    <3> QED
      BY <1>1, <3>1
  <2> QED
    BY <2>2, <2>3 DEF Uids
<1> QED
  BY <1>7, <1>8, <1>9, <1>10

-----------------------------------------------------------------------------
(* Each action.                                                             *)

LEMMA BookInitHolds == BookInit => IInv
<1> SUFFICES ASSUME BookInit PROVE IInv
  OBVIOUS
<1>1. TypeOK
  <2>1. <<>> \in Seq(Entry) /\ <<>> \in Seq(Maker)
    OBVIOUS
  <2> QED
    BY <2>1 DEF BookInit, TypeOK, Number
<1>2. PhasesAreOrderly /\ LogIsKept /\ BooksAreBooks /\ NothingIsLost /\ IdsAreFresh
  BY DEF BookInit, PhasesAreOrderly, LogIsKept, BooksAreBooks, IsBook, NothingIsLost, IdsAreFresh
<1>3. CutsAreOnRecord
  <2>1. 0 \in 0 .. faults
    BY DEF BookInit
  <2> QED
    BY <2>1 DEF BookInit, CutsAreOnRecord
<1> QED
  BY <1>1, <1>2, <1>3 DEF IInv

LEMMA TickHolds ==
  ASSUME IInv, Tick
  PROVE  IInv'
<1>1. /\ today \in Int /\ today' = today + 1 /\ today < LastDay /\ LastDay \in Nat /\ MaxAhead \in Nat
      /\ UNCHANGED <<proc, write, book, log, nextSeq, disk, made, dropped, unsaved, faults>>
  BY DEF IInv, TypeOK, Tick, memory
<1>2. TypeOK'
  <2>1. today' \in 1 .. LastDay
    BY <1>1 DEF IInv, TypeOK
  <2> QED
    BY <1>1, <2>1 DEF IInv, TypeOK
<1>3. IdsAreFresh'
  <2>1. ASSUME NEW u \in DOMAIN made PROVE made[u].date <= today' + MaxAhead
    <3>1. made[u].date \in Int /\ made[u].date <= today + MaxAhead
      <4>1. made[u] \in Maker
        BY DEF IInv, TypeOK
      <4>2. made[u].date \in Int
        BY <4>1 DEF Maker, Days
      <4> QED
        BY <4>2 DEF IInv, IdsAreFresh
    <3> QED
      BY <1>1, <3>1
  <2> QED
    BY <1>1, <2>1 DEF IInv, IdsAreFresh
<1>4. PhasesAreOrderly' /\ LogIsKept' /\ BooksAreBooks' /\ NothingIsLost'
  BY <1>1 DEF IInv, PhasesAreOrderly, LogIsKept, BooksAreBooks, IsBook, NothingIsLost, Accounted
<1>5. CutsAreOnRecord'
  BY <1>1 DEF IInv, CutsAreOnRecord
<1> QED
  BY <1>2, <1>3, <1>4, <1>5 DEF IInv

\* Of orders nobody doubts, all have ids below the sequence.
LEMMA SequenceIsFresh ==
  ASSUME IInv, \/ proc # "down"
               \/ proc = "down" /\ ~disk.exists,
         NEW a \in DOMAIN made, a \notin dropped \cup unsaved
  PROVE  made[a].id < nextSeq
<1>1. CASE proc # "down"
  <2>1. Accounted(a, book, log)
    BY <1>1 DEF IInv, NothingIsLost
  <2>2. a \in Uids(book)
    BY <2>1 DEF IInv, LogIsKept, Accounted
  <2>3. PICK o \in book : o.uid = a
    BY <2>2 DEF Uids
  <2> QED
    BY <2>3 DEF IInv, BooksAreBooks, IsBook, IdsAreFresh
<1>2. CASE proc = "down" /\ ~disk.exists
  <2>1. Accounted(a, disk.orders, disk.log) /\ disk.orders = {} /\ disk.log = <<>>
    BY <1>2 DEF IInv, NothingIsLost, PhasesAreOrderly
  <2> QED
    BY <2>1 DEF Accounted, Uids
<1> QED
  BY <1>1, <1>2

\* Orders are placed, by the operator or by bootstrap.
LEMMA PlaceHolds ==
  ASSUME IInv, NEW n, NEW draws, NEW dates, NewOrders(n, draws, dates, nextSeq),
         \/ proc = "serving" /\ write = "none" /\ proc' = "serving"
         \/ proc = "down" /\ ~disk.exists /\ proc' = "starting",
         book' = book \cup Built(draws, dates, nextSeq),
         nextSeq' \in Number, nextSeq' <= Len(made) + n + 1, \A o \in book' : o.id < nextSeq',
         write' = "orders", UNCHANGED <<today, log, disk, dropped, unsaved, faults>>
  PROVE  IInv'
<1> DEFINE B == Built(draws, dates, nextSeq)
<1>1. TypeOK /\ n \in Nat /\ nextSeq \in Number /\ Len(made) + n <= MaxOrders
  BY DEF IInv, TypeOK, NewOrders
<1>2. /\ made' \in Seq(Maker) /\ Len(made') = Len(made) + n /\ Len(made) \in Nat
      /\ DOMAIN made = 1 .. Len(made) /\ DOMAIN made' = 1 .. Len(made) + n
      /\ \A u \in DOMAIN made : made'[u] = made[u]
      /\ \A u \in DOMAIN made' \ DOMAIN made :
            /\ u - Len(made) \in 1 .. n
            /\ made'[u] = [id |-> nextSeq + (u - Len(made)) - 1, date |-> dates[u - Len(made)], on |-> today]
  BY <1>1, MadeGrows
<1>3. /\ B \subseteq Order
      /\ \A o \in B : /\ \E i \in 1 .. n : o.uid = Len(made) + i /\ o.id = nextSeq + i - 1 /\ o.date = dates[i]
                      /\ o.refund <= Gross(o)
      /\ \A o, p \in B : o.uid = p.uid \/ o.id = p.id => o = p
      /\ Uids(B) = Len(made) + 1 .. Len(made) + n
  <2>1. B \subseteq Order
    BY <1>1, BuiltOrders
  <2>2. \A o \in B : /\ \E i \in 1 .. n : o.uid = Len(made) + i /\ o.id = nextSeq + i - 1 /\ o.date = dates[i]
                     /\ o.refund <= Gross(o)
    BY <1>1, BuiltOrders
  <2>3. \A o, p \in B : o.uid = p.uid \/ o.id = p.id => o = p
    BY <1>1, BuiltOrders
  <2>4. Uids(B) = Len(made) + 1 .. Len(made) + n
    BY <1>1, BuiltOrders
  <2> HIDE DEF B
  <2> QED
    BY <2>1, <2>2, <2>3, <2>4
<1>4. book' = book \cup B
  OBVIOUS
<1> HIDE DEF B
<1>5. TypeOK'
  <2>1. DOMAIN made \subseteq DOMAIN made'
    BY <1>1, <1>2
  <2>2. proc' \in {"down", "starting", "serving"}
    OBVIOUS
  <2> QED
    BY <1>1, <1>2, <1>3, <1>4, <2>1, <2>2 DEF TypeOK
<1>6. PhasesAreOrderly'
  BY DEF IInv, PhasesAreOrderly
<1>7. LogIsKept'
  BY DEF IInv, LogIsKept, PhasesAreOrderly
<1>8. ASSUME NEW X \in SUBSET Order, IsBook(X)
      PROVE  \A o \in X : o.uid \in DOMAIN made' /\ o.id = made'[o.uid].id /\ o.date = made'[o.uid].date
  BY <1>1, <1>2, <1>8 DEF IsBook
<1>9. \A o \in B : /\ o.uid \in DOMAIN made' \ DOMAIN made /\ o.id >= nextSeq
                   /\ o.id = made'[o.uid].id /\ o.date = made'[o.uid].date
  <2> SUFFICES ASSUME NEW o \in B
               PROVE  /\ o.uid \in DOMAIN made' \ DOMAIN made /\ o.id >= nextSeq
                      /\ o.id = made'[o.uid].id /\ o.date = made'[o.uid].date
    OBVIOUS
  <2>1. PICK i \in 1 .. n : o.uid = Len(made) + i /\ o.id = nextSeq + i - 1 /\ o.date = dates[i]
    BY <1>3
  <2>2. o.uid \in DOMAIN made' \ DOMAIN made /\ o.uid - Len(made) = i /\ o.id >= nextSeq
    <3> DEFINE base == Len(made)
               u    == o.uid
    <3>1. base \in Nat /\ u = base + i /\ nextSeq \in Int /\ n \in Nat
      BY <1>1, <1>2, <2>1 DEF Number
    <3>2. DOMAIN made = 1 .. base /\ DOMAIN made' = 1 .. base + n /\ o.id = nextSeq + i - 1
      BY <1>2, <2>1
    <3> HIDE DEF base, u
    <3>3. u \in 1 .. base + n /\ u \notin 1 .. base /\ u - base = i /\ o.id >= nextSeq
      BY <3>1, <3>2
    <3> QED
      BY <3>2, <3>3 DEF base, u
  <2>3. made'[o.uid] = [id |-> nextSeq + i - 1, date |-> dates[i], on |-> today]
    BY <1>2, <2>2
  <2> QED
    BY <2>1, <2>2, <2>3
<1>10. BooksAreBooks'
  <2>1. IsBook(book) /\ IsBook(disk.orders) /\ book \in SUBSET Order /\ disk.orders \in SUBSET Order
    BY DEF IInv, BooksAreBooks, TypeOK
  <2>2. IsBook(disk.orders)'
    BY <1>8, <2>1 DEF IsBook
  <2>3. \A o \in book : o.uid \in DOMAIN made /\ o.id < nextSeq /\ o.id \in Int
    BY <2>1 DEF IInv, IsBook, IdsAreFresh, Order, Number
  <2>4. \A o \in B : o.id \in Int /\ nextSeq \in Int
    BY <1>1, <1>3 DEF Order, Number
  <2>5. \A o \in book, p \in B : o.uid # p.uid /\ o.id # p.id
    BY <1>9, <2>3, <2>4
  <2>6. \A o, p \in book' : o.uid = p.uid \/ o.id = p.id => o = p
    BY <1>3, <1>4, <2>1, <2>5 DEF IsBook
  <2>7. \A o \in book' : o.uid \in DOMAIN made' /\ o.id = made'[o.uid].id /\ o.date = made'[o.uid].date
    BY <1>4, <1>8, <1>9, <2>1
  <2> QED
    BY <2>2, <2>6, <2>7 DEF BooksAreBooks, IsBook
<1>11. NothingIsLost'
  <2>1. ASSUME NEW u \in DOMAIN made', u \notin unsaved
        PROVE  Accounted(u, book', log)
    <3>1. CASE u \in DOMAIN made
      <4>1. CASE proc = "serving"
        <5>1. Accounted(u, book, log)
          BY <2>1, <3>1, <4>1 DEF IInv, NothingIsLost
        <5> QED
          BY <1>4, <5>1 DEF Accounted, Uids
      <4>2. CASE proc = "down" /\ ~disk.exists
        <5>1. Accounted(u, disk.orders, disk.log) /\ disk.orders = {} /\ disk.log = <<>>
          BY <2>1, <3>1, <4>2 DEF IInv, NothingIsLost, PhasesAreOrderly
        <5> QED
          BY <5>1 DEF Accounted, Uids
      <4> QED
        BY <4>1, <4>2
    <3>2. CASE u \notin DOMAIN made
      <4>1. u \in Uids(B)
        BY <1>1, <1>2, <1>3, <3>2
      <4> QED
        BY <1>4, <4>1 DEF Accounted, Uids
    <3> QED
      BY <3>1, <3>2
  <2> QED
    BY <2>1 DEF NothingIsLost, Accounted
<1>12. IdsAreFresh'
  <2>1. ASSUME NEW u \in DOMAIN made' PROVE made'[u].id <= u /\ made'[u].date <= today + MaxAhead
    <3>1. CASE u \in DOMAIN made
      BY <1>2, <3>1 DEF IInv, IdsAreFresh
    <3>2. CASE u \notin DOMAIN made
      <4>1. u - Len(made) \in 1 .. n /\ u \in Nat
        BY <1>1, <1>2, <3>2
      <4>2. made'[u].id = nextSeq + (u - Len(made)) - 1 /\ made'[u].date = dates[u - Len(made)]
        BY <1>2, <3>2, SMTT(30)
      <4>3. nextSeq <= Len(made) + 1 /\ dates[u - Len(made)] \in Dates
        BY <4>1 DEF NewOrders
      <4>4. made'[u].id <= u
        <5>1. nextSeq \in Int /\ Len(made) \in Int /\ u \in Int
          BY <1>1, <1>2, <4>1 DEF Number
        <5> QED
          BY <4>2, <4>3, <5>1
      <4>5. made'[u].date <= today + MaxAhead
        BY <4>2, <4>3 DEF Dates
      <4> QED
        BY <4>4, <4>5
    <3> QED
      BY <3>1, <3>2
  <2>2. ASSUME NEW a \in DOMAIN made', NEW b \in DOMAIN made', a < b, made'[a].id = made'[b].id
        PROVE  a \in dropped \cup unsaved
    <3>1. CASE b \in DOMAIN made
      <4>1. a \in DOMAIN made
        BY <1>1, <1>2, <2>2, <3>1
      <4> QED
        BY <1>2, <2>2, <3>1, <4>1 DEF IInv, IdsAreFresh
    <3>2. CASE b \notin DOMAIN made
      <4>1. b - Len(made) \in 1 .. n /\ b \in Nat
        BY <1>1, <1>2, <3>2
      <4>2. made'[b].id = nextSeq + (b - Len(made)) - 1
        BY <1>2, <3>2
      <4>3. CASE a \in DOMAIN made
        <5>1. made'[a].id = made[a].id /\ made[a].id \in Number
          <6>1. made[a] \in Maker /\ made'[a] = made[a]
            BY <1>1, <1>2, <4>3, SMTT(30) DEF TypeOK
          <6> QED
            BY <6>1 DEF Maker
        <5>2. ~(made[a].id < nextSeq)
          <6>1. nextSeq \in Int /\ Len(made) \in Int /\ b \in Int /\ b - Len(made) >= 1
            BY <1>1, <1>2, <4>1 DEF Number
          <6>2. made[a].id = nextSeq + (b - Len(made)) - 1
            BY <2>2, <4>2, <5>1
          <6> QED
            BY <6>1, <6>2
        <5> QED
          BY <4>3, <5>2, SequenceIsFresh
      <4>4. CASE a \notin DOMAIN made
        <5>1. a - Len(made) \in 1 .. n /\ a \in Nat
          BY <1>1, <1>2, <4>4
        <5>2. made'[a].id = nextSeq + (a - Len(made)) - 1
          BY <1>2, <4>4
        <5>3. nextSeq \in Int /\ Len(made) \in Int /\ b \in Int /\ a \in Int
          BY <1>1, <1>2, <4>1, <5>1 DEF Number
        <5>4. nextSeq + (a - Len(made)) - 1 = nextSeq + (b - Len(made)) - 1
          BY <2>2, <4>2, <5>2
        <5> QED
          BY <2>2, <5>3, <5>4, SMTT(30)
      <4> QED
        BY <4>3, <4>4
    <3> QED
      BY <3>1, <3>2
  <2> QED
    BY <1>2, <2>1, <2>2 DEF IdsAreFresh
<1>13. CutsAreOnRecord'
  <2>1. PICK lost \in 0 .. faults :
           /\ proc # "down" => lost + Len(log) - Len(disk.log) <= faults + (IF write = "none" THEN 0 ELSE 1)
           /\ \A o \in book : Near(o, Len(log) + lost)
           /\ \A o \in disk.orders : Near(o, (IF proc = "down" THEN Len(disk.log) ELSE Len(log)) + lost)
    BY DEF IInv, CutsAreOnRecord
  <2>2. lost \in Nat /\ faults \in Nat /\ lost <= faults /\ Len(log) \in Nat /\ Len(disk.log) \in Nat
    BY <1>1, SMTT(30) DEF TypeOK
  <2>3. lost + Len(log) - Len(disk.log) <= faults + 1
    <3>1. CASE proc = "serving" /\ write = "none"
      <4>1. lost + Len(log) - Len(disk.log) <= faults + 0
        BY <2>1, <3>1
      <4> DEFINE k == lost + Len(log) - Len(disk.log)
      <4>2. k \in Int /\ k <= faults /\ faults \in Int
        BY <2>2, <4>1
      <4> HIDE DEF k
      <4>3. k <= faults + 1
        BY <4>2
      <4> QED
        BY <4>3 DEF k
    <3>2. CASE proc = "down" /\ ~disk.exists
      <4>1. log = <<>> /\ disk.log = <<>>
        BY <3>2 DEF IInv, PhasesAreOrderly
      <4>2. Len(log) = 0 /\ Len(disk.log) = 0
        BY <4>1
      <4> QED
        BY <2>2, <4>2
    <3> QED
      BY <3>1, <3>2
  <2>4. \A o \in book' : Near(o, Len(log) + lost)
    <3>1. \A o \in B : ~(o.refund > Gross(o))
      <4>1. \A o \in B : o.refund \in Int /\ Gross(o) \in Int
        BY <1>3, GrossIsNumber
      <4> QED
        BY <1>3, <4>1, SMTT(30)
    <3> QED
      BY <1>4, <2>1, <3>1 DEF Near
  <2>5. \A o \in disk.orders : Near(o, Len(log) + lost)
    <3>1. CASE proc = "serving"
      BY <2>1, <3>1
    <3>2. CASE proc = "down" /\ ~disk.exists
      BY <3>2 DEF IInv, PhasesAreOrderly
    <3> QED
      BY <3>1, <3>2
  <2> QED
    BY <2>3, <2>4, <2>5 DEF CutsAreOnRecord
<1> QED
  BY <1>5, <1>6, <1>7, <1>10, <1>11, <1>12, <1>13 DEF IInv

LEMMA BusinessDateIsOpen ==
  ASSUME IInv
  PROVE  BusinessDate \in Dates
<1> DEFINE S == {today} \cup {o.date : o \in book}
<1>1. /\ today \in Nat /\ today \in Days /\ LastDay \in Nat /\ MaxAhead \in Nat /\ MaxBackdate \in Nat
  BY DEF IInv, TypeOK, Days
<1>2. \A o \in book : o.date \in Days /\ o.date <= today + MaxAhead
  BY DEF IInv, TypeOK, Order, BooksAreBooks, IsBook, IdsAreFresh
<1>3. S \in SUBSET Nat /\ S # {} /\ \A d \in S : d <= LastDay
  BY <1>1, <1>2 DEF Days
<1>4. BusinessDate = Max(S)
  BY DEF BusinessDate
<1>5. Max(S) \in S /\ today <= Max(S)
  <2>1. today \in S
    OBVIOUS
  <2> HIDE DEF S
  <2> QED
    BY <1>1, <1>3, <2>1, MaxOfNumbers
<1>6. Max(S) \in Days /\ Max(S) <= today + MaxAhead /\ Max(S) \in Nat
  BY <1>1, <1>2, <1>5 DEF Days
<1> QED
  BY <1>1, <1>4, <1>5, <1>6 DEF Dates

LEMMA GenerateIsPlace ==
  ASSUME IInv, NEW n \in 1 .. MaxBatch, NEW draws \in [1 .. n -> Draws], NEW date \in {BusinessDate} \cup Dates,
         Generate(draws, date)
  PROVE  \E dates \in [1 .. n -> Dates] : NewOrders(n, draws, dates, nextSeq)
            /\ book' = book \cup Built(draws, dates, nextSeq)
<1> DEFINE dates == [i \in 1 .. n |-> date]
<1>1. dates \in [1 .. n -> Dates]
  BY BusinessDateIsOpen
<1>2. DOMAIN draws = 1 .. n /\ n \in Nat /\ Len(draws) = n
  OBVIOUS
<1>3. nextSeq \in Number /\ nextSeq <= Len(made) + 1
  BY DEF IInv, TypeOK, IdsAreFresh
<1>4. /\ Len(made) + n <= MaxOrders /\ book' = book \cup Built(draws, dates, nextSeq)
      /\ made' = Remember(draws, dates, nextSeq)
  BY <1>2 DEF Generate
<1> HIDE DEF dates
<1>5. NewOrders(n, draws, dates, nextSeq)
  BY <1>1, <1>2, <1>3, <1>4 DEF NewOrders
<1> QED
  BY <1>1, <1>4, <1>5

LEMMA GenerateHolds ==
  ASSUME IInv, NEW n \in 1 .. MaxBatch, NEW draws \in [1 .. n -> Draws], NEW date \in {BusinessDate} \cup Dates,
         Generate(draws, date)
  PROVE  IInv'
<1>1. PICK dates \in [1 .. n -> Dates] : NewOrders(n, draws, dates, nextSeq)
         /\ book' = book \cup Built(draws, dates, nextSeq)
  BY GenerateIsPlace
<1>2. /\ TypeOK /\ n \in Nat /\ n >= 1 /\ nextSeq \in Nat /\ nextSeq >= 1 /\ Len(draws) = n /\ Len(made) \in Nat
      /\ nextSeq <= Len(made) + 1
  BY SMTT(30) DEF IInv, TypeOK, IdsAreFresh, Number
<1>3. /\ proc = "serving" /\ write = "none" /\ proc' = "serving" /\ write' = "orders"
      /\ nextSeq' = nextSeq + n /\ UNCHANGED <<today, log, disk, dropped, unsaved, faults>>
  BY <1>2 DEF Generate, Free
<1>4. nextSeq' \in Number /\ nextSeq' <= Len(made) + n + 1
  BY <1>2, <1>3 DEF Number
<1>5. ASSUME NEW o \in book' PROVE o.id < nextSeq'
  <2>1. CASE o \in book
    <3>1. o.id < nextSeq /\ o.id \in Int
      BY <2>1 DEF IInv, TypeOK, IdsAreFresh, Order, Number
    <3> QED
      BY <1>2, <1>3, <3>1
  <2>2. CASE o \in Built(draws, dates, nextSeq)
    <3>0. TypeOK /\ NewOrders(n, draws, dates, nextSeq)
      BY <1>1, <1>2
    <3>1. PICK i \in 1 .. n : o.uid = Len(made) + i /\ o.id = nextSeq + i - 1 /\ o.date = dates[i]
      BY <2>2, <3>0, BuiltOrders
    <3> QED
      BY <1>2, <1>3, <3>1
  <2> QED
    BY <1>1, <2>1, <2>2
<1> QED
  BY <1>1, <1>3, <1>4, <1>5, PlaceHolds

LEMMA HistoryIsPlace ==
  ASSUME IInv, GenerateHistory
  PROVE  \E n \in 0 .. MaxBatch : \E draws \in [1 .. n -> Draws], dates \in [1 .. n -> Dates] :
            /\ NewOrders(n, draws, dates, 1) /\ book' = Built(draws, dates, 1)
            /\ nextSeq = 1 /\ book = {} /\ disk.orders = {}
<1>1. PICK n \in 0 .. MaxBatch :
         /\ Len(made) + n <= MaxOrders
         /\ \E draws \in [1 .. n -> Draws], dates \in [1 .. n -> Dates \cap 0 .. today] :
               book' = Built(draws, dates, 1) /\ made' = Remember(draws, dates, 1)
  BY DEF GenerateHistory
<1>2. PICK draws \in [1 .. n -> Draws], dates \in [1 .. n -> Dates \cap 0 .. today] :
         book' = Built(draws, dates, 1) /\ made' = Remember(draws, dates, 1)
  BY <1>1
<1>3. dates \in [1 .. n -> Dates]
  OBVIOUS
<1>4. nextSeq = 1 /\ book = {} /\ disk.orders = {}
  BY DEF IInv, PhasesAreOrderly, GenerateHistory
<1>5. NewOrders(n, draws, dates, 1)
  <2>1. n \in Nat /\ 1 \in Number /\ 1 <= Len(made) + 1
    BY DEF IInv, TypeOK, Number
  <2> QED
    BY <1>1, <1>2, <1>3, <2>1 DEF NewOrders
<1> QED
  BY <1>2, <1>3, <1>4, <1>5

LEMMA HistoryHolds ==
  ASSUME IInv, GenerateHistory
  PROVE  IInv'
<1>0. PICK n \in 0 .. MaxBatch : \E draws \in [1 .. n -> Draws], dates \in [1 .. n -> Dates] :
         /\ NewOrders(n, draws, dates, 1) /\ book' = Built(draws, dates, 1)
         /\ nextSeq = 1 /\ book = {}
  BY HistoryIsPlace
<1>1. PICK draws \in [1 .. n -> Draws], dates \in [1 .. n -> Dates] :
         /\ NewOrders(n, draws, dates, 1) /\ book' = Built(draws, dates, 1)
         /\ nextSeq = 1 /\ book = {}
  BY <1>0
<1>2. /\ proc = "down" /\ ~disk.exists /\ proc' = "starting" /\ write' = "orders"
      /\ nextSeq' = SequenceAfter(book') /\ UNCHANGED <<today, disk, dropped, unsaved, faults>>
      /\ log' = log
  BY DEF GenerateHistory, IInv, PhasesAreOrderly
<1>3. TypeOK /\ n \in Nat /\ Len(made) \in Nat /\ Len(made) + n \in Nat
  BY DEF IInv, TypeOK
<1>4. ASSUME NEW o \in book' PROVE o.id \in Number /\ o.id <= Len(made) + n
  <2>1. o \in Built(draws, dates, 1)
    BY <1>1
  <2>2. NewOrders(n, draws, dates, 1)
    BY <1>1
  <2>3. PICK i \in 1 .. n : o.uid = Len(made) + i /\ o.id = 1 + i - 1 /\ o.date = dates[i]
    BY <1>3, <2>1, <2>2, BuiltOrders, SMTT(30)
  <2> QED
    BY <1>3, <2>3 DEF Number
<1>5. nextSeq' \in Number /\ nextSeq' <= Len(made) + n + 1 /\ \A o \in book' : o.id < nextSeq'
  BY <1>2, <1>3, <1>4, SequenceIsAbove
<1>6. NewOrders(n, draws, dates, nextSeq) /\ book' = book \cup Built(draws, dates, nextSeq)
  BY <1>1
<1> QED
  BY <1>2, <1>5, <1>6, PlaceHolds

LEMMA LoadHolds ==
  ASSUME IInv, Load
  PROVE  IInv'
<1>1. /\ proc = "down" /\ disk.exists /\ book' = disk.orders /\ log' = disk.log
      /\ nextSeq' = SequenceAfter(disk.orders) /\ proc' = "serving"
      /\ UNCHANGED <<today, write, disk, made, dropped, unsaved, faults>>
  BY DEF Load
<1>2. write = "none" /\ TypeOK /\ IsBook(disk.orders) /\ Len(made) \in Nat
  BY <1>1 DEF IInv, PhasesAreOrderly, BooksAreBooks, TypeOK
<1>3. \A o \in disk.orders : o.id \in Number /\ o.id <= Len(made)
  <2> SUFFICES ASSUME NEW o \in disk.orders PROVE o.id \in Number /\ o.id <= Len(made)
    OBVIOUS
  <2>1. o.id \in Number /\ o.uid \in DOMAIN made /\ o.id = made[o.uid].id /\ o.uid <= Len(made)
    BY <1>2 DEF TypeOK, Order, IsBook
  <2>2. made[o.uid].id <= o.uid /\ o.uid \in Int
    BY <1>2, <2>1, SMTT(30) DEF IInv, IdsAreFresh, TypeOK
  <2> QED
    BY <1>2, <2>1, <2>2 DEF Number
<1>4. nextSeq' \in Number /\ nextSeq' <= Len(made) + 1 /\ \A o \in disk.orders : o.id < nextSeq'
  BY <1>1, <1>2, <1>3, SequenceIsAbove
<1>5. TypeOK'
  BY <1>1, <1>2, <1>4 DEF TypeOK
<1>6. PhasesAreOrderly' /\ BooksAreBooks'
  BY <1>1, <1>2 DEF IInv, PhasesAreOrderly, BooksAreBooks, IsBook
<1>7. LogIsKept'
  <2>1. Len(disk.log) \in Nat
    BY <1>2 DEF TypeOK
  <2> QED
    BY <1>1, <2>1 DEF IInv, LogIsKept
<1>8. NothingIsLost'
  BY <1>1, <1>2 DEF IInv, NothingIsLost, Accounted
<1>9. IdsAreFresh'
  BY <1>1, <1>4 DEF IInv, IdsAreFresh
<1>10. CutsAreOnRecord'
  <2>1. PICK lost \in 0 .. faults : \A o \in disk.orders : Near(o, Len(disk.log) + lost)
    BY <1>1 DEF IInv, CutsAreOnRecord
  <2>2. lost + Len(disk.log) - Len(disk.log) <= faults + 0
    BY <1>2 DEF TypeOK
  <2> QED
    BY <1>1, <1>2, <2>1, <2>2 DEF CutsAreOnRecord
<1> QED
  BY <1>5, <1>6, <1>7, <1>8, <1>9, <1>10 DEF IInv

\* The orders an injection matches become what it makes of them; those that are gone are
\* on record.
Changes(matched, after, gone, e) ==
    /\ matched \subseteq book /\ Becomes(matched, after)
    /\ gone = {o \in matched : \A p \in after : p.uid # o.uid}
    /\ e \in Entry /\ e.gone = Uids(gone)
    /\ book' = (book \ matched) \cup after
    /\ log' = Append(log, e) /\ dropped' = dropped \cup Uids(gone)

LEMMA InjectChanges ==
  ASSUME IInv, NEW kind \in Kinds, NEW date, NEW region, NEW severity \in Severities,
         Inject(kind, date, region, severity)
  PROVE  \E matched, after, gone, e : Changes(matched, after, gone, e)
<1> DEFINE matched == {o \in book : o.date = date /\ region \in {"all", o.region}}
<1>1. PICK after :
         LET gone == {o \in matched : \A p \in after : p.uid # o.uid}
         IN  /\ \/ kind = "revenue_drop" /\ after = {RevenueDrop(o, severity) : o \in matched}
                \/ kind = "refund_spike" /\ after \in RefundSpikes(matched, severity)
                \/ kind = "regional_drop" /\ after \in RegionalDrops(matched, severity)
             /\ book' = (book \ matched) \cup after
             /\ log' = Append(log, [kind |-> kind, removed |-> {o.id : o \in gone},
                                    gone |-> {o.uid : o \in gone}])
             /\ dropped' = dropped \cup {o.uid : o \in gone}
  BY DEF Inject, Kinds
<1> DEFINE gone == {o \in matched : \A p \in after : p.uid # o.uid}
           e    == [kind |-> kind, removed |-> {o.id : o \in gone}, gone |-> {o.uid : o \in gone}]
<1>2. matched \in SUBSET book /\ matched \in SUBSET Order /\ \A o, p \in matched : o.uid = p.uid => o = p
  BY DEF IInv, TypeOK, BooksAreBooks, IsBook
<1>3. PICK k \in Nat : \A o \in matched : Near(o, k)
  <2>1. PICK lost \in 0 .. faults : \A o \in book : Near(o, Len(log) + lost)
    BY DEF IInv, CutsAreOnRecord
  <2>2. Len(log) + lost \in Nat
    BY DEF IInv, TypeOK
  <2> QED
    BY <1>2, <2>1, <2>2
<1> HIDE DEF matched
<1>4. Becomes(matched, after)
  BY <1>1, <1>2, <1>3, CutsBecome, SpikesBecome, DropsBecome
<1>5. e \in Entry /\ e.gone = Uids(gone)
  <2>1. \A o \in gone : o.uid \in Number /\ o.id \in Number
    BY <1>2 DEF Order
  <2> HIDE DEF gone
  <2> QED
    BY <2>1 DEF Entry, Uids
<1>6. Changes(matched, after, gone, e)
  BY <1>1, <1>2, <1>4, <1>5 DEF Changes, Uids
<1> QED
  BY <1>6

LEMMA InjectHolds ==
  ASSUME IInv, NEW kind \in Kinds, NEW date, NEW region, NEW severity \in Severities,
         Inject(kind, date, region, severity)
  PROVE  IInv'
<1>1. PICK matched, after, gone, e : Changes(matched, after, gone, e)
  BY InjectChanges
<1>2. /\ proc = "serving" /\ write = "none" /\ write' = "orders"
      /\ UNCHANGED <<today, proc, nextSeq, disk, made, unsaved, faults>>
  BY DEF Inject, Free
<1>3. TypeOK /\ IsBook(book) /\ IsBook(disk.orders)
  BY DEF IInv, BooksAreBooks
<1>4. PICK lost \in 0 .. faults :
         /\ lost + Len(log) - Len(disk.log) <= faults + 0
         /\ \A o \in book : Near(o, Len(log) + lost)
         /\ \A o \in disk.orders : Near(o, Len(log) + lost)
  BY <1>2 DEF IInv, CutsAreOnRecord
<1>5. Len(log) \in Nat /\ Len(disk.log) \in Nat /\ Len(log) + lost \in Nat /\ lost \in Nat /\ faults \in Nat
  BY <1>3 DEF TypeOK
<1>6. /\ matched \subseteq book /\ book' = (book \ matched) \cup after
      /\ \A p \in after : \E o \in matched : Same(o, p)
      /\ \A p, q \in after : p.uid = q.uid => p = q
      /\ \A p \in after : p \in Order /\ Near(p, Len(log) + lost + 1)
  <2>1. \A o \in matched : Near(o, Len(log) + lost)
    BY <1>1, <1>4 DEF Changes
  <2> QED
    BY <1>1, <1>5, <2>1 DEF Changes, Becomes
<1>7. /\ log' = Append(log, e) /\ e \in Entry /\ e.gone = Uids(gone) /\ dropped' = dropped \cup Uids(gone)
      /\ gone = {o \in matched : \A p \in after : p.uid # o.uid}
  BY <1>1 DEF Changes
<1>8. /\ log' \in Seq(Entry) /\ Len(log') = Len(log) + 1 /\ DOMAIN log' = 1 .. Len(log) + 1
      /\ DOMAIN log = 1 .. Len(log)
      /\ \A i \in 1 .. Len(log) : log'[i] = log[i]
      /\ log'[Len(log) + 1] = e
  BY <1>3, <1>7 DEF TypeOK
<1>9. TypeOK'
  <2>1. dropped' \subseteq DOMAIN made
    BY <1>3, <1>6, <1>7 DEF TypeOK, IsBook, Uids
  <2> QED
    BY <1>2, <1>3, <1>6, <1>8, <2>1 DEF TypeOK
<1>10. PhasesAreOrderly'
  BY <1>2 DEF IInv, PhasesAreOrderly
<1>11. LogIsKept'
  <2>1. \A i \in DOMAIN log' : log'[i].gone \subseteq dropped'
    <3>1. \A i \in 1 .. Len(log) : log'[i].gone \subseteq dropped'
      BY <1>7, <1>8 DEF IInv, LogIsKept
    <3>2. \A i \in DOMAIN log' : i \in 1 .. Len(log) \/ i = Len(log) + 1
      BY <1>5, <1>8
    <3>3. log'[Len(log) + 1].gone \subseteq dropped'
      BY <1>7, <1>8
    <3> QED
      BY <3>1, <3>2, <3>3
  <2>2. Len(disk.log) <= Len(log) /\ \A i \in 1 .. Len(disk.log) : disk.log[i] = log[i]
    BY <1>2 DEF IInv, LogIsKept
  <2>3. Len(disk.log) <= Len(log') /\ \A i \in 1 .. Len(disk.log) : disk.log[i] = log'[i]
    BY <1>5, <1>8, <2>2
  <2>4. \A i \in DOMAIN disk.log : disk.log[i].gone \subseteq dropped'
    BY <1>7 DEF IInv, LogIsKept
  <2> QED
    BY <1>2, <2>1, <2>3, <2>4 DEF LogIsKept
<1>12. \A o \in book' : \E p \in book : Same(p, o) /\ (o \in after => p \in matched) /\ (o \notin after => p = o /\ p \notin matched)
  BY <1>6 DEF Same
<1>13. IsBook(book')
  <2>1. \A o \in book' : o.uid \in DOMAIN made /\ o.id = made[o.uid].id /\ o.date = made[o.uid].date
    BY <1>3, <1>12 DEF IsBook, Same
  <2>2. ASSUME NEW o \in book', NEW p \in book', o.uid = p.uid \/ o.id = p.id
        PROVE  o = p
    <3>1. PICK x \in book : Same(x, o) /\ (o \in after => x \in matched) /\ (o \notin after => x = o /\ x \notin matched)
      BY <1>12
    <3>2. PICK y \in book : Same(y, p) /\ (p \in after => y \in matched) /\ (p \notin after => y = p /\ y \notin matched)
      BY <1>12
    <3>3. x = y
      BY <1>3, <2>2, <3>1, <3>2 DEF IsBook, Same
    <3>4. o.uid = p.uid
      BY <3>1, <3>2, <3>3 DEF Same
    <3> QED
      BY <1>6, <3>1, <3>2, <3>3, <3>4
  <2> QED
    BY <2>1, <2>2 DEF IsBook
<1>14. BooksAreBooks'
  BY <1>2, <1>3, <1>13 DEF BooksAreBooks, IsBook
<1>15. NothingIsLost'
  <2>1. ASSUME NEW u \in DOMAIN made \ unsaved PROVE Accounted(u, book', log')
    <3>1. Accounted(u, book, log)
      BY <1>2 DEF IInv, NothingIsLost
    <3>2. CASE \E i \in DOMAIN log : u \in log[i].gone
      BY <1>5, <1>8, <3>2 DEF Accounted
    <3>3. CASE u \in Uids(book)
      <4>1. PICK o \in book : o.uid = u
        BY <3>3 DEF Uids
      <4>2. CASE o \in gone
        <5>1. u \in log'[Len(log) + 1].gone /\ Len(log) + 1 \in DOMAIN log'
          BY <1>5, <1>7, <1>8, <4>1, <4>2 DEF Uids
        <5> QED
          BY <5>1 DEF Accounted
      <4>3. CASE o \notin gone
        BY <1>6, <1>7, <4>1, <4>3 DEF Accounted, Uids
      <4> QED
        BY <4>2, <4>3
    <3> QED
      BY <3>1, <3>2, <3>3 DEF Accounted
  <2> QED
    BY <1>2, <2>1 DEF NothingIsLost, Accounted
<1>16. IdsAreFresh'
  <2>1. \A o \in book' : o.id < nextSeq
    BY <1>12 DEF IInv, IdsAreFresh, Same
  <2> QED
    BY <1>2, <1>7, <2>1 DEF IInv, IdsAreFresh
<1>17. CutsAreOnRecord'
  <2>1. ASSUME NEW o \in book \cup disk.orders PROVE Near(o, Len(log) + lost + 1)
    <3> DEFINE k == Len(log) + lost
    <3>1. o \in Order /\ Near(o, k) /\ k \in Nat
      BY <1>3, <1>4, <1>5 DEF TypeOK
    <3> HIDE DEF k
    <3>2. k + 1 \in Nat /\ k <= k + 1
      BY <3>1
    <3>3. Near(o, k + 1)
      BY <3>1, <3>2, NearLonger
    <3> QED
      BY <3>3 DEF k
  <2>2. lost + Len(log) - Len(disk.log) <= faults + 0
    BY <1>4
  <2>3. Len(log') + lost = Len(log) + lost + 1 /\ lost + Len(log') - Len(disk.log) <= faults + 1
    <3> DEFINE k == Len(log)
               d == Len(disk.log)
    <3>1. Len(log') = k + 1 /\ k \in Int /\ d \in Int /\ lost \in Int /\ faults \in Int
      BY <1>5, <1>8
    <3>2. lost + k - d <= faults + 0
      BY <2>2
    <3> HIDE DEF k, d
    <3>3. k + 1 + lost = k + lost + 1 /\ lost + (k + 1) - d <= faults + 1
      BY <3>1, <3>2
    <3> QED
      BY <3>1, <3>3 DEF k, d
  <2>4. \A o \in book' : Near(o, Len(log') + lost)
    BY <1>6, <2>1, <2>3
  <2>5. \A o \in disk.orders : Near(o, Len(log') + lost)
    BY <2>1, <2>3
  <2> QED
    BY <1>2, <2>3, <2>4, <2>5 DEF CutsAreOnRecord
<1> QED
  BY <1>9, <1>10, <1>11, <1>14, <1>15, <1>16, <1>17 DEF IInv

LEMMA WriteOrdersHolds ==
  ASSUME IInv, WriteOrders
  PROVE  IInv'
<1>1. /\ write = "orders" /\ write' = "anomalies" /\ proc # "down"
      /\ disk' = [disk EXCEPT !.exists = TRUE, !.orders = book]
      /\ UNCHANGED <<today, proc, book, log, nextSeq, made, dropped, unsaved, faults>>
  BY DEF WriteOrders, memory, IInv, PhasesAreOrderly
<1>2. TypeOK /\ IsBook(book)
  BY DEF IInv, BooksAreBooks
<1>3. disk'.exists = TRUE /\ disk'.orders = book /\ disk'.log = disk.log
  BY <1>1, <1>2 DEF TypeOK
<1>4. TypeOK'
  <2>1. disk' \in [exists : BOOLEAN, orders : SUBSET Order, log : Seq(Entry)]
    BY <1>1, <1>2 DEF TypeOK
  <2> QED
    BY <1>1, <1>2, <2>1 DEF TypeOK
<1>5. PhasesAreOrderly' /\ LogIsKept' /\ BooksAreBooks' /\ IdsAreFresh'
  BY <1>1, <1>2, <1>3 DEF IInv, PhasesAreOrderly, LogIsKept, BooksAreBooks, IsBook, IdsAreFresh
<1>6. NothingIsLost'
  BY <1>1, <1>3 DEF IInv, NothingIsLost, Accounted
<1>7. CutsAreOnRecord'
  <2>1. PICK lost \in 0 .. faults :
           /\ lost + Len(log) - Len(disk.log) <= faults + 1
           /\ \A o \in book : Near(o, Len(log) + lost)
    BY <1>1 DEF IInv, CutsAreOnRecord
  <2> QED
    BY <1>1, <1>3, <2>1 DEF CutsAreOnRecord
<1> QED
  BY <1>4, <1>5, <1>6, <1>7 DEF IInv

LEMMA WriteAnomaliesHolds ==
  ASSUME IInv, WriteAnomalies
  PROVE  IInv'
<1>1. /\ write = "anomalies" /\ write' = "none" /\ proc # "down" /\ proc' = "serving"
      /\ disk.exists /\ disk.orders = book
      /\ disk' = [disk EXCEPT !.log = log]
      /\ UNCHANGED <<today, book, log, nextSeq, made, dropped, unsaved, faults>>
  BY DEF WriteAnomalies, memory, IInv, PhasesAreOrderly
<1>2. TypeOK /\ IsBook(book) /\ Len(log) \in Nat /\ DOMAIN log = 1 .. Len(log) /\ faults \in Nat
  BY DEF IInv, BooksAreBooks, TypeOK
<1>3. disk'.exists = disk.exists /\ disk'.orders = book /\ disk'.log = log
  BY <1>1, <1>2 DEF TypeOK
<1>4. TypeOK'
  <2>1. disk' \in [exists : BOOLEAN, orders : SUBSET Order, log : Seq(Entry)]
    BY <1>1, <1>2 DEF TypeOK
  <2> QED
    BY <1>1, <1>2, <2>1 DEF TypeOK
<1>5. PhasesAreOrderly' /\ BooksAreBooks' /\ IdsAreFresh'
  BY <1>1, <1>2, <1>3 DEF IInv, PhasesAreOrderly, BooksAreBooks, IsBook, IdsAreFresh
<1>6. LogIsKept'
  BY <1>1, <1>2, <1>3 DEF IInv, LogIsKept
<1>7. NothingIsLost'
  BY <1>1, <1>3 DEF IInv, NothingIsLost, Accounted
<1>8. CutsAreOnRecord'
  <2>1. PICK lost \in 0 .. faults : \A o \in book : Near(o, Len(log) + lost)
    BY <1>1 DEF IInv, CutsAreOnRecord
  <2>2. lost + Len(log) - Len(log) <= faults + 0
    BY <1>2
  <2> QED
    BY <1>1, <1>3, <2>1, <2>2 DEF CutsAreOnRecord
<1> QED
  BY <1>4, <1>5, <1>6, <1>7, <1>8 DEF IInv

\* What a fault that cuts a persist short leaves in one place only is in doubt.
LEMMA DisputedIsInDoubt ==
  ASSUME IInv, proc # "down"
  PROVE  /\ Disputed \subseteq DOMAIN made
         /\ \A u \in DOMAIN made \ (unsaved \cup Disputed) : Accounted(u, disk.orders, disk.log)
<1>1. TypeOK /\ IsBook(book) /\ IsBook(disk.orders)
  BY DEF IInv, BooksAreBooks
<1>2. Len(log) \in Nat /\ Len(disk.log) \in Nat /\ DOMAIN log = 1 .. Len(log) /\ DOMAIN disk.log = 1 .. Len(disk.log)
  BY <1>1 DEF TypeOK
<1>3. \A i \in Len(disk.log) + 1 .. Len(log) : i \in DOMAIN log
  BY <1>2
<1>4. Disputed \subseteq DOMAIN made
  <2>1. Uids(book) \subseteq DOMAIN made /\ Uids(disk.orders) \subseteq DOMAIN made
    BY <1>1 DEF IsBook, Uids
  <2>2. UNION {log[i].gone : i \in Len(disk.log) + 1 .. Len(log)} \subseteq DOMAIN made
    BY <1>1, <1>3, SMTT(30) DEF IInv, LogIsKept, TypeOK
  <2> QED
    BY <2>1, <2>2 DEF Disputed
<1>5. ASSUME NEW u \in DOMAIN made, u \notin unsaved, u \notin Disputed
      PROVE  Accounted(u, disk.orders, disk.log)
  <2>1. Accounted(u, book, log)
    BY <1>5 DEF IInv, NothingIsLost
  <2>2. CASE u \in Uids(book)
    BY <1>5, <2>2 DEF Disputed, Accounted
  <2>3. CASE \E i \in DOMAIN log : u \in log[i].gone
    <3>1. PICK i \in DOMAIN log : u \in log[i].gone
      BY <2>3
    <3>2. i \notin Len(disk.log) + 1 .. Len(log)
      BY <1>5, <3>1 DEF Disputed
    <3>3. i \in DOMAIN disk.log /\ i \in 1 .. Len(disk.log)
      BY <1>2, <3>1, <3>2
    <3>4. disk.log[i] = log[i]
      BY <3>3 DEF IInv, LogIsKept
    <3> QED
      BY <3>1, <3>3, <3>4 DEF Accounted
  <2> QED
    BY <2>1, <2>2, <2>3 DEF Accounted
<1> QED
  BY <1>4, <1>5

LEMMA PersistFailsHolds ==
  ASSUME IInv, PersistFails
  PROVE  IInv'
<1>1. /\ write # "none" /\ write' = "none" /\ proc = "serving" /\ faults < MaxFaults /\ faults' = faults + 1
      /\ unsaved' = unsaved \cup Disputed
      /\ UNCHANGED <<today, proc, book, log, nextSeq, disk, made, dropped>>
  BY DEF PersistFails, memory
<1>2. TypeOK /\ IsBook(book) /\ IsBook(disk.orders) /\ faults \in Nat /\ MaxFaults \in Nat
  BY DEF IInv, BooksAreBooks, TypeOK
<1>3. unsaved' \subseteq DOMAIN made /\ \A u \in DOMAIN made \ unsaved' : Accounted(u, disk.orders, disk.log)
  BY <1>1, <1>2, DisputedIsInDoubt DEF TypeOK
<1>4. TypeOK'
  BY <1>1, <1>2, <1>3 DEF TypeOK
<1>5. PhasesAreOrderly' /\ LogIsKept' /\ BooksAreBooks'
  BY <1>1, <1>2 DEF IInv, PhasesAreOrderly, LogIsKept, BooksAreBooks, IsBook
<1>6. IdsAreFresh'
  BY <1>1 DEF IInv, IdsAreFresh
<1>7. NothingIsLost'
  <2>1. \A u \in DOMAIN made \ unsaved' : Accounted(u, book, log)
    BY <1>1 DEF IInv, NothingIsLost
  <2>2. (Uids(book) \ Uids(disk.orders)) \cup (Uids(disk.orders) \ Uids(book)) \subseteq unsaved'
    BY <1>1 DEF Disputed
  <2> QED
    BY <1>1, <1>3, <2>1, <2>2 DEF NothingIsLost, Accounted
<1>8. CutsAreOnRecord'
  <2>1. PICK lost \in 0 .. faults :
           /\ lost + Len(log) - Len(disk.log) <= faults + 1
           /\ \A o \in book : Near(o, Len(log) + lost)
           /\ \A o \in disk.orders : Near(o, Len(log) + lost)
    BY <1>1 DEF IInv, CutsAreOnRecord
  <2>2. lost \in 0 .. faults'
    BY <1>1, <1>2
  <2>3. lost + Len(log) - Len(disk.log) <= faults' + 0
    <3> DEFINE left == lost + Len(log) - Len(disk.log)
    <3>1. left \in Int
      BY <1>2 DEF TypeOK
    <3>2. left <= faults + 1
      BY <2>1
    <3> HIDE DEF left
    <3>3. left <= faults' + 0
      BY <1>1, <1>2, <3>1, <3>2
    <3> QED
      BY <3>3 DEF left
  <2> QED
    BY <1>1, <2>1, <2>2, <2>3 DEF CutsAreOnRecord
<1> QED
  BY <1>4, <1>5, <1>6, <1>7, <1>8 DEF IInv

LEMMA KilledHolds ==
  ASSUME IInv, Killed
  PROVE  IInv'
<1>1. /\ proc # "down" /\ proc' = "down" /\ write' = "none" /\ faults < MaxFaults /\ faults' = faults + 1
      /\ unsaved' = unsaved \cup (IF write # "none" THEN Disputed ELSE {})
      /\ book' = {} /\ log' = <<>> /\ nextSeq' = 1
      /\ UNCHANGED <<today, disk, made, dropped>>
  BY DEF Killed
<1>2. TypeOK /\ IsBook(disk.orders) /\ faults \in Nat /\ MaxFaults \in Nat
      /\ Len(log) \in Nat /\ Len(disk.log) \in Nat /\ Len(made) \in Nat
  BY DEF IInv, BooksAreBooks, TypeOK
<1>3. unsaved' \subseteq DOMAIN made /\ \A u \in DOMAIN made \ unsaved' : Accounted(u, disk.orders, disk.log)
  <2>1. CASE write = "none"
    BY <1>1, <1>2, <2>1 DEF TypeOK, IInv, NothingIsLost
  <2>2. CASE write # "none"
    BY <1>1, <1>2, <2>2, DisputedIsInDoubt DEF TypeOK
  <2> QED
    BY <2>1, <2>2
<1>4. TypeOK'
  <2>1. <<>> \in Seq(Entry) /\ 1 \in Number
    BY DEF Number
  <2> QED
    BY <1>1, <1>2, <1>3, <2>1 DEF TypeOK
<1>5. PhasesAreOrderly' /\ LogIsKept' /\ BooksAreBooks'
  BY <1>1, <1>2 DEF IInv, PhasesAreOrderly, LogIsKept, BooksAreBooks, IsBook
<1>6. IdsAreFresh'
  BY <1>1, <1>2 DEF IInv, IdsAreFresh
<1>7. NothingIsLost'
  BY <1>1, <1>3 DEF NothingIsLost, Accounted
<1>8. CutsAreOnRecord'
  <2>1. PICK lost \in 0 .. faults :
           /\ lost + Len(log) - Len(disk.log) <= faults + (IF write = "none" THEN 0 ELSE 1)
           /\ \A o \in disk.orders : Near(o, Len(log) + lost)
    BY <1>1 DEF IInv, CutsAreOnRecord
  <2>2. Len(disk.log) <= Len(log)
    BY <1>1 DEF IInv, LogIsKept
  <2> DEFINE left == lost + Len(log) - Len(disk.log)
  <2>3. left \in 0 .. faults' /\ Len(disk.log) + left = Len(log) + lost
    <3>1. left \in Nat
      BY <1>2, <2>2
    <3>2. left <= faults + 1
      <4>1. left <= faults + (IF write = "none" THEN 0 ELSE 1)
        BY <2>1
      <4> HIDE DEF left
      <4> QED
        BY <1>2, <3>1, <4>1
    <3>3. Len(disk.log) + left = Len(log) + lost
      BY <1>2
    <3> HIDE DEF left
    <3> QED
      BY <1>1, <1>2, <3>1, <3>2, <3>3
  <2> HIDE DEF left
  <2>4. \A o \in disk.orders : Near(o, Len(disk.log) + left)
    BY <2>1, <2>3
  <2> QED
    BY <1>1, <2>3, <2>4 DEF CutsAreOnRecord
<1> QED
  BY <1>4, <1>5, <1>6, <1>7, <1>8 DEF IInv

LEMMA NextHolds == IInv /\ [BookNext]_bookVars => IInv'
<1> SUFFICES ASSUME IInv, BookNext \/ UNCHANGED bookVars PROVE IInv'
  OBVIOUS
<1>1. CASE UNCHANGED bookVars
  <2>1. UNCHANGED <<today, proc, write, book, log, nextSeq, disk, made, dropped, unsaved, faults>>
    BY <1>1 DEF bookVars
  <2>2. TypeOK' /\ PhasesAreOrderly'
    BY <2>1 DEF IInv, TypeOK, PhasesAreOrderly
  <2>3. LogIsKept' /\ BooksAreBooks'
    BY <2>1 DEF IInv, LogIsKept, BooksAreBooks, IsBook
  <2>4. NothingIsLost' /\ IdsAreFresh'
    BY <2>1 DEF IInv, NothingIsLost, Accounted, IdsAreFresh
  <2>5. CutsAreOnRecord'
    BY <2>1 DEF IInv, CutsAreOnRecord
  <2> QED
    BY <2>2, <2>3, <2>4, <2>5 DEF IInv
<1>2. CASE Tick
  BY <1>2, TickHolds
<1>3. CASE Load
  BY <1>3, LoadHolds
<1>4. CASE GenerateHistory
  BY <1>4, HistoryHolds
<1>5. ASSUME NEW n \in 1 .. MaxBatch, NEW draws \in [1 .. n -> Draws],
             NEW date \in {BusinessDate} \cup Dates, Generate(draws, date)
      PROVE  IInv'
  BY <1>5, GenerateHolds
<1>6. ASSUME NEW kind \in Kinds, NEW date \in Days, NEW region \in Regions \cup {"all"},
             NEW severity \in Severities, Inject(kind, date, region, severity)
      PROVE  IInv'
  BY <1>6, InjectHolds
<1>7. CASE WriteOrders
  BY <1>7, WriteOrdersHolds
<1>8. CASE WriteAnomalies
  BY <1>8, WriteAnomaliesHolds
<1>9. CASE PersistFails
  BY <1>9, PersistFailsHolds
<1>10. CASE Killed
  BY <1>10, KilledHolds
<1> QED
  BY <1>1, <1>2, <1>3, <1>4, <1>5, <1>6, <1>7, <1>8, <1>9, <1>10 DEF BookNext

LEMMA Invariance == BookSpec => []IInv
<1>1. BookInit => IInv
  BY BookInitHolds
<1>2. IInv /\ [BookNext]_bookVars => IInv'
  BY NextHolds
<1> QED
  BY <1>1, <1>2, PTL DEF BookSpec

-----------------------------------------------------------------------------
(* What the order service promises.                                         *)

\* Every variable of the order service stays in its type, for any number of orders,
\* injections and faults.
THEOREM TypeCorrect == BookSpec => []TypeOK
<1>1. IInv => TypeOK
  BY DEF IInv
<1> QED
  BY <1>1, Invariance, PTL

\* _persist leaves nothing out: an order ever made is on the volume or on the volume's
\* record of removals whenever no persist is under way, but for those a fault has put in
\* doubt.
THEOREM NothingVanishes == BookSpec => []NothingVanishesSilently
<1>1. IInv => NothingVanishesSilently
  BY Zenon DEF IInv, NothingIsLost, Accounted, NothingVanishesSilently
<1> QED
  BY <1>1, Invariance, PTL

\* _compute_next_sequence keeps ids apart: no two orders of the book share one, through
\* every restart, and an id comes again only for an order that was removed or never saved.
THEOREM IdsAreUnique == BookSpec => []IdsAreUniqueInTheBook
<1>1. IInv => IdsAreUniqueInTheBook
  BY DEF IInv, BooksAreBooks, IsBook, IdsAreFresh, IdsAreUniqueInTheBook
<1> QED
  BY <1>1, Invariance, PTL

\* Orders are refused for the rounding of price cuts and nothing else: apply_revenue_drop
\* rounds price and refund apart, half a cent each, and only what is multiplied drifts.
THEOREM OnlyRounding == BookSpec => []OnlyRoundingIsRefused
<1>1. ASSUME IInv PROVE OnlyRoundingIsRefused
  <2>1. PICK lost \in 0 .. faults : \A o \in book : Near(o, Len(log) + lost)
    BY <1>1 DEF IInv, CutsAreOnRecord
  <2>2. /\ Len(log) + lost \in Nat /\ Len(log) + faults \in Nat /\ Len(log) + lost <= Len(log) + faults
        /\ book \subseteq Order
    BY <1>1 DEF IInv, TypeOK
  <2>3. \A o \in book : Near(o, Len(log) + faults)
    BY <2>1, <2>2, NearLonger
  <2> QED
    BY <2>3 DEF OnlyRoundingIsRefused, Near
<1> QED
  BY <1>1, Invariance, PTL

-----------------------------------------------------------------------------
(* The order service is the order system that ingestion expects.            *)

\* A book as a reader sees it, and which of its orders are refused.
Seen(orders) ==
    {[uid |-> o.uid, id |-> o.id, date |-> o.date, bad |-> o.refund > Gross(o)] : o \in orders}
Bad(orders) == [u \in DOMAIN made |-> \E o \in orders : o.uid = u /\ o.refund > Gross(o)]

\* What a reader sees of a book is told by the uids in it and which of them are bad.
LEMMA SeenBook ==
  ASSUME NEW X \in SUBSET Order, IsBook(X)
  PROVE  /\ Seen(X) = {Expected!OrderOf(u, Bad(X)) : u \in Uids(X)}
         /\ Expected!Uids(Seen(X)) = Uids(X)
         /\ Bad(X) \in [DOMAIN made -> BOOLEAN]
         /\ Uids(X) \subseteq DOMAIN made
         /\ \A u, v \in Uids(X) : made[u].id = made[v].id => u = v
<1>1. Bad(X) \in [DOMAIN made -> BOOLEAN]
  BY DEF Bad
<1>2. Uids(X) \subseteq DOMAIN made
  BY DEF IsBook, Uids
<1>3. ASSUME NEW o \in X
      PROVE  Expected!OrderOf(o.uid, Bad(X)) =
                [uid |-> o.uid, id |-> o.id, date |-> o.date, bad |-> o.refund > Gross(o)]
  <2>1. o.uid \in DOMAIN made /\ o.id = made[o.uid].id /\ o.date = made[o.uid].date
    BY <1>3 DEF IsBook
  <2>2. \A p \in X : p.uid = o.uid => p = o
    BY <1>3 DEF IsBook
  <2>3. (\E p \in X : p.uid = o.uid /\ p.refund > Gross(p)) <=> o.refund > Gross(o)
    BY <1>3, <2>2
  <2>4. Bad(X)[o.uid] = (o.refund > Gross(o))
    <3>1. Bad(X)[o.uid] = (\E p \in X : p.uid = o.uid /\ p.refund > Gross(p))
      BY <2>1, Zenon DEF Bad
    <3>2. (\E p \in X : p.uid = o.uid /\ p.refund > Gross(p)) = (o.refund > Gross(o))
      <4> DEFINE is == \E p \in X : p.uid = o.uid /\ p.refund > Gross(p)
                 so == o.refund > Gross(o)
      <4>1. is \in BOOLEAN
        OBVIOUS
      <4>2. so \in BOOLEAN
        BY GrossIsNumber
      <4>3. is <=> so
        BY <2>3
      <4> HIDE DEF is, so
      <4>4. is = so
        BY <4>1, <4>2, <4>3
      <4> QED
        BY <4>4 DEF is, so
    <3> QED
      BY <3>1, <3>2, Zenon
  <2> QED
    BY <2>1, <2>4, Zenon DEF Expected!OrderOf
<1>4. Seen(X) = {Expected!OrderOf(u, Bad(X)) : u \in Uids(X)}
  BY <1>3, Zenon DEF Seen, Uids
<1>5. Expected!Uids(Seen(X)) = Uids(X)
  <2> DEFINE view(o) == [uid |-> o.uid, id |-> o.id, date |-> o.date, bad |-> o.refund > Gross(o)]
  <2>1. Seen(X) = {view(o) : o \in X} /\ \A o \in X : view(o).uid = o.uid
    BY DEF Seen
  <2> HIDE DEF view
  <2> QED
    BY <2>1 DEF Expected!Uids, Uids
<1>6. \A u, v \in Uids(X) : made[u].id = made[v].id => u = v
  BY DEF IsBook, Uids
<1> QED
  BY <1>1, <1>2, <1>4, <1>5, <1>6

LEMMA VisibleIsBook ==
  ASSUME IInv
  PROVE  IsBook(Visible) /\ Visible \subseteq Order
BY DEF IInv, TypeOK, BooksAreBooks, Visible

\* New orders are placed.
LEMMA PlaceRefines ==
  ASSUME IInv, NEW n \in 1 .. MaxBatch, NEW draws \in [1 .. n -> Draws], NEW dates \in [1 .. n -> Dates],
         NewOrders(n, draws, dates, nextSeq), \A o \in Visible : o.id < nextSeq,
         Visible' = Visible \cup Built(draws, dates, nextSeq), UNCHANGED <<today, unsaved, faults>>
  PROVE  Expected!Place(dates, nextSeq) /\ nextSeq \in 1 .. MaxOrders
<1> DEFINE B == Built(draws, dates, nextSeq)
           new == {[uid |-> Len(made) + i, id |-> nextSeq + i - 1, date |-> dates[i], bad |-> FALSE] :
                      i \in 1 .. n}
<1>1. /\ TypeOK /\ n \in Nat /\ n >= 1 /\ nextSeq \in Nat /\ nextSeq >= 1 /\ Len(made) \in Nat
      /\ nextSeq <= Len(made) + 1 /\ Len(made) + n <= MaxOrders /\ MaxOrders \in Nat
      /\ DOMAIN draws = 1 .. n /\ DOMAIN dates = 1 .. n /\ Len(dates) = n
  BY SMTT(30) DEF IInv, TypeOK, NewOrders, Number
<1>2. nextSeq \in 1 .. MaxOrders
  BY <1>1
<1>3. made' = made \o [i \in 1 .. n |-> [id |-> nextSeq + i - 1, date |-> dates[i], on |-> today]]
  BY <1>1 DEF NewOrders, Remember
<1>4. Seen(B) = new
  <2>1. B = {[uid |-> Len(made) + i, id |-> nextSeq + i - 1, date |-> dates[i],
              region |-> draws[i].region, quantity |-> draws[i].quantity,
              price |-> draws[i].price, refund |-> draws[i].refund] : i \in 1 .. n}
    BY <1>1 DEF Built
  <2>2. \A o \in B : (o.refund > Gross(o)) = FALSE
    <3>1. \A o \in B : o.refund <= Gross(o) /\ o \in Order
      BY <1>1, BuiltOrders
    <3> HIDE DEF B
    <3> QED
      BY <3>1, GrossIsNumber
  <2>3. Seen(B) = {[uid |-> o.uid, id |-> o.id, date |-> o.date, bad |-> FALSE] : o \in B}
    <3> HIDE DEF B
    <3> QED
      BY <2>2, Zenon DEF Seen
  <2> DEFINE built(i) == [uid |-> Len(made) + i, id |-> nextSeq + i - 1, date |-> dates[i],
                          region |-> draws[i].region, quantity |-> draws[i].quantity,
                          price |-> draws[i].price, refund |-> draws[i].refund]
             seen(i) == [uid |-> Len(made) + i, id |-> nextSeq + i - 1, date |-> dates[i], bad |-> FALSE]
             view(o) == [uid |-> o.uid, id |-> o.id, date |-> o.date, bad |-> FALSE]
  <2>4. \A i \in 1 .. n : view(built(i)) = seen(i)
    OBVIOUS
  <2>5. B = {built(i) : i \in 1 .. n} /\ Seen(B) = {view(o) : o \in B} /\ new = {seen(i) : i \in 1 .. n}
    BY <2>1, <2>3
  <2> HIDE DEF B, new, built, seen, view
  <2> QED
    BY <2>4, <2>5
<1>5. Seen(Visible \cup B) = Seen(Visible) \cup Seen(B)
  <2> HIDE DEF B
  <2> QED
    BY Zenon DEF Seen
<1>6. Seen(Visible)' = Seen(Visible) \cup new
  <2>1. Seen(Visible)' = Seen(Visible \cup B)
    BY DEF Seen, Gross
  <2> QED
    BY <1>4, <1>5, <2>1
<1>7. \A o \in Seen(Visible) : nextSeq > o.id
  <2>1. \A o \in Visible : o.id \in Int /\ nextSeq > o.id
    BY <1>1, VisibleIsBook DEF Order, Number
  <2> QED
    BY <2>1 DEF Seen
<1> QED
  BY <1>1, <1>2, <1>3, <1>6, <1>7 DEF Expected!Place, Seen

\* An injection takes the orders that are gone out of the book, and no other.
LEMMA InjectTakes ==
  ASSUME IInv, NEW matched, NEW after, NEW gone, NEW e, Changes(matched, after, gone, e)
  PROVE  Uids(book') = Uids(book) \ Uids(gone) /\ Uids(gone) \subseteq Uids(book)
<1>1. /\ matched \subseteq book /\ \A p \in after : \E o \in matched : p.uid = o.uid
      /\ gone = {o \in matched : \A p \in after : p.uid # o.uid}
      /\ book' = (book \ matched) \cup after
  BY DEF Changes, Becomes, Same
<1>2. \A o, p \in book : o.uid = p.uid => o = p
  BY DEF IInv, BooksAreBooks, IsBook
<1>3. ASSUME NEW o \in book' PROVE o.uid \in Uids(book) /\ o.uid \notin Uids(gone)
  BY <1>1, <1>2, <1>3 DEF Uids
<1>4. ASSUME NEW o \in book, o.uid \notin Uids(gone) PROVE o.uid \in Uids(book')
  BY <1>1, <1>4 DEF Uids
<1> QED
  BY <1>1, <1>3, <1>4 DEF Uids

LEMMA InjectRefines ==
  ASSUME IInv, IInv', NEW kind \in Kinds, NEW date, NEW region, NEW severity \in Severities,
         Inject(kind, date, region, severity)
  PROVE  \E gone \in SUBSET Expected!Made, bad \in [Expected!Made -> BOOLEAN] : Expected!Alter(gone, bad)
<1>1. PICK matched, after, gone, e : Changes(matched, after, gone, e)
  BY InjectChanges
<1>2. /\ proc = "serving" /\ proc' = "serving"
      /\ UNCHANGED <<today, made, unsaved, faults>>
  BY DEF Inject, Free
<1>3. book \in SUBSET Order /\ IsBook(book) /\ book' \in SUBSET Order /\ IsBook(book')
  BY <1>2 DEF IInv, BooksAreBooks, TypeOK, IsBook
<1>4. Visible = book /\ Visible' = book'
  BY <1>2 DEF Visible
<1> DEFINE bad  == Bad(book')
           uids == Uids(gone)
<1>5. Uids(book') = Uids(book) \ uids /\ uids \subseteq Uids(book)
  BY <1>1, InjectTakes
<1>6. Expected!Uids(Seen(book)) = Uids(book) /\ Uids(book) \subseteq DOMAIN made
  BY <1>3, SeenBook
<1>7. Seen(book') = {Expected!OrderOf(u, bad) : u \in Uids(book')} /\ bad \in [DOMAIN made -> BOOLEAN]
  BY <1>3, SeenBook
<1>8. Seen(Visible)' = Seen(book')
  BY <1>4 DEF Seen, Gross
<1> HIDE DEF bad, uids
<1>9. uids \in SUBSET Expected!Made /\ bad \in [Expected!Made -> BOOLEAN]
  BY <1>5, <1>6, <1>7 DEF Expected!Made
<1>10. /\ uids \subseteq Expected!Uids(Seen(Visible))
       /\ Seen(Visible)' = {Expected!OrderOf(u, bad) : u \in Expected!Uids(Seen(Visible)) \ uids}
  BY <1>4, <1>5, <1>6, <1>7, <1>8
<1>11. PICK taken \in SUBSET Expected!Made, refused \in [Expected!Made -> BOOLEAN] : taken = uids /\ refused = bad
  BY <1>9
<1>12. Expected!Alter(taken, refused)
  BY <1>2, <1>10, <1>11 DEF Expected!Alter, Seen, Expected!OrderOf
<1> QED
  BY <1>12

\* A fault: what a reader sees changes at most by what is in doubt.
LEMMA FaultRefines ==
  ASSUME IInv, IInv', PersistFails \/ Killed
  PROVE  \E after \in SUBSET Expected!Made : \E doubt \in SUBSET Expected!Made :
            \E bad \in [Expected!Made -> BOOLEAN] : Expected!Lapse(after, doubt, bad)
<1>1. /\ proc # "down" /\ faults < MaxFaults /\ faults' = faults + 1
      /\ UNCHANGED <<today, disk, made>>
      /\ unsaved' = unsaved \cup (IF write # "none" THEN Disputed ELSE {})
  BY DEF PersistFails, Killed, memory
<1>2. Visible = book /\ (Visible' = book \/ Visible' = disk.orders)
  <2>1. CASE PersistFails
    BY <1>1, <2>1 DEF PersistFails, memory, Visible
  <2>2. CASE Killed
    BY <1>1, <2>2 DEF Killed, Visible
  <2> QED
    BY <2>1, <2>2
<1>3. /\ book \in SUBSET Order /\ IsBook(book) /\ disk.orders \in SUBSET Order /\ IsBook(disk.orders)
  BY DEF IInv, BooksAreBooks, TypeOK
<1> DEFINE X     == Visible'
           doubt == IF write # "none" THEN Disputed ELSE {}
           bad   == Bad(X)
           after == Uids(X)
<1>4. X \in SUBSET Order /\ IsBook(X)
  BY <1>2, <1>3
<1>5. doubt \in SUBSET DOMAIN made
  BY <1>1, DisputedIsInDoubt
<1>6. (Uids(book) \ after) \cup (after \ Uids(book)) \subseteq unsaved'
  <2>1. (Uids(book) \ Uids(disk.orders)) \cup (Uids(disk.orders) \ Uids(book)) \subseteq unsaved'
    BY <1>1 DEF IInv, NothingIsLost, Disputed
  <2> QED
    BY <1>2, <2>1
<1>7. Expected!Uids(Seen(Visible)) = Uids(book)
  BY <1>2, <1>3, SeenBook
<1>8. Seen(Visible)' = Seen(X)
  BY DEF Seen, Gross
<1> HIDE DEF X, doubt
<1>9. /\ Seen(X) = {Expected!OrderOf(u, bad) : u \in after} /\ bad \in [DOMAIN made -> BOOLEAN]
      /\ after \subseteq DOMAIN made /\ \A u, v \in after : made[u].id = made[v].id => u = v
  BY <1>4, SeenBook
<1>10. unsaved' = unsaved \cup doubt
  BY <1>1 DEF doubt
<1> HIDE DEF bad, after
<1>11. PICK left \in SUBSET Expected!Made : left = after
  BY <1>9 DEF Expected!Made
<1>12. PICK lost \in SUBSET Expected!Made : lost = doubt
  BY <1>5 DEF Expected!Made
<1>13. PICK refused \in [Expected!Made -> BOOLEAN] : refused = bad
  BY <1>9 DEF Expected!Made
<1>14. Expected!Lapse(left, lost, refused)
  BY <1>1, <1>6, <1>7, <1>8, <1>9, <1>10, <1>11, <1>12, <1>13 DEF Expected!Lapse, Seen, Expected!OrderOf
<1> QED
  BY <1>14

\* Every step, read through the book a reader sees, is one that ingestion expects, or
\* leaves what it sees as it is.
LEMMA StepRefines ==
  ASSUME IInv, IInv', [BookNext]_bookVars
  PROVE  Expected!UpstreamNext \/ UNCHANGED <<today, Seen(Visible), made, unsaved, faults>>
<1>1. CASE UNCHANGED bookVars
  BY <1>1 DEF bookVars, Seen, Gross, Visible
<1>2. CASE Tick
  <2>1. UNCHANGED Seen(Visible)
    BY <1>2 DEF Tick, memory, Seen, Gross, Visible
  <2>2. Expected!Tick
    BY <1>2, <2>1 DEF Tick, Expected!Tick, Seen
  <2> QED
    BY <2>2 DEF Expected!UpstreamNext
<1>3. CASE Load \/ WriteOrders \/ WriteAnomalies
  <2>1. Visible' = Visible /\ UNCHANGED <<today, made, unsaved, faults>>
    BY <1>3 DEF Load, WriteOrders, WriteAnomalies, memory, Visible, IInv, PhasesAreOrderly
  <2> QED
    BY <2>1 DEF Seen, Gross
<1>4. ASSUME NEW n \in 1 .. MaxBatch, NEW draws \in [1 .. n -> Draws], NEW dates \in [1 .. n -> Dates],
             NewOrders(n, draws, dates, nextSeq), \A o \in Visible : o.id < nextSeq,
             Visible' = Visible \cup Built(draws, dates, nextSeq), UNCHANGED <<today, unsaved, faults>>
      PROVE  Expected!UpstreamNext
  <2>1. Expected!Place(dates, nextSeq) /\ nextSeq \in 1 .. MaxOrders
    BY <1>4, PlaceRefines
  <2>2. dates \in [1 .. n -> Expected!Dates]
    BY DEF Dates, Expected!Dates, Days, Expected!Days
  <2>3. PICK start \in 1 .. MaxOrders : start = nextSeq
    BY <2>1
  <2>4. Expected!Place(dates, start)
    BY <2>1, <2>3 DEF Expected!Place
  <2> QED
    BY <2>2, <2>4 DEF Expected!UpstreamNext
<1>5. CASE GenerateHistory
  <2>1. PICK n \in 0 .. MaxBatch : \E draws \in [1 .. n -> Draws], dates \in [1 .. n -> Dates] :
           /\ NewOrders(n, draws, dates, 1) /\ book' = Built(draws, dates, 1)
           /\ nextSeq = 1 /\ book = {} /\ disk.orders = {}
    BY <1>5, HistoryIsPlace
  <2>2. PICK draws \in [1 .. n -> Draws], dates \in [1 .. n -> Dates] :
           /\ NewOrders(n, draws, dates, 1) /\ book' = Built(draws, dates, 1)
           /\ nextSeq = 1 /\ book = {} /\ disk.orders = {}
    BY <2>1
  <2>3. /\ UNCHANGED <<today, unsaved, faults>> /\ Visible = {} /\ Visible' = book'
    BY <1>5, <2>2 DEF GenerateHistory, Visible
  <2>4. CASE n >= 1
    <3>1. /\ n \in 1 .. MaxBatch /\ NewOrders(n, draws, dates, nextSeq)
          /\ Visible' = Visible \cup Built(draws, dates, nextSeq) /\ \A o \in Visible : o.id < nextSeq
      BY <2>2, <2>3, <2>4
    <3> QED
      BY <1>4, <2>3, <3>1
  <2>5. CASE n = 0
    <3>1. DOMAIN draws = {} /\ made \in Seq(Maker)
      BY <2>5 DEF IInv, TypeOK
    <3>2. book' = {}
      BY <2>2, <3>1 DEF Built
    <3>3. made' = made
      <4>1. made' \in Seq(Maker) /\ Len(made') = Len(made) /\ \A u \in DOMAIN made : made'[u] = made[u]
        <5>1. TypeOK /\ NewOrders(n, draws, dates, 1) /\ Len(made) \in Nat /\ Len(made) + n = Len(made)
          <6>1. TypeOK /\ NewOrders(n, draws, dates, 1)
            BY <2>2 DEF IInv
          <6>2. Len(made) \in Nat
            BY <6>1 DEF TypeOK
          <6> QED
            BY <2>5, <6>1, <6>2
        <5>2. made' \in Seq(Maker) /\ Len(made') = Len(made) + n /\ \A u \in DOMAIN made : made'[u] = made[u]
          BY <5>1, MadeGrows
        <5> QED
          BY <5>1, <5>2
      <4> QED
        BY <3>1, <4>1, SMTT(30)
    <3> QED
      BY <2>3, <3>2, <3>3 DEF Seen
  <2> QED
    BY <2>4, <2>5
<1>6. ASSUME NEW n \in 1 .. MaxBatch, NEW draws \in [1 .. n -> Draws],
             NEW date \in {BusinessDate} \cup Dates, Generate(draws, date)
      PROVE  Expected!UpstreamNext
  <2>1. PICK dates \in [1 .. n -> Dates] :
           NewOrders(n, draws, dates, nextSeq) /\ book' = book \cup Built(draws, dates, nextSeq)
    BY <1>6, GenerateIsPlace
  <2>2. Visible = book /\ Visible' = book' /\ UNCHANGED <<today, unsaved, faults>>
    BY <1>6 DEF Generate, Free, Visible
  <2>3. \A o \in book : o.id < nextSeq
    BY DEF IInv, IdsAreFresh
  <2> QED
    BY <1>4, <2>1, <2>2, <2>3
<1>7. ASSUME NEW kind \in Kinds, NEW date \in Days, NEW region \in Regions \cup {"all"},
             NEW severity \in Severities, Inject(kind, date, region, severity)
      PROVE  Expected!UpstreamNext
  <2>1. \E gone \in SUBSET Expected!Made, bad \in [Expected!Made -> BOOLEAN] : Expected!Alter(gone, bad)
    BY <1>7, InjectRefines
  <2> QED
    BY <2>1 DEF Expected!UpstreamNext
<1>8. CASE PersistFails \/ Killed
  <2>1. \E after \in SUBSET Expected!Made : \E doubt \in SUBSET Expected!Made :
           \E bad \in [Expected!Made -> BOOLEAN] : Expected!Lapse(after, doubt, bad)
    BY <1>8, FaultRefines
  <2> QED
    BY <2>1 DEF Expected!UpstreamNext
<1> QED
  BY <1>1, <1>2, <1>3, <1>5, <1>6, <1>7, <1>8 DEF BookNext

\* The order service implements the order system ingestion is built on: read through
\* get_orders, every generation, injection, restart and fault is one of its steps.
THEOREM Refinement == BookSpec => ImplementsUpstream
<1> DEFINE seen == {[uid |-> o.uid, id |-> o.id, date |-> o.date, bad |-> o.refund > Gross(o)] : o \in Visible}
<1>1. BookInit => Expected!Init
  BY DEF BookInit, Expected!Init, Visible
<1>2. IInv /\ IInv' /\ [BookNext]_bookVars => [Expected!UpstreamNext]_<<today, seen, made, unsaved, faults>>
  BY StepRefines DEF Seen
<1> QED
  BY <1>1, <1>2, Invariance, PTL DEF BookSpec, ImplementsUpstream, Expected!UpstreamSpec, Expected!upstreamVars

HIDE BookBoundsAssumption

-----------------------------------------------------------------------------
(* Provision: the plan.                                                     *)

ThingKinds     == {"database", "collection", "card", "dashboard"}
AllKeys  == Keys(CardSeq) \cup Keys(BoardSeq) \cup {"database", "collection", "cards"}
AllNames == {CardSeq[i].name : i \in DOMAIN CardSeq} \cup {BoardSeq[i].name : i \in DOMAIN BoardSeq}
            \cup {"database", "collection", "cards"}
PlanItem == [kind : ThingKinds \cup {"cards", "fill"}, key : AllKeys, name : AllNames]

NC == Len(CardSeq)
NB == Len(BoardSeq)

LEMMA SpecsAreSequences ==
  /\ NC \in Nat /\ DOMAIN CardSeq = 1 .. NC
  /\ NB \in Nat /\ DOMAIN BoardSeq = 1 .. NB
  /\ \A i \in 1 .. NC : CardSeq[i].key \in AllKeys /\ CardSeq[i].name \in AllNames
  /\ \A i \in 1 .. NB : BoardSeq[i].key \in AllKeys /\ BoardSeq[i].name \in AllNames
<1>1. NC \in Nat /\ DOMAIN CardSeq = 1 .. NC /\ NB \in Nat /\ DOMAIN BoardSeq = 1 .. NB
  BY NamesAssumption DEF NC, NB
<1> QED
  BY <1>1 DEF AllKeys, AllNames, Keys

LEMMA Joined ==
  ASSUME NEW T, NEW a \in Seq(T), NEW b \in Seq(T)
  PROVE  /\ a \o b \in Seq(T) /\ Len(a \o b) = Len(a) + Len(b)
         /\ \A i \in 1 .. Len(a) : (a \o b)[i] = a[i]
         /\ \A i \in Len(a) + 1 .. Len(a) + Len(b) : (a \o b)[i] = b[i - Len(a)]
OBVIOUS

LEMMA ItemsOf ==
  ASSUME NEW kind \in ThingKinds \cup {"fill"}, NEW specs \in {CardSeq, BoardSeq}
  PROVE  /\ Items(kind, specs) \in Seq(PlanItem) /\ Len(Items(kind, specs)) = Len(specs)
         /\ \A i \in 1 .. Len(specs) : Items(kind, specs)[i] = Item(kind, specs[i])
<1>1. Len(specs) \in Nat /\ DOMAIN specs = 1 .. Len(specs)
  BY SpecsAreSequences DEF NC, NB
<1>2. \A i \in 1 .. Len(specs) : Item(kind, specs[i]) \in PlanItem
  BY SpecsAreSequences DEF Item, PlanItem, NC, NB
<1> DEFINE n == Len(specs)
           f == [i \in 1 .. n |-> Item(kind, specs[i])]
<1>3. Items(kind, specs) = f
  BY <1>1 DEF Items
<1>4. f \in [1 .. n -> PlanItem]
  BY <1>2
<1>5. \A i \in 1 .. n : f[i] = Item(kind, specs[i])
  OBVIOUS
<1>6. n \in Nat
  BY <1>1
<1> HIDE DEF f, n
<1>7. f \in Seq(PlanItem) /\ Len(f) = n
  BY <1>4, <1>6
<1> QED
  BY <1>3, <1>5, <1>7 DEF n

LEMMA PlanShape ==
  /\ Plan \in Seq(PlanItem) /\ Len(Plan) = 3 + NC + NB + NB
  /\ Plan[1] = [kind |-> "database", key |-> "database", name |-> "database"]
  /\ Plan[2] = [kind |-> "collection", key |-> "collection", name |-> "collection"]
  /\ Plan[3] = [kind |-> "cards", key |-> "cards", name |-> "cards"]
  /\ \A i \in 4 .. 3 + NC : Plan[i] = Item("card", CardSeq[i - 3])
  /\ \A i \in 4 + NC .. 3 + NC + NB : Plan[i] = Item("dashboard", BoardSeq[i - 3 - NC])
  /\ \A i \in 4 + NC + NB .. 3 + NC + NB + NB : Plan[i] = Item("fill", BoardSeq[i - 3 - NC - NB])
<1> DEFINE one(kind) == [kind |-> kind, key |-> kind, name |-> kind]
           H == Only("database") \o Only("collection") \o Only("cards")
           C == Items("card", CardSeq)
           D == Items("dashboard", BoardSeq)
           F == Items("fill", BoardSeq)
<1>1. NC \in Nat /\ NB \in Nat
  BY SpecsAreSequences
<1>2. H \in Seq(PlanItem) /\ Len(H) = 3 /\ H[1] = one("database") /\ H[2] = one("collection") /\ H[3] = one("cards")
  <2>1. one("database") \in PlanItem /\ one("collection") \in PlanItem /\ one("cards") \in PlanItem
    BY DEF PlanItem, ThingKinds, AllKeys, AllNames
  <2> DEFINE a == Only("database")
             b == Only("collection")
             c == Only("cards")
  <2>2. a = <<one("database")>> /\ b = <<one("collection")>> /\ c = <<one("cards")>> /\ H = (a \o b) \o c
    BY DEF Only
  <2> HIDE DEF H, a, b, c, one
  <2>3. /\ a \in Seq(PlanItem) /\ Len(a) = 1 /\ a[1] = one("database")
        /\ b \in Seq(PlanItem) /\ Len(b) = 1 /\ b[1] = one("collection")
        /\ c \in Seq(PlanItem) /\ Len(c) = 1 /\ c[1] = one("cards")
    BY <2>1, <2>2
  <2> DEFINE ab == a \o b
  <2>4. ab \in Seq(PlanItem) /\ Len(ab) = 2 /\ ab[1] = a[1] /\ ab[2] = b[1]
    <3>1. /\ ab \in Seq(PlanItem) /\ Len(ab) = Len(a) + Len(b)
          /\ \A i \in 1 .. Len(a) : ab[i] = a[i]
          /\ \A i \in Len(a) + 1 .. Len(a) + Len(b) : ab[i] = b[i - Len(a)]
      BY <2>3, Joined
    <3> HIDE DEF ab
    <3> QED
      BY <2>3, <3>1
  <2>5. H = ab \o c
    BY <2>2
  <2> HIDE DEF ab
  <2>6. /\ ab \o c \in Seq(PlanItem) /\ Len(ab \o c) = Len(ab) + Len(c)
        /\ \A i \in 1 .. Len(ab) : (ab \o c)[i] = ab[i]
        /\ \A i \in Len(ab) + 1 .. Len(ab) + Len(c) : (ab \o c)[i] = c[i - Len(ab)]
    BY <2>3, <2>4, Joined
  <2>7. H \in Seq(PlanItem) /\ Len(H) = 3 /\ H[1] = ab[1] /\ H[2] = ab[2] /\ H[3] = c[1]
    BY <2>3, <2>4, <2>5, <2>6
  <2> QED
    BY <2>3, <2>4, <2>7
<1>3. C \in Seq(PlanItem) /\ Len(C) = NC /\ \A i \in 1 .. NC : C[i] = Item("card", CardSeq[i])
  BY ItemsOf DEF ThingKinds, NC
<1>4. D \in Seq(PlanItem) /\ Len(D) = NB /\ \A i \in 1 .. NB : D[i] = Item("dashboard", BoardSeq[i])
  BY ItemsOf DEF ThingKinds, NB
<1>5. F \in Seq(PlanItem) /\ Len(F) = NB /\ \A i \in 1 .. NB : F[i] = Item("fill", BoardSeq[i])
  BY ItemsOf DEF ThingKinds, NB
<1>6. Plan = ((H \o C) \o D) \o F
  BY DEF Plan
<1> HIDE DEF H, C, D, F
<1> DEFINE HC == H \o C
           HD == HC \o D
<1>7. /\ HC \in Seq(PlanItem) /\ Len(HC) = 3 + NC
      /\ \A i \in 1 .. 3 : HC[i] = H[i]
      /\ \A i \in 4 .. 3 + NC : HC[i] = C[i - 3]
  <2>1. /\ HC \in Seq(PlanItem) /\ Len(HC) = Len(H) + Len(C)
        /\ \A i \in 1 .. Len(H) : HC[i] = H[i]
        /\ \A i \in Len(H) + 1 .. Len(H) + Len(C) : HC[i] = C[i - Len(H)]
    BY <1>2, <1>3, Joined, ZenonT(40)
  <2> HIDE DEF HC
  <2> QED
    BY <1>1, <1>2, <1>3, <2>1
<1> HIDE DEF HC
<1>8. /\ HD \in Seq(PlanItem) /\ Len(HD) = 3 + NC + NB
      /\ \A i \in 1 .. 3 + NC : HD[i] = HC[i]
      /\ \A i \in 4 + NC .. 3 + NC + NB : HD[i] = D[i - (3 + NC)]
  <2>1. /\ HD \in Seq(PlanItem) /\ Len(HD) = Len(HC) + Len(D)
        /\ \A i \in 1 .. Len(HC) : HD[i] = HC[i]
        /\ \A i \in Len(HC) + 1 .. Len(HC) + Len(D) : HD[i] = D[i - Len(HC)]
    BY <1>4, <1>7, Joined, ZenonT(40)
  <2> HIDE DEF HD
  <2>2. Len(HC) = 3 + NC /\ Len(D) = NB /\ (3 + NC) + 1 = 4 + NC
    BY <1>1, <1>4, <1>7
  <2> QED
    BY <2>1, <2>2
<1> HIDE DEF HD
<1>9. /\ Plan \in Seq(PlanItem) /\ Len(Plan) = 3 + NC + NB + NB
      /\ \A i \in 1 .. 3 + NC + NB : Plan[i] = HD[i]
      /\ \A i \in 4 + NC + NB .. 3 + NC + NB + NB : Plan[i] = F[i - (3 + NC + NB)]
  <2>1. Plan = HD \o F
    BY <1>6 DEF HD, HC
  <2>2. /\ HD \o F \in Seq(PlanItem) /\ Len(HD \o F) = Len(HD) + Len(F)
        /\ \A i \in 1 .. Len(HD) : (HD \o F)[i] = HD[i]
        /\ \A i \in Len(HD) + 1 .. Len(HD) + Len(F) : (HD \o F)[i] = F[i - Len(HD)]
    BY <1>5, <1>8, Joined
  <2>3. Len(HD) = 3 + NC + NB /\ Len(F) = NB /\ (3 + NC + NB) + 1 = 4 + NC + NB
    BY <1>1, <1>5, <1>8
  <2> QED
    BY <2>1, <2>2, <2>3
<1>10. Plan[1] = one("database") /\ Plan[2] = one("collection") /\ Plan[3] = one("cards")
  <2>1. \A i \in 1 .. 3 : Plan[i] = H[i]
    BY <1>1, <1>7, <1>8, <1>9
  <2> QED
    BY <1>2, <2>1
<1>11. ASSUME NEW i \in 4 .. 3 + NC PROVE Plan[i] = Item("card", CardSeq[i - 3])
  <2>1. i \in 1 .. 3 + NC /\ i \in 1 .. 3 + NC + NB /\ i - 3 \in 1 .. NC
    BY <1>1
  <2> QED
    BY <1>3, <1>7, <1>8, <1>9, <2>1, SMTT(30)
<1>12. ASSUME NEW i \in 4 + NC .. 3 + NC + NB PROVE Plan[i] = Item("dashboard", BoardSeq[i - 3 - NC])
  <2>1. i \in 1 .. 3 + NC + NB /\ i - 3 - NC \in 1 .. NB /\ i - (3 + NC) = i - 3 - NC
    BY <1>1
  <2> QED
    BY <1>4, <1>8, <1>9, <2>1, SMTT(30)
<1>13. ASSUME NEW i \in 4 + NC + NB .. 3 + NC + NB + NB PROVE Plan[i] = Item("fill", BoardSeq[i - 3 - NC - NB])
  <2>1. i - 3 - NC - NB \in 1 .. NB /\ i - (3 + NC + NB) = i - 3 - NC - NB
    BY <1>1
  <2> QED
    BY <1>5, <1>9, <2>1
<1> QED
  BY <1>9, <1>10, <1>11, <1>12, <1>13

PlanEnd == Len(Plan)

\* The order of the plan, as far as anything rests on it: one database, one collection, one
\* listing of the cards, then each card, each dashboard, each filling; nothing is
\* planned twice; a dashboard is filled under the name it was created by.
LEMMA PlanOrder ==
  /\ PlanEnd \in Nat /\ PlanEnd >= 3
  /\ \A i \in 1 .. PlanEnd : Plan[i] \in PlanItem
  /\ Plan[1] = [kind |-> "database", key |-> "database", name |-> "database"]
  /\ Plan[2] = [kind |-> "collection", key |-> "collection", name |-> "collection"]
  /\ Plan[3].kind = "cards"
  /\ \A i \in 4 .. PlanEnd : Plan[i].kind \in {"card", "dashboard", "fill"}
  /\ \A i \in 4 .. PlanEnd : Plan[i].kind = "card" => Plan[i - 1].kind \in {"cards", "card"}
  /\ \A i, j \in 1 .. PlanEnd : Plan[i].kind = "fill" /\ Plan[j].kind # "fill" => j < i
  /\ \A i, j \in 1 .. PlanEnd : Plan[i].kind = Plan[j].kind /\ i # j =>
        Plan[i].key # Plan[j].key /\ Plan[i].name # Plan[j].name
  /\ \A i, j \in 1 .. PlanEnd : Plan[i].kind = "fill" /\ Plan[j].kind = "dashboard" =>
        (Plan[i].key = Plan[j].key <=> Plan[i].name = Plan[j].name)
  /\ \A c \in DOMAIN CardSeq : \E i \in 1 .. PlanEnd : Plan[i] = Item("card", CardSeq[c])
  /\ \A b \in DOMAIN BoardSeq : \E i \in 1 .. PlanEnd : Plan[i] = Item("dashboard", BoardSeq[b])
  /\ \A b \in DOMAIN BoardSeq : \E i \in 1 .. PlanEnd : Plan[i] = Item("fill", BoardSeq[b])
  /\ \A i \in 1 .. PlanEnd : Plan[i].kind = "fill" => \E j \in 1 .. PlanEnd :
        Plan[j].kind = "dashboard" /\ Plan[j].key = Plan[i].key /\ Plan[j].name = Plan[i].name
<1> DEFINE cards  == 4 .. 3 + NC
           boards == 4 + NC .. 3 + NC + NB
           fills  == 4 + NC + NB .. 3 + NC + NB + NB
<1>1. /\ NC \in Nat /\ NB \in Nat /\ PlanEnd = 3 + NC + NB + NB
      /\ DOMAIN CardSeq = 1 .. NC /\ DOMAIN BoardSeq = 1 .. NB
  BY SpecsAreSequences, PlanShape DEF PlanEnd
<1>2. /\ Plan[1] = [kind |-> "database", key |-> "database", name |-> "database"]
      /\ Plan[2] = [kind |-> "collection", key |-> "collection", name |-> "collection"]
      /\ Plan[3].kind = "cards"
  BY PlanShape
<1>3. \A i \in cards : i - 3 \in 1 .. NC /\ Plan[i] = Item("card", CardSeq[i - 3])
  BY <1>1, PlanShape
<1>4. \A i \in boards : i - 3 - NC \in 1 .. NB /\ Plan[i] = Item("dashboard", BoardSeq[i - 3 - NC])
  BY <1>1, PlanShape
<1>5. \A i \in fills : i - 3 - NC - NB \in 1 .. NB /\ Plan[i] = Item("fill", BoardSeq[i - 3 - NC - NB])
  BY <1>1, PlanShape
<1>6. 1 .. PlanEnd = {1, 2, 3} \cup cards \cup boards \cup fills /\ 4 .. PlanEnd = cards \cup boards \cup fills
  BY <1>1
<1>7. /\ \A i \in cards : Plan[i].kind = "card" /\ Plan[i].key = CardSeq[i - 3].key /\ Plan[i].name = CardSeq[i - 3].name
      /\ \A i \in boards : /\ Plan[i].kind = "dashboard" /\ Plan[i].key = BoardSeq[i - 3 - NC].key
                           /\ Plan[i].name = BoardSeq[i - 3 - NC].name
      /\ \A i \in fills : /\ Plan[i].kind = "fill" /\ Plan[i].key = BoardSeq[i - 3 - NC - NB].key
                          /\ Plan[i].name = BoardSeq[i - 3 - NC - NB].name
  <2>1. \A kind, s : Item(kind, s).kind = kind /\ Item(kind, s).key = s.key /\ Item(kind, s).name = s.name
    BY DEF Item
  <2> QED
    BY <1>3, <1>4, <1>5, <2>1
<1>8. /\ \A i, j \in 1 .. NC : i # j => CardSeq[i].key # CardSeq[j].key /\ CardSeq[i].name # CardSeq[j].name
      /\ \A i, j \in 1 .. NB : i # j => BoardSeq[i].key # BoardSeq[j].key /\ BoardSeq[i].name # BoardSeq[j].name
  BY <1>1, NamesAssumption
<1>9. \A i \in 1 .. PlanEnd : Plan[i] \in PlanItem
  BY <1>1, PlanShape
<1>10. \A i \in 4 .. PlanEnd : Plan[i].kind \in {"card", "dashboard", "fill"}
  BY <1>6, <1>7
<1>11. ASSUME NEW i \in 4 .. PlanEnd, Plan[i].kind = "card" PROVE Plan[i - 1].kind \in {"cards", "card"}
  <2>1. i \in cards
    BY <1>6, <1>7, <1>11
  <2>2. i = 4 \/ i - 1 \in cards
    BY <1>1, <2>1
  <2> QED
    BY <1>2, <1>7, <2>2
<1>12. ASSUME NEW i \in 1 .. PlanEnd, NEW j \in 1 .. PlanEnd, Plan[i].kind = "fill", Plan[j].kind # "fill" PROVE j < i
  <2>1. i \in fills /\ j \in {1, 2, 3} \cup cards \cup boards
    BY <1>2, <1>6, <1>7, <1>12
  <2> QED
    BY <1>1, <2>1
<1>13. ASSUME NEW i \in 1 .. PlanEnd, NEW j \in 1 .. PlanEnd, Plan[i].kind = Plan[j].kind, i # j
       PROVE  Plan[i].key # Plan[j].key /\ Plan[i].name # Plan[j].name
  <2>1. \/ i \in cards /\ j \in cards
        \/ i \in boards /\ j \in boards
        \/ i \in fills /\ j \in fills
    BY <1>2, <1>6, <1>7, <1>13
  <2>2. CASE i \in cards /\ j \in cards
    <3>1. i - 3 \in 1 .. NC /\ j - 3 \in 1 .. NC /\ i - 3 # j - 3
      BY <1>1, <1>13, <2>2
    <3> QED
      BY <1>7, <1>8, <2>2, <3>1
  <2>3. CASE i \in boards /\ j \in boards
    <3>1. i - 3 - NC \in 1 .. NB /\ j - 3 - NC \in 1 .. NB /\ i - 3 - NC # j - 3 - NC
      BY <1>1, <1>13, <2>3
    <3> QED
      BY <1>7, <1>8, <2>3, <3>1
  <2>4. CASE i \in fills /\ j \in fills
    <3>1. i - 3 - NC - NB \in 1 .. NB /\ j - 3 - NC - NB \in 1 .. NB /\ i - 3 - NC - NB # j - 3 - NC - NB
      BY <1>1, <1>13, <2>4
    <3> QED
      BY <1>7, <1>8, <2>4, <3>1
  <2> QED
    BY <2>1, <2>2, <2>3, <2>4
<1>14. ASSUME NEW i \in 1 .. PlanEnd, NEW j \in 1 .. PlanEnd, Plan[i].kind = "fill", Plan[j].kind = "dashboard"
       PROVE  Plan[i].key = Plan[j].key <=> Plan[i].name = Plan[j].name
  <2>1. i \in fills /\ j \in boards
    BY <1>2, <1>6, <1>7, <1>14
  <2> DEFINE k == i - 3 - NC - NB
             l == j - 3 - NC
  <2>2. /\ k \in 1 .. NB /\ Plan[i].key = BoardSeq[k].key /\ Plan[i].name = BoardSeq[k].name
        /\ l \in 1 .. NB /\ Plan[j].key = BoardSeq[l].key /\ Plan[j].name = BoardSeq[l].name
    BY <1>4, <1>5, <1>7, <2>1
  <2> HIDE DEF k, l
  <2> QED
    BY <1>8, <2>2
<1>15. ASSUME NEW c \in DOMAIN CardSeq PROVE \E i \in 1 .. PlanEnd : Plan[i] = Item("card", CardSeq[c])
  <2>1. c + 3 \in cards /\ c + 3 \in 1 .. PlanEnd /\ (c + 3) - 3 = c
    BY <1>1, SMTT(30)
  <2> QED
    BY <1>3, <2>1
<1>16. ASSUME NEW b \in DOMAIN BoardSeq PROVE \E i \in 1 .. PlanEnd : Plan[i] = Item("dashboard", BoardSeq[b])
  <2>1. b + 3 + NC \in boards /\ b + 3 + NC \in 1 .. PlanEnd /\ (b + 3 + NC) - 3 - NC = b
    BY <1>1, SMTT(30)
  <2> QED
    BY <1>4, <2>1
<1>17. ASSUME NEW b \in DOMAIN BoardSeq PROVE \E i \in 1 .. PlanEnd : Plan[i] = Item("fill", BoardSeq[b])
  <2>1. b + 3 + NC + NB \in fills /\ b + 3 + NC + NB \in 1 .. PlanEnd /\ (b + 3 + NC + NB) - 3 - NC - NB = b
    BY <1>1
  <2> QED
    BY <1>5, <2>1
<1>18. ASSUME NEW i \in 1 .. PlanEnd, Plan[i].kind = "fill"
       PROVE  \E j \in 1 .. PlanEnd : Plan[j].kind = "dashboard" /\ Plan[j].key = Plan[i].key /\ Plan[j].name = Plan[i].name
  <2>1. i \in fills
    BY <1>2, <1>6, <1>7, <1>18
  <2>2. i - 3 - NC - NB \in DOMAIN BoardSeq
    BY <1>1, <1>5, <2>1
  <2>3. PICK j \in 1 .. PlanEnd : Plan[j] = Item("dashboard", BoardSeq[i - 3 - NC - NB])
    BY <1>16, <2>2
  <2> QED
    BY <1>7, <2>1, <2>3 DEF Item
<1>19. PlanEnd \in Nat /\ PlanEnd >= 3
  BY <1>1
<1> HIDE DEF cards, boards, fills
<1>20. \A i \in 4 .. PlanEnd : Plan[i].kind = "card" => Plan[i - 1].kind \in {"cards", "card"}
  BY <1>11
<1>21. \A i, j \in 1 .. PlanEnd : Plan[i].kind = "fill" /\ Plan[j].kind # "fill" => j < i
  BY <1>12
<1>22. \A i, j \in 1 .. PlanEnd : Plan[i].kind = Plan[j].kind /\ i # j =>
         Plan[i].key # Plan[j].key /\ Plan[i].name # Plan[j].name
  BY <1>13
<1>23. \A i, j \in 1 .. PlanEnd : Plan[i].kind = "fill" /\ Plan[j].kind = "dashboard" =>
         (Plan[i].key = Plan[j].key <=> Plan[i].name = Plan[j].name)
  BY <1>14
<1>24. \A c \in DOMAIN CardSeq : \E i \in 1 .. PlanEnd : Plan[i] = Item("card", CardSeq[c])
  BY <1>15
<1>25. \A b \in DOMAIN BoardSeq : \E i \in 1 .. PlanEnd : Plan[i] = Item("dashboard", BoardSeq[b])
  BY <1>16
<1>26. \A b \in DOMAIN BoardSeq : \E i \in 1 .. PlanEnd : Plan[i] = Item("fill", BoardSeq[b])
  BY <1>17
<1>27. \A i \in 1 .. PlanEnd : Plan[i].kind = "fill" => \E j \in 1 .. PlanEnd :
         Plan[j].kind = "dashboard" /\ Plan[j].key = Plan[i].key /\ Plan[j].name = Plan[i].name
  BY <1>18
<1> QED
  BY <1>2, <1>9, <1>10, <1>19, <1>20, <1>21, <1>22, <1>23, <1>24, <1>25, <1>26, <1>27, Zenon

-----------------------------------------------------------------------------
(* Provision: the inductive invariant.                                      *)

Thing   == [id : Nat, kind : ThingKinds, name : AllNames, parent : Nat, version : Nat,
            cards : SUBSET Nat, links : SUBSET Nat]
Worker  == [pc : {"idle", "login", "list", "put", "done"}, version : Nat, at : 1 .. PlanEnd + 1,
            listed : SUBSET [id : Nat, name : AllNames], ids : SUBSET [kind : ThingKinds, key : AllKeys, id : Nat]]

ProvisionTypeOK ==
    /\ spec \in Nat /\ user \in BOOLEAN /\ starts \in Nat
    /\ objects \subseteq Thing /\ IsFiniteSet(objects)
    /\ run \in Worker

\* A run knows nothing before its first item, and is done after its last.
RunIsOrderly ==
    /\ run.pc \in {"idle", "login"} => run.at = 1 /\ run.ids = {}
    /\ run.pc = "done" <=> run.at = PlanEnd + 1
    /\ run.pc = "list" => Plan[run.at].kind \in {"database", "collection", "cards", "dashboard"}
    /\ run.pc = "put" => Plan[run.at].kind # "cards"

Alike(o, p) == o.id = p.id /\ o.kind = p.kind /\ o.name = p.name

\* An id, and a name among things of one kind, is taken once.
ThingsAreOnce ==
    /\ \A o \in objects : o.id <= Cardinality(objects)
    /\ \A o, p \in objects : o.id = p.id \/ (o.kind = p.kind /\ o.name = p.name) => o = p

\* Cards and dashboards are in the one collection, where a listing finds them.
ParentsStand ==
    /\ \A o \in objects : o.kind \in {"database", "collection"} => o.name = o.kind /\ o.parent = 0
    /\ \A o \in objects : o.kind \in {"card", "dashboard"} =>
          \E c \in objects : c.kind = "collection" /\ o.parent = c.id

\* What a run knows is there under the name it was planned by, and a run knows everything
\* it has done.
IdsStand ==
    /\ \A e \in run.ids : \E j \in 1 .. PlanEnd, o \in objects :
          /\ j < run.at /\ Plan[j].kind = e.kind /\ Plan[j].key = e.key
          /\ o.id = e.id /\ o.kind = e.kind /\ o.name = Plan[j].name
    /\ \A j \in 1 .. PlanEnd : j < run.at /\ Plan[j].kind \in ThingKinds =>
          \E e \in run.ids : e.kind = Plan[j].kind /\ e.key = Plan[j].key

\* What a run has listed is there, and holds everything the items ahead may find. The
\* cards are listed once, before the first, and what is created since is not looked for again.
ListingStands ==
    run.pc = "put" /\ Plan[run.at].kind # "fill" =>
        /\ \A e \in run.listed : \E o \in objects :
              o.id = e.id /\ o.name = e.name /\ o.kind = Plan[run.at].kind
        /\ \A j \in 1 .. PlanEnd : j >= run.at /\ Plan[j].kind = Plan[run.at].kind =>
              \A o \in objects : o.kind = Plan[j].kind /\ o.name = Plan[j].name =>
                  \E e \in run.listed : e.id = o.id /\ e.name = o.name

\* Cards the run has been at are as it specifies them, dashboards it has filled hold what it says.
CardsAreCurrent ==
    \A j \in 1 .. PlanEnd : j < run.at /\ Plan[j].kind = "card" =>
        \A o \in objects : o.kind = "card" /\ o.name = Plan[j].name => o.version = run.version
BoardsAreFilled ==
    \A j \in 1 .. PlanEnd : j < run.at /\ Plan[j].kind = "fill" =>
        \A o \in objects : o.kind = "dashboard" /\ o.name = Plan[j].name =>
            /\ o.version = run.version
            /\ o.cards = UNION {IdsOf("card", c) : c \in Shows[Plan[j].key]}
            /\ o.links = UNION {IdsOf("dashboard", b) : b \in LinksTo[Plan[j].key]}

ProvisionInv ==
    /\ ProvisionTypeOK /\ RunIsOrderly /\ ThingsAreOnce /\ ParentsStand /\ IdsStand /\ ListingStands
    /\ CardsAreCurrent /\ BoardsAreFilled

-----------------------------------------------------------------------------
(* Provision: what the invariant says of a run on its way.                  *)

LEMMA Advanced ==
  ASSUME NEW r \in Worker, r.at \in 1 .. PlanEnd
  PROVE  /\ Advance(r) \in Worker
         /\ Advance(r).at = r.at + 1 /\ Advance(r).version = r.version
         /\ Advance(r).listed = r.listed /\ Advance(r).ids = r.ids
         /\ Advance(r).pc \in {"list", "put", "done"}
         /\ Advance(r).pc = "done" <=> r.at = PlanEnd
         /\ Advance(r).pc = "list" => r.at + 1 \in 1 .. PlanEnd /\ Plan[r.at + 1].kind \notin {"card", "fill"}
         /\ Advance(r).pc = "put" => r.at + 1 \in 1 .. PlanEnd /\ Plan[r.at + 1].kind \in {"card", "fill"}
<1> DEFINE pc == IF r.at = PlanEnd THEN "done" ELSE IF Plan[r.at + 1].kind \in {"card", "fill"} THEN "put" ELSE "list"
<1>1. PlanEnd \in Nat
  BY PlanOrder
<1>2. Advance(r) = [r EXCEPT !.at = r.at + 1, !.pc = pc]
  BY DEF Advance, PlanEnd
<1>3. /\ pc \in {"list", "put", "done"}
      /\ pc = "done" <=> r.at = PlanEnd
      /\ pc = "list" => r.at + 1 \in 1 .. PlanEnd /\ Plan[r.at + 1].kind \notin {"card", "fill"}
      /\ pc = "put" => r.at + 1 \in 1 .. PlanEnd /\ Plan[r.at + 1].kind \in {"card", "fill"}
  BY <1>1
<1> HIDE DEF pc
<1>4. r.at + 1 \in 1 .. PlanEnd + 1
  BY <1>1
<1> QED
  BY <1>2, <1>3, <1>4 DEF Worker

\* What the run has been at is there once, and the run knows its id and no other for it.
LEMMA KnownOne ==
  ASSUME ProvisionTypeOK, ThingsAreOnce, IdsStand, NEW j \in 1 .. PlanEnd, j < run.at, Plan[j].kind \in ThingKinds
  PROVE  \E o \in objects :
           /\ o.kind = Plan[j].kind /\ o.name = Plan[j].name
           /\ IdsOf(Plan[j].kind, Plan[j].key) = {o.id}
           /\ \A p \in objects : p.kind = Plan[j].kind /\ p.name = Plan[j].name => p = o
<1>1. PICK e \in run.ids : e.kind = Plan[j].kind /\ e.key = Plan[j].key
  BY DEF IdsStand
<1>2. ASSUME NEW g \in run.ids, g.kind = Plan[j].kind, g.key = Plan[j].key
      PROVE  \E o \in objects : o.id = g.id /\ o.kind = Plan[j].kind /\ o.name = Plan[j].name
  <2>1. PICK i \in 1 .. PlanEnd, o \in objects : /\ Plan[i].kind = g.kind /\ Plan[i].key = g.key
                                              /\ o.id = g.id /\ o.kind = g.kind /\ o.name = Plan[i].name
    BY DEF IdsStand
  <2>2. i = j
    BY <1>2, <2>1, PlanOrder
  <2> QED
    BY <1>2, <2>1, <2>2
<1>3. PICK o \in objects : o.id = e.id /\ o.kind = Plan[j].kind /\ o.name = Plan[j].name
  BY <1>1, <1>2
<1>4. \A p \in objects : p.kind = Plan[j].kind /\ p.name = Plan[j].name => p = o
  BY <1>3 DEF ThingsAreOnce
<1>5. \A g \in run.ids : g.kind = Plan[j].kind /\ g.key = Plan[j].key => g.id = o.id
  BY <1>2, <1>4
<1>6. IdsOf(Plan[j].kind, Plan[j].key) = {o.id}
  BY <1>1, <1>3, <1>5 DEF IdsOf
<1> QED
  BY <1>3, <1>4, <1>6

LEMMA CollectionKnown ==
  ASSUME ProvisionTypeOK, ThingsAreOnce, ParentsStand, IdsStand, run.at > 2
  PROVE  \E c \in objects :
           /\ c.kind = "collection" /\ ParentOf("card") = c.id /\ ParentOf("dashboard") = c.id
           /\ \A o \in objects : o.kind \in {"card", "dashboard"} => o.parent = c.id
<1>1. 2 \in 1 .. PlanEnd /\ 2 < run.at /\ Plan[2].kind = "collection" /\ Plan[2].key = "collection"
  BY PlanOrder DEF ProvisionTypeOK, Worker
<1>2. PICK c \in objects : /\ c.kind = "collection" /\ c.name = Plan[2].name
                           /\ IdsOf("collection", "collection") = {c.id}
  BY <1>1, KnownOne DEF ThingKinds
<1>3. ParentOf("card") = c.id /\ ParentOf("dashboard") = c.id
  BY <1>2 DEF ParentOf
<1>4. \A p \in objects : p.kind = "collection" => p = c
  BY <1>2 DEF ParentsStand, ThingsAreOnce
<1> QED
  BY <1>2, <1>3, <1>4 DEF ParentsStand

\* A listing finds everything of its kind.
LEMMA AllListed ==
  ASSUME ProvisionInv, run.pc = "list"
  PROVE  /\ run.at \in 1 .. PlanEnd /\ KindOf(Current) \in ThingKinds
         /\ \A o \in objects : o.kind = KindOf(Current) => o.parent = ParentOf(KindOf(Current))
<1>1. run.at \in 1 .. PlanEnd
  BY PlanOrder DEF ProvisionInv, ProvisionTypeOK, Worker, RunIsOrderly
<1>2. Plan[run.at].kind \in {"database", "collection", "cards", "dashboard"}
  BY DEF ProvisionInv, RunIsOrderly
<1>3. KindOf(Current) \in {"database", "collection", "card", "dashboard"}
  BY <1>2 DEF KindOf, Current
<1>4. CASE KindOf(Current) \in {"database", "collection"}
  <2>1. ParentOf(KindOf(Current)) = 0
    BY <1>4 DEF ParentOf
  <2> QED
    BY <1>1, <1>3, <1>4, <2>1 DEF ProvisionInv, ParentsStand, ThingKinds
<1>5. CASE KindOf(Current) \in {"card", "dashboard"}
  <2>1. Plan[run.at].kind \in {"cards", "card", "dashboard"}
    BY <1>5 DEF KindOf, Current
  <2>2. run.at > 2
    BY <1>1, <2>1, PlanOrder
  <2>3. PICK c \in objects : /\ ParentOf("card") = c.id /\ ParentOf("dashboard") = c.id
                             /\ \A o \in objects : o.kind \in {"card", "dashboard"} => o.parent = c.id
    BY <2>2, CollectionKnown DEF ProvisionInv
  <2> QED
    BY <1>1, <1>3, <1>5, <2>3 DEF ThingKinds
<1> QED
  BY <1>3, <1>4, <1>5

-----------------------------------------------------------------------------
(* Provision: steps.                                                        *)

\* A run that knows nothing asks for nothing but what Metabase holds.
LEMMA AtRest ==
  ASSUME ProvisionTypeOK', ThingsAreOnce', ParentsStand',
         run'.pc \in {"idle", "login", "list"}, run'.at = 1, run'.ids = {}
  PROVE  ProvisionInv'
<1>1. PlanEnd \in Nat /\ PlanEnd >= 3 /\ Plan[1].kind = "database" /\ \A j \in 1 .. PlanEnd : ~(j < 1)
  BY PlanOrder
<1>2. RunIsOrderly'
  BY <1>1 DEF RunIsOrderly
<1>3. IdsStand' /\ CardsAreCurrent' /\ BoardsAreFilled'
  BY <1>1 DEF IdsStand, CardsAreCurrent, BoardsAreFilled
<1>4. ListingStands'
  BY DEF ListingStands
<1> QED
  BY <1>2, <1>3, <1>4 DEF ProvisionInv

\* What changes no id, name, kind or place makes no second copy.
LEMMA Renewed ==
  ASSUME ProvisionTypeOK, ThingsAreOnce, ParentsStand, NEW f \in [objects -> Thing],
         \A o \in objects : f[o].id = o.id /\ f[o].kind = o.kind /\ f[o].name = o.name /\ f[o].parent = o.parent,
         objects' = {f[o] : o \in objects}
  PROVE  objects' \subseteq Thing /\ IsFiniteSet(objects') /\ ThingsAreOnce' /\ ParentsStand'
<1>1. objects' \subseteq Thing
  OBVIOUS
<1>2. f \in Bijection(objects, objects')
  <2>1. f \in [objects -> objects']
    OBVIOUS
  <2>2. \A o, p \in objects : f[o] = f[p] => o = p
    BY DEF ThingsAreOnce
  <2>3. \A q \in objects' : \E o \in objects : f[o] = q
    OBVIOUS
  <2> QED
    BY <2>1, <2>2, <2>3 DEF Bijection, Injection, Surjection, IsInjective
<1>3. IsFiniteSet(objects') /\ Cardinality(objects') = Cardinality(objects)
  BY <1>2, FS_Bijection DEF ProvisionTypeOK, ExistsBijection
<1>4. ThingsAreOnce'
  <2>1. \A q \in objects' : q.id <= Cardinality(objects')
    BY <1>3 DEF ThingsAreOnce
  <2>2. \A o, p \in objects : f[o].id = f[p].id \/ (f[o].kind = f[p].kind /\ f[o].name = f[p].name) => f[o] = f[p]
    BY DEF ThingsAreOnce
  <2> QED
    BY <2>1, <2>2 DEF ThingsAreOnce
<1>5. ParentsStand'
  <2>1. \A q \in objects' : q.kind \in {"database", "collection"} => q.name = q.kind /\ q.parent = 0
    BY DEF ParentsStand
  <2>2. ASSUME NEW o \in objects, f[o].kind \in {"card", "dashboard"}
        PROVE  \E c \in objects' : c.kind = "collection" /\ f[o].parent = c.id
    <3>1. PICK c \in objects : c.kind = "collection" /\ o.parent = c.id
      BY <2>2 DEF ParentsStand
    <3>2. f[c] \in objects' /\ f[c].kind = "collection" /\ f[o].parent = f[c].id
      BY <3>1
    <3> QED
      BY <3>2
  <2> QED
    BY <2>1, <2>2 DEF ParentsStand
<1> QED
  BY <1>1, <1>3, <1>4, <1>5

\* An item's thing has been created or found: x holds it under the name the item has.
LEMMA Learnt ==
  ASSUME ProvisionInv, run.pc = "put", Plan[run.at].kind # "fill", NEW x \in objects',
         x.kind = Plan[run.at].kind, x.name = Plan[run.at].name, run' = Knows(run, Current, x.id),
         spec' \in Nat, user' \in BOOLEAN, starts' \in Nat, objects' \subseteq Thing, IsFiniteSet(objects'),
         ThingsAreOnce', ParentsStand',
         \A o \in objects : \E p \in objects' : Alike(o, p),
         \A p \in objects' : p = x \/ \E o \in objects : Alike(o, p),
         \A p \in objects' : p.version = run.version \/ p \in objects,
         x.kind = "card" => x.version = run.version
  PROVE  ProvisionInv'
<1> DEFINE at == run.at
           new == [kind |-> Plan[at].kind, key |-> Plan[at].key, id |-> x.id]
           r == [run EXCEPT !.ids = run.ids \cup {new}]
<1>1. run \in Worker /\ at \in 1 .. PlanEnd /\ Plan[at] \in PlanItem /\ Plan[at].kind \in ThingKinds
  <2>1. run \in Worker /\ at \in 1 .. PlanEnd
    BY PlanOrder DEF ProvisionInv, ProvisionTypeOK, Worker, RunIsOrderly
  <2>2. Plan[at].kind # "cards"
    BY DEF ProvisionInv, RunIsOrderly
  <2> QED
    BY <2>1, <2>2, PlanOrder DEF PlanItem, ThingKinds
<1>2. r \in Worker /\ r.at = at /\ r.version = run.version /\ r.listed = run.listed /\ r.ids = run.ids \cup {new}
  <2>1. new \in [kind : ThingKinds, key : AllKeys, id : Nat]
    BY <1>1 DEF PlanItem, Thing
  <2> HIDE DEF new
  <2> QED
    BY <1>1, <2>1 DEF Worker
<1>3. run' = Advance(r)
  BY DEF Knows, Current
<1> HIDE DEF r
<1>4. /\ run' \in Worker /\ run'.at = at + 1 /\ run'.version = run.version
      /\ run'.listed = run.listed /\ run'.ids = run.ids \cup {new}
      /\ run'.pc \in {"list", "put", "done"}
      /\ run'.pc = "done" <=> at = PlanEnd
      /\ run'.pc = "list" => at + 1 \in 1 .. PlanEnd /\ Plan[at + 1].kind \notin {"card", "fill"}
      /\ run'.pc = "put" => at + 1 \in 1 .. PlanEnd /\ Plan[at + 1].kind \in {"card", "fill"}
  BY <1>1, <1>2, <1>3, Advanced
<1>5. PlanEnd \in Nat /\ \A j \in 1 .. PlanEnd : j < at + 1 => j < at \/ j = at
  BY <1>1, PlanOrder
<1>6. ProvisionTypeOK'
  BY <1>4 DEF ProvisionTypeOK
<1>7. RunIsOrderly'
  <2>1. run'.pc = "done" <=> run'.at = PlanEnd + 1
    BY <1>1, <1>4, <1>5
  <2>2. run'.pc = "list" => Plan[run'.at].kind \in {"database", "collection", "cards", "dashboard"}
    BY <1>4, PlanOrder DEF PlanItem, ThingKinds
  <2>3. run'.pc = "put" => Plan[run'.at].kind # "cards"
    BY <1>4
  <2> QED
    BY <1>4, <2>1, <2>2, <2>3 DEF RunIsOrderly
<1>8. IdsStand'
  <2>1. ASSUME NEW e \in run'.ids
        PROVE  \E j \in 1 .. PlanEnd, p \in objects' : /\ j < run'.at /\ Plan[j].kind = e.kind /\ Plan[j].key = e.key
                                                    /\ p.id = e.id /\ p.kind = e.kind /\ p.name = Plan[j].name
    <3>1. CASE e = new
      <4>1. at < run'.at
        BY <1>1, <1>4
      <4> QED
        BY <1>1, <3>1, <4>1
    <3>2. CASE e \in run.ids
      <4>1. PICK j \in 1 .. PlanEnd, o \in objects : /\ j < at /\ Plan[j].kind = e.kind /\ Plan[j].key = e.key
                                                  /\ o.id = e.id /\ o.kind = e.kind /\ o.name = Plan[j].name
        BY <3>2 DEF ProvisionInv, IdsStand
      <4>2. PICK p \in objects' : Alike(o, p)
        OBVIOUS
      <4>3. j < run'.at
        BY <1>1, <1>4, <4>1
      <4>4. p.id = e.id /\ p.kind = e.kind /\ p.name = Plan[j].name
        BY <4>1, <4>2 DEF Alike
      <4> QED
        BY <4>1, <4>3, <4>4
    <3> QED
      BY <1>4, <3>1, <3>2
  <2>2. ASSUME NEW j \in 1 .. PlanEnd, j < run'.at, Plan[j].kind \in ThingKinds
        PROVE  \E e \in run'.ids : e.kind = Plan[j].kind /\ e.key = Plan[j].key
    <3>1. CASE j = at
      <4>1. new \in run'.ids /\ new.kind = Plan[j].kind /\ new.key = Plan[j].key
        BY <1>4, <3>1
      <4> QED
        BY <4>1
    <3>2. CASE j < at
      BY <1>4, <2>2, <3>2 DEF ProvisionInv, IdsStand
    <3> QED
      BY <1>4, <1>5, <2>2, <3>1, <3>2
  <2> QED
    BY <2>1, <2>2 DEF IdsStand
<1>9. ListingStands'
  <2> SUFFICES ASSUME run'.pc = "put", Plan[run'.at].kind # "fill"
               PROVE  /\ \A e \in run'.listed : \E p \in objects' :
                            p.id = e.id /\ p.name = e.name /\ p.kind = Plan[run'.at].kind
                      /\ \A j \in 1 .. PlanEnd : j >= run'.at /\ Plan[j].kind = Plan[run'.at].kind =>
                            \A p \in objects' : p.kind = Plan[j].kind /\ p.name = Plan[j].name =>
                                \E e \in run'.listed : e.id = p.id /\ e.name = p.name
    BY DEF ListingStands
  <2>1. Plan[run'.at].kind = "card" /\ Plan[at].kind = "card"
    <3>1. run'.at \in 1 .. PlanEnd /\ run'.at \in 4 .. PlanEnd /\ Plan[run'.at].kind = "card"
      BY <1>4, PlanOrder
    <3>2. Plan[run'.at - 1].kind \in {"cards", "card"}
      BY <3>1, PlanOrder
    <3>3. run'.at - 1 = at
      BY <1>1, <1>4
    <3> QED
      BY <1>1, <3>1, <3>2, <3>3 DEF ThingKinds
  <2>2. ASSUME NEW e \in run'.listed
        PROVE  \E p \in objects' : p.id = e.id /\ p.name = e.name /\ p.kind = Plan[run'.at].kind
    <3>1. PICK o \in objects : o.id = e.id /\ o.name = e.name /\ o.kind = Plan[at].kind
      BY <1>4, <2>2 DEF ProvisionInv, ListingStands
    <3>2. PICK p \in objects' : Alike(o, p)
      OBVIOUS
    <3> QED
      BY <2>1, <3>1, <3>2 DEF Alike
  <2>3. ASSUME NEW j \in 1 .. PlanEnd, j >= run'.at, Plan[j].kind = Plan[run'.at].kind,
               NEW p \in objects', p.kind = Plan[j].kind, p.name = Plan[j].name
        PROVE  \E e \in run'.listed : e.id = p.id /\ e.name = p.name
    <3>1. j # at /\ j >= at
      BY <1>1, <1>4, <2>3
    <3>2. Plan[j].name # Plan[at].name
      BY <1>1, <2>1, <2>3, <3>1, PlanOrder
    <3>3. PICK o \in objects : Alike(o, p)
      BY <2>3, <3>2
    <3>4. \E e \in run.listed : e.id = o.id /\ e.name = o.name
      BY <2>1, <2>3, <3>1, <3>3 DEF ProvisionInv, ListingStands, Alike
    <3> QED
      BY <1>4, <3>3, <3>4 DEF Alike
  <2> QED
    BY <2>2, <2>3
<1>10. CardsAreCurrent'
  <2> SUFFICES ASSUME NEW j \in 1 .. PlanEnd, j < run'.at, Plan[j].kind = "card",
                      NEW p \in objects', p.kind = "card", p.name = Plan[j].name
               PROVE  p.version = run'.version
    BY DEF CardsAreCurrent
  <2>1. CASE j = at
    <3>1. p = x
      BY <2>1 DEF ThingsAreOnce
    <3> QED
      BY <1>4, <3>1
  <2>2. CASE j < at
    <3>1. p \in objects => p.version = run.version
      BY <2>2 DEF ProvisionInv, CardsAreCurrent
    <3> QED
      BY <1>4, <3>1
  <2> QED
    BY <1>4, <1>5, <2>1, <2>2
<1>11. BoardsAreFilled'
  <2>1. \A j \in 1 .. PlanEnd : Plan[j].kind = "fill" => at < j
    BY <1>1, PlanOrder
  <2>2. \A j \in 1 .. PlanEnd : j < run'.at => Plan[j].kind # "fill"
    BY <1>1, <1>4, <1>5, <2>1
  <2> QED
    BY <2>2 DEF BoardsAreFilled
<1> QED
  BY <1>6, <1>7, <1>8, <1>9, <1>10, <1>11 DEF ProvisionInv

LEMMA CreateHolds == ProvisionInv /\ Create => ProvisionInv'
<1> SUFFICES ASSUME ProvisionInv, Create PROVE ProvisionInv'
  OBVIOUS
<1> DEFINE n == Cardinality(objects)
           x == [id |-> n + 1, kind |-> Plan[run.at].kind, name |-> Plan[run.at].name,
                 parent |-> ParentOf(Plan[run.at].kind), version |-> run.version, cards |-> {}, links |-> {}]
<1>1. /\ run.pc = "put" /\ Plan[run.at].kind # "fill" /\ Found = {} /\ objects' = objects \cup {x}
      /\ run' \in {Knows(run, Current, n + 1), Idle}
      /\ UNCHANGED <<spec, user, starts>>
  BY DEF Create, Current
<1>2. /\ ProvisionTypeOK /\ RunIsOrderly /\ ThingsAreOnce /\ ParentsStand /\ IdsStand /\ ListingStands
  BY DEF ProvisionInv
<1>3. run.at \in 1 .. PlanEnd /\ Plan[run.at] \in PlanItem /\ Plan[run.at].kind \in ThingKinds
  BY <1>1, <1>2, PlanOrder DEF ProvisionTypeOK, Worker, RunIsOrderly, PlanItem, ThingKinds
<1>4. n \in Nat
  BY <1>2, FS_CardinalityType DEF ProvisionTypeOK
<1>5. \/ /\ Plan[run.at].kind \in {"database", "collection"} /\ x.name = x.kind /\ x.parent = 0
      \/ /\ Plan[run.at].kind \in {"card", "dashboard"}
         /\ \E c \in objects : c.kind = "collection" /\ x.parent = c.id
  <2>1. CASE Plan[run.at].kind \in {"database", "collection"}
    <3>1. run.at \in {1, 2}
      BY <1>3, <2>1, PlanOrder
    <3> QED
      BY <2>1, <3>1, PlanOrder DEF ParentOf
  <2>2. CASE Plan[run.at].kind \in {"card", "dashboard"}
    <3>1. run.at > 2
      BY <1>3, <2>2, PlanOrder
    <3> QED
      BY <1>2, <2>2, <3>1, CollectionKnown
  <2> QED
    BY <1>3, <2>1, <2>2 DEF ThingKinds
<1>6. x \in Thing /\ x.id = n + 1 /\ x.kind = Plan[run.at].kind /\ x.name = Plan[run.at].name /\ x.version = run.version
  <2>1. x.parent \in Nat
    BY <1>2, <1>5 DEF ProvisionTypeOK, Thing
  <2>2. run.version \in Nat
    BY <1>2 DEF ProvisionTypeOK, Worker
  <2> QED
    BY <1>3, <1>4, <2>1, <2>2 DEF Thing, PlanItem
<1> HIDE DEF x
<1>7. objects' \subseteq Thing /\ IsFiniteSet(objects') /\ Cardinality(objects') = n + 1
  <2>1. x \notin objects
    BY <1>2, <1>4, <1>6 DEF ThingsAreOnce, ProvisionTypeOK, Thing
  <2> QED
    BY <1>1, <1>2, <1>6, <2>1, FS_AddElement DEF ProvisionTypeOK
<1>8. \A o \in objects : ~(o.kind = x.kind /\ o.name = x.name)
  <2> SUFFICES ASSUME NEW o \in objects, o.kind = x.kind, o.name = x.name PROVE FALSE
    OBVIOUS
  <2>1. run.at >= run.at
    BY <1>3
  <2>2. \E e \in run.listed : e.id = o.id /\ e.name = o.name
    BY <1>1, <1>2, <1>3, <1>6, <2>1 DEF ListingStands
  <2> QED
    BY <1>1, <1>6, <2>2 DEF Found, Current
<1>9. ThingsAreOnce'
  <2>1. \A o \in objects : o.id <= n + 1 /\ o.id # n + 1
    BY <1>2, <1>4 DEF ThingsAreOnce, ProvisionTypeOK, Thing
  <2> QED
    BY <1>1, <1>2, <1>4, <1>6, <1>7, <1>8, <2>1 DEF ThingsAreOnce
<1>10. ParentsStand'
  BY <1>1, <1>2, <1>5, <1>6 DEF ParentsStand
<1>11. spec' \in Nat /\ user' \in BOOLEAN /\ starts' \in Nat
  BY <1>1, <1>2 DEF ProvisionTypeOK
<1>12. CASE run' = Idle
  <2>1. Idle \in Worker
    BY PlanOrder DEF Idle, Worker
  <2>2. run'.pc = "idle" /\ run'.at = 1 /\ run'.ids = {}
    BY <1>12 DEF Idle
  <2>3. ProvisionTypeOK'
    BY <1>7, <1>11, <1>12, <2>1 DEF ProvisionTypeOK
  <2> QED
    BY <1>9, <1>10, <2>2, <2>3, AtRest
<1>13. CASE run' = Knows(run, Current, n + 1)
  <2>1. run' = Knows(run, Current, x.id) /\ x \in objects'
    BY <1>1, <1>6, <1>13
  <2>2. \A o \in objects : \E p \in objects' : Alike(o, p)
    BY <1>1 DEF Alike
  <2>3. \A p \in objects' : p = x \/ \E o \in objects : Alike(o, p)
    BY <1>1 DEF Alike
  <2>4. \A p \in objects' : p.version = run.version \/ p \in objects
    BY <1>1, <1>6
  <2> QED
    BY <1>1, <1>6, <1>7, <1>9, <1>10, <1>11, <2>1, <2>2, <2>3, <2>4, Learnt
<1> QED
  BY <1>1, <1>12, <1>13

LEMMA UpdateHolds == ProvisionInv /\ Update => ProvisionInv'
<1> SUFFICES ASSUME ProvisionInv, Update PROVE ProvisionInv'
  OBVIOUS
<1>1. run.pc = "put" /\ Plan[run.at].kind # "fill" /\ UNCHANGED <<spec, user, starts>>
  BY DEF Update, Current
<1>2. PICK id \in Found : objects' = {Updated(o, id) : o \in objects} /\ run' = Knows(run, Current, id)
  BY DEF Update
<1>3. ProvisionTypeOK /\ ThingsAreOnce /\ ParentsStand /\ ListingStands /\ run.version \in Nat
  BY DEF ProvisionInv, ProvisionTypeOK, Worker
<1> DEFINE f == [o \in objects |-> Updated(o, id)]
<1>4. ASSUME NEW o \in objects
      PROVE  /\ f[o] \in Thing /\ Alike(o, f[o]) /\ f[o].parent = o.parent
             /\ f[o].version = run.version \/ f[o] = o
             /\ o.id = id /\ o.kind = "card" => f[o].version = run.version
  <2>1. o \in Thing
    BY <1>3 DEF ProvisionTypeOK
  <2>2. CASE o.id = id /\ o.kind \in {"database", "card"}
    <3>1. f[o] = [o EXCEPT !.version = run.version]
      BY <2>2 DEF Updated
    <3> HIDE DEF f
    <3> QED
      BY <1>3, <2>1, <3>1 DEF Thing, Alike
  <2>3. CASE ~(o.id = id /\ o.kind \in {"database", "card"})
    <3>1. f[o] = o
      BY <2>3 DEF Updated
    <3> HIDE DEF f
    <3> QED
      BY <2>1, <2>3, <3>1 DEF Alike
  <2> QED
    BY <2>2, <2>3
<1>5. objects' = {f[o] : o \in objects}
  BY <1>2
<1>6. f \in [objects -> Thing]
  BY <1>4
<1> HIDE DEF f
<1>7. objects' \subseteq Thing /\ IsFiniteSet(objects') /\ ThingsAreOnce' /\ ParentsStand'
  BY <1>3, <1>4, <1>5, <1>6, Renewed DEF Alike
<1>8. PICK o \in objects : o.id = id /\ o.kind = Plan[run.at].kind /\ o.name = Plan[run.at].name
  <2>1. PICK e \in run.listed : e.id = id /\ e.name = Plan[run.at].name
    BY <1>2 DEF Found, Current
  <2> QED
    BY <1>1, <1>3, <2>1 DEF ListingStands
<1> DEFINE x == f[o]
<1>9. x \in objects' /\ x.id = id /\ x.kind = Plan[run.at].kind /\ x.name = Plan[run.at].name
  BY <1>4, <1>5, <1>8 DEF Alike
<1>10. x.kind = "card" => x.version = run.version
  BY <1>4, <1>8, <1>9
<1> HIDE DEF x
<1>11. \A p \in objects : \E q \in objects' : Alike(p, q)
  BY <1>4, <1>5
<1>12. \A q \in objects' : q = x \/ \E p \in objects : Alike(p, q)
  BY <1>4, <1>5
<1>13. \A q \in objects' : q.version = run.version \/ q \in objects
  BY <1>4, <1>5
<1>14. run' = Knows(run, Current, x.id) /\ spec' \in Nat /\ user' \in BOOLEAN /\ starts' \in Nat
  BY <1>1, <1>2, <1>3, <1>9 DEF ProvisionTypeOK
<1> QED
  BY <1>1, <1>7, <1>9, <1>10, <1>11, <1>12, <1>13, <1>14, Learnt

LEMMA ListHolds == ProvisionInv /\ List => ProvisionInv'
<1> SUFFICES ASSUME ProvisionInv, List PROVE ProvisionInv'
  OBVIOUS
<1> DEFINE kind == KindOf(Current)
           there == {o \in objects : o.kind = kind /\ o.parent = ParentOf(kind)}
           seen == {[id |-> o.id, name |-> o.name] : o \in there}
           r == [run EXCEPT !.pc = "put", !.listed = seen]
           at == run.at
<1>1. /\ run.pc = "list" /\ run' = (IF Plan[at].kind = "cards" THEN Advance(r) ELSE r)
      /\ UNCHANGED <<spec, user, objects, starts>>
  BY DEF List, Current
<1>2. /\ ProvisionTypeOK /\ RunIsOrderly /\ ThingsAreOnce /\ ParentsStand /\ IdsStand
      /\ CardsAreCurrent /\ BoardsAreFilled /\ run \in Worker
  BY DEF ProvisionInv, ProvisionTypeOK
<1>3. at \in 1 .. PlanEnd /\ kind \in ThingKinds /\ \A o \in objects : o.kind = kind => o.parent = ParentOf(kind)
  BY <1>1, AllListed
<1>4. /\ \A e \in seen : \E o \in objects : o.id = e.id /\ o.name = e.name /\ o.kind = kind
      /\ \A o \in objects : o.kind = kind => \E e \in seen : e.id = o.id /\ e.name = o.name
  <2>1. \A e \in seen : \E o \in objects : o.id = e.id /\ o.name = e.name /\ o.kind = kind
    OBVIOUS
  <2>2. ASSUME NEW o \in objects, o.kind = kind PROVE \E e \in seen : e.id = o.id /\ e.name = o.name
    <3>1. o \in there
      BY <1>3, <2>2
    <3>2. [id |-> o.id, name |-> o.name] \in seen
      BY <3>1
    <3> HIDE DEF seen
    <3> QED
      BY <3>2
  <2> QED
    BY <2>1, <2>2
<1>5. r \in Worker /\ r.pc = "put" /\ r.at = at /\ r.version = run.version /\ r.listed = seen /\ r.ids = run.ids
  <2>1. seen \subseteq [id : Nat, name : AllNames]
    BY <1>2 DEF ProvisionTypeOK, Thing
  <2> HIDE DEF seen
  <2> QED
    BY <1>2, <2>1 DEF Worker
<1>6. kind = IF Plan[at].kind = "cards" THEN "card" ELSE Plan[at].kind
  BY DEF KindOf, Current
<1>7. Plan[at].kind \in {"database", "collection", "cards", "dashboard"}
  BY <1>1, <1>2 DEF RunIsOrderly
<1>8. \A i \in 1 .. PlanEnd : i < at + 1 => i < at \/ i = at
  BY <1>3, PlanOrder
<1> HIDE DEF kind, seen, r
<1>9. /\ run' \in Worker /\ run'.version = run.version /\ run'.listed = seen /\ run'.ids = run.ids
      /\ \/ run'.at = at /\ run'.pc = "put" /\ Plan[at].kind # "cards"
         \/ /\ Plan[at].kind = "cards" /\ run'.at = at + 1 /\ run'.pc \in {"list", "put", "done"}
            /\ run'.pc = "done" <=> at = PlanEnd
            /\ run'.pc = "list" => at + 1 \in 1 .. PlanEnd /\ Plan[at + 1].kind \notin {"card", "fill"}
            /\ run'.pc = "put" => at + 1 \in 1 .. PlanEnd /\ Plan[at + 1].kind \in {"card", "fill"}
  <2>1. CASE Plan[at].kind = "cards"
    <3>1. run' = Advance(r)
      BY <1>1, <2>1
    <3> QED
      BY <1>3, <1>5, <2>1, <3>1, Advanced
  <2>2. CASE Plan[at].kind # "cards"
    <3>1. run' = r
      BY <1>1, <2>2
    <3> QED
      BY <1>5, <2>2, <3>1
  <2> QED
    BY <2>1, <2>2
<1>10. \A i \in 1 .. PlanEnd : i < run'.at <=> i < at \/ (i = at /\ Plan[at].kind = "cards" /\ run'.at = at + 1)
  BY <1>3, <1>8, <1>9, PlanOrder
<1>11. ProvisionTypeOK'
  BY <1>1, <1>2, <1>9 DEF ProvisionTypeOK
<1>12. RunIsOrderly'
  <2>1. run'.pc = "done" <=> run'.at = PlanEnd + 1
    BY <1>3, <1>9, PlanOrder
  <2>2. run'.pc = "list" => Plan[run'.at].kind \in {"database", "collection", "cards", "dashboard"}
    BY <1>9, PlanOrder DEF PlanItem, ThingKinds
  <2>3. run'.pc = "put" => Plan[run'.at].kind # "cards"
    BY <1>9
  <2> QED
    BY <1>9, <2>1, <2>2, <2>3 DEF RunIsOrderly
<1>13. ThingsAreOnce' /\ ParentsStand'
  BY <1>1, <1>2 DEF ThingsAreOnce, ParentsStand
<1>14. IdsStand'
  <2>1. \A e \in run'.ids : \E j \in 1 .. PlanEnd, o \in objects' :
          /\ j < run'.at /\ Plan[j].kind = e.kind /\ Plan[j].key = e.key
          /\ o.id = e.id /\ o.kind = e.kind /\ o.name = Plan[j].name
    BY <1>1, <1>2, <1>9, <1>10 DEF IdsStand
  <2>2. \A j \in 1 .. PlanEnd : j < run'.at /\ Plan[j].kind \in ThingKinds =>
          \E e \in run'.ids : e.kind = Plan[j].kind /\ e.key = Plan[j].key
    BY <1>2, <1>9, <1>10 DEF IdsStand, ThingKinds
  <2> QED
    BY <2>1, <2>2 DEF IdsStand
<1>15. ListingStands'
  <2> SUFFICES ASSUME run'.pc = "put", Plan[run'.at].kind # "fill"
               PROVE  /\ \A e \in run'.listed : \E o \in objects' :
                            o.id = e.id /\ o.name = e.name /\ o.kind = Plan[run'.at].kind
                      /\ \A j \in 1 .. PlanEnd : j >= run'.at /\ Plan[j].kind = Plan[run'.at].kind =>
                            \A o \in objects' : o.kind = Plan[j].kind /\ o.name = Plan[j].name =>
                                \E e \in run'.listed : e.id = o.id /\ e.name = o.name
    BY DEF ListingStands
  <2>1. Plan[run'.at].kind = kind
    BY <1>6, <1>9
  <2> QED
    BY <1>1, <1>4, <1>9, <2>1
<1>16. CardsAreCurrent'
  BY <1>1, <1>2, <1>9, <1>10 DEF CardsAreCurrent
<1>17. BoardsAreFilled'
  <2>1. \A kd, key : IdsOf(kd, key)' = IdsOf(kd, key)
    BY <1>9 DEF IdsOf
  <2> QED
    BY <1>1, <1>2, <1>9, <1>10, <2>1 DEF BoardsAreFilled
<1> QED
  BY <1>11, <1>12, <1>13, <1>14, <1>15, <1>16, <1>17 DEF ProvisionInv

LEMMA FillHolds == ProvisionInv /\ Fill => ProvisionInv'
<1> SUFFICES ASSUME ProvisionInv, Fill PROVE ProvisionInv'
  OBVIOUS
<1> DEFINE at == run.at
           mine == IdsOf("dashboard", Plan[at].key)
           shown == UNION {IdsOf("card", c) : c \in Shows[Plan[at].key]}
           linked == UNION {IdsOf("dashboard", b) : b \in LinksTo[Plan[at].key]}
           f == [o \in objects |-> IF o.id \in mine
                                   THEN [o EXCEPT !.version = run.version, !.cards = shown, !.links = linked]
                                   ELSE o]
<1>1. /\ run.pc = "put" /\ Plan[at].kind = "fill" /\ run' = Advance(run)
      /\ UNCHANGED <<spec, user, starts>>
  BY DEF Fill, Current
<1>2. objects' = {f[o] : o \in objects}
  BY DEF Fill, Current
<1>3. /\ ProvisionTypeOK /\ RunIsOrderly /\ ThingsAreOnce /\ ParentsStand /\ IdsStand
      /\ CardsAreCurrent /\ BoardsAreFilled /\ run \in Worker
  BY DEF ProvisionInv, ProvisionTypeOK
<1>4. at \in 1 .. PlanEnd
  BY <1>1, <1>3, PlanOrder DEF RunIsOrderly, Worker
<1>5. /\ run' \in Worker /\ run'.at = at + 1 /\ run'.version = run.version /\ run'.ids = run.ids
      /\ run'.pc \in {"list", "put", "done"}
      /\ run'.pc = "done" <=> at = PlanEnd
      /\ run'.pc = "list" => at + 1 \in 1 .. PlanEnd /\ Plan[at + 1].kind \notin {"card", "fill"}
      /\ run'.pc = "put" => at + 1 \in 1 .. PlanEnd /\ Plan[at + 1].kind \in {"card", "fill"}
  BY <1>1, <1>3, <1>4, Advanced
<1>6. \A kd, key : IdsOf(kd, key) \subseteq Nat /\ IdsOf(kd, key)' = IdsOf(kd, key)
  BY <1>3, <1>5 DEF IdsOf, Worker
<1>7. shown \subseteq Nat /\ linked \subseteq Nat /\ run.version \in Nat
  BY <1>3, <1>6 DEF Worker
<1> HIDE DEF mine, shown, linked
<1>8. ASSUME NEW o \in objects
      PROVE  /\ f[o] \in Thing /\ Alike(o, f[o]) /\ f[o].parent = o.parent
             /\ f[o].version = run.version \/ f[o] = o
             /\ o.id \in mine => f[o].version = run.version /\ f[o].cards = shown /\ f[o].links = linked
             /\ o.id \notin mine => f[o] = o
  <2>1. o \in Thing
    BY <1>3 DEF ProvisionTypeOK
  <2>2. CASE o.id \in mine
    <3>1. f[o] = [o EXCEPT !.version = run.version, !.cards = shown, !.links = linked]
      BY <2>2
    <3> HIDE DEF f
    <3> QED
      BY <1>7, <2>1, <2>2, <3>1 DEF Thing, Alike
  <2>3. CASE o.id \notin mine
    <3>1. f[o] = o
      BY <2>3
    <3> HIDE DEF f
    <3> QED
      BY <2>1, <2>3, <3>1 DEF Alike
  <2> QED
    BY <2>2, <2>3
<1>9. f \in [objects -> Thing]
  BY <1>8
<1> HIDE DEF f
<1>10. objects' \subseteq Thing /\ IsFiniteSet(objects') /\ ThingsAreOnce' /\ ParentsStand'
  BY <1>2, <1>3, <1>8, <1>9, Renewed DEF Alike
<1>11. ProvisionTypeOK'
  BY <1>1, <1>3, <1>5, <1>10 DEF ProvisionTypeOK
<1>12. \A j \in 1 .. PlanEnd : (j < at + 1 <=> j < at \/ j = at) /\ (Plan[j].kind # "fill" => j < at)
  BY <1>1, <1>4, PlanOrder
<1>13. run'.pc = "put" => Plan[run'.at].kind = "fill"
  <2>1. at + 1 \in 1 .. PlanEnd => ~(at + 1 < at)
    BY <1>4
  <2> QED
    BY <1>5, <1>12, <2>1
<1>14. RunIsOrderly'
  <2>1. run'.pc = "done" <=> run'.at = PlanEnd + 1
    BY <1>4, <1>5, PlanOrder
  <2>2. run'.pc = "list" => Plan[run'.at].kind \in {"database", "collection", "cards", "dashboard"}
    BY <1>5, PlanOrder DEF PlanItem, ThingKinds
  <2>3. run'.pc = "put" => Plan[run'.at].kind # "cards"
    BY <1>13
  <2> QED
    BY <1>5, <2>1, <2>2, <2>3 DEF RunIsOrderly
<1>15. ListingStands'
  BY <1>13 DEF ListingStands
<1>16. IdsStand'
  <2>1. ASSUME NEW e \in run'.ids
        PROVE  \E j \in 1 .. PlanEnd, p \in objects' : /\ j < run'.at /\ Plan[j].kind = e.kind /\ Plan[j].key = e.key
                                                       /\ p.id = e.id /\ p.kind = e.kind /\ p.name = Plan[j].name
    <3>1. PICK j \in 1 .. PlanEnd, o \in objects : /\ j < at /\ Plan[j].kind = e.kind /\ Plan[j].key = e.key
                                                   /\ o.id = e.id /\ o.kind = e.kind /\ o.name = Plan[j].name
      BY <1>3, <1>5, <2>1 DEF IdsStand
    <3>2. f[o] \in objects' /\ f[o].id = e.id /\ f[o].kind = e.kind /\ f[o].name = Plan[j].name
      BY <1>2, <1>8, <3>1 DEF Alike
    <3>3. j < run'.at
      BY <1>5, <1>12, <3>1
    <3> QED
      BY <3>1, <3>2, <3>3
  <2>2. \A j \in 1 .. PlanEnd : j < run'.at /\ Plan[j].kind \in ThingKinds =>
          \E e \in run'.ids : e.kind = Plan[j].kind /\ e.key = Plan[j].key
    BY <1>1, <1>3, <1>5, <1>12 DEF IdsStand, ThingKinds
  <2> QED
    BY <2>1, <2>2 DEF IdsStand
<1>17. CardsAreCurrent'
  <2> SUFFICES ASSUME NEW j \in 1 .. PlanEnd, j < run'.at, Plan[j].kind = "card",
                      NEW p \in objects', p.kind = "card", p.name = Plan[j].name
               PROVE  p.version = run'.version
    BY DEF CardsAreCurrent
  <2>1. PICK o \in objects : p = f[o]
    BY <1>2
  <2>2. j < at
    BY <1>12
  <2>3. o.version = run.version
    BY <1>3, <1>8, <2>1, <2>2 DEF CardsAreCurrent, Alike
  <2> QED
    BY <1>5, <1>8, <2>1, <2>3
<1>18. BoardsAreFilled'
  <2> SUFFICES ASSUME NEW j \in 1 .. PlanEnd, j < run'.at, Plan[j].kind = "fill",
                      NEW p \in objects', p.kind = "dashboard", p.name = Plan[j].name
               PROVE  /\ p.version = run.version
                      /\ p.cards = UNION {IdsOf("card", c) : c \in Shows[Plan[j].key]}
                      /\ p.links = UNION {IdsOf("dashboard", b) : b \in LinksTo[Plan[j].key]}
    BY <1>5, <1>6 DEF BoardsAreFilled
  <2>1. PICK o \in objects : p = f[o]
    BY <1>2
  <2>2. o.kind = "dashboard" /\ o.name = Plan[j].name
    BY <1>8, <2>1 DEF Alike
  <2>3. PICK i \in 1 .. PlanEnd : Plan[i].kind = "dashboard" /\ Plan[i].key = Plan[at].key /\ Plan[i].name = Plan[at].name
    BY <1>1, <1>4, PlanOrder
  <2>4. PICK d \in objects : /\ d.kind = "dashboard" /\ d.name = Plan[at].name /\ mine = {d.id}
                             /\ \A q \in objects : q.kind = "dashboard" /\ q.name = Plan[at].name => q = d
    <3>1. i < at
      BY <1>12, <2>3
    <3> QED
      BY <1>3, <2>3, <3>1, KnownOne DEF ThingKinds, mine
  <2>5. CASE j = at
    <3>1. o.id \in mine
      BY <2>2, <2>4, <2>5
    <3> QED
      BY <1>8, <2>1, <2>5, <3>1 DEF shown, linked
  <2>6. CASE j < at
    <3>1. j # at
      BY <1>4, <2>6
    <3>2. Plan[j].name # Plan[at].name
      BY <1>1, <1>4, <3>1, PlanOrder
    <3>3. o.id \notin mine
      BY <1>3, <2>2, <2>4, <3>2 DEF ThingsAreOnce
    <3>4. p = o
      BY <1>8, <2>1, <3>3
    <3> QED
      BY <1>3, <2>2, <2>6, <3>4 DEF BoardsAreFilled
  <2> QED
    BY <1>5, <1>12, <2>5, <2>6
<1> QED
  BY <1>10, <1>11, <1>14, <1>15, <1>16, <1>17, <1>18 DEF ProvisionInv

LEMMA ProvisionInitHolds == Init => ProvisionInv
<1> SUFFICES ASSUME Init PROVE ProvisionInv
  OBVIOUS
<1>1. spec = 0 /\ user \in BOOLEAN /\ objects = {} /\ run = Idle /\ starts = 0
  BY DEF Init
<1>2. PlanEnd \in Nat /\ PlanEnd >= 3 /\ \A j \in 1 .. PlanEnd : ~(j < 1)
  BY PlanOrder
<1>3. run \in Worker /\ run.pc = "idle" /\ run.at = 1 /\ run.ids = {}
  BY <1>1, <1>2 DEF Idle, Worker
<1>4. ProvisionTypeOK
  BY <1>1, <1>3, FS_EmptySet DEF ProvisionTypeOK
<1>5. RunIsOrderly
  BY <1>2, <1>3 DEF RunIsOrderly
<1>6. ThingsAreOnce /\ ParentsStand
  BY <1>1 DEF ThingsAreOnce, ParentsStand
<1>7. IdsStand /\ ListingStands /\ CardsAreCurrent /\ BoardsAreFilled
  BY <1>2, <1>3 DEF IdsStand, ListingStands, CardsAreCurrent, BoardsAreFilled
<1> QED
  BY <1>4, <1>5, <1>6, <1>7 DEF ProvisionInv

LEMMA RestHolds == ProvisionInv /\ (Start \/ Authenticate \/ Stop) => ProvisionInv'
<1> SUFFICES ASSUME ProvisionInv, Start \/ Authenticate \/ Stop PROVE ProvisionInv'
  OBVIOUS
<1>1. ProvisionTypeOK /\ RunIsOrderly /\ ThingsAreOnce /\ ParentsStand /\ 1 \in 1 .. PlanEnd + 1
  BY PlanOrder DEF ProvisionInv
<1>2. spec' = spec /\ objects' = objects /\ user' \in BOOLEAN /\ starts' \in Nat
  <2>1. spec \in Nat /\ user \in BOOLEAN /\ starts \in Nat
    BY <1>1 DEF ProvisionTypeOK
  <2>2. CASE Start
    BY <2>1, <2>2 DEF Start
  <2>3. CASE Authenticate
    BY <2>1, <2>3 DEF Authenticate
  <2>4. CASE Stop
    BY <2>1, <2>4 DEF Stop
  <2> QED
    BY <2>2, <2>3, <2>4
<1>3. ThingsAreOnce' /\ ParentsStand'
  BY <1>1, <1>2 DEF ThingsAreOnce, ParentsStand
<1>4. run' \in Worker /\ run'.pc \in {"idle", "login", "list"} /\ run'.at = 1 /\ run'.ids = {}
  <2>1. CASE Start
    BY <1>1, <2>1 DEF Start, ProvisionTypeOK, Worker
  <2>2. CASE Authenticate
    BY <1>1, <2>2 DEF Authenticate, RunIsOrderly, ProvisionTypeOK, Worker
  <2>3. CASE Stop
    BY <1>1, <2>3 DEF Stop, Idle, Worker
  <2> QED
    BY <2>1, <2>2, <2>3
<1>5. ProvisionTypeOK'
  BY <1>1, <1>2, <1>4 DEF ProvisionTypeOK
<1> QED
  BY <1>3, <1>4, <1>5, AtRest

LEMMA QuietHolds == ProvisionInv /\ (Edit \/ UNCHANGED vars) => ProvisionInv'
<1> SUFFICES ASSUME ProvisionInv, Edit \/ UNCHANGED vars PROVE ProvisionInv'
  OBVIOUS
<1>1. spec' \in Nat /\ user' = user /\ objects' = objects /\ run' = run /\ starts' = starts
  BY DEF Edit, vars, ProvisionInv, ProvisionTypeOK
<1>2. ProvisionTypeOK' /\ RunIsOrderly' /\ ThingsAreOnce' /\ ParentsStand'
  BY <1>1 DEF ProvisionInv, ProvisionTypeOK, RunIsOrderly, ThingsAreOnce, ParentsStand
<1>3. IdsStand' /\ ListingStands' /\ CardsAreCurrent'
  BY <1>1 DEF ProvisionInv, IdsStand, ListingStands, CardsAreCurrent
<1>4. BoardsAreFilled'
  BY <1>1 DEF ProvisionInv, BoardsAreFilled, IdsOf
<1> QED
  BY <1>2, <1>3, <1>4 DEF ProvisionInv

\* The invariant holds of every behaviour of the provisioner.
THEOREM ProvisionInductive == Spec => []ProvisionInv
<1>1. ProvisionInv /\ [Next]_vars => ProvisionInv'
  BY CreateHolds, UpdateHolds, ListHolds, FillHolds, RestHolds, QuietHolds DEF Next
<1> QED
  BY <1>1, ProvisionInitHolds, PTL DEF Spec

-----------------------------------------------------------------------------
(* Provision: the theorems.                                                 *)

\* Stopped anywhere, with a reply lost, and run again over whatever that left and
\* after any edits: two things of one kind never bear one name.
THEOREM NothingTwice == Spec => []NoSecondCopy
<1>1. ProvisionInv => NoSecondCopy
  <2> SUFFICES ASSUME ProvisionInv PROVE NoSecondCopy
    OBVIOUS
  <2> DEFINE T == {<<o.kind, o.name>> : o \in objects}
             f == [o \in objects |-> <<o.kind, o.name>>]
  <2>1. \A o, p \in objects : f[o] = f[p] => o = p
    BY DEF ProvisionInv, ThingsAreOnce
  <2>2. f \in [objects -> T] /\ \A t \in T : \E o \in objects : f[o] = t
    OBVIOUS
  <2> HIDE DEF f
  <2>3. f \in Bijection(objects, T)
    BY <2>1, <2>2 DEF Bijection, Injection, Surjection, IsInjective
  <2>4. Cardinality(T) = Cardinality(objects)
    BY <2>3, FS_Bijection DEF ProvisionInv, ProvisionTypeOK, ExistsBijection
  <2> QED
    BY <2>4 DEF NoSecondCopy
<1> QED
  BY <1>1, ProvisionInductive, PTL

LEMMA NamedByKey ==
  ASSUME NEW specs \in {CardSeq, BoardSeq}
  PROVE  /\ \A k \in Keys(specs) : \E i \in DOMAIN specs : specs[i].key = k /\ NameOf(specs, k) = specs[i].name
         /\ \A k, l \in Keys(specs) : NameOf(specs, k) = NameOf(specs, l) => k = l
<1>1. ASSUME NEW k \in Keys(specs)
      PROVE  \E i \in DOMAIN specs : specs[i].key = k /\ NameOf(specs, k) = specs[i].name
  <2> DEFINE c == CHOOSE i \in DOMAIN specs : specs[i].key = k
  <2>1. \E i \in DOMAIN specs : specs[i].key = k
    BY <1>1 DEF Keys
  <2>2. c \in DOMAIN specs /\ specs[c].key = k
    BY <2>1
  <2> QED
    BY <2>2 DEF NameOf
<1>2. ASSUME NEW k \in Keys(specs), NEW l \in Keys(specs), NameOf(specs, k) = NameOf(specs, l) PROVE k = l
  <2>1. PICK i \in DOMAIN specs : specs[i].key = k /\ NameOf(specs, k) = specs[i].name
    BY <1>1
  <2>2. PICK j \in DOMAIN specs : specs[j].key = l /\ NameOf(specs, l) = specs[j].name
    BY <1>1
  <2> QED
    BY <1>2, <2>1, <2>2, NamesAssumption
<1> QED
  BY <1>1, <1>2

\* A run that is done has left each thing it was to make, and knows its id.
LEMMA AllThere ==
  ASSUME ProvisionInv, run.pc = "done", NEW kind, NEW specs,
         (kind = "card" /\ specs = CardSeq) \/ (kind = "dashboard" /\ specs = BoardSeq),
         NEW k \in Keys(specs)
  PROVE  \E o \in objects : /\ o.kind = kind /\ o.name = NameOf(specs, k) /\ IdsOf(kind, k) = {o.id}
                            /\ \A p \in objects : p.kind = kind /\ p.name = NameOf(specs, k) => p = o
<1>1. PICK i \in DOMAIN specs : specs[i].key = k /\ NameOf(specs, k) = specs[i].name
  BY NamedByKey
<1>2. PICK j \in 1 .. PlanEnd : Plan[j] = Item(kind, specs[i])
  BY PlanOrder
<1>3. Plan[j].kind = kind /\ Plan[j].key = k /\ Plan[j].name = NameOf(specs, k) /\ kind \in ThingKinds
  BY <1>1, <1>2 DEF Item, ThingKinds
<1>4. j < run.at
  BY PlanOrder DEF ProvisionInv, RunIsOrderly
<1> QED
  BY <1>3, <1>4, KnownOne DEF ProvisionInv

\* What is there under the names of some planned things is as many as those are, and
\* the run knows it by their keys.
LEMMA AllNamed ==
  ASSUME ProvisionInv, run.pc = "done", NEW kind, NEW specs,
         (kind = "card" /\ specs = CardSeq) \/ (kind = "dashboard" /\ specs = BoardSeq),
         NEW keys \in SUBSET Keys(specs), NEW named,
         \A o : o \in named <=> o \in objects /\ o.kind = kind /\ \E k \in keys : o.name = NameOf(specs, k)
  PROVE  /\ Cardinality(named) = Cardinality(keys)
         /\ \A o \in named : \E k \in keys : o.id \in IdsOf(kind, k)
         /\ \A k \in keys : \A id \in IdsOf(kind, k) : \E o \in named : o.id = id
<1>1. \A k \in keys : \E o \in named : o.name = NameOf(specs, k) /\ IdsOf(kind, k) = {o.id}
  BY AllThere
<1>2. \A o \in named : \E k \in keys : o.name = NameOf(specs, k)
  OBVIOUS
<1>3. \A k, l \in keys : NameOf(specs, k) = NameOf(specs, l) => k = l
  BY NamedByKey
<1>4. \A o, p \in named : o.name = p.name => o = p
  BY DEF ProvisionInv, ThingsAreOnce
<1> DEFINE f == [o \in named |-> CHOOSE k \in keys : o.name = NameOf(specs, k)]
<1>5. \A o \in named : f[o] \in keys /\ o.name = NameOf(specs, f[o])
  BY <1>2
<1>6. f \in [named -> keys]
  BY <1>5
<1> HIDE DEF f
<1>7. \A o, p \in named : f[o] = f[p] => o = p
  BY <1>4, <1>5
<1>8. \A k \in keys : \E o \in named : f[o] = k
  BY <1>1, <1>3, <1>5
<1>9. f \in Bijection(named, keys)
  BY <1>6, <1>7, <1>8 DEF Bijection, Injection, Surjection, IsInjective
<1>10. IsFiniteSet(named)
  <2>1. named \subseteq objects
    OBVIOUS
  <2> QED
    BY <2>1, FS_Subset DEF ProvisionInv, ProvisionTypeOK
<1>11. Cardinality(named) = Cardinality(keys)
  BY <1>9, <1>10, FS_Bijection DEF ExistsBijection
<1>12. \A o \in named : IdsOf(kind, f[o]) = {o.id}
  BY <1>1, <1>4, <1>5
<1>13. \A o \in named : \E k \in keys : o.id \in IdsOf(kind, k)
  BY <1>5, <1>12
<1>14. \A k \in keys : \A id \in IdsOf(kind, k) : \E o \in named : o.id = id
  BY <1>1
<1> QED
  BY <1>11, <1>13, <1>14

LEMMA CardsNamed ==
  ASSUME ProvisionInv, run.pc = "done", NEW keys \in SUBSET Keys(CardSeq), NEW named,
         \A o : o \in named <=> o \in objects /\ o.kind = "card" /\ \E k \in keys : o.name = NameOf(CardSeq, k)
  PROVE  Cardinality(named) = Cardinality(keys) /\ {o.id : o \in named} = UNION {IdsOf("card", k) : k \in keys}
<1>1. /\ \A o \in named : \E k \in keys : o.id \in IdsOf("card", k)
      /\ \A k \in keys : \A id \in IdsOf("card", k) : \E o \in named : o.id = id
  BY AllNamed
<1>2. Cardinality(named) = Cardinality(keys)
  BY AllNamed
<1> QED
  BY <1>1, <1>2

LEMMA BoardsNamed ==
  ASSUME ProvisionInv, run.pc = "done", NEW keys \in SUBSET Keys(BoardSeq), NEW named,
         \A o : o \in named <=> o \in objects /\ o.kind = "dashboard" /\ \E k \in keys : o.name = NameOf(BoardSeq, k)
  PROVE  {o.id : o \in named} = UNION {IdsOf("dashboard", k) : k \in keys}
<1>1. /\ \A o \in named : \E k \in keys : o.id \in IdsOf("dashboard", k)
      /\ \A k \in keys : \A id \in IdsOf("dashboard", k) : \E o \in named : o.id = id
  BY AllNamed
<1> QED
  BY <1>1

\* When a run is done and nobody has edited the specifications since it read them, every
\* dashboard is there, holds and links to what it should, and shows cards as they are
\* specified, whatever earlier runs left.
THEOREM DoneMeansCurrent == Spec => []FinishedMeansCurrent
<1>1. ProvisionInv => FinishedMeansCurrent
  <2> DEFINE named(kind, specs, keys) ==
                {o \in objects : o.kind = kind /\ o.name \in {NameOf(specs, k) : k \in keys}}
  <2> SUFFICES ASSUME ProvisionInv, run.pc = "done", run.version = spec, NEW b \in Keys(BoardSeq)
               PROVE  \E o \in named("dashboard", BoardSeq, {b}) :
                        /\ o.version = spec
                        /\ Cardinality(named("card", CardSeq, Shows[b])) = Cardinality(Shows[b])
                        /\ o.cards = {c.id : c \in named("card", CardSeq, Shows[b])}
                        /\ \A c \in named("card", CardSeq, Shows[b]) : c.version = spec
                        /\ o.links = {d.id : d \in named("dashboard", BoardSeq, LinksTo[b])}
    BY DEF FinishedMeansCurrent
  <2>1. Shows[b] \in SUBSET Keys(CardSeq) /\ LinksTo[b] \in SUBSET Keys(BoardSeq)
    BY ConstantsAssumption
  <2>2. \A j \in 1 .. PlanEnd : j < run.at
    BY PlanOrder DEF ProvisionInv, RunIsOrderly
  <2>3. PICK o \in objects : o.kind = "dashboard" /\ o.name = NameOf(BoardSeq, b)
    BY AllThere
  <2>4. o \in named("dashboard", BoardSeq, {b})
    BY <2>3
  <2>5. PICK i \in DOMAIN BoardSeq : BoardSeq[i].key = b /\ NameOf(BoardSeq, b) = BoardSeq[i].name
    BY NamedByKey
  <2>6. PICK j \in 1 .. PlanEnd : Plan[j] = Item("fill", BoardSeq[i])
    BY PlanOrder
  <2>7. Plan[j].kind = "fill" /\ Plan[j].key = b /\ Plan[j].name = o.name
    BY <2>3, <2>5, <2>6 DEF Item
  <2>8. /\ o.version = spec
        /\ o.cards = UNION {IdsOf("card", c) : c \in Shows[b]}
        /\ o.links = UNION {IdsOf("dashboard", d) : d \in LinksTo[b]}
    BY <2>2, <2>3, <2>7 DEF ProvisionInv, BoardsAreFilled
  <2>9. /\ Cardinality(named("card", CardSeq, Shows[b])) = Cardinality(Shows[b])
        /\ {c.id : c \in named("card", CardSeq, Shows[b])} = UNION {IdsOf("card", c) : c \in Shows[b]}
    <3> DEFINE shown == named("card", CardSeq, Shows[b])
    <3>1. \A p : p \in shown <=> p \in objects /\ p.kind = "card" /\ \E k \in Shows[b] : p.name = NameOf(CardSeq, k)
      OBVIOUS
    <3> HIDE DEF shown
    <3>2. /\ Cardinality(shown) = Cardinality(Shows[b])
          /\ {c.id : c \in shown} = UNION {IdsOf("card", c) : c \in Shows[b]}
      BY <2>1, <3>1, CardsNamed
    <3> QED
      BY <3>2 DEF shown
  <2>10. {d.id : d \in named("dashboard", BoardSeq, LinksTo[b])} = UNION {IdsOf("dashboard", d) : d \in LinksTo[b]}
    <3> DEFINE linked == named("dashboard", BoardSeq, LinksTo[b])
    <3>1. \A p : p \in linked <=> p \in objects /\ p.kind = "dashboard" /\ \E k \in LinksTo[b] : p.name = NameOf(BoardSeq, k)
      OBVIOUS
    <3> HIDE DEF linked
    <3>2. {d.id : d \in linked} = UNION {IdsOf("dashboard", d) : d \in LinksTo[b]}
      BY <2>1, <3>1, BoardsNamed
    <3> QED
      BY <3>2 DEF linked
  <2>11. ASSUME NEW c \in named("card", CardSeq, Shows[b]) PROVE c.version = spec
    <3>1. PICK k \in Shows[b] : c \in objects /\ c.kind = "card" /\ c.name = NameOf(CardSeq, k)
      BY <2>11
    <3>2. PICK l \in DOMAIN CardSeq : CardSeq[l].key = k /\ NameOf(CardSeq, k) = CardSeq[l].name
      BY <2>1, NamedByKey
    <3>3. PICK m \in 1 .. PlanEnd : Plan[m] = Item("card", CardSeq[l])
      BY PlanOrder
    <3> QED
      BY <2>2, <3>1, <3>2, <3>3 DEF ProvisionInv, CardsAreCurrent, Item
  <2> QED
    BY <2>4, <2>8, <2>9, <2>10, <2>11
<1> QED
  BY <1>1, ProvisionInductive, PTL
=============================================================================
