--------------------------- MODULE Ingestion_proofs ---------------------------
(***************************************************************************)
(* Proofs about Ingestion: for any number of overlapping executions, any     *)
(* failures and recoveries, and any order system that keeps to Upstream, no  *)
(* order falls between two windows.                                          *)
(***************************************************************************)
EXTENDS Ingestion, TLAPS

\* An order in the book is as it was made, and as long as no fault has touched it,
\* no later order has its id.
BookIsMade ==
    \A o \in book :
        /\ o.uid \in DOMAIN made
        /\ o.id = made[o.uid].id /\ o.date = made[o.uid].date
        /\ o.uid \notin unsaved => \A v \in DOMAIN made : v > o.uid => made[v].id # o.id

\* No window ends after today, and none starts on its last day.
WindowsArePast ==
    /\ lastTo <= today
    /\ \A r \in Slots :
          /\ run[r].to <= today
          /\ run[r].node = "opened" => run[r].from < run[r].to

\* What an execution has made sure of at each of its nodes.
Missed(r, o) == made[o.uid].on < run[r].to /\ o.date <= run[r].to

RunsCover ==
    \A r \in Slots : \A o \in book : Punctual(o.uid) =>
        /\ run[r].node = "opened" /\ o.date < run[r].from => Landed(o.uid)
        /\ run[r].node = "validated" /\ Missed(r, o) => Landed(o.uid) \/ o.uid \in run[r].batch
        /\ run[r].node = "inserted" /\ Missed(r, o) => Landed(o.uid)

BatchesAreMade == \A r \in Slots : run[r].batch \subseteq DOMAIN made

IInv == TypeOK /\ BookIsMade /\ BatchesAreMade /\ WindowsArePast /\ RunsCover /\ WindowsLeaveNoGap

MadeOrders == [id : Nat \ {0}, date : Days, on : Days]

USE UpstreamAssumption, SlotsAssumption DEF Days, Made

-----------------------------------------------------------------------------
LEMMA InitInv == IngestInit => IInv
<1> SUFFICES ASSUME IngestInit PROVE IInv
  OBVIOUS
<1>1. /\ book = {} /\ made = <<>> /\ unsaved = {} /\ facts = {} /\ letters = {}
      /\ today = 1 /\ lastTo = 0 /\ faults = 0 /\ run = [r \in Slots |-> Idle]
      /\ LastDay \in Nat \ {0} /\ MaxOrders \in Nat \ {0} /\ MaxFaults \in Nat
  BY DEF IngestInit, Init
<1>2. TypeOK
  <2>1. UpstreamTypeOK
    <3>1. <<>> \in Seq([id : Nat \ {0}, date : Days, on : Days]) /\ Len(<<>>) = 0
      OBVIOUS
    <3> QED
      BY <1>1, <3>1 DEF UpstreamTypeOK
  <2>2. Idle \in [node : Nodes, open : BOOLEAN, from : 0 .. LastDay, to : 0 .. LastDay,
                  batch : SUBSET (1 .. MaxOrders)]
    BY <1>1 DEF Idle, Nodes
  <2> QED
    BY <1>1, <2>1, <2>2 DEF TypeOK
<1>3. BookIsMade /\ RunsCover /\ WindowsLeaveNoGap
  BY <1>1 DEF BookIsMade, RunsCover, WindowsLeaveNoGap
<1>4. WindowsArePast /\ BatchesAreMade
  BY <1>1 DEF WindowsArePast, BatchesAreMade, Idle
<1> QED
  BY <1>2, <1>3, <1>4 DEF IInv

-----------------------------------------------------------------------------
(* The order system.                                                        *)

\* What is in the book after a step of the order system, and no fault's doing, was
\* there before or is made today.
StillThere(o) ==
    /\ Punctual(o.uid) /\ made'[o.uid] = made[o.uid]
    /\ \E p \in book : p.uid = o.uid /\ p.date = o.date
MadeToday(o) == made'[o.uid].on = today /\ o.date >= today - 1

Kept ==
    /\ UpstreamTypeOK' /\ BookIsMade' /\ today <= today'
    /\ DOMAIN made \subseteq DOMAIN made'
    /\ \A o \in book' : Punctual(o.uid)' => StillThere(o) \/ MadeToday(o)

LEMMA Types ==
  ASSUME IInv
  PROVE  /\ today \in 1 .. LastDay /\ book \subseteq Orders /\ faults \in 0 .. MaxFaults
         /\ made \in Seq(MadeOrders) /\ Len(made) \in Nat /\ Len(made) <= MaxOrders
         /\ unsaved \subseteq DOMAIN made /\ DOMAIN made = 1 .. Len(made)
         /\ \A u \in DOMAIN made : made[u] \in MadeOrders
         /\ LastDay \in Nat \ {0} /\ MaxOrders \in Nat \ {0} /\ MaxFaults \in Nat
<1>1. /\ today \in 1 .. LastDay /\ book \subseteq Orders /\ faults \in 0 .. MaxFaults
      /\ made \in Seq(MadeOrders) /\ Len(made) <= MaxOrders /\ unsaved \subseteq DOMAIN made
      /\ LastDay \in Nat \ {0} /\ MaxOrders \in Nat \ {0} /\ MaxFaults \in Nat
  BY DEF IInv, TypeOK, UpstreamTypeOK, MadeOrders
<1> QED
  BY <1>1

LEMMA TickKeeps ==
  ASSUME IInv, Tick
  PROVE  Kept
<1>1. UNCHANGED <<book, made, unsaved, faults>> /\ today' = today + 1 /\ today < LastDay
  BY DEF Tick
<1>2. UpstreamTypeOK'
  <2>1. today' \in 1 .. LastDay
    BY <1>1, Types
  <2>2. UpstreamTypeOK
    BY DEF IInv, TypeOK
  <2> QED
    BY <1>1, <2>1, <2>2 DEF UpstreamTypeOK
<1>3. BookIsMade'
  BY <1>1 DEF IInv, BookIsMade
<1>4. ASSUME NEW o \in book', Punctual(o.uid)'
      PROVE  StillThere(o)
  <2>1. made[o.uid].date \in Nat /\ today \in Nat /\ ColdStart \in Nat
    <3>1. o.uid \in DOMAIN made
      BY <1>1, <1>4 DEF IInv, BookIsMade
    <3>2. made[o.uid] \in MadeOrders
      BY <3>1, Types
    <3> QED
      BY <3>2, Types DEF MadeOrders
  <2>2. /\ o.uid \notin unsaved /\ FirstOfItsId(o.uid)
        /\ made[o.uid].date >= made[o.uid].on - 1
    BY <1>1, <1>4 DEF Punctual, FirstOfItsId
  <2>4. made[o.uid].date >= today + 1 - ColdStart
    <3>1. made'[o.uid].date >= today' - ColdStart
      BY <1>4 DEF Punctual
    <3>2. made' = made /\ today' = today + 1
      BY <1>1
    <3> QED
      BY <2>1, <3>1, <3>2
  <2>3. Punctual(o.uid)
    BY <2>1, <2>2, <2>4 DEF Punctual
  <2> QED
    BY <1>1, <2>3 DEF StillThere
<1> QED
  BY <1>1, <1>2, <1>3, <1>4, Types DEF Kept

LEMMA PlaceKeeps ==
  ASSUME IInv, NEW n \in 1 .. MaxBatch, NEW start \in 1 .. MaxOrders,
         NEW dates \in [1 .. n -> Dates], Place(dates, start)
  PROVE  Kept
<1> DEFINE L == Len(made)
           new == [i \in 1 .. n |-> [id |-> start + i - 1, date |-> dates[i], on |-> today]]
<1>0. L \in Nat /\ MaxOrders \in Nat \ {0} /\ n \in Nat \ {0} /\ start \in Nat \ {0}
  BY Types
<1>1. n \in Nat \ {0} /\ start \in Nat \ {0} /\ DOMAIN dates = 1 .. n /\ Len(dates) = n
      /\ \A i \in 1 .. n : dates[i] \in Days
  BY DEF Dates
<1>2. /\ L + n <= MaxOrders /\ L \in Nat
      /\ \A o \in book : start > o.id
      /\ book' = book \cup {[uid |-> L + i, id |-> start + i - 1, date |-> dates[i], bad |-> FALSE] :
                               i \in 1 .. n}
      /\ made' = made \o new
      /\ UNCHANGED <<today, unsaved, faults>>
  BY <1>1, Types DEF Place
<1>3. new \in Seq(MadeOrders) /\ Len(new) = n
  BY <1>1, Types DEF MadeOrders
<1> HIDE DEF new
<1>4. /\ made' \in Seq(MadeOrders) /\ Len(made') = L + n /\ DOMAIN made' = 1 .. L + n
      /\ \A u \in 1 .. L : made'[u] = made[u]
      /\ \A i \in 1 .. n : made'[L + i] = new[i]
  BY <1>2, <1>3, Types
<1>5. \A i \in 1 .. n : new[i] = [id |-> start + i - 1, date |-> dates[i], on |-> today]
  BY DEF new
<1>6. ASSUME NEW o \in book'
      PROVE  \/ o \in book
             \/ \E i \in 1 .. n : /\ o.uid = L + i /\ o.id = start + i - 1 /\ o.date = dates[i]
                                  /\ o \in Orders
  <2> SUFFICES ASSUME o \notin book
               PROVE  \E i \in 1 .. n : /\ o.uid = L + i /\ o.id = start + i - 1
                                        /\ o.date = dates[i] /\ o \in Orders
    OBVIOUS
  <2>1. PICK i \in 1 .. n :
           o = [uid |-> L + i, id |-> start + i - 1, date |-> dates[i], bad |-> FALSE]
    BY <1>2
  <2>2. L + i \in 1 .. MaxOrders /\ start + i - 1 \in Nat \ {0} /\ dates[i] \in Days
    BY <1>0, <1>1, <1>2
  <2>3. o \in Orders
    BY <2>1, <2>2 DEF Orders
  <2> QED
    BY <2>1, <2>3
<1>a. \A v \in DOMAIN made' : v \notin 1 .. L => v - L \in 1 .. n /\ v = L + (v - L)
  BY <1>0, <1>4
<1>b. ASSUME NEW i \in 1 .. n
      PROVE  /\ made'[L + i].id = start + i - 1 /\ made'[L + i].date = dates[i]
             /\ made'[L + i].on = today /\ L + i \in DOMAIN made'
  <2>1. made'[L + i] = [id |-> start + i - 1, date |-> dates[i], on |-> today]
    BY <1>4, <1>5, Zenon
  <2>2. L + i \in DOMAIN made'
    BY <1>0, <1>4
  <2> QED
    BY <2>1, <2>2
<1>7. UpstreamTypeOK'
  <2>1. book' \subseteq Orders
    BY <1>6, Types
  <2>2. unsaved' \subseteq DOMAIN made'
    BY <1>2, <1>4, Types
  <2> QED
    BY <1>2, <1>4, <2>1, <2>2, Types DEF UpstreamTypeOK, MadeOrders
<1>8. BookIsMade'
  <2> SUFFICES ASSUME NEW o \in book'
               PROVE  /\ o.uid \in DOMAIN made'
                      /\ o.id = made'[o.uid].id /\ o.date = made'[o.uid].date
                      /\ o.uid \notin unsaved' =>
                            \A v \in DOMAIN made' : v > o.uid => made'[v].id # o.id
    BY DEF BookIsMade
  <2>1. CASE o \in book
    <3>1. /\ o.uid \in 1 .. L /\ o.id = made[o.uid].id /\ o.date = made[o.uid].date
          /\ o.uid \notin unsaved => \A v \in 1 .. L : v > o.uid => made[v].id # o.id
      BY <2>1, Types DEF IInv, BookIsMade
    <3>2. o.id \in Nat /\ start > o.id
      BY <1>2, <2>1, Types DEF Orders
    <3>3. ASSUME NEW i \in 1 .. n PROVE made'[L + i].id # o.id
      <4>1. made'[L + i].id = start + i - 1
        BY <1>b
      <4> QED
        BY <1>0, <3>2, <4>1
    <3>4. \A v \in DOMAIN made' : v \notin 1 .. L => made'[v].id # o.id
      BY <1>a, <3>3
    <3>5. o.uid \in DOMAIN made' /\ made'[o.uid] = made[o.uid]
      BY <1>0, <1>4, <3>1
    <3> QED
      BY <1>2, <1>4, <3>1, <3>4, <3>5
  <2>2. ASSUME NEW i \in 1 .. n, o.uid = L + i, o.id = start + i - 1, o.date = dates[i]
        PROVE  /\ o.uid \in DOMAIN made'
               /\ o.id = made'[o.uid].id /\ o.date = made'[o.uid].date
               /\ \A v \in DOMAIN made' : v > o.uid => made'[v].id # o.id
    <3>1. ASSUME NEW v \in DOMAIN made', v > o.uid
          PROVE  made'[v].id # o.id
      <4>1. v - L \in 1 .. n /\ v = L + (v - L) /\ v - L > i
        BY <1>0, <1>4, <1>a, <2>2, <3>1
      <4>2. made'[v].id = start + (v - L) - 1
        BY <1>b, <4>1
      <4> QED
        BY <1>0, <2>2, <4>1, <4>2
    <3> QED
      BY <1>b, <2>2, <3>1
  <2> QED
    BY <1>6, <2>1, <2>2
<1>9. ASSUME NEW o \in book', Punctual(o.uid)'
      PROVE  StillThere(o) \/ MadeToday(o)
  <2>1. CASE o \in book
    <3>1. o.uid \in 1 .. L
      BY <2>1, Types DEF IInv, BookIsMade
    <3>2. \A v \in 1 .. o.uid - 1 : v \in 1 .. L
      BY <1>2, <3>1
    <3>3. Punctual(o.uid)
      BY <1>2, <1>4, <1>9, <3>1, <3>2 DEF Punctual, FirstOfItsId
    <3> QED
      BY <1>4, <2>1, <3>1, <3>3 DEF StillThere
  <2>2. ASSUME NEW i \in 1 .. n, o.uid = L + i, o.date = dates[i]
        PROVE  MadeToday(o)
    BY <1>b, <1>9, <2>2 DEF Punctual, MadeToday
  <2> QED
    BY <1>6, <2>1, <2>2
<1> QED
  BY <1>2, <1>4, <1>7, <1>8, <1>9, Types DEF Kept

\* A book of orders made before, none of which is back without a fault's mark.
LEMMA RestKeeps ==
  ASSUME IInv, NEW uids, uids \subseteq DOMAIN made, NEW bad \in [DOMAIN made -> BOOLEAN],
         book' = {OrderOf(u, bad) : u \in uids},
         unsaved \subseteq unsaved', unsaved' \subseteq DOMAIN made,
         uids \ Uids(book) \subseteq unsaved',
         faults' \in 0 .. MaxFaults, UNCHANGED <<today, made>>
  PROVE  Kept
<1>1. ASSUME NEW o \in book'
      PROVE  /\ o \in Orders /\ o.uid \in uids
             /\ o.id = made[o.uid].id /\ o.date = made[o.uid].date
  <2>1. PICK u \in uids : o = OrderOf(u, bad)
    OBVIOUS
  <2>2. u \in 1 .. MaxOrders /\ made[u] \in MadeOrders /\ bad[u] \in BOOLEAN
    BY Types
  <2> QED
    BY <2>1, <2>2 DEF OrderOf, Orders, MadeOrders
<1>2. ASSUME NEW o \in book', o.uid \notin unsaved'
      PROVE  \E p \in book : p.uid = o.uid /\ p.date = o.date /\ p.id = o.id
  <2>1. PICK p \in book : p.uid = o.uid
    BY <1>1, <1>2 DEF Uids
  <2> QED
    BY <1>1, <2>1 DEF IInv, BookIsMade
<1>3. UpstreamTypeOK'
  BY <1>1, Types DEF UpstreamTypeOK, MadeOrders
<1>4. BookIsMade'
  BY <1>1, <1>2 DEF IInv, BookIsMade
<1>5. ASSUME NEW o \in book', Punctual(o.uid)'
      PROVE  StillThere(o)
  <2>1. o.uid \notin unsaved' /\ Punctual(o.uid)
    BY <1>5 DEF Punctual, FirstOfItsId
  <2> QED
    BY <1>2, <2>1 DEF StillThere
<1> QED
  BY <1>3, <1>4, <1>5, Types DEF Kept

LEMMA UpstreamKeeps ==
  ASSUME IInv, UpstreamNext
  PROVE  Kept
<1>1. ASSUME NEW n \in 1 .. MaxBatch, NEW start \in 1 .. MaxOrders,
             NEW dates \in [1 .. n -> Dates], Place(dates, start)
      PROVE  Kept
  BY <1>1, PlaceKeeps
<1>2. ASSUME NEW gone \in SUBSET Made, NEW bad \in [Made -> BOOLEAN], Alter(gone, bad)
      PROVE  Kept
  <2>1. /\ book' = {OrderOf(u, bad) : u \in Uids(book) \ gone}
        /\ UNCHANGED <<today, made, unsaved, faults>>
    BY <1>2 DEF Alter
  <2>2. Uids(book) \ gone \subseteq DOMAIN made
    BY DEF Uids, IInv, BookIsMade
  <2> QED
    BY <2>1, <2>2, RestKeeps, Types
<1>3. ASSUME NEW after \in SUBSET Made, NEW doubt \in SUBSET Made, NEW bad \in [Made -> BOOLEAN],
             Lapse(after, doubt, bad)
      PROVE  Kept
  <2>1. /\ book' = {OrderOf(u, bad) : u \in after}
        /\ UNCHANGED <<today, made>> /\ faults' = faults + 1 /\ faults < MaxFaults
        /\ unsaved' = unsaved \cup doubt /\ after \ Uids(book) \subseteq unsaved'
    BY <1>3 DEF Lapse
  <2>2. faults' \in 0 .. MaxFaults
    BY <2>1, Types
  <2> QED
    BY <2>1, <2>2, RestKeeps, Types
<1> QED
  BY <1>1, <1>2, <1>3, TickKeeps DEF UpstreamNext

LEMMA UpstreamInv ==
  ASSUME IInv, UpstreamNext, UNCHANGED flow
  PROVE  IInv'
<1>1. Kept /\ UNCHANGED <<facts, letters, lastTo, run>>
  BY UpstreamKeeps DEF flow
<1>2. TypeOK'
  BY <1>1 DEF Kept, IInv, TypeOK
<1>3. today' \in Nat /\ lastTo \in Nat /\ \A r \in Slots : run[r].to \in Nat /\ run[r].from \in Nat
  <2>1. lastTo \in 0 .. LastDay /\ today' \in 1 .. LastDay
    BY <1>1 DEF Kept, UpstreamTypeOK, IInv, TypeOK
  <2>2. \A r \in Slots : run[r].to \in 0 .. LastDay /\ run[r].from \in 0 .. LastDay
    BY DEF IInv, TypeOK
  <2> QED
    BY <2>1, <2>2, Types
<1>4. WindowsArePast' /\ BatchesAreMade'
  BY <1>1, <1>3, Types DEF Kept, IInv, WindowsArePast, BatchesAreMade
<1>5. ASSUME NEW o \in book', Punctual(o.uid)', NEW r \in Slots
      PROVE  /\ run[r].node = "opened" /\ o.date < run[r].from => Landed(o.uid)
             /\ run[r].node = "validated" /\ Missed(r, o)' => Landed(o.uid) \/ o.uid \in run[r].batch
             /\ run[r].node = "inserted" /\ Missed(r, o)' => Landed(o.uid)
  <2>1. CASE MadeToday(o)
    <3>1. o.date \in Nat
      BY <1>1, <1>5 DEF Kept, UpstreamTypeOK, Orders
    <3> QED
      <4>1. today \in Nat /\ run[r].to <= today /\ run'[r] = run[r]
            /\ (run[r].node = "opened" => run[r].from < run[r].to)
        BY <1>1, Types DEF IInv, WindowsArePast
      <4>2. ~Missed(r, o)'
        BY <1>3, <2>1, <4>1 DEF MadeToday, Missed
      <4>3. run[r].node = "opened" => ~(o.date < run[r].from)
        BY <1>3, <2>1, <3>1, <4>1 DEF MadeToday
      <4> QED
        BY <4>2, <4>3
  <2>2. CASE StillThere(o)
    BY <1>1, <2>2 DEF StillThere, IInv, RunsCover, Missed
  <2> QED
    BY <1>1, <1>5, <2>1, <2>2 DEF Kept
<1>6. RunsCover'
  BY <1>1, <1>5 DEF RunsCover, Landed
<1>7. ASSUME NEW o \in book', Punctual(o.uid)', made'[o.uid].on < lastTo, o.date <= lastTo
      PROVE  Landed(o.uid)
  <2>1. CASE MadeToday(o)
    BY <1>3, <1>7, <2>1, Types DEF MadeToday, IInv, WindowsArePast
  <2>2. CASE StillThere(o)
    BY <1>7, <2>2 DEF StillThere, IInv, WindowsLeaveNoGap
  <2> QED
    BY <1>1, <1>7, <2>1, <2>2 DEF Kept
<1>8. WindowsLeaveNoGap'
  BY <1>1, <1>7 DEF WindowsLeaveNoGap, Landed
<1> QED
  BY <1>1, <1>2, <1>4, <1>6, <1>8 DEF Kept, IInv

-----------------------------------------------------------------------------
(* The workflow.                                                            *)

\* A step of the flow leaves the order system as it is.
LEMMA QuietUpstream ==
  ASSUME IInv, UNCHANGED upstreamVars
  PROVE  UpstreamTypeOK' /\ BookIsMade' /\ (\A u : Punctual(u)' <=> Punctual(u))
<1>1. UNCHANGED <<today, book, made, unsaved, faults>>
  BY DEF upstreamVars
<1>2. UpstreamTypeOK'
  BY <1>1 DEF IInv, TypeOK, UpstreamTypeOK
<1>3. BookIsMade'
  BY <1>1 DEF IInv, BookIsMade
<1>4. \A u : Punctual(u)' <=> Punctual(u)
  BY <1>1 DEF Punctual, FirstOfItsId
<1> QED
  BY <1>2, <1>3, <1>4

RunTypes == [node : Nodes, open : BOOLEAN, from : 0 .. LastDay, to : 0 .. LastDay,
             batch : SUBSET (1 .. MaxOrders)]

LEMMA FlowTypes ==
  ASSUME IInv
  PROVE  /\ facts \subseteq DOMAIN made /\ letters \subseteq DOMAIN made
         /\ lastTo \in Nat /\ lastTo \in 0 .. LastDay /\ lastTo <= today /\ today \in Nat
         /\ run \in [Slots -> RunTypes]
         /\ \A r \in Slots : /\ run[r].to \in Nat /\ run[r].from \in Nat /\ run[r].to <= today
                             /\ run[r].to \in 0 .. LastDay
<1>1. /\ facts \cup letters \subseteq DOMAIN made /\ lastTo \in 0 .. LastDay
      /\ run \in [Slots -> RunTypes] /\ lastTo <= today
      /\ \A r \in Slots : run[r].to <= today
  BY DEF IInv, TypeOK, WindowsArePast, RunTypes
<1>2. \A r \in Slots : run[r].to \in 0 .. LastDay /\ run[r].from \in 0 .. LastDay
  BY <1>1 DEF RunTypes
<1> QED
  BY <1>1, <1>2, Types

\* A first window starts at a cold start's reach, or on day 0.
LEMMA FirstWindow ==
  ASSUME IInv
  PROVE  Max({0, today - ColdStart}) = IF today > ColdStart THEN today - ColdStart ELSE 0
<1>1. today \in Int /\ ColdStart \in Int
  BY Types
<1> DEFINE first == IF today > ColdStart THEN today - ColdStart ELSE 0
<1>2. first \in {0, today - ColdStart} /\ \A y \in {0, today - ColdStart} : first >= y
  BY <1>1
<1>3. \A x \in {0, today - ColdStart} : (\A y \in {0, today - ColdStart} : x >= y) => x = first
  BY <1>1
<1> HIDE DEF first
<1>4. Max({0, today - ColdStart}) = first
  BY <1>2, <1>3 DEF Max
<1> QED
  BY <1>4 DEF first

LEMMA OpenRunInv ==
  ASSUME IInv, NEW r \in Slots, OpenRun(r)
  PROVE  IInv'
<1> DEFINE new == [node |-> "opened", open |-> TRUE, batch |-> {},
                   from |-> WindowFrom(lastTo), to |-> today]
<1>1. /\ run' = [run EXCEPT ![r] = new]
      /\ UNCHANGED upstreamVars /\ UNCHANGED <<facts, letters, lastTo>>
      /\ UNCHANGED <<today, book, made>>
  BY DEF OpenRun, upstreamVars
<1>2. WindowFrom(lastTo) \in 0 .. LastDay /\ WindowFrom(lastTo) < today
  BY FirstWindow, FlowTypes, Types DEF WindowFrom
<1>3. new \in RunTypes
  BY <1>2, Types DEF RunTypes, Nodes
<1>4. TypeOK'
  <2>1. run' \in [Slots -> RunTypes]
    BY <1>1, <1>3, FlowTypes
  <2> QED
    BY <1>1, <2>1, QuietUpstream DEF IInv, TypeOK, RunTypes
<1>5. \A s \in Slots : run'[s] = IF s = r THEN new ELSE run[s]
  BY <1>1, FlowTypes
<1>6. WindowsArePast' /\ BatchesAreMade'
  BY <1>1, <1>2, <1>5, FlowTypes DEF IInv, WindowsArePast, BatchesAreMade
<1>7. ASSUME NEW o \in book, Punctual(o.uid), o.date < WindowFrom(lastTo)
      PROVE  Landed(o.uid)
  <2>1. /\ o.date = made[o.uid].date /\ made[o.uid] \in MadeOrders
        /\ made[o.uid].date >= made[o.uid].on - 1 /\ made[o.uid].date >= today - ColdStart
    BY <1>7, Types DEF IInv, BookIsMade, Punctual
  <2>2. o.date \in Nat /\ made[o.uid].on \in Nat
    BY <2>1, Types DEF MadeOrders
  <2>3. o.date < lastTo - 1
    <3>1. lastTo # 0
      BY <1>7, <2>1, <2>2, FirstWindow, Types DEF WindowFrom
    <3> QED
      BY <1>7, <3>1 DEF WindowFrom
  <2>4. made[o.uid].on < lastTo /\ o.date <= lastTo
    BY <2>1, <2>2, <2>3, FlowTypes
  <2> QED
    BY <1>7, <2>4 DEF IInv, WindowsLeaveNoGap
<1>8. RunsCover'
  <2> SUFFICES ASSUME NEW s \in Slots, NEW o \in book', Punctual(o.uid)'
               PROVE  /\ run'[s].node = "opened" /\ o.date < run'[s].from => Landed(o.uid)'
                      /\ run'[s].node = "validated" /\ Missed(s, o)' =>
                            Landed(o.uid)' \/ o.uid \in run'[s].batch
                      /\ run'[s].node = "inserted" /\ Missed(s, o)' => Landed(o.uid)'
    BY DEF RunsCover
  <2>1. o \in book /\ Punctual(o.uid) /\ (Landed(o.uid)' <=> Landed(o.uid))
    BY <1>1, QuietUpstream DEF Landed
  <2>2. CASE s = r
    BY <1>5, <1>7, <2>1, <2>2
  <2>3. CASE s # r
    BY <1>1, <1>5, <2>1, <2>3 DEF IInv, RunsCover, Missed
  <2> QED
    BY <2>2, <2>3
<1>9. WindowsLeaveNoGap'
  BY <1>1, QuietUpstream DEF IInv, WindowsLeaveNoGap, Landed
<1> QED
  BY <1>1, <1>4, <1>6, <1>8, <1>9, QuietUpstream DEF IInv

LEMMA FetchInv ==
  ASSUME IInv, NEW r \in Slots, Fetch(r)
  PROVE  IInv'
<1> DEFINE listed == Listed(run[r].from, run[r].to)
           bad == {o \in listed : o.bad}
           new == [run[r] EXCEPT !.node = "validated", !.from = 0, !.batch = Uids(listed \ bad)]
<1>1. /\ run[r].node = "opened"
      /\ letters' = letters \cup Uids(bad)
      /\ run' = [run EXCEPT ![r].node = "validated", ![r].from = 0, ![r].batch = Uids(listed \ bad)]
      /\ UNCHANGED upstreamVars /\ UNCHANGED <<facts, lastTo>>
      /\ UNCHANGED <<today, book, made>>
  BY DEF Fetch, upstreamVars
<1>2. /\ Uids(bad) \subseteq DOMAIN made
      /\ Uids(listed \ bad) \subseteq DOMAIN made /\ Uids(listed \ bad) \subseteq 1 .. MaxOrders
  <2>1. \A o \in book : o.uid \in DOMAIN made
    BY DEF IInv, BookIsMade
  <2>2. bad \subseteq book /\ listed \ bad \subseteq book
    BY DEF Listed
  <2> QED
    BY <2>1, <2>2, Types DEF Uids
<1>3. ASSUME NEW o \in book, o.date >= run[r].from, o.date <= run[r].to
      PROVE  o.uid \in Uids(bad) \/ o.uid \in Uids(listed \ bad)
  BY <1>3 DEF Listed, Uids
<1> HIDE DEF listed, bad
<1>4. \A s \in Slots : run'[s] = IF s = r THEN new ELSE run[s]
  BY <1>1, FlowTypes DEF RunTypes
<1>5. /\ new \in RunTypes /\ new.node = "validated" /\ new.to = run[r].to
      /\ new.batch = Uids(listed \ bad)
  <2>1. run[r] \in RunTypes
    BY FlowTypes
  <2>2. "validated" \in Nodes /\ 0 \in 0 .. LastDay
    BY Types DEF Nodes
  <2> QED
    BY <1>2, <2>1, <2>2 DEF RunTypes
<1> HIDE DEF new
<1>6. TypeOK'
  <2>1. run' \in [Slots -> RunTypes]
    <3>1. DOMAIN run' = Slots /\ run' = [s \in Slots |-> run'[s]]
      BY <1>1, FlowTypes
    <3> QED
      BY <1>4, <1>5, <3>1, FlowTypes
  <2>2. facts' \cup letters' \subseteq DOMAIN made'
    BY <1>1, <1>2, FlowTypes
  <2> QED
    BY <1>1, <2>1, <2>2, QuietUpstream DEF IInv, TypeOK, RunTypes
<1>7. WindowsArePast' /\ BatchesAreMade'
  <2>1. WindowsArePast'
    BY <1>1, <1>4, <1>5, FlowTypes DEF IInv, WindowsArePast
  <2>2. new.batch \subseteq DOMAIN made
    BY <1>2, <1>5
  <2>3. BatchesAreMade'
    BY <1>1, <1>4, <2>2 DEF IInv, BatchesAreMade
  <2> QED
    BY <2>1, <2>3
<1>8. \A u : Landed(u) => Landed(u)'
  BY <1>1 DEF Landed
<1>9. RunsCover'
  <2> SUFFICES ASSUME NEW s \in Slots, NEW o \in book', Punctual(o.uid)'
               PROVE  /\ run'[s].node = "opened" /\ o.date < run'[s].from => Landed(o.uid)'
                      /\ run'[s].node = "validated" /\ Missed(s, o)' =>
                            Landed(o.uid)' \/ o.uid \in run'[s].batch
                      /\ run'[s].node = "inserted" /\ Missed(s, o)' => Landed(o.uid)'
    BY DEF RunsCover
  <2>1. o \in book /\ Punctual(o.uid) /\ o.date \in Nat
    BY <1>1, QuietUpstream, Types DEF Orders
  <2>2. CASE s = r
    <3>1. o.date < run[r].from => Landed(o.uid)
      BY <1>1, <2>1 DEF IInv, RunsCover
    <3>2. Missed(s, o)' => o.date <= run[r].to
      BY <1>4, <1>5, <2>2 DEF Missed
    <3>3. o.uid \in Uids(bad) => Landed(o.uid)'
      BY <1>1 DEF Landed
    <3> QED
      BY <1>3, <1>4, <1>5, <1>8, <2>1, <2>2, <3>1, <3>2, <3>3, FlowTypes
  <2>3. CASE s # r
    BY <1>1, <1>4, <1>8, <2>1, <2>3 DEF IInv, RunsCover, Missed
  <2> QED
    BY <2>2, <2>3
<1>10. WindowsLeaveNoGap'
  BY <1>1, <1>8, QuietUpstream DEF IInv, WindowsLeaveNoGap
<1> QED
  BY <1>1, <1>6, <1>7, <1>9, <1>10, QuietUpstream DEF IInv

LEMMA InsertInv ==
  ASSUME IInv, NEW r \in Slots, Insert(r)
  PROVE  IInv'
<1> DEFINE new == [run[r] EXCEPT !.node = "inserted", !.batch = {}]
<1>1. /\ run[r].node = "validated"
      /\ facts' = facts \cup NewFacts(run[r].batch)
      /\ run' = [run EXCEPT ![r].node = "inserted", ![r].batch = {}]
      /\ UNCHANGED upstreamVars /\ UNCHANGED <<letters, lastTo>>
      /\ UNCHANGED <<today, book, made>>
  BY DEF Insert, upstreamVars
<1>2. run[r] \in RunTypes /\ run[r].batch \subseteq DOMAIN made
  BY FlowTypes DEF IInv, BatchesAreMade
<1>3. /\ new \in RunTypes /\ new.node = "inserted" /\ new.to = run[r].to
      /\ new.from = run[r].from /\ new.batch = {}
  BY <1>2 DEF RunTypes, Nodes
<1>4. \A s \in Slots : run'[s] = IF s = r THEN new ELSE run[s]
  BY <1>1, FlowTypes DEF RunTypes
<1> HIDE DEF new
<1>5. TypeOK'
  <2>1. run' \in [Slots -> RunTypes]
    <3>1. DOMAIN run' = Slots /\ run' = [s \in Slots |-> run'[s]]
      BY <1>1, FlowTypes
    <3> QED
      BY <1>3, <1>4, <3>1, FlowTypes
  <2>2. facts' \cup letters' \subseteq DOMAIN made'
    BY <1>1, <1>2, FlowTypes DEF NewFacts
  <2> QED
    BY <1>1, <2>1, <2>2, QuietUpstream DEF IInv, TypeOK, RunTypes
<1>6. WindowsArePast' /\ BatchesAreMade'
  BY <1>1, <1>3, <1>4, FlowTypes DEF IInv, WindowsArePast, BatchesAreMade
<1>7. \A u : Landed(u) => Landed(u)'
  BY <1>1 DEF Landed
<1>8. ASSUME NEW o \in book, Punctual(o.uid), o.uid \in run[r].batch
      PROVE  Landed(o.uid)'
  <2> DEFINE u == o.uid
  <2>1. /\ u \in DOMAIN made /\ o.id = made[u].id
        /\ \A v \in DOMAIN made : v > u => made[v].id # made[u].id
        /\ \A v \in 1 .. u - 1 : made[v].id # made[u].id
    BY <1>8 DEF IInv, BookIsMade, Punctual, FirstOfItsId
  <2>2. \A v \in DOMAIN made : made[v].id = made[u].id => v = u
    BY <2>1, Types
  <2>3. CASE u \in facts
    BY <1>1, <2>3 DEF Landed
  <2>4. CASE u \notin facts
    <3>1. \A f \in facts : made[f].id # made[u].id
      BY <2>2, <2>4, FlowTypes
    <3>2. \A v \in run[r].batch : made[v].id = made[u].id => u <= v
      BY <1>2, <2>1, <2>2, Types
    <3> QED
      BY <1>1, <1>8, <3>1, <3>2 DEF NewFacts, Landed
  <2> QED
    BY <2>3, <2>4
<1>9. RunsCover'
  <2> SUFFICES ASSUME NEW s \in Slots, NEW o \in book', Punctual(o.uid)'
               PROVE  /\ run'[s].node = "opened" /\ o.date < run'[s].from => Landed(o.uid)'
                      /\ run'[s].node = "validated" /\ Missed(s, o)' =>
                            Landed(o.uid)' \/ o.uid \in run'[s].batch
                      /\ run'[s].node = "inserted" /\ Missed(s, o)' => Landed(o.uid)'
    BY DEF RunsCover
  <2>1. o \in book /\ Punctual(o.uid)
    BY <1>1, QuietUpstream
  <2>2. CASE s = r
    BY <1>1, <1>3, <1>4, <1>7, <1>8, <2>1, <2>2 DEF IInv, RunsCover, Missed
  <2>3. CASE s # r
    BY <1>1, <1>4, <1>7, <2>1, <2>3 DEF IInv, RunsCover, Missed
  <2> QED
    BY <2>2, <2>3
<1>10. WindowsLeaveNoGap'
  BY <1>1, <1>7, QuietUpstream DEF IInv, WindowsLeaveNoGap
<1> QED
  BY <1>1, <1>5, <1>6, <1>9, <1>10, QuietUpstream DEF IInv

\* Steps that end executions, or tell the ledger so: each is idle after it, or as it
\* was but for its ledger row.
LEMMA EndsInv ==
  ASSUME IInv, UNCHANGED <<upstreamVars, facts, letters>>,
         run' \in [Slots -> RunTypes],
         \A s \in Slots :
            \/ run'[s].node = "idle" /\ run'[s].to = 0 /\ run'[s].batch = {}
            \/ /\ run'[s].node = run[s].node /\ run'[s].from = run[s].from
               /\ run'[s].to = run[s].to /\ run'[s].batch = run[s].batch,
         \/ lastTo' = lastTo
         \/ \E s \in Slots : run[s].node = "inserted" /\ lastTo' = run[s].to
  PROVE  IInv'
<1>1. UNCHANGED <<today, book, made>>
  BY DEF upstreamVars
<1>2. lastTo' \in 0 .. LastDay /\ lastTo' <= today
  BY FlowTypes
<1>3. TypeOK'
  BY <1>1, <1>2, FlowTypes, QuietUpstream DEF IInv, TypeOK, RunTypes
<1>4. WindowsArePast' /\ BatchesAreMade'
  BY <1>1, <1>2, FlowTypes DEF IInv, WindowsArePast, BatchesAreMade
<1>5. \A u : Landed(u)' <=> Landed(u)
  BY DEF Landed
<1>6. RunsCover'
  BY <1>1, <1>5, QuietUpstream DEF IInv, RunsCover, Missed
<1>7. WindowsLeaveNoGap'
  BY <1>1, <1>5, QuietUpstream DEF IInv, WindowsLeaveNoGap, RunsCover, Missed
<1> QED
  BY <1>3, <1>4, <1>6, <1>7, QuietUpstream DEF IInv

LEMMA IdleType == ASSUME NEW b \in BOOLEAN PROVE [Idle EXCEPT !.open = b] \in RunTypes
BY Types, UpstreamAssumption DEF Idle, RunTypes, Nodes

LEMMA FlowInv ==
  ASSUME IInv, FlowNext
  PROVE  IInv'
<1>1. ASSUME NEW r \in Slots, OpenRun(r) \/ Fetch(r) \/ Insert(r) PROVE IInv'
  BY <1>1, OpenRunInv, FetchInv, InsertInv
<1>2. Idle \in RunTypes
  BY Types DEF Idle, RunTypes, Nodes
<1>3. ASSUME NEW r \in Slots, Finalize(r) PROVE IInv'
  <2>1. /\ UNCHANGED <<upstreamVars, facts, letters>> /\ run[r].node = "inserted"
        /\ run' = [run EXCEPT ![r] = Idle]
        /\ lastTo' = Max({lastTo, run[r].to})
    BY <1>3 DEF Finalize
  <2>2. lastTo' = lastTo \/ lastTo' = run[r].to
    BY <2>1, FlowTypes DEF Max
  <2>3. run' \in [Slots -> RunTypes]
    BY <1>2, <2>1, FlowTypes
  <2>4. \A s \in Slots : run'[s] = IF s = r THEN Idle ELSE run[s]
    BY <2>1, FlowTypes
  <2> QED
    BY <2>1, <2>2, <2>3, <2>4, EndsInv DEF Idle
<1>4. ASSUME NEW r \in Slots, NodeFails(r) PROVE IInv'
  <2>1. /\ UNCHANGED <<upstreamVars, facts, letters, lastTo>>
        /\ run' = [run EXCEPT ![r] = Idle]
    BY <1>4 DEF NodeFails
  <2>2. run' \in [Slots -> RunTypes]
    BY <1>2, <2>1, FlowTypes
  <2>3. \A s \in Slots : run'[s] = IF s = r THEN Idle ELSE run[s]
    BY <2>1, FlowTypes
  <2> QED
    BY <2>1, <2>2, <2>3, EndsInv DEF Idle
<1>5. ASSUME NEW r \in Slots, RunKilled(r) PROVE IInv'
  <2> DEFINE new == [Idle EXCEPT !.open = run[r].open]
  <2>1. /\ UNCHANGED <<upstreamVars, facts, letters, lastTo>>
        /\ run' = [run EXCEPT ![r] = new]
    BY <1>5 DEF RunKilled
  <2>2. new \in RunTypes /\ new.node = "idle" /\ new.to = 0 /\ new.batch = {}
    <3>1. run[r].open \in BOOLEAN
      BY FlowTypes DEF RunTypes
    <3>2. new.node = "idle" /\ new.to = 0 /\ new.batch = {}
      BY DEF Idle
    <3> QED
      BY <3>1, <3>2, IdleType
  <2> HIDE DEF new
  <2>3. run' \in [Slots -> RunTypes]
    BY <2>1, <2>2, FlowTypes
  <2>4. \A s \in Slots : run'[s] = IF s = r THEN new ELSE run[s]
    BY <2>1, FlowTypes
  <2> QED
    BY <2>1, <2>2, <2>3, <2>4, EndsInv
<1>6. ASSUME NEW stale \in SUBSET Slots, RecoverStale(stale) PROVE IInv'
  <2>1. /\ UNCHANGED <<upstreamVars, facts, letters, lastTo>>
        /\ run' = [r \in Slots |-> IF r \in stale THEN [run[r] EXCEPT !.open = FALSE] ELSE run[r]]
    BY <1>6 DEF RecoverStale
  <2>2. ASSUME NEW r \in Slots
        PROVE  /\ run'[r] \in RunTypes
               /\ run'[r].node = run[r].node /\ run'[r].from = run[r].from
               /\ run'[r].to = run[r].to /\ run'[r].batch = run[r].batch
    <3>1. run[r] \in RunTypes
      BY FlowTypes
    <3> QED
      BY <2>1, <3>1 DEF RunTypes
  <2>3. run' \in [Slots -> RunTypes]
    BY <2>1, <2>2
  <2> QED
    BY <2>1, <2>2, <2>3, EndsInv
<1> QED
  BY <1>1, <1>3, <1>4, <1>5, <1>6 DEF FlowNext, RunStep

LEMMA Inductive == IInv /\ [Next]_vars => IInv'
<1> SUFFICES ASSUME IInv, [Next]_vars PROVE IInv'
  OBVIOUS
<1>1. CASE UNCHANGED vars
  <2>1. UNCHANGED <<upstreamVars, facts, letters, lastTo, run>>
    BY <1>1 DEF vars, flow
  <2>2. run' \in [Slots -> RunTypes]
    BY <2>1, FlowTypes
  <2> QED
    BY <2>1, <2>2, EndsInv
<1> QED
  BY <1>1, UpstreamInv, FlowInv DEF Next

LEMMA Invariance == Spec => []IInv
BY InitInv, Inductive, PTL DEF Spec

\* Every variable keeps its type.
THEOREM TypeCorrect == Spec => []TypeOK
<1>1. IInv => TypeOK
  BY DEF IInv
<1> QED
  BY <1>1, Invariance, PTL

\* The one day's overlap of Create Batch Context is enough: with any executions, any
\* failures, kills and recoveries, no order falls between two windows.
THEOREM NoGap == Spec => []WindowsLeaveNoGap
<1>1. IInv => WindowsLeaveNoGap
  BY DEF IInv
<1> QED
  BY <1>1, Invariance, PTL
=============================================================================
