-------------------------- MODULE Maintenance_proofs --------------------------
(***************************************************************************)
(* Proofs about Maintenance: for any number of maintenance runs, operators,  *)
(* rows and attempts, dead letters survive, replays are exact, a replay       *)
(* loads only what its rules let pass, and summaries are honest.             *)
(***************************************************************************)
EXTENDS Maintenance, FiniteSetTheorems, WellFoundedInduction, TLAPS

Row    == [batch : Nat \ {0}, order : Orders, cause : Causes, status : Statuses]
Replay == [origin : Nat \ {0}, attempt : Nat \ {0}, target : Nat \ {0},
           outcome : {"succeeded", "duplicate", "failed_again"}]
Picks  == UNION {[S -> Nat \ {0}] : S \in SUBSET Nat}
Work   == [at : 0 .. Done, alone : BOOLEAN, todo : Seq(Nat \ {0}), picks : Picks,
           staged : Nat, debt : Nat, failed : BOOLEAN]

Actors == Runs \cup Callers

\* Every variable ranges over its table's or its memory's type.
TypeOK ==
    /\ rows \in Seq(Row) /\ facts \subseteq Ids /\ known \in BOOLEAN
    /\ replays \subseteq Replay /\ IsFiniteSet(replays)
    /\ maint \in [Actors -> Work]

\* A run has picked rows, and has something to report, only in the middle of its
\* replay step; what it has counted is what it did, or more.
Orderly(w) ==
    /\ w.staged # 0 \/ DOMAIN w.picks # {} => w.at = Step.replay /\ w.todo # <<>>
    /\ w.debt >= w.staged
    /\ ~w.failed => w.debt = w.staged
RunsAreOrderly == \A m \in Actors : Orderly(maint[m])

\* A batch is numbered after its first row.
BatchesAreNumbered == \A i \in Ids : rows[i].batch <= i

\* A row a run has picked is a dead letter, and of its batch all are picked. Its next
\* attempt may have been used since, and none after it.
PicksStand ==
    \A m \in Actors : \A i \in DOMAIN maint[m].picks :
        /\ i \in Ids /\ rows[i].status = "failed"
        /\ maint[m].picks[i] <= Used(i) + 1 /\ maint[m].picks[i] <= MaxAttempts
        /\ \A j \in Ids : rows[j].batch = rows[i].batch /\ rows[j].status = "failed" =>
              j \in DOMAIN maint[m].picks

\* The parts of ReplaysAreExact: the attempts on a row, the rows of a batch, a replay.
Attempts(i) == {p.attempt : p \in {q \in replays : q.origin = i}}
AttemptsAreNumbered == \A i \in Ids : Attempts(i) = 1 .. Used(i) /\ Used(i) <= MaxAttempts
BatchesStayTogether ==
    \A i, j \in Ids : rows[i].batch = rows[j].batch /\ rows[i].status = "failed" /\ rows[j].status = "failed"
                         => Used(i) = Used(j)
Recorded(p) ==
    /\ p.origin \in Ids /\ p.target \in Ids
    /\ rows[p.origin].status = "failed"
    /\ rows[p.target].order = rows[p.origin].order /\ rows[p.target].cause = rows[p.origin].cause
    /\ rows[p.target].status \in DOMAIN Outcome /\ OutcomeIsTrue(p)
ReplaysAreRecorded ==
    \A p \in replays : Recorded(p) /\ \A q \in replays : q.target = p.target => q = p

\* The row that a fact was loaded from has been processed, whether or not it is still there.
FactsAreLoaded == \A f \in facts : rows[f].status \in {"processed", "gone"}

IInv ==
    /\ TypeOK /\ FactsAreLoaded /\ RunsAreOrderly /\ BatchesAreNumbered /\ PicksStand
    /\ AttemptsAreNumbered /\ BatchesStayTogether /\ ReplaysAreRecorded
    /\ OnlyCurrencyRulesDiffer

USE MaintenanceAssumption DEF Step, Done, Statuses

-----------------------------------------------------------------------------
(* The work of a run.                                                       *)

LEMMA IdleIsOrderly == Idle \in Work /\ Orderly(Idle) /\ DOMAIN Idle.picks = {}
<1>1. NoPicks \in Picks /\ DOMAIN NoPicks = {}
  <2>1. NoPicks \in [{} -> Nat \ {0}]
    BY DEF NoPicks
  <2> QED
    BY <2>1 DEF Picks, NoPicks
<1>2. <<>> \in Seq(Nat \ {0})
  OBVIOUS
<1> QED
  BY <1>1, <1>2 DEF Idle, Work, Orderly

\* What a step leaves behind is orderly, if it reports no more than was done, and all
\* of it unless it has failed.
LEMMA AfterIsOrderly ==
  ASSUME NEW r \in Work, r.at \in 1 .. 7, NEW n \in Nat, n <= r.debt,
         NEW f \in BOOLEAN, f \/ r.debt = n
  PROVE  After(r, n, f) \in Work /\ Orderly(After(r, n, f)) /\ DOMAIN After(r, n, f).picks = {}
<1>1. CASE r.alone
  BY <1>1, IdleIsOrderly DEF After
<1>2. CASE ~r.alone
  <2> DEFINE w == [r EXCEPT !.at = @ + 1, !.todo = <<>>, !.picks = NoPicks, !.staged = 0,
                            !.debt = @ - n, !.failed = f]
  <2>1. After(r, n, f) = w
    BY <1>2 DEF After
  <2>2. NoPicks \in Picks /\ DOMAIN NoPicks = {} /\ <<>> \in Seq(Nat \ {0})
    BY IdleIsOrderly DEF Idle, Work
  <2>3. r.at \in Nat /\ r.debt \in Nat
    BY DEF Work
  <2>4. r.at + 1 \in 0 .. 8 /\ r.debt - n \in Nat
    BY <2>3
  <2>5. w \in Work
    BY <2>2, <2>4 DEF Work
  <2>6. Orderly(w) /\ DOMAIN w.picks = {}
    BY <2>2, <2>3 DEF Orderly, Work
  <2> QED
    BY <2>1, <2>5, <2>6
<1> QED
  BY <1>1, <1>2 DEF Work

LEMMA DidIsWork ==
  ASSUME NEW r \in Work, NEW n \in Nat
  PROVE  /\ Did(r, n) \in Work /\ Did(r, n).debt = r.debt + n
         /\ Did(r, n).at = r.at /\ Did(r, n).failed = r.failed /\ Did(r, n).staged = r.staged
<1>1. r.debt + n \in Nat
  BY DEF Work
<1>2. Did(r, n) = [r EXCEPT !.debt = r.debt + n]
  BY DEF Did
<1> QED
  BY <1>1, <1>2 DEF Work

\* A step other than replay that reports all it did, or raises.
LEMMA ReturnedIsOrderly ==
  ASSUME NEW r \in Work, Orderly(r), r.at \in 1 .. 7, r.staged = 0, NEW n \in Nat
  PROVE  LET w == Returned(Did(r, n), n)
         IN  w \in Work /\ Orderly(w) /\ DOMAIN w.picks = {}
<1>1. r.debt \in Nat /\ r.failed \in BOOLEAN /\ (r.failed \/ r.debt = 0)
  BY DEF Orderly, Work
<1> DEFINE d == Did(r, n)
<1>2. d \in Work /\ d.debt = r.debt + n /\ d.at = r.at /\ d.failed = r.failed
  BY DidIsWork
<1>3. n <= d.debt /\ (d.failed \/ d.debt = n) /\ d.failed \in BOOLEAN /\ d.at \in 1 .. 7
  BY <1>1, <1>2
<1>4. Returned(d, n) = After(d, n, d.failed)
  BY DEF Returned
<1> HIDE DEF d
<1> QED
  BY <1>2, <1>3, <1>4, AfterIsOrderly DEF d

LEMMA RaisedIsOrderly ==
  ASSUME NEW r \in Work, r.at \in 1 .. 7
  PROVE  Raised(r) \in Work /\ Orderly(Raised(r)) /\ DOMAIN Raised(r).picks = {}
<1>1. 0 <= r.debt
  BY DEF Work
<1> QED
  BY <1>1, AfterIsOrderly DEF Raised

LEMMA BatchDoneIsOrderly ==
  ASSUME NEW r \in Work, Orderly(r), r.at = Step.replay, r.todo # <<>>, NEW n \in Nat
  PROVE  BatchDone(r, n) \in Work /\ Orderly(BatchDone(r, n)) /\ DOMAIN BatchDone(r, n).picks = {}
<1> DEFINE d == Did(r, n)
           s == [d EXCEPT !.todo = Tail(@), !.picks = NoPicks, !.staged = @ + n]
<1>1. d \in Work /\ d.debt = r.debt + n /\ d.at = 5 /\ d.failed = r.failed /\ d.staged = r.staged /\ d.todo = r.todo
  BY DidIsWork DEF Did, Work
<1>2. NoPicks \in Picks /\ DOMAIN NoPicks = {}
  BY IdleIsOrderly DEF Idle, Work
<1>3. r.todo \in Seq(Nat \ {0}) /\ Tail(r.todo) \in Seq(Nat \ {0}) /\ r.staged \in Nat /\ r.debt \in Nat
  BY DEF Work
<1>4. s \in Work
  <2>1. d.staged + n \in Nat /\ Tail(d.todo) \in Seq(Nat \ {0})
    BY <1>1, <1>3
  <2> QED
    BY <1>1, <1>2, <2>1 DEF Work
<1>5. /\ s.debt = r.debt + n /\ s.staged = r.staged + n /\ s.failed = r.failed /\ s.at = 5
      /\ DOMAIN s.picks = {}
  BY <1>1, <1>2 DEF Work
<1>6. BatchDone(r, n) = IF s.todo = <<>> THEN Returned(s, s.staged) ELSE s
  BY DEF BatchDone
<1>7. CASE s.todo = <<>>
  <2>1. s.staged \in Nat /\ s.staged <= s.debt /\ s.failed \in BOOLEAN /\ (s.failed \/ s.debt = s.staged)
    <3>1. r.failed \in BOOLEAN /\ r.debt >= r.staged /\ (~r.failed => r.debt = r.staged)
      BY DEF Orderly, Work
    <3> QED
      BY <1>3, <1>5, <3>1, SMTT(30)
  <2>2. s.at \in 1 .. 7
    BY <1>5
  <2>3. BatchDone(r, n) = After(s, s.staged, s.failed)
    BY <1>6, <1>7 DEF Returned
  <2> HIDE DEF s
  <2> QED
    BY <1>4, <2>1, <2>2, <2>3, AfterIsOrderly
<1>8. CASE s.todo # <<>>
  <2>1. Orderly(s)
    <3>1. s.debt >= s.staged /\ (~s.failed => s.debt = s.staged)
      BY <1>3, <1>5 DEF Orderly
    <3> QED
      BY <1>5, <1>8, <3>1 DEF Orderly
  <2> QED
    BY <1>4, <1>5, <1>6, <1>8, <2>1
<1> QED
  BY <1>7, <1>8
-----------------------------------------------------------------------------
(* The tables.                                                              *)

LEMMA RowFacts ==
  ASSUME IInv
  PROVE  /\ rows \in Seq(Row) /\ Len(rows) \in Nat /\ Ids = 1 .. Len(rows)
         /\ \A i \in Ids : rows[i] \in Row /\ i \in Nat \ {0}
<1>1. rows \in Seq(Row)
  BY DEF IInv, TypeOK
<1> QED
  BY <1>1 DEF Ids

LEMMA FiniteIds ==
  ASSUME NEW n \in Nat, NEW S \in SUBSET (1 .. n)
  PROVE  IsFiniteSet(S) /\ Cardinality(S) \in Nat
<1>1. IsFiniteSet(1 .. n)
  BY FS_Interval
<1> QED
  BY <1>1, FS_Subset, FS_CardinalityType

LEMMA UsedIsCount ==
  ASSUME IInv, NEW i
  PROVE  Used(i) \in Nat /\ IsFiniteSet({p \in replays : p.origin = i})
<1>1. IsFiniteSet(replays) /\ {p \in replays : p.origin = i} \subseteq replays
  BY DEF IInv, TypeOK
<1> QED
  BY <1>1, FS_Subset, FS_CardinalityType DEF Used

\* Nothing has been replayed that is not there.
LEMMA UnusedOutside ==
  ASSUME IInv, NEW i, i \notin Ids
  PROVE  Used(i) = 0 /\ {p \in replays : p.origin = i} = {}
<1>1. {p \in replays : p.origin = i} = {}
  BY DEF IInv, ReplaysAreRecorded, Recorded
<1> QED
  BY <1>1, FS_EmptySet DEF Used

\* A set of numbers that is not empty has a first element.
LEMMA FirstOf ==
  ASSUME NEW S \in SUBSET Nat, S # {}
  PROVE  \E m \in S : \A k \in S : m <= k
<1>1. PICK m \in S : \A k \in S : ~(<<k, m>> \in OpToRel(<, Nat))
  BY WFMin, NatLessThanWellFounded, Zenon
<1>2. \A k \in S : ~(k < m)
  BY <1>1, Zenon DEF OpToRel
<1> QED
  BY <1>2

\* How a batch settles: as many rows with their payloads, processed only by the rules and
\* if the order is new, skipped only if it is not.
LEMMA SettledRows ==
  ASSUME NEW n \in Nat, NEW new \in [1 .. n -> Row], NEW rejected
  PROVE  /\ Settled(new, rejected) \in [1 .. n -> Row]
         /\ \A i \in 1 .. n :
               LET r == Settled(new, rejected)[i]
               IN  /\ r.batch = new[i].batch /\ r.order = new[i].order /\ r.cause = new[i].cause
                   /\ r.status \in {"processed", "skipped", "failed"}
                   /\ r.status = "processed" => r.cause \notin rejected
                   /\ r.status = "skipped" => \E f \in facts : rows[f].order = r.order
<1> DEFINE status(i) == IF new[i].cause \in rejected THEN "failed"
                        ELSE IF IsFact(new[i].order) THEN "skipped" ELSE "processed"
<1>1. Settled(new, rejected) = [i \in 1 .. n |-> [new[i] EXCEPT !.status = status(i)]]
  BY DEF Settled
<1>2. \A i \in 1 .. n : /\ status(i) \in {"processed", "skipped", "failed"}
                        /\ status(i) = "processed" => new[i].cause \notin rejected
                        /\ status(i) = "skipped" => \E f \in facts : rows[f].order = new[i].order
  BY DEF IsFact
<1> HIDE DEF status
<1>3. \A i \in 1 .. n : [new[i] EXCEPT !.status = status(i)] \in Row
  BY <1>2 DEF Row
<1>4. \A i \in 1 .. n : LET r == [new[i] EXCEPT !.status = status(i)]
                        IN  /\ r.batch = new[i].batch /\ r.order = new[i].order /\ r.cause = new[i].cause
                            /\ r.status = status(i)
  BY DEF Row
<1> DEFINE row(i) == [new[i] EXCEPT !.status = status(i)]
<1>5. \A i \in 1 .. n : row(i) \in Row
  BY <1>3
<1>6. ASSUME NEW i \in 1 .. n
      PROVE  /\ row(i).batch = new[i].batch /\ row(i).order = new[i].order
             /\ row(i).cause = new[i].cause /\ row(i).status = status(i)
  BY <1>4
<1>7. Settled(new, rejected) = [i \in 1 .. n |-> row(i)]
  BY <1>1
<1> HIDE DEF row
<1>8. Settled(new, rejected) \in [1 .. n -> Row]
  BY <1>5, <1>7
<1>9. ASSUME NEW i \in 1 .. n PROVE Settled(new, rejected)[i] = row(i)
  BY <1>7
<1> HIDE DEF Settled
<1>10. ASSUME NEW i \in 1 .. n
       PROVE  LET r == Settled(new, rejected)[i]
              IN  /\ r.batch = new[i].batch /\ r.order = new[i].order /\ r.cause = new[i].cause
                  /\ r.status \in {"processed", "skipped", "failed"}
                  /\ r.status = "processed" => r.cause \notin rejected
                  /\ r.status = "skipped" => \E f \in facts : rows[f].order = r.order
  BY <1>2, <1>6, <1>9
<1> QED
  BY <1>8, <1>10

\* What is inserted of a settled batch: processed rows, and one for the order of each.
LEMMA InsertedRows ==
  ASSUME NEW n \in Nat, NEW new \in [1 .. n -> Row]
  PROVE  /\ Inserted(new) \subseteq 1 .. n /\ \A i \in Inserted(new) : new[i].status = "processed"
         /\ \A i \in 1 .. n : new[i].status = "processed" =>
               \E k \in Inserted(new) : new[k].order = new[i].order
<1>1. Inserted(new) = {i \in 1 .. n : /\ new[i].status = "processed"
                                      /\ \A j \in 1 .. n : new[j].status = "processed" /\ new[j].order = new[i].order
                                                             => i <= j}
  BY DEF Inserted
<1>2. ASSUME NEW i \in 1 .. n, new[i].status = "processed"
      PROVE  \E k \in Inserted(new) : new[k].order = new[i].order
  <2> DEFINE S == {j \in 1 .. n : new[j].status = "processed" /\ new[j].order = new[i].order}
  <2>1. S \in SUBSET Nat /\ S # {}
    BY <1>2
  <2>2. PICK k \in S : \A j \in S : k <= j
    <3> HIDE DEF S
    <3> QED
      BY <2>1, FirstOf
  <2>3. k \in Inserted(new) /\ new[k].order = new[i].order
    BY <1>1, <2>2
  <2> QED
    BY <2>3
<1> QED
  BY <1>1, <1>2

\* A step keeps payloads, dead letters and what has been processed; a row that a replay
\* has written stays what it became; new rows are a batch of their own.
Grows ==
    /\ rows' \in Seq(Row) /\ Len(rows) <= Len(rows')
    /\ \A i \in Ids :
          /\ rows'[i].batch = rows[i].batch /\ rows'[i].order = rows[i].order /\ rows'[i].cause = rows[i].cause
          /\ rows'[i].status = "failed" <=> rows[i].status = "failed"
          /\ rows[i].status \in {"processed", "gone"} => rows'[i].status \in {"processed", "gone"}
          /\ (\E p \in replays : p.target = i) => rows'[i].status = rows[i].status
    /\ \A i \in Ids' \ Ids : rows'[i].batch = Len(rows) + 1

LEMMA GrownIds ==
  ASSUME IInv, Grows
  PROVE  /\ Ids' = 1 .. Len(rows') /\ Len(rows') \in Nat /\ Ids \subseteq Ids'
         /\ \A i \in Ids' \ Ids : i \in Nat /\ i > Len(rows)
         /\ \A i \in Ids' : rows'[i] \in Row /\ i \in Nat \ {0}
BY RowFacts DEF Grows, Ids

LEMMA BatchesKept ==
  ASSUME IInv, Grows
  PROVE  /\ BatchesAreNumbered'
         /\ \A i, j \in Ids' : rows'[i].batch = rows'[j].batch => (i \in Ids <=> j \in Ids)
<1>1. \A i \in Ids : rows'[i].batch <= i /\ rows'[i].batch <= Len(rows) /\ rows'[i].batch \in Nat
  BY RowFacts DEF IInv, BatchesAreNumbered, Grows, Row
<1>2. \A i \in Ids' \ Ids : rows'[i].batch = Len(rows) + 1 /\ rows'[i].batch <= i
  BY RowFacts, GrownIds DEF Grows
<1>3. BatchesAreNumbered'
  BY <1>1, <1>2 DEF BatchesAreNumbered
<1> QED
  BY <1>1, <1>2, <1>3, RowFacts

LEMMA PicksKept ==
  ASSUME IInv, Grows, \A i \in Ids : Used(i)' \in Nat /\ Used(i)' >= Used(i),
         \A m \in Actors : DOMAIN maint'[m].picks = {} \/ maint'[m].picks = maint[m].picks
  PROVE  PicksStand'
<1> SUFFICES ASSUME NEW m \in Actors, NEW i \in DOMAIN maint'[m].picks
             PROVE  /\ i \in Ids' /\ rows'[i].status = "failed"
                    /\ maint'[m].picks[i] <= Used(i)' + 1 /\ maint'[m].picks[i] <= MaxAttempts
                    /\ \A j \in Ids' : rows'[j].batch = rows'[i].batch /\ rows'[j].status = "failed" =>
                          j \in DOMAIN maint'[m].picks
  BY DEF PicksStand
<1>1. maint'[m].picks = maint[m].picks /\ i \in DOMAIN maint[m].picks
  OBVIOUS
<1>2. /\ i \in Ids /\ rows[i].status = "failed"
      /\ maint[m].picks[i] <= Used(i) + 1 /\ maint[m].picks[i] <= MaxAttempts
      /\ \A j \in Ids : rows[j].batch = rows[i].batch /\ rows[j].status = "failed" =>
            j \in DOMAIN maint[m].picks
  BY <1>1 DEF IInv, PicksStand
<1>3. i \in Ids' /\ rows'[i].status = "failed"
  BY <1>2, GrownIds DEF Grows
<1>4. maint[m].picks[i] \in Nat
  <2>1. maint[m].picks \in Picks
    BY DEF IInv, TypeOK, Work
  <2>2. PICK S \in SUBSET Nat : maint[m].picks \in [S -> Nat \ {0}]
    BY <2>1 DEF Picks
  <2> QED
    BY <1>1, <2>2
<1>5. maint[m].picks[i] <= Used(i)' + 1
  <2>1. Used(i) \in Nat
    BY UsedIsCount
  <2>2. Used(i)' \in Nat /\ Used(i)' >= Used(i)
    BY <1>2
  <2> QED
    BY <1>2, <1>4, <2>1, <2>2
<1>6. ASSUME NEW j \in Ids', rows'[j].batch = rows'[i].batch, rows'[j].status = "failed"
      PROVE  j \in DOMAIN maint[m].picks
  <2>1. j \in Ids
    BY <1>2, <1>3, <1>6, BatchesKept
  <2> QED
    BY <1>2, <1>6, <2>1 DEF Grows
<1> QED
  BY <1>1, <1>2, <1>3, <1>5, <1>6

\* Facts stay, and those that a step adds were loaded from its own rows.
NewFactsAreSound ==
    /\ facts \subseteq facts'
    /\ \A f \in facts' \ facts :
          /\ f \in Ids' \ Ids /\ rows'[f].status = "processed"
          /\ rows'[f].cause # "none" =>
                \/ rows'[f].cause = "drift" /\ known'
                \/ rows'[f].cause = "unsupported" /\ \E p \in replays' : p.target = f

LEMMA FactsKept ==
  ASSUME IInv, Grows, NewFactsAreSound, known => known', replays \subseteq replays'
  PROVE  facts' \subseteq Ids' /\ FactsAreLoaded' /\ OnlyCurrencyRulesDiffer'
<1>1. facts \subseteq Ids /\ Ids \subseteq Ids'
  BY GrownIds DEF IInv, TypeOK
<1>2. facts' \subseteq Ids'
  BY <1>1 DEF NewFactsAreSound
<1>3. FactsAreLoaded'
  BY <1>1 DEF IInv, FactsAreLoaded, NewFactsAreSound, Grows
<1>4. ASSUME NEW f \in facts', rows'[f].cause # "none"
      PROVE  \/ rows'[f].cause = "drift" /\ known'
             \/ rows'[f].cause = "unsupported" /\ \E p \in replays' : p.target = f
  <2>1. CASE f \in facts
    <3>1. rows'[f].cause = rows[f].cause
      BY <1>1, <2>1 DEF Grows
    <3> QED
      BY <1>4, <2>1, <3>1 DEF IInv, OnlyCurrencyRulesDiffer
  <2>2. CASE f \notin facts
    BY <1>4, <2>2 DEF NewFactsAreSound
  <2> QED
    BY <2>1, <2>2
<1> QED
  BY <1>2, <1>3, <1>4 DEF OnlyCurrencyRulesDiffer

LEMMA RecordsKept ==
  ASSUME IInv, Grows, NewFactsAreSound, NEW p \in replays
  PROVE  Recorded(p)'
<1>1. Recorded(p)
  BY DEF IInv, ReplaysAreRecorded
<1>2. rows'[p.target].status = rows[p.target].status
  BY <1>1 DEF Recorded, Grows
<1>3. OutcomeIsTrue(p)'
  <2>1. p.target \in Ids /\ OutcomeIsTrue(p)
    BY <1>1 DEF Recorded
  <2>2. \A i \in Ids : rows'[i].order = rows[i].order /\ rows'[i].batch = rows[i].batch
    BY DEF Grows
  <2>3. facts \subseteq Ids /\ facts \subseteq facts' /\ (p.target \in facts' => p.target \in facts)
    BY <2>1 DEF IInv, TypeOK, NewFactsAreSound
  <2>4. ASSUME p.outcome # "failed_again"
        PROVE  \E f \in facts' : /\ rows'[f].order = rows'[p.target].order
                                 /\ IF p.outcome = "succeeded" THEN rows'[f].batch = rows'[p.target].batch
                                    ELSE rows'[f].batch < rows'[p.target].batch
    <3>1. PICK f \in facts : /\ rows[f].order = rows[p.target].order
                             /\ IF p.outcome = "succeeded" THEN rows[f].batch = rows[p.target].batch
                                ELSE rows[f].batch < rows[p.target].batch
      BY <2>1, <2>4 DEF OutcomeIsTrue
    <3> QED
      BY <2>1, <2>2, <2>3, <3>1
  <2> QED
    BY <1>2, <2>1, <2>3, <2>4 DEF OutcomeIsTrue
<1> QED
  BY <1>1, <1>2, <1>3, GrownIds DEF Recorded, Grows

\* A step that replays nothing.
LEMMA Kept ==
  ASSUME IInv, Grows, NewFactsAreSound, UNCHANGED replays, known' \in BOOLEAN, known => known',
         maint' \in [Actors -> Work], RunsAreOrderly', PicksStand'
  PROVE  IInv'
<1>1. \A i : Used(i)' = Used(i) /\ Attempts(i)' = Attempts(i)
  BY DEF Used, Attempts
<1>6. facts' \subseteq Ids' /\ FactsAreLoaded' /\ OnlyCurrencyRulesDiffer'
  BY FactsKept
<1>2. TypeOK'
  BY <1>6 DEF IInv, TypeOK, Grows
<1>3. AttemptsAreNumbered'
  <2>1. ASSUME NEW i \in Ids' PROVE Attempts(i) = 1 .. Used(i) /\ Used(i) <= MaxAttempts
    <3>1. CASE i \in Ids
      BY <3>1 DEF IInv, AttemptsAreNumbered
    <3>2. CASE i \notin Ids
      BY <3>2, UnusedOutside DEF Attempts
    <3> QED
      BY <3>1, <3>2
  <2> QED
    BY <1>1, <2>1 DEF AttemptsAreNumbered
<1>4. BatchesStayTogether'
  <2> SUFFICES ASSUME NEW i \in Ids', NEW j \in Ids', rows'[i].batch = rows'[j].batch,
                      rows'[i].status = "failed", rows'[j].status = "failed"
               PROVE  Used(i) = Used(j)
    BY <1>1 DEF BatchesStayTogether
  <2>1. CASE i \in Ids
    <3>1. j \in Ids
      BY <2>1, BatchesKept
    <3> QED
      BY <2>1, <3>1 DEF IInv, BatchesStayTogether, Grows
  <2>2. CASE i \notin Ids
    <3>1. j \notin Ids
      BY <2>2, BatchesKept
    <3> QED
      BY <2>2, <3>1, UnusedOutside
  <2> QED
    BY <2>1, <2>2
<1>5. ReplaysAreRecorded'
  BY RecordsKept DEF IInv, ReplaysAreRecorded
<1> QED
  BY <1>2, <1>3, <1>4, <1>5, <1>6, BatchesKept DEF IInv

LEMMA Still ==
  ASSUME IInv, UNCHANGED database
  PROVE  Grows /\ NewFactsAreSound /\ known' \in BOOLEAN
         /\ \A i : Used(i)' = Used(i)
BY DEF IInv, TypeOK, database, Grows, NewFactsAreSound, Used, Ids

\* A step that only changes what one run remembers.
LEMMA RunStepKeeps ==
  ASSUME IInv, UNCHANGED database, NEW m \in Actors, NEW w \in Work, Orderly(w),
         DOMAIN w.picks = {} \/ w.picks = maint[m].picks,
         maint' = [maint EXCEPT ![m] = w]
  PROVE  IInv'
<1>1. maint' \in [Actors -> Work]
  BY DEF IInv, TypeOK
<1>2. \A n \in Actors : maint'[n] = IF n = m THEN w ELSE maint[n]
  BY DEF IInv, TypeOK
<1>3. RunsAreOrderly'
  BY <1>2 DEF IInv, RunsAreOrderly
<1>4. PicksStand'
  <2>1. \A n \in Actors : DOMAIN maint'[n].picks = {} \/ maint'[n].picks = maint[n].picks
    BY <1>2
  <2>2. ASSUME NEW i \in Ids PROVE Used(i)' \in Nat /\ Used(i)' >= Used(i)
    <3>1. Used(i) \in Nat /\ Used(i)' = Used(i)
      BY Still, UsedIsCount
    <3> QED
      BY <3>1
  <2> QED
    BY <2>1, <2>2, Still, PicksKept
<1>5. known => known'
  BY DEF database
<1> QED
  BY <1>1, <1>3, <1>4, <1>5, Still, Kept DEF database
-----------------------------------------------------------------------------
(* Each action.                                                             *)

LEMMA InitHolds == Init => IInv
<1> SUFFICES ASSUME Init PROVE IInv
  OBVIOUS
<1>1. rows = <<>> /\ facts = {} /\ known = FALSE /\ replays = {} /\ Ids = {}
      /\ maint = [m \in Actors |-> Idle]
  BY DEF Init, Ids, Actors
<1>2. TypeOK
  <2>1. <<>> \in Seq(Row) /\ IsFiniteSet({})
    BY FS_EmptySet
  <2> QED
    BY <1>1, <2>1, IdleIsOrderly DEF TypeOK
<1>3. RunsAreOrderly /\ PicksStand
  BY <1>1, IdleIsOrderly DEF RunsAreOrderly, PicksStand
<1>4. /\ BatchesAreNumbered /\ AttemptsAreNumbered /\ BatchesStayTogether
      /\ ReplaysAreRecorded /\ OnlyCurrencyRulesDiffer /\ FactsAreLoaded
  BY <1>1 DEF FactsAreLoaded, BatchesAreNumbered, AttemptsAreNumbered, BatchesStayTogether, ReplaysAreRecorded,
              OnlyCurrencyRulesDiffer
<1> QED
  BY <1>2, <1>3, <1>4 DEF IInv

\* New rows at the end, of one batch.
LEMMA Appended ==
  ASSUME IInv, NEW n \in Nat, NEW new \in [1 .. n -> Row],
         \A i \in 1 .. n : new[i].batch = Len(rows) + 1, rows' = rows \o new
  PROVE  /\ Grows /\ Ids' = 1 .. Len(rows) + n
         /\ \A i \in Ids : rows'[i] = rows[i]
         /\ \A i \in 1 .. n : Len(rows) + i \in Ids' \ Ids /\ rows'[Len(rows) + i] = new[i]
         /\ \A i \in Ids' \ Ids : i - Len(rows) \in 1 .. n /\ rows'[i] = new[i - Len(rows)]
<1>1. new \in Seq(Row) /\ Len(new) = n
  OBVIOUS
<1>2. /\ rows' \in Seq(Row) /\ Len(rows') = Len(rows) + n
      /\ \A i \in 1 .. Len(rows) : rows'[i] = rows[i]
      /\ \A i \in Len(rows) + 1 .. Len(rows) + n : rows'[i] = new[i - Len(rows)]
  BY <1>1, RowFacts
<1>3. Ids' = 1 .. Len(rows) + n /\ Ids' \ Ids = Len(rows) + 1 .. Len(rows) + n
  BY <1>2, RowFacts DEF Ids
<1>4. \A i \in Ids' \ Ids : i - Len(rows) \in 1 .. n /\ rows'[i] = new[i - Len(rows)]
  BY <1>2, <1>3, RowFacts
<1>5. ASSUME NEW i \in 1 .. n
      PROVE  Len(rows) + i \in Ids' \ Ids /\ rows'[Len(rows) + i] = new[i]
  <2>1. Len(rows) + i \in Ids' \ Ids /\ Len(rows) + i - Len(rows) = i
    BY <1>3, RowFacts
  <2> QED
    BY <1>4, <2>1
<1>6. Grows
  <2>1. \A i \in Ids : rows'[i] = rows[i]
    BY <1>2, RowFacts
  <2>2. \A i \in Ids' \ Ids : rows'[i].batch = Len(rows) + 1
    BY <1>4
  <2>3. Len(rows) <= Len(rows')
    BY <1>2, RowFacts
  <2> QED
    BY <1>2, <2>1, <2>2, <2>3 DEF Grows
<1> QED
  BY <1>2, <1>3, <1>4, <1>5, <1>6, RowFacts

\* The same, and none of them a replay's; some of them become facts.
LEMMA AppendKeeps ==
  ASSUME IInv, NEW n \in Nat, NEW new \in [1 .. n -> Row], NEW inserted \in SUBSET (1 .. n),
         \A i \in 1 .. n : new[i].batch = Len(rows) + 1,
         \A i \in inserted : /\ new[i].status = "processed"
                             /\ new[i].cause # "none" => new[i].cause = "drift" /\ known,
         rows' = rows \o new, facts' = facts \cup {Len(rows) + i : i \in inserted},
         UNCHANGED <<known, replays, maint>>
  PROVE  IInv'
<1>1. Grows /\ \A i \in 1 .. n : Len(rows) + i \in Ids' \ Ids /\ rows'[Len(rows) + i] = new[i]
  BY Appended
<1>2. NewFactsAreSound
  <2> SUFFICES ASSUME NEW f \in facts' \ facts
               PROVE  /\ f \in Ids' \ Ids /\ rows'[f].status = "processed"
                      /\ rows'[f].cause # "none" => rows'[f].cause = "drift" /\ known'
    BY DEF NewFactsAreSound
  <2>1. PICK i \in inserted : f = Len(rows) + i
    OBVIOUS
  <2>2. i \in 1 .. n /\ f \in Ids' \ Ids /\ rows'[f] = new[i]
    BY <1>1, <2>1
  <2> QED
    BY <2>2
<1>3. maint' \in [Actors -> Work] /\ RunsAreOrderly' /\ known' \in BOOLEAN
  BY DEF IInv, TypeOK, RunsAreOrderly
<1>4. PicksStand'
  <2>1. ASSUME NEW i \in Ids PROVE Used(i)' \in Nat /\ Used(i)' >= Used(i)
    <3>1. Used(i) \in Nat /\ Used(i)' = Used(i)
      BY UsedIsCount DEF Used
    <3> QED
      BY <3>1
  <2> QED
    BY <1>1, <2>1, PicksKept
<1> QED
  BY <1>1, <1>2, <1>3, <1>4, Kept

LEMMA StagedRows ==
  ASSUME IInv, NEW n \in Nat, NEW payloads \in [1 .. n -> Payloads]
  PROVE  /\ Staged(payloads) \in [1 .. n -> Row]
         /\ \A i \in 1 .. n : Staged(payloads)[i].batch = Len(rows) + 1 /\ Staged(payloads)[i].status = "pending"
<1>1. Staged(payloads) = [i \in 1 .. n |-> [batch |-> Len(rows) + 1, order |-> payloads[i].order,
                                             cause |-> payloads[i].cause, status |-> "pending"]]
  BY DEF Staged
<1>2. Len(rows) + 1 \in Nat \ {0}
  BY RowFacts
<1>3. \A i \in 1 .. n : payloads[i].order \in Orders /\ payloads[i].cause \in Causes
  BY DEF Payloads
<1> QED
  BY <1>1, <1>2, <1>3 DEF Row

LEMMA IngestHolds ==
  ASSUME IInv, NEW n \in Nat, NEW payloads \in [1 .. n -> Payloads], Ingest(payloads)
  PROVE  IInv'
<1> DEFINE new == Settled(Staged(payloads), StageThreeRejects)
<1>1. new \in [1 .. n -> Row]
  BY StagedRows, SettledRows
<1>2. \A i \in 1 .. n : new[i].batch = Len(rows) + 1
  BY StagedRows, SettledRows
<1>3. ASSUME NEW i \in 1 .. n, new[i].status = "processed", new[i].cause # "none"
      PROVE  new[i].cause = "drift" /\ known
  <2>1. new[i].cause \notin StageThreeRejects
    BY <1>3, StagedRows, SettledRows
  <2>2. new[i].cause \in Wrong
    BY <1>1 DEF Row
  <2> QED
    BY <1>3, <2>1, <2>2 DEF StageThreeRejects, Drifted, Wrong
<1>4. /\ rows' = rows \o new /\ facts' = facts \cup {Len(rows) + i : i \in Inserted(new)}
      /\ UNCHANGED <<known, replays, maint>>
  BY DEF Ingest, Loads
<1> HIDE DEF new
<1> DEFINE inserted == Inserted(new)
<1>5. inserted \in SUBSET (1 .. n) /\ \A i \in inserted : new[i].status = "processed"
  BY <1>1, InsertedRows
<1>6. facts' = facts \cup {Len(rows) + i : i \in inserted}
  BY <1>4
<1> HIDE DEF inserted
<1>7. \A i \in inserted : new[i].cause # "none" => new[i].cause = "drift" /\ known
  BY <1>3, <1>5
<1> QED
  BY <1>1, <1>2, <1>4, <1>5, <1>6, <1>7, AppendKeeps

LEMMA StrandHolds ==
  ASSUME IInv, NEW payload \in Payloads, Strand(payload)
  PROVE  IInv'
<1> DEFINE new == Staged(<<payload>>)
<1>1. <<payload>> \in [1 .. 1 -> Payloads]
  OBVIOUS
<1>2. new \in [1 .. 1 -> Row] /\ \A i \in 1 .. 1 : new[i].batch = Len(rows) + 1 /\ new[i].status = "pending"
  BY <1>1, StagedRows
<1>3. rows' = rows \o new /\ UNCHANGED <<facts, known, replays, maint>>
  BY DEF Strand
<1>4. facts' = facts \cup {Len(rows) + i : i \in {}}
  BY <1>3
<1> HIDE DEF new
<1> QED
  BY <1>2, <1>3, <1>4, AppendKeeps

LEMMA LearnHolds ==
  ASSUME IInv, LearnReference
  PROVE  IInv'
<1>1. known' = TRUE /\ UNCHANGED <<rows, facts, replays, maint>>
  BY DEF LearnReference
<1>2. Grows /\ NewFactsAreSound
  BY <1>1 DEF IInv, TypeOK, Grows, NewFactsAreSound, Ids
<1>3. RunsAreOrderly' /\ PicksStand' /\ maint' \in [Actors -> Work]
  BY <1>1 DEF IInv, TypeOK, RunsAreOrderly, PicksStand, Used, Ids
<1> QED
  BY <1>1, <1>2, <1>3, Kept

LEMMA StartHolds ==
  ASSUME IInv, NEW m \in Runs, Start(m)
  PROVE  IInv'
<1> DEFINE w == [Idle EXCEPT !.at = 1]
<1>1. Idle \in Work /\ DOMAIN Idle.picks = {} /\ Idle.staged = 0 /\ Idle.debt = 0
  BY IdleIsOrderly DEF Idle
<1>2. w \in Work /\ DOMAIN w.picks = {} /\ w.staged = 0 /\ w.debt = 0
  BY <1>1 DEF Work
<1>3. Orderly(w)
  BY <1>2 DEF Orderly
<1>4. maint' = [maint EXCEPT ![m] = w] /\ UNCHANGED database /\ m \in Actors
  BY DEF Start, Actors
<1> HIDE DEF w
<1> QED
  BY <1>2, <1>3, <1>4, RunStepKeeps

LEMMA AsksHold ==
  ASSUME IInv, NEW m \in Callers, AskPurge(m) \/ \E b \in Batches : AskReplay(m, b)
  PROVE  IInv'
<1>1. PICK step \in {4, 5}, batches \in Seq(Nat \ {0}) : Asks(m, step, batches)
  <2>1. CASE AskPurge(m)
    <3>1. <<>> \in Seq(Nat \ {0})
      OBVIOUS
    <3> QED
      BY <2>1, <3>1 DEF AskPurge
  <2>2. ASSUME NEW b \in Batches, AskReplay(m, b)
        PROVE  \E step \in {4, 5}, batches \in Seq(Nat \ {0}) : Asks(m, step, batches)
    <3>1. b \in Nat \ {0}
      BY RowFacts DEF Batches, Row
    <3>2. <<b>> \in Seq(Nat \ {0})
      BY <3>1
    <3> QED
      BY <2>2, <3>2 DEF AskReplay
  <2> QED
    BY <2>1, <2>2
<1> DEFINE w == [Idle EXCEPT !.at = step, !.alone = TRUE, !.todo = batches]
<1>2. Idle \in Work /\ DOMAIN Idle.picks = {} /\ Idle.staged = 0 /\ Idle.debt = 0
  BY IdleIsOrderly DEF Idle
<1>3. w \in Work /\ DOMAIN w.picks = {} /\ w.staged = 0 /\ w.debt = 0
  <2>1. step \in 0 .. 8 /\ TRUE \in BOOLEAN /\ batches \in Seq(Nat \ {0})
    OBVIOUS
  <2> QED
    BY <1>2, <2>1 DEF Work
<1>4. Orderly(w)
  BY <1>3 DEF Orderly
<1>5. maint' = [maint EXCEPT ![m] = w] /\ UNCHANGED database /\ m \in Actors
  BY <1>1 DEF Asks, Actors
<1> HIDE DEF w
<1> QED
  BY <1>3, <1>4, <1>5, RunStepKeeps

\* The steps that leave the tables as they are.
LEMMA QuietHolds ==
  ASSUME IInv, NEW m \in Actors,
         \/ Recover(m) \/ Ageing(m) \/ Renotify(m) \/ Health(m) \/ StepRaises(m) \/ Killed(m)
  PROVE  IInv'
<1> DEFINE r == maint[m]
<1>1. r \in Work /\ Orderly(r) /\ UNCHANGED database
  BY DEF IInv, TypeOK, RunsAreOrderly, Recover, Ageing, Renotify, Health, StepRaises, Killed
<1>2. r.at \in 0 .. 8 /\ r.staged \in Nat /\ r.debt \in Nat /\ r.failed \in BOOLEAN
  BY <1>1 DEF Work
<1>3. r.at # 5 => r.staged = 0
  BY <1>1 DEF Orderly
<1>4. ASSUME r.at \in 1 .. 7, r.at # 5, NEW n \in Nat, maint' = [maint EXCEPT ![m] = Returned(Did(r, n), n)]
      PROVE  IInv'
  <2> DEFINE w == Returned(Did(r, n), n)
  <2>1. w \in Work /\ Orderly(w) /\ DOMAIN w.picks = {}
    BY <1>1, <1>3, <1>4, ReturnedIsOrderly
  <2> HIDE DEF w
  <2> QED
    BY <1>1, <1>4, <2>1, RunStepKeeps DEF w
<1>5. ASSUME r.at \in 1 .. 7, NEW n \in Nat, maint' = [maint EXCEPT ![m] = Raised(Did(r, n))]
      PROVE  IInv'
  <2>1. Did(r, n) \in Work /\ Did(r, n).at \in 1 .. 7
    BY <1>1, <1>5, DidIsWork
  <2> DEFINE w == Raised(Did(r, n))
  <2>2. w \in Work /\ Orderly(w) /\ DOMAIN w.picks = {}
    BY <2>1, RaisedIsOrderly
  <2> HIDE DEF w
  <2> QED
    BY <1>1, <1>5, <2>2, RunStepKeeps DEF w
<1>6. CASE Recover(m)
  <2>1. r.at \in 1 .. 7 /\ r.at # 5
    BY <1>6 DEF Recover
  <2>2. PICK n \in 0 .. 1 : maint' = [maint EXCEPT ![m] = Returned(Did(r, n), n)]
    BY <1>6 DEF Recover
  <2>3. n \in Nat
    OBVIOUS
  <2> QED
    BY <1>4, <2>1, <2>2, <2>3
<1>7. CASE Ageing(m) \/ Health(m)
  <2>1. r.at \in 1 .. 7 /\ r.at # 5
    BY <1>7 DEF Ageing, Health
  <2>2. maint' = [maint EXCEPT ![m] = Returned(r, 0)]
    BY <1>7 DEF Ageing, Health
  <2>3. Did(r, 0) = r
    BY <1>1 DEF Did, Work
  <2> QED
    BY <1>4, <2>1, <2>2, <2>3
<1>8. CASE Renotify(m)
  <2>1. r.at \in 1 .. 7 /\ r.at # 5
    BY <1>8 DEF Renotify
  <2>2. PICK sent \in 0 .. 1, unsent \in 0 .. 1 :
              \/ maint' = [maint EXCEPT ![m] = Raised(Did(r, sent + unsent))]
              \/ maint' = [maint EXCEPT ![m] = Returned(Did(r, sent + unsent), sent + unsent)]
    BY <1>8 DEF Renotify
  <2>3. sent + unsent \in Nat
    OBVIOUS
  <2> QED
    BY <1>4, <1>5, <2>1, <2>2, <2>3
<1>9. CASE StepRaises(m)
  <2>1. r.at \in 1 .. 7
    BY <1>2, <1>9 DEF StepRaises, Free
  <2>2. maint' = [maint EXCEPT ![m] = Raised(r)]
    BY <1>9 DEF StepRaises
  <2>3. Did(r, 0) = r
    BY <1>1 DEF Did, Work
  <2> QED
    BY <1>5, <2>1, <2>2, <2>3
<1>10. CASE Killed(m)
  BY <1>1, <1>10, IdleIsOrderly, RunStepKeeps DEF Killed
<1> QED
  BY <1>6, <1>7, <1>8, <1>9, <1>10

\* The purge takes rows that are no dead letter and no part of a replay.
LEMMA RetainHolds ==
  ASSUME IInv, NEW m \in Actors, Retain(m)
  PROVE  IInv'
<1> DEFINE r == maint[m]
<1>1. PICK doomed \in SUBSET Purgeable :
         /\ rows' = [i \in Ids |-> IF i \in doomed THEN [rows[i] EXCEPT !.status = "gone"] ELSE rows[i]]
         /\ maint' = [maint EXCEPT ![m] = Returned(Did(r, Cardinality(doomed)), Cardinality(doomed))]
         /\ UNCHANGED <<facts, known, replays>>
  BY DEF Retain
<1>2. Cardinality(doomed) \in Nat
  <2>1. doomed \subseteq 1 .. Len(rows) /\ Len(rows) \in Nat
    BY RowFacts DEF Purgeable
  <2>2. IsFiniteSet(1 .. Len(rows))
    BY <2>1, FS_Interval
  <2> QED
    BY <2>1, <2>2, FS_Subset, FS_CardinalityType
<1>3. \A i \in Ids : [rows[i] EXCEPT !.status = "gone"] \in Row
  BY RowFacts DEF Row
<1>4. /\ rows' \in [1 .. Len(rows) -> Row] /\ Ids' = Ids
      /\ \A i \in Ids : rows'[i] = IF i \in doomed THEN [rows[i] EXCEPT !.status = "gone"] ELSE rows[i]
  BY <1>1, <1>3, RowFacts DEF Ids
<1>5. rows' \in Seq(Row) /\ Len(rows') = Len(rows)
  BY <1>4, RowFacts
<1>6. \A i \in doomed : rows[i].status # "failed" /\ \A p \in replays : p.target # i
  BY DEF Purgeable, Involved
<1>7. Grows
  <2>1. ASSUME NEW i \in Ids
        PROVE  /\ rows'[i].batch = rows[i].batch /\ rows'[i].order = rows[i].order /\ rows'[i].cause = rows[i].cause
               /\ rows'[i].status = IF i \in doomed THEN "gone" ELSE rows[i].status
    <3>1. rows[i] \in Row
      BY RowFacts
    <3>2. CASE i \in doomed
      BY <1>4, <3>1, <3>2, ZenonT(40) DEF Row
    <3>3. CASE i \notin doomed
      BY <1>4, <3>3
    <3> QED
      BY <3>2, <3>3
  <2> QED
    BY <1>4, <1>5, <1>6, <2>1, RowFacts DEF Grows
<1>8. NewFactsAreSound
  BY <1>1 DEF NewFactsAreSound
<1> DEFINE w == Returned(Did(r, Cardinality(doomed)), Cardinality(doomed))
<1>9. r \in Work /\ Orderly(r) /\ r.at = 4
  BY DEF IInv, TypeOK, RunsAreOrderly, Retain
<1>10. w \in Work /\ Orderly(w) /\ DOMAIN w.picks = {}
  <2>1. r.staged = 0 /\ r.at \in 1 .. 7
    BY <1>9 DEF Orderly
  <2> QED
    BY <1>2, <1>9, <2>1, ReturnedIsOrderly
<1>11. maint' = [maint EXCEPT ![m] = w]
  BY <1>1
<1> HIDE DEF w
<1>12. maint' \in [Actors -> Work] /\ \A n \in Actors : maint'[n] = IF n = m THEN w ELSE maint[n]
  BY <1>10, <1>11 DEF IInv, TypeOK
<1>13. RunsAreOrderly'
  BY <1>10, <1>12 DEF IInv, RunsAreOrderly
<1>14. PicksStand'
  <2>1. \A n \in Actors : DOMAIN maint'[n].picks = {} \/ maint'[n].picks = maint[n].picks
    BY <1>10, <1>12
  <2>2. ASSUME NEW i \in Ids PROVE Used(i)' \in Nat /\ Used(i)' >= Used(i)
    <3>1. Used(i) \in Nat /\ Used(i)' = Used(i)
      BY <1>1, UsedIsCount DEF Used
    <3> QED
      BY <3>1
  <2> QED
    BY <1>7, <2>1, <2>2, PicksKept
<1>15. known' \in BOOLEAN
  BY <1>1 DEF IInv, TypeOK
<1> QED
  BY <1>1, <1>7, <1>8, <1>12, <1>13, <1>14, <1>15, Kept
-----------------------------------------------------------------------------
(* Replay.                                                                  *)

LEMMA PlanHolds ==
  ASSUME IInv, NEW m \in Actors, Plan(m)
  PROVE  IInv'
<1> DEFINE r == maint[m]
<1>1. r \in Work /\ Orderly(r) /\ r.at = 5 /\ r.todo = <<>> /\ UNCHANGED database
  BY DEF IInv, TypeOK, RunsAreOrderly, Plan
<1>2. r.staged = 0 /\ DOMAIN r.picks = {}
  BY <1>1 DEF Orderly
<1>3. CASE maint' = [maint EXCEPT ![m] = Returned(r, 0)]
  <2> DEFINE w == Returned(Did(r, 0), 0)
  <2>1. Did(r, 0) = r
    BY <1>1 DEF Did, Work
  <2>2. w \in Work /\ Orderly(w) /\ DOMAIN w.picks = {}
    BY <1>1, <1>2, ReturnedIsOrderly
  <2>3. maint' = [maint EXCEPT ![m] = w]
    BY <1>3, <2>1
  <2> HIDE DEF w
  <2> QED
    BY <1>1, <2>2, <2>3, RunStepKeeps
<1>4. ASSUME NEW batches \in Ascending(Candidates), maint' = [maint EXCEPT ![m] = [r EXCEPT !.todo = batches]]
      PROVE  IInv'
  <2> DEFINE w == [r EXCEPT !.todo = batches]
  <2>1. Candidates \subseteq 1 .. Len(rows) /\ Len(rows) \in Nat
    BY RowFacts DEF Candidates, Batches, IInv, BatchesAreNumbered, Row
  <2>2. Cardinality(Candidates) \in Nat
    BY <2>1, FiniteIds
  <2>3. batches \in [1 .. Cardinality(Candidates) -> Nat \ {0}]
    <3>1. batches \in [1 .. Cardinality(Candidates) -> Candidates]
      BY DEF Ascending
    <3>2. Candidates \subseteq Nat \ {0}
      BY <2>1
    <3> HIDE DEF Candidates
    <3> QED
      BY <3>1, <3>2
  <2>4. batches \in Seq(Nat \ {0})
    BY <2>2, <2>3
  <2>5. w \in Work /\ w.staged = r.staged /\ w.picks = r.picks /\ w.debt = r.debt /\ w.failed = r.failed
    BY <1>1, <2>4 DEF Work
  <2>6. Orderly(w)
    BY <1>1, <1>2, <2>5 DEF Orderly
  <2> HIDE DEF w
  <2> QED
    BY <1>1, <1>4, <2>5, <2>6, RunStepKeeps DEF w
<1> QED
  BY <1>3, <1>4 DEF Plan

LEMMA ReadsHold ==
  ASSUME IInv, NEW m \in Actors, ReplayReads(m)
  PROVE  IInv'
<1> DEFINE r == maint[m]
           rowsLeft == Spendable(Head(r.todo))
           w == [r EXCEPT !.picks = [i \in rowsLeft |-> Used(i) + 1]]
<1>1. /\ r \in Work /\ Orderly(r) /\ r.at = Step.replay /\ r.todo # <<>> /\ DOMAIN r.picks = {}
      /\ UNCHANGED database
  BY DEF IInv, TypeOK, RunsAreOrderly, ReplayReads
<1>2. CASE rowsLeft = {}
  <2> DEFINE v == BatchDone(r, 0)
  <2>1. v \in Work /\ Orderly(v) /\ DOMAIN v.picks = {}
    BY <1>1, BatchDoneIsOrderly
  <2>2. maint' = [maint EXCEPT ![m] = v]
    BY <1>2 DEF ReplayReads
  <2> HIDE DEF v
  <2> QED
    BY <1>1, <2>1, <2>2, RunStepKeeps
<1>3. CASE rowsLeft # {}
  <2>1. maint' = [maint EXCEPT ![m] = w]
    BY <1>3 DEF ReplayReads
  <2>2. rowsLeft \subseteq Ids /\ rowsLeft \subseteq Nat
    BY RowFacts DEF Spendable
  <2>3. ASSUME NEW i \in rowsLeft PROVE Used(i) \in Nat /\ Used(i) + 1 \in Nat \ {0}
    <3>1. Used(i) \in Nat
      BY UsedIsCount
    <3> QED
      BY <3>1
  <2>4. [i \in rowsLeft |-> Used(i) + 1] \in Picks
    BY <2>2, <2>3 DEF Picks
  <2>5. /\ w \in Work /\ w.picks = [i \in rowsLeft |-> Used(i) + 1] /\ w.staged = r.staged /\ w.debt = r.debt
        /\ w.at = r.at /\ w.todo = r.todo /\ w.failed = r.failed
    BY <1>1, <2>4 DEF Work
  <2>6. Orderly(w)
    BY <1>1, <2>5 DEF Orderly
  <2> HIDE DEF w
  <2>7. maint' \in [Actors -> Work] /\ \A n \in Actors : maint'[n] = IF n = m THEN w ELSE maint[n]
    BY <2>1, <2>5 DEF IInv, TypeOK
  <2>8. RunsAreOrderly'
    BY <2>6, <2>7 DEF IInv, RunsAreOrderly
  <2>9. PicksStand'
    <3>1. \A i : Used(i)' = Used(i)
      BY <1>1, Still
    <3>2. rows' = rows /\ Ids' = Ids
      BY <1>1 DEF database, Ids
    <3>3. ASSUME NEW i \in rowsLeft
          PROVE  /\ i \in Ids /\ rows[i].status = "failed"
                 /\ w.picks[i] <= Used(i) + 1 /\ w.picks[i] <= MaxAttempts
                 /\ \A j \in Ids : rows[j].batch = rows[i].batch /\ rows[j].status = "failed" =>
                       j \in DOMAIN w.picks
      <4>1. i \in Ids /\ rows[i].status = "failed" /\ Used(i) < MaxAttempts /\ rows[i].batch = Head(r.todo)
        BY DEF Spendable
      <4>2. w.picks[i] = Used(i) + 1 /\ Used(i) \in Nat /\ MaxAttempts \in Nat
        BY <2>3, <2>5
      <4>3. ASSUME NEW j \in Ids, rows[j].batch = rows[i].batch, rows[j].status = "failed"
            PROVE  j \in DOMAIN w.picks
        <5>1. Used(j) = Used(i)
          BY <4>1, <4>3 DEF IInv, BatchesStayTogether
        <5>2. j \in rowsLeft
          BY <4>1, <4>3, <5>1 DEF Spendable
        <5> QED
          BY <2>5, <5>2
      <4>4. w.picks[i] <= Used(i) + 1 /\ w.picks[i] <= MaxAttempts
        BY <4>1, <4>2
      <4> QED
        BY <4>1, <4>3, <4>4
    <3>4. DOMAIN w.picks = rowsLeft
      BY <2>5
    <3> QED
      BY <2>7, <3>1, <3>2, <3>3, <3>4 DEF IInv, PicksStand
  <2> QED
    BY <1>1, <2>7, <2>8, <2>9, Still, Kept DEF database
<1> QED
  BY <1>2, <1>3

\* The rows a run has picked, in the order of their ids: each of them once.
LEMMA OriginalsAreThePicks ==
  ASSUME IInv, NEW m \in Actors, NEW originals \in Ascending(DOMAIN maint[m].picks)
  PROVE  LET n == Cardinality(DOMAIN maint[m].picks)
         IN  /\ n \in Nat /\ DOMAIN maint[m].picks \subseteq Ids
             /\ originals \in [1 .. n -> DOMAIN maint[m].picks]
             /\ \A i, j \in 1 .. n : originals[i] = originals[j] => i = j
             /\ \A o \in DOMAIN maint[m].picks : \E i \in 1 .. n : originals[i] = o
<1> DEFINE D == DOMAIN maint[m].picks
           n == Cardinality(D)
<1>1. D \subseteq 1 .. Len(rows) /\ Len(rows) \in Nat
  BY RowFacts DEF IInv, PicksStand
<1>2. IsFiniteSet(D) /\ n \in Nat
  BY <1>1, FiniteIds
<1>3. originals \in [1 .. n -> D] /\ \A i, j \in 1 .. n : i < j => originals[i] < originals[j]
  BY DEF Ascending
<1>4. \A i \in 1 .. n : originals[i] \in Nat
  BY <1>1, <1>3
<1>5. \A i, j \in 1 .. n : originals[i] = originals[j] => i = j
  <2> SUFFICES ASSUME NEW i \in 1 .. n, NEW j \in 1 .. n, i < j
               PROVE  originals[i] # originals[j]
    BY <1>2
  <2> QED
    BY <1>3, <1>4
<1> HIDE DEF D, n
<1>6. originals \in Injection(1 .. n, D)
  BY <1>3, <1>5 DEF Injection, IsInjective
<1>7. IsFiniteSet(1 .. n) /\ Cardinality(1 .. n) = n
  <2>1. IsFiniteSet(1 .. n) /\ Cardinality(1 .. n) = IF 1 > n THEN 0 ELSE n - 1 + 1
    <3> 1 \in Int /\ n \in Int
      BY <1>2
    <3> QED
      BY FS_Interval
  <2> QED
    BY <1>2, <2>1
<1>8. originals \in Surjection(1 .. n, D)
  BY <1>2, <1>6, <1>7, FS_Injection DEF n
<1>9. \A o \in D : \E i \in 1 .. n : originals[i] = o
  BY <1>8 DEF Surjection
<1> QED
  BY <1>1, <1>2, <1>3, <1>5, <1>9, RowFacts DEF D, n

\* An attempt nobody has taken is the next one.
LEMMA PicksAreNext ==
  ASSUME IInv, NEW m \in Actors, ~Taken(maint[m].picks), NEW o \in DOMAIN maint[m].picks
  PROVE  maint[m].picks[o] = Used(o) + 1 /\ Used(o) \in Nat
<1>1. o \in Ids /\ maint[m].picks[o] <= Used(o) + 1
  BY DEF IInv, PicksStand
<1>2. maint[m].picks[o] \in Nat \ {0}
  <2>1. maint[m].picks \in Picks
    BY DEF IInv, TypeOK, Work
  <2>2. PICK S \in SUBSET Nat : maint[m].picks \in [S -> Nat \ {0}]
    BY <2>1 DEF Picks
  <2> QED
    BY <2>2
<1>3. maint[m].picks[o] \notin Attempts(o)
  BY DEF Taken, Attempts
<1>4. Attempts(o) = 1 .. Used(o) /\ Used(o) \in Nat
  BY <1>1, UsedIsCount DEF IInv, AttemptsAreNumbered
<1> QED
  BY <1>1, <1>2, <1>3, <1>4

\* What a replay that is not refused writes: copies of the picked rows, and a record of
\* each.
Writes(m, originals, n, new) ==
    /\ rows' = rows \o new /\ facts' = facts \cup {Len(rows) + i : i \in Inserted(new)}
    /\ replays' = replays \cup
          {[origin |-> originals[i], attempt |-> maint[m].picks[originals[i]],
            target |-> Len(rows) + i, outcome |-> Outcome[new[i].status]] : i \in 1 .. n}

Copied(m, originals, n, new) ==
    /\ n \in Nat /\ DOMAIN maint[m].picks \subseteq Ids
    /\ originals \in [1 .. n -> DOMAIN maint[m].picks]
    /\ \A i, j \in 1 .. n : originals[i] = originals[j] => i = j
    /\ \A o \in DOMAIN maint[m].picks : \E i \in 1 .. n : originals[i] = o
    /\ new \in [1 .. n -> Row]
    /\ \A i \in 1 .. n :
          /\ new[i].batch = Len(rows) + 1 /\ new[i].status \in DOMAIN Outcome
          /\ new[i].order = rows[originals[i]].order /\ new[i].cause = rows[originals[i]].cause
          /\ new[i].status = "processed" => new[i].cause \notin ReplayRejects
          /\ new[i].status = "skipped" => \E f \in facts : rows[f].order = new[i].order
    /\ \A i \in Inserted(new) : new[i].cause # "outside"

\* The records, each at its row.
LEMMA RecordOf ==
  ASSUME IInv, NEW m \in Actors, ~Taken(maint[m].picks), NEW originals, NEW n, NEW new,
         Copied(m, originals, n, new), Writes(m, originals, n, new)
  PROVE  \E record \in [1 .. n -> Replay] :
            /\ replays' = replays \cup {record[i] : i \in 1 .. n}
            /\ \A i \in 1 .. n : /\ record[i].origin = originals[i] /\ originals[i] \in Ids
                                 /\ record[i].attempt = Used(originals[i]) + 1
                                 /\ record[i].target = Len(rows) + i
                                 /\ record[i].outcome = Outcome[new[i].status]
<1> DEFINE record == [i \in 1 .. n |->
              [origin |-> originals[i], attempt |-> maint[m].picks[originals[i]],
               target |-> Len(rows) + i, outcome |-> Outcome[new[i].status]]]
<1>1. ASSUME NEW i \in 1 .. n
      PROVE  /\ originals[i] \in Ids /\ originals[i] \in Nat \ {0}
             /\ maint[m].picks[originals[i]] = Used(originals[i]) + 1
             /\ Used(originals[i]) + 1 \in Nat \ {0}
             /\ Len(rows) + i \in Nat \ {0}
             /\ Outcome[new[i].status] \in {"succeeded", "duplicate", "failed_again"}
  <2>1. originals[i] \in DOMAIN maint[m].picks /\ originals[i] \in Ids
    BY DEF Copied
  <2>2. maint[m].picks[originals[i]] = Used(originals[i]) + 1 /\ Used(originals[i]) \in Nat
    BY <2>1, PicksAreNext
  <2>3. Used(originals[i]) + 1 \in Nat \ {0}
    BY <2>2
  <2>4. Len(rows) + i \in Nat \ {0} /\ originals[i] \in Nat \ {0}
    BY <2>1, RowFacts DEF Copied
  <2>5. new[i].status \in DOMAIN Outcome
    BY DEF Copied
  <2> QED
    BY <2>1, <2>2, <2>3, <2>4, <2>5 DEF Outcome
<1>2. \A i \in 1 .. n : record[i] \in Replay
  BY <1>1 DEF Replay
<1>3. record \in [1 .. n -> Replay]
  BY <1>2
<1>4. replays' = replays \cup {record[i] : i \in 1 .. n}
  BY DEF Writes
<1>5. \A i \in 1 .. n : /\ record[i].origin = originals[i] /\ record[i].target = Len(rows) + i
                        /\ record[i].attempt = maint[m].picks[originals[i]]
                        /\ record[i].outcome = Outcome[new[i].status]
  OBVIOUS
<1>6. \A i \in 1 .. n : record[i].attempt = Used(originals[i]) + 1 /\ originals[i] \in Ids
  BY <1>1, <1>5
<1> HIDE DEF record
<1> WITNESS record \in [1 .. n -> Replay]
<1> QED
  BY <1>4, <1>5, <1>6

\* The replays of this step, besides those before it.
Adds(record, n) ==
    /\ replays \subseteq replays' /\ \A i \in 1 .. n : record[i] \in replays'
    /\ \A p \in replays' : p \in replays \/ \E i \in 1 .. n : p = record[i]

\* Records added: one attempt more on each of the rows replayed, none on another.
LEMMA RecordsCount ==
  ASSUME IInv, NEW n \in Nat, NEW originals \in [1 .. n -> Ids],
         \A i, j \in 1 .. n : originals[i] = originals[j] => i = j,
         NEW record \in [1 .. n -> Replay],
         \A i \in 1 .. n : /\ record[i].origin = originals[i] /\ record[i].target = Len(rows) + i
                           /\ record[i].attempt = Used(originals[i]) + 1,
         Adds(record, n)
  PROVE  /\ replays' \subseteq Replay /\ IsFiniteSet(replays')
         /\ \A i \in 1 .. n : /\ Used(originals[i])' = Used(originals[i]) + 1
                              /\ Attempts(originals[i])' = Attempts(originals[i]) \cup {Used(originals[i]) + 1}
         /\ \A o : (\A i \in 1 .. n : originals[i] # o) => Used(o)' = Used(o) /\ Attempts(o)' = Attempts(o)
<1> DEFINE added == {record[i] : i \in 1 .. n}
<1>1. IsFiniteSet(added)
  <2>1. IsFiniteSet(1 .. n)
    BY FiniteIds
  <2>2. record \in Surjection(1 .. n, added)
    BY DEF Surjection
  <2> QED
    BY <2>1, <2>2, FS_Surjection
<1>2. replays' \subseteq Replay /\ IsFiniteSet(replays')
  <2>1. replays \subseteq Replay /\ IsFiniteSet(replays)
    BY DEF IInv, TypeOK
  <2>2. added \subseteq Replay
    OBVIOUS
  <2>3. replays' = replays \cup added
    BY DEF Adds
  <2> HIDE DEF added
  <2>4. IsFiniteSet(replays \cup added)
    BY <1>1, <2>1, FS_Union
  <2>5. replays \cup added \subseteq Replay
    BY <2>1, <2>2
  <2> QED
    BY <2>3, <2>4, <2>5
<1>3. ASSUME NEW i \in 1 .. n
      PROVE  /\ Used(originals[i])' = Used(originals[i]) + 1
             /\ Attempts(originals[i])' = Attempts(originals[i]) \cup {Used(originals[i]) + 1}
  <2> DEFINE o == originals[i]
             old == {p \in replays : p.origin = o}
  <2>1. \A j \in 1 .. n : record[j].origin = o <=> j = i
    OBVIOUS
  <2>2. {p \in replays' : p.origin = o} = old \cup {record[i]}
    BY <2>1 DEF Adds
  <2>3. record[i] \notin old
    <3>1. \A p \in replays : p.target \in Ids
      BY DEF IInv, ReplaysAreRecorded, Recorded
    <3>2. record[i].target \notin Ids
      BY RowFacts
    <3> QED
      BY <3>1, <3>2
  <2>4. IsFiniteSet(old) /\ Cardinality(old) = Used(o)
    BY UsedIsCount, ZenonT(40) DEF Used
  <2>5. Cardinality(old \cup {record[i]}) = Cardinality(old) + 1
    <3> HIDE DEF old
    <3> QED
      BY <2>3, <2>4, FS_AddElement
  <2>6. Used(o)' = Used(o) + 1
    <3>1. Used(o)' = Cardinality({p \in replays' : p.origin = o})
      BY DEF Used
    <3> QED
      BY <2>2, <2>4, <2>5, <3>1
  <2>7. Attempts(o)' = Attempts(o) \cup {Used(o) + 1}
    <3>1. Attempts(o)' = {p.attempt : p \in {q \in replays' : q.origin = o}}
      BY DEF Attempts
    <3>2. record[i].attempt = Used(o) + 1
      OBVIOUS
    <3> QED
      BY <2>2, <3>1, <3>2 DEF Attempts
  <2> QED
    BY <2>6, <2>7
<1>4. ASSUME NEW o, \A i \in 1 .. n : originals[i] # o
      PROVE  Used(o)' = Used(o) /\ Attempts(o)' = Attempts(o)
  <2>1. {p \in replays' : p.origin = o} = {p \in replays : p.origin = o}
    BY <1>4 DEF Adds
  <2> QED
    BY <2>1 DEF Used, Attempts
<1> QED
  BY <1>2, <1>3, <1>4

\* A replay that is not refused.
LEMMA WritesKeep ==
  ASSUME IInv, NEW m \in Actors, ~Taken(maint[m].picks), NEW originals, NEW n, NEW new,
         Copied(m, originals, n, new), Writes(m, originals, n, new),
         UNCHANGED known,
         NEW w \in Work, Orderly(w), DOMAIN w.picks = {}, maint' = [maint EXCEPT ![m] = w]
  PROVE  IInv'
<1> DEFINE D == DOMAIN maint[m].picks
<1>1. PICK record \in [1 .. n -> Replay] :
         /\ replays' = replays \cup {record[i] : i \in 1 .. n}
         /\ \A i \in 1 .. n : /\ record[i].origin = originals[i] /\ originals[i] \in Ids
                              /\ record[i].attempt = Used(originals[i]) + 1
                              /\ record[i].target = Len(rows) + i
                              /\ record[i].outcome = Outcome[new[i].status]
  BY RecordOf
<1>2. /\ n \in Nat /\ D \subseteq Ids /\ originals \in [1 .. n -> D] /\ originals \in [1 .. n -> Ids]
      /\ \A i, j \in 1 .. n : originals[i] = originals[j] => i = j
      /\ \A o \in D : \E i \in 1 .. n : originals[i] = o
      /\ new \in [1 .. n -> Row]
      /\ \A i \in 1 .. n : new[i].batch = Len(rows) + 1
  BY DEF Copied
<1>3. rows' = rows \o new /\ facts' = facts \cup {Len(rows) + i : i \in Inserted(new)}
  BY DEF Writes
<1>4. /\ Grows /\ Ids' = 1 .. Len(rows) + n
      /\ \A i \in Ids : rows'[i] = rows[i]
      /\ \A i \in 1 .. n : Len(rows) + i \in Ids' \ Ids /\ rows'[Len(rows) + i] = new[i]
      /\ \A i \in Ids' \ Ids : i - Len(rows) \in 1 .. n /\ rows'[i] = new[i - Len(rows)]
  BY <1>2, <1>3, Appended, ZenonT(40)
<1>5. /\ replays' \subseteq Replay /\ IsFiniteSet(replays')
      /\ \A i \in 1 .. n : /\ Used(originals[i])' = Used(originals[i]) + 1
                           /\ Attempts(originals[i])' = Attempts(originals[i]) \cup {Used(originals[i]) + 1}
      /\ \A o : (\A i \in 1 .. n : originals[i] # o) => Used(o)' = Used(o) /\ Attempts(o)' = Attempts(o)
  <2>1. \A i \in 1 .. n : /\ record[i].origin = originals[i] /\ record[i].target = Len(rows) + i
                          /\ record[i].attempt = Used(originals[i]) + 1
    BY <1>1
  <2>2. Adds(record, n)
    BY <1>1 DEF Adds
  <2>3. n \in Nat /\ originals \in [1 .. n -> Ids]
    BY <1>2
  <2>4. \A i, j \in 1 .. n : originals[i] = originals[j] => i = j
    BY <1>2
  <2> HIDE DEF D
  <2> QED
    BY <2>1, <2>2, <2>3, <2>4, RecordsCount
<1>6. ASSUME NEW o \in D
      PROVE  /\ Used(o)' = Used(o) + 1 /\ Attempts(o)' = Attempts(o) \cup {Used(o) + 1}
             /\ Used(o) \in Nat /\ Used(o) + 1 <= MaxAttempts /\ rows[o].status = "failed"
             /\ \A j \in Ids : rows[j].batch = rows[o].batch /\ rows[j].status = "failed" => j \in D
  <2>1. Used(o)' = Used(o) + 1 /\ Attempts(o)' = Attempts(o) \cup {Used(o) + 1}
    BY <1>2, <1>5
  <2>2. maint[m].picks[o] = Used(o) + 1 /\ Used(o) \in Nat
    BY PicksAreNext
  <2> QED
    BY <2>1, <2>2 DEF IInv, PicksStand
<1>7. ASSUME NEW o, o \notin D PROVE Used(o)' = Used(o) /\ Attempts(o)' = Attempts(o) /\ Used(o) \in Nat
  <2>1. \A i \in 1 .. n : originals[i] # o
    BY <1>2, <1>7
  <2> QED
    BY <1>5, <2>1, UsedIsCount
<1> HIDE DEF D
<1>18. /\ Inserted(new) \subseteq 1 .. n /\ \A i \in Inserted(new) : new[i].status = "processed"
       /\ \A i \in 1 .. n : new[i].status = "processed" =>
             \E k \in Inserted(new) : new[k].order = new[i].order
  BY <1>2, InsertedRows
<1>16. NewFactsAreSound
  <2> SUFFICES ASSUME NEW f \in facts' \ facts
               PROVE  /\ f \in Ids' \ Ids /\ rows'[f].status = "processed"
                      /\ rows'[f].cause # "none" =>
                            \/ rows'[f].cause = "drift" /\ known'
                            \/ rows'[f].cause = "unsupported" /\ \E p \in replays' : p.target = f
    BY <1>3 DEF NewFactsAreSound
  <2>1. PICK i \in Inserted(new) : f = Len(rows) + i
    BY <1>3
  <2>2. i \in 1 .. n /\ f \in Ids' \ Ids /\ rows'[f] = new[i] /\ new[i].status = "processed"
    BY <1>4, <1>18, <2>1
  <2>3. record[i] \in replays' /\ record[i].target = f
    BY <1>1, <2>1, <2>2
  <2>4. new[i].cause \notin ReplayRejects \cup {"outside"}
    BY <2>2 DEF Copied
  <2>5. new[i].cause \in Wrong
    BY <1>2, <2>2 DEF Row
  <2> QED
    BY <2>2, <2>3, <2>4, <2>5 DEF ReplayRejects, Drifted, Wrong
<1>17. facts' \subseteq Ids' /\ FactsAreLoaded' /\ OnlyCurrencyRulesDiffer'
  <2>1. replays \subseteq replays' /\ (known => known')
    BY <1>1
  <2> QED
    BY <1>4, <1>16, <2>1, FactsKept
<1>8. TypeOK'
  <2>1. maint' \in [Actors -> Work]
    BY DEF IInv, TypeOK
  <2> QED
    BY <1>4, <1>5, <1>17, <2>1 DEF IInv, TypeOK, Grows
<1>9. \A k \in Actors : maint'[k] = IF k = m THEN w ELSE maint[k]
  BY DEF IInv, TypeOK
<1>10. RunsAreOrderly'
  BY <1>9 DEF IInv, RunsAreOrderly
<1>11. PicksStand'
  <2>1. ASSUME NEW i \in Ids PROVE Used(i)' \in Nat /\ Used(i)' >= Used(i)
    <3>1. CASE i \in D
      BY <1>6, <3>1
    <3>2. CASE i \notin D
      BY <1>7, <3>2
    <3> QED
      BY <3>1, <3>2
  <2>2. \A k \in Actors : DOMAIN maint'[k].picks = {} \/ maint'[k].picks = maint[k].picks
    BY <1>9
  <2> QED
    BY <1>4, <2>1, <2>2, PicksKept
<1>12. AttemptsAreNumbered'
  <2> SUFFICES ASSUME NEW i \in Ids' PROVE Attempts(i)' = 1 .. Used(i)' /\ Used(i)' <= MaxAttempts
    BY DEF AttemptsAreNumbered
  <2>1. CASE i \in D
    <3>1. Attempts(i) = 1 .. Used(i)
      BY <1>2, <2>1 DEF IInv, AttemptsAreNumbered
    <3>2. Attempts(i)' = (1 .. Used(i)) \cup {Used(i) + 1} /\ Used(i) \in Nat
      BY <1>6, <2>1, <3>1
    <3>3. Attempts(i)' = 1 .. Used(i) + 1
      BY <3>2
    <3> QED
      BY <1>6, <2>1, <3>3
  <2>2. CASE i \notin D
    <3>1. Used(i)' = Used(i) /\ Attempts(i)' = Attempts(i)
      BY <1>7, <2>2
    <3>2. Attempts(i) = 1 .. Used(i) /\ Used(i) <= MaxAttempts
      <4>1. CASE i \in Ids
        BY <4>1 DEF IInv, AttemptsAreNumbered
      <4>2. CASE i \notin Ids
        BY <4>2, UnusedOutside DEF Attempts
      <4> QED
        BY <4>1, <4>2
    <3> QED
      BY <3>1, <3>2
  <2> QED
    BY <2>1, <2>2
<1>13. BatchesStayTogether'
  <2> SUFFICES ASSUME NEW i \in Ids', NEW j \in Ids', rows'[i].batch = rows'[j].batch,
                      rows'[i].status = "failed", rows'[j].status = "failed"
               PROVE  Used(i)' = Used(j)'
    BY DEF BatchesStayTogether
  <2>1. CASE i \in Ids
    <3>1. j \in Ids
      BY <1>4, <2>1, BatchesKept
    <3>2. rows[i].batch = rows[j].batch /\ rows[i].status = "failed" /\ rows[j].status = "failed"
      BY <1>4, <2>1, <3>1
    <3>3. Used(i) = Used(j)
      BY <2>1, <3>1, <3>2 DEF IInv, BatchesStayTogether
    <3>4. i \in D <=> j \in D
      BY <1>6, <2>1, <3>1, <3>2
    <3>5. CASE i \in D
      BY <1>6, <3>3, <3>4, <3>5
    <3>6. CASE i \notin D
      BY <1>7, <3>3, <3>4, <3>6
    <3> QED
      BY <3>5, <3>6
  <2>2. CASE i \notin Ids
    <3>1. j \notin Ids
      BY <1>4, <2>2, BatchesKept
    <3>2. Used(i) = 0 /\ Used(j) = 0
      BY <2>2, <3>1, UnusedOutside
    <3>3. Used(i)' = Used(i) /\ Used(j)' = Used(j)
      BY <1>2, <1>7, <2>2, <3>1
    <3> QED
      BY <3>2, <3>3
  <2> QED
    BY <2>1, <2>2
<1>14. ASSUME NEW i \in 1 .. n
       PROVE  Recorded(record[i])' /\ record[i].target \notin Ids
  <2>1. /\ originals[i] \in D /\ originals[i] \in Ids
        /\ record[i].origin = originals[i] /\ record[i].target = Len(rows) + i
        /\ record[i].outcome = Outcome[new[i].status]
    BY <1>1, <1>2
  <2>2. Len(rows) + i \in Ids' \ Ids /\ rows'[Len(rows) + i] = new[i]
    BY <1>4
  <2>3. rows'[originals[i]] = rows[originals[i]] /\ rows[originals[i]].status = "failed"
    BY <1>4, <1>6, <2>1
  <2>4. /\ new[i].order = rows[originals[i]].order /\ new[i].cause = rows[originals[i]].cause
        /\ new[i].status \in DOMAIN Outcome
    BY DEF Copied
  <2>5. originals[i] \in Ids'
    BY <1>4, <2>1, GrownIds
  <2>6. Len(rows) + i \notin Ids /\ facts \subseteq Ids
    BY <2>2 DEF IInv, TypeOK
  <2>7. ASSUME new[i].status # "failed"
        PROVE  \E f \in facts' : /\ rows'[f].order = new[i].order
                                 /\ IF new[i].status = "processed" THEN rows'[f].batch = new[i].batch
                                    ELSE rows'[f].batch < new[i].batch
    <3>1. CASE new[i].status = "processed"
      <4>1. PICK k \in Inserted(new) : new[k].order = new[i].order
        BY <1>18, <3>1
      <4>2. Len(rows) + k \in facts' /\ k \in 1 .. n
        BY <1>3, <1>18
      <4>3. rows'[Len(rows) + k] = new[k] /\ new[k].batch = new[i].batch
        BY <1>2, <1>4, <4>2
      <4> QED
        BY <3>1, <4>1, <4>2, <4>3
    <3>2. CASE new[i].status = "skipped"
      <4>1. PICK f \in facts : rows[f].order = new[i].order
        BY <3>2 DEF Copied
      <4>2. f \in Ids /\ f \in facts' /\ rows'[f] = rows[f]
        BY <1>3, <1>4, <2>6
      <4>3. rows[f].batch <= f /\ f <= Len(rows) /\ rows[f].batch \in Nat /\ f \in Nat /\ Len(rows) \in Nat
        BY <4>2, RowFacts DEF IInv, BatchesAreNumbered, Row
      <4>4. new[i].batch = Len(rows) + 1
        BY <1>2
      <4>5. rows[f].batch < new[i].batch
        BY <4>3, <4>4
      <4> QED
        BY <3>2, <4>1, <4>2, <4>5
    <3> QED
      BY <2>4, <2>7, <3>1, <3>2 DEF Outcome
  <2>8. Len(rows) + i \in facts' => new[i].status = "processed"
    <3> SUFFICES ASSUME Len(rows) + i \in facts' PROVE new[i].status = "processed"
      OBVIOUS
    <3>1. PICK k \in Inserted(new) : Len(rows) + i = Len(rows) + k
      BY <1>3, <2>6
    <3>2. k = i
      BY <1>2, <1>18, <3>1, RowFacts
    <3> QED
      BY <1>18, <3>2
  <2>9. /\ (Outcome[new[i].status] # "failed_again" <=> new[i].status # "failed")
        /\ (Outcome[new[i].status] = "succeeded" <=> new[i].status = "processed")
    BY <2>4 DEF Outcome
  <2>10. OutcomeIsTrue(record[i])'
    BY <2>1, <2>2, <2>7, <2>8, <2>9 DEF OutcomeIsTrue
  <2> QED
    BY <2>1, <2>2, <2>3, <2>4, <2>5, <2>10 DEF Recorded
<1>15. ReplaysAreRecorded'
  <2>1. \A p \in replays : Recorded(p)' /\ p.target \in Ids
    BY <1>4, <1>16, RecordsKept DEF IInv, ReplaysAreRecorded, Recorded
  <2>2. \A p, q \in replays : q.target = p.target => q = p
    BY DEF IInv, ReplaysAreRecorded
  <2>3. \A i, j \in 1 .. n : record[i].target = record[j].target => record[i] = record[j]
    BY <1>1, RowFacts
  <2>4. \A p \in replays' : p \in replays \/ \E i \in 1 .. n : p = record[i]
    BY <1>1
  <2>5. \A p \in replays' : Recorded(p)'
    BY <1>14, <2>1, <2>4
  <2>6. \A p, q \in replays' : q.target = p.target => q = p
    BY <1>14, <2>1, <2>2, <2>3, <2>4
  <2> QED
    BY <2>5, <2>6 DEF ReplaysAreRecorded
<1> QED
  BY <1>4, <1>8, <1>10, <1>11, <1>12, <1>13, <1>15, <1>17, BatchesKept DEF IInv

\* A replay is refused, or it writes.
LEMMA CommitCases ==
  ASSUME IInv, NEW m \in Actors, ReplayCommits(m)
  PROVE  LET r == maint[m]
         IN  \/ maint' = [maint EXCEPT ![m] = Raised(r)] /\ UNCHANGED database
             \/ \E originals, n, new :
                   /\ ~Taken(r.picks) /\ Copied(m, originals, n, new) /\ Writes(m, originals, n, new)
                   /\ UNCHANGED known
                   /\ maint' = [maint EXCEPT ![m] = BatchDone(r, n)]
<1> DEFINE r == maint[m]
           n == Cardinality(DOMAIN r.picks)
<1>1. UNCHANGED known
  BY DEF ReplayCommits
<1>2. PICK originals \in Ascending(DOMAIN r.picks) :
         LET copies  == [i \in DOMAIN originals |-> [rows[originals[i]] EXCEPT !.batch = Len(rows) + 1]]
             settled == Settled(copies, ReplayRejects)
             refused == Taken(r.picks) \/ \E i \in Inserted(settled) : settled[i].cause = "outside"
         IN  IF refused
             THEN maint' = [maint EXCEPT ![m] = Raised(r)] /\ UNCHANGED <<rows, facts, replays>>
             ELSE /\ Loads(settled)
                  /\ replays' = replays \cup
                        {[origin |-> originals[i], attempt |-> r.picks[originals[i]],
                          target |-> Len(rows) + i, outcome |-> Outcome[settled[i].status]] :
                             i \in DOMAIN originals}
                  /\ maint' = [maint EXCEPT ![m] = BatchDone(r, Len(copies))]
  BY DEF ReplayCommits
<1>3. /\ n \in Nat /\ DOMAIN r.picks \subseteq Ids
      /\ originals \in [1 .. n -> DOMAIN r.picks]
      /\ \A i, j \in 1 .. n : originals[i] = originals[j] => i = j
      /\ \A o \in DOMAIN r.picks : \E i \in 1 .. n : originals[i] = o
  BY OriginalsAreThePicks
<1> DEFINE copies == [i \in 1 .. n |-> [rows[originals[i]] EXCEPT !.batch = Len(rows) + 1]]
           new    == Settled(copies, ReplayRejects)
<1>4. DOMAIN originals = 1 .. n
  BY <1>3
<1>5. CASE maint' = [maint EXCEPT ![m] = Raised(r)] /\ UNCHANGED <<rows, facts, replays>>
  BY <1>1, <1>5 DEF database
<1>6. CASE /\ ~Taken(r.picks) /\ \A i \in Inserted(new) : new[i].cause # "outside"
           /\ Loads(new)
           /\ replays' = replays \cup
                 {[origin |-> originals[i], attempt |-> r.picks[originals[i]],
                   target |-> Len(rows) + i, outcome |-> Outcome[new[i].status]] : i \in 1 .. n}
           /\ maint' = [maint EXCEPT ![m] = BatchDone(r, Len(copies))]
  <2>1. /\ copies \in [1 .. n -> Row]
        /\ \A i \in 1 .. n : /\ copies[i].batch = Len(rows) + 1 /\ copies[i].order = rows[originals[i]].order
                             /\ copies[i].cause = rows[originals[i]].cause
    <3>1. Len(rows) + 1 \in Nat \ {0}
      BY RowFacts
    <3>2. ASSUME NEW i \in 1 .. n PROVE rows[originals[i]] \in Row
      <4>1. originals[i] \in Ids
        BY <1>3
      <4> QED
        BY <4>1, RowFacts
    <3> QED
      BY <3>1, <3>2 DEF Row
  <2>2. Len(copies) = n
    BY <1>3
  <2> HIDE DEF copies, n
  <2>3. new \in [1 .. n -> Row]
    BY <1>3, <2>1, SettledRows
  <2>4. \A i \in 1 .. n :
           /\ new[i].batch = copies[i].batch /\ new[i].order = copies[i].order
           /\ new[i].cause = copies[i].cause
           /\ new[i].status \in {"processed", "skipped", "failed"}
           /\ new[i].status = "processed" => new[i].cause \notin ReplayRejects
           /\ new[i].status = "skipped" => \E f \in facts : rows[f].order = new[i].order
    BY <1>3, <2>1, SettledRows
  <2> HIDE DEF new
  <2>6. Copied(m, originals, n, new)
    <3>1. DOMAIN Outcome = {"processed", "skipped", "failed"}
      BY DEF Outcome
    <3>2. ASSUME NEW i \in 1 .. n
          PROVE  /\ new[i].batch = Len(rows) + 1 /\ new[i].status \in DOMAIN Outcome
                 /\ new[i].order = rows[originals[i]].order /\ new[i].cause = rows[originals[i]].cause
                 /\ new[i].status = "processed" => new[i].cause \notin ReplayRejects
                 /\ new[i].status = "skipped" => \E f \in facts : rows[f].order = new[i].order
      BY <2>1, <2>4, <3>1
    <3> QED
      BY <1>3, <1>6, <2>3, <3>2 DEF Copied
  <2>7. Writes(m, originals, n, new)
    BY <1>6 DEF Writes, Loads
  <2> QED
    BY <1>1, <1>6, <2>2, <2>6, <2>7
<1> QED
  BY <1>2, <1>4, <1>5, <1>6

LEMMA CommitsHold ==
  ASSUME IInv, NEW m \in Actors, ReplayCommits(m)
  PROVE  IInv'
<1> DEFINE r == maint[m]
<1>1. r \in Work /\ Orderly(r) /\ r.at = Step.replay /\ r.todo # <<>>
  BY DEF IInv, TypeOK, RunsAreOrderly, Orderly, ReplayCommits
<1>2. CASE maint' = [maint EXCEPT ![m] = Raised(r)] /\ UNCHANGED database
  <2>1. Raised(r) \in Work /\ Orderly(Raised(r)) /\ DOMAIN Raised(r).picks = {}
    BY <1>1, RaisedIsOrderly
  <2> QED
    BY <1>2, <2>1, RunStepKeeps
<1>3. ASSUME NEW originals, NEW n, NEW new,
             ~Taken(r.picks), Copied(m, originals, n, new), Writes(m, originals, n, new),
             UNCHANGED known, maint' = [maint EXCEPT ![m] = BatchDone(r, n)]
      PROVE  IInv'
  <2>1. n \in Nat
    BY <1>3 DEF Copied
  <2>2. BatchDone(r, n) \in Work /\ Orderly(BatchDone(r, n)) /\ DOMAIN BatchDone(r, n).picks = {}
    BY <1>1, <2>1, BatchDoneIsOrderly
  <2> QED
    BY <1>3, <2>2, WritesKeep
<1> QED
  BY <1>2, <1>3, CommitCases

LEMMA NextHolds == IInv /\ [Next]_vars => IInv'
<1> SUFFICES ASSUME IInv, [Next]_vars PROVE IInv'
  OBVIOUS
<1>1. ASSUME NEW n \in 1 .. MaxBatch, NEW payloads \in [1 .. n -> Payloads], Ingest(payloads) PROVE IInv'
  <2>1. n \in Nat
    OBVIOUS
  <2> QED
    BY <1>1, <2>1, IngestHolds
<1>2. CASE Strand(CHOOSE payload \in Payloads : TRUE)
  <2>1. Payloads # {}
    <3>1. PICK o \in Orders, c \in Causes : TRUE
      OBVIOUS
    <3>2. [order |-> o, cause |-> c] \in Payloads
      BY DEF Payloads
    <3> QED
      BY <3>2
  <2>2. (CHOOSE payload \in Payloads : TRUE) \in Payloads
    BY <2>1
  <2> QED
    BY <1>2, <2>2, StrandHolds
<1>3. ASSUME NEW m \in Actors, MaintStep(m) PROVE IInv'
  BY <1>3, QuietHolds, RetainHolds, PlanHolds, ReadsHold, CommitsHold DEF MaintStep
<1>4. ASSUME NEW m \in Callers, AskPurge(m) \/ \E b \in Batches : AskReplay(m, b) PROVE IInv'
  BY <1>4, AsksHold
<1>5. CASE UNCHANGED vars
  <2>1. UNCHANGED database /\ UNCHANGED maint
    BY <1>5 DEF vars
  <2>2. RunsAreOrderly' /\ PicksStand' /\ maint' \in [Actors -> Work]
    BY <2>1 DEF IInv, TypeOK, RunsAreOrderly, PicksStand, database, Used, Ids
  <2> QED
    BY <2>1, <2>2, Still, Kept DEF database
<1> QED
  BY <1>1, <1>2, <1>3, <1>4, <1>5, LearnHolds, StartHolds DEF Next, Actors

LEMMA Invariance == Spec => []IInv
BY InitHolds, NextHolds, PTL DEF Spec

-----------------------------------------------------------------------------
(* What follows.                                                            *)

\* Every table and every run's memory has its type.
THEOREM TypeCorrect == Spec => []TypeOK
<1>1. IInv => TypeOK
  BY DEF IInv
<1> QED
  BY <1>1, Invariance, PTL

\* replay_failed_batch, overlapping, refused or killed: attempts are numbered from one up
\* and within the budget, a batch is replayed as a whole, a copy has one origin and its
\* payload, and its outcome is true of its order.
THEOREM ReplaysExact == Spec => []ReplaysAreExact
<1>1. IInv => ReplaysAreExact
  <2> SUFFICES ASSUME IInv PROVE ReplaysAreExact
    OBVIOUS
  <2>1. ASSUME NEW i \in Ids
        PROVE  /\ {p.attempt : p \in {q \in replays : q.origin = i}} = 1 .. Used(i)
               /\ Used(i) <= MaxAttempts
               /\ \A j \in Ids : rows[i].batch = rows[j].batch /\ rows[i].status = "failed" /\ rows[j].status = "failed"
                                    => Used(i) = Used(j)
    <3>1. Attempts(i) = 1 .. Used(i) /\ Used(i) <= MaxAttempts
      BY DEF IInv, AttemptsAreNumbered
    <3>2. \A j \in Ids : rows[i].batch = rows[j].batch /\ rows[i].status = "failed" /\ rows[j].status = "failed"
                            => Used(i) = Used(j)
      BY DEF IInv, BatchesStayTogether
    <3> QED
      BY <3>1, <3>2 DEF Attempts
  <2>2. \A p \in replays : Recorded(p) /\ \A q \in replays : q.target = p.target => q = p
    BY DEF IInv, ReplaysAreRecorded
  <2> QED
    BY <2>1, <2>2 DEF ReplaysAreExact, Recorded
<1> QED
  BY <1>1, Invariance, PTL

\* load_staged_batch loads what Stage 3 would, and orders in a currency nobody supports;
\* nothing both refuse and no date outside the calendar gets into fact_orders, though a
\* staging row with such a date may be marked processed.
THEOREM ReplayLoadsCurrenciesOnly == Spec => []OnlyCurrencyRulesDiffer
<1>1. IInv => OnlyCurrencyRulesDiffer
  BY DEF IInv
<1> QED
  BY <1>1, Invariance, PTL

\* _step's summary never claims a change that was not made, and one that says success
\* leaves none out.
THEOREM SummariesAreHonest == Spec => []SummaryIsHonest
<1>1. IInv => SummaryIsHonest
  BY DEF IInv, RunsAreOrderly, Orderly, SummaryIsHonest, Actors
<1> QED
  BY <1>1, Invariance, PTL

\* Neither the purge nor a replay takes a dead letter away, or a record of its replays.
THEOREM DeadLettersStay == Spec => DeadLettersSurvive
<1> DEFINE Survive == /\ \A i \in Ids : rows[i].status = "failed" => rows'[i] = rows[i]
                      /\ replays \subseteq replays'
<1>1. IInv /\ [Next]_vars => [Survive]_vars
  <2> SUFFICES ASSUME IInv, [Next]_vars PROVE Survive \/ UNCHANGED vars
    OBVIOUS
  <2>1. CASE UNCHANGED <<rows, replays>>
    BY <2>1
  <2>2. ASSUME NEW n \in Nat, NEW payloads \in [1 .. n -> Payloads], Ingest(payloads)
        PROVE  Survive
    <3>1. /\ Settled(Staged(payloads), StageThreeRejects) \in [1 .. n -> Row]
          /\ \A i \in 1 .. n : Settled(Staged(payloads), StageThreeRejects)[i].batch = Len(rows) + 1
      BY StagedRows, SettledRows
    <3>2. \A i \in Ids : rows'[i] = rows[i]
      BY <2>2, <3>1, Appended DEF Ingest, Loads
    <3> QED
      BY <2>2, <3>2 DEF Ingest
  <2>3. ASSUME NEW payload, Strand(payload) PROVE Survive
    <3> DEFINE new == Staged(<<payload>>)
               S   == {new[1]}
    <3>1. rows' = rows \o new /\ UNCHANGED replays
      BY <2>3 DEF Strand
    <3>2. new \in [1 .. 1 -> S]
      BY DEF Staged
    <3> HIDE DEF new, S
    <3>3. new \in Seq(S)
      <4>1. \A n \in Nat : [1 .. n -> S] \subseteq Seq(S)
        OBVIOUS
      <4> QED
        BY <3>2, <4>1
    <3> QED
      BY <3>1, <3>3, RowFacts
  <2>4. ASSUME NEW m \in Actors, Retain(m) PROVE Survive
    BY <2>4, RowFacts DEF Retain, Purgeable
  <2>5. ASSUME NEW m \in Actors, ReplayCommits(m) PROVE Survive
    <3>1. CASE UNCHANGED database
      BY <3>1 DEF database
    <3>2. ASSUME NEW originals, NEW n, NEW new, Copied(m, originals, n, new), Writes(m, originals, n, new)
          PROVE  Survive
      <4>1. /\ n \in Nat /\ new \in [1 .. n -> Row] /\ rows' = rows \o new
            /\ \A i \in 1 .. n : new[i].batch = Len(rows) + 1
        BY <3>2 DEF Copied, Writes
      <4>2. \A i \in Ids : rows'[i] = rows[i]
        BY <4>1, Appended
      <4> QED
        BY <3>2, <4>2 DEF Writes
    <3> QED
      BY <2>5, <3>1, <3>2, CommitCases
  <2>6. ASSUME NEW m \in Actors,
               \/ Recover(m) \/ Ageing(m) \/ Renotify(m) \/ Health(m) \/ Plan(m) \/ ReplayReads(m)
               \/ StepRaises(m) \/ Killed(m)
        PROVE  UNCHANGED <<rows, replays>>
    BY <2>6 DEF Recover, Ageing, Renotify, Health, Plan, ReplayReads, StepRaises, Killed, database
  <2>7. CASE \/ LearnReference \/ \E m \in Runs : Start(m)
             \/ \E c \in Callers : AskPurge(c) \/ \E b \in Batches : AskReplay(c, b)
    BY <2>1, <2>7 DEF LearnReference, Start, AskPurge, AskReplay, Asks, database
  <2>8. ASSUME NEW m \in Actors, MaintStep(m) PROVE Survive
    BY <2>1, <2>4, <2>5, <2>6, <2>8 DEF MaintStep
  <2>9. 1 .. MaxBatch \subseteq Nat
    OBVIOUS
  <2> QED
    BY <2>2, <2>3, <2>7, <2>8, <2>9 DEF Next, Actors
<1> QED
  BY <1>1, Invariance, PTL DEF Spec, DeadLettersSurvive
=============================================================================
