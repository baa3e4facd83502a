------------------------- MODULE Notifications_proofs -------------------------
(***************************************************************************)
(* Proofs about Notifications: for any anomalies, recipients, runs and      *)
(* budget, the attempt history is exact, the status tells it, and what       *)
(* overlapping runs can do beyond what one would is bounded by their number. *)
(***************************************************************************)
EXTENDS Notifications, FiniteSetTheorems, TLAPS

\* A run's memory is never ahead of the history, and a success it remembers happened.
RunsKeepUp ==
    \A u \in Runs :
        /\ run[u].pc \in {"claimed", "answered"} => run[u].seen <= note[run[u].note].count
        /\ run[u].pc = "recording" => run[u].number <= note[run[u].note].count + 1
        /\ run[u].pc \in {"answered", "recording"} /\ run[u].outcome = "success" =>
              run[u].note \in told

Inv == TypeOK /\ LedgerExact /\ StatusIsLastOutcome /\ RunsKeepUp

\* The runs that have decided to deliver a notification and not ended with it.
InFlight(n) == {u \in Runs : run[u].pc # "idle" /\ run[u].note = n}

\* What is spent beyond the budget, and what may still be, is bounded by the runs.
BudgetLeft(n) ==
    note[n].count >= MaxDeliveryAttempts =>
        note[n].count + Cardinality(InFlight(n)) <= MaxDeliveryAttempts + Cardinality(Runs) - 1

\* So is a series of successes that is not over.
SeriesLeft(n) ==
    \A i \in 1 .. note[n].count :
        (\A j \in i .. note[n].count : Succeeded(n, j)) =>
            note[n].count - i + 1 + Cardinality(InFlight(n)) <= Cardinality(Runs)

Bounded == Resenders = {} => \A n \in Notes : BudgetLeft(n) /\ SeriesLeft(n)

USE DEF Verdicts, Statuses, Outcomes, Idle

-----------------------------------------------------------------------------
LEMMA InitInv == Init => Inv
<1> SUFFICES ASSUME Init PROVE Inv
  OBVIOUS
<1>1. TypeOK
  BY ConstantsAssumption DEF Init, TypeOK, RunStates
<1>2. LedgerExact /\ StatusIsLastOutcome /\ RunsKeepUp
  BY DEF Init, LedgerExact, StatusIsLastOutcome, RunsKeepUp
<1> QED
  BY <1>1, <1>2 DEF Inv

\* The number of an attempt is the next one in the history.
LEMMA NextNumber ==
  ASSUME Inv, NEW n \in Notes, NEW seen \in Nat, seen <= note[n].count
  PROVE  AttemptNumber(n, seen) = note[n].count + 1
<1> DEFINE S == {seen + 1} \cup {a.number + 1 : a \in attempts[n]}
<1> DEFINE c == note[n].count
<1>1. /\ c \in Nat
      /\ \A a \in attempts[n] : a.number \in Nat
      /\ {a.number : a \in attempts[n]} = 1 .. c
  BY DEF Inv, TypeOK, LedgerExact
<1>2. \A x \in S : x \in Nat /\ x <= c + 1
  BY <1>1
<1>3. c + 1 \in S
  <2>1. CASE c = 0
    BY <2>1, <1>1
  <2>2. CASE c # 0
    <3>1. c \in {a.number : a \in attempts[n]}
      BY <2>2, <1>1
    <3>2. PICK a \in attempts[n] : a.number = c
      BY <3>1
    <3> QED
      BY <3>2
  <2> QED
    BY <2>1, <2>2
<1>4. \A x \in S : c + 1 >= x
  BY <1>1, <1>2
<1> HIDE DEF S
<1>5. Max(S) = c + 1
  BY <1>1, <1>2, <1>3, <1>4 DEF Max
<1> QED
  BY <1>5 DEF AttemptNumber, S

\* Steps that write no notification.
LEMMA QuietHistory ==
  ASSUME Inv, UNCHANGED <<note, attempts>>, told \subseteq told'
  PROVE  LedgerExact' /\ StatusIsLastOutcome'
<1>1. LedgerExact'
  BY DEF Inv, LedgerExact
<1>2. StatusIsLastOutcome'
  BY DEF Inv, StatusIsLastOutcome, LastOutcome
<1> QED
  BY <1>1, <1>2

\* The whole effect of an attempt that is recorded.
LEMMA Recorded ==
  ASSUME Inv, NEW u \in Runs, run[u].pc = "recording", Recordable(run[u])
  PROVE  /\ run[u].note \in Notes
         /\ run[u].outcome \in Outcomes
         /\ run[u].number = note[run[u].note].count + 1
<1> DEFINE r == run[u]
<1> DEFINE c == note[r.note].count
<1>1. r.note \in Notes /\ r.number \in Nat \ {0} /\ r.outcome \in Outcomes
  BY DEF Inv, TypeOK, RunStates
<1>2. c \in Nat /\ {a.number : a \in attempts[r.note]} = 1 .. c
  BY <1>1 DEF Inv, TypeOK, LedgerExact
<1>3. r.number <= c + 1
  BY DEF Inv, RunsKeepUp
<1>4. r.number \notin {a.number : a \in attempts[r.note]}
  BY DEF Recordable
<1> QED
  BY <1>1, <1>2, <1>3, <1>4

\* An attempt more, with the next number and the status it leads to.
LEMMA HistoryGrows ==
  ASSUME Inv, NEW m \in Notes, NEW o \in Outcomes, NEW c, c = note[m].count,
         attempts' = [attempts EXCEPT ![m] = @ \cup {[number |-> c + 1, outcome |-> o]}],
         note' = [note EXCEPT ![m] = [status |-> StatusAfter(o, c + 1), count |-> c + 1]],
         told' = told, o = "success" => m \in told
  PROVE  LedgerExact' /\ StatusIsLastOutcome'
<1> DEFINE new == [number |-> c + 1, outcome |-> o]
<1>1. /\ c \in Nat
      /\ \A a \in attempts[m] : a.number \in 1 .. c
      /\ {a.number : a \in attempts[m]} = 1 .. c
      /\ \A a, b \in attempts[m] : a.number = b.number => a = b
  BY DEF Inv, TypeOK, LedgerExact
<1>2. /\ attempts'[m] = attempts[m] \cup {new}
      /\ note'[m] = [status |-> StatusAfter(o, c + 1), count |-> c + 1]
      /\ \A n \in Notes \ {m} : attempts'[n] = attempts[n] /\ note'[n] = note[n]
  BY DEF Inv, TypeOK
<1>3. new.number = c + 1 /\ new.outcome = o
  OBVIOUS
<1> HIDE DEF new
<1>4. LedgerExact'
  <2>1. {a.number : a \in attempts'[m]} = 1 .. c + 1
    <3>1. 1 .. c + 1 = (1 .. c) \cup {c + 1}
      BY <1>1
    <3>2. {a.number : a \in attempts[m] \cup {new}} = {a.number : a \in attempts[m]} \cup {new.number}
      BY Zenon
    <3> QED
      BY <3>1, <3>2, <1>1, <1>2, <1>3
  <2>2. \A a, b \in attempts'[m] : a.number = b.number => a = b
    BY <1>1, <1>2, <1>3
  <2>3. \A n \in Notes \ {m} : /\ {a.number : a \in attempts'[n]} = 1 .. note'[n].count
                               /\ \A a, b \in attempts'[n] : a.number = b.number => a = b
    BY <1>2 DEF Inv, LedgerExact
  <2> QED
    BY <2>1, <2>2, <2>3, <1>2 DEF LedgerExact
<1>5. StatusIsLastOutcome'
  <2>1. LastOutcome(m)' = o
    <3>1. \A a \in attempts'[m] : a.number = c + 1 <=> a = new
      BY <1>1, <1>2, <1>3
    <3>2. new \in attempts'[m] /\ note'[m].count = c + 1
      BY <1>2
    <3> QED
      BY <3>1, <3>2, <1>3 DEF LastOutcome
  <2>2. \A n \in Notes \ {m} : LastOutcome(n)' = LastOutcome(n)
    BY <1>2 DEF LastOutcome
  <2> SUFFICES ASSUME NEW n \in Notes
               PROVE  LET s == note'[n].status
                      IN  IF note'[n].count = 0 THEN s \in {"absent", "pending"}
                          ELSE CASE LastOutcome(n)' = "success" -> s = "sent" /\ n \in told'
                                 [] LastOutcome(n)' = "permanent" -> s = "abandoned"
                                 [] OTHER -> s = IF note'[n].count < MaxDeliveryAttempts
                                                 THEN "failed" ELSE "abandoned"
    BY DEF StatusIsLastOutcome
  <2>3. CASE n = m
    BY <2>1, <2>3, <1>1, <1>2 DEF StatusAfter
  <2>4. CASE n # m
    BY <2>2, <2>4, <1>2 DEF Inv, StatusIsLastOutcome
  <2> QED
    BY <2>3, <2>4
<1> QED
  BY <1>4, <1>5

LEMMA FinishInv ==
  ASSUME Inv, NEW u \in Runs, Finish(u)
  PROVE  Inv'
<1>0. /\ run[u].pc = "recording" /\ run[u].note \in Notes
      /\ run' = [run EXCEPT ![u] = Idle]
      /\ UNCHANGED <<decision, queued, told, todo, crashes>>
  BY DEF Finish, Inv, TypeOK, RunStates
<1>1. CASE ~Recordable(run[u])
  <2>1. UNCHANGED <<note, attempts>>
    BY <1>1 DEF Finish
  <2>2. TypeOK'
    BY <1>0, <2>1 DEF Inv, TypeOK, RunStates
  <2>3. RunsKeepUp'
    BY <1>0, <2>1 DEF Inv, TypeOK, RunsKeepUp
  <2> QED
    BY <1>0, <2>1, <2>2, <2>3, QuietHistory DEF Inv
<1>2. CASE Recordable(run[u])
  <2>1. PICK m \in Notes, o \in Outcomes, c \in Nat :
           m = run[u].note /\ o = run[u].outcome /\ c = note[m].count
    BY <1>0, <1>2, Recorded DEF Inv, TypeOK
  <2>2. run[u].number = c + 1
    BY <1>0, <1>2, <2>1, Recorded
  <2>3. /\ attempts' = [attempts EXCEPT ![m] = @ \cup {[number |-> c + 1, outcome |-> o]}]
        /\ note' = [note EXCEPT ![m] = [status |-> StatusAfter(o, c + 1), count |-> c + 1]]
    BY <1>2, <2>1, <2>2 DEF Finish
  <2>4. o = "success" => m \in told
    BY <1>0, <2>1 DEF Inv, RunsKeepUp
  <2>5. LedgerExact' /\ StatusIsLastOutcome'
    BY <2>1, <2>3, <2>4, <1>0, HistoryGrows
  <2>6. TypeOK'
    BY <1>0, <2>1, <2>3 DEF Inv, TypeOK, RunStates, StatusAfter
  <2>7. RunsKeepUp'
    <3>1. \A n \in Notes : /\ note[n].count \in Nat /\ note'[n].count \in Nat
                           /\ note[n].count <= note'[n].count
      BY <2>1, <2>3 DEF Inv, TypeOK
    <3>2. \A v \in Runs : run'[v] = Idle \/ (run'[v] = run[v] /\ run[v] \in RunStates)
      BY <1>0 DEF Inv, TypeOK
    <3> QED
      BY <3>1, <3>2, <1>0 DEF Inv, RunsKeepUp, RunStates
  <2> QED
    BY <2>5, <2>6, <2>7 DEF Inv
<1> QED
  BY <1>1, <1>2

\* The steps before the last one, and those that end without a result.
LEMMA OtherSteps ==
  ASSUME Inv, [Next]_vars, \A u \in Runs : ~Finish(u)
  PROVE  Inv'
<1>1. ASSUME NEW a \in Anomalies, NEW v \in Verdicts, Redecide(a, v) PROVE Inv'
  <2>1. TypeOK' /\ RunsKeepUp' /\ UNCHANGED <<note, attempts, told>>
    BY <1>1 DEF Redecide, Inv, TypeOK, RunsKeepUp
  <2> QED
    BY <2>1, QuietHistory DEF Inv
<1>2. ASSUME NEW u \in Runs, NEW p \in Recipients, Read(u, p) PROVE Inv'
  <2>1. RunsKeepUp' /\ UNCHANGED <<note, attempts, told>>
    BY <1>2 DEF Read, db, Inv, RunsKeepUp
  <2>2. TypeOK'
    <3>1. {[note |-> <<a, p>>, verdict |-> decision[a]] : a \in {b \in Anomalies : Actionable(b)}}
             \subseteq Rows
      BY DEF Inv, TypeOK, Rows, Notes
    <3> QED
      BY <3>1, <1>2 DEF Read, db, Inv, TypeOK
  <2> QED
    BY <2>1, <2>2, QuietHistory DEF Inv
<1>3. ASSUME NEW u \in Runs, NEW row \in todo[u], QueueReview(u, row) PROVE Inv'
  <2>1. row.note[1] \in Anomalies
    BY DEF Inv, TypeOK, Rows, Notes
  <2>2. TypeOK' /\ RunsKeepUp' /\ UNCHANGED <<note, attempts, told>>
    BY <1>3, <2>1 DEF QueueReview, Takes, Inv, TypeOK, RunsKeepUp
  <2> QED
    BY <2>2, QuietHistory DEF Inv
<1>4. ASSUME NEW u \in Runs, NEW row \in todo[u], ClaimRow(u, row) PROVE Inv'
  <2>1. PICK m \in Notes : m = row.note
    BY DEF Inv, TypeOK, Rows
  <2>2. PICK s \in Statuses, c \in 0 .. MaxNumber :
           /\ note[m].count = c
           /\ s = IF note[m].status = "absent" THEN "pending" ELSE note[m].status
    BY <1>4, <2>1, ConstantsAssumption DEF ClaimRow, Inv, TypeOK
  <2>3. \/ note' = note
        \/ note' = [note EXCEPT ![m] = [status |-> s, count |-> c]]
    BY <1>4, <2>1, <2>2 DEF ClaimRow, Inv, TypeOK
  <2>4. run' = run \/ run' = [run EXCEPT ![u] = Idle]
           \/ run' = [run EXCEPT ![u] = [pc |-> "claimed", note |-> m, seen |-> c]]
    BY <1>4, <2>1, <2>2 DEF ClaimRow, Inv, TypeOK
  <2>5. /\ todo' = [todo EXCEPT ![u] = @ \ {row}]
        /\ UNCHANGED <<decision, queued, attempts, told, crashes>>
    BY <1>4 DEF ClaimRow, Takes
  <2>6. TypeOK'
    <3>1. note' \in [Notes -> [status : Statuses, count : Nat]]
      BY <2>2, <2>3, ConstantsAssumption DEF Inv, TypeOK
    <3>2. run' \in [Runs -> RunStates]
      BY <2>4 DEF Inv, TypeOK, RunStates
    <3> QED
      BY <3>1, <3>2, <2>5 DEF Inv, TypeOK
  <2>7. \A n \in Notes : /\ note'[n].count = note[n].count
                         /\ \/ note'[n].status = note[n].status
                            \/ note[n].status = "absent" /\ note'[n].status = "pending"
    BY <2>2, <2>3 DEF Inv, TypeOK
  <2>8. LedgerExact'
    BY <2>5, <2>7 DEF Inv, LedgerExact
  <2>9. StatusIsLastOutcome'
    <3>1. \A n \in Notes : LastOutcome(n)' = LastOutcome(n)
      BY <2>5, <2>7 DEF LastOutcome
    <3> QED
      BY <3>1, <2>5, <2>7 DEF Inv, StatusIsLastOutcome
  <2>10. RunsKeepUp'
    BY <2>2, <2>4, <2>5, <2>7 DEF Inv, TypeOK, RunStates, RunsKeepUp
  <2> QED
    BY <2>6, <2>8, <2>9, <2>10 DEF Inv
<1>5. ASSUME NEW u \in Runs, NEW outcome \in Outcomes, Send(u, outcome) PROVE Inv'
  <2>1. PICK m \in Notes, c \in 0 .. MaxNumber :
           run[u] = [pc |-> "claimed", note |-> m, seen |-> c] /\ c <= note[m].count
    BY <1>5 DEF Send, Inv, TypeOK, RunStates, RunsKeepUp
  <2>2. run' = [run EXCEPT ![u] = [pc |-> "answered", note |-> m, seen |-> c, outcome |-> outcome]]
    BY <1>5, <2>1 DEF Send, Inv, TypeOK
  <2>3. /\ UNCHANGED <<note, attempts, decision, queued, todo, crashes>>
        /\ told \subseteq told' /\ told' \subseteq Notes
        /\ outcome = "success" => m \in told'
    BY <1>5, <2>1 DEF Send, db, Inv, TypeOK
  <2>4. TypeOK'
    BY <2>1, <2>2, <2>3 DEF Inv, TypeOK, RunStates
  <2>5. RunsKeepUp'
    BY <2>1, <2>2, <2>3 DEF Inv, TypeOK, RunsKeepUp
  <2> QED
    BY <2>3, <2>4, <2>5, QuietHistory DEF Inv
<1>6. ASSUME NEW u \in Runs, InsertAttempt(u) PROVE Inv'
  <2>1. PICK m \in Notes, c \in 0 .. MaxNumber, o \in Outcomes :
           /\ run[u] = [pc |-> "answered", note |-> m, seen |-> c, outcome |-> o]
           /\ c <= note[m].count
    BY <1>6 DEF InsertAttempt, Inv, TypeOK, RunStates, RunsKeepUp
  <2>2. AttemptNumber(m, c) = note[m].count + 1
    BY <2>1, NextNumber
  <2>3. run' = [run EXCEPT ![u] = [pc |-> "recording", note |-> m, outcome |-> o,
                                   number |-> note[m].count + 1]]
    <3>1. run[u].note = m /\ run[u].seen = c /\ run[u].outcome = o
      BY <2>1
    <3> QED
      BY <1>6, <2>2, <3>1, Zenon DEF InsertAttempt
  <2>4. UNCHANGED <<note, attempts, decision, queued, todo, crashes, told>>
    BY <1>6 DEF InsertAttempt, db
  <2>5. o = "success" => m \in told
    BY <2>1 DEF Inv, RunsKeepUp
  <2>6. TypeOK'
    BY <2>1, <2>3, <2>4 DEF Inv, TypeOK, RunStates
  <2>7. RunsKeepUp'
    BY <2>1, <2>3, <2>4, <2>5 DEF Inv, TypeOK, RunsKeepUp
  <2> QED
    BY <2>4, <2>6, <2>7, QuietHistory DEF Inv
<1>7. ASSUME NEW u \in Runs, RowFails(u) \/ Crash(u) PROVE Inv'
  <2>1. TypeOK'
    <3>1. CASE RowFails(u)
      BY <3>1 DEF RowFails, db, Inv, TypeOK, RunStates
    <3>2. CASE Crash(u)
      <4>1. crashes' \in 0 .. MaxCrashes
        BY <3>2, ConstantsAssumption DEF Crash, Inv, TypeOK
      <4>2. todo' \in [Runs -> SUBSET Rows]
        BY <3>2 DEF Crash, Inv, TypeOK
      <4>3. run' \in [Runs -> RunStates]
        BY <3>2 DEF Crash, Inv, TypeOK, RunStates
      <4> QED
        BY <3>2, <4>1, <4>2, <4>3 DEF Crash, db, Inv, TypeOK
    <3> QED
      BY <1>7, <3>1, <3>2
  <2>2. RunsKeepUp' /\ UNCHANGED <<note, attempts, told>>
    BY <1>7 DEF RowFails, Crash, db, Inv, TypeOK, RunsKeepUp
  <2> QED
    BY <2>1, <2>2, QuietHistory DEF Inv
<1>8. CASE UNCHANGED vars
  BY <1>8, QuietHistory DEF vars, Inv, TypeOK, RunsKeepUp
<1> QED
  BY <1>1, <1>2, <1>3, <1>4, <1>5, <1>6, <1>7, <1>8 DEF Next, RunStep

LEMMA InductiveInv == Inv /\ [Next]_vars => Inv'
BY FinishInv, OtherSteps

\* The history, its counter and its status are what TypeOK and the next two say in
\* every reachable state.
LEMMA Invariance == Spec => []Inv
BY InitInv, InductiveInv, PTL DEF Spec

\* Every variable keeps its type; in particular what a run carries between its
\* transactions is always one of the four things _deliver can be in the middle of.
THEOREM TypeCorrect == Spec => []TypeOK
<1>1. Inv => TypeOK
  BY DEF Inv
<1> QED
  BY <1>1, Invariance, PTL

\* notification_attempts and attempt_count never drift apart: the numbers are
\* 1 .. attempt_count, each once, however many runs overlap, are refused or killed.
THEOREM LedgerIsExact == Spec => []LedgerExact
<1>1. Inv => LedgerExact
  BY DEF Inv
<1> QED
  BY <1>1, Invariance, PTL

\* notifications.status is what the last recorded attempt made of it, and "sent"
\* means that the recipient got it.
THEOREM StatusTellsTheLastOutcome == Spec => []StatusIsLastOutcome
<1>1. Inv => StatusIsLastOutcome
  BY DEF Inv
<1> QED
  BY <1>1, Invariance, PTL

-----------------------------------------------------------------------------
(* What overlapping runs can do that one would not.                         *)

LEMMA InFlightIsFinite ==
  ASSUME NEW n \in Notes
  PROVE  /\ InFlight(n) \subseteq Runs /\ IsFiniteSet(InFlight(n))
         /\ Cardinality(InFlight(n)) \in Nat /\ Cardinality(Runs) \in Nat
         /\ Cardinality(InFlight(n)) <= Cardinality(Runs)
<1>1. InFlight(n) \subseteq Runs
  BY DEF InFlight
<1> QED
  BY <1>1, FS_Subset, FS_CardinalityType, ConstantsAssumption

\* A row whose last attempt succeeded says so.
LEMMA LastSucceeded ==
  ASSUME Inv, NEW n \in Notes, note[n].count # 0, Succeeded(n, note[n].count)
  PROVE  LastOutcome(n) = "success"
<1>1. PICK a \in attempts[n] : a.number = note[n].count /\ a.outcome = "success"
  BY DEF Succeeded
<1>2. \A b \in attempts[n] : b.number = note[n].count => b = a
  BY <1>1 DEF Inv, LedgerExact
<1> QED
  BY <1>1, <1>2 DEF LastOutcome

\* A step that records nothing, and sets off for n only while the budget lasts and
\* the last delivery does not stand, changes no bound.
LEMMA QuietBounds ==
  ASSUME Inv, Bounded, RepeatsNeedOverlap, Resenders = {}, attempts' = attempts,
         \A n \in Notes : note'[n].count = note[n].count,
         \A n \in Notes :
            \/ InFlight(n)' \subseteq InFlight(n)
            \/ /\ note[n].count < MaxDeliveryAttempts
               /\ note[n].count = 0 \/ ~Succeeded(n, note[n].count)
  PROVE  Bounded' /\ RepeatsNeedOverlap'
<1>1. ASSUME NEW n \in Notes PROVE BudgetLeft(n)' /\ SeriesLeft(n)'
  <2>1. /\ IsFiniteSet(InFlight(n)) /\ Cardinality(InFlight(n)) \in Nat
        /\ Cardinality(Runs) \in Nat /\ note[n].count \in Nat
    BY InFlightIsFinite DEF Inv, TypeOK
  <2>2. \A k : Succeeded(n, k)' = Succeeded(n, k)
    BY DEF Succeeded
  <2>3. BudgetLeft(n) /\ SeriesLeft(n)
    BY DEF Bounded
  <2>4. CASE InFlight(n)' \subseteq InFlight(n)
    <3>1. /\ Cardinality(InFlight(n)') \in Nat
          /\ Cardinality(InFlight(n)') <= Cardinality(InFlight(n))
      BY <2>1, <2>4, FS_Subset, FS_CardinalityType
    <3>2. Cardinality(InFlight(n))' = Cardinality(InFlight(n)')
      OBVIOUS
    <3>3. BudgetLeft(n)'
      BY <3>1, <3>2, <2>1, <2>3, ConstantsAssumption DEF BudgetLeft
    <3>4. SeriesLeft(n)'
      BY <3>1, <3>2, <2>1, <2>2, <2>3 DEF SeriesLeft
    <3> QED
      BY <3>3, <3>4
  <2>5. CASE /\ note[n].count < MaxDeliveryAttempts
             /\ note[n].count = 0 \/ ~Succeeded(n, note[n].count)
    <3>1. BudgetLeft(n)'
      BY <2>5, <2>1, ConstantsAssumption DEF BudgetLeft
    <3>2. SeriesLeft(n)'
      BY <2>5, <2>1, <2>2 DEF SeriesLeft
    <3> QED
      BY <3>1, <3>2
  <2> QED
    BY <2>4, <2>5
<1>2. RepeatsNeedOverlap'
  BY DEF RepeatsNeedOverlap, Succeeded
<1> QED
  BY <1>1, <1>2 DEF Bounded

\* An attempt that is recorded takes its run out of flight.
LEMMA FinishBounds ==
  ASSUME Inv, Bounded, RepeatsNeedOverlap, Resenders = {}, NEW u \in Runs, Finish(u)
  PROVE  Bounded' /\ RepeatsNeedOverlap'
<1>0. /\ run[u].pc = "recording" /\ run[u].note \in Notes
      /\ run' = [run EXCEPT ![u] = Idle]
  BY DEF Finish, Inv, TypeOK, RunStates
<1>1. \A n \in Notes : InFlight(n)' = InFlight(n) \ {u}
  BY <1>0 DEF InFlight, Inv, TypeOK
<1>2. CASE ~Recordable(run[u])
  <2>1. UNCHANGED <<note, attempts>>
    BY <1>2 DEF Finish
  <2> QED
    BY <1>1, <2>1, QuietBounds
<1>3. CASE Recordable(run[u])
  <2>1. PICK m \in Notes, o \in Outcomes, c \in Nat :
           m = run[u].note /\ o = run[u].outcome /\ c = note[m].count
    BY <1>0, <1>3, Recorded DEF Inv, TypeOK
  <2>2. run[u].number = c + 1
    BY <1>0, <1>3, <2>1, Recorded
  <2>3. /\ attempts' = [attempts EXCEPT ![m] = @ \cup {[number |-> c + 1, outcome |-> o]}]
        /\ note' = [note EXCEPT ![m] = [status |-> StatusAfter(o, c + 1), count |-> c + 1]]
    BY <1>3, <2>1, <2>2 DEF Finish
  <2>4. /\ note'[m].count = c + 1
        /\ attempts'[m] = attempts[m] \cup {[number |-> c + 1, outcome |-> o]}
        /\ \A n \in Notes \ {m} : note'[n] = note[n] /\ attempts'[n] = attempts[n]
    BY <2>1, <2>3 DEF Inv, TypeOK
  <2>5. \A k : k # c + 1 => (Succeeded(m, k)' <=> Succeeded(m, k))
    BY <2>4 DEF Succeeded
  <2>6. \A a \in attempts'[m] : a.number \in 1 .. c + 1
    BY <2>1, <2>4 DEF Inv, TypeOK, LedgerExact
  <2> DEFINE f == Cardinality(InFlight(m)) r == Cardinality(Runs)
             g == Cardinality(InFlight(m)')
  <2>7. /\ f \in Nat /\ r \in Nat /\ g \in Nat /\ f <= r /\ g = f - 1
        /\ Cardinality(InFlight(m))' = g
    <3>1. u \in InFlight(m)
      BY <1>0, <2>1 DEF InFlight
    <3> QED
      BY <3>1, <1>1, InFlightIsFinite, FS_RemoveElement, FS_CardinalityType
  <2>8. BudgetLeft(m) /\ SeriesLeft(m)
    BY DEF Bounded
  <2>9. Cardinality(Runs)' = Cardinality(Runs)
    OBVIOUS
  <2> HIDE DEF f, g
  <2>10. BudgetLeft(m)'
    BY <2>1, <2>4, <2>7, <2>8, ConstantsAssumption DEF BudgetLeft, f
  <2>11. SeriesLeft(m)'
    <3> SUFFICES ASSUME NEW i \in 1 .. c + 1,
                        \A j \in i .. c + 1 : Succeeded(m, j)'
                 PROVE  c + 1 - i + 1 + g <= r
      BY <2>4, <2>7 DEF SeriesLeft
    <3>1. CASE i = c + 1
      BY <3>1, <2>1, <2>7
    <3>2. CASE i # c + 1
      <4>1. i \in 1 .. c /\ \A j \in i .. c : Succeeded(m, j)
        BY <3>2, <2>1, <2>5
      <4>2. c - i + 1 + f <= r
        BY <4>1, <2>1, <2>8 DEF SeriesLeft, f
      <4> QED
        BY <4>2, <2>1, <2>7
    <3> QED
      BY <3>1, <3>2
  <2>12. ASSUME NEW i \in 1 .. c + 1
         PROVE  \E j \in i .. i + r : ~Succeeded(m, j)'
    <3> SUFFICES ASSUME \A j \in i .. i + r : Succeeded(m, j)'
                 PROVE  FALSE
      OBVIOUS
    <3>1. i + r \in i .. i + r
      BY <2>1, <2>7
    <3>2. i + r <= c + 1
      BY <3>1, <2>6, <2>1, <2>7 DEF Succeeded
    <3>3. CASE i + r = c + 1
      <4>1. i \in 1 .. note'[m].count /\ \A j \in i .. note'[m].count : Succeeded(m, j)'
        BY <3>3, <2>1, <2>4, <2>7
      <4>2. c + 1 - i + 1 + g <= r
        BY <4>1, <2>4, <2>7, <2>11 DEF SeriesLeft
      <4> QED
        BY <4>2, <3>3, <2>1, <2>7
    <3>4. CASE i + r < c + 1
      <4>1. i \in 1 .. note[m].count /\ \A j \in i .. i + r : Succeeded(m, j)
        BY <3>4, <2>1, <2>5, <2>7
      <4> QED
        BY <4>1, <2>1 DEF RepeatsNeedOverlap
    <3> QED
      BY <3>2, <3>3, <3>4, <2>1, <2>7
  <2>13. ASSUME NEW n \in Notes, n # m
         PROVE  BudgetLeft(n)' /\ SeriesLeft(n)'
    <3>1. BudgetLeft(n) /\ SeriesLeft(n)
      BY DEF Bounded
    <3>2. /\ Cardinality(InFlight(n))' = Cardinality(InFlight(n))
          /\ note'[n] = note[n] /\ \A k : Succeeded(n, k)' = Succeeded(n, k)
      <4>1. u \notin InFlight(n)
        BY <2>1, <2>13 DEF InFlight
      <4>2. InFlight(n)' = InFlight(n)
        BY <4>1, <1>1
      <4> QED
        BY <4>2, <2>4, <2>13 DEF Succeeded
    <3> QED
      BY <3>1, <3>2 DEF BudgetLeft, SeriesLeft
  <2>14. ASSUME NEW n \in Notes, n # m
         PROVE  \A i \in 1 .. note'[n].count : \E j \in i .. i + r : ~Succeeded(n, j)'
    BY <2>4, <2>14 DEF RepeatsNeedOverlap, Succeeded
  <2>15. RepeatsNeedOverlap'
    BY <2>4, <2>12, <2>14 DEF RepeatsNeedOverlap
  <2> QED
    BY <2>10, <2>11, <2>13, <2>15 DEF Bounded
<1> QED
  BY <1>2, <1>3

LEMMA ClaimBounds ==
  ASSUME Inv, Bounded, RepeatsNeedOverlap, Resenders = {},
         NEW u \in Runs, NEW row \in todo[u], ClaimRow(u, row)
  PROVE  Bounded' /\ RepeatsNeedOverlap'
<1>1. PICK m \in Notes : m = row.note
  BY DEF Inv, TypeOK, Rows
<1>2. /\ attempts' = attempts
      /\ \A n \in Notes : note'[n].count = note[n].count
  <2>1. \/ note' = note
        \/ note' = [note EXCEPT ![m] = note[m]]
        \/ note' = [note EXCEPT ![m] = [note[m] EXCEPT !.status = "pending"]]
    BY <1>1 DEF ClaimRow
  <2>2. note[m] \in [status : Statuses, count : Nat] /\ DOMAIN note = Notes
    BY DEF Inv, TypeOK
  <2>3. [note[m] EXCEPT !.status = "pending"].count = note[m].count
    BY <2>2
  <2> QED
    BY <2>1, <2>2, <2>3 DEF ClaimRow
<1>3. run[u] = Idle
  BY DEF ClaimRow, Takes
<1>4. \A n \in Notes \ {m} : InFlight(n)' \subseteq InFlight(n)
  BY <1>1, <1>3 DEF ClaimRow, InFlight, Inv, TypeOK
<1>5. \/ InFlight(m)' \subseteq InFlight(m)
      \/ /\ note[m].count < MaxDeliveryAttempts
         /\ note[m].count = 0 \/ ~Succeeded(m, note[m].count)
  <2> DEFINE s == IF note[m].status = "absent" THEN "pending" ELSE note[m].status
  <2>1. CASE run' = run \/ run' = [run EXCEPT ![u] = Idle]
    BY <2>1, <1>3 DEF InFlight, Inv, TypeOK
  <2>2. CASE ShouldAttempt(s, note[m].count, u \in Resenders)
    <3>1. s = "pending" \/ (s = "failed" /\ note[m].count < MaxDeliveryAttempts)
      BY <2>2 DEF ShouldAttempt, Inv, TypeOK
    <3>2. CASE note[m].count = 0
      BY <3>2, ConstantsAssumption
    <3>3. CASE note[m].count # 0
      <4>1. note[m].status = "failed" /\ note[m].count < MaxDeliveryAttempts
        BY <3>1, <3>3 DEF Inv, StatusIsLastOutcome
      <4>2. LastOutcome(m) # "success"
        BY <4>1, <3>3 DEF Inv, StatusIsLastOutcome
      <4> QED
        BY <4>1, <4>2, <3>3, LastSucceeded
    <3> QED
      BY <3>2, <3>3
  <2> QED
    BY <1>1, <2>1, <2>2 DEF ClaimRow, Inv, TypeOK
<1> QED
  BY <1>2, <1>4, <1>5, QuietBounds

LEMMA InductiveBounds ==
  ASSUME Inv, Bounded, RepeatsNeedOverlap, [Next]_vars
  PROVE  Bounded' /\ RepeatsNeedOverlap'
<1> SUFFICES ASSUME Resenders = {} PROVE Bounded' /\ RepeatsNeedOverlap'
  BY DEF Bounded, RepeatsNeedOverlap
<1>1. ASSUME NEW u \in Runs, Finish(u) PROVE Bounded' /\ RepeatsNeedOverlap'
  BY <1>1, FinishBounds
<1>2. ASSUME NEW u \in Runs, NEW row \in todo[u], ClaimRow(u, row)
      PROVE  Bounded' /\ RepeatsNeedOverlap'
  BY <1>2, ClaimBounds
<1>3. ASSUME UNCHANGED <<note, attempts>>, \A n \in Notes : InFlight(n)' \subseteq InFlight(n)
      PROVE  Bounded' /\ RepeatsNeedOverlap'
  BY <1>3, QuietBounds
<1>4. ASSUME UNCHANGED <<note, attempts, run>> PROVE Bounded' /\ RepeatsNeedOverlap'
  BY <1>3, <1>4 DEF InFlight
<1>5. ASSUME NEW a \in Anomalies, NEW v \in Verdicts, Redecide(a, v)
      PROVE  Bounded' /\ RepeatsNeedOverlap'
  BY <1>4, <1>5 DEF Redecide
<1>6. ASSUME NEW u \in Runs, NEW p \in Recipients, Read(u, p)
      PROVE  Bounded' /\ RepeatsNeedOverlap'
  BY <1>4, <1>6 DEF Read, db
<1>7. ASSUME NEW u \in Runs, NEW row \in todo[u], QueueReview(u, row)
      PROVE  Bounded' /\ RepeatsNeedOverlap'
  BY <1>4, <1>7 DEF QueueReview
<1>8. ASSUME NEW u \in Runs,
             (\E outcome \in Outcomes : Send(u, outcome)) \/ InsertAttempt(u) \/ RowFails(u) \/ Crash(u)
      PROVE  Bounded' /\ RepeatsNeedOverlap'
  <2>1. UNCHANGED <<note, attempts>>
    BY <1>8 DEF Send, InsertAttempt, RowFails, Crash, db
  <2>2. /\ run' = [run EXCEPT ![u] = run'[u]]
        /\ \/ run'[u] = Idle
           \/ run[u].pc # "idle" /\ run'[u].note = run[u].note
    BY <1>8 DEF Send, InsertAttempt, RowFails, Crash, Inv, TypeOK
  <2> QED
    BY <1>3, <2>1, <2>2 DEF InFlight, Inv, TypeOK
<1>9. CASE UNCHANGED vars
  BY <1>4, <1>9 DEF vars
<1> QED
  BY <1>1, <1>2, <1>5, <1>6, <1>7, <1>8, <1>9 DEF Next, RunStep

LEMMA InitBounds == Init => Bounded /\ RepeatsNeedOverlap
<1> SUFFICES ASSUME Init PROVE Bounded /\ RepeatsNeedOverlap
  OBVIOUS
<1>1. \A n \in Notes : note[n].count = 0
  BY DEF Init
<1> QED
  BY <1>1, ConstantsAssumption DEF Bounded, BudgetLeft, SeriesLeft, RepeatsNeedOverlap

\* Without resends, runs that overlap spend at most one attempt each beyond
\* MAX_DELIVERY_ATTEMPTS, and one run by itself none.
THEOREM OverrunIsBounded == Spec => []BudgetOverrunIsBounded
<1>1. Inv /\ Bounded => BudgetOverrunIsBounded
  <2> SUFFICES ASSUME Inv, Bounded, Resenders = {}, NEW n \in Notes
               PROVE  note[n].count <= MaxDeliveryAttempts + Cardinality(Runs) - 1
    BY DEF BudgetOverrunIsBounded
  <2>1. /\ Cardinality(InFlight(n)) \in Nat /\ Cardinality(Runs) \in Nat
        /\ note[n].count \in Nat /\ BudgetLeft(n)
    BY InFlightIsFinite DEF Inv, TypeOK, Bounded
  <2>2. CASE note[n].count >= MaxDeliveryAttempts
    BY <2>1, <2>2, ConstantsAssumption DEF BudgetLeft
  <2>3. CASE note[n].count < MaxDeliveryAttempts
    BY <2>1, <2>3, ConstantsAssumption
  <2> QED
    BY <2>1, <2>2, <2>3, ConstantsAssumption
<1> QED
  BY <1>1, InitInv, InductiveInv, InitBounds, InductiveBounds, PTL DEF Spec

\* Without resends, no series of deliveries of one notification is longer than the
\* number of runs: each repetition is by a run that set off before the first.
THEOREM RepeatsAreOverlaps == Spec => []RepeatsNeedOverlap
BY InitInv, InductiveInv, InitBounds, InductiveBounds, PTL DEF Spec
=============================================================================
