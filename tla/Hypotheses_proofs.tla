--------------------------- MODULE Hypotheses_proofs ---------------------------
(***************************************************************************)
(* Proofs about Hypotheses: for any anomalies, any number of overlapping     *)
(* runs, any answers of the model and any names it gives itself, no           *)
(* regeneration loses an analysis, none that was delivered is replaced, and  *)
(* a run's success is what it says.                                          *)
(***************************************************************************)
EXTENDS Hypotheses, TLAPS

Rows == [day : Anomalies, verdict : Verdicts]
Txns == [row : Rows, target : Nat, removed : BOOLEAN, served : Served]
Loops == [pc : {"loop"}, regenerate : BOOLEAN, covered : SUBSET Anomalies,
          todo : SUBSET Rows, failed : BOOLEAN, txn : {NoTxn}]
Works == [pc : {"deleting", "asking", "saving"}, regenerate : BOOLEAN,
          covered : SUBSET Anomalies, todo : SUBSET Rows, failed : BOOLEAN, txn : Txns]

\* Every variable ranges over its table's or its memory's type; a transaction is
\* open exactly while an anomaly is worked on.
TypeOK ==
    /\ ready \in BOOLEAN
    /\ decision \in [Anomalies -> Verdicts]
    /\ hyps \in [Anomalies -> [Served -> Nat]]
    /\ lastId \in [Anomalies -> Nat]
    /\ notice \in [Anomalies -> Nat \cup {Absent}]
    /\ run \in [Runs -> {Idle} \cup Loops \cup Works]

\* A run that has deleted an analysis holds it: the row is still the one others
\* see, no notification has come to refer to it, and nobody else has deleted it.
Holds(u) == run[u].txn.removed
LocksStand ==
    \A u \in Runs : Holds(u) =>
        /\ run[u] \in Works
        /\ run[u].txn.target # NoId
        /\ hyps[Day(u)][Configured] = run[u].txn.target
        /\ notice[Day(u)] # run[u].txn.target
        /\ \A w \in Runs : Holds(w) /\ Day(w) = Day(u) => w = u

\* What a run has taken up and not failed on is explained, or its turn is now or
\* to come.
Pending(u, a) ==
    \/ \E row \in run[u].todo : row.day = a
    \/ run[u] \in Works /\ Day(u) = a

TakenUp ==
    \A u \in Runs : run[u] # Idle /\ ~run[u].failed =>
        \A a \in run[u].covered : Explained(a) \/ Pending(u, a)

IInv == TypeOK /\ LocksStand /\ DeliveredReasonsStand /\ TakenUp

USE ConstantsAssumption

-----------------------------------------------------------------------------
LEMMA InitHolds == Init => IInv
<1> SUFFICES ASSUME Init PROVE IInv
  OBVIOUS
<1>1. TypeOK
  BY DEF Init, TypeOK, NoId, Absent
<1>2. LocksStand /\ TakenUp
  BY DEF Init, LocksStand, Holds, TakenUp, Idle, NoTxn
<1>3. DeliveredReasonsStand
  BY DEF Init, DeliveredReasonsStand
<1> QED
  BY <1>1, <1>2, <1>3 DEF IInv

\* No run is idle and at work.
LEMMA Kinds ==
  ASSUME TypeOK, NEW u \in Runs
  PROVE  /\ run[u].pc = "loop" => run[u] \in Loops /\ ~Holds(u)
         /\ run[u].pc \in {"deleting", "asking", "saving"} =>
               run[u] \in Works /\ run[u].txn \in Txns /\ Day(u) \in Anomalies
         /\ run[u] \in Works => run[u] # Idle /\ run[u].pc # "loop" /\ run[u] \notin Loops
         /\ run[u] # Idle => run[u].pc # "idle"
         /\ run[u] = Idle => ~Holds(u)
<1>1. run[u] \in {Idle} \cup Loops \cup Works
  BY DEF TypeOK
<1>2. ASSUME run[u] \in Loops
      PROVE  run[u].pc = "loop" /\ ~Holds(u)
  BY <1>2 DEF Loops, Holds, NoTxn
<1>3. ASSUME run[u] \in Works
      PROVE  /\ run[u].pc \in {"deleting", "asking", "saving"}
             /\ run[u].txn \in Txns /\ Day(u) \in Anomalies
  BY <1>3 DEF Works, Txns, Rows, Day
<1>4. ASSUME run[u] = Idle
      PROVE  run[u].pc = "idle" /\ ~Holds(u)
  BY <1>4 DEF Idle, Holds, NoTxn
<1> QED
  BY <1>1, <1>2, <1>3, <1>4

-----------------------------------------------------------------------------
(* Most steps leave the analyses and the notifications alone and change one  *)
(* run, which comes to hold nothing.                                         *)

LEMMA QuietRun ==
  ASSUME IInv, NEW u \in Runs, UNCHANGED <<hyps, notice>>,
         TypeOK', ~Holds(u)',
         \A w \in Runs \ {u} : run'[w] = run[w],
         run'[u] # Idle /\ ~run'[u].failed =>
            \A a \in run'[u].covered : Explained(a) \/ Pending(u, a)'
  PROVE  IInv'
<1>1. \A a \in Anomalies : Explained(a)' <=> Explained(a)
  BY DEF Explained
<1>2. \A w \in Runs \ {u} : /\ Holds(w)' <=> Holds(w)
                            /\ Day(w)' = Day(w)
                            /\ \A a : Pending(w, a)' <=> Pending(w, a)
  BY DEF Holds, Day, Pending
<1>3. LocksStand'
  BY <1>2 DEF IInv, LocksStand
<1>4. DeliveredReasonsStand'
  BY DEF IInv, DeliveredReasonsStand
<1>5. TakenUp'
  <2> SUFFICES ASSUME NEW w \in Runs, run'[w] # Idle, ~run'[w].failed, NEW a \in run'[w].covered
               PROVE  Explained(a)' \/ Pending(w, a)'
    BY DEF TakenUp
  <2>1. Explained(a)' <=> Explained(a)
    BY DEF Explained
  <2>2. CASE w = u
    BY <2>1, <2>2
  <2>3. CASE w # u
    BY <1>2, <2>1, <2>3 DEF IInv, TakenUp
  <2> QED
    BY <2>2, <2>3
<1> QED
  BY <1>3, <1>4, <1>5 DEF IInv

LEMMA StartHolds ==
  ASSUME IInv, NEW u \in Runs, NEW regenerate \in BOOLEAN, NEW only \in SUBSET Anomalies,
         NEW limit, Start(u, regenerate, only, limit)
  PROVE  IInv'
<1> DEFINE found == {a \in only : Actionable(a)}
           pending == {a \in found : regenerate \/ ~AlreadyAnalysed(a)}
           taken == First(limit, pending)
           todo == {[day |-> a, verdict |-> decision[a]] : a \in taken}
           new == [pc |-> "loop", regenerate |-> regenerate, covered |-> found \ (pending \ taken),
                   todo |-> todo, failed |-> FALSE, txn |-> NoTxn]
<1>1. run' = [run EXCEPT ![u] = new] /\ UNCHANGED db
  BY DEF Start
<1>2. taken \subseteq pending
  BY DEF First
<1>3. todo \subseteq Rows
  <2> SUFFICES ASSUME NEW a \in taken PROVE [day |-> a, verdict |-> decision[a]] \in Rows
    OBVIOUS
  <2>1. a \in Anomalies
    BY <1>2
  <2> QED
    BY <2>1 DEF Rows, IInv, TypeOK
<1>4. new \in Loops
  BY <1>3 DEF Loops
<1>5. TypeOK'
  BY <1>1, <1>4 DEF IInv, TypeOK, db
<1>6. run'[u] = new /\ \A w \in Runs \ {u} : run'[w] = run[w]
  BY <1>1 DEF IInv, TypeOK
<1>7. \A a \in run'[u].covered : Explained(a) \/ Pending(u, a)'
  <2> SUFFICES ASSUME NEW a \in new.covered
               PROVE  Explained(a) \/ \E row \in new.todo : row.day = a
    BY <1>6 DEF Pending
  <2>1. CASE a \in taken
    <3>1. [day |-> a, verdict |-> decision[a]] \in todo
      BY <2>1
    <3>2. [day |-> a, verdict |-> decision[a]].day = a
      OBVIOUS
    <3> QED
      BY <3>1, <3>2
  <2>2. CASE a \notin taken
    BY <2>2 DEF AlreadyAnalysed, Explained
  <2> QED
    BY <2>1, <2>2
<1>8. ~Holds(u)'
  BY <1>6 DEF Holds, NoTxn
<1> QED
  BY <1>1, <1>5, <1>6, <1>7, <1>8, QuietRun DEF db

LEMMA BeginHolds ==
  ASSUME IInv, NEW u \in Runs, Begin(u)
  PROVE  IInv'
<1>1. PICK row \in run[u].todo :
         run' = [run EXCEPT ![u] =
            IF NoFutureData(Shown[row.day])
            THEN [run[u] EXCEPT !.pc = IF run[u].regenerate THEN "deleting" ELSE "asking",
                                !.todo = @ \ {row},
                                !.txn = [row |-> row, target |-> hyps[row.day][Configured],
                                         removed |-> FALSE, served |-> Configured]]
            ELSE [run[u] EXCEPT !.todo = @ \ {row}, !.failed = TRUE]]
  BY DEF Begin
<1>2. run[u].pc = "loop" /\ UNCHANGED db
  BY DEF Begin
<1>3. run[u] \in Loops /\ row \in Rows /\ run[u] # Idle
  BY <1>2, Kinds DEF IInv, Loops, Idle
<1>4. run[u].regenerate \in BOOLEAN /\ run[u].todo \subseteq Rows
      /\ run[u].covered \subseteq Anomalies /\ run[u].failed \in BOOLEAN /\ run[u].txn = NoTxn
  BY <1>3 DEF Loops
<1>5. hyps[row.day][Configured] \in Nat
  BY <1>3 DEF Rows, IInv, TypeOK
<1>6. \A w \in Runs \ {u} : run'[w] = run[w]
  BY <1>1 DEF IInv, TypeOK
<1>7. CASE NoFutureData(Shown[row.day])
  <2> DEFINE txn == [row |-> row, target |-> hyps[row.day][Configured],
                     removed |-> FALSE, served |-> Configured]
             pc == IF run[u].regenerate THEN "deleting" ELSE "asking"
             new == [run[u] EXCEPT !.pc = pc, !.todo = @ \ {row}, !.txn = txn]
  <2>1. run' = [run EXCEPT ![u] = new]
    BY <1>1, <1>7
  <2>2. txn \in Txns
    BY <1>3, <1>5 DEF Txns
  <2>3. /\ new.todo = run[u].todo \ {row} /\ new.failed = run[u].failed
        /\ new.covered = run[u].covered /\ new.txn = txn
    BY <1>3 DEF Loops
  <2>4. new \in Works
    <3>1. pc \in {"deleting", "asking", "saving"} /\ run[u].todo \ {row} \in SUBSET Rows
      BY <1>4
    <3> QED
      BY <1>3, <2>2, <3>1 DEF Loops, Works
  <2>5. TypeOK' /\ run'[u] = new
    BY <1>2, <2>1, <2>4 DEF IInv, TypeOK, db
  <2>6. ~Holds(u)'
    BY <2>3, <2>5 DEF Holds
  <2>7. \A a : Pending(u, a) => Pending(u, a)'
    BY <1>3, <2>3, <2>4, <2>5, Kinds DEF IInv, Pending, Day
  <2>8. ~run'[u].failed => \A a \in run'[u].covered : Explained(a) \/ Pending(u, a)'
    BY <1>3, <2>3, <2>5, <2>7 DEF IInv, TakenUp
  <2> QED
    BY <1>2, <1>6, <2>5, <2>6, <2>8, QuietRun DEF db
<1>8. CASE ~NoFutureData(Shown[row.day])
  <2> DEFINE new == [run[u] EXCEPT !.todo = @ \ {row}, !.failed = TRUE]
  <2>1. run' = [run EXCEPT ![u] = new]
    BY <1>1, <1>8
  <2>2. new.failed = TRUE /\ new.txn = NoTxn
    BY <1>3, <1>4 DEF Loops
  <2>3. new \in Loops
    <3>1. run[u].todo \ {row} \in SUBSET Rows
      BY <1>4
    <3> QED
      BY <1>3, <3>1 DEF Loops
  <2>4. TypeOK' /\ run'[u] = new
    BY <1>2, <2>1, <2>3 DEF IInv, TypeOK, db
  <2>5. ~Holds(u)' /\ run'[u].failed
    BY <2>2, <2>4 DEF Holds, NoTxn
  <2> QED
    BY <1>2, <1>6, <2>4, <2>5, QuietRun DEF db
<1> QED
  BY <1>7, <1>8

\* A rollback lets go of what was deleted and counts as a failure.
LEMMA FailedHolds ==
  ASSUME IInv, NEW u \in Runs, run[u] \in Works, Failed(u), UNCHANGED db
  PROVE  IInv'
<1> DEFINE new == [run[u] EXCEPT !.pc = "loop", !.txn = NoTxn, !.failed = TRUE]
<1>1. run' = [run EXCEPT ![u] = new]
  BY DEF Failed
<1>2. new.failed = TRUE /\ new.txn = NoTxn
  BY DEF Works
<1>3. new \in Loops
  BY DEF Works, Loops
<1>4. TypeOK' /\ run'[u] = new /\ \A w \in Runs \ {u} : run'[w] = run[w]
  BY <1>1, <1>3 DEF IInv, TypeOK, db
<1>5. ~Holds(u)' /\ run'[u].failed
  BY <1>2, <1>4 DEF Holds, NoTxn
<1> QED
  BY <1>4, <1>5, QuietRun DEF db

\* The lock that a deletion takes: nobody holds it, and no notification refers to
\* the row.
LEMMA DeleteHolds ==
  ASSUME IInv, NEW u \in Runs, Delete(u)
  PROVE  IInv'
<1> DEFINE t == run[u].txn
           there == t.target # NoId /\ hyps[Day(u)][Configured] = t.target
           new == [run[u] EXCEPT !.pc = "asking", !.txn.removed = there]
<1>1. run[u].pc = "deleting" /\ UNCHANGED db /\ ~Locked(u, Day(u), t.target)
  BY DEF Delete
<1>2. run[u] \in Works /\ t \in Txns /\ Day(u) \in Anomalies /\ run[u] # Idle
  BY <1>1, Kinds DEF IInv
<1>0. PICK queued \in BOOLEAN :
         IF there /\ ~Removable(Day(u), t.target, queued) THEN Failed(u) ELSE run' = [run EXCEPT ![u] = new]
  BY DEF Delete
<1>3. CASE there /\ ~Removable(Day(u), t.target, queued)
  BY <1>0, <1>1, <1>2, <1>3, FailedHolds
<1>4. CASE ~(there /\ ~Removable(Day(u), t.target, queued))
  <2>1. run' = [run EXCEPT ![u] = new]
    BY <1>0, <1>4
  <2>2. there \in BOOLEAN
    OBVIOUS
  <2>3. /\ new.todo = run[u].todo /\ new.failed = run[u].failed
        /\ new.covered = run[u].covered /\ new.txn = [t EXCEPT !.removed = there]
    BY <1>2 DEF Works
  <2>4. /\ new.txn \in Txns /\ new.txn.removed = there
        /\ new.txn.target = t.target /\ new.txn.row = t.row
    <3>1. ASSUME NEW b \in BOOLEAN, NEW s, s = [t EXCEPT !.removed = b]
          PROVE  s \in Txns /\ s.removed = b /\ s.target = t.target /\ s.row = t.row
      BY <1>2, <3>1 DEF Txns
    <3> HIDE DEF there, new
    <3> QED
      BY <2>2, <2>3, <3>1
  <2>5. new \in Works
    BY <1>2, <2>3, <2>4 DEF Works
  <2>6. /\ TypeOK' /\ run'[u] = new /\ \A w \in Runs \ {u} : run'[w] = run[w]
        /\ UNCHANGED <<hyps, notice>>
    BY <1>1, <2>1, <2>5 DEF IInv, TypeOK, db
  <2>7. /\ Day(u)' = Day(u) /\ run'[u].txn.target = t.target /\ (Holds(u)' <=> there)
        /\ \A w \in Runs \ {u} : Day(w)' = Day(w) /\ (Holds(w)' <=> Holds(w))
    BY <2>3, <2>4, <2>6 DEF Day, Holds
  <2>8. \A w \in Runs \ {u} : there /\ Holds(w) => Day(w) # Day(u)
    <3> SUFFICES ASSUME NEW w \in Runs \ {u}, there, Holds(w), Day(w) = Day(u)
                 PROVE  FALSE
      OBVIOUS
    <3>1. run[w].txn.target = t.target
      BY DEF IInv, LocksStand
    <3> QED
      BY <1>1, <3>1 DEF Locked, Holds
  <2>9. there => notice[Day(u)] # t.target
    BY <1>4 DEF Removable
  <2>10. LocksStand'
    <3> SUFFICES ASSUME NEW v \in Runs, Holds(v)'
                 PROVE  /\ run'[v] \in Works
                        /\ run'[v].txn.target # NoId
                        /\ hyps[Day(v)'][Configured] = run'[v].txn.target
                        /\ notice[Day(v)'] # run'[v].txn.target
                        /\ \A w \in Runs : Holds(w)' /\ Day(w)' = Day(v)' => w = v
      BY <2>6 DEF LocksStand
    <3>1. CASE v = u
      <4>1. there /\ run'[u] \in Works /\ run'[u].txn.target = t.target /\ Day(u)' = Day(u)
        BY <2>5, <2>6, <2>7, <3>1
      <4>2. \A w \in Runs : Holds(w)' /\ Day(w)' = Day(u)' => w = u
        BY <2>7, <2>8, <4>1
      <4> QED
        BY <2>9, <3>1, <4>1, <4>2
    <3>2. CASE v # u
      <4>1. Holds(v) /\ run'[v] = run[v] /\ Day(v)' = Day(v)
        BY <2>6, <2>7, <3>2
      <4>2. /\ run[v] \in Works /\ run[v].txn.target # NoId
            /\ hyps[Day(v)][Configured] = run[v].txn.target
            /\ notice[Day(v)] # run[v].txn.target
            /\ \A w \in Runs : Holds(w) /\ Day(w) = Day(v) => w = v
        BY <4>1 DEF IInv, LocksStand
      <4>3. \A w \in Runs : Holds(w)' /\ Day(w)' = Day(v)' => w = v
        BY <2>7, <2>8, <3>2, <4>1, <4>2
      <4> QED
        BY <4>1, <4>2, <4>3
    <3> QED
      BY <3>1, <3>2
  <2>11. DeliveredReasonsStand'
    BY <2>6 DEF IInv, DeliveredReasonsStand
  <2>12. TakenUp'
    <3>1. \A a : Explained(a)' <=> Explained(a)
      BY <2>6 DEF Explained
    <3>2. \A v \in Runs : /\ run'[v].todo = run[v].todo /\ Day(v)' = Day(v)
                          /\ run[v] \in Works => run'[v] \in Works
      BY <2>3, <2>5, <2>6, <2>7
    <3>3. \A v \in Runs : \A a : Pending(v, a) => Pending(v, a)'
      BY <3>2 DEF Pending
    <3>4. \A v \in Runs : /\ run'[v] # Idle => run[v] # Idle
                          /\ run'[v].failed = run[v].failed /\ run'[v].covered = run[v].covered
      BY <1>2, <2>3, <2>6
    <3> QED
      BY <3>1, <3>4, <3>3 DEF IInv, TakenUp
  <2> QED
    BY <2>6, <2>10, <2>11, <2>12 DEF IInv
<1> QED
  BY <1>3, <1>4

\* An answer that is accepted is one that has a name.
LEMMA AskHolds ==
  ASSUME IInv, NEW u \in Runs, NEW reply \in Answers, Ask(u, reply)
  PROVE  IInv'
<1>1. run[u].pc = "asking" /\ UNCHANGED db
  BY DEF Ask
<1>2. run[u] \in Works /\ run[u].txn \in Txns /\ Day(u) \in Anomalies /\ run[u] # Idle
  BY <1>1, Kinds DEF IInv
<1>3. CASE ~Accepted(run[u].txn.row, reply)
  BY <1>1, <1>2, <1>3, FailedHolds DEF Ask
<1>4. CASE Accepted(run[u].txn.row, reply)
  <2> DEFINE t == run[u].txn
             new == [run[u] EXCEPT !.pc = "saving", !.txn.served = reply.served]
  <2>1. run' = [run EXCEPT ![u] = new]
    BY <1>4 DEF Ask
  <2>2. reply.served \in Served
    <3>1. reply \in Replies
      BY DEF Answers, Negotiated
    <3>2. reply.kind = "body"
      BY <1>4 DEF Accepted, Parsed
    <3>3. reply \in Bodies
      BY <3>1, <3>2 DEF Replies
    <3> QED
      BY <3>3 DEF Bodies
  <2>3. /\ new.todo = run[u].todo /\ new.failed = run[u].failed
        /\ new.covered = run[u].covered /\ new.txn = [t EXCEPT !.served = reply.served]
    BY <1>2 DEF Works
  <2>4. /\ new.txn \in Txns /\ new.txn.removed = t.removed
        /\ new.txn.target = t.target /\ new.txn.row = t.row
    BY <1>2, <2>2, <2>3 DEF Txns
  <2>5. new \in Works
    BY <1>2, <2>3, <2>4 DEF Works
  <2>6. /\ TypeOK' /\ run'[u] = new /\ \A w \in Runs \ {u} : run'[w] = run[w]
        /\ UNCHANGED <<hyps, notice>>
    BY <1>1, <2>1, <2>5 DEF IInv, TypeOK, db
  <2>7. \A v \in Runs : /\ Day(v)' = Day(v) /\ (Holds(v)' <=> Holds(v))
                        /\ run'[v].txn.target = run[v].txn.target
                        /\ run[v] \in Works => run'[v] \in Works
    BY <2>4, <2>5, <2>6 DEF Day, Holds
  <2>8. LocksStand'
    BY <2>6, <2>7 DEF IInv, LocksStand
  <2>9. DeliveredReasonsStand'
    BY <2>6 DEF IInv, DeliveredReasonsStand
  <2>10. TakenUp'
    <3>1. \A a : Explained(a)' <=> Explained(a)
      BY <2>6 DEF Explained
    <3>2. \A v \in Runs : /\ run'[v].todo = run[v].todo /\ Day(v)' = Day(v)
                          /\ run[v] \in Works => run'[v] \in Works
      BY <2>3, <2>6, <2>7
    <3>3. \A v \in Runs : \A a : Pending(v, a) => Pending(v, a)'
      BY <3>2 DEF Pending
    <3>4. \A v \in Runs : /\ run'[v] # Idle => run[v] # Idle
                          /\ run'[v].failed = run[v].failed /\ run'[v].covered = run[v].covered
      BY <1>2, <2>3, <2>6
    <3> QED
      BY <3>1, <3>4, <3>3 DEF IInv, TakenUp
  <2> QED
    BY <2>6, <2>8, <2>9, <2>10 DEF IInv
<1> QED
  BY <1>3, <1>4

-----------------------------------------------------------------------------
\* What the commit of an analysis does to the stored ones: of the anomaly it is
\* about, nothing goes but what the run holds, and something is there afterwards.
LEMMA SaveWrites ==
  ASSUME IInv, NEW u \in Runs, Save(u)
  PROVE  /\ run[u] \in Works /\ run[u] # Idle /\ Day(u) \in Anomalies
         /\ hyps' \in [Anomalies -> [Served -> Nat]] /\ lastId' \in [Anomalies -> Nat]
         /\ \A b \in Anomalies \ {Day(u)} : hyps'[b] = hyps[b]
         /\ \A m \in Served : hyps[Day(u)][m] # NoId /\ (Holds(u) => m # Configured) =>
               hyps'[Day(u)][m] = hyps[Day(u)][m]
         /\ \E m \in Served : hyps'[Day(u)][m] # NoId
<1> DEFINE t == run[u].txn
           a == Day(u)
           left == IF t.removed THEN [hyps[a] EXCEPT ![Configured] = NoId] ELSE hyps[a]
           fresh == left[t.served] = NoId
<1>1. run[u].pc = "saving"
  BY DEF Save
<1>2. run[u] \in Works /\ t \in Txns /\ a \in Anomalies /\ run[u] # Idle
  BY <1>1, Kinds DEF IInv
<1>3. t.served \in Served /\ left \in [Served -> Nat] /\ lastId[a] \in Nat
  BY <1>2 DEF Txns, IInv, TypeOK, NoId
<1>4. /\ hyps' = [hyps EXCEPT ![a] =
             IF fresh THEN [left EXCEPT ![t.served] = lastId[a] + 1] ELSE left]
      /\ lastId' = IF fresh THEN [lastId EXCEPT ![a] = @ + 1] ELSE lastId
  BY DEF Save
<1>5. hyps'[a] = IF fresh THEN [left EXCEPT ![t.served] = lastId[a] + 1] ELSE left
  BY <1>2, <1>4 DEF IInv, TypeOK
<1>6. \A b \in Anomalies \ {a} : hyps'[b] = hyps[b]
  BY <1>4 DEF IInv, TypeOK
<1>7. hyps'[a] \in [Served -> Nat]
  BY <1>3, <1>5
<1>8. hyps' \in [Anomalies -> [Served -> Nat]] /\ lastId' \in [Anomalies -> Nat]
  BY <1>2, <1>3, <1>4 DEF IInv, TypeOK
<1>9. \A m \in Served : hyps[a][m] # NoId /\ (t.removed => m # Configured) =>
                           hyps'[a][m] = hyps[a][m]
  <2> SUFFICES ASSUME NEW m \in Served, hyps[a][m] # NoId, t.removed => m # Configured
               PROVE  hyps'[a][m] = hyps[a][m]
    OBVIOUS
  <2>1. left[m] = hyps[a][m]
    BY <1>2 DEF IInv, TypeOK
  <2> QED
    BY <1>3, <1>5, <2>1
<1>10. hyps'[a][t.served] # NoId
  BY <1>3, <1>5 DEF NoId
<1> QED
  BY <1>2, <1>3, <1>6, <1>8, <1>9, <1>10 DEF Holds

LEMMA SaveKeeps ==
  ASSUME IInv, NEW u \in Runs, Save(u), NEW b \in Anomalies, Explained(b)
  PROVE  Explained(b)'
<1>1. CASE b = Day(u)
  BY <1>1, SaveWrites DEF Explained
<1>2. CASE b # Day(u)
  BY <1>2, SaveWrites DEF Explained
<1> QED
  BY <1>1, <1>2

LEMMA SaveHolds ==
  ASSUME IInv, NEW u \in Runs, Save(u)
  PROVE  IInv'
<1> DEFINE a == Day(u)
           new == [run[u] EXCEPT !.pc = "loop", !.txn = NoTxn]
<1>1. run' = [run EXCEPT ![u] = new] /\ UNCHANGED <<ready, decision, notice>>
  BY DEF Save
<1>2. /\ run[u] \in Works /\ run[u] # Idle /\ a \in Anomalies
      /\ hyps' \in [Anomalies -> [Served -> Nat]] /\ lastId' \in [Anomalies -> Nat]
      /\ \A b \in Anomalies \ {a} : hyps'[b] = hyps[b]
      /\ \A m \in Served : hyps[a][m] # NoId /\ (Holds(u) => m # Configured) =>
            hyps'[a][m] = hyps[a][m]
  BY SaveWrites
<1>3. /\ new.todo = run[u].todo /\ new.failed = run[u].failed
      /\ new.covered = run[u].covered /\ new.txn = NoTxn
  BY <1>2 DEF Works
<1>4. new \in Loops
  BY <1>2 DEF Works, Loops
<1>5. TypeOK' /\ run'[u] = new /\ \A w \in Runs \ {u} : run'[w] = run[w]
  BY <1>1, <1>2, <1>4 DEF IInv, TypeOK
<1>6. /\ ~Holds(u)'
      /\ \A w \in Runs \ {u} : (Holds(w)' <=> Holds(w)) /\ Day(w)' = Day(w)
  BY <1>3, <1>5 DEF Holds, Day, NoTxn
<1>7. LocksStand'
  <2> SUFFICES ASSUME NEW v \in Runs, Holds(v)'
               PROVE  /\ run'[v] \in Works
                      /\ run'[v].txn.target # NoId
                      /\ hyps'[Day(v)'][Configured] = run'[v].txn.target
                      /\ notice'[Day(v)'] # run'[v].txn.target
                      /\ \A w \in Runs : Holds(w)' /\ Day(w)' = Day(v)' => w = v
    BY DEF LocksStand
  <2>1. v # u /\ Holds(v) /\ run'[v] = run[v] /\ Day(v)' = Day(v)
    BY <1>5, <1>6
  <2>2. /\ run[v] \in Works /\ run[v].txn.target # NoId
        /\ hyps[Day(v)][Configured] = run[v].txn.target
        /\ notice[Day(v)] # run[v].txn.target
        /\ \A w \in Runs : Holds(w) /\ Day(w) = Day(v) => w = v
    BY <2>1 DEF IInv, LocksStand
  <2>3. Day(v) \in Anomalies
    BY <2>2 DEF Works, Txns, Rows, Day
  <2>4. hyps'[Day(v)][Configured] = hyps[Day(v)][Configured]
    <3>1. CASE Day(v) = a
      <4>1. ~Holds(u)
        BY <2>1, <2>2, <3>1
      <4> QED
        BY <1>2, <2>2, <3>1, <4>1
    <3>2. CASE Day(v) # a
      BY <1>2, <2>3, <3>2
    <3> QED
      BY <3>1, <3>2
  <2>5. \A w \in Runs : Holds(w)' /\ Day(w)' = Day(v)' => w = v
    BY <1>6, <2>1, <2>2
  <2> QED
    BY <1>1, <2>1, <2>2, <2>4, <2>5
<1>8. DeliveredReasonsStand'
  <2> SUFFICES ASSUME NEW b \in Anomalies, notice[b] \notin {Absent, NoId}
               PROVE  \E m \in Served : notice[b] = hyps'[b][m]
    BY <1>1 DEF DeliveredReasonsStand
  <2>1. PICK m \in Served : notice[b] = hyps[b][m]
    BY DEF IInv, DeliveredReasonsStand
  <2>2. CASE b # a
    BY <1>2, <2>1, <2>2
  <2>3. CASE b = a
    <3>1. Holds(u) => m # Configured
      BY <2>1, <2>3 DEF IInv, LocksStand
    <3> QED
      BY <1>2, <2>1, <2>3, <3>1
  <2> QED
    BY <2>2, <2>3
<1>9. TakenUp'
  <2> SUFFICES ASSUME NEW v \in Runs, run'[v] # Idle, ~run'[v].failed, NEW b \in run'[v].covered
               PROVE  Explained(b)' \/ Pending(v, b)'
    BY DEF TakenUp
  <2>1. run[v] # Idle /\ ~run[v].failed /\ b \in run[v].covered /\ run'[v].todo = run[v].todo
    BY <1>2, <1>3, <1>5
  <2>2. b \in Anomalies
    BY <2>1 DEF IInv, TypeOK, Loops, Works
  <2>3. CASE Explained(b)
    BY <2>2, <2>3, SaveKeeps
  <2>4. CASE Pending(v, b)
    <3>1. CASE \E row \in run[v].todo : row.day = b
      BY <2>1, <3>1 DEF Pending
    <3>2. CASE run[v] \in Works /\ Day(v) = b
      <4>1. CASE v = u
        <5>1. b = Day(u)
          BY <3>2, <4>1
        <5> QED
          BY <5>1, SaveWrites DEF Explained
      <4>2. CASE v # u
        BY <1>5, <1>6, <3>2, <4>2 DEF Pending
      <4> QED
        BY <4>1, <4>2
    <3> QED
      BY <2>4, <3>1, <3>2 DEF Pending
  <2> QED
    BY <2>1, <2>3, <2>4 DEF IInv, TakenUp
<1> QED
  BY <1>5, <1>7, <1>8, <1>9 DEF IInv

-----------------------------------------------------------------------------
LEMMA EndHolds ==
  ASSUME IInv, NEW u \in Runs, Finish(u) \/ Kill(u)
  PROVE  IInv'
<1>1. run' = [run EXCEPT ![u] = Idle] /\ UNCHANGED db
  BY DEF Finish, Kill
<1>2. TypeOK' /\ run'[u] = Idle /\ \A w \in Runs \ {u} : run'[w] = run[w]
  BY <1>1 DEF IInv, TypeOK, db
<1>3. ~Holds(u)'
  BY <1>2 DEF Holds, Idle, NoTxn
<1> QED
  BY <1>1, <1>2, <1>3, QuietRun DEF db

LEMMA RedecideHolds ==
  ASSUME IInv, NEW a \in Anomalies, NEW v \in Verdicts, Redecide(a, v)
  PROVE  IInv'
<1>1. UNCHANGED <<ready, hyps, lastId, notice, run>> /\ decision' = [decision EXCEPT ![a] = v]
  BY DEF Redecide
<1>2. TypeOK'
  BY <1>1 DEF IInv, TypeOK
<1>3. LocksStand' /\ DeliveredReasonsStand'
  BY <1>1 DEF IInv, LocksStand, Holds, Day, DeliveredReasonsStand
<1>4. TakenUp'
  BY <1>1 DEF IInv, TakenUp, Explained, Pending, Day
<1> QED
  BY <1>2, <1>3, <1>4 DEF IInv

LEMMA StageSixHolds ==
  ASSUME IInv, Unready \/ Recovered
  PROVE  IInv'
<1>1. UNCHANGED <<decision, hyps, lastId, notice, run>> /\ ready' \in BOOLEAN
  BY DEF Unready, Recovered
<1>2. TypeOK'
  BY <1>1 DEF IInv, TypeOK
<1>3. LocksStand' /\ DeliveredReasonsStand'
  BY <1>1 DEF IInv, LocksStand, Holds, Day, DeliveredReasonsStand
<1>4. TakenUp'
  BY <1>1 DEF IInv, TakenUp, Explained, Pending, Day
<1> QED
  BY <1>2, <1>3, <1>4 DEF IInv

\* A notification refers to nothing that is being deleted.
LEMMA NotifyHolds ==
  ASSUME IInv, NEW a \in Anomalies, Notify(a)
  PROVE  IInv'
<1>1. PICK id \in IF Explained(a) THEN {hyps[a][m] : m \in Served} \ {NoId} ELSE {NoId} :
         /\ \A u \in Runs : ~(run[u].txn.removed /\ Day(u) = a /\ run[u].txn.target = id)
         /\ notice' = [notice EXCEPT ![a] = id]
  BY DEF Notify
<1>2. UNCHANGED <<ready, decision, hyps, lastId, run>>
  BY DEF Notify
<1>3. id \in Nat /\ (id = NoId \/ \E m \in Served : id = hyps[a][m])
  BY <1>1 DEF IInv, TypeOK, NoId
<1>4. notice'[a] = id /\ \A b \in Anomalies \ {a} : notice'[b] = notice[b]
  BY <1>1 DEF IInv, TypeOK
<1>5. TypeOK'
  BY <1>1, <1>2, <1>3 DEF IInv, TypeOK
<1>6. LocksStand'
  <2> SUFFICES ASSUME NEW u \in Runs, Holds(u)
               PROVE  /\ run[u] \in Works
                      /\ run[u].txn.target # NoId
                      /\ hyps[Day(u)][Configured] = run[u].txn.target
                      /\ notice'[Day(u)] # run[u].txn.target
                      /\ \A w \in Runs : Holds(w) /\ Day(w) = Day(u) => w = u
    BY <1>2 DEF LocksStand, Holds, Day
  <2>1. /\ run[u] \in Works
        /\ run[u].txn.target # NoId
        /\ hyps[Day(u)][Configured] = run[u].txn.target
        /\ notice[Day(u)] # run[u].txn.target
        /\ \A w \in Runs : Holds(w) /\ Day(w) = Day(u) => w = u
    BY DEF IInv, LocksStand
  <2>2. Day(u) \in Anomalies
    BY <2>1 DEF Works, Txns, Rows, Day
  <2>3. Day(u) = a => run[u].txn.target # id
    BY <1>1 DEF Holds
  <2> QED
    BY <1>4, <2>1, <2>2, <2>3
<1>7. DeliveredReasonsStand'
  BY <1>2, <1>3, <1>4 DEF IInv, DeliveredReasonsStand
<1>8. TakenUp'
  BY <1>2 DEF IInv, TakenUp, Explained, Pending, Day
<1> QED
  BY <1>5, <1>6, <1>7, <1>8 DEF IInv

LEMMA Inductive == IInv /\ [Next]_vars => IInv'
<1> SUFFICES ASSUME IInv, [Next]_vars PROVE IInv'
  OBVIOUS
<1>1. CASE UNCHANGED vars
  BY <1>1 DEF vars, IInv, TypeOK, LocksStand, Holds, Day, DeliveredReasonsStand, TakenUp,
              Explained, Pending
<1>2. ASSUME NEW a \in Anomalies, Notify(a) \/ \E v \in Verdicts : Redecide(a, v)
      PROVE  IInv'
  BY <1>2, NotifyHolds, RedecideHolds
<1>3. ASSUME NEW u \in Runs, RunStep(u) PROVE IInv'
  <2>1. ASSUME NEW reply \in Answers, Ask(u, reply) PROVE IInv'
    BY <2>1, AskHolds
  <2> QED
    BY <1>3, <2>1, BeginHolds, DeleteHolds, SaveHolds, EndHolds DEF RunStep
<1>4. ASSUME NEW u \in Runs, StartScheduled(u) \/ StartManual(u) PROVE IInv'
  BY <1>4, StartHolds DEF StartScheduled, StartManual
<1>5. ASSUME NEW u \in Runs, Kill(u) PROVE IInv'
  BY <1>5, EndHolds
<1> QED
  BY <1>1, <1>2, <1>3, <1>4, <1>5, StageSixHolds DEF Next

LEMMA Invariance == Spec => []IInv
BY InitHolds, Inductive, PTL DEF Spec

-----------------------------------------------------------------------------
\* Types, and a transaction open exactly while an anomaly is worked on.
THEOREM TypeCorrect == Spec => []TypeOK
<1>1. IInv => TypeOK
  BY DEF IInv
<1> QED
  BY <1>1, Invariance, PTL

\* The analysis a notification was delivered with is never replaced, whatever
\* regenerations overlap with the notification and with one another.
THEOREM ReasonsStand == Spec => []DeliveredReasonsStand
<1>1. IInv => DeliveredReasonsStand
  BY DEF IInv
<1> QED
  BY <1>1, Invariance, PTL

\* A run that reports success has left nothing it took up unexplained.
THEOREM SuccessExplains == Spec => []SuccessMeansExplained
<1>1. IInv => SuccessMeansExplained
  <2> SUFFICES ASSUME IInv, NEW u \in Runs, run[u].pc = "loop", run[u].todo = {}, ~run[u].failed,
                      NEW a \in run[u].covered
               PROVE  Explained(a)
    BY DEF SuccessMeansExplained
  <2>1. run[u] \in Loops /\ run[u] # Idle /\ run[u] \notin Works
    BY Kinds DEF IInv, Idle
  <2> QED
    BY <2>1 DEF IInv, TakenUp, Pending
<1> QED
  BY <1>1, Invariance, PTL

\* No regeneration that fails, is killed or loses to another run takes away the
\* only analysis of an anomaly.
THEOREM RegenerationKeeps == Spec => ExplainedStaysExplained
<1>1. IInv /\ [Next]_vars => [\A a \in Anomalies : Explained(a) => Explained(a)']_vars
  <2> SUFFICES ASSUME IInv, Next, NEW a \in Anomalies, Explained(a)
               PROVE  Explained(a)'
    OBVIOUS
  <2>1. ASSUME UNCHANGED hyps PROVE Explained(a)'
    BY <2>1 DEF Explained
  <2>5. ASSUME Unready \/ Recovered PROVE UNCHANGED hyps
    BY <2>5 DEF Unready, Recovered
  <2>2. ASSUME NEW b \in Anomalies, Notify(b) \/ \E v \in Verdicts : Redecide(b, v)
        PROVE  UNCHANGED hyps
    BY <2>2 DEF Notify, Redecide
  <2>3. ASSUME NEW u \in Runs, RunStep(u) PROVE Explained(a)'
    <3>1. CASE Save(u)
      BY <3>1, SaveKeeps
    <3>2. CASE ~Save(u)
      BY <2>1, <2>3, <3>2 DEF RunStep, Begin, Delete, Finish, Ask, db
    <3> QED
      BY <3>1, <3>2
  <2>4. ASSUME NEW u \in Runs, StartScheduled(u) \/ StartManual(u) \/ Kill(u) PROVE UNCHANGED hyps
    BY <2>4 DEF StartScheduled, StartManual, Start, Kill, db
  <2> QED
    BY <2>1, <2>2, <2>3, <2>4, <2>5 DEF Next
<1> QED
  BY <1>1, Invariance, PTL DEF Spec, ExplainedStaysExplained
=============================================================================
