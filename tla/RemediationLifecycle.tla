------------------------ MODULE RemediationLifecycle ------------------------
(***************************************************************************)
(* What Stage 9 promises about one remediation action, with executors,     *)
(* claims, ledgers and locks left out: it is proposed, a human authorises  *)
(* it, it runs for at most MaxAttempts attempts, each of which is settled  *)
(* exactly once, and an attempt nobody can account for waits for a human.  *)
(***************************************************************************)
EXTENDS Naturals

CONSTANTS Actions, MaxAttempts

VARIABLES phase, tries

Phase == {"none", "proposed", "authorised", "running", "uncertain", "retry",
          "done", "closed"}

Init ==
    /\ phase = [a \in Actions |-> "none"]
    /\ tries = [a \in Actions |-> 0]

Become(a, from, to) ==
    /\ phase[a] \in from
    /\ phase' = [phase EXCEPT ![a] = to]

Propose(a) == Become(a, {"none"}, "proposed") /\ UNCHANGED tries

Authorise(a) == Become(a, {"proposed"}, "authorised") /\ UNCHANGED tries

Close(a) == Become(a, {"proposed", "authorised", "retry"}, "closed") /\ UNCHANGED tries

Start(a) ==
    /\ tries[a] < MaxAttempts
    /\ Become(a, {"authorised", "retry"}, "running")
    /\ UNCHANGED tries

\* The attempt is settled by its own answer, and counted.
Settle(a) ==
    /\ Become(a, {"running"}, "done") \/ Become(a, {"running"}, "retry")
    /\ tries' = [tries EXCEPT ![a] = @ + 1]

\* A set of attempts is given up on at once, and counted; none is repeated.
LoseTrack(lost) ==
    /\ lost # {} /\ \A a \in lost : phase[a] = "running"
    /\ phase' = [a \in Actions |-> IF a \in lost THEN "uncertain" ELSE phase[a]]
    /\ tries' = [a \in Actions |-> IF a \in lost THEN tries[a] + 1 ELSE tries[a]]

\* A human says what happened to an attempt that was lost track of.
Judge(a) ==
    /\ Become(a, {"uncertain"}, "done") \/ Become(a, {"uncertain"}, "retry")
    /\ UNCHANGED tries

Next ==
    \/ \E a \in Actions :
          \/ Propose(a)
          \/ Authorise(a)
          \/ Close(a)
          \/ Start(a)
          \/ Settle(a)
          \/ Judge(a)
    \/ \E lost \in SUBSET Actions : LoseTrack(lost)

Spec == Init /\ [][Next]_<<phase, tries>>
=============================================================================
