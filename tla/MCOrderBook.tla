----------------------------- MODULE MCOrderBook -----------------------------
(* An instance of OrderBook for TLC. *)
EXTENDS OrderBook

\* An order of one unit, and one of two units, refunded in full: two price cuts by 30 %
\* leave its refund two cents above its worth.
Drawn == {[region |-> "na", quantity |-> 1, price |-> 3, refund |-> 1],
          [region |-> "eu", quantity |-> 2, price |-> 22, refund |-> 44]}
=============================================================================
