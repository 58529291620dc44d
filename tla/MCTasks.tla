------------------------------ MODULE MCTasks ------------------------------
(* Instances of Tasks for TLC.                                              *)
EXTENDS Tasks

CONSTANTS init, second

\* The process of run_init, and a second one so that the ring has an order.
OneUser == {init}
TwoUsers == {init, second}
NoUsers == {}
=============================================================================
