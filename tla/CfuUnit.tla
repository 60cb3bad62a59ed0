------------------------------- MODULE CfuUnit -------------------------------
(***************************************************************************)
(* What a custom function unit is to the program: one instruction at a     *)
(* time goes into it and comes out with the function of its operands.      *)
(* docs/source/step-by-step.rst gives the bus rules this follows from: a   *)
(* transfer happens only when valid and ready are both high, and responses *)
(* carry no tag, so they come in the order of the commands.                *)
(*                                                                         *)
(* A job is the function and the operands of an instruction, and stands    *)
(* for the result as well.  There is no action that drops a job except a   *)
(* reset: an instruction the unit has seen is committed.                   *)
(***************************************************************************)
EXTENDS Integers

CONSTANTS
  Jobs,            \* a function and its operands
  NoJob            \* no job

VARIABLES
  job,             \* the job in the unit
  taken,           \* the last result the CPU wrote back, and a bit that
                   \* changes with every one
  era              \* a bit that changes with every reset

vars == <<job, taken, era>>

Init ==
  /\ job = NoJob
  /\ taken = [result |-> NoJob, turn |-> 0]
  /\ era = 0

Begin ==
  /\ job = NoJob
  /\ job' \in Jobs
  /\ UNCHANGED <<taken, era>>

(* The result is written back; the next job may begin at once. *)
Finish ==
  /\ job \in Jobs
  /\ taken' = [result |-> job, turn |-> 1 - taken.turn]
  /\ job' \in Jobs \cup {NoJob}
  /\ UNCHANGED era

Reset ==
  /\ job' = NoJob
  /\ era' = 1 - era
  /\ UNCHANGED taken

Next == Begin \/ Finish \/ Reset

Spec == Init /\ [][Next]_vars

(* A job in the unit comes to its end, or a reset does away with it. *)
JobEnds(turn) ==
  job # NoJob /\ taken.turn = turn ~> job = NoJob \/ taken.turn # turn

Finishes == JobEnds(0) /\ JobEnds(1)
=============================================================================
