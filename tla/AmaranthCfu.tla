----------------------------- MODULE AmaranthCfu -----------------------------
(***************************************************************************)
(* The Amaranth base class of CFUs, python/amaranth_cfu/cfu.py: a state    *)
(* machine that starts one of eight instructions for a command and offers  *)
(* its output as the response.  cmd is what the CPU presents (a record     *)
(* with valid, funct7, funct3, in0, in1).                                  *)
(*                                                                         *)
(* The instructions are those of a user of the class.  They are modelled   *)
(* by the contract of InstructionBase, as the instructions of test_cfu.py  *)
(* and the fallback keep it: a combinational instruction is always done    *)
(* and its output follows its inputs; a registered one takes its operands  *)
(* in the cycle of start and signals done for one cycle, any number of     *)
(* cycles later.  A result is represented by the function and the operands *)
(* it was computed from.                                                   *)
(***************************************************************************)
EXTENDS Integers

CONSTANTS
  Registered,      \* instructions that take at least one cycle
  Values           \* operand values

ASSUME RegisteredAssumption == Registered \subseteq 0 .. 7

VARIABLES
  fsm,                  \* state of the FSM
  stored_function_id,
  stored_output,
  unit                  \* the registered instructions

amaranthVars == <<fsm, stored_function_id, stored_output, unit>>

Functions == 0 .. 7

Result == [fn : Functions, in0 : Values, in1 : Values]

(* What an output shows when there is no result on it. *)
NoResult == [fn |-> 8]

Unit == [state : {"idle", "working", "done"}, in0 : Values, in1 : Values]

AValue == CHOOSE v \in Values : TRUE

AmaranthInit ==
  /\ fsm = "WAIT_CMD"
  /\ stored_function_id = 0
  /\ stored_output = NoResult
  /\ unit = [f \in Registered |->
               [state |-> "idle", in0 |-> AValue, in1 |-> AValue]]

-----------------------------------------------------------------------------
(* Instructions *)

instruction_done(f) == f \in Registered => unit[f].state = "done"

instruction_output(f, cmd) ==
  IF f \notin Registered THEN [fn |-> f, in0 |-> cmd.in0, in1 |-> cmd.in1]
  ELSE IF unit[f].state = "working" THEN NoResult
  ELSE [fn |-> f, in0 |-> unit[f].in0, in1 |-> unit[f].in1]

(* One cycle of instruction f; slow when it needs at least one more. *)
NextUnit(f, start, cmd, slow) ==
  CASE unit[f].state = "idle" /\ ~start -> unit[f]
    [] unit[f].state = "idle" /\ start ->
         [state |-> IF slow THEN "working" ELSE "done",
          in0 |-> cmd.in0, in1 |-> cmd.in1]
    [] unit[f].state = "working" ->
         [unit[f] EXCEPT !.state = IF slow THEN "working" ELSE "done"]
    [] unit[f].state = "done" -> [unit[f] EXCEPT !.state = "idle"]

-----------------------------------------------------------------------------
(* The combinational outputs of the CFU *)

cmd_ready == fsm = "WAIT_CMD"

current_function_id(cmd) ==
  IF fsm = "WAIT_CMD" THEN cmd.funct3 ELSE stored_function_id

instruction_start(f, cmd) ==
  fsm = "WAIT_CMD" /\ cmd.valid /\ f = current_function_id(cmd)

(* Fault: the response does not wait for the instruction. *)
CompletesAlways(cmd) ==
  (fsm = "WAIT_CMD" /\ cmd.valid) \/ fsm = "WAIT_INSTRUCTION"

(* check_instruction_done finds the instruction done. *)
Completes(cmd) ==
  /\ (fsm = "WAIT_CMD" /\ cmd.valid) \/ fsm = "WAIT_INSTRUCTION"
  /\ instruction_done(current_function_id(cmd))

rsp_valid(cmd) == Completes(cmd) \/ fsm = "WAIT_TRANSFER"

rsp_out(cmd) ==
  CASE fsm = "WAIT_TRANSFER" -> stored_output
    [] Completes(cmd) -> instruction_output(current_function_id(cmd), cmd)
    [] OTHER -> NoResult

-----------------------------------------------------------------------------
(* The clock edge *)

(* Fault: a response the CPU does not take at once is dropped. *)
check_instruction_doneDrop(cmd, rsp_ready) ==
  /\ fsm' = IF Completes(cmd) THEN "WAIT_CMD" ELSE "WAIT_INSTRUCTION"
  /\ UNCHANGED stored_output

check_instruction_done(cmd, rsp_ready) ==
  /\ fsm' = IF ~Completes(cmd) THEN "WAIT_INSTRUCTION"
            ELSE IF rsp_ready THEN "WAIT_CMD" ELSE "WAIT_TRANSFER"
  /\ stored_output' = IF Completes(cmd) /\ ~rsp_ready
                      THEN instruction_output(current_function_id(cmd), cmd)
                      ELSE stored_output

(* Fault: all ten bits of the function id are stored. *)
FunctionBitsAll(cmd) == 8 * cmd.funct7 + cmd.funct3

FunctionBits(cmd) == cmd.funct3

WaitCmd(cmd, rsp_ready) ==
  /\ fsm = "WAIT_CMD"
  /\ IF cmd.valid
     THEN /\ stored_function_id' = FunctionBits(cmd)
          /\ check_instruction_done(cmd, rsp_ready)
     ELSE UNCHANGED <<fsm, stored_function_id, stored_output>>

WaitInstruction(cmd, rsp_ready) ==
  /\ fsm = "WAIT_INSTRUCTION"
  /\ check_instruction_done(cmd, rsp_ready)
  /\ UNCHANGED stored_function_id

WaitTransfer(rsp_ready) ==
  /\ fsm = "WAIT_TRANSFER"
  /\ fsm' = IF rsp_ready THEN "WAIT_CMD" ELSE "WAIT_TRANSFER"
  /\ UNCHANGED <<stored_function_id, stored_output>>

CfuEdge(cmd, rsp_ready, slow) ==
  /\ \/ WaitCmd(cmd, rsp_ready)
     \/ WaitInstruction(cmd, rsp_ready)
     \/ WaitTransfer(rsp_ready)
  /\ unit' = [f \in Registered |->
                NextUnit(f, instruction_start(f, cmd), cmd, slow)]

AmaranthReset ==
  /\ fsm' = "WAIT_CMD"
  /\ stored_function_id' = 0
  /\ stored_output' = NoResult
  /\ unit' = [f \in Registered |->
                [state |-> "idle", in0 |-> AValue, in1 |-> AValue]]

AmaranthTypeOK ==
  /\ fsm \in {"WAIT_CMD", "WAIT_INSTRUCTION", "WAIT_TRANSFER"}
  /\ stored_function_id \in Functions
  /\ stored_output \in Result \cup {NoResult}
  /\ unit \in [Registered -> Unit]
=============================================================================
