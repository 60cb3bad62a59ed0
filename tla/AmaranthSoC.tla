----------------------------- MODULE AmaranthSoC -----------------------------
(***************************************************************************)
(* VexRiscv (VexCfuPlugin) with a CFU built on the Amaranth base class     *)
(* (AmaranthCfu), each on a clock of its own that the clock controller     *)
(* (ClockControl) may stop, as hps_soc.py connects them.  One step is one  *)
(* cycle of the oscillator.  Shown to implement CfuUnit.                   *)
(***************************************************************************)
EXTENDS VexCfuPlugin, AmaranthCfu, ClockControl

CONSTANTS
  Fns,             \* funct3 codes the program uses
  Inputs,          \* pairs of operands it gives to CFU instructions
  HardwareDiv      \* the core has an iterative divider (GenCoreDefault)

ASSUME SoCAssumption ==
  /\ Fns \subseteq Functions
  /\ Inputs \subseteq Operands \X Operands
  /\ HardwareDiv \in BOOLEAN
  /\ Values = Operands
  /\ Operands # {}
  /\ Ids # {}

VARIABLES
  taken,           \* history: last result written back, and a turn bit
  era              \* history: a bit that changes with every reset

vars == <<cpuVars, amaranthVars, enabled, taken, era>>

Init ==
  /\ CpuInit
  /\ rData = NoResult
  /\ AmaranthInit
  /\ ClockInit
  /\ taken = [result |-> NoResult, turn |-> 0]
  /\ era = 0

-----------------------------------------------------------------------------
cpuEnabled == cpu_cen(cmd_valid, cmd_ready, rsp_valid(cmd))
cfuEnabled == cfu_cen(cmd_valid)

(* funct7 goes to the instructions only; any value stands for all. *)
Decoded ==
  {Plain(k) : k \in {k \in Kinds \ {"cfu"} : k = "div" => HardwareDiv}}
  \cup
  {[kind |-> "cfu", funct7 |-> 127, funct3 |-> f, in0 |-> i[1], in1 |-> i[2],
    id |-> AnId] : f \in Fns, i \in Inputs}

(* A result is taken when the instruction leaves the memory stage. *)
CpuTick(halt, flush, decoded) ==
  /\ cpuEnabled
  /\ CpuPosEdge(rsp_valid(cmd), rsp_out(cmd), cmd_ready, halt, flush, decoded)
  /\ taken' = IF in_flight /\ ~MemoryStuck(rsp_valid(cmd), halt)
              THEN [result |-> memory_rsp_payload(rsp_out(cmd)),
                    turn |-> 1 - taken.turn]
              ELSE taken

CpuStopped == ~cpuEnabled /\ UNCHANGED <<cpuVars, taken>>

CfuTick(slow) == cfuEnabled /\ CfuEdge(cmd, rsp_ready, slow)

CfuStopped == ~cfuEnabled /\ UNCHANGED amaranthVars

CpuSide ==
  \/ \E halt \in Halts, flush \in BOOLEAN, decoded \in Decoded :
       CpuTick(halt, flush, decoded)
  \/ CpuStopped

CfuSide == (\E slow \in BOOLEAN : CfuTick(slow)) \/ CfuStopped

Clocks == ClockEdge(cmd_valid, cmd_ready, rsp_valid(cmd)) /\ UNCHANGED era

Tick == CpuSide /\ CfuSide /\ Clocks

Reset ==
  /\ CpuReset
  /\ AmaranthReset
  /\ enabled' = "CPU_ENABLED"
  /\ era' = 1 - era
  /\ UNCHANGED taken

Next == Tick \/ Reset

Spec == Init /\ [][Next]_vars

(* The oscillator runs, an instruction of the CFU comes to its end, and    *)
(* the rest of the core does not halt the pipeline for ever.               *)
NoHalt == [execute |-> FALSE, div |-> FALSE, writeBack |-> FALSE]

InstructionEnds == CpuSide /\ (CfuTick(FALSE) \/ CfuStopped) /\ Clocks

CoreMoves ==
  /\ (\E decoded \in Decoded : CpuTick(NoHalt, FALSE, decoded)) \/ CpuStopped
  /\ CfuSide
  /\ Clocks

FairSpec == /\ Spec
            /\ WF_vars(Tick)
            /\ SF_vars(InstructionEnds)
            /\ SF_vars(CoreMoves)

-----------------------------------------------------------------------------
TypeOK ==
  /\ CpuTypeOK
  /\ AmaranthTypeOK
  /\ ClockTypeOK
  /\ rData \in Result \cup {NoResult}
  /\ taken \in [result : Result \cup {NoResult}, turn : {0, 1}]
  /\ era \in {0, 1}

(* The job in the unit: that of the instruction in the memory stage, or of *)
(* one that has been accepted and is held in the execute stage.            *)
JobOf(i) == [fn |-> i.funct3, in0 |-> i.in0, in1 |-> i.in1]

job == IF in_flight THEN JobOf(memory)
       ELSE IF fired THEN JobOf(execute)
       ELSE NoResult

U == INSTANCE CfuUnit WITH Jobs <- Result, NoJob <- NoResult

(* To the program the CFU is a unit that takes one job at a time and       *)
(* returns, for that instruction and in order, the function of its         *)
(* operands: over stalls in any stage, flushes, back-to-back commands, the *)
(* response buffer and both stopped clocks nothing is lost, doubled,       *)
(* swapped or cancelled.                                                   *)
UnitSpec == U!Spec

(* Every job comes to an end, with both clocks under control of what CPU   *)
(* and CFU say about each other: they never wait for each other.           *)
UnitFinishes == U!Finishes

(* Only the op code allocated to the CFU sends commands to it and has its  *)
(* result replaced by a response.                                          *)
OnlyCfuInstructions ==
  /\ cmd_valid => execute.kind = "cfu"
  /\ in_flight => memory.kind = "cfu"

(* A clock is stopped only while it is not needed: the CFU's while the CFU *)
(* is idle and no command is presented, the CPU's while a job is in the    *)
(* unit whose response the CFU does not have yet.  Never both.             *)
ClocksStopSafely ==
  /\ ~cfuEnabled => /\ fsm = "WAIT_CMD" /\ ~cmd_valid
                    /\ \A f \in Registered : unit[f].state = "idle"
                    /\ cpuEnabled
  /\ ~cpuEnabled => job # NoResult /\ fsm = "WAIT_INSTRUCTION" /\ ~rValid

(* An instruction is started only when it is idle and no other works, so   *)
(* its start lasts one cycle, and done is seen in the cycle it is given:   *)
(* what InstructionBase promises its subclasses ("Set only for one cycle") *)
(* and demands of them.                                                    *)
StartsIdle ==
  \A f \in Registered :
    /\ instruction_start(f, cmd) => \A g \in Registered : unit[g].state = "idle"
    /\ unit[f].state = "done" => rsp_valid(cmd) /\ ~cmd_ready

-----------------------------------------------------------------------------
(* The inductive invariant. *)

(* CfuPlugin sets hold again in every cycle in which an accepted command   *)
(* stays in execute, and clears it only when the CFU is ready.  An         *)
(* accepted command stays in execute only behind a division, so hold does  *)
(* not outlive it if the core has no divider, or if the CFU answers in the *)
(* cycle in which it accepts.                                              *)
HoldClears == HardwareDiv => Fns \cap Registered = {}

(* A response is due from the moment a command is accepted until its       *)
(* result is taken, and it is in exactly one place: the CFU or rData.      *)
HandshakeInv ==
  /\ \A s \in {execute, memory} : s.kind = "div" => HardwareDiv
  /\ execute.kind = "cfu" => execute.funct3 \in Fns
  /\ hold => execute.kind = "cfu" /\ ~hazard /\ ~fired
  /\ fired => execute.kind = "cfu" /\ ~hazard /\ ~in_flight /\ rValid
  /\ in_flight => memory.kind = "cfu" /\ writeBack.kind # "side"
  /\ rValid => fsm = "WAIT_CMD"
  /\ (in_flight \/ fired) <=> (rValid \/ fsm # "WAIT_CMD")
  /\ DynamicClock /\ enabled = "CPU_ENABLED" => fsm = "WAIT_CMD"

(* Wherever the response is, it is that of the job in the unit. *)
ResponseInv ==
  /\ rValid => rData = job
  /\ fsm = "WAIT_TRANSFER" => stored_output = job
  /\ fsm = "WAIT_INSTRUCTION" =>
       /\ stored_function_id \in Registered
       /\ unit[stored_function_id].state # "idle"
       /\ job = [fn |-> stored_function_id,
                 in0 |-> unit[stored_function_id].in0,
                 in1 |-> unit[stored_function_id].in1]
  /\ \A f \in Registered :
       unit[f].state # "idle" => /\ fsm = "WAIT_INSTRUCTION"
                                 /\ stored_function_id = f

IInv == TypeOK /\ HandshakeInv /\ ResponseInv
=============================================================================
