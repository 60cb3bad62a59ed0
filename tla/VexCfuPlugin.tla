---------------------------- MODULE VexCfuPlugin ----------------------------
(***************************************************************************)
(* The CPU side of the CFU bus: the execute, memory and writeBack stages   *)
(* of VexRiscv and the registers CfuPlugin adds to them, as generated in   *)
(* soc/vexriscv/VexRiscv_SlimPerfCfu.v.  Everything is clocked on the      *)
(* rising edge (CpuPosEdge).                                               *)
(*                                                                         *)
(* An instruction is abstracted to what the plugin and the stall logic     *)
(* tell apart:                                                             *)
(*   "cfu"  an R-type CFU instruction (CFU_ENABLE)                         *)
(*   "side" HAS_SIDE_EFFECT: load, store, branch, system; may halt or      *)
(*          flush the pipeline from writeBack                              *)
(*   "div"  halts the memory stage until the divider is done               *)
(*   "alu"  anything else                                                  *)
(* and a bubble has kind "none".  The field id names a CFU instruction so  *)
(* that properties can tell whose response a response is; no hardware      *)
(* signal depends on it.                                                   *)
(***************************************************************************)
EXTENDS Integers

CONSTANTS
  Ids,             \* names of CFU instructions in flight
  Operands         \* operand values, of the 32-bit words

VARIABLES
  execute,         \* instruction in the execute stage
  memory,          \* instruction in the memory stage
  writeBack,       \* instruction in the writeBack stage
  hold,            \* execute_CfuPlugin_hold
  fired,           \* execute_CfuPlugin_fired
  in_flight,       \* execute_to_memory_CfuPlugin_CFU_IN_FLIGHT
  rValid,          \* CfuPlugin_bus_rsp_rValid, response buffer
  rData            \* CfuPlugin_bus_rsp_rData_outputs_0

cpuVars == <<execute, memory, writeBack, hold, fired, in_flight, rValid, rData>>

Kinds == {"cfu", "side", "div", "alu", "none"}

Instruction == [kind : Kinds, funct7 : 0 .. 127, funct3 : 0 .. 7,
                in0 : Operands, in1 : Operands, id : Ids]

AnId == CHOOSE i \in Ids : TRUE
AnOperand == CHOOSE o \in Operands : TRUE

(* An instruction other than a CFU instruction: its fields are not used.   *)
Plain(kind) == [kind |-> kind, funct7 |-> 0, funct3 |-> 0,
                in0 |-> AnOperand, in1 |-> AnOperand, id |-> AnId]

Bubble == Plain("none")

CpuInit ==
  /\ execute = Bubble
  /\ memory = Bubble
  /\ writeBack = Bubble
  /\ hold = FALSE
  /\ fired = FALSE
  /\ in_flight = FALSE
  /\ rValid = FALSE

-----------------------------------------------------------------------------
(* Combinational signals *)

(* Fault: no wait for the instructions ahead that may stall or trap. *)
hazardNever == FALSE

hazard == memory.kind = "side" \/ writeBack.kind = "side"

(* Fault: scheduled in spite of the hazard. *)
scheduleAlways == execute.kind = "cfu"

schedule == execute.kind = "cfu" /\ ~hazard

(* Fault: given again while its instruction waits with its response.       *)
cmd_validAgain == schedule \/ hold

cmd_valid == (schedule \/ hold) /\ ~fired

execute_in_flight == schedule \/ hold \/ fired

rsp_ready == ~rValid

(* cmd as the CFU sees it *)
cmd == [valid |-> cmd_valid,
        funct7 |-> execute.funct7, funct3 |-> execute.funct3,
        in0 |-> execute.in0, in1 |-> execute.in1]

(* halt is what the rest of the core does this cycle: halt.execute (cache  *)
(* flush or refill, CSR wait), halt.div (divider busy), halt.writeBack     *)
(* (data cache not ready).  A refill holds a CFU instruction only while    *)
(* the load that missed is in writeBack, which hazard covers.              *)
Halts == {h \in [execute : BOOLEAN, div : BOOLEAN, writeBack : BOOLEAN] :
            /\ h.execute => execute.kind \notin {"none", "cfu"}
            /\ h.div => memory.kind = "div"
            /\ h.writeBack => writeBack.kind = "side"}

WriteBackStuck(halt) == halt.writeBack

memory_rsp_valid(busValid) == busValid \/ rValid

memory_rsp_payload(payload) == IF rValid THEN rData ELSE payload

MemoryStuck(busValid, halt) ==
  \/ halt.div
  \/ in_flight /\ ~memory_rsp_valid(busValid)
  \/ WriteBackStuck(halt)

(* Fault: execute does not wait for cmd_ready. *)
ExecuteStuckNoReady(busValid, ready, halt) ==
  \/ halt.execute
  \/ execute.kind = "cfu" /\ hazard
  \/ MemoryStuck(busValid, halt)

ExecuteStuck(busValid, ready, halt) ==
  \/ halt.execute
  \/ execute.kind = "cfu" /\ hazard
  \/ cmd_valid /\ ~ready
  \/ MemoryStuck(busValid, halt)

(* CFU_IN_FLIGHT gates the response register only while it is set. *)
(* Fault: the buffer emptied although no instruction takes the response. *)
memory_rsp_readyAlways(halt) == ~WriteBackStuck(halt)

memory_rsp_ready(halt) == in_flight /\ ~WriteBackStuck(halt)

-----------------------------------------------------------------------------
(* Rising edge.  busValid and payload are rsp_valid and                    *)
(* rsp_payload_outputs_0, ready is cmd_ready; decoded is what the decode   *)
(* stage offers (possibly a bubble); flush is a flush requested by the     *)
(* instruction in writeBack (a redone load, an exception, mret).           *)

MoveExecute(stuck, flush, decoded) ==
  execute' = IF flush THEN Bubble ELSE IF stuck THEN execute ELSE decoded

MoveMemory(exStuck, memStuck, flush) ==
  memory' = IF ~exStuck /\ ~flush THEN execute
            ELSE IF memStuck /\ ~flush THEN memory ELSE Bubble

MoveWriteBack(memStuck, wbStuck, flush) ==
  writeBack' = IF ~memStuck /\ ~flush THEN memory
               ELSE IF wbStuck /\ ~flush THEN writeBack ELSE Bubble

CpuPosEdge(busValid, payload, ready, halt, flush, decoded) ==
  LET wbStuck  == WriteBackStuck(halt)
      memStuck == MemoryStuck(busValid, halt)
      exStuck  == ExecuteStuck(busValid, ready, halt)
  IN /\ flush => writeBack.kind = "side" /\ ~wbStuck
     /\ MoveExecute(exStuck, flush, decoded)
     /\ MoveMemory(exStuck, memStuck, flush)
     /\ MoveWriteBack(memStuck, wbStuck, flush)
     /\ hold' = (~ready /\ (schedule \/ hold))
     /\ fired' = (exStuck /\ ((cmd_valid /\ ready) \/ fired))
     /\ in_flight' = IF memStuck THEN in_flight
                     ELSE execute_in_flight /\ ~exStuck
     /\ rValid' = (~memory_rsp_ready(halt) /\ (busValid \/ rValid))
     /\ rData' = IF rsp_ready THEN payload ELSE rData

CpuReset ==
  /\ execute' = Bubble
  /\ memory' = Bubble
  /\ writeBack' = Bubble
  /\ hold' = FALSE
  /\ fired' = FALSE
  /\ in_flight' = FALSE
  /\ rValid' = FALSE
  /\ UNCHANGED rData

CpuTypeOK ==
  /\ execute \in Instruction
  /\ memory \in Instruction
  /\ writeBack \in Instruction
  /\ hold \in BOOLEAN
  /\ fired \in BOOLEAN
  /\ in_flight \in BOOLEAN
  /\ rValid \in BOOLEAN
=============================================================================
