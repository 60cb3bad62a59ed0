------------------------------- MODULE ConvSoC -------------------------------
(***************************************************************************)
(* VexRiscv (VexCfuPlugin), the convolution CFU (ConvCfu) and the memory   *)
(* behind the CFU's Wishbone port on one clock.  On the rising edge the    *)
(* CPU, the memory and the CFU's rsp_valid sample each other; on the       *)
(* falling edge the CFU's state machine samples the CPU and the memory.    *)
(*                                                                         *)
(* The program is any sequence of instructions whose CFU instructions use  *)
(* function codes of Ops and operands of Operands.                         *)
(***************************************************************************)
EXTENDS ConvCfu, VexCfuPlugin

CONSTANTS
  Ops,             \* funct7 codes the program uses
  MaxProducts      \* bound: no new convolution with this many products
                   \* already in the accumulator

ASSUME SoCAssumption ==
  /\ Ops \subseteq 0 .. 127
  /\ Operands \subseteq Word
  /\ Operands # {}
  /\ Ids # {}
  /\ \A i, j, k, l \in Ids : \E m \in Ids : m \notin {i, j, k, l}
  /\ MaxProducts \in Nat

VARIABLES
  clk,             \* the level the clock is at
  serving,         \* history: id of the last command the CFU accepted
  answered         \* history: id and result of the last command completed

vars == <<cfuVars, slave, cpuVars, clk, serving, answered>>

history == <<serving, answered>>

Init ==
  /\ CfuInit
  /\ SlaveInit
  /\ CpuInit
  /\ rData = << >>
  /\ clk = "low"
  /\ serving = AnId
  /\ answered = [id |-> AnId, value |-> << >>]

-----------------------------------------------------------------------------
(* The decode stage offers a bubble or any instruction.  A CFU instruction *)
(* gets an id that no instruction still of interest has.                   *)

IdsInUse == {stage.id : stage \in {s \in {execute, memory} : s.kind = "cfu"}}
            \cup {serving, answered.id}

FreshId == CHOOSE i \in Ids : i \notin IdsInUse

Decoded ==
  {Plain(k) : k \in Kinds \ {"cfu"}}
  \cup
  {[kind |-> "cfu", funct7 |-> f, funct3 |-> 0,
    in0 |-> a, in1 |-> b, id |-> FreshId] :
     f \in {o \in Ops : o = 0 => Len(rsp_payload) < MaxProducts},
     a \in Operands, b \in Operands}

PosEdge(halt, flush, decoded) ==
  /\ clk = "low"
  /\ clk' = "high"
  /\ CpuPosEdge(rsp_valid, rsp_payload, cmd_ready, halt, flush, decoded)
  /\ CfuPosEdge(rsp_ready)
  /\ UNCHANGED history

RisingEdge ==
  /\ \E halt \in Halts, flush \in BOOLEAN, decoded \in Decoded :
       PosEdge(halt, flush, decoded)
  /\ SlaveAnswer \/ SlaveError \/ SlaveWait

FallingEdge ==
  /\ clk = "high"
  /\ clk' = "low"
  /\ CfuNegEdge(cmd)
  /\ serving' = IF cmd_ready /\ cmd_valid THEN execute.id ELSE serving
  /\ answered' = IF cur_state \in FinalStates
                 THEN [id |-> serving, value |-> rsp_payload']
                 ELSE answered
  /\ UNCHANGED <<cpuVars, slave>>

Reset ==
  /\ CpuReset
  /\ CfuReset
  /\ UNCHANGED <<slave, clk, history>>

Next == RisingEdge \/ FallingEdge \/ Reset

Spec == Init /\ [][Next]_vars

(* The clock does not stop; the memory behind the CFU and the rest of the  *)
(* core do not put an answer off, or halt the pipeline, for ever.          *)
NoHalt == [execute |-> FALSE, div |-> FALSE, writeBack |-> FALSE]

MemoryAnswers == RisingEdge /\ SlaveAnswer

CoreMoves ==
  /\ \E decoded \in Decoded : PosEdge(NoHalt, FALSE, decoded)
  /\ SlaveAnswer \/ SlaveError \/ SlaveWait

Fairness == /\ WF_vars(FallingEdge)
            /\ WF_vars(RisingEdge)
            /\ SF_vars(MemoryAnswers)
            /\ SF_vars(CoreMoves)

FairSpec == Spec /\ Fairness

-----------------------------------------------------------------------------
TypeOK ==
  /\ CfuTypeOK
  /\ CpuTypeOK
  /\ rData \in Seq(Product)
  /\ clk \in {"low", "high"}
  /\ serving \in Ids
  /\ answered \in [id : Ids, value : Seq(Product)]

(* A response is never refused.  cfu.sv drops rsp_valid on the rising edge *)
(* at which it is taken and cannot raise it for another command on the     *)
(* same edge, so a response that had to wait for rsp_ready would swallow   *)
(* the next one; the hazard test of CfuPlugin keeps that from happening.   *)
ResponseNeverRefused == rsp_valid => rsp_ready

(* The CFU accepts a command and answers it on the same rising edge: a CFU *)
(* instruction reaches the memory stage with its response in rData.        *)
AnswerBeforeMemory == in_flight => rValid

(* The response a CFU instruction takes in the memory stage is the one the *)
(* CFU computed for it, with the accumulator's value at that time.         *)
OwnAnswer ==
  in_flight /\ memory_rsp_valid(rsp_valid) =>
    /\ memory.kind = "cfu"
    /\ answered.id = memory.id
    /\ answered.value = memory_rsp_payload(rsp_payload)

(* While an instruction that may still trap or be redone is ahead of it, a *)
(* CFU instruction has not changed anything in the CFU: a flush never      *)
(* takes back a command the CFU has seen.                                  *)
NoSpeculativeCommand ==
  hazard => cur_state = "INIT" /\ ~rsp_valid /\ ~hold /\ ~fired /\ ~in_flight

(* The products added are those of the words the counters point at: the    *)
(* answer to the image fetch is never taken for the filter word, whatever  *)
(* the memory's delay, its errors and a reset in between.                  *)
FetchedWords ==
  cur_state = "ADD" => /\ matrix_vals = WordOf(cur_image_adr)
                       /\ filter_vals = WordOf(cur_filter_adr)

(* cfu.sv does not latch the operands; the CPU holds them, and the command *)
(* valid, for as long as the CFU is working on it.                         *)
CommandHeld ==
  [][cur_state # "INIT" /\ ~CfuReset => cmd.valid /\ cmd' = cmd]_vars

(* The command on the wires, and the response the CPU has buffered: that   *)
(* of the instruction in memory, or of a fired one still in execute.       *)
Offer == [valid |-> cmd.valid, name |-> execute.id, funct7 |-> cmd.funct7,
          in0 |-> cmd.in0, in1 |-> cmd.in1]

Buffered == IF rValid
            THEN [pending |-> TRUE, value |-> rData,
                  name |-> IF in_flight THEN memory.id ELSE execute.id]
            ELSE [pending |-> FALSE]

Master == INSTANCE CfuMaster WITH Names <- Ids, offer <- Offer, answer <- Buffered

(* Whatever the pipeline does around them - stalls, flushes, instructions  *)
(* that fire and wait - commands and responses are those of a program that *)
(* gives one command at a time, holds it, and gets its response.           *)
MasterSpec == Master!Spec

(* Every CFU instruction gets its response: it leaves the execute and then *)
(* the memory stage again, however long the memory takes.  Ids are names   *)
(* without effect and are reused, so one of them, other than the one the   *)
(* history starts with, stands for all.                                    *)
Waiting(i) == \E stage \in {execute, memory} : stage.kind = "cfu" /\ stage.id = i

Watched == CHOOSE i \in Ids : i # AnId

EveryCommandAnswered == Waiting(Watched) ~> ~Waiting(Watched)
-----------------------------------------------------------------------------
(* The inductive invariant behind the safety properties. *)

(* Function codes the CFU's decoder knows. *)
KnownOps == Ops \subseteq 0 .. 8

(* Where the handshake can be on each level of the clock.  The CFU works   *)
(* only for a command that is being presented; rsp_valid lives from the    *)
(* rising edge in a final state to the next rising edge; the command fires *)
(* on that edge and on no other; and a buffered response belongs to the    *)
(* instruction in memory, or to a fired one held in execute.               *)
Presented == execute.kind = "cfu" /\ ~hazard /\ ~fired

HandshakeInv ==
  /\ execute.kind = "cfu" => execute.funct7 \in 0 .. 8
  /\ hold => Presented
  /\ fired => /\ execute.kind = "cfu" /\ ~hazard /\ ~in_flight
              /\ rValid /\ ~rsp_valid /\ cur_state = "INIT"
  /\ in_flight => memory.kind = "cfu" /\ rValid /\ writeBack.kind # "side"
  /\ rValid => in_flight \/ fired
  /\ cur_state # "INIT" => Presented
  /\ rsp_valid => /\ Presented /\ ~rValid
                  /\ clk = "high" => cur_state \in FinalStates
                  /\ clk = "low" => cur_state = "INIT"
  /\ clk = "high" /\ cur_state \in FinalStates => rsp_valid
  /\ clk = "low" /\ Presented /\ cur_state = "INIT" => rsp_valid

(* Whose answer is where. *)
AnswerInv ==
  /\ cur_state # "INIT" => serving = execute.id
  /\ rsp_valid /\ clk = "low" =>
       answered = [id |-> execute.id, value |-> rsp_payload]
  /\ fired => answered = [id |-> execute.id, value |-> rData]
  /\ in_flight => answered = [id |-> memory.id, value |-> rData]

(* What an answer of the memory will be, is, and was. *)
FetchInv ==
  /\ cur_state = "FETCH_VAL" =>
       /\ clk = "low" /\ SlaveMayAnswer => ram.adr = WordOf(cur_image_adr)
       /\ clk = "high" /\ slave.ack /\ ~slave.err => slave.dat = WordOf(cur_image_adr)
  /\ cur_state = "FETCH_FILTER" =>
       /\ matrix_vals = WordOf(cur_image_adr)
       /\ clk = "low" /\ SlaveMayAnswer => ram.adr = WordOf(cur_filter_adr)
       /\ clk = "high" /\ slave.ack /\ ~slave.err => slave.dat = WordOf(cur_filter_adr)
  /\ FetchedWords

IInv == TypeOK /\ HandshakeInv /\ AnswerInv /\ FetchInv
=============================================================================
