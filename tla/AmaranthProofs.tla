---------------------------- MODULE AmaranthProofs ----------------------------
(***************************************************************************)
(* Proofs about the package amaranth_cfu.  AmaranthSoC, for every set of   *)
(* instructions, operands and program, with and without stopped clocks:    *)
(* while hold cannot outlive an accepted command (HoldClears), CPU and CFU *)
(* implement CfuUnit.  MemReader, for every depth and every set of words:  *)
(* the reader over its memory implements SequenceReader.                   *)
(***************************************************************************)
EXTENDS AmaranthSoC, MemReader, TLAPS

-----------------------------------------------------------------------------
(* Types *)

LEMMA FillerType ==
  /\ AnId \in Ids /\ AnOperand \in Operands /\ AValue \in Values
  BY SoCAssumption DEF AnId, AnOperand, AValue

(* Instructions that are not CFU instructions are instructions. *)
LEMMA PlainType == \A k \in Kinds : Plain(k) \in Instruction
  BY FillerType DEF Plain, Instruction

(* Whatever decode offers is an instruction the program may have. *)
LEMMA DecodedType ==
  ASSUME NEW d \in Decoded
  PROVE  /\ d \in Instruction
         /\ d.kind = "div" => HardwareDiv
         /\ d.kind = "cfu" => d.funct3 \in Fns
<1>1. CASE \E k \in {k \in Kinds \ {"cfu"} : k = "div" => HardwareDiv} :
             d = Plain(k)
  BY <1>1, PlainType DEF Plain
<1>2. CASE \E f \in Fns, i \in Inputs :
             d = [kind |-> "cfu", funct7 |-> 127, funct3 |-> f,
                  in0 |-> i[1], in1 |-> i[2], id |-> AnId]
  BY <1>2, FillerType, SoCAssumption DEF Instruction, Kinds, Functions
<1> QED
  BY <1>1, <1>2 DEF Decoded

(* What the CFU offers as a response is a result or none. *)
LEMMA OutputType ==
  ASSUME TypeOK
  PROVE  rsp_out(cmd) \in Result \cup {NoResult}
<1>1. /\ cmd.funct3 \in Functions /\ cmd.in0 \in Values /\ cmd.in1 \in Values
      /\ execute.in0 \in Operands
  BY SoCAssumption DEF TypeOK, CpuTypeOK, Instruction, cmd, Functions
<1>2. current_function_id(cmd) \in Functions
  BY <1>1 DEF current_function_id, TypeOK, AmaranthTypeOK
<1>3. \A f \in Functions :
        instruction_output(f, cmd) \in Result \cup {NoResult}
  BY <1>1 DEF instruction_output, Result, TypeOK, AmaranthTypeOK, Unit
<1> QED
  BY <1>2, <1>3 DEF rsp_out, TypeOK, AmaranthTypeOK

LEMMA InitType == Init => TypeOK
<1> SUFFICES ASSUME Init PROVE TypeOK
  OBVIOUS
<1>1. CpuTypeOK
  BY PlainType DEF Init, CpuInit, CpuTypeOK, Bubble, Kinds
<1>2. AmaranthTypeOK
  BY FillerType DEF Init, AmaranthInit, AmaranthTypeOK, Functions, Unit
<1> QED
  BY <1>1, <1>2 DEF Init, TypeOK, ClockInit, ClockTypeOK

LEMMA ResetType == TypeOK /\ Reset => TypeOK'
<1> SUFFICES ASSUME TypeOK, Reset PROVE TypeOK'
  OBVIOUS
<1>1. CpuTypeOK'
  BY PlainType DEF Reset, CpuReset, CpuTypeOK, Bubble, Kinds
<1>2. AmaranthTypeOK'
  BY FillerType DEF Reset, AmaranthReset, AmaranthTypeOK, Functions, Unit
<1> QED
  BY <1>1, <1>2 DEF Reset, TypeOK, ClockTypeOK, CpuReset

LEMMA CpuTickType ==
  ASSUME TypeOK, NEW halt \in Halts, NEW flush \in BOOLEAN,
         NEW decoded \in Decoded, CpuTick(halt, flush, decoded)
  PROVE  /\ CpuTypeOK'
         /\ rData' \in Result \cup {NoResult}
         /\ taken' \in [result : Result \cup {NoResult}, turn : {0, 1}]
<1>1. CpuPosEdge(rsp_valid(cmd), rsp_out(cmd), cmd_ready, halt, flush, decoded)
  BY DEF CpuTick
<1>2. decoded \in Instruction /\ Bubble \in Instruction
  BY DecodedType, PlainType DEF Bubble, Kinds
<1>3. execute' \in Instruction
  BY <1>1, <1>2 DEF CpuPosEdge, MoveExecute, TypeOK, CpuTypeOK
<1>4. memory' \in Instruction
  BY <1>1, <1>2 DEF CpuPosEdge, MoveMemory, TypeOK, CpuTypeOK
<1>5. writeBack' \in Instruction
  BY <1>1, <1>2 DEF CpuPosEdge, MoveWriteBack, TypeOK, CpuTypeOK
<1>6. hold' \in BOOLEAN /\ fired' \in BOOLEAN /\ rValid' \in BOOLEAN
  BY <1>1 DEF CpuPosEdge
<1>7. in_flight' \in BOOLEAN
  <2>1. in_flight \in BOOLEAN /\ hold \in BOOLEAN /\ fired \in BOOLEAN
    BY DEF TypeOK, CpuTypeOK
  <2>2. (execute_in_flight /\ ~ExecuteStuck(rsp_valid(cmd), cmd_ready, halt))
          \in BOOLEAN
    OBVIOUS
  <2> QED
    BY <1>1, <2>1, <2>2 DEF CpuPosEdge
<1>8. rData' \in Result \cup {NoResult}
  BY <1>1, OutputType DEF CpuPosEdge, TypeOK
<1>9. taken' \in [result : Result \cup {NoResult}, turn : {0, 1}]
  BY OutputType DEF CpuTick, TypeOK, memory_rsp_payload
<1> QED
  BY <1>3, <1>4, <1>5, <1>6, <1>7, <1>8, <1>9 DEF CpuTypeOK

LEMMA CfuTickType ==
  ASSUME TypeOK, NEW slow \in BOOLEAN, CfuTick(slow)
  PROVE  AmaranthTypeOK'
<1>1. CfuEdge(cmd, rsp_ready, slow)
  BY DEF CfuTick
<1>2. /\ cmd.funct3 \in Functions /\ cmd.in0 \in Values /\ cmd.in1 \in Values
  BY SoCAssumption DEF TypeOK, CpuTypeOK, Instruction, cmd, Functions
<1>3. unit' \in [Registered -> Unit]
  <2>1. \A f \in Registered :
          NextUnit(f, instruction_start(f, cmd), cmd, slow) \in Unit
    BY <1>2 DEF NextUnit, Unit, TypeOK, AmaranthTypeOK
  <2> QED
    BY <1>1, <2>1 DEF CfuEdge
<1>4. current_function_id(cmd) \in Functions
  BY <1>2 DEF current_function_id, TypeOK, AmaranthTypeOK
<1>5. instruction_output(current_function_id(cmd), cmd)
        \in Result \cup {NoResult}
  BY <1>2, <1>4 DEF instruction_output, Result, TypeOK, AmaranthTypeOK, Unit
<1>6. /\ fsm' \in {"WAIT_CMD", "WAIT_INSTRUCTION", "WAIT_TRANSFER"}
      /\ stored_function_id' \in Functions
      /\ stored_output' \in Result \cup {NoResult}
  BY <1>1, <1>2, <1>5 DEF CfuEdge, WaitCmd, WaitInstruction, WaitTransfer,
     check_instruction_done, FunctionBits, TypeOK, AmaranthTypeOK
<1> QED
  BY <1>3, <1>6 DEF AmaranthTypeOK

LEMMA TickType == TypeOK /\ Tick => TypeOK'
<1> SUFFICES ASSUME TypeOK, Tick PROVE TypeOK'
  OBVIOUS
<1>1. /\ CpuTypeOK'
      /\ rData' \in Result \cup {NoResult}
      /\ taken' \in [result : Result \cup {NoResult}, turn : {0, 1}]
  <2>1. CASE CpuStopped
    BY <2>1 DEF CpuStopped, cpuVars, TypeOK, CpuTypeOK
  <2> QED
    BY <2>1, CpuTickType DEF Tick, Clocks, CpuSide
<1>2. AmaranthTypeOK'
  <2>1. CASE CfuStopped
    BY <2>1 DEF CfuStopped, amaranthVars, TypeOK, AmaranthTypeOK
  <2> QED
    BY <2>1, CfuTickType DEF Tick, Clocks, CfuSide
<1>3. enabled' \in {"CPU_ENABLED", "CFU_ENABLED"} /\ era' = era
  BY DEF Tick, Clocks, ClockEdge
<1> QED
  BY <1>1, <1>2, <1>3 DEF TypeOK, ClockTypeOK

LEMMA TypeStep == TypeOK /\ [Next]_vars => TypeOK'
<1> SUFFICES ASSUME TypeOK, [Next]_vars PROVE TypeOK'
  OBVIOUS
<1>1. CASE UNCHANGED vars
  BY <1>1 DEF vars, cpuVars, amaranthVars, TypeOK, CpuTypeOK, AmaranthTypeOK,
     ClockTypeOK
<1> QED
  BY <1>1, TickType, ResetType DEF Next

(* Every register of CPU, CFU and clock controller keeps its type, for     *)
(* every program and every set of instructions.                            *)
THEOREM TypeCorrect == Spec => []TypeOK
<1>1. Init => TypeOK
  BY InitType
<1>2. TypeOK /\ [Next]_vars => TypeOK'
  BY TypeStep
<1> QED
  BY <1>1, <1>2, PTL DEF Spec

-----------------------------------------------------------------------------
(* The handshake: what one cycle does, in each of its situations *)

(* The signals in terms of the state. *)
LEMMA SignalFacts ==
  ASSUME TypeOK, HandshakeInv
  PROVE  /\ cmd.valid = cmd_valid /\ cmd.funct3 = execute.funct3
         /\ cmd.in0 = execute.in0 /\ cmd.in1 = execute.in1
         /\ cmd_valid <=> execute.kind = "cfu" /\ ~hazard /\ ~fired
         /\ ~cmd_valid /\ ~fired => ~execute_in_flight /\ ~schedule /\ ~hold
         /\ cmd_valid \/ fired => execute_in_flight
         /\ in_flight => ~hazard /\ memory.kind = "cfu"
         /\ fired => ~hazard /\ execute.kind = "cfu" /\ ~in_flight /\ rValid
         /\ fsm # "WAIT_CMD" => in_flight /\ ~fired /\ ~rValid
         /\ cmd_ready <=> fsm = "WAIT_CMD"
         /\ rsp_ready <=> ~rValid
  BY DEF TypeOK, CpuTypeOK, HandshakeInv, cmd_valid, schedule, hazard, cmd,
     execute_in_flight, cmd_ready, rsp_ready

(* When an accepted or a presentable command is about, nothing that could  *)
(* flush or stall writeBack is ahead of it.                                *)
LEMMA PipelineFacts ==
  ASSUME TypeOK, HandshakeInv, NEW halt \in Halts, NEW busValid
  PROVE  /\ ~hazard => ~WriteBackStuck(halt) /\ writeBack.kind # "side"
         /\ in_flight => ~halt.div /\ ~WriteBackStuck(halt)
         /\ in_flight => (MemoryStuck(busValid, halt) <=> ~(busValid \/ rValid))
         /\ halt.div => HardwareDiv
         /\ execute.kind = "cfu" => ~halt.execute
  BY DEF TypeOK, CpuTypeOK, HandshakeInv, hazard, MemoryStuck,
     memory_rsp_valid, WriteBackStuck, Halts

(* The results on the wires are those of the jobs. *)
LEMMA ResponseFacts ==
  ASSUME TypeOK, HandshakeInv, ResponseInv
  PROVE  /\ fsm = "WAIT_CMD" /\ ~cmd_valid => ~rsp_valid(cmd)
         /\ fsm = "WAIT_CMD" /\ cmd_valid =>
              /\ rsp_valid(cmd) <=> execute.funct3 \notin Registered
              /\ rsp_valid(cmd) => rsp_out(cmd) = JobOf(execute)
         /\ fsm # "WAIT_CMD" /\ rsp_valid(cmd) => rsp_out(cmd) = job
         /\ fsm # "WAIT_CMD" /\ ~rsp_valid(cmd) => fsm = "WAIT_INSTRUCTION"
<1>1. ASSUME fsm = "WAIT_CMD"
      PROVE  /\ ~cmd_valid => ~rsp_valid(cmd)
             /\ cmd_valid =>
                  /\ rsp_valid(cmd) <=> execute.funct3 \notin Registered
                  /\ rsp_valid(cmd) => rsp_out(cmd) = JobOf(execute)
  BY <1>1, SignalFacts DEF rsp_valid, Completes, instruction_done, rsp_out,
     current_function_id, instruction_output, JobOf, ResponseInv
<1>2. ASSUME fsm # "WAIT_CMD"
      PROVE  /\ rsp_valid(cmd) => rsp_out(cmd) = job
             /\ ~rsp_valid(cmd) => fsm = "WAIT_INSTRUCTION"
  BY <1>2 DEF rsp_valid, Completes, instruction_done, rsp_out,
     current_function_id, instruction_output, ResponseInv, TypeOK,
     AmaranthTypeOK
<1> QED
  BY <1>1, <1>2

(* The CFU has a clock whenever it is presented a command or has one, and  *)
(* the CPU whenever the CFU is ready or has the response.                  *)
LEMMA ClockFacts ==
  ASSUME TypeOK, HandshakeInv
  PROVE  /\ fsm # "WAIT_CMD" \/ cmd_valid => cfuEnabled
         /\ fsm = "WAIT_CMD" \/ rsp_valid(cmd) => cpuEnabled
  BY SignalFacts DEF cfuEnabled, cfu_cen, cpuEnabled, cpu_cen, Calculating,
     HandshakeInv, TypeOK, ClockTypeOK

(* The CFU in a cycle without a command. *)
LEMMA CfuRests ==
  ASSUME TypeOK, HandshakeInv, ResponseInv, CfuSide,
         fsm = "WAIT_CMD", ~cmd_valid
  PROVE  UNCHANGED amaranthVars
<1>1. CASE CfuStopped
  BY <1>1 DEF CfuStopped
<1>2. ASSUME NEW slow \in BOOLEAN, CfuTick(slow)
      PROVE  UNCHANGED amaranthVars
  <2>1. CfuEdge(cmd, rsp_ready, slow) /\ ~cmd.valid
    BY <1>2, SignalFacts DEF CfuTick
  <2>2. UNCHANGED <<fsm, stored_function_id, stored_output>>
    BY <2>1 DEF CfuEdge, WaitCmd, WaitInstruction, WaitTransfer
  <2>3. \A f \in Registered :
          NextUnit(f, instruction_start(f, cmd), cmd, slow) = unit[f]
    BY <2>1 DEF NextUnit, instruction_start, ResponseInv, TypeOK,
       AmaranthTypeOK, Unit
  <2>4. unit' = unit
    BY <2>1, <2>3 DEF CfuEdge, TypeOK, AmaranthTypeOK
  <2> QED
    BY <2>2, <2>4 DEF amaranthVars
<1> QED
  BY <1>1, <1>2 DEF CfuSide

(* The CFU in the cycle in which it accepts a command. *)
LEMMA CfuAccepts ==
  ASSUME TypeOK, HandshakeInv, ResponseInv, CfuSide,
         fsm = "WAIT_CMD", cmd_valid
  PROVE  /\ execute.funct3 \notin Registered =>
              /\ fsm' = IF rsp_ready THEN "WAIT_CMD" ELSE "WAIT_TRANSFER"
              /\ ~rsp_ready => stored_output' = JobOf(execute)
              /\ unit' = unit
         /\ execute.funct3 \in Registered =>
              /\ fsm' = "WAIT_INSTRUCTION"
              /\ stored_function_id' = execute.funct3
              /\ unit'[execute.funct3].state # "idle"
              /\ unit'[execute.funct3].in0 = execute.in0
              /\ unit'[execute.funct3].in1 = execute.in1
              /\ \A f \in Registered : f # execute.funct3 => unit'[f] = unit[f]
<1>1. PICK slow \in BOOLEAN : CfuEdge(cmd, rsp_ready, slow)
  BY ClockFacts DEF CfuSide, CfuTick, CfuStopped
<1>2. WaitCmd(cmd, rsp_ready)
  BY <1>1 DEF CfuEdge, WaitInstruction, WaitTransfer
<1>3. Completes(cmd) <=> execute.funct3 \notin Registered
  BY ResponseFacts DEF rsp_valid
<1>4. current_function_id(cmd) = execute.funct3
  BY SignalFacts DEF current_function_id
<1>5. \A f \in Registered :
        /\ unit[f].state = "idle"
        /\ instruction_start(f, cmd) <=> f = execute.funct3
  BY <1>4, SignalFacts DEF ResponseInv, instruction_start
<1>6. \A f \in Registered :
        /\ f # execute.funct3 => unit'[f] = unit[f]
        /\ f = execute.funct3 => /\ unit'[f].state # "idle"
                                 /\ unit'[f].in0 = execute.in0
                                 /\ unit'[f].in1 = execute.in1
  BY <1>1, <1>5, SignalFacts DEF CfuEdge, NextUnit
<1>7. execute.funct3 \notin Registered => unit' = unit
  BY <1>1, <1>6 DEF CfuEdge, TypeOK, AmaranthTypeOK
<1>8. execute.funct3 \notin Registered =>
        /\ fsm' = IF rsp_ready THEN "WAIT_CMD" ELSE "WAIT_TRANSFER"
        /\ ~rsp_ready => stored_output' = JobOf(execute)
  BY <1>2, <1>3, <1>4, SignalFacts DEF WaitCmd, check_instruction_done,
     instruction_output, JobOf
<1>9. execute.funct3 \in Registered =>
        fsm' = "WAIT_INSTRUCTION" /\ stored_function_id' = execute.funct3
  BY <1>2, <1>3, SignalFacts DEF WaitCmd, check_instruction_done, FunctionBits
<1> QED
  BY <1>6, <1>7, <1>8, <1>9

(* The CFU at work, or with a response that had to wait. *)
LEMMA CfuWorks ==
  ASSUME TypeOK, HandshakeInv, ResponseInv, CfuSide, fsm # "WAIT_CMD"
  PROVE  /\ rsp_valid(cmd) =>
              /\ fsm' = "WAIT_CMD"
              /\ \A f \in Registered : unit'[f].state = "idle"
         /\ ~rsp_valid(cmd) =>
              /\ fsm' = fsm /\ stored_function_id' = stored_function_id
              /\ \A f \in Registered :
                   /\ unit'[f].in0 = unit[f].in0 /\ unit'[f].in1 = unit[f].in1
                   /\ unit'[f].state = "idle" <=> unit[f].state = "idle"
<1>1. PICK slow \in BOOLEAN : CfuEdge(cmd, rsp_ready, slow)
  BY ClockFacts DEF CfuSide, CfuTick, CfuStopped
<1>2. \A f \in Registered : ~instruction_start(f, cmd)
  BY DEF instruction_start
<1>3. /\ rsp_ready
      /\ ~rsp_valid(cmd) => fsm = "WAIT_INSTRUCTION"
      /\ unit \in [Registered -> Unit]
  BY SignalFacts, ResponseFacts DEF TypeOK, AmaranthTypeOK
<1>4. ASSUME rsp_valid(cmd)
      PROVE  fsm' = "WAIT_CMD" /\ \A f \in Registered : unit'[f].state = "idle"
  <2>1. fsm' = "WAIT_CMD"
    BY <1>1, <1>3, <1>4 DEF CfuEdge, WaitCmd, WaitInstruction, WaitTransfer,
       check_instruction_done, rsp_valid
  <2>2. \A f \in Registered : unit[f].state \in {"idle", "done"}
    BY <1>3, <1>4 DEF ResponseInv, rsp_valid, Completes, instruction_done,
       current_function_id
  <2>3. \A f \in Registered : unit'[f].state = "idle"
    BY <1>1, <1>2, <1>3, <2>2 DEF CfuEdge, NextUnit, Unit
  <2> QED
    BY <2>1, <2>3
<1>5. ASSUME ~rsp_valid(cmd)
      PROVE  /\ fsm' = fsm /\ stored_function_id' = stored_function_id
             /\ \A f \in Registered :
                  /\ unit'[f].in0 = unit[f].in0 /\ unit'[f].in1 = unit[f].in1
                  /\ unit'[f].state = "idle" <=> unit[f].state = "idle"
  <2>1. fsm' = fsm /\ stored_function_id' = stored_function_id
    BY <1>1, <1>3, <1>5 DEF CfuEdge, WaitCmd, WaitInstruction, WaitTransfer,
       check_instruction_done, rsp_valid
  <2>2. \A f \in Registered : unit[f].state \in {"idle", "working"}
    BY <1>3, <1>5 DEF ResponseInv, rsp_valid, Completes, instruction_done,
       current_function_id, Unit
  <2>3. \A f \in Registered :
          /\ unit'[f].in0 = unit[f].in0 /\ unit'[f].in1 = unit[f].in1
          /\ unit'[f].state = "idle" <=> unit[f].state = "idle"
    BY <1>1, <1>2, <1>3, <2>2 DEF CfuEdge, NextUnit, Unit
  <2> QED
    BY <2>1, <2>3
<1> QED
  BY <1>4, <1>5

(* An instruction moves one stage on or stays, or is replaced by a bubble. *)
LEMMA StageFacts ==
  ASSUME CpuSide
  PROVE  /\ execute' \in {execute, Bubble} \cup Decoded
         /\ memory' \in {execute, memory, Bubble}
<1>1. CASE CpuStopped
  BY <1>1 DEF CpuStopped, cpuVars
<1>2. ASSUME NEW halt \in Halts, NEW flush \in BOOLEAN, NEW decoded \in Decoded,
             CpuTick(halt, flush, decoded)
      PROVE  /\ execute' \in {execute, Bubble} \cup Decoded
             /\ memory' \in {execute, memory, Bubble}
  BY <1>2 DEF CpuTick, CpuPosEdge, MoveExecute, MoveMemory
<1> QED
  BY <1>1, <1>2 DEF CpuSide

(* No command in progress and none presented. *)
LEMMA RestTick ==
  ASSUME TypeOK, HandshakeInv, ResponseInv, CpuSide,
         fsm = "WAIT_CMD", ~cmd_valid, ~in_flight, ~fired
  PROVE  ~hold' /\ ~fired' /\ ~in_flight' /\ ~rValid' /\ taken' = taken
<1>1. PICK halt \in Halts, flush \in BOOLEAN, decoded \in Decoded :
        CpuTick(halt, flush, decoded)
  BY ClockFacts DEF CpuSide, CpuStopped
<1>2. CpuPosEdge(rsp_valid(cmd), rsp_out(cmd), cmd_ready, halt, flush, decoded)
  BY <1>1 DEF CpuTick
<1>3. ~rValid /\ ~rsp_valid(cmd) /\ cmd_ready /\ ~execute_in_flight
  BY SignalFacts, ResponseFacts DEF HandshakeInv
<1>4. ~hold' /\ ~fired' /\ ~rValid'
  BY <1>2, <1>3 DEF CpuPosEdge
<1>5. ~in_flight'
  BY <1>2, <1>3 DEF CpuPosEdge
<1>6. taken' = taken
  BY <1>1 DEF CpuTick
<1> QED
  BY <1>4, <1>5, <1>6

(* An accepted command held in execute, its response buffered. *)
LEMMA HeldTick ==
  ASSUME TypeOK, HandshakeInv, ResponseInv, CpuSide, fired
  PROVE  /\ ~hold' /\ rValid' /\ rData' = rData /\ taken' = taken
         /\ \/ execute' = execute /\ fired' /\ ~in_flight' /\ ~hazard'
            \/ /\ memory' = execute /\ ~fired' /\ in_flight'
               /\ writeBack'.kind # "side"
<1>1. /\ fsm = "WAIT_CMD" /\ cmd_ready /\ rValid /\ ~in_flight /\ ~cmd_valid
      /\ execute_in_flight /\ ~hazard /\ execute.kind = "cfu" /\ ~rsp_ready
  BY SignalFacts
<1>2. PICK halt \in Halts, flush \in BOOLEAN, decoded \in Decoded :
        CpuTick(halt, flush, decoded)
  BY <1>1, ClockFacts DEF CpuSide, CpuStopped
<1>3. CpuPosEdge(rsp_valid(cmd), rsp_out(cmd), cmd_ready, halt, flush, decoded)
  BY <1>2 DEF CpuTick
<1>4. ~flush /\ ~WriteBackStuck(halt)
  BY <1>1, <1>3, PipelineFacts DEF CpuPosEdge
<1>5. ~hold' /\ rValid' /\ rData' = rData
  BY <1>1, <1>3 DEF CpuPosEdge, memory_rsp_ready
<1>6. taken' = taken
  BY <1>1, <1>2 DEF CpuTick
<1>7. memory.kind # "side" /\ writeBack.kind # "side"
  BY <1>1 DEF hazard
<1>8. CASE ExecuteStuck(rsp_valid(cmd), cmd_ready, halt)
  <2>1. execute' = execute /\ fired'
    BY <1>1, <1>3, <1>4, <1>8 DEF CpuPosEdge, MoveExecute, TypeOK, CpuTypeOK
  <2>2. ~in_flight'
    BY <1>1, <1>3, <1>8 DEF CpuPosEdge
  <2>3. ~hazard'
    BY <1>3, <1>4, <1>7, <1>8 DEF CpuPosEdge, MoveMemory, MoveWriteBack,
       hazard, Bubble, Plain
  <2> QED
    BY <1>5, <1>6, <2>1, <2>2, <2>3
<1>9. CASE ~ExecuteStuck(rsp_valid(cmd), cmd_ready, halt)
  <2>1. ~MemoryStuck(rsp_valid(cmd), halt)
    BY <1>9 DEF ExecuteStuck
  <2>2. memory' = execute /\ ~fired' /\ in_flight'
    BY <1>1, <1>3, <1>4, <1>9, <2>1 DEF CpuPosEdge, MoveMemory
  <2>3. writeBack'.kind # "side"
    BY <1>3, <1>4, <1>7, <2>1 DEF CpuPosEdge, MoveWriteBack
  <2> QED
    BY <1>5, <1>6, <2>2, <2>3
<1> QED
  BY <1>8, <1>9

(* A buffered response is taken and no command follows. *)
LEMMA TakeTick ==
  ASSUME TypeOK, HandshakeInv, ResponseInv, CpuSide,
         fsm = "WAIT_CMD", ~cmd_valid, in_flight
  PROVE  /\ ~hold' /\ ~fired' /\ ~in_flight' /\ ~rValid'
         /\ taken' = [result |-> job, turn |-> 1 - taken.turn]
<1>1. /\ rValid /\ ~fired /\ ~hazard /\ cmd_ready /\ ~execute_in_flight
      /\ ~rsp_valid(cmd) /\ rData = job
  BY SignalFacts, ResponseFacts DEF HandshakeInv, ResponseInv
<1>2. PICK halt \in Halts, flush \in BOOLEAN, decoded \in Decoded :
        CpuTick(halt, flush, decoded)
  BY ClockFacts DEF CpuSide, CpuStopped
<1>3. CpuPosEdge(rsp_valid(cmd), rsp_out(cmd), cmd_ready, halt, flush, decoded)
  BY <1>2 DEF CpuTick
<1>4. ~MemoryStuck(rsp_valid(cmd), halt) /\ ~WriteBackStuck(halt)
  BY <1>1, PipelineFacts
<1>5. ~hold' /\ ~fired' /\ ~rValid'
  BY <1>1, <1>3, <1>4 DEF CpuPosEdge, memory_rsp_ready
<1>6. ~in_flight'
  BY <1>1, <1>3, <1>4 DEF CpuPosEdge
<1>7. taken' = [result |-> job, turn |-> 1 - taken.turn]
  BY <1>1, <1>2, <1>4 DEF CpuTick, memory_rsp_payload
<1> QED
  BY <1>5, <1>6, <1>7

(* A command is accepted, and the response of the one before it taken. *)
LEMMA AcceptTick ==
  ASSUME TypeOK, HandshakeInv, ResponseInv, CpuSide,
         fsm = "WAIT_CMD", cmd_valid
  PROVE  /\ ~hold'
         /\ rValid' <=> rsp_valid(cmd) /\ ~in_flight
         /\ rValid' => rData' = JobOf(execute)
         /\ taken' = IF in_flight
                     THEN [result |-> job, turn |-> 1 - taken.turn] ELSE taken
         /\ \/ /\ execute' = execute /\ fired' /\ ~in_flight' /\ ~hazard'
               /\ HardwareDiv /\ ~in_flight
            \/ /\ memory' = execute /\ ~fired' /\ in_flight'
               /\ writeBack'.kind # "side"
<1>1. /\ execute.kind = "cfu" /\ ~hazard /\ ~fired /\ cmd_ready
      /\ execute_in_flight /\ (in_flight <=> rValid) /\ (rsp_ready <=> ~rValid)
      /\ rsp_valid(cmd) => rsp_out(cmd) = JobOf(execute)
      /\ rValid => rData = job
  BY SignalFacts, ResponseFacts DEF HandshakeInv, ResponseInv
<1>2. PICK halt \in Halts, flush \in BOOLEAN, decoded \in Decoded :
        CpuTick(halt, flush, decoded)
  BY ClockFacts DEF CpuSide, CpuStopped
<1>3. CpuPosEdge(rsp_valid(cmd), rsp_out(cmd), cmd_ready, halt, flush, decoded)
  BY <1>2 DEF CpuTick
<1>4. ~flush /\ ~WriteBackStuck(halt)
  BY <1>1, <1>3, PipelineFacts DEF CpuPosEdge
<1>5. ~hold' /\ (rValid' <=> rsp_valid(cmd) /\ ~in_flight)
  BY <1>1, <1>3, <1>4 DEF CpuPosEdge, memory_rsp_ready
<1>6. rValid' => rData' = JobOf(execute)
  BY <1>1, <1>3, <1>5 DEF CpuPosEdge
<1>7. memory.kind # "side" /\ writeBack.kind # "side"
  BY <1>1 DEF hazard
<1>8. in_flight => ~MemoryStuck(rsp_valid(cmd), halt)
  BY <1>1, PipelineFacts
<1>9. taken' = IF in_flight
               THEN [result |-> job, turn |-> 1 - taken.turn] ELSE taken
  BY <1>1, <1>2, <1>8 DEF CpuTick, memory_rsp_payload
<1>10. ExecuteStuck(rsp_valid(cmd), cmd_ready, halt)
         <=> MemoryStuck(rsp_valid(cmd), halt)
  BY <1>1, PipelineFacts DEF ExecuteStuck
<1>11. ASSUME MemoryStuck(rsp_valid(cmd), halt)
       PROVE  /\ execute' = execute /\ fired' /\ ~in_flight' /\ ~hazard'
              /\ HardwareDiv /\ ~in_flight
  <2>1. ~in_flight /\ HardwareDiv
    BY <1>4, <1>8, <1>11, PipelineFacts DEF MemoryStuck, TypeOK, CpuTypeOK
  <2>2. execute' = execute /\ fired'
    BY <1>1, <1>3, <1>4, <1>10, <1>11 DEF CpuPosEdge, MoveExecute
  <2>3. ~in_flight'
    BY <1>3, <1>11, <2>1 DEF CpuPosEdge
  <2>4. ~hazard'
    BY <1>3, <1>4, <1>7, <1>10, <1>11 DEF CpuPosEdge, MoveMemory,
       MoveWriteBack, hazard, Bubble, Plain
  <2> QED
    BY <2>1, <2>2, <2>3, <2>4
<1>12. ASSUME ~MemoryStuck(rsp_valid(cmd), halt)
       PROVE  /\ memory' = execute /\ ~fired' /\ in_flight'
              /\ writeBack'.kind # "side"
  <2>1. memory' = execute /\ ~fired' /\ in_flight'
    BY <1>1, <1>3, <1>4, <1>10, <1>12 DEF CpuPosEdge, MoveMemory
  <2>2. writeBack'.kind # "side"
    BY <1>3, <1>4, <1>7, <1>12 DEF CpuPosEdge, MoveWriteBack
  <2> QED
    BY <2>1, <2>2
<1> QED
  BY <1>5, <1>6, <1>9, <1>11, <1>12

(* The CFU works for the instruction in memory, or answers it. *)
LEMMA BusyTick ==
  ASSUME TypeOK, HandshakeInv, ResponseInv, CpuSide, fsm # "WAIT_CMD"
  PROVE  /\ ~fired' /\ ~rValid'
         /\ hold' => execute' = execute /\ execute.kind = "cfu" /\ ~hazard'
         /\ ~rsp_valid(cmd) =>
              /\ in_flight' /\ memory' = memory /\ writeBack'.kind # "side"
              /\ taken' = taken
         /\ rsp_valid(cmd) =>
              /\ ~in_flight'
              /\ taken' = [result |-> job, turn |-> 1 - taken.turn]
<1>1. /\ in_flight /\ ~fired /\ ~rValid /\ ~cmd_ready /\ ~hazard
      /\ rsp_valid(cmd) => rsp_out(cmd) = job
      /\ memory.kind = "cfu" /\ writeBack.kind # "side"
      /\ cmd_valid <=> execute.kind = "cfu"
      /\ hold => execute.kind = "cfu"
      /\ ~cmd_valid => ~execute_in_flight
      /\ hold \in BOOLEAN
  BY SignalFacts, ResponseFacts DEF HandshakeInv, TypeOK, CpuTypeOK
<1>2. CASE CpuStopped
  <2>1. ~rsp_valid(cmd) /\ UNCHANGED <<cpuVars, taken>>
    BY <1>2, ClockFacts DEF CpuStopped
  <2> QED
    BY <1>1, <2>1 DEF cpuVars, hazard
<1>3. ASSUME NEW halt \in Halts, NEW flush \in BOOLEAN, NEW decoded \in Decoded,
             CpuTick(halt, flush, decoded)
      PROVE  /\ ~fired' /\ ~rValid'
             /\ hold' => execute' = execute /\ execute.kind = "cfu" /\ ~hazard'
             /\ ~rsp_valid(cmd) =>
                  /\ in_flight' /\ memory' = memory /\ writeBack'.kind # "side"
                  /\ taken' = taken
             /\ rsp_valid(cmd) =>
                  /\ ~in_flight'
                  /\ taken' = [result |-> job, turn |-> 1 - taken.turn]
  <2>1. CpuPosEdge(rsp_valid(cmd), rsp_out(cmd), cmd_ready, halt, flush, decoded)
    BY <1>3 DEF CpuTick
  <2>2. ~flush /\ ~WriteBackStuck(halt)
    BY <1>1, <2>1, PipelineFacts DEF CpuPosEdge
  <2>3. MemoryStuck(rsp_valid(cmd), halt) <=> ~rsp_valid(cmd)
    BY <1>1, PipelineFacts
  <2>4. /\ cmd_valid => ExecuteStuck(rsp_valid(cmd), cmd_ready, halt)
        /\ MemoryStuck(rsp_valid(cmd), halt) =>
             ExecuteStuck(rsp_valid(cmd), cmd_ready, halt)
    BY <1>1 DEF ExecuteStuck
  <2>5. ~fired' /\ ~rValid'
    BY <1>1, <2>1, <2>2 DEF CpuPosEdge, memory_rsp_ready
  <2>6. ASSUME hold'
        PROVE  execute' = execute /\ execute.kind = "cfu" /\ ~hazard'
    <3>1. execute.kind = "cfu" /\ cmd_valid
      BY <1>1, <2>1, <2>6 DEF CpuPosEdge, schedule
    <3>2. execute' = execute
      BY <2>1, <2>2, <2>4, <3>1 DEF CpuPosEdge, MoveExecute
    <3>3. ~hazard'
      BY <1>1, <2>1, <2>2, <2>4, <3>1 DEF CpuPosEdge, MoveMemory,
         MoveWriteBack, hazard, Bubble, Plain
    <3> QED
      BY <3>1, <3>2, <3>3
  <2>7. ASSUME ~rsp_valid(cmd)
        PROVE  /\ in_flight' /\ memory' = memory /\ writeBack'.kind # "side"
               /\ taken' = taken
    <3>1. in_flight' /\ memory' = memory
      BY <1>1, <2>1, <2>2, <2>3, <2>4, <2>7 DEF CpuPosEdge, MoveMemory
    <3>2. writeBack'.kind # "side"
      BY <1>1, <2>1, <2>2, <2>3, <2>7 DEF CpuPosEdge, MoveWriteBack, Bubble,
         Plain
    <3>3. taken' = taken
      BY <1>3, <2>3, <2>7 DEF CpuTick
    <3> QED
      BY <3>1, <3>2, <3>3
  <2>8. ASSUME rsp_valid(cmd)
        PROVE  /\ ~in_flight'
               /\ taken' = [result |-> job, turn |-> 1 - taken.turn]
    <3>1. ~in_flight'
      BY <1>1, <2>1, <2>3, <2>4, <2>8 DEF CpuPosEdge
    <3>2. taken' = [result |-> job, turn |-> 1 - taken.turn]
      BY <1>1, <1>3, <2>3, <2>8 DEF CpuTick, memory_rsp_payload
    <3> QED
      BY <3>1, <3>2
  <2> QED
    BY <2>5, <2>6, <2>7, <2>8
<1> QED
  BY <1>2, <1>3 DEF CpuSide

-----------------------------------------------------------------------------
(* The invariant, and the abstract step of every cycle *)

(* The job in the unit is a result. *)
LEMMA JobType ==
  ASSUME TypeOK, in_flight \/ fired
  PROVE  job \in Result /\ JobOf(memory) \in Result /\ JobOf(execute) \in Result
  BY SoCAssumption DEF job, JobOf, Result, TypeOK, CpuTypeOK, Instruction,
     Functions

LEMMA ExecuteJobType ==
  ASSUME TypeOK
  PROVE  JobOf(execute) \in Result /\ NoResult \notin Result
  BY SoCAssumption DEF JobOf, Result, NoResult, TypeOK, CpuTypeOK,
     Instruction, Functions

(* The parts of the invariant that only depend on where instructions come  *)
(* from, and on the clock controller.                                      *)
SourceInv ==
  /\ \A s \in {execute, memory} : s.kind = "div" => HardwareDiv
  /\ execute.kind = "cfu" => execute.funct3 \in Fns

LEMMA SourceTick ==
  ASSUME HandshakeInv, CpuSide
  PROVE  SourceInv'
<1>1. Bubble.kind = "none"
  BY DEF Bubble, Plain
<1> QED
  BY <1>1, StageFacts, DecodedType DEF SourceInv, HandshakeInv

(* A job in the unit stays, ends, or ends and is followed by another; a    *)
(* unit without a job stays so, or a job begins.                           *)
UnitStep ==
  \/ job' = job /\ taken' = taken
  \/ job = NoResult /\ job' \in Result /\ taken' = taken
  \/ /\ job \in Result /\ job' \in Result \cup {NoResult}
     /\ taken' = [result |-> job, turn |-> 1 - taken.turn]

LEMMA TickStep ==
  ASSUME HoldClears, IInv, Tick
  PROVE  HandshakeInv' /\ ResponseInv' /\ UnitStep
<1>1. TypeOK /\ HandshakeInv /\ ResponseInv /\ CpuSide /\ CfuSide
  BY DEF IInv, Tick, Clocks
<1>2. SourceInv'
  BY <1>1, SourceTick
<1>3. DynamicClock /\ enabled' = "CPU_ENABLED" =>
        fsm = "WAIT_CMD" /\ ~cmd_valid
  BY <1>1, SignalFacts DEF Tick, Clocks, ClockEdge, Calculating, HandshakeInv
<1>4. Registered \subseteq Functions
  BY RegisteredAssumption DEF Functions
<1>a. CASE fsm = "WAIT_CMD" /\ ~cmd_valid
  <2>1. UNCHANGED amaranthVars
    BY <1>1, <1>a, CfuRests
  <2>2. CASE ~in_flight /\ ~fired
    <3>1. ~hold' /\ ~fired' /\ ~in_flight' /\ ~rValid' /\ taken' = taken
      BY <1>1, <1>a, <2>2, RestTick
    <3>2. HandshakeInv'
      BY <1>2, <1>a, <2>1, <3>1 DEF HandshakeInv, SourceInv, amaranthVars
    <3>3. ResponseInv'
      BY <1>1, <1>a, <2>1, <3>1 DEF ResponseInv, amaranthVars
    <3>4. UnitStep
      BY <2>2, <3>1 DEF UnitStep, job
    <3> QED
      BY <3>2, <3>3, <3>4
  <2>3. CASE fired
    <3>1. /\ ~hold' /\ rValid' /\ rData' = rData /\ taken' = taken
          /\ \/ execute' = execute /\ fired' /\ ~in_flight' /\ ~hazard'
             \/ /\ memory' = execute /\ ~fired' /\ in_flight'
                /\ writeBack'.kind # "side"
      BY <1>1, <2>3, HeldTick
    <3>2. execute.kind = "cfu" /\ ~in_flight /\ rValid
      BY <1>1, <2>3, SignalFacts
    <3>3. job = JobOf(execute) /\ job' = JobOf(execute)
      BY <2>3, <3>1, <3>2 DEF job, JobOf
    <3>4. HandshakeInv'
      BY <1>2, <1>a, <2>1, <3>1, <3>2 DEF HandshakeInv, SourceInv, amaranthVars
    <3>5. ResponseInv'
      BY <1>1, <1>a, <2>1, <3>1, <3>2, <3>3 DEF ResponseInv, amaranthVars
    <3> QED
      BY <3>1, <3>3, <3>4, <3>5 DEF UnitStep
  <2>4. CASE in_flight
    <3>1. /\ ~hold' /\ ~fired' /\ ~in_flight' /\ ~rValid'
          /\ taken' = [result |-> job, turn |-> 1 - taken.turn]
      BY <1>1, <1>a, <2>4, TakeTick
    <3>2. HandshakeInv'
      BY <1>2, <1>a, <2>1, <3>1 DEF HandshakeInv, SourceInv, amaranthVars
    <3>3. ResponseInv'
      BY <1>1, <1>a, <2>1, <3>1 DEF ResponseInv, amaranthVars
    <3>4. job' = NoResult
      BY <3>1 DEF job
    <3> QED
      BY <1>1, <2>4, <3>1, <3>2, <3>3, <3>4, JobType DEF UnitStep
  <2> QED
    BY <2>2, <2>3, <2>4
<1>b. CASE fsm = "WAIT_CMD" /\ cmd_valid
  <2>1. /\ ~hold'
        /\ rValid' <=> rsp_valid(cmd) /\ ~in_flight
        /\ rValid' => rData' = JobOf(execute)
        /\ taken' = IF in_flight
                    THEN [result |-> job, turn |-> 1 - taken.turn] ELSE taken
        /\ \/ /\ execute' = execute /\ fired' /\ ~in_flight' /\ ~hazard'
              /\ HardwareDiv /\ ~in_flight
           \/ /\ memory' = execute /\ ~fired' /\ in_flight'
              /\ writeBack'.kind # "side"
    BY <1>1, <1>b, AcceptTick
  <2>2. /\ execute.kind = "cfu" /\ ~fired /\ (in_flight <=> rValid)
        /\ rsp_ready <=> ~rValid
        /\ execute.funct3 \in Fns
        /\ rsp_valid(cmd) <=> execute.funct3 \notin Registered
    BY <1>1, <1>b, SignalFacts, ResponseFacts DEF HandshakeInv
  <2>3. job' = JobOf(execute) /\ job' \in Result
    BY <1>1, <2>1, ExecuteJobType DEF job, JobOf
  <2>4. fired' => execute.funct3 \notin Registered
    BY <2>1, <2>2 DEF HoldClears
  <2>5. UnitStep
    <3>1. CASE in_flight
      BY <1>1, <2>1, <2>3, <3>1, JobType DEF UnitStep
    <3>2. CASE ~in_flight
      BY <2>1, <2>2, <2>3, <3>2 DEF UnitStep, job
    <3> QED
      BY <3>1, <3>2
  <2>6. CASE execute.funct3 \notin Registered
    <3>1. /\ fsm' = IF rsp_ready THEN "WAIT_CMD" ELSE "WAIT_TRANSFER"
          /\ ~rsp_ready => stored_output' = JobOf(execute)
          /\ unit' = unit
      BY <1>1, <1>b, <2>6, CfuAccepts
    <3>2. HandshakeInv'
      BY <1>2, <1>3, <1>b, <2>1, <2>2, <2>6, <3>1 DEF HandshakeInv, SourceInv
    <3>3. ResponseInv'
      BY <1>1, <1>b, <2>1, <2>2, <2>3, <3>1 DEF ResponseInv
    <3> QED
      BY <2>5, <3>2, <3>3
  <2>7. CASE execute.funct3 \in Registered
    <3>1. /\ fsm' = "WAIT_INSTRUCTION"
          /\ stored_function_id' = execute.funct3
          /\ unit'[execute.funct3].state # "idle"
          /\ unit'[execute.funct3].in0 = execute.in0
          /\ unit'[execute.funct3].in1 = execute.in1
          /\ \A f \in Registered : f # execute.funct3 => unit'[f] = unit[f]
      BY <1>1, <1>b, <2>7, CfuAccepts
    <3>2. HandshakeInv'
      BY <1>2, <1>3, <1>b, <2>1, <2>2, <2>4, <2>7, <3>1
         DEF HandshakeInv, SourceInv
    <3>3. ResponseInv'
      BY <1>1, <1>b, <2>1, <2>2, <2>3, <2>7, <3>1 DEF ResponseInv, JobOf
    <3> QED
      BY <2>5, <3>2, <3>3
  <2> QED
    BY <2>6, <2>7
<1>c. CASE fsm # "WAIT_CMD"
  <2>1. /\ ~fired' /\ ~rValid'
        /\ hold' => execute' = execute /\ execute.kind = "cfu" /\ ~hazard'
        /\ ~rsp_valid(cmd) =>
             /\ in_flight' /\ memory' = memory /\ writeBack'.kind # "side"
             /\ taken' = taken
        /\ rsp_valid(cmd) =>
             /\ ~in_flight'
             /\ taken' = [result |-> job, turn |-> 1 - taken.turn]
    BY <1>1, <1>c, BusyTick
  <2>2. in_flight /\ memory.kind = "cfu"
    BY <1>1, <1>c, SignalFacts
  <2>3. CASE rsp_valid(cmd)
    <3>1. fsm' = "WAIT_CMD" /\ \A f \in Registered : unit'[f].state = "idle"
      BY <1>1, <1>c, <2>3, CfuWorks
    <3>2. HandshakeInv'
      BY <1>2, <2>1, <2>3, <3>1 DEF HandshakeInv, SourceInv
    <3>3. ResponseInv'
      BY <2>1, <3>1 DEF ResponseInv
    <3>4. UnitStep
      BY <1>1, <2>1, <2>2, <2>3, JobType DEF UnitStep, job
    <3> QED
      BY <3>2, <3>3, <3>4
  <2>4. CASE ~rsp_valid(cmd)
    <3>1. /\ fsm' = fsm /\ stored_function_id' = stored_function_id
          /\ \A f \in Registered :
               /\ unit'[f].in0 = unit[f].in0 /\ unit'[f].in1 = unit[f].in1
               /\ unit'[f].state = "idle" <=> unit[f].state = "idle"
      BY <1>1, <1>c, <2>4, CfuWorks
    <3>2. fsm = "WAIT_INSTRUCTION"
      BY <1>1, <1>c, <2>4, ResponseFacts
    <3>3. job' = job
      BY <2>1, <2>2, <2>4 DEF job, JobOf
    <3>4. HandshakeInv'
      BY <1>2, <1>3, <1>c, <2>1, <2>2, <2>4, <3>1 DEF HandshakeInv, SourceInv
    <3>5. ResponseInv'
      BY <1>1, <2>1, <3>1, <3>2, <3>3 DEF ResponseInv
    <3> QED
      BY <2>1, <2>4, <3>3, <3>4, <3>5 DEF UnitStep
  <2> QED
    BY <2>3, <2>4
<1> QED
  BY <1>a, <1>b, <1>c

LEMMA ResetStep ==
  ASSUME IInv, Reset
  PROVE  /\ HandshakeInv' /\ ResponseInv'
         /\ job' = NoResult /\ era' = 1 - era /\ taken' = taken
<1>1. /\ execute' = Bubble /\ memory' = Bubble
      /\ ~hold' /\ ~fired' /\ ~in_flight' /\ ~rValid'
      /\ fsm' = "WAIT_CMD" /\ \A f \in Registered : unit'[f].state = "idle"
  BY DEF Reset, CpuReset, AmaranthReset
<1>2. Bubble.kind = "none"
  BY DEF Bubble, Plain
<1> QED
  BY <1>1, <1>2 DEF HandshakeInv, ResponseInv, job, Reset

LEMMA InvInit == Init => IInv
<1> SUFFICES ASSUME Init PROVE HandshakeInv /\ ResponseInv
  BY InitType DEF IInv
<1>1. /\ execute = Bubble /\ memory = Bubble
      /\ ~hold /\ ~fired /\ ~in_flight /\ ~rValid
      /\ fsm = "WAIT_CMD" /\ \A f \in Registered : unit[f].state = "idle"
  BY DEF Init, CpuInit, AmaranthInit
<1>2. Bubble.kind = "none"
  BY DEF Bubble, Plain
<1> QED
  BY <1>1, <1>2 DEF HandshakeInv, ResponseInv

LEMMA InvStep == HoldClears /\ IInv /\ [Next]_vars => IInv'
<1> SUFFICES ASSUME HoldClears, IInv, [Next]_vars PROVE IInv'
  OBVIOUS
<1>1. TypeOK'
  BY TypeStep DEF IInv
<1>2. HandshakeInv' /\ ResponseInv'
  <2>1. CASE UNCHANGED vars
    BY <2>1 DEF vars, cpuVars, amaranthVars, IInv, HandshakeInv, ResponseInv,
       job, hazard
  <2> QED
    BY <2>1, TickStep, ResetStep DEF Next
<1> QED
  BY <1>1, <1>2 DEF IInv

(* Where a response is, whose it is, and what hold means, in every state   *)
(* of a system whose hold cannot outlive an accepted command.              *)
THEOREM InductiveInvariant ==
  ASSUME HoldClears
  PROVE  Spec => []IInv
<1>1. Init => IInv
  BY InvInit
<1>2. IInv /\ [Next]_vars => IInv'
  BY InvStep
<1> QED
  BY <1>1, <1>2, PTL DEF Spec

(* Every step of CPU, CFU and clock controller is a step of the abstract   *)
(* unit: what the program gets from CfuPlugin and the Amaranth base class  *)
(* is the function of its operands, once and in order.                     *)
THEOREM ImplementsUnit ==
  ASSUME HoldClears
  PROVE  Spec => UnitSpec
<1>1. Init => U!Init
  BY DEF Init, CpuInit, U!Init, job
<1>2. IInv /\ [Next]_vars => [U!Next]_U!vars
  <2> SUFFICES ASSUME IInv, [Next]_vars PROVE [U!Next]_U!vars
    OBVIOUS
  <2>1. CASE UNCHANGED vars
    BY <2>1 DEF vars, cpuVars, U!vars, job, JobOf
  <2>2. CASE Reset
    BY <2>2, ResetStep DEF U!Next, U!Reset
  <2>3. CASE Tick
    BY <2>3, TickStep DEF UnitStep, U!Next, U!Begin, U!Finish, U!vars, Tick, Clocks
  <2> QED
    BY <2>1, <2>2, <2>3 DEF Next
<1>3. Spec => []IInv
  BY InductiveInvariant
<1> QED
  BY <1>1, <1>2, <1>3, PTL DEF Spec, UnitSpec, U!Spec

(* Only the op code allocated to the CFU sends it commands and receives    *)
(* its responses (CfuPlugin's cmd_valid and CFU_IN_FLIGHT).                *)
THEOREM CommandsOfCfuInstructions ==
  ASSUME HoldClears
  PROVE  Spec => []OnlyCfuInstructions
<1>1. IInv => OnlyCfuInstructions
  BY DEF IInv, HandshakeInv, OnlyCfuInstructions, cmd_valid, schedule
<1> QED
  BY <1>1, InductiveInvariant, PTL

(* The clock controller stops the CFU only while it has nothing to do and  *)
(* the CPU only while it waits for a response the CFU does not have yet.   *)
THEOREM ClocksAreSafe ==
  ASSUME HoldClears
  PROVE  Spec => []ClocksStopSafely
<1>1. IInv => ClocksStopSafely
  <2> SUFFICES ASSUME IInv PROVE ClocksStopSafely
    OBVIOUS
  <2>1. TypeOK /\ HandshakeInv /\ ResponseInv
    BY DEF IInv
  <2>2. ~cfuEnabled => fsm = "WAIT_CMD" /\ ~cmd_valid /\ cpuEnabled
    BY <2>1, ClockFacts
  <2>3. ~cfuEnabled => \A f \in Registered : unit[f].state = "idle"
    BY <2>1, <2>2 DEF ResponseInv
  <2>4. ~cpuEnabled => in_flight /\ fsm = "WAIT_INSTRUCTION" /\ ~rValid
    BY <2>1, ClockFacts, SignalFacts, ResponseFacts
  <2>5. in_flight => job # NoResult
    BY <2>1, JobType, ExecuteJobType
  <2> QED
    BY <2>2, <2>3, <2>4, <2>5 DEF ClocksStopSafely
<1> QED
  BY <1>1, InductiveInvariant, PTL

(* start lasts one cycle, and done is never left over for a later command. *)
THEOREM InstructionsStartIdle ==
  ASSUME HoldClears
  PROVE  Spec => []StartsIdle
<1>1. IInv => StartsIdle
  BY DEF IInv, ResponseInv, StartsIdle, instruction_start, rsp_valid,
     Completes, instruction_done, current_function_id, cmd_ready
<1> QED
  BY <1>1, InductiveInvariant, PTL


-----------------------------------------------------------------------------
(* The sequential memory reader *)

(* The address after one to be read is one to be read. *)
LEMMA ReaderAddressType ==
  ASSUME ReaderTypeOK
  PROVE  /\ incremented_addr \in 0 .. limit - 1
         /\ \A r \in BOOLEAN : mem_addr(r) \in 0 .. limit - 1
         /\ \A r \in BOOLEAN : mem_addr(r) \in Index
<1>1. limit \in 1 .. Depth /\ last_mem_addr \in 0 .. limit - 1
  BY DEF ReaderTypeOK
<1>2. incremented_addr \in 0 .. limit - 1
  BY <1>1, ReaderAssumption DEF incremented_addr
<1>3. \A r \in BOOLEAN : mem_addr(r) \in 0 .. limit - 1
  BY <1>1, <1>2, ReaderAssumption DEF mem_addr
<1>4. \A i \in 0 .. limit - 1 : i \in Index
  BY <1>1, ReaderAssumption DEF Index
<1> QED
  BY <1>2, <1>3, <1>4

(* Address zero is one to be read whatever the limit. *)
LEMMA ZeroIsAnAddress == \A l \in 1 .. Depth : 0 \in 0 .. l - 1
  BY ReaderAssumption

-----------------------------------------------------------------------------
(* Every register keeps its type, and the address on the read port is one  *)
(* of the items to be read, for every depth, limit and use of the inputs.  *)
THEOREM ReaderTypeCorrect == ReaderSpec => []ReaderTypeOK
<1>1. ReaderInit => ReaderTypeOK
  <2> SUFFICES ASSUME ReaderInit
               PROVE  ReaderTypeOK
    OBVIOUS
  <2>1. last_mem_addr \in 0 .. limit - 1
    BY ZeroIsAnAddress DEF ReaderInit
  <2>2. last_data \in Words /\ mem_data \in Words
    BY ReaderAssumption DEF ReaderInit
  <2> QED
    BY <2>1, <2>2 DEF ReaderInit, ReaderTypeOK
<1>2. ReaderTypeOK /\ [ReaderNext]_readerVars => ReaderTypeOK'
  <2> SUFFICES ASSUME ReaderTypeOK, [ReaderNext]_readerVars
               PROVE  ReaderTypeOK'
    OBVIOUS
  <2>1. CASE ReaderNext
    <3>1. PICK w_en \in BOOLEAN, w_addr \in Index, w_data \in Words :
            Write(w_en, w_addr, w_data)
      BY <2>1 DEF ReaderNext
    <3>2. mem' \in [Index -> Words]
      BY <3>1 DEF Write, ReaderTypeOK
    <3>3. \A r \in BOOLEAN : mem[mem_addr(r)] \in Words
      BY ReaderAddressType DEF ReaderTypeOK
    <3>4. data \in Words
      BY DEF data, ReaderTypeOK
    <3>5. ASSUME NEW next \in BOOLEAN, Restart(next)
          PROVE  ReaderTypeOK'
      <4>1. last_mem_addr' \in 0 .. limit' - 1
        BY <3>5, ZeroIsAnAddress DEF Restart, Cycle, mem_addr
      <4> QED
        BY <3>2, <3>3, <3>4, <3>5, <4>1 DEF Restart, Cycle, ReaderTypeOK
    <3>6. ASSUME NEW next \in BOOLEAN, Read(next)
          PROVE  ReaderTypeOK'
      <4>1. mem_addr(FALSE) \in 0 .. limit - 1
        BY ReaderAddressType
      <4> QED
        BY <3>2, <3>3, <3>4, <3>6, <4>1 DEF Read, Cycle, ReaderTypeOK
    <3> QED
      BY <2>1, <3>5, <3>6 DEF ReaderNext
  <2>2. CASE UNCHANGED readerVars
    BY <2>2 DEF readerVars, ReaderTypeOK
  <2> QED
    BY <2>1, <2>2
<1> QED
  BY <1>1, <1>2, PTL DEF ReaderSpec

-----------------------------------------------------------------------------
(* Refinement *)

(* One cycle later the word the port was pointed at is shown if it was     *)
(* asked for, and the one shown before if not.                             *)
LEMMA ShownNext ==
  ASSUME ReaderTypeOK, NEW r \in BOOLEAN, NEW next \in BOOLEAN, Cycle(r, next)
  PROVE  data' = IF r \/ next THEN mem[mem_addr(r)] ELSE data
BY DEF Cycle, data

(* A restart of the gateware is a restart of the sequence, next or not. *)
LEMMA RestartStep ==
  ASSUME ReaderTypeOK, NEW next \in BOOLEAN, Restart(next)
  PROVE  Reader!Restart
<1>1. Cycle(TRUE, next) /\ limit' \in 1 .. Depth
  BY DEF Restart
<1>2. data' = mem[0]
  BY <1>1, ShownNext DEF mem_addr
<1>3. mem_addr(FALSE)' = IF 0 = limit' - 1 THEN 0 ELSE 0 + 1
  BY <1>1 DEF Cycle, mem_addr, incremented_addr
<1> QED
  BY <1>1, <1>2, <1>3 DEF Reader!Restart, Reader!After

(* Any other cycle shows the upcoming item or keeps the one it shows. *)
LEMMA ReadStep ==
  ASSUME ReaderTypeOK, NEW next \in BOOLEAN, Read(next)
  PROVE  Reader!Advance \/ Reader!Keep
<1>1. Cycle(FALSE, next) /\ limit' = limit
  BY DEF Read
<1>2. CASE next
  <2>1. data' = mem[mem_addr(FALSE)]
    BY <1>1, <1>2, ShownNext
  <2>2. mem_addr(FALSE)' = Reader!After(mem_addr(FALSE))
    BY <1>1, <1>2 DEF Cycle, mem_addr, incremented_addr, Reader!After
  <2> QED
    BY <1>1, <2>1, <2>2 DEF Reader!Advance
<1>3. CASE ~next
  <2>1. data' = data
    BY <1>1, <1>3, ShownNext
  <2>2. mem_addr(FALSE)' = mem_addr(FALSE)
    BY <1>1, <1>3 DEF Cycle, mem_addr
  <2> QED
    BY <1>1, <2>1, <2>2 DEF Reader!Keep
<1> QED
  BY <1>2, <1>3

(* The reader shows the items in order, each as it was when it was asked   *)
(* for: SequentialMemoryReader over DualPortMemory implements the abstract *)
(* reader, for every depth and limit and whatever is written meanwhile.    *)
THEOREM ImplementsSequence == ReaderSpec => ItemsInOrder
<1>1. ReaderInit => Reader!Init
  BY DEF ReaderInit, Reader!Init, Reader!Index, Index, data, mem_addr
<1>2. ReaderTypeOK /\ [ReaderNext]_readerVars => [Reader!Next]_(Reader!vars)
  <2> SUFFICES ASSUME ReaderTypeOK, [ReaderNext]_readerVars
               PROVE  [Reader!Next]_(Reader!vars)
    OBVIOUS
  <2>1. CASE ReaderNext
    <3>1. Reader!Restart \/ Reader!Advance \/ Reader!Keep
      BY <2>1, RestartStep, ReadStep DEF ReaderNext
    <3>2. PICK w_en \in BOOLEAN, w_addr \in Index, w_data \in Words :
            Write(w_en, w_addr, w_data)
      BY <2>1 DEF ReaderNext
    <3>3. Reader!Write
      BY <3>2 DEF Write, Reader!Write, Reader!Index, Index
    <3> QED
      BY <3>1, <3>3 DEF Reader!Next
  <2>2. CASE UNCHANGED readerVars
    BY <2>2 DEF readerVars, Reader!vars, data, mem_addr, incremented_addr
  <2> QED
    BY <2>1, <2>2
<1> QED
  BY <1>1, <1>2, ReaderTypeCorrect, PTL DEF ReaderSpec, ItemsInOrder, Reader!Spec
=============================================================================
