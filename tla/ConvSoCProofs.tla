---------------------------- MODULE ConvSoCProofs ----------------------------
(***************************************************************************)
(* Proofs about ConvSoC for every word size, program and memory delay:     *)
(* type correctness of every program, and for programs that use only the   *)
(* function codes the CFU decodes, that a response is never refused, never *)
(* missing and never another command's, and that products are made of the  *)
(* words the counters point at.                                            *)
(***************************************************************************)
EXTENDS ConvSoC, ConvCfuProofs

-----------------------------------------------------------------------------
(* The operators *)

(* Operands are integers, and an operand and an id exist to fill the       *)
(* fields of instructions that do not use them.                            *)
LEMMA FillerType == AnId \in Ids /\ AnOperand \in Operands
  BY SoCAssumption DEF AnId, AnOperand

(* A fresh id exists whatever the ids in use. *)
LEMMA FreshIdType ==
  ASSUME TypeOK
  PROVE  FreshId \in Ids /\ FreshId \notin IdsInUse
<1>1. /\ execute.id \in Ids /\ memory.id \in Ids
      /\ serving \in Ids /\ answered.id \in Ids
  BY DEF TypeOK, CpuTypeOK, Instruction
<1>2. \E i \in Ids : i \notin IdsInUse
  <2>1. IdsInUse \subseteq {execute.id, memory.id, serving, answered.id}
    BY DEF IdsInUse
  <2> QED
    BY <1>1, <2>1, SoCAssumption
<1> QED
  BY <1>2 DEF FreshId

(* Instructions that are not CFU instructions are instructions. *)
LEMMA PlainType == \A k \in Kinds : Plain(k) \in Instruction
  BY FillerType DEF Plain, Instruction

(* Whatever decode offers is an instruction. *)
LEMMA DecodedType ==
  ASSUME TypeOK, NEW d \in Decoded
  PROVE  d \in Instruction
<1>1. CASE d \in {Plain(k) : k \in Kinds \ {"cfu"}}
  BY <1>1, PlainType
<1>2. CASE \E f \in Ops, a \in Operands, b \in Operands :
             d = [kind |-> "cfu", funct7 |-> f, funct3 |-> 0, in0 |-> a, in1 |-> b,
                  id |-> FreshId]
  BY <1>2, FreshIdType, SoCAssumption DEF Instruction, Kinds
<1> QED
  BY <1>1, <1>2 DEF Decoded

-----------------------------------------------------------------------------
(* Type correctness *)

LEMMA InitType == Init => TypeOK
<1> SUFFICES ASSUME Init PROVE TypeOK
  OBVIOUS
<1>1. Bubble \in Instruction
  BY PlainType DEF Bubble, Kinds
<1>2. CfuTypeOK
  BY InitTypes DEF Init
<1>3. CpuTypeOK
  BY <1>1 DEF Init, CpuInit, CpuTypeOK
<1> QED
  BY <1>2, <1>3, FillerType, EmptyType DEF Init, TypeOK

LEMMA RisingType == TypeOK /\ RisingEdge => TypeOK'
<1> SUFFICES ASSUME TypeOK, RisingEdge PROVE TypeOK'
  OBVIOUS
<1>1. PICK halt \in Halts, flush \in BOOLEAN, decoded \in Decoded :
        PosEdge(halt, flush, decoded)
  BY DEF RisingEdge
<1>2. CfuTypeOK'
  <2>1. rsp_ready \in BOOLEAN
    BY DEF rsp_ready
  <2> QED
    BY <1>1, <2>1, PosEdgeType DEF PosEdge, RisingEdge, TypeOK
<1>3. /\ Bubble \in Instruction
      /\ decoded \in Instruction
  BY PlainType, DecodedType DEF Bubble, Kinds
<1>4. CpuTypeOK'
  BY <1>1, <1>3 DEF PosEdge, CpuPosEdge, MoveExecute, MoveMemory,
     MoveWriteBack, TypeOK, CpuTypeOK
<1>5. rData' \in Seq(Product)
  BY <1>1 DEF PosEdge, CpuPosEdge, TypeOK, CfuTypeOK
<1> QED
  BY <1>1, <1>2, <1>4, <1>5 DEF PosEdge, history, TypeOK

LEMMA FallingType == TypeOK /\ FallingEdge => TypeOK'
<1> SUFFICES ASSUME TypeOK, FallingEdge PROVE TypeOK'
  OBVIOUS
<1>1. CfuTypeOK'
  <2>1. cmd.funct7 \in 0 .. 127 /\ cmd.in0 \in Word /\ cmd.in1 \in Word
    BY SoCAssumption DEF cmd, TypeOK, CpuTypeOK, Instruction
  <2>2. cmd.funct7 \in Nat
    BY <2>1
  <2> QED
    BY <2>1, <2>2, NegEdgeType DEF FallingEdge, TypeOK
<1>2. CpuTypeOK' /\ rData' \in Seq(Product)
  BY DEF FallingEdge, cpuVars, TypeOK, CpuTypeOK
<1>3. rsp_payload' \in Seq(Product)
  BY <1>1 DEF CfuTypeOK
<1>4. serving' \in Ids /\ answered' \in [id : Ids, value : Seq(Product)]
  BY <1>3 DEF FallingEdge, TypeOK, CpuTypeOK, Instruction
<1> QED
  BY <1>1, <1>2, <1>4 DEF FallingEdge, TypeOK

LEMMA ResetType == TypeOK /\ Reset => TypeOK'
<1> SUFFICES ASSUME TypeOK, Reset PROVE TypeOK'
  OBVIOUS
<1>1. CfuTypeOK'
  BY ResetTypes DEF Reset, TypeOK
<1>2. CpuTypeOK'
  BY PlainType DEF Reset, CpuReset, CpuTypeOK, Bubble, Kinds
<1> QED
  BY <1>1, <1>2 DEF Reset, CpuReset, history, TypeOK

(* Every register of the CPU's CFU port and of the CFU keeps its type, for *)
(* every program, every memory delay and reset at any time.                *)
THEOREM TypeCorrect == Spec => []TypeOK
<1>1. TypeOK /\ UNCHANGED vars => TypeOK'
  BY DEF vars, cfuVars, cpuVars, TypeOK, CfuTypeOK, CpuTypeOK
<1>2. TypeOK /\ [Next]_vars => TypeOK'
  BY <1>1, RisingType, FallingType, ResetType DEF Next
<1> QED
  BY InitType, <1>2, PTL DEF Spec

-----------------------------------------------------------------------------
(* The handshake *)

(* The CPU presents a command exactly when a CFU instruction is scheduled, *)
(* and an instruction whose response is on its way is not held up.         *)
LEMMA PipelineFacts ==
  ASSUME TypeOK, HandshakeInv
  PROVE  /\ cmd_valid <=> Presented
         /\ execute_in_flight <=> Presented \/ fired
         /\ in_flight => ~hazard
         /\ \A halt \in Halts :
              /\ in_flight => ~MemoryStuck(rsp_valid, halt)
              /\ memory_rsp_ready(halt) <=> in_flight
              /\ ~hazard => ~WriteBackStuck(halt)
  BY DEF TypeOK, CpuTypeOK, CfuTypeOK, HandshakeInv, Presented, cmd_valid,
     schedule, hazard, execute_in_flight, MemoryStuck, memory_rsp_ready,
     memory_rsp_valid, WriteBackStuck, Halts

(* Decode offers only function codes the CFU knows, if the program does. *)
LEMMA DecodedFacts ==
  ASSUME KnownOps, NEW d \in Decoded
  PROVE  d.kind = "cfu" => d.funct7 \in 0 .. 8
<1>1. CASE d \in {Plain(k) : k \in Kinds \ {"cfu"}}
  BY <1>1 DEF Plain
<1>2. CASE \E f \in Ops, a \in Operands, b \in Operands :
             d = [kind |-> "cfu", funct7 |-> f, funct3 |-> 0, in0 |-> a, in1 |-> b,
                  id |-> FreshId]
  BY <1>2 DEF KnownOps
<1> QED
  BY <1>1, <1>2 DEF Decoded

(* What a rising edge does to the pipeline, in each of its situations.     *)
LEMMA BusyEdge ==
  ASSUME TypeOK, HandshakeInv, cur_state # "INIT",
         NEW halt \in Halts, NEW flush \in BOOLEAN, NEW decoded \in Decoded,
         PosEdge(halt, flush, decoded)
  PROVE  /\ execute' = execute
         /\ hold' /\ ~fired' /\ ~in_flight' /\ ~rValid'
         /\ ~hazard'
         /\ rsp_valid' <=> cur_state \in FinalStates
<1>1. Presented /\ ~rsp_valid /\ ~fired
  BY DEF HandshakeInv, PosEdge
<1>2. ~cmd_ready
  BY DEF cmd_ready
<1>3. CpuPosEdge(rsp_valid, rsp_payload, cmd_ready, halt, flush, decoded)
  BY DEF PosEdge
<1>4. ~flush /\ ~WriteBackStuck(halt)
  BY <1>1, <1>3, PipelineFacts DEF CpuPosEdge, Presented, hazard
<1>5. ExecuteStuck(rsp_valid, cmd_ready, halt)
  BY <1>1, <1>2, PipelineFacts DEF ExecuteStuck
<1>6. execute' = execute
  BY <1>3, <1>4, <1>5 DEF CpuPosEdge, MoveExecute
<1>7. ~hazard'
  BY <1>1, <1>3, <1>4, <1>5 DEF CpuPosEdge, MoveMemory, MoveWriteBack,
     Presented, hazard, Bubble, Plain
<1>8. ~in_flight'
  BY <1>3, <1>5, PipelineFacts DEF CpuPosEdge
<1>9. ~rValid'
  BY <1>1, <1>3, PipelineFacts DEF CpuPosEdge, HandshakeInv
<1>10. hold' /\ ~fired'
  BY <1>1, <1>2, <1>3, PipelineFacts DEF CpuPosEdge, Presented, schedule
<1>11. rsp_valid' <=> cur_state \in FinalStates
  BY <1>1 DEF PosEdge, CfuPosEdge
<1> QED
  BY <1>6, <1>7, <1>8, <1>9, <1>10, <1>11

(* The command fires on this edge or has fired before: the response goes   *)
(* to, or stays in, the buffer, and the instruction advances or is held.   *)
LEMMA AnsweredEdge ==
  ASSUME TypeOK, HandshakeInv, cur_state = "INIT", Presented \/ fired,
         NEW halt \in Halts, NEW flush \in BOOLEAN, NEW decoded \in Decoded,
         PosEdge(halt, flush, decoded)
  PROVE  /\ ~hold' /\ rValid' /\ ~rsp_valid' /\ ~hazard
         /\ memory'.kind # "side" /\ writeBack'.kind # "side"
         /\ rData' = IF rValid THEN rData ELSE rsp_payload
         /\ rValid <=> fired
         /\ \/ execute' = execute /\ fired' /\ ~in_flight'
            \/ execute' = decoded /\ memory' = execute /\ ~fired' /\ in_flight'
<1>1. /\ execute.kind = "cfu" /\ ~hazard /\ ~in_flight
      /\ Presented => rsp_valid /\ ~rValid /\ ~fired
      /\ fired => rValid /\ ~rsp_valid /\ ~hold
  BY DEF HandshakeInv, PosEdge, Presented
<1>2. cmd_ready
  BY DEF cmd_ready
<1>3. CpuPosEdge(rsp_valid, rsp_payload, cmd_ready, halt, flush, decoded)
  BY DEF PosEdge
<1>4. ~flush /\ ~WriteBackStuck(halt)
  BY <1>1, <1>3, PipelineFacts DEF CpuPosEdge, hazard
<1>5. memory'.kind # "side" /\ writeBack'.kind # "side"
  BY <1>1, <1>3, <1>4 DEF CpuPosEdge, MoveMemory, MoveWriteBack, hazard,
     Bubble, Plain
<1>6. rValid' /\ ~hold'
  BY <1>1, <1>2, <1>3, PipelineFacts DEF CpuPosEdge
<1>7. ~rsp_valid'
  BY <1>1 DEF PosEdge, CfuPosEdge, rsp_ready, FinalStates
<1>8. rData' = IF rValid THEN rData ELSE rsp_payload
  BY <1>3 DEF CpuPosEdge, rsp_ready
<1>9. ASSUME ExecuteStuck(rsp_valid, cmd_ready, halt)
      PROVE  execute' = execute /\ fired' /\ ~in_flight'
  <2>1. execute' = execute
    BY <1>3, <1>4, <1>9 DEF CpuPosEdge, MoveExecute
  <2>2. fired'
    BY <1>1, <1>2, <1>3, <1>9, PipelineFacts DEF CpuPosEdge
  <2>3. ~in_flight'
    BY <1>1, <1>3, <1>9, PipelineFacts DEF CpuPosEdge
  <2> QED
    BY <2>1, <2>2, <2>3
<1>10. ASSUME ~ExecuteStuck(rsp_valid, cmd_ready, halt)
       PROVE  execute' = decoded /\ memory' = execute /\ ~fired' /\ in_flight'
  <2>1. execute' = decoded /\ memory' = execute
    BY <1>3, <1>4, <1>10 DEF CpuPosEdge, MoveExecute, MoveMemory
  <2>2. ~fired'
    BY <1>3, <1>10 DEF CpuPosEdge
  <2>3. execute_in_flight /\ ~MemoryStuck(rsp_valid, halt)
    BY <1>10, PipelineFacts DEF ExecuteStuck
  <2>4. in_flight'
    BY <1>3, <1>10, <2>3 DEF CpuPosEdge
  <2> QED
    BY <2>1, <2>2, <2>4
<1> QED
  BY <1>1, <1>5, <1>6, <1>7, <1>8, <1>9, <1>10

(* No command is in progress. *)
LEMMA QuietEdge ==
  ASSUME TypeOK, HandshakeInv, cur_state = "INIT", ~Presented, ~fired,
         NEW halt \in Halts, NEW flush \in BOOLEAN, NEW decoded \in Decoded,
         PosEdge(halt, flush, decoded)
  PROVE  /\ ~hold' /\ ~fired' /\ ~in_flight' /\ ~rValid' /\ ~rsp_valid'
         /\ execute' \in {execute, decoded, Bubble}
<1>1. ~rsp_valid /\ ~hold /\ (rValid => in_flight)
  BY DEF HandshakeInv
<1>2. cmd_ready
  BY DEF cmd_ready
<1>3. CpuPosEdge(rsp_valid, rsp_payload, cmd_ready, halt, flush, decoded)
  BY DEF PosEdge
<1>4. ~hold' /\ ~fired'
  BY <1>2, <1>3, PipelineFacts DEF CpuPosEdge
<1>5. ~in_flight' /\ ~rValid'
  BY <1>1, <1>3, PipelineFacts DEF CpuPosEdge
<1>6. ~rsp_valid'
  BY <1>1 DEF PosEdge, CfuPosEdge, FinalStates
<1>7. execute' \in {execute, decoded, Bubble}
  BY <1>3 DEF CpuPosEdge, MoveExecute
<1> QED
  BY <1>4, <1>5, <1>6, <1>7

LEMMA HandshakeRising == KnownOps /\ IInv /\ RisingEdge => HandshakeInv' /\ AnswerInv'
<1> SUFFICES ASSUME KnownOps, TypeOK, HandshakeInv, AnswerInv, RisingEdge
             PROVE  HandshakeInv' /\ AnswerInv'
  BY DEF IInv
<1>1. PICK halt \in Halts, flush \in BOOLEAN, decoded \in Decoded :
        PosEdge(halt, flush, decoded)
  BY DEF RisingEdge
<1>2. /\ clk' = "high" /\ clk = "low" /\ cur_state' = cur_state
      /\ UNCHANGED history
  BY <1>1 DEF PosEdge, CfuPosEdge
<1>3. decoded.kind = "cfu" => decoded.funct7 \in 0 .. 8
  BY DecodedFacts
<1>4. Bubble.kind = "none"
  BY DEF Bubble, Plain
<1>5. cur_state' = "INIT" => cur_state' \notin FinalStates
  BY DEF FinalStates
<1>a. CASE cur_state # "INIT"
  BY <1>a, <1>1, <1>2, <1>5, BusyEdge
     DEF HandshakeInv, AnswerInv, Presented, history
<1>b. CASE cur_state = "INIT" /\ (Presented \/ fired)
  <2>1. \/ execute' = execute /\ fired' /\ ~in_flight'
        \/ execute' = decoded /\ memory' = execute /\ ~fired' /\ in_flight'
    BY <1>b, <1>1, AnsweredEdge
  <2>2. /\ ~hold' /\ rValid' /\ ~rsp_valid'
        /\ memory'.kind # "side" /\ writeBack'.kind # "side"
    BY <1>b, <1>1, AnsweredEdge
  <2>3. execute.kind = "cfu"
    BY <1>b DEF HandshakeInv, Presented
  <2>4. HandshakeInv'
    BY <1>2, <1>3, <1>5, <1>b, <2>1, <2>2, <2>3
       DEF HandshakeInv, hazard, Presented
  <2>5. answered = [id |-> execute.id, value |-> rData']
    BY <1>1, <1>2, <1>b, AnsweredEdge DEF AnswerInv, HandshakeInv
  <2>6. AnswerInv'
    BY <1>2, <1>b, <2>1, <2>5 DEF AnswerInv, history
  <2> QED
    BY <2>4, <2>6
<1>c. CASE cur_state = "INIT" /\ ~Presented /\ ~fired
  BY <1>c, <1>1, <1>2, <1>3, <1>4, <1>5, QuietEdge
     DEF HandshakeInv, AnswerInv
<1> QED
  BY <1>a, <1>b, <1>c

(* The falling edge either accepts a command, works on one, or completes   *)
(* one; a known function code never leaves the CFU idle.                   *)
LEMMA FallingFacts ==
  ASSUME TypeOK, HandshakeInv, FallingEdge
  PROVE  /\ cur_state = "INIT" =>
              /\ ~rsp_valid
              /\ IF Presented THEN cur_state' # "INIT" /\ serving' = execute.id
                              ELSE cur_state' = "INIT" /\ UNCHANGED serving
         /\ cur_state \in ConvStates =>
              cur_state' # "INIT" /\ ~rsp_valid /\ UNCHANGED serving
         /\ cur_state \in FinalStates => cur_state' = "INIT" /\ rsp_valid
         /\ cur_state \notin FinalStates => UNCHANGED answered
         /\ cur_state \in FinalStates =>
              answered' = [id |-> serving, value |-> rsp_payload']
         /\ UNCHANGED <<cpuVars, rsp_valid>> /\ clk = "high" /\ clk' = "low"
<1>1. CfuNegEdge(cmd) /\ clk = "high" /\ clk' = "low"
  BY DEF FallingEdge
<1>2. "INIT" \notin FinalStates /\ FinalStates \cap ConvStates = {}
  BY DEF FinalStates, ConvStates
<1>3. UNCHANGED <<cpuVars, rsp_valid>>
  BY DEF FallingEdge, CfuNegEdge
<1>4. ASSUME cur_state = "INIT"
      PROVE  /\ ~rsp_valid
             /\ IF Presented THEN cur_state' # "INIT" /\ serving' = execute.id
                             ELSE cur_state' = "INIT" /\ UNCHANGED serving
  <2>1. ~rsp_valid
    BY <1>1, <1>2, <1>4 DEF HandshakeInv
  <2>2. Idle(cmd)
    BY <1>1, <1>4 DEF CfuNegEdge, FetchVal, FetchFilter, AddProducts,
       CalcCoords, ConvDone, SetZeroes, SetBaseOffsets, SetShape, SetRegisters
  <2>3. cmd.valid = cmd_valid /\ cmd.funct7 = execute.funct7
    BY DEF cmd
  <2>4. \A f \in 0 .. 8 : Decode(f) # "INIT"
    BY DEF Decode
  <2>5. Presented => execute.funct7 \in 0 .. 8
    BY DEF HandshakeInv, Presented
  <2>6. cmd_valid <=> Presented
    BY PipelineFacts
  <2>7. IF Presented THEN cur_state' # "INIT" ELSE cur_state' = "INIT"
    BY <2>2, <2>3, <2>4, <2>5, <2>6 DEF Idle
  <2> QED
    BY <1>4, <2>1, <2>6, <2>7 DEF FallingEdge, cmd_ready
<1>5. ASSUME cur_state \in ConvStates
      PROVE  cur_state' # "INIT" /\ ~rsp_valid /\ UNCHANGED serving
  <2>1. cur_state # "INIT"
    BY <1>5 DEF ConvStates
  <2>2. ~rsp_valid /\ UNCHANGED serving
    BY <1>1, <1>2, <1>5, <2>1 DEF HandshakeInv, FallingEdge, cmd_ready
  <2>3. cur_state' # "INIT"
    BY <1>1, <1>5 DEF CfuNegEdge, Idle, FetchVal, FetchFilter, AddProducts,
       CalcCoords, ConvDone, SetZeroes, SetBaseOffsets, SetShape,
       SetRegisters, ConvStates
  <2> QED
    BY <2>2, <2>3
<1>6. ASSUME cur_state \in FinalStates
      PROVE  cur_state' = "INIT" /\ rsp_valid
  BY <1>1, <1>6 DEF CfuNegEdge, Idle, FetchVal, FetchFilter, AddProducts,
     CalcCoords, ConvDone, SetZeroes, SetBaseOffsets, SetShape,
     SetRegisters, FinalStates, HandshakeInv
<1> QED
  BY <1>1, <1>3, <1>4, <1>5, <1>6 DEF FallingEdge

LEMMA HandshakeFalling == IInv /\ FallingEdge => HandshakeInv' /\ AnswerInv'
<1> SUFFICES ASSUME TypeOK, HandshakeInv, AnswerInv, FallingEdge
             PROVE  HandshakeInv' /\ AnswerInv'
  BY DEF IInv
<1>1. UNCHANGED <<cpuVars, rsp_valid>> /\ clk = "high" /\ clk' = "low"
  BY FallingFacts
<1>2. (Presented' <=> Presented) /\ (hazard' <=> hazard)
  BY <1>1 DEF Presented, hazard, cpuVars
<1>a. CASE cur_state = "INIT"
  <2>1. cur_state \notin FinalStates
    BY <1>a DEF FinalStates
  <2> QED
    BY <1>a, <1>1, <1>2, <2>1, FallingFacts
       DEF HandshakeInv, AnswerInv, cpuVars, Presented
<1>b. CASE cur_state \in ConvStates
  <2>1. cur_state # "INIT" /\ cur_state \notin FinalStates
    BY <1>b DEF ConvStates, FinalStates
  <2> QED
    BY <1>b, <1>1, <1>2, <2>1, FallingFacts DEF HandshakeInv, AnswerInv, cpuVars
<1>c. CASE cur_state \in FinalStates
  <2>1. cur_state # "INIT"
    BY <1>c DEF FinalStates
  <2>2. Presented /\ ~rValid /\ ~fired /\ ~in_flight
    BY <1>1, <1>c, <2>1 DEF HandshakeInv
  <2>3. serving = execute.id
    BY <2>1 DEF AnswerInv
  <2> QED
    BY <1>c, <1>1, <1>2, <2>1, <2>2, <2>3, FallingFacts
       DEF HandshakeInv, AnswerInv, cpuVars
<1> QED
  BY <1>a, <1>b, <1>c DEF TypeOK, CfuTypeOK, States

LEMMA HandshakeReset == Reset => HandshakeInv' /\ AnswerInv'
  BY DEF Reset, CpuReset, CfuReset, HandshakeInv, AnswerInv, Presented, hazard,
     Bubble, Plain, FinalStates

LEMMA HandshakeInit == Init => HandshakeInv /\ AnswerInv
  BY DEF Init, CfuInit, CpuInit, HandshakeInv, AnswerInv, Presented, hazard,
     Bubble, Plain, FinalStates

-----------------------------------------------------------------------------
(* The fetches *)

LEMMA FetchRising == IInv /\ RisingEdge => FetchInv'
<1> SUFFICES ASSUME TypeOK, FetchInv, RisingEdge PROVE FetchInv'
  BY DEF IInv
<1>1. /\ clk = "low" /\ clk' = "high"
      /\ UNCHANGED <<cur_state, cfg, pos, ram, matrix_vals, filter_vals>>
  BY DEF RisingEdge, PosEdge, CfuPosEdge
<1>2. cur_image_adr' = cur_image_adr /\ cur_filter_adr' = cur_filter_adr
  BY <1>1, AddressStable
<1>3. slave'.ack /\ ~slave'.err => SlaveMayAnswer /\ slave'.dat = ram.adr
  BY SlaveFacts DEF RisingEdge, TypeOK
<1> QED
  BY <1>1, <1>2, <1>3 DEF FetchInv, FetchedWords, WordOf

LEMMA FetchFalling == IInv /\ FallingEdge => FetchInv'
<1> SUFFICES ASSUME TypeOK, FetchInv, FallingEdge PROVE FetchInv'
  BY DEF IInv
<1>1. CfuNegEdge(cmd) /\ clk = "high" /\ clk' = "low" /\ UNCHANGED slave
  BY DEF FallingEdge
<1>2. BusOff => ~SlaveMayAnswer'
  <2>1. ram \in [adr : WordAdr, cyc : BOOLEAN, stb : BOOLEAN]
    BY DEF TypeOK, CfuTypeOK
  <2> QED
    BY <2>1 DEF BusOff, SlaveMayAnswer
<1>a. CASE Idle(cmd)
  <2>1. cur_state' \notin {"FETCH_FILTER", "ADD"}
    BY <1>a DEF Idle, Decode
  <2> QED
    BY <1>a, <1>1, <1>2, <2>1 DEF Idle, FetchInv, FetchedWords
<1>b. CASE FetchVal
  <2>1. /\ cur_image_adr' = cur_image_adr
        /\ ram'.adr = WordOf(cur_image_adr)
        /\ cur_state' \in {"FETCH_VAL", "FETCH_FILTER"}
        /\ cur_state' = "FETCH_FILTER" => slave.ack /\ ~slave.err
    BY <1>b, AddressStable DEF FetchVal, BusRequest
  <2>2. slave.ack /\ ~slave.err => matrix_vals' = WordOf(cur_image_adr)
    BY <1>b, <1>1 DEF FetchVal, FetchInv
  <2>3. slave.ack => ~SlaveMayAnswer'
    BY <1>1 DEF SlaveMayAnswer
  <2> QED
    BY <1>1, <2>1, <2>2, <2>3 DEF FetchInv, FetchedWords, WordOf
<1>c. CASE FetchFilter
  <2>1. /\ cur_filter_adr' = cur_filter_adr /\ cur_image_adr' = cur_image_adr
        /\ matrix_vals' = WordOf(cur_image_adr)
        /\ ram'.adr = WordOf(cur_filter_adr)
        /\ cur_state' \in {"FETCH_FILTER", "ADD"}
        /\ cur_state' = "ADD" => slave.ack /\ ~slave.err
    BY <1>c, AddressStable DEF FetchFilter, BusRequest, FetchInv
  <2>2. slave.ack /\ ~slave.err => filter_vals' = WordOf(cur_filter_adr)
    BY <1>c, <1>1 DEF FetchFilter, FetchInv
  <2> QED
    BY <1>1, <2>1, <2>2 DEF FetchInv, FetchedWords, WordOf
<1>d. CASE CalcCoords
  <2>1. cur_state' \notin {"FETCH_FILTER", "ADD"} /\ BusOff
    BY <1>d DEF CalcCoords
  <2> QED
    BY <1>1, <1>2, <2>1 DEF FetchInv, FetchedWords
<1>e. CASE AddProducts \/ ConvDone \/ SetZeroes \/ SetBaseOffsets(cmd) \/ SetShape(cmd)
  <2>1. cur_state' \in {"CALC_COORDS", "INIT"}
    BY <1>e DEF AddProducts, ConvDone, SetZeroes, SetBaseOffsets, SetShape,
       SetRegisters
  <2> QED
    BY <2>1 DEF FetchInv, FetchedWords
<1> QED
  BY <1>1, <1>a, <1>b, <1>c, <1>d, <1>e DEF CfuNegEdge

-----------------------------------------------------------------------------
(* The invariant, for programs that use only function codes the CFU knows  *)

(* IInv is inductive and holds in every reachable state. *)
THEOREM InductiveInvariant ==
  ASSUME KnownOps
  PROVE  Spec => []IInv
<1>1. Init => IInv
  <2>1. Init => FetchInv
    BY DEF Init, CfuInit, FetchInv, FetchedWords
  <2> QED
    BY <2>1, InitType, HandshakeInit DEF IInv
<1>2. ASSUME IInv, RisingEdge PROVE IInv'
  BY <1>2, KnownOps, RisingType, HandshakeRising, FetchRising DEF IInv
<1>3. ASSUME IInv, FallingEdge PROVE IInv'
  BY <1>3, FallingType, HandshakeFalling, FetchFalling DEF IInv
<1>4. ASSUME IInv, Reset PROVE IInv'
  <2>1. FetchInv'
    BY <1>4 DEF Reset, CfuReset, FetchInv, FetchedWords
  <2> QED
    BY <1>4, <2>1, ResetType, HandshakeReset DEF IInv
<1>5. ASSUME IInv, UNCHANGED vars PROVE IInv'
  <2>1. TypeOK'
    BY <1>5 DEF IInv, vars, cfuVars, cpuVars, TypeOK, CfuTypeOK, CpuTypeOK
  <2>2. HandshakeInv' /\ AnswerInv'
    BY <1>5 DEF IInv, vars, cfuVars, cpuVars, HandshakeInv, AnswerInv,
       Presented, hazard
  <2>3. FetchInv'
    BY <1>5, AddressStable DEF IInv, vars, cfuVars, FetchInv, FetchedWords,
       SlaveMayAnswer, WordOf
  <2> QED
    BY <2>1, <2>2, <2>3 DEF IInv
<1>6. IInv /\ [Next]_vars => IInv'
  BY <1>2, <1>3, <1>4, <1>5 DEF Next
<1> QED
  BY <1>1, <1>6, PTL DEF Spec

(* The CPU never refuses a response: a response that had to wait would be  *)
(* overwritten by the next one.                                            *)
THEOREM NeverRefused ==
  ASSUME KnownOps
  PROVE  Spec => []ResponseNeverRefused
<1>1. IInv => ResponseNeverRefused
  BY DEF IInv, HandshakeInv, ResponseNeverRefused, rsp_ready
<1> QED
  BY <1>1, InductiveInvariant, PTL

(* A CFU instruction reaches the memory stage with its response buffered,  *)
(* so the stall of CfuPlugin's memory stage is never taken with this CFU.  *)
THEOREM AnsweredBeforeMemory ==
  ASSUME KnownOps
  PROVE  Spec => []AnswerBeforeMemory
<1>1. IInv => AnswerBeforeMemory
  BY DEF IInv, HandshakeInv, AnswerBeforeMemory
<1> QED
  BY <1>1, InductiveInvariant, PTL

(* Every CFU instruction writes back the result the CFU computed for it.   *)
THEOREM ResultsMatch ==
  ASSUME KnownOps
  PROVE  Spec => []OwnAnswer
<1>1. IInv => OwnAnswer
  BY DEF IInv, HandshakeInv, AnswerInv, OwnAnswer, memory_rsp_payload
<1> QED
  BY <1>1, InductiveInvariant, PTL

(* No command the CFU has seen can be flushed. *)
THEOREM CommandsAreCommitted ==
  ASSUME KnownOps
  PROVE  Spec => []NoSpeculativeCommand
<1>1. IInv => NoSpeculativeCommand
  BY DEF IInv, HandshakeInv, NoSpeculativeCommand, Presented, hazard
<1> QED
  BY <1>1, InductiveInvariant, PTL

(* Every product is made of the words the counters point at, whatever the  *)
(* memory's delay and errors.                                              *)
THEOREM ProductsOfFetchedWords ==
  ASSUME KnownOps
  PROVE  Spec => []FetchedWords
<1>1. IInv => FetchedWords
  BY DEF IInv, FetchInv
<1> QED
  BY <1>1, InductiveInvariant, PTL

(* The CPU holds a command and its operands until the CFU has finished     *)
(* with it, which cfu.sv needs because it does not latch them.             *)
THEOREM OperandsHeld ==
  ASSUME KnownOps
  PROVE  Spec => CommandHeld
<1>1. ASSUME IInv, RisingEdge, cur_state # "INIT"
      PROVE  cmd.valid /\ cmd' = cmd
  <2>1. TypeOK /\ HandshakeInv
    BY <1>1 DEF IInv
  <2>2. PICK halt \in Halts, flush \in BOOLEAN, decoded \in Decoded :
          PosEdge(halt, flush, decoded)
    BY <1>1 DEF RisingEdge
  <2>3. execute' = execute /\ hold' /\ ~fired' /\ Presented
    BY <1>1, <2>1, <2>2, BusyEdge DEF HandshakeInv
  <2>4. cmd_valid
    BY <2>1, <2>3, PipelineFacts
  <2>5. cmd_valid'
    BY <2>3 DEF cmd_valid
  <2> QED
    BY <2>3, <2>4, <2>5 DEF cmd, cmd_valid
<1>2. ASSUME IInv, FallingEdge, cur_state # "INIT"
      PROVE  cmd.valid /\ cmd' = cmd
  <2>1. cmd_valid
    BY <1>2, PipelineFacts DEF IInv, HandshakeInv
  <2> QED
    BY <1>2, <2>1 DEF FallingEdge, cpuVars, cmd, cmd_valid, schedule, hazard
<1>3. IInv /\ [Next]_vars =>
        [cur_state # "INIT" /\ ~CfuReset => cmd.valid /\ cmd' = cmd]_vars
  BY <1>1, <1>2 DEF Next, Reset
<1> QED
  BY <1>3, InductiveInvariant, PTL DEF Spec, CommandHeld

-----------------------------------------------------------------------------
(* Refinement of CfuMaster *)

(* The wires carry a command in the sense of CfuMaster. *)
LEMMA OfferType == TypeOK => Offer \in Master!Offers
<1> SUFFICES ASSUME TypeOK PROVE Offer \in Master!Offers
  OBVIOUS
<1>1. /\ execute.id \in Ids /\ execute.funct7 \in 0 .. 127
      /\ execute.in0 \in Operands /\ execute.in1 \in Operands
  BY DEF TypeOK, CpuTypeOK, Instruction
<1>2. cmd_valid \in BOOLEAN
  BY DEF TypeOK, CpuTypeOK, cmd_valid, schedule
<1> QED
  BY <1>1, <1>2 DEF Offer, cmd, Master!Offers

LEMMA OfferTypeNext == TypeOK' => Offer' \in Master!Offers
<1> SUFFICES ASSUME TypeOK' PROVE Offer' \in Master!Offers
  OBVIOUS
<1>1. /\ execute'.id \in Ids /\ execute'.funct7 \in 0 .. 127
      /\ execute'.in0 \in Operands /\ execute'.in1 \in Operands
  BY DEF TypeOK, CpuTypeOK, Instruction
<1>2. cmd_valid' \in BOOLEAN
  BY DEF TypeOK, CpuTypeOK, cmd_valid, schedule
<1> QED
  BY <1>1, <1>2 DEF Offer, cmd, Master!Offers

(* A command under way is held; a response is taken together with its      *)
(* command; without a command, a buffered response is used.                *)
LEMMA MasterRising == KnownOps /\ IInv /\ RisingEdge => Master!RisingEdge
<1> SUFFICES ASSUME KnownOps, IInv, RisingEdge
             PROVE  Master!TakeResponse \/ Master!Wait
  BY DEF RisingEdge, PosEdge, Master!RisingEdge
<1>1. TypeOK /\ HandshakeInv /\ (cmd.valid <=> Presented)
  BY PipelineFacts DEF IInv, cmd
<1>2. Offer \in Master!Offers /\ Offer' \in Master!Offers
  BY <1>1, RisingType, OfferType, OfferTypeNext
<1>3. PICK halt \in Halts, flush \in BOOLEAN, decoded \in Decoded :
        PosEdge(halt, flush, decoded)
  BY DEF RisingEdge
<1>a. CASE cur_state # "INIT"
  <2>1. /\ execute' = execute /\ hold' /\ ~fired' /\ ~rValid' /\ ~hazard'
        /\ Presented /\ ~rsp_valid
    BY <1>a, <1>1, <1>3, BusyEdge DEF HandshakeInv, PosEdge
  <2>2. cmd' = cmd
    BY <1>1, <2>1 DEF cmd, cmd_valid
  <2>3. Offer' = Offer
    BY <2>1, <2>2 DEF Offer
  <2>4. Buffered' = [pending |-> FALSE]
    BY <2>1 DEF Buffered
  <2> QED
    BY <1>2, <2>1, <2>3, <2>4 DEF Master!Wait, Master!Nothing
<1>b. CASE cur_state = "INIT" /\ Presented
  <2>1. /\ rsp_valid /\ ~rValid /\ cmd_ready /\ Offer.valid /\ ~fired
    BY <1>b, <1>1, <1>3 DEF HandshakeInv, PosEdge, cmd_ready, Offer
  <2>2. /\ rValid' /\ rData' = rsp_payload
        /\ \/ execute' = execute /\ ~in_flight'
           \/ memory' = execute /\ in_flight'
    BY <1>b, <1>1, <1>3, <2>1, AnsweredEdge
  <2>3. Buffered' = Master!Answer(Offer.name, rsp_payload)
    BY <2>2 DEF Buffered, Offer, Master!Answer
  <2>4. Buffered = Master!Nothing
    BY <2>1 DEF Buffered, Master!Nothing
  <2> QED
    BY <1>2, <2>1, <2>3, <2>4 DEF Master!TakeResponse
<1>c. CASE cur_state = "INIT" /\ fired
  <2>1. /\ rValid /\ ~rsp_valid /\ ~in_flight /\ ~Offer.valid
    BY <1>c, <1>1 DEF HandshakeInv, Presented, Offer
  <2>2. /\ rValid' /\ rData' = rData
        /\ \/ execute' = execute /\ ~in_flight'
           \/ memory' = execute /\ in_flight'
    BY <1>c, <1>1, <1>3, <2>1, AnsweredEdge
  <2>3. Buffered' = Buffered
    BY <2>1, <2>2 DEF Buffered
  <2> QED
    BY <1>2, <2>1, <2>3 DEF Master!Wait
<1>d. CASE cur_state = "INIT" /\ ~Presented /\ ~fired
  <2>1. ~rsp_valid /\ ~rValid' /\ ~Offer.valid
    BY <1>d, <1>1, <1>3, QuietEdge DEF HandshakeInv, Offer
  <2>2. Buffered' = Master!Nothing
    BY <2>1 DEF Buffered, Master!Nothing
  <2> QED
    BY <1>2, <2>1, <2>2 DEF Master!Wait
<1> QED
  BY <1>a, <1>b, <1>c, <1>d

(* Nothing on the CPU's side changes on a falling edge. *)
LEMMA MasterUnchanged == UNCHANGED cpuVars => UNCHANGED <<Offer, Buffered>>
  BY DEF cpuVars, Offer, Buffered, cmd, cmd_valid, schedule, hazard

(* A reset takes the command off the wires and drops the response. *)
LEMMA MasterReset == TypeOK /\ Reset => Master!Reset
<1> SUFFICES ASSUME TypeOK, Reset PROVE Master!Reset
  OBVIOUS
<1>1. Offer' \in Master!Offers
  BY ResetType, OfferTypeNext
<1>2. ~Offer'.valid
  BY DEF Reset, CpuReset, Offer, cmd, cmd_valid, schedule, Bubble, Plain
<1>3. Buffered' = Master!Nothing
  BY DEF Reset, CpuReset, Buffered, Master!Nothing
<1> QED
  BY <1>1, <1>2, <1>3 DEF Reset, Master!Reset

(* The pipeline of VexRiscv with this CFU is a CfuMaster: every command is *)
(* given once, held, and answered with the response that belongs to it.    *)
THEOREM ImplementsMaster ==
  ASSUME KnownOps
  PROVE  Spec => MasterSpec
<1>1. Init => Master!Init
  <2> SUFFICES ASSUME Init PROVE Master!Init
    OBVIOUS
  <2>1. Offer \in Master!Offers
    BY InitType, OfferType
  <2>2. Buffered = Master!Nothing
    BY DEF Init, CpuInit, Buffered, Master!Nothing
  <2> QED
    BY <2>1, <2>2 DEF Init, Master!Init
<1>2. IInv /\ [Next]_vars => [Master!Next]_(Master!vars)
  <2>1. ASSUME IInv, RisingEdge PROVE Master!Next
    BY <2>1, KnownOps, MasterRising DEF Master!Next
  <2>2. ASSUME FallingEdge PROVE Master!Next
    BY <2>2, MasterUnchanged DEF FallingEdge, Master!FallingEdge, Master!Next
  <2>3. ASSUME IInv, Reset PROVE Master!Next
    BY <2>3, MasterReset DEF IInv, Master!Next
  <2>4. ASSUME UNCHANGED vars PROVE UNCHANGED Master!vars
    BY <2>4, MasterUnchanged
       DEF vars, cfuVars, cpuVars, Master!vars, cmd_ready
  <2> QED
    BY <2>1, <2>2, <2>3, <2>4 DEF Next
<1> QED
  BY <1>1, <1>2, InductiveInvariant, PTL DEF Spec, MasterSpec, Master!Spec
=============================================================================
