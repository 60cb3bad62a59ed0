----------------------------- MODULE ConvCfuProofs -----------------------------
(***************************************************************************)
(* Lemmas about the convolution CFU alone, for every word size: the types  *)
(* of its datapath and registers on both clock edges.  The proofs about    *)
(* ConvSoC and ConvLayer, which tie the edges to a CPU, rest on them.      *)
(***************************************************************************)
EXTENDS ConvCfu, TLAPS

-----------------------------------------------------------------------------
(* The operators *)

(* 32-bit arithmetic yields a 32-bit value. *)
LEMMA WrapType == \A n \in Int : Wrap(n) \in Word
  BY WordAssumption DEF Wrap, Word

(* The word address of a byte address is a 32-bit value. *)
LEMMA WordOfType == \A n \in Word : WordOf(n) \in WordAdr
  BY WordAssumption DEF WordOf, Word, WordAdr

(* Both addresses are 32-bit values. *)
LEMMA AddressType ==
  ASSUME CfuTypeOK
  PROVE  cur_image_adr \in Word /\ cur_filter_adr \in Word
<1> USE DEF CfuTypeOK, Config, Position, Word
<1>1. /\ cfg.filter_base \in Int /\ cfg.filter_base_offset \in Int
      /\ cfg.filter_input_depth \in Int /\ cfg.filter_width \in Int
      /\ cfg.image_base \in Int /\ cfg.image_base_offset \in Int
      /\ cfg.input_channel_depth \in Int /\ cfg.image_width \in Int
      /\ cfg.cur_image_x \in Int /\ cfg.cur_image_y \in Int
  BY WordAssumption
<1>2. pos.x \in Int /\ pos.y \in Int /\ pos.depth \in Int
  BY WordAssumption
<1> HIDE DEF CfuTypeOK, Config, Position, Word
<1>3. \A a, b \in Int : a * b \in Int
  OBVIOUS
<1>4. (cfg.filter_base_offset + pos.y) * cfg.filter_width \in Int
  BY <1>1, <1>2, <1>3
<1>5. ((cfg.filter_base_offset + pos.y) * cfg.filter_width + pos.x)
        * cfg.filter_input_depth \in Int
  BY <1>1, <1>2, <1>3, <1>4
<1>6. (cfg.image_base_offset + cfg.cur_image_y + pos.y) * cfg.image_width
        \in Int
  BY <1>1, <1>2, <1>3
<1>7. ((cfg.image_base_offset + cfg.cur_image_y + pos.y) * cfg.image_width
         + cfg.cur_image_x + pos.x) * cfg.input_channel_depth \in Int
  BY <1>1, <1>2, <1>3, <1>6
<1> QED
  BY <1>1, <1>2, <1>5, <1>7, WrapType DEF cur_image_adr, cur_filter_adr

(* The products, the decoded states and the counters have their types. *)
LEMMA DatapathType ==
  ASSUME CfuTypeOK
  PROVE  /\ sum_prods \in Product
         /\ NextPosition \in Position
         /\ Append(rsp_payload, sum_prods) \in Seq(Product)
<1>1. sum_prods \in Product
  BY DEF CfuTypeOK, sum_prods, Product, Config, add_select
<1>2. pos.depth \in Word /\ pos.x \in Word /\ pos.y \in Word
  BY DEF CfuTypeOK, Position
<1>3. \A n \in Word : Wrap(n + 4) \in Word /\ Wrap(n + 1) \in Word
  BY WrapType, WordAssumption DEF Word
<1>4. 0 \in Word
  BY WordAssumption DEF Word
<1>5. NextPosition \in Position
  <2>1. pos = [depth |-> pos.depth, x |-> pos.x, y |-> pos.y]
    BY DEF CfuTypeOK, Position
  <2> QED
    BY <1>2, <1>3, <1>4, <2>1 DEF CfuTypeOK, Position, NextPosition
<1>6. Append(rsp_payload, sum_prods) \in Seq(Product)
  BY <1>1 DEF CfuTypeOK
<1> QED
  BY <1>1, <1>5, <1>6

(* The accumulator can be empty. *)
LEMMA EmptyType == << >> \in Seq(Product)
  OBVIOUS

(* InputOffset keeps nine bits of the operand. *)
LEMMA OffsetType == \A n \in Word : Low9(n) \in OffsetRange
<1>1. \A n \in Int : n % 512 \in 0 .. 511
  OBVIOUS
<1>2. \A n \in Word : n \in Int
  BY WordAssumption DEF Word
<1> QED
  BY <1>1, <1>2 DEF OffsetRange, Low9

(* Every function code leads to a state. *)
LEMMA DecodeType == \A f \in Nat : Decode(f) \in States
  BY DEF Decode, States, FinalStates, ConvStates

-----------------------------------------------------------------------------
(* The registers *)

(* What the memory drives has its type. *)
LEMMA SlaveType ==
  ASSUME CfuTypeOK, SlaveAnswer \/ SlaveError \/ SlaveWait
  PROVE  slave' \in [ack : BOOLEAN, err : BOOLEAN, dat : WordAdr]
<1>1. slave \in [ack : BOOLEAN, err : BOOLEAN, dat : WordAdr] /\ ram.adr \in WordAdr
  BY DEF CfuTypeOK
<1>2. CASE SlaveAnswer
  BY <1>1, <1>2 DEF SlaveAnswer
<1>3. CASE SlaveError
  <2>1. 0 \in WordAdr
    BY WordAssumption DEF WordAdr
  <2> QED
    BY <1>3, <2>1 DEF SlaveError
<1>4. CASE SlaveWait
  BY <1>1, <1>4 DEF SlaveWait
<1> QED
  BY <1>2, <1>3, <1>4

(* What every action of the falling edge leaves well typed. *)
LEMMA NegEdgeType ==
  ASSUME CfuTypeOK, UNCHANGED slave,
         NEW c, c.funct7 \in Nat, c.in0 \in Word, c.in1 \in Word,
         CfuNegEdge(c)
  PROVE  CfuTypeOK'
<1>1. /\ c.funct7 \in Nat
      /\ c.in0 \in Word
      /\ c.in1 \in Word
  OBVIOUS
<1>2. Low9(c.in1) \in OffsetRange
  BY <1>1, OffsetType
<1>3. 0 \in Word
  BY WordAssumption DEF Word
<1>4. ram \in [adr : WordAdr, cyc : BOOLEAN, stb : BOOLEAN]
  BY DEF CfuTypeOK
<1>5. BusOff => ram' \in [adr : WordAdr, cyc : BOOLEAN, stb : BOOLEAN]
  BY <1>4 DEF BusOff
<1>6. \A a \in Word : BusRequest(a) => ram' \in [adr : WordAdr, cyc : BOOLEAN, stb : BOOLEAN]
  BY WordOfType DEF BusRequest
<1>7. "INIT" \in States /\ ConvStates \subseteq States /\ FinalStates \subseteq States
  BY DEF States
<1>8. CfuTypeOK
  OBVIOUS
<1>a. CASE Idle(c)
  BY <1>a, <1>1, <1>5, <1>7, <1>8, DecodeType DEF Idle, CfuTypeOK, CfuNegEdge
<1>b. CASE FetchVal
  BY <1>b, <1>6, <1>7, <1>8, AddressType DEF FetchVal, CfuTypeOK, CfuNegEdge, ConvStates
<1>c. CASE FetchFilter
  BY <1>c, <1>6, <1>7, <1>8, AddressType DEF FetchFilter, CfuTypeOK, CfuNegEdge, ConvStates
<1>d. CASE AddProducts
  BY <1>d, <1>5, <1>7, <1>8, DatapathType DEF AddProducts, CfuTypeOK, CfuNegEdge, ConvStates
<1>e. CASE CalcCoords
  BY <1>e, <1>5, <1>7, <1>8 DEF CalcCoords, CfuTypeOK, CfuNegEdge, ConvStates, FinalStates
<1>f. CASE ConvDone
  BY <1>f, <1>5, <1>7, <1>8 DEF ConvDone, CfuTypeOK, CfuNegEdge
<1>9. ClearSum => rsp_payload' \in Seq(Product) /\ pos' \in Position
  <2>1. pos \in Position
    BY <1>8 DEF CfuTypeOK
  <2>2. ClearSum => pos' \in Position
    BY <1>3, <2>1 DEF ClearSum, Position
  <2> QED
    BY <2>2, EmptyType DEF ClearSum
<1>g. CASE SetZeroes
  BY <1>g, <1>9, <1>7, <1>8 DEF SetZeroes, SetRegisters, CfuTypeOK, CfuNegEdge
<1>h. CASE SetBaseOffsets(c)
  BY <1>h, <1>1, <1>9, <1>7, <1>8 DEF SetBaseOffsets, SetRegisters, CfuTypeOK, CfuNegEdge, Config
<1>i. CASE SetShape(c)
  <2>1. cfg \in Config
    BY <1>8 DEF CfuTypeOK
  <2>2. cfg' \in Config
    <3>1. /\ [cfg EXCEPT !.input_channel_depth = c.in0,
                          !.InputOffset = Low9(c.in1)] \in Config
          /\ [cfg EXCEPT !.filter_width = c.in0,
                          !.filter_height = c.in1] \in Config
          /\ [cfg EXCEPT !.cur_image_x = c.in0,
                          !.cur_image_y = c.in1] \in Config
          /\ [cfg EXCEPT !.image_width = c.in0,
                          !.image_height = c.in1] \in Config
          /\ [cfg EXCEPT !.filter_input_depth = c.in0,
                          !.InputOffset = Low9(c.in1)] \in Config
          /\ [cfg EXCEPT !.image_base = c.in0,
                          !.filter_base = c.in1] \in Config
      BY <1>1, <1>2, <2>1 DEF Config
    <3> QED
      BY <1>i, <3>1, Zenon DEF SetShape, SetRegisters
  <2>3. cur_state' = "INIT" /\ UNCHANGED <<ram, matrix_vals, filter_vals>>
    BY <1>i DEF SetShape, SetRegisters
  <2> QED
    BY <1>i, <2>2, <2>3, <1>7, <1>8 DEF SetShape, KeepSum, CfuTypeOK, CfuNegEdge
<1> QED
  BY <1>a, <1>b, <1>c, <1>d, <1>e, <1>f, <1>g, <1>h, <1>i DEF CfuNegEdge

(* A reset clears the counters and the sum. *)
LEMMA ResetTypes ==
  ASSUME CfuTypeOK, CfuReset, UNCHANGED slave
  PROVE  CfuTypeOK'
<1>1. 0 \in Word
  BY WordAssumption DEF Word
<1>2. pos' \in Position
  BY <1>1 DEF CfuReset, Position
<1>3. cur_state' \in States
  BY DEF CfuReset, States
<1> QED
  BY <1>2, <1>3, EmptyType DEF CfuReset, CfuTypeOK

(* The registers as they are after power-up. *)
LEMMA InitTypes == CfuInit /\ SlaveInit => CfuTypeOK
<1> SUFFICES ASSUME CfuInit, SlaveInit PROVE CfuTypeOK
  OBVIOUS
<1>1. 0 \in Word /\ 1 \in Word /\ 0 \in WordAdr
  BY WordAssumption DEF Word, WordAdr
<1>2. cur_state \in States /\ rsp_valid \in BOOLEAN
  BY DEF CfuInit, States
<1>3. rsp_payload \in Seq(Product)
  BY EmptyType DEF CfuInit
<1>4. cfg \in Config
  BY <1>1 DEF CfuInit, Config, OffsetRange
<1>5. pos \in Position
  BY <1>1 DEF CfuInit, Position
<1>6. ram \in [adr : WordAdr, cyc : BOOLEAN, stb : BOOLEAN]
  BY <1>1 DEF CfuInit
<1>7. matrix_vals \in WordAdr /\ filter_vals \in WordAdr
  BY <1>1 DEF CfuInit
<1>8. slave \in [ack : BOOLEAN, err : BOOLEAN, dat : WordAdr]
  BY <1>1 DEF SlaveInit
<1> QED
  BY <1>2, <1>3, <1>4, <1>5, <1>6, <1>7, <1>8 DEF CfuTypeOK

(* The rising edge updates rsp_valid and what the memory drives. *)
LEMMA PosEdgeType ==
  ASSUME CfuTypeOK, NEW ready \in BOOLEAN, CfuPosEdge(ready),
         SlaveAnswer \/ SlaveError \/ SlaveWait
  PROVE  CfuTypeOK'
<1>1. slave' \in [ack : BOOLEAN, err : BOOLEAN, dat : WordAdr]
  BY SlaveType
<1>2. rsp_valid' \in BOOLEAN
  <2>1. CASE rsp_valid
    BY <2>1 DEF CfuPosEdge
  <2>2. CASE ~rsp_valid
    BY <2>2 DEF CfuPosEdge
  <2> QED
    BY <2>1, <2>2
<1> QED
  BY <1>1, <1>2 DEF CfuPosEdge, CfuTypeOK

-----------------------------------------------------------------------------
(* The fetches *)

(* The addresses depend on the configuration and the counters only. *)
LEMMA AddressStable ==
  ASSUME UNCHANGED <<cfg, pos>>
  PROVE  cur_image_adr' = cur_image_adr /\ cur_filter_adr' = cur_filter_adr
  BY DEF cur_image_adr, cur_filter_adr

(* The memory answers a request that is present, with the word asked for.  *)
LEMMA SlaveFacts ==
  ASSUME CfuTypeOK, SlaveAnswer \/ SlaveError \/ SlaveWait,
         slave'.ack, ~slave'.err
  PROVE  SlaveMayAnswer /\ slave'.dat = ram.adr
<1>1. slave \in [ack : BOOLEAN, err : BOOLEAN, dat : WordAdr]
  BY DEF CfuTypeOK
<1>2. CASE SlaveAnswer
  BY <1>2 DEF SlaveAnswer
<1>3. CASE SlaveError
  BY <1>1, <1>3 DEF SlaveError, SlaveMayAnswer
<1>4. CASE SlaveWait
  BY <1>1, <1>4 DEF SlaveWait
<1> QED
  BY <1>2, <1>3, <1>4
=============================================================================
