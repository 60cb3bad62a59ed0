------------------------------- MODULE ConvCfu -------------------------------
(***************************************************************************)
(* The convolution CFU of proj/filter_preload/cfu.sv: a custom function    *)
(* unit that is programmed with the shape of a layer and then fetches      *)
(* image and filter words itself over its own Wishbone port.               *)
(*                                                                         *)
(* The design works on both clock edges.  rsp_valid is updated on the      *)
(* rising edge (CfuPosEdge), the state machine and every other register on *)
(* the falling edge (CfuNegEdge).  This module gives the two edges as      *)
(* actions; ConvSoC and ConvLayer tie them to a CPU and to the clock.      *)
(*                                                                         *)
(* Data.  The contents of the memory are symbolic: a fetched word is       *)
(* represented by the word address it was read from.  The accumulator      *)
(* rsp_payload_outputs_0 is represented by the sequence of four-lane dot   *)
(* products added to it since it was last cleared; the register holds      *)
(* their sum.  Everything that decides WHICH products are added is kept.   *)
(***************************************************************************)
EXTENDS Integers, Sequences

CONSTANT WORD      \* the number of values of a 32-bit register, 2^32

ASSUME WordAssumption == WORD \in Nat /\ WORD > 4

VARIABLES
  cur_state,       \* state of the FSM
  rsp_valid,       \* the only register clocked on the rising edge
  rsp_payload,     \* rsp_payload_outputs_0, the accumulator
  cfg,             \* registers written by the SET_* commands
  pos,             \* cur_input_depth, cur_filter_x, cur_filter_y
  ram,             \* cfu_ram_adr, cfu_ram_cyc, cfu_ram_stb
  matrix_vals,     \* last image word fetched
  filter_vals,     \* last filter word fetched
  slave            \* cfu_ram_ack, cfu_ram_err, cfu_ram_dat_miso

cfuVars == <<cur_state, rsp_valid, rsp_payload, cfg, pos, ram,
             matrix_vals, filter_vals>>

Word == 0 .. WORD - 1
WordAdr == 0 .. (WORD - 1) \div 4           \* the 30-bit cfu_ram_adr
Lanes == 0 .. 3
OffsetRange == 0 .. 511                    \* reg [8:0] InputOffset

(* 32-bit unsigned arithmetic wraps. *)
Wrap(n) == n % WORD

(* InputOffset keeps the low nine bits of the operand. *)
Low9(n) == n % 512

FinalStates == {"CONV_DONE", "SET_ZEROES", "SET_FILTER_INPUT_DEPTH",
                "SET_BASE_OFFSETS", "SET_FILTER_DIMS", "SET_IMAGE_DIMS",
                "SET_INPUT_CHANNEL_SHAPE", "SET_IMAGE_COORDS",
                "SET_IMAGE_FILTER_ADR"}

ConvStates == {"FETCH_VAL", "FETCH_FILTER", "ADD", "CALC_COORDS"}

States == {"INIT"} \cup ConvStates \cup FinalStates

Config == [InputOffset : OffsetRange,
           filter_base : Word, filter_base_offset : Word,
           filter_input_depth : Word, filter_width : Word,
           filter_height : Word,
           image_base : Word, image_base_offset : Word,
           input_channel_depth : Word, image_width : Word,
           image_height : Word,
           cur_image_x : Word, cur_image_y : Word]

Position == [depth : Word, x : Word, y : Word]

(* One four-lane multiply: the two words, the lanes selected, the offset.  *)
Product == [image : WordAdr, filter : WordAdr, lanes : SUBSET Lanes,
            offset : OffsetRange]

CfuInit ==
  /\ cur_state = "INIT"
  /\ rsp_valid = FALSE
  /\ rsp_payload = << >>
  /\ cfg = [InputOffset |-> 128,
            filter_base |-> 0, filter_base_offset |-> 1,
            filter_input_depth |-> 1, filter_width |-> 1,
            filter_height |-> 1,
            image_base |-> 0, image_base_offset |-> 1,
            input_channel_depth |-> 1, image_width |-> 1,
            image_height |-> 1,
            cur_image_x |-> 0, cur_image_y |-> 0]
  /\ pos = [depth |-> 0, x |-> 0, y |-> 0]
  /\ ram \in [adr : {0}, cyc : BOOLEAN, stb : BOOLEAN]  \* not initialised
  /\ matrix_vals = 0
  /\ filter_vals = 0

(* Fault: ready as the comment above the assignment in cfu.sv words it. *)
cmd_readyUnlessResponse == ~rsp_valid

cmd_ready == cur_state = "INIT"

-----------------------------------------------------------------------------
(* Combinational datapath *)

cur_filter_adr ==
  Wrap(cfg.filter_base
       + ((cfg.filter_base_offset + pos.y) * cfg.filter_width + pos.x)
         * cfg.filter_input_depth
       + pos.depth)

cur_image_adr ==
  Wrap(cfg.image_base
       + ((cfg.image_base_offset + cfg.cur_image_y + pos.y) * cfg.image_width
          + cfg.cur_image_x + pos.x)
         * cfg.input_channel_depth
       + pos.depth)

WordOf(adr) == adr \div 4                             \* adr[31:2]

add_select ==
  {l \in Lanes : /\ Wrap(cfg.cur_image_x + pos.x) < cfg.image_width
                 /\ pos.x < cfg.filter_width
                 /\ Wrap(pos.depth + l) < cfg.input_channel_depth}

sum_prods == [image |-> matrix_vals, filter |-> filter_vals,
              lanes |-> add_select, offset |-> cfg.InputOffset]

(* Fault: one step too many in depth. *)
DepthDoneLate == Wrap(pos.depth + 4) > cfg.input_channel_depth

DepthDone == Wrap(pos.depth + 4) >= cfg.input_channel_depth

RowDone == \/ Wrap(pos.x + 1) >= cfg.filter_width
           \/ Wrap(cfg.cur_image_x + pos.x + 1) >= cfg.image_width

ColumnDone == \/ Wrap(pos.y + 1) >= cfg.filter_height
              \/ Wrap(cfg.cur_image_y + pos.y + 1) >= cfg.image_height

(* Fault: the depth is not taken back at the end. *)
NextPositionKeepDepth ==
  IF ~DepthDone THEN [pos EXCEPT !.depth = Wrap(@ + 4)]
  ELSE IF ~RowDone THEN [pos EXCEPT !.depth = 0, !.x = Wrap(@ + 1)]
  ELSE IF ~ColumnDone THEN [depth |-> 0, x |-> 0, y |-> Wrap(pos.y + 1)]
  ELSE [pos EXCEPT !.x = 0, !.y = 0]

(* What the ADD state does to the three counters. *)
NextPosition ==
  IF ~DepthDone THEN [pos EXCEPT !.depth = Wrap(@ + 4)]
  ELSE IF ~RowDone THEN [pos EXCEPT !.depth = 0, !.x = Wrap(@ + 1)]
  ELSE IF ~ColumnDone THEN [depth |-> 0, x |-> 0, y |-> Wrap(pos.y + 1)]
  ELSE [depth |-> 0, x |-> 0, y |-> 0]

-----------------------------------------------------------------------------
(* Falling edge: one action per state.  cmd is what the CPU presents, a    *)
(* record with valid, funct7, in0 and in1.                                 *)

(* Fault: a function code is missing. *)
DecodeConvOnly(funct7) == IF funct7 = 0 THEN "FETCH_VAL" ELSE "INIT"

Decode(funct7) ==
  CASE funct7 = 0 -> "FETCH_VAL"
    [] funct7 = 1 -> "SET_ZEROES"
    [] funct7 = 2 -> "SET_FILTER_DIMS"
    [] funct7 = 3 -> "SET_IMAGE_DIMS"
    [] funct7 = 4 -> "SET_INPUT_CHANNEL_SHAPE"
    [] funct7 = 5 -> "SET_IMAGE_COORDS"
    [] funct7 = 6 -> "SET_IMAGE_FILTER_ADR"
    [] funct7 = 7 -> "SET_FILTER_INPUT_DEPTH"
    [] funct7 = 8 -> "SET_BASE_OFFSETS"
    [] OTHER      -> "INIT"

BusOff == ram' = [ram EXCEPT !.cyc = FALSE, !.stb = FALSE]

(* Fault: the byte address on the word-addressed bus. *)
BusRequestBytes(adr) == ram' = [adr |-> adr, cyc |-> TRUE, stb |-> TRUE]

BusRequest(adr) == ram' = [adr |-> WordOf(adr), cyc |-> TRUE, stb |-> TRUE]

Idle(cmd) ==
  /\ cur_state = "INIT"
  /\ cur_state' = IF cmd.valid THEN Decode(cmd.funct7) ELSE "INIT"
  /\ BusOff
  /\ UNCHANGED <<rsp_payload, cfg, pos, matrix_vals, filter_vals>>

(* Fault: an error taken for an answer. *)
FetchValOnError ==
  /\ cur_state = "FETCH_VAL"
  /\ cur_state' = IF slave.ack \/ slave.err THEN "FETCH_FILTER" ELSE "FETCH_VAL"
  /\ BusRequest(cur_image_adr)
  /\ matrix_vals' = IF slave.ack THEN slave.dat ELSE matrix_vals
  /\ UNCHANGED <<rsp_payload, cfg, pos, filter_vals>>

FetchVal ==
  /\ cur_state = "FETCH_VAL"
  /\ cur_state' = IF slave.ack /\ ~slave.err THEN "FETCH_FILTER" ELSE "FETCH_VAL"
  /\ BusRequest(cur_image_adr)
  /\ matrix_vals' = IF slave.ack THEN slave.dat ELSE matrix_vals
  /\ UNCHANGED <<rsp_payload, cfg, pos, filter_vals>>

FetchFilter ==
  /\ cur_state = "FETCH_FILTER"
  /\ cur_state' = IF slave.ack /\ ~slave.err THEN "ADD" ELSE "FETCH_FILTER"
  /\ BusRequest(cur_filter_adr)
  /\ filter_vals' = IF slave.ack THEN slave.dat ELSE filter_vals
  /\ UNCHANGED <<rsp_payload, cfg, pos, matrix_vals>>

AddProducts ==
  /\ cur_state = "ADD"
  /\ cur_state' = "CALC_COORDS"
  /\ rsp_payload' = Append(rsp_payload, sum_prods)
  /\ BusOff
  /\ pos' = NextPosition
  /\ UNCHANGED <<cfg, matrix_vals, filter_vals>>

(* The tests are made on the counters ADD has already advanced. *)
CalcCoords ==
  /\ cur_state = "CALC_COORDS"
  /\ cur_state' = IF ~DepthDone THEN "FETCH_VAL"
                  ELSE IF RowDone /\ ColumnDone THEN "CONV_DONE"
                  ELSE "CALC_COORDS"
  /\ BusOff
  /\ UNCHANGED <<rsp_payload, cfg, pos, matrix_vals, filter_vals>>

ConvDone ==
  /\ cur_state = "CONV_DONE"
  /\ cur_state' = "INIT"
  /\ BusOff
  /\ UNCHANGED <<rsp_payload, cfg, pos, matrix_vals, filter_vals>>

(* The states that write registers leave the bus outputs alone. *)
SetRegisters(state, newCfg) ==
  /\ cur_state = state
  /\ cur_state' = "INIT"
  /\ cfg' = newCfg
  /\ UNCHANGED <<ram, matrix_vals, filter_vals>>

(* Fault: the sum of the output before is kept. *)
ClearSumKeep ==
  /\ UNCHANGED rsp_payload
  /\ pos' = [pos EXCEPT !.x = 0, !.y = 0]

ClearSum ==
  /\ rsp_payload' = << >>
  /\ pos' = [pos EXCEPT !.x = 0, !.y = 0]      \* cur_input_depth is kept

KeepSum == UNCHANGED <<rsp_payload, pos>>

SetZeroes == SetRegisters("SET_ZEROES", cfg) /\ ClearSum

SetBaseOffsets(cmd) ==
  /\ SetRegisters("SET_BASE_OFFSETS",
                  [cfg EXCEPT !.image_base_offset = cmd.in0,
                              !.filter_base_offset = cmd.in1])
  /\ ClearSum

SetShape(cmd) ==
  /\ \/ SetRegisters("SET_INPUT_CHANNEL_SHAPE",
                     [cfg EXCEPT !.input_channel_depth = cmd.in0,
                                 !.InputOffset = Low9(cmd.in1)])
     \/ SetRegisters("SET_FILTER_DIMS",
                     [cfg EXCEPT !.filter_width = cmd.in0,
                                 !.filter_height = cmd.in1])
     \/ SetRegisters("SET_IMAGE_COORDS",
                     [cfg EXCEPT !.cur_image_x = cmd.in0,
                                 !.cur_image_y = cmd.in1])
     \/ SetRegisters("SET_IMAGE_DIMS",
                     [cfg EXCEPT !.image_width = cmd.in0,
                                 !.image_height = cmd.in1])
     \/ SetRegisters("SET_FILTER_INPUT_DEPTH",
                     [cfg EXCEPT !.filter_input_depth = cmd.in0,
                                 !.InputOffset = Low9(cmd.in1)])
     \/ SetRegisters("SET_IMAGE_FILTER_ADR",
                     [cfg EXCEPT !.image_base = cmd.in0,
                                 !.filter_base = cmd.in1])
  /\ KeepSum

CfuNegEdge(cmd) ==
  /\ \/ Idle(cmd)
     \/ FetchVal
     \/ FetchFilter
     \/ AddProducts
     \/ CalcCoords
     \/ ConvDone
     \/ SetZeroes
     \/ SetBaseOffsets(cmd)
     \/ SetShape(cmd)
  /\ UNCHANGED rsp_valid

-----------------------------------------------------------------------------
(* Rising edge. *)

CfuPosEdge(rsp_ready) ==
  /\ rsp_valid' = IF rsp_valid THEN ~rsp_ready ELSE cur_state \in FinalStates
  /\ UNCHANGED <<cur_state, rsp_payload, cfg, pos, ram, matrix_vals, filter_vals>>

(* Asynchronous reset.  The bus outputs, the configuration and the fetched *)
(* words have no reset value and keep what they hold.                      *)
CfuReset ==
  /\ cur_state' = "INIT"
  /\ rsp_valid' = FALSE
  /\ rsp_payload' = << >>
  /\ pos' = [depth |-> 0, x |-> 0, y |-> 0]
  /\ UNCHANGED <<cfg, ram, matrix_vals, filter_vals>>

-----------------------------------------------------------------------------
(* The memory behind the CFU's Wishbone port (external): a synchronous     *)
(* slave that answers a request for one cycle, after any delay, with the   *)
(* word at the address present on the rising edge at which it answers, or  *)
(* with an error, which may come with ack.                                 *)

SlaveInit == slave = [ack |-> FALSE, err |-> FALSE, dat |-> 0]

SlaveMayAnswer == ram.cyc /\ ram.stb /\ ~slave.ack /\ ~slave.err

SlaveAnswer == /\ SlaveMayAnswer
               /\ slave' = [ack |-> TRUE, err |-> FALSE, dat |-> ram.adr]

(* The word that comes with an error means nothing; 0 stands for it. *)
SlaveError == /\ SlaveMayAnswer
              /\ \E ack \in BOOLEAN :
                    slave' = [ack |-> ack, err |-> TRUE, dat |-> 0]

SlaveWait == slave' = [slave EXCEPT !.ack = FALSE, !.err = FALSE]

CfuTypeOK ==
  /\ cur_state \in States
  /\ rsp_valid \in BOOLEAN
  /\ rsp_payload \in Seq(Product)
  /\ cfg \in Config
  /\ pos \in Position
  /\ ram \in [adr : WordAdr, cyc : BOOLEAN, stb : BOOLEAN]
  /\ matrix_vals \in WordAdr
  /\ filter_vals \in WordAdr
  /\ slave \in [ack : BOOLEAN, err : BOOLEAN, dat : WordAdr]
=============================================================================
