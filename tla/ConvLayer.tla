------------------------------ MODULE ConvLayer ------------------------------
(***************************************************************************)
(* The convolution CFU (ConvCfu) driven by ConvPerChannel of               *)
(* proj/filter_preload/src/.../integer_ops/conv.h, over a sequence of      *)
(* layers, and the reference kernel of TensorFlow Lite it replaces.        *)
(*                                                                         *)
(* The CPU is reduced to what ConvSoC proves of it: a command is presented *)
(* and held until the response to it is taken, on the rising edge at which *)
(* the CFU is ready again; the result is the accumulator at that time.     *)
(* Between two commands the CPU may do other work for any time.            *)
(***************************************************************************)
EXTENDS ConvCfu

CONSTANTS
  Models,          \* models to run: the layers of each, in their order
  MaxResets        \* bound on the number of resets

(* The arguments of ConvPerChannel that decide what it computes. *)
Layer == [batches : Nat,
          input_height : Nat, input_width : Nat, input_depth : Nat,
          filter_height : Nat, filter_width : Nat, filter_input_depth : Nat,
          output_height : Nat, output_width : Nat, output_depth : Nat,
          stride_height : Nat, stride_width : Nat,
          pad_height : Nat, pad_width : Nat,
          input_offset : -127 .. 128, input_data : Word, filter_data : Word]

ASSUME ModelsAssumption ==
  /\ Models \subseteq Seq(Layer)
  /\ \A m \in Models : Len(m) > 0 /\ \A i \in DOMAIN m :
       /\ m[i].batches > 0 /\ m[i].output_height > 0
       /\ m[i].output_width > 0 /\ m[i].output_depth > 0
       /\ m[i].filter_input_depth > 0
       /\ m[i].input_depth % m[i].filter_input_depth = 0
  /\ MaxResets \in Nat

VARIABLES
  clk,             \* the level the clock is at
  model,           \* the layers to run
  layer,           \* index of the running layer
  op,              \* funct7 of the command to be given, or Finished
  at,              \* the loop variables batch, out_y, out_x, out_channel
  valid,           \* cmd_valid
  resets,          \* number of resets so far
  result           \* history: the last output computed, or NoResult

driverVars == <<model, layer, op, at, valid, resets, result>>
vars == <<cfuVars, slave, clk, driverVars>>

L == model[layer]

Finished == 128                          \* not a function code

FirstOutput == [batch |-> 0, y |-> 0, x |-> 0, channel |-> 0]

NoResult == [layer |-> 0, at |-> FirstOutput, value |-> << >>]

Init ==
  /\ CfuInit
  /\ SlaveInit
  /\ clk = "low"
  /\ model \in Models
  /\ layer = 1
  /\ op = 2
  /\ at = FirstOutput
  /\ valid \in BOOLEAN
  /\ resets = 0
  /\ result = NoResult

-----------------------------------------------------------------------------
(* The driver *)

in_y_origin == at.y * L.stride_height - L.pad_height
in_x_origin == at.x * L.stride_width - L.pad_width
batch_offset == at.batch * L.input_height
out_offset == at.channel * L.filter_height

(* The operands of each command, as 32-bit values. *)
Operand ==
  CASE op = 2 -> <<L.filter_width, L.filter_height>>
    [] op = 3 -> <<L.input_width, L.input_height>>
    [] op = 4 -> <<L.input_depth, Wrap(L.input_offset)>>
    [] op = 6 -> <<L.input_data, L.filter_data>>
    [] op = 7 -> <<L.filter_input_depth, Wrap(L.input_offset)>>
    [] op = 5 -> <<Wrap(in_x_origin), Wrap(in_y_origin)>>
    [] op = 8 -> <<Wrap(batch_offset), Wrap(out_offset)>>
    [] OTHER  -> <<0, 0>>

cmd == [valid |-> valid, funct7 |-> op, in0 |-> Operand[1], in1 |-> Operand[2]]

LastChannel == at.channel + 1 = L.output_depth
LastColumn == at.x + 1 = L.output_width
LastRow == at.y + 1 = L.output_height
LastBatch == at.batch + 1 = L.batches

(* The four nested loops. *)
NextOutput ==
  IF ~LastChannel THEN [at EXCEPT !.channel = @ + 1]
  ELSE IF ~LastColumn THEN [at EXCEPT !.channel = 0, !.x = @ + 1]
  ELSE IF ~LastRow THEN [at EXCEPT !.channel = 0, !.x = 0, !.y = @ + 1]
  ELSE [FirstOutput EXCEPT !.batch = at.batch + 1]

SetUp ==
  /\ op \in {2, 3, 4, 6, 7, 5, 8}
  /\ op' = CASE op = 2 -> 3 [] op = 3 -> 4 [] op = 4 -> 6 [] op = 6 -> 7
             [] op = 7 -> 5 [] op = 5 -> 8 [] op = 8 -> 0
  /\ UNCHANGED <<layer, at, result>>

StoreOutput ==
  /\ op = 0
  /\ result' = [layer |-> layer, at |-> at, value |-> rsp_payload]
  /\ IF LastChannel /\ LastColumn /\ LastRow /\ LastBatch
     THEN /\ at' = FirstOutput
          /\ IF layer = Len(model) THEN op' = Finished /\ UNCHANGED layer
                                    ELSE op' = 2 /\ layer' = layer + 1
     ELSE /\ at' = NextOutput
          /\ op' = IF LastChannel THEN 5 ELSE 8
          /\ UNCHANGED layer

(* The response is taken, and the next command follows now or later. *)
TakeResponse ==
  /\ valid /\ rsp_valid /\ cmd_ready
  /\ SetUp \/ StoreOutput
  /\ valid' \in {v \in BOOLEAN : v => op' # Finished}

Wait ==
  /\ ~(valid /\ rsp_valid /\ cmd_ready)
  /\ valid' \in {v \in BOOLEAN : (valid => v) /\ (v => op # Finished)}
  /\ UNCHANGED <<layer, op, at, result>>

RisingEdge ==
  /\ clk = "low"
  /\ clk' = "high"
  /\ TakeResponse \/ Wait
  /\ CfuPosEdge(TRUE)
  /\ UNCHANGED <<model, resets>>
  /\ SlaveAnswer \/ SlaveError \/ SlaveWait

FallingEdge ==
  /\ clk = "high"
  /\ clk' = "low"
  /\ CfuNegEdge(cmd)
  /\ UNCHANGED <<slave, driverVars>>

(* A reset of the system: the program starts again, the CFU keeps its      *)
(* configuration and what it drives on the bus.                            *)
Reset ==
  /\ resets < MaxResets
  /\ resets' = resets + 1
  /\ CfuReset
  /\ layer' = 1
  /\ op' = 2
  /\ at' = FirstOutput
  /\ valid' = FALSE
  /\ result' = NoResult
  /\ UNCHANGED <<model, clk, slave>>

Next == RisingEdge \/ FallingEdge \/ Reset

Spec == Init /\ [][Next]_vars

(* The clock runs, the memory answers in the end and the program goes on. *)
MemoryAnswers == RisingEdge /\ SlaveAnswer
ProgramRuns == RisingEdge /\ valid'

FairSpec == /\ Spec
            /\ WF_vars(FallingEdge)
            /\ WF_vars(RisingEdge)
            /\ SF_vars(MemoryAnswers)
            /\ SF_vars(ProgramRuns)
-----------------------------------------------------------------------------
(* What the reference kernel sums: the image byte and the filter byte of   *)
(* every term.                                                             *)

Offset(dim1, dim2, dim3, i0, i1, i2, i3) ==
  ((i0 * dim1 + i1) * dim2 + i2) * dim3 + i3

Reference(l, o) ==
  LET in_y(fy) == o.y * l.stride_height - l.pad_height + fy
      in_x(fx) == o.x * l.stride_width - l.pad_width + fx
      inside == {p \in (0 .. l.filter_height - 1) \X (0 .. l.filter_width - 1) :
                   /\ in_y(p[1]) \in 0 .. l.input_height - 1
                   /\ in_x(p[2]) \in 0 .. l.input_width - 1}
      groups == l.input_depth \div l.filter_input_depth
      group == o.channel \div (l.output_depth \div groups)
  IN {<<l.input_data + Offset(l.input_height, l.input_width, l.input_depth,
                              o.batch, in_y(p[1]), in_x(p[2]),
                              ch + group * l.filter_input_depth),
        l.filter_data + Offset(l.filter_height, l.filter_width,
                               l.filter_input_depth,
                               o.channel, p[1], p[2], ch)>> :
        p \in inside, ch \in 0 .. l.filter_input_depth - 1}

(* What the accumulator summed: the selected lanes of its products. *)
Terms(product) == {<<4 * product.image + i, 4 * product.filter + i>> :
                     i \in product.lanes}

Signed9(n) == IF n < 256 THEN n ELSE n - 512

(* Every term of the reference kernel is added once, and nothing else. *)
IsReference(r) ==
  LET terms(i) == Terms(r.value[i])
      l == model[r.layer]
  IN /\ UNION {terms(i) : i \in DOMAIN r.value} = Reference(l, r.at)
     /\ \A i, j \in DOMAIN r.value : i # j => terms(i) \cap terms(j) = {}
     /\ \A i \in DOMAIN r.value : Signed9(r.value[i].offset) = l.input_offset

-----------------------------------------------------------------------------
(* Every output the layer stores is the reference kernel's sum, in the     *)
(* words of conv.h: it is a "convolution reference kernel".                *)
ExactConvolution == result # NoResult => IsReference(result)

(* So it is for layers of four channels, the first output included. *)
FourChannelsOnly == \A l \in DOMAIN model : model[l].input_depth = 4

ExactOnFourChannels == FourChannelsOnly => ExactConvolution

(* The same for every output of a layer but its first, for 1x1 filters and *)
(* a depth that is a multiple of 4: the counter cur_input_depth, which no  *)
(* command clears, makes each convolution start with the chunk at which    *)
(* the one before it stopped and end just before that chunk.               *)
SteadyConvolution ==
  result # NoResult /\ result.at # FirstOutput => IsReference(result)

(* The CFU reads no word outside the image and the filters.  (After a      *)
(* deeper layer the first convolution of a layer does.)                    *)
ReadsInTensors ==
  FourChannelsOnly /\ ram.cyc /\ ram.stb /\ op = 0 /\ cur_state \in ConvStates =>
    \/ 4 * ram.adr \in L.input_data ..
         L.input_data + L.batches * L.input_height * L.input_width * L.input_depth - 1
    \/ 4 * ram.adr \in L.filter_data ..
         L.filter_data + L.output_depth * L.filter_height * L.filter_width
                           * L.filter_input_depth - 1

(* The model's layers come to an end: every command of every layer is      *)
(* answered, so the CPU "will stall as needed until the result is          *)
(* produced" and no longer.                                                *)
LayersFinish == <>(op = Finished)
-----------------------------------------------------------------------------
(* What the theorems need. *)

(* A 1x1 layer without padding, in groups of one: whole words of channels, *)
(* output positions inside the image, both tensors word-aligned and below  *)
(* the end of the address space.                                           *)
PointwiseLayer(l) ==
  /\ l.filter_height = 1 /\ l.filter_width = 1
  /\ l.pad_height = 0 /\ l.pad_width = 0
  /\ l.filter_input_depth = l.input_depth
  /\ l.input_depth % 4 = 0
  /\ (l.output_height - 1) * l.stride_height < l.input_height
  /\ (l.output_width - 1) * l.stride_width < l.input_width
  /\ l.input_data % 4 = 0 /\ l.filter_data % 4 = 0
  /\ l.input_data + l.batches * l.input_height * l.input_width * l.input_depth < WORD
  /\ l.filter_data + l.output_depth * l.input_depth < WORD

PointwiseModels == \A m \in Models : \A i \in DOMAIN m : PointwiseLayer(m[i])

DriverTypeOK ==
  /\ clk \in {"low", "high"}
  /\ model \in Models
  /\ layer \in DOMAIN model
  /\ op \in {2, 3, 4, 6, 7, 5, 8, 0, Finished}
  /\ at \in [batch : 0 .. L.batches - 1, y : 0 .. L.output_height - 1,
             x : 0 .. L.output_width - 1, channel : 0 .. L.output_depth - 1]
  /\ valid \in BOOLEAN

(* Where the CFU can be for the command presented, on each clock level.    *)
StatesOf(f) == IF f = 0 THEN ConvStates \cup {"CONV_DONE"} ELSE {Decode(f)}

HandshakeInv ==
  /\ cur_state # "INIT" => valid /\ cur_state \in StatesOf(op)
  /\ rsp_valid => valid
  /\ valid => op # Finished
  /\ clk = "low" /\ rsp_valid => cur_state = "INIT"
  /\ clk = "high" => (rsp_valid <=> cur_state \in FinalStates)

(* Command f of this layer, or of this output, has been executed.          *)
Executed(f) == op = f /\ rsp_valid /\ cur_state = "INIT"

Given(f, later) == Executed(f) \/ op \in later

ConfigInv ==
  /\ cfg.filter_width = 1 /\ cfg.filter_height = 1
  /\ Given(3, {4, 6, 7, 5, 8, 0}) => cfg.image_width = L.input_width
  /\ Given(4, {6, 7, 5, 8, 0}) => /\ cfg.input_channel_depth = L.input_depth
                                  /\ cfg.InputOffset = Low9(Wrap(L.input_offset))
  /\ Given(6, {7, 5, 8, 0}) => /\ cfg.image_base = L.input_data
                               /\ cfg.filter_base = L.filter_data
  /\ Given(7, {5, 8, 0}) => cfg.filter_input_depth = L.input_depth
  /\ Given(5, {8, 0}) => /\ cfg.cur_image_x = in_x_origin
                         /\ cfg.cur_image_y = in_y_origin
  /\ Given(8, {0}) => /\ cfg.image_base_offset = batch_offset
                      /\ cfg.filter_base_offset = out_offset

(* The convolution of this output has started, or its result is there.     *)
Started == op = 0 /\ (cur_state # "INIT" \/ rsp_valid)

Fetching == cur_state \in {"FETCH_VAL", "FETCH_FILTER", "ADD"}

(* Not the first output of a layer that may follow a deeper one.           *)
Steady == at # FirstOutput \/ FourChannelsOnly

(* Every convolution leaves the depth counter at the layer's last chunk.   *)
DepthInv ==
  /\ pos.x = 0 /\ pos.y = 0
  /\ pos.depth % 4 = 0 /\ pos.depth + 4 < WORD
  /\ Started /\ ~Fetching => pos.depth + 4 <= L.input_depth
  /\ Started /\ cur_state \notin ConvStates => pos.depth + 4 = L.input_depth
  /\ Steady /\ ~Started => pos.depth + 4 = L.input_depth

(* The chunk of channels product i is made of: the last one first.         *)
Chunk(l, i) == IF i = 1 THEN l.input_depth - 4 ELSE 4 * (i - 2)

ImageByte(l, o) ==
  l.input_data + Offset(l.input_height, l.input_width, l.input_depth,
                        o.batch, o.y * l.stride_height, o.x * l.stride_width, 0)

FilterByte(l, o) == l.filter_data + o.channel * l.input_depth

PartialSum(l, o, n) ==
  [i \in 1 .. n |-> [image |-> WordOf(ImageByte(l, o) + Chunk(l, i)),
                     filter |-> WordOf(FilterByte(l, o) + Chunk(l, i)),
                     lanes |-> Lanes,
                     offset |-> Low9(Wrap(l.input_offset))]]

SumInv ==
  LET n == Len(rsp_payload)
  IN /\ Executed(8) \/ (op = 0 /\ ~Started) => n = 0
     /\ Started /\ Steady =>
          /\ rsp_payload = PartialSum(L, at, n)
          /\ Fetching => /\ pos.depth = Chunk(L, n + 1)
                         /\ n > 0 => pos.depth + 4 < L.input_depth
          /\ ~Fetching => n > 0 /\ pos.depth = 4 * (n - 1)

BusAddress == ram.cyc /\ ram.stb => ram.adr \in {WordOf(cur_image_adr), WordOf(cur_filter_adr)}

FetchInv ==
  /\ cur_state = "FETCH_VAL" =>
       /\ clk = "low" /\ SlaveMayAnswer => ram.adr = WordOf(cur_image_adr)
       /\ clk = "high" /\ slave.ack /\ ~slave.err => slave.dat = WordOf(cur_image_adr)
  /\ cur_state \in {"FETCH_FILTER", "ADD"} => matrix_vals = WordOf(cur_image_adr)
  /\ cur_state = "FETCH_FILTER" =>
       /\ clk = "low" /\ SlaveMayAnswer => ram.adr = WordOf(cur_filter_adr)
       /\ clk = "high" /\ slave.ack /\ ~slave.err => slave.dat = WordOf(cur_filter_adr)
  /\ cur_state = "ADD" => filter_vals = WordOf(cur_filter_adr)
  /\ cur_state = "CALC_COORDS" => ~(ram.cyc /\ ram.stb)
  /\ Fetching => BusAddress

IInv == /\ CfuTypeOK
        /\ DriverTypeOK
        /\ HandshakeInv
        /\ ConfigInv
        /\ DepthInv
        /\ SumInv
        /\ FetchInv
        /\ SteadyConvolution
        /\ ExactOnFourChannels
=============================================================================
