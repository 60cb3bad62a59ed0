---------------------------- MODULE MCConvLayer -----------------------------
(* Layers for the runs of ConvLayer. *)
EXTENDS ConvLayer

Pointwise(depth, offset) ==
  [batches |-> 2, input_height |-> 1, input_width |-> 2, input_depth |-> depth,
   filter_height |-> 1, filter_width |-> 1, filter_input_depth |-> depth,
   output_height |-> 1, output_width |-> 2, output_depth |-> 2,
   stride_height |-> 1, stride_width |-> 1, pad_height |-> 0, pad_width |-> 0,
   input_offset |-> offset,
   input_data |-> 64, filter_data |-> 256]

FourChannels ==
  {<<Pointwise(4, 128), [Pointwise(4, o) EXCEPT !.input_data = 128]>> :
     o \in {-127, -7, 0}}

(* Three layers of any depths. *)
ManyChannels ==
  {<<Pointwise(d[1], 128), Pointwise(d[2], 3), Pointwise(d[3], -127)>> :
     d \in [1 .. 3 -> {4, 8, 12}]}

(* 1x1 layers of any depth. *)
PointwiseLayers == FourChannels \cup ManyChannels

EightChannels == {<<Pointwise(8, 128)>>}

(* The models of both runs are among those the theorems are about. *)
ASSUME RunsAreProvedAbout == PointwiseModels /\ WORD % 512 = 0
=============================================================================
