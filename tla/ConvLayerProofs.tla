---------------------------- MODULE ConvLayerProofs ----------------------------
(***************************************************************************)
(* Proofs about ConvLayer for every model made of 1x1 layers               *)
(* (PointwiseModels), every shape of these layers that fits the address    *)
(* space, every delay and error of the memory, and reset at any time:      *)
(* every output but the first of a layer is the reference kernel's sum, of *)
(* a layer of four channels the first one too, and then no word outside    *)
(* the tensors is read.                                                    *)
(***************************************************************************)
EXTENDS ConvLayer, ConvCfuProofs

-----------------------------------------------------------------------------
(* Arithmetic *)

(* Products of naturals are naturals and grow with their factors. *)
LEMMA Products ==
  /\ \A a, b \in Nat : a * b \in Nat
  /\ \A a, b, c \in Nat : a <= b => a * c <= b * c
  /\ \A a, b \in Nat : b > 0 => a <= a * b
<1>1. \A a, b \in Nat : a * b \in Nat
  OBVIOUS
<1>2. ASSUME NEW a \in Nat, NEW b \in Nat, NEW c \in Nat, a <= b
      PROVE  a * c <= b * c
  <2>1. (b - a) * c >= 0
    BY <1>2
  <2> QED
    BY <2>1
<1>3. ASSUME NEW a \in Nat, NEW b \in Nat, b > 0
      PROVE  a <= a * b
  <2>1. a * (b - 1) >= 0
    BY <1>3
  <2> QED
    BY <2>1
<1> QED
  BY <1>1, <1>2, <1>3

(* A digit above a digit: the bound of row-major addresses. *)
LEMMA Radix ==
  ASSUME NEW A \in Nat, NEW B \in Nat, NEW a \in 0 .. A - 1, NEW b \in 0 .. B - 1
  PROVE  a * B + b \in 0 .. A * B - 1
<1>1. a + 1 <= A /\ a \in Nat /\ b \in Nat
  OBVIOUS
<1>2. (a + 1) * B <= A * B
  BY <1>1, Products
<1>3. (a + 1) * B = a * B + B
  BY <1>1
<1> QED
  BY <1>1, <1>2, <1>3, Products

(* A multiple of a multiple of four is one. *)
LEMMA FourTimes == \A a, d \in Nat : d % 4 = 0 => (a * d) % 4 = 0
<1> SUFFICES ASSUME NEW a \in Nat, NEW d \in Nat, d % 4 = 0
             PROVE  (a * d) % 4 = 0
  OBVIOUS
<1>1. PICK k \in Nat : d = 4 * k
  <2>1. d = 4 * (d \div 4) /\ d \div 4 \in Nat
    OBVIOUS
  <2> QED
    BY <2>1
<1>2. a * d = 4 * (a * k) /\ a * k \in Nat
  BY <1>1
<1>3. \A n \in Nat : (4 * n) % 4 = 0
  OBVIOUS
<1> QED
  BY <1>2, <1>3

-----------------------------------------------------------------------------
(* The tensors *)

Outputs(l) == [batch : 0 .. l.batches - 1, y : 0 .. l.output_height - 1,
               x : 0 .. l.output_width - 1, channel : 0 .. l.output_depth - 1]

(* What ModelsAssumption and PointwiseModels say of one layer. *)
ShapeOK(l) ==
  /\ l \in Layer /\ PointwiseLayer(l)
  /\ l.batches > 0 /\ l.output_height > 0 /\ l.output_width > 0
  /\ l.output_depth > 0 /\ l.input_depth > 0

(* The operands of every command of a layer are 32-bit values. *)
LEMMA OperandFacts ==
  ASSUME NEW l, ShapeOK(l), NEW o \in Outputs(l)
  PROVE  /\ l.input_depth \in Word /\ l.input_width \in Word
         /\ l.input_height \in Word
         /\ l.input_data \in Word /\ l.filter_data \in Word
         /\ o.y * l.stride_height \in 0 .. l.input_height - 1
         /\ o.x * l.stride_width \in 0 .. l.input_width - 1
         /\ o.batch * l.input_height \in Word
         /\ o.channel \in Word
<1> DEFINE rows == l.batches * l.input_height
           places == rows * l.input_width
           bytes == places * l.input_depth
<1>1. /\ l.batches \in Nat /\ l.input_height \in Nat /\ l.input_width \in Nat
      /\ l.input_depth \in Nat /\ l.output_height \in Nat
      /\ l.output_width \in Nat /\ l.output_depth \in Nat
      /\ l.stride_height \in Nat /\ l.stride_width \in Nat
      /\ l.input_data \in Word /\ l.filter_data \in Word
  BY DEF ShapeOK, Layer
<1>2. Word = 0 .. WORD - 1 /\ WORD \in Nat /\ l.input_data \in Nat /\ l.filter_data \in Nat
  BY <1>1, WordAssumption DEF Word
<1>3. /\ o.batch \in Nat /\ o.batch < l.batches
      /\ o.y \in Nat /\ o.y <= l.output_height - 1
      /\ o.x \in Nat /\ o.x <= l.output_width - 1
      /\ o.channel \in Nat /\ o.channel < l.output_depth
      /\ l.output_height - 1 \in Nat /\ l.output_width - 1 \in Nat
  BY <1>1 DEF Outputs, ShapeOK
<1>4. o.y * l.stride_height \in 0 .. l.input_height - 1
  <2>1. o.y * l.stride_height \in Nat
    BY <1>1, <1>3, Products
  <2>2. o.y * l.stride_height <= (l.output_height - 1) * l.stride_height
    BY <1>1, <1>3, Products
  <2>3. (l.output_height - 1) * l.stride_height \in Nat
    BY <1>1, <1>3, Products
  <2> QED
    BY <1>1, <2>1, <2>2, <2>3 DEF ShapeOK, PointwiseLayer
<1>5. o.x * l.stride_width \in 0 .. l.input_width - 1
  <2>1. o.x * l.stride_width \in Nat
    BY <1>1, <1>3, Products
  <2>2. o.x * l.stride_width <= (l.output_width - 1) * l.stride_width
    BY <1>1, <1>3, Products
  <2>3. (l.output_width - 1) * l.stride_width \in Nat
    BY <1>1, <1>3, Products
  <2> QED
    BY <1>1, <2>1, <2>2, <2>3 DEF ShapeOK, PointwiseLayer
<1>6. l.input_height > 0 /\ l.input_width > 0
  BY <1>1, <1>4, <1>5
<1>7. rows \in Nat /\ places \in Nat /\ bytes \in Nat
  BY <1>1, Products
<1>8. l.input_height <= rows /\ l.batches <= rows /\ rows > 0
  <2>1. l.input_height * l.batches = rows
    BY <1>1
  <2> QED
    BY <1>1, <1>6, <1>7, <2>1, Products DEF ShapeOK
<1>9. rows <= places /\ l.input_width <= places /\ places > 0
  <2>1. l.input_width * rows = places
    BY <1>1, <1>7
  <2> QED
    BY <1>1, <1>6, <1>7, <1>8, <2>1, Products
<1>10. places <= bytes /\ l.input_depth <= bytes
  <2>1. l.input_depth * places = bytes
    BY <1>1, <1>7
  <2> QED
    BY <1>1, <1>7, <1>9, <2>1, Products DEF ShapeOK
<1>11. l.input_data + bytes < WORD
  BY DEF ShapeOK, PointwiseLayer
<1>12. o.batch * l.input_height \in 0 .. rows
  BY <1>1, <1>3, <1>7, Products
<1>13. o.channel \in Word
  <2>1. l.output_depth * l.input_depth \in Nat
    BY <1>1, Products
  <2>2. l.output_depth <= l.output_depth * l.input_depth
    BY <1>1, Products DEF ShapeOK
  <2>3. l.output_depth * l.input_depth < WORD
    BY <1>2, <2>1 DEF ShapeOK, PointwiseLayer
  <2> QED
    BY <1>1, <1>2, <1>3, <2>1, <2>2, <2>3
<1> HIDE DEF rows, places, bytes
<1>14. bytes < WORD /\ places < WORD /\ rows < WORD
  BY <1>2, <1>7, <1>9, <1>10, <1>11
<1>15. /\ l.input_depth \in Word /\ l.input_width \in Word
       /\ l.input_height \in Word
  BY <1>1, <1>2, <1>7, <1>8, <1>9, <1>10, <1>14
<1>16. o.batch * l.input_height \in Word
  BY <1>2, <1>7, <1>12, <1>14
<1> QED
  BY <1>1, <1>4, <1>5, <1>13, <1>15, <1>16

(* The bytes of an output are D bytes of the tensors, word-aligned.        *)
LEMMA ByteFacts ==
  ASSUME NEW l, ShapeOK(l), NEW o \in Outputs(l)
  PROVE  /\ ImageByte(l, o) \in Nat /\ ImageByte(l, o) % 4 = 0
         /\ l.input_data <= ImageByte(l, o)
         /\ ImageByte(l, o) + l.input_depth
              <= l.input_data + l.batches * l.input_height * l.input_width * l.input_depth
         /\ ImageByte(l, o) + l.input_depth < WORD
         /\ FilterByte(l, o) \in Nat /\ FilterByte(l, o) % 4 = 0
         /\ l.filter_data <= FilterByte(l, o)
         /\ FilterByte(l, o) + l.input_depth
              <= l.filter_data + l.output_depth * l.input_depth
         /\ FilterByte(l, o) + l.input_depth < WORD
<1> DEFINE d == l.input_depth
           row == o.batch * l.input_height + o.y * l.stride_height
           rows == l.batches * l.input_height
           place == row * l.input_width + o.x * l.stride_width
           places == rows * l.input_width
           bytes == l.batches * l.input_height * l.input_width * l.input_depth
           offset == o.channel * d
           filters == l.output_depth * l.input_depth
<1>1. /\ l.batches \in Nat /\ l.input_height \in Nat /\ l.input_width \in Nat
      /\ d \in Nat /\ d > 0 /\ d % 4 = 0 /\ l.output_depth \in Nat
      /\ l.input_data \in Nat /\ l.filter_data \in Nat
      /\ l.input_data % 4 = 0 /\ l.filter_data % 4 = 0
      /\ WORD \in Nat
      /\ o.batch \in 0 .. l.batches - 1 /\ o.channel \in 0 .. l.output_depth - 1
  BY WordAssumption DEF ShapeOK, Layer, PointwiseLayer, Word, Outputs
<1>2. /\ o.y * l.stride_height \in 0 .. l.input_height - 1
      /\ o.x * l.stride_width \in 0 .. l.input_width - 1
  BY OperandFacts
<1>3. rows \in Nat /\ places \in Nat /\ places * d \in Nat
  BY <1>1, Products
<1>4. row \in 0 .. rows - 1
  BY <1>1, <1>2, Radix
<1>5. place \in 0 .. places - 1
  <2> HIDE DEF row, rows
  <2> QED
    BY <1>1, <1>2, <1>3, <1>4, Radix
<1>6. ImageByte(l, o) = l.input_data + place * d
  <2>1. place \in Nat /\ place * d \in Nat
    BY <1>1, <1>5, Products
  <2>2. ImageByte(l, o) = l.input_data + (place * d + 0)
    BY DEF ImageByte, Offset
  <2> HIDE DEF place
  <2> QED
    BY <1>1, <2>1, <2>2
<1>7. l.input_data + places * d < WORD
  BY DEF ShapeOK, PointwiseLayer
<1>8. FilterByte(l, o) = l.filter_data + offset
  BY DEF FilterByte
<1>9. l.filter_data + filters < WORD
  BY DEF ShapeOK, PointwiseLayer
<1>10. places * d = bytes /\ l.output_depth * d = filters
  OBVIOUS
<1> HIDE DEF place, places, bytes, filters, offset
<1>11. /\ place * d \in Nat /\ (place * d) % 4 = 0
       /\ place * d + d <= places * d
  <2>1. place \in Nat /\ place + 1 <= places /\ place + 1 \in Nat
    BY <1>3, <1>5
  <2>2. (place + 1) * d <= places * d
    BY <1>1, <1>3, <2>1, Products
  <2>3. (place + 1) * d = place * d + d
    BY <1>1, <2>1
  <2> QED
    BY <1>1, <2>1, <2>2, <2>3, FourTimes, Products
<1>12. /\ offset \in Nat /\ offset % 4 = 0
       /\ offset + d <= filters
       /\ filters \in Nat
  <2>1. /\ o.channel \in Nat /\ o.channel + 1 <= l.output_depth
        /\ o.channel + 1 \in Nat
    BY <1>1
  <2>2. (o.channel + 1) * d <= l.output_depth * d
    BY <1>1, <2>1, Products
  <2>3. (o.channel + 1) * d = offset + d
    BY <1>1, <2>1 DEF offset
  <2> QED
    BY <1>1, <1>10, <2>1, <2>2, <2>3, FourTimes, Products DEF offset
<1>13. \A base, a, size \in Nat :
          base % 4 = 0 /\ a % 4 = 0 /\ a + d <= size /\ base + size < WORD =>
            /\ base + a \in Nat /\ (base + a) % 4 = 0
            /\ base <= base + a
            /\ base + a + d <= base + size /\ base + a + d < WORD
  BY <1>1
<1>14. /\ ImageByte(l, o) \in Nat /\ ImageByte(l, o) % 4 = 0
       /\ l.input_data <= ImageByte(l, o)
       /\ ImageByte(l, o) + d <= l.input_data + bytes
       /\ ImageByte(l, o) + d < WORD
  BY <1>1, <1>3, <1>6, <1>7, <1>10, <1>11, <1>13
<1>15. /\ FilterByte(l, o) \in Nat /\ FilterByte(l, o) % 4 = 0
       /\ l.filter_data <= FilterByte(l, o)
       /\ FilterByte(l, o) + d <= l.filter_data + filters
       /\ FilterByte(l, o) + d < WORD
  BY <1>1, <1>8, <1>9, <1>12, <1>13
<1> QED
  BY <1>14, <1>15 DEF bytes, filters

-----------------------------------------------------------------------------
(* The shape of the running layer *)

(* The hypotheses on the models say of every layer of one that its shape   *)
(* is right; the word size is 2^32 or another multiple of 2^9.             *)
LEMMA LayerShape ==
  ASSUME PointwiseModels, model \in Models, NEW i \in DOMAIN model
  PROVE  ShapeOK(model[i])
<1>1. model \in Seq(Layer) /\ model[i] \in Layer
  BY ModelsAssumption
<1>2. PointwiseLayer(model[i])
  BY DEF PointwiseModels
<1>3. /\ model[i].batches > 0 /\ model[i].output_height > 0
      /\ model[i].output_width > 0 /\ model[i].output_depth > 0
      /\ model[i].filter_input_depth > 0
  BY ModelsAssumption
<1> QED
  BY <1>1, <1>2, <1>3 DEF ShapeOK, PointwiseLayer

(* What the configuration is when a convolution is asked for. *)
LEMMA ConvConfig ==
  ASSUME ConfigInv, op = 0
  PROVE  /\ cfg.filter_width = 1 /\ cfg.filter_height = 1
         /\ cfg.image_width = L.input_width
         /\ cfg.input_channel_depth = L.input_depth
         /\ cfg.InputOffset = Low9(Wrap(L.input_offset))
         /\ cfg.image_base = L.input_data
         /\ cfg.filter_base = L.filter_data
         /\ cfg.filter_input_depth = L.input_depth
         /\ cfg.cur_image_x = in_x_origin /\ cfg.cur_image_y = in_y_origin
         /\ cfg.image_base_offset = batch_offset
         /\ cfg.filter_base_offset = out_offset
  BY DEF ConfigInv, Given

(* Without padding and with a 1x1 filter the origins are the position. *)
LEMMA Origins ==
  ASSUME ShapeOK(L), at \in Outputs(L)
  PROVE  /\ in_x_origin = at.x * L.stride_width
         /\ in_y_origin = at.y * L.stride_height
         /\ out_offset = at.channel
         /\ batch_offset = at.batch * L.input_height
<1>1. at.x * L.stride_width \in Int /\ at.y * L.stride_height \in Int
  BY OperandFacts
<1>2. L.pad_height = 0 /\ L.pad_width = 0 /\ L.filter_height = 1
  BY DEF ShapeOK, PointwiseLayer
<1>3. at.channel \in Int
  BY OperandFacts, WordAssumption DEF Word
<1> QED
  BY <1>1, <1>2, <1>3 DEF in_x_origin, in_y_origin, out_offset, batch_offset

(* The counters point at a chunk of the output's own bytes.                *)
LEMMA Addresses ==
  ASSUME ShapeOK(L), at \in Outputs(L), ConfigInv, op = 0,
         pos.x = 0, pos.y = 0, pos.depth \in Nat, pos.depth < L.input_depth
  PROVE  /\ cur_image_adr = ImageByte(L, at) + pos.depth
         /\ cur_filter_adr = FilterByte(L, at) + pos.depth
<1> DEFINE b == at.batch * L.input_height
           y == at.y * L.stride_height
           x == at.x * L.stride_width
           w == L.input_width
           d == L.input_depth
<1>1. /\ b \in Int /\ y \in Int /\ x \in Int /\ w \in Int /\ d \in Int
      /\ L.input_data \in Int /\ L.filter_data \in Int /\ at.channel \in Int
  BY OperandFacts, WordAssumption DEF Word
<1>2. \A n \in 0 .. WORD - 1 : Wrap(n) = n
  BY WordAssumption DEF Wrap
<1>3. ImageByte(L, at) + pos.depth \in 0 .. WORD - 1
  BY <1>1, ByteFacts, WordAssumption
<1>4. FilterByte(L, at) + pos.depth \in 0 .. WORD - 1
  BY <1>1, ByteFacts, WordAssumption
<1>5. ImageByte(L, at) = L.input_data + (((b + y) * w + x) * d + 0)
  BY DEF ImageByte, Offset
<1>6. cur_image_adr = Wrap(L.input_data + ((b + y + 0) * w + x + 0) * d + pos.depth)
  BY ConvConfig, Origins DEF cur_image_adr
<1>7. cur_filter_adr = Wrap(L.filter_data + ((at.channel + 0) * 1 + 0) * d + pos.depth)
  BY ConvConfig, Origins DEF cur_filter_adr
<1> HIDE DEF b, y, x, w, d
<1>8. (b + y + 0) * w + x + 0 = (b + y) * w + x
  BY <1>1
<1>9. ((b + y) * w + x) * d \in Int
  <2>1. \A m, n \in Int : m * n \in Int
    OBVIOUS
  <2>2. (b + y) * w + x \in Int
    BY <1>1, <2>1
  <2> QED
    BY <1>1, <2>1, <2>2
<1>10. cur_image_adr = Wrap(ImageByte(L, at) + pos.depth)
  <2>1. L.input_data + ((b + y + 0) * w + x + 0) * d + pos.depth
          = ImageByte(L, at) + pos.depth
    BY <1>1, <1>5, <1>8, <1>9
  <2> QED
    BY <1>6, <2>1
<1>11. cur_filter_adr = Wrap(FilterByte(L, at) + pos.depth)
  <2>1. (at.channel + 0) * 1 + 0 = at.channel
    BY <1>1
  <2> QED
    BY <1>7, <2>1 DEF FilterByte, d
<1> QED
  BY <1>2, <1>3, <1>4, <1>10, <1>11

-----------------------------------------------------------------------------
(* The sum of a whole convolution *)

(* The chunks are the depth cut into fours, each met once. *)
LEMMA Chunks ==
  ASSUME NEW l, NEW n \in Nat \ {0}, l.input_depth = 4 * n
  PROVE  /\ \A i \in 1 .. n : /\ Chunk(l, i) \in Nat /\ Chunk(l, i) % 4 = 0
                              /\ Chunk(l, i) + 4 <= l.input_depth
         /\ \A i, j \in 1 .. n :
              i # j => \/ Chunk(l, i) + 4 <= Chunk(l, j)
                       \/ Chunk(l, j) + 4 <= Chunk(l, i)
         /\ \A c \in 0 .. l.input_depth - 1 :
              \E i \in 1 .. n, k \in Lanes : c = Chunk(l, i) + k
<1>1. \A i \in 1 .. n : Chunk(l, i) = 4 * (IF i = 1 THEN n - 1 ELSE i - 2)
  BY DEF Chunk
<1>2. ASSUME NEW i \in 1 .. n
      PROVE  /\ Chunk(l, i) \in Nat /\ Chunk(l, i) % 4 = 0
             /\ Chunk(l, i) + 4 <= l.input_depth
  BY DEF Chunk
<1>3. ASSUME NEW i \in 1 .. n, NEW j \in 1 .. n, i # j
      PROVE  \/ Chunk(l, i) + 4 <= Chunk(l, j)
             \/ Chunk(l, j) + 4 <= Chunk(l, i)
  BY <1>3 DEF Chunk
<1>4. ASSUME NEW c \in 0 .. l.input_depth - 1
      PROVE  \E i \in 1 .. n, k \in Lanes : c = Chunk(l, i) + k
  <2> DEFINE q == c \div 4
             i == IF q = n - 1 THEN 1 ELSE q + 2
  <2>1. c = 4 * q + (c % 4) /\ c % 4 \in Lanes /\ q \in 0 .. n - 1
    BY DEF Lanes
  <2>2. i \in 1 .. n /\ Chunk(l, i) = 4 * q
    BY <2>1 DEF Chunk
  <2> HIDE DEF i, q
  <2> QED
    BY <2>1, <2>2
<1> QED
  BY <1>2, <1>3, <1>4

(* A word-aligned byte is at the start of its word. *)
LEMMA Aligned == \A a, c \in Nat : a % 4 = 0 /\ c % 4 = 0 => 4 * WordOf(a + c) = a + c
  BY DEF WordOf

(* The reference sums the channels of one place with one filter. *)
LEMMA PointwiseReference ==
  ASSUME NEW l, ShapeOK(l), NEW o \in Outputs(l)
  PROVE  Reference(l, o) = {<<ImageByte(l, o) + c, FilterByte(l, o) + c>> :
                              c \in 0 .. l.input_depth - 1}
<1> DEFINE in_y(fy) == o.y * l.stride_height - l.pad_height + fy
           in_x(fx) == o.x * l.stride_width - l.pad_width + fx
           inside == {p \in (0 .. l.filter_height - 1) \X (0 .. l.filter_width - 1) :
                        /\ in_y(p[1]) \in 0 .. l.input_height - 1
                        /\ in_x(p[2]) \in 0 .. l.input_width - 1}
           groups == l.input_depth \div l.filter_input_depth
           group == o.channel \div (l.output_depth \div groups)
           term(p, ch) ==
             <<l.input_data + Offset(l.input_height, l.input_width, l.input_depth,
                                     o.batch, in_y(p[1]), in_x(p[2]),
                                     ch + group * l.filter_input_depth),
               l.filter_data + Offset(l.filter_height, l.filter_width,
                                      l.filter_input_depth,
                                      o.channel, p[1], p[2], ch)>>
<1>1. /\ l.filter_height = 1 /\ l.filter_width = 1
      /\ l.pad_height = 0 /\ l.pad_width = 0
      /\ l.filter_input_depth = l.input_depth
      /\ l.input_depth \in Nat \ {0} /\ l.output_depth \in Nat \ {0}
      /\ o.channel \in 0 .. l.output_depth - 1
      /\ l.input_data \in Int /\ l.filter_data \in Int
  BY WordAssumption DEF ShapeOK, PointwiseLayer, Layer, Outputs, Word
<1>2. /\ o.y * l.stride_height \in 0 .. l.input_height - 1
      /\ o.x * l.stride_width \in 0 .. l.input_width - 1
  BY OperandFacts
<1>3. Reference(l, o) = {term(p, ch) : p \in inside,
                                       ch \in 0 .. l.filter_input_depth - 1}
  BY DEF Reference
<1>4. in_y(0) = o.y * l.stride_height /\ in_x(0) = o.x * l.stride_width
  BY <1>1, <1>2
<1>5. inside = {<<0, 0>>}
  BY <1>1, <1>2, <1>4
<1>6. groups = 1
  BY <1>1
<1>7. l.output_depth \div groups = l.output_depth
  BY <1>1, <1>6
<1>8. group = 0
  BY <1>1, <1>7
<1>9. ASSUME NEW ch \in 0 .. l.input_depth - 1
      PROVE  term(<<0, 0>>, ch) = <<ImageByte(l, o) + ch, FilterByte(l, o) + ch>>
  <2> DEFINE place == (o.batch * l.input_height + o.y * l.stride_height)
                        * l.input_width + o.x * l.stride_width
  <2>1. ch + group * l.filter_input_depth = ch
    BY <1>1, <1>8
  <2>2. term(<<0, 0>>, ch)[1] = l.input_data + (place * l.input_depth + ch)
    BY <1>4, <2>1 DEF Offset
  <2>3. ImageByte(l, o) = l.input_data + (place * l.input_depth + 0)
    BY DEF ImageByte, Offset
  <2>4. term(<<0, 0>>, ch)[2]
          = l.filter_data + (((o.channel * 1 + 0) * 1 + 0) * l.input_depth + ch)
    BY <1>1 DEF Offset
  <2>5. FilterByte(l, o) = l.filter_data + o.channel * l.input_depth
    BY DEF FilterByte
  <2>6. place * l.input_depth \in Int /\ o.channel * l.input_depth \in Int
    <3>1. \A m, n \in Int : m * n \in Int /\ m + n \in Int
      OBVIOUS
    <3>2. o.batch * l.input_height \in Int /\ l.input_width \in Int
      BY OperandFacts, WordAssumption DEF Word
    <3>3. (o.batch * l.input_height + o.y * l.stride_height) \in Int
      BY <1>2, <3>1, <3>2
    <3>4. place \in Int
      BY <1>2, <3>1, <3>2, <3>3
    <3> HIDE DEF place
    <3> QED
      BY <1>1, <3>1, <3>4
  <2>7. (o.channel * 1 + 0) * 1 + 0 = o.channel
    BY <1>1
  <2> HIDE DEF place
  <2>8. l.input_data + (place * l.input_depth + ch) = ImageByte(l, o) + ch
    BY <1>1, <2>3, <2>6
  <2>9. l.filter_data + (((o.channel * 1 + 0) * 1 + 0) * l.input_depth + ch)
          = FilterByte(l, o) + ch
    BY <1>1, <2>5, <2>6, <2>7
  <2> QED
    BY <2>2, <2>4, <2>8, <2>9
<1> HIDE DEF inside, term
<1> QED
  BY <1>1, <1>3, <1>5, <1>9

(* Nine bits are enough for the offset of a layer. *)
LEMMA SignedOffset ==
  ASSUME WORD % 512 = 0, NEW n \in -127 .. 128
  PROVE  Signed9(Low9(Wrap(n))) = n
<1> DEFINE k == WORD \div 512
<1>1. k \in Nat /\ WORD = 512 * k /\ k > 0
  BY WordAssumption
<1> HIDE DEF k
<1>2. CASE n >= 0
  <2>1. Wrap(n) = n
    BY <1>1, <1>2 DEF Wrap
  <2> QED
    BY <1>2, <2>1 DEF Low9, Signed9
<1>3. CASE n < 0
  <2>1. Wrap(n) = 512 * k + n
    BY <1>1, <1>3 DEF Wrap
  <2>2. Low9(Wrap(n)) = 512 + n
    <3>1. 512 * k + n = 512 * (k - 1) + (512 + n) /\ 512 + n \in 0 .. 511
      BY <1>1, <1>3
    <3> QED
      BY <1>1, <2>1, <3>1 DEF Low9
  <2> QED
    BY <1>3, <2>2 DEF Signed9
<1> QED
  BY <1>2, <1>3

(* The products of a whole convolution are the reference kernel's sum.     *)
LEMMA WholeSum ==
  ASSUME WORD % 512 = 0, NEW i \in DOMAIN model, ShapeOK(model[i]),
         NEW o \in Outputs(model[i]),
         NEW n \in Nat, 4 * n = model[i].input_depth,
         NEW v, v = PartialSum(model[i], o, n)
  PROVE  IsReference([layer |-> i, at |-> o, value |-> v])
<1> DEFINE l == model[i]
           I == ImageByte(l, o)
           F == FilterByte(l, o)
           terms(p) == Terms(v[p])
<1>1. /\ n \in Nat \ {0} /\ l.input_depth = 4 * n
      /\ I \in Nat /\ I % 4 = 0 /\ F \in Nat /\ F % 4 = 0
      /\ l.input_offset \in -127 .. 128
  BY ByteFacts DEF ShapeOK, Layer
<1>2. /\ DOMAIN v = 1 .. n
      /\ \A p \in 1 .. n :
           v[p] = [image |-> WordOf(I + Chunk(l, p)), filter |-> WordOf(F + Chunk(l, p)),
                   lanes |-> Lanes, offset |-> Low9(Wrap(l.input_offset))]
  BY DEF PartialSum
<1> HIDE DEF l, I, F
<1>3. /\ \A p \in 1 .. n : /\ Chunk(l, p) \in Nat /\ Chunk(l, p) % 4 = 0
                           /\ Chunk(l, p) + 4 <= l.input_depth
      /\ \A p, q \in 1 .. n :
           p # q => \/ Chunk(l, p) + 4 <= Chunk(l, q)
                    \/ Chunk(l, q) + 4 <= Chunk(l, p)
      /\ \A c \in 0 .. l.input_depth - 1 :
           \E p \in 1 .. n, k \in Lanes : c = Chunk(l, p) + k
  BY <1>1, Chunks
<1>4. ASSUME NEW p \in 1 .. n
      PROVE  terms(p) = {<<I + Chunk(l, p) + k, F + Chunk(l, p) + k>> : k \in Lanes}
  <2>1. Chunk(l, p) \in Nat /\ Chunk(l, p) % 4 = 0
    BY <1>3
  <2>2. v[p] = [image |-> WordOf(I + Chunk(l, p)), filter |-> WordOf(F + Chunk(l, p)),
                lanes |-> Lanes, offset |-> Low9(Wrap(l.input_offset))]
    BY <1>2
  <2>3. /\ 4 * WordOf(I + Chunk(l, p)) = I + Chunk(l, p)
        /\ 4 * WordOf(F + Chunk(l, p)) = F + Chunk(l, p)
    BY <1>1, <2>1, Aligned
  <2>4. /\ v[p].image = WordOf(I + Chunk(l, p))
        /\ v[p].filter = WordOf(F + Chunk(l, p))
        /\ v[p].lanes = Lanes
    BY <2>2
  <2> QED
    BY <2>3, <2>4 DEF Terms
<1>5. Reference(l, o) = {<<I + c, F + c>> : c \in 0 .. l.input_depth - 1}
  BY PointwiseReference DEF l, I, F
<1> HIDE DEF terms
<1>6. UNION {terms(p) : p \in 1 .. n} = Reference(l, o)
  <2>1. ASSUME NEW p \in 1 .. n, NEW k \in Lanes
        PROVE  <<I + Chunk(l, p) + k, F + Chunk(l, p) + k>> \in Reference(l, o)
    <3> DEFINE c == Chunk(l, p)
    <3>1. c \in Nat /\ c + 4 <= l.input_depth /\ k \in 0 .. 3
      BY <1>3 DEF Lanes
    <3>2. c + k \in 0 .. l.input_depth - 1
      BY <1>1, <3>1
    <3>3. I + c + k = I + (c + k) /\ F + c + k = F + (c + k)
      <4> HIDE DEF c
      <4> QED
        BY <1>1, <3>1
    <3> QED
      BY <1>5, <3>2, <3>3
  <2>2. ASSUME NEW c \in 0 .. l.input_depth - 1
        PROVE  \E p \in 1 .. n : <<I + c, F + c>> \in terms(p)
    <3>1. PICK p \in 1 .. n, k \in Lanes : c = Chunk(l, p) + k
      BY <1>3
    <3>2. /\ I + Chunk(l, p) + k = I + c
          /\ F + Chunk(l, p) + k = F + c
      BY <1>1, <1>3, <3>1 DEF Lanes
    <3> QED
      BY <1>4, <3>2
  <2>3. \A p \in 1 .. n : terms(p) \subseteq Reference(l, o)
    BY <1>4, <2>1
  <2>4. Reference(l, o) \subseteq UNION {terms(p) : p \in 1 .. n}
    BY <1>5, <2>2
  <2> QED
    BY <2>3, <2>4
<1>7. ASSUME NEW p \in 1 .. n, NEW q \in 1 .. n, p # q
      PROVE  terms(p) \cap terms(q) = {}
  <2>1. SUFFICES ASSUME NEW j \in Lanes, NEW k \in Lanes,
                        I + Chunk(l, p) + j = I + Chunk(l, q) + k
                 PROVE  FALSE
    BY <1>4
  <2>2. /\ Chunk(l, p) \in Nat /\ Chunk(l, q) \in Nat
        /\ \/ Chunk(l, p) + 4 <= Chunk(l, q)
           \/ Chunk(l, q) + 4 <= Chunk(l, p)
    BY <1>3, <1>7
  <2>3. j \in 0 .. 3 /\ k \in 0 .. 3
    BY DEF Lanes
  <2> QED
    BY <1>1, <2>1, <2>2, <2>3
<1>8. \A p \in 1 .. n : Signed9(v[p].offset) = l.input_offset
  <2>1. \A p \in 1 .. n : v[p].offset = Low9(Wrap(l.input_offset))
    BY <1>2
  <2>2. Signed9(Low9(Wrap(l.input_offset))) = l.input_offset
    BY <1>1, SignedOffset
  <2> QED
    BY <2>1, <2>2
<1> QED
  BY <1>2, <1>6, <1>7, <1>8 DEF IsReference, terms, l

-----------------------------------------------------------------------------
(* What the edges do *)

(* The running layer has a right shape and the position is one of its      *)
(* outputs.                                                                *)
LEMMA Running ==
  ASSUME PointwiseModels, DriverTypeOK
  PROVE  ShapeOK(L) /\ at \in Outputs(L)
  BY LayerShape DEF DriverTypeOK, L, Outputs

(* The state tells which command is being worked on. *)
LEMMA StateOp ==
  ASSUME DriverTypeOK, HandshakeInv
  PROVE  /\ cur_state \in ConvStates \cup {"CONV_DONE"} => op = 0
         /\ cur_state # "SET_ZEROES"
         /\ cur_state = "SET_FILTER_DIMS" => op = 2
         /\ cur_state = "SET_IMAGE_DIMS" => op = 3
         /\ cur_state = "SET_INPUT_CHANNEL_SHAPE" => op = 4
         /\ cur_state = "SET_IMAGE_COORDS" => op = 5
         /\ cur_state = "SET_IMAGE_FILTER_ADR" => op = 6
         /\ cur_state = "SET_FILTER_INPUT_DEPTH" => op = 7
         /\ cur_state = "SET_BASE_OFFSETS" => op = 8
<1>1. op \in {2, 3, 4, 6, 7, 5, 8, 0, Finished}
  BY DEF DriverTypeOK
<1>2. cur_state # "INIT" => op # Finished /\ cur_state \in StatesOf(op)
  BY DEF HandshakeInv
<1>3. ASSUME cur_state # "INIT", op # 0
      PROVE  cur_state = Decode(op) /\ op \in {2, 3, 4, 6, 7, 5, 8}
  BY <1>1, <1>2, <1>3 DEF StatesOf
<1>4. ASSUME cur_state # "INIT", op = 0
      PROVE  cur_state \in ConvStates \cup {"CONV_DONE"}
  BY <1>2, <1>4 DEF StatesOf
<1> QED
  BY <1>3, <1>4 DEF Decode, ConvStates

(* On a rising edge either the response to the command is taken, the CFU   *)
(* being idle, or the driver stays where it is.                            *)
LEMMA RisingFacts ==
  ASSUME DriverTypeOK, HandshakeInv, RisingEdge
  PROVE  /\ clk = "low" /\ clk' = "high"
         /\ UNCHANGED <<cur_state, rsp_payload, cfg, pos, ram, matrix_vals,
                        filter_vals, model>>
         /\ \/ /\ Executed(op) /\ ~rsp_valid' /\ cur_state = "INIT"
               /\ SetUp \/ StoreOutput
               /\ valid' => op' # Finished
            \/ /\ ~rsp_valid
               /\ rsp_valid' <=> cur_state \in FinalStates
               /\ UNCHANGED <<layer, op, at, result>>
               /\ valid => valid'
               /\ valid' => op # Finished
<1>1. /\ clk = "low" /\ clk' = "high" /\ UNCHANGED model
      /\ CfuPosEdge(TRUE)
  BY DEF RisingEdge
<1>2. CASE TakeResponse
  BY <1>1, <1>2 DEF TakeResponse, CfuPosEdge, Executed, cmd_ready
<1>3. CASE Wait
  <2>1. ~rsp_valid
    BY <1>1, <1>3 DEF Wait, HandshakeInv, cmd_ready
  <2> QED
    BY <1>1, <1>3, <2>1 DEF Wait, CfuPosEdge
<1> QED
  BY <1>2, <1>3 DEF RisingEdge

(* A falling edge leaves the driver alone. *)
LEMMA FallingFacts ==
  ASSUME FallingEdge
  PROVE  /\ clk = "high" /\ clk' = "low"
         /\ UNCHANGED <<rsp_valid, slave, model, layer, op, at, valid, result>>
         /\ CfuNegEdge(cmd)
         /\ L' = L /\ Steady' = Steady
  BY DEF FallingEdge, CfuNegEdge, driverVars, L, Steady, FourChannelsOnly

(* The position of the next output of the same layer is in range. *)
LEMMA NextOutputType ==
  ASSUME PointwiseModels, DriverTypeOK,
         ~(LastChannel /\ LastColumn /\ LastRow /\ LastBatch)
  PROVE  NextOutput \in Outputs(L)
<1>1. /\ L.batches \in Nat \ {0} /\ L.output_height \in Nat \ {0}
      /\ L.output_width \in Nat \ {0} /\ L.output_depth \in Nat \ {0}
  BY Running DEF ShapeOK, Layer
<1>2. /\ at \in Outputs(L)
      /\ at.batch \in 0 .. L.batches - 1 /\ at.y \in 0 .. L.output_height - 1
      /\ at.x \in 0 .. L.output_width - 1 /\ at.channel \in 0 .. L.output_depth - 1
  BY Running DEF Outputs
<1>3. CASE ~LastChannel
  <2>1. at.channel + 1 \in 0 .. L.output_depth - 1
    BY <1>1, <1>2, <1>3 DEF LastChannel
  <2> QED
    BY <1>2, <1>3, <2>1 DEF NextOutput, Outputs
<1>4. CASE LastChannel /\ ~LastColumn
  <2>1. at.x + 1 \in 0 .. L.output_width - 1 /\ 0 \in 0 .. L.output_depth - 1
    BY <1>1, <1>2, <1>4 DEF LastColumn
  <2> QED
    BY <1>2, <1>4, <2>1 DEF NextOutput, Outputs
<1>5. CASE LastChannel /\ LastColumn /\ ~LastRow
  <2>1. /\ at.y + 1 \in 0 .. L.output_height - 1
        /\ 0 \in 0 .. L.output_depth - 1 /\ 0 \in 0 .. L.output_width - 1
    BY <1>1, <1>2, <1>5 DEF LastRow
  <2> QED
    BY <1>2, <1>5, <2>1 DEF NextOutput, Outputs
<1>6. CASE LastChannel /\ LastColumn /\ LastRow
  <2>1. /\ at.batch + 1 \in 0 .. L.batches - 1
        /\ 0 \in 0 .. L.output_depth - 1 /\ 0 \in 0 .. L.output_width - 1
        /\ 0 \in 0 .. L.output_height - 1
    BY <1>1, <1>2, <1>6 DEF LastBatch
  <2> QED
    BY <1>6, <2>1 DEF NextOutput, Outputs, FirstOutput
<1> QED
  BY <1>3, <1>4, <1>5, <1>6

(* The first output is one of every layer. *)
LEMMA FirstOutputType ==
  ASSUME PointwiseModels, NEW m \in Models, NEW i \in DOMAIN m
  PROVE  FirstOutput \in Outputs(m[i])
<1>1. m[i] \in Layer /\ m[i].batches > 0 /\ m[i].output_height > 0
      /\ m[i].output_width > 0 /\ m[i].output_depth > 0
  BY ModelsAssumption
<1> QED
  BY <1>1 DEF FirstOutput, Outputs, Layer

-----------------------------------------------------------------------------
(* The driver and the handshake *)

(* The operands are 32-bit values, whatever the command. *)
LEMMA CmdType ==
  ASSUME PointwiseModels, DriverTypeOK
  PROVE  cmd.funct7 \in Nat /\ cmd.in0 \in Word /\ cmd.in1 \in Word
<1>1. /\ L.input_depth \in Word /\ L.input_width \in Word
      /\ L.input_height \in Word
      /\ L.input_data \in Word /\ L.filter_data \in Word
  BY Running, OperandFacts
<1>2. /\ L.filter_width = 1 /\ L.filter_height = 1
      /\ L.filter_input_depth = L.input_depth
      /\ L.input_offset \in Int
  BY Running DEF ShapeOK, PointwiseLayer, Layer
<1>3. in_x_origin \in Int /\ in_y_origin \in Int /\ batch_offset \in Int /\ out_offset \in Int
  BY Running, Origins, OperandFacts, WordAssumption DEF Word
<1>4. 0 \in Word /\ 1 \in Word
  BY WordAssumption DEF Word
<1>5. /\ Wrap(L.input_offset) \in Word
      /\ Wrap(in_x_origin) \in Word /\ Wrap(in_y_origin) \in Word
      /\ Wrap(batch_offset) \in Word /\ Wrap(out_offset) \in Word
  BY <1>2, <1>3, WrapType
<1>6. Operand[1] \in Word /\ Operand[2] \in Word
  BY <1>1, <1>2, <1>4, <1>5 DEF Operand, DriverTypeOK, Finished
<1>7. op \in Nat
  BY DEF DriverTypeOK, Finished
<1> QED
  BY <1>6, <1>7 DEF cmd

LEMMA DriverRising ==
  ASSUME PointwiseModels, IInv, RisingEdge
  PROVE  DriverTypeOK'
<1> USE DEF IInv
<1>1. DriverTypeOK /\ HandshakeInv
  OBVIOUS
<1>2. clk' = "high" /\ model' = model /\ model \in Models
      /\ valid' \in BOOLEAN /\ layer \in DOMAIN model
  BY DEF RisingEdge, TakeResponse, Wait, DriverTypeOK
<1>3. Outputs(L)' = Outputs(L') /\ at \in Outputs(L)
  BY <1>1, Running DEF Outputs
<1>4. SUFFICES /\ layer' \in DOMAIN model
               /\ op' \in {2, 3, 4, 6, 7, 5, 8, 0, Finished}
               /\ at' \in Outputs(model[layer'])
  BY <1>2 DEF DriverTypeOK, Outputs, L
<1>5. CASE SetUp
  BY <1>2, <1>3, <1>5 DEF SetUp, DriverTypeOK, L
<1>6. CASE StoreOutput
  <2>1. CASE ~(LastChannel /\ LastColumn /\ LastRow /\ LastBatch)
    BY <1>2, <1>1, <1>6, <2>1, NextOutputType DEF StoreOutput, L
  <2>2. CASE LastChannel /\ LastColumn /\ LastRow /\ LastBatch
    <3>1. layer' \in DOMAIN model
      <4>1. model \in Seq(Layer) /\ DOMAIN model = 1 .. Len(model)
            /\ Len(model) \in Nat
        BY <1>2, ModelsAssumption
      <4> QED
        BY <1>2, <1>6, <2>2, <4>1 DEF StoreOutput
    <3> QED
      BY <1>2, <1>6, <2>2, <3>1, FirstOutputType DEF StoreOutput, L
  <2> QED
    BY <2>1, <2>2
<1>7. CASE UNCHANGED <<layer, op, at, result>>
  BY <1>2, <1>3, <1>7 DEF DriverTypeOK, L
<1> QED
  BY <1>1, <1>5, <1>6, <1>7, RisingFacts

LEMMA HandshakeRising ==
  ASSUME IInv, RisingEdge
  PROVE  HandshakeInv'
<1>1. DriverTypeOK /\ HandshakeInv
  BY DEF IInv
<1>2. "INIT" \notin FinalStates
  BY DEF FinalStates
<1>3. /\ clk = "low" /\ clk' = "high" /\ cur_state' = cur_state
  BY <1>1, RisingFacts
<1>4. CASE /\ Executed(op) /\ ~rsp_valid' /\ cur_state = "INIT"
           /\ valid' => op' # Finished
  BY <1>2, <1>3, <1>4 DEF HandshakeInv
<1>5. CASE /\ ~rsp_valid
           /\ rsp_valid' <=> cur_state \in FinalStates
           /\ op' = op
           /\ valid => valid'
           /\ valid' => op # Finished
  BY <1>1, <1>2, <1>3, <1>5 DEF HandshakeInv, StatesOf
<1> QED
  BY <1>1, <1>4, <1>5, RisingFacts

(* Every state of the CFU but the idle one is one of the command's. *)
LEMMA HandshakeFalling ==
  ASSUME IInv, FallingEdge
  PROVE  HandshakeInv'
<1>1. DriverTypeOK /\ HandshakeInv /\ CfuTypeOK
  BY DEF IInv
<1>2. /\ clk = "high" /\ clk' = "low"
      /\ UNCHANGED <<rsp_valid, op, valid>>
      /\ CfuNegEdge(cmd)
  BY FallingFacts
<1>3. "INIT" \notin FinalStates /\ FinalStates \cap ConvStates = {}
  BY DEF FinalStates, ConvStates
<1>4. CASE Idle(cmd)
  <2>1. ~rsp_valid
    BY <1>1, <1>2, <1>3, <1>4 DEF HandshakeInv, Idle
  <2>2. valid => op \in {2, 3, 4, 6, 7, 5, 8, 0} /\ cur_state' = Decode(op)
    BY <1>1, <1>4 DEF Idle, cmd, HandshakeInv, DriverTypeOK
  <2>3. valid => cur_state' \in StatesOf(op)
    BY <2>2 DEF StatesOf, Decode, ConvStates
  <2>4. ~valid => cur_state' = "INIT"
    BY <1>4 DEF Idle, cmd
  <2> QED
    BY <1>1, <1>2, <2>1, <2>3, <2>4 DEF HandshakeInv, StatesOf
<1>5. CASE FetchVal \/ FetchFilter \/ AddProducts \/ CalcCoords
  <2>1. cur_state \in ConvStates /\ cur_state' \in ConvStates \cup {"CONV_DONE"}
    BY <1>5 DEF FetchVal, FetchFilter, AddProducts, CalcCoords, ConvStates
  <2>2. op = 0 /\ valid /\ ~rsp_valid
    BY <1>1, <1>2, <1>3, <2>1, StateOp DEF HandshakeInv, ConvStates
  <2> QED
    BY <1>1, <1>2, <2>1, <2>2 DEF HandshakeInv, StatesOf
<1>6. CASE ConvDone \/ SetZeroes \/ SetBaseOffsets(cmd) \/ SetShape(cmd)
  <2>1. cur_state \in FinalStates /\ cur_state' = "INIT"
    BY <1>6 DEF ConvDone, SetZeroes, SetBaseOffsets, SetShape, SetRegisters,
       FinalStates
  <2> QED
    BY <1>1, <1>2, <2>1 DEF HandshakeInv, FinalStates
<1> QED
  BY <1>2, <1>4, <1>5, <1>6 DEF CfuNegEdge

-----------------------------------------------------------------------------
(* The configuration *)

(* Commands come in one order, and going on to the next leaves those given *)
(* before it in force; an output of the same row keeps its coordinates.    *)
LEMMA ConfigRising ==
  ASSUME PointwiseModels, IInv, RisingEdge
  PROVE  ConfigInv'
<1>1. DriverTypeOK /\ HandshakeInv /\ ConfigInv
  BY DEF IInv
<1>2. UNCHANGED <<cfg, model, cur_state>>
  BY <1>1, RisingFacts
<1>3. CASE /\ ~rsp_valid
           /\ rsp_valid' <=> cur_state \in FinalStates
           /\ UNCHANGED <<layer, op, at, result>>
  <2>1. ~Executed(op) /\ ~Executed(op)'
    BY <1>2, <1>3 DEF Executed, FinalStates
  <2>2. L' = L /\ in_x_origin' = in_x_origin /\ in_y_origin' = in_y_origin
        /\ batch_offset' = batch_offset /\ out_offset' = out_offset
    BY <1>2, <1>3 DEF L, in_x_origin, in_y_origin, batch_offset, out_offset
  <2> QED
    BY <1>1, <1>2, <1>3, <2>1, <2>2 DEF ConfigInv, Given, Executed
<1>4. CASE Executed(op) /\ ~rsp_valid' /\ SetUp
  <2>1. L' = L /\ in_x_origin' = in_x_origin /\ in_y_origin' = in_y_origin
        /\ batch_offset' = batch_offset /\ out_offset' = out_offset
    BY <1>2, <1>4 DEF SetUp, L, in_x_origin, in_y_origin, batch_offset,
       out_offset
  <2>2. /\ Given(3, {4, 6, 7, 5, 8, 0})' => Given(3, {4, 6, 7, 5, 8, 0})
        /\ Given(4, {6, 7, 5, 8, 0})' => Given(4, {6, 7, 5, 8, 0})
        /\ Given(6, {7, 5, 8, 0})' => Given(6, {7, 5, 8, 0})
        /\ Given(7, {5, 8, 0})' => Given(7, {5, 8, 0})
        /\ Given(5, {8, 0})' => Given(5, {8, 0})
        /\ Given(8, {0})' => Given(8, {0})
    BY <1>4 DEF SetUp, Given, Executed
  <2> QED
    BY <1>1, <1>2, <2>1, <2>2 DEF ConfigInv
<1>5. CASE Executed(op) /\ ~rsp_valid' /\ StoreOutput
  <2>1. op = 0 /\ ~rsp_valid'
    BY <1>5 DEF StoreOutput
  <2>2. CASE op' \in {2, Finished}
    BY <1>1, <1>2, <1>5, <2>2 DEF ConfigInv, Given, Executed, Finished
  <2>3. CASE op' = 5 /\ layer' = layer
    BY <1>1, <1>2, <1>5, <2>1, <2>3 DEF ConfigInv, Given, Executed, L
  <2>4. CASE op' = 8 /\ layer' = layer /\ at' = [at EXCEPT !.channel = @ + 1]
    <3>1. at \in Outputs(L)
      BY <1>1, Running
    <3>2. in_x_origin' = in_x_origin /\ in_y_origin' = in_y_origin /\ L' = L
      BY <1>2, <2>4, <3>1 DEF in_x_origin, in_y_origin, L, Outputs
    <3> QED
      BY <1>1, <1>2, <1>5, <2>1, <2>4, <3>2 DEF ConfigInv, Given, Executed
  <2> QED
    BY <1>5, <2>2, <2>3, <2>4 DEF StoreOutput, NextOutput
<1> QED
  BY <1>1, <1>3, <1>4, <1>5, RisingFacts

(* Each command writes the registers of the layer's own shape. *)
LEMMA ConfigFalling ==
  ASSUME PointwiseModels, IInv, FallingEdge
  PROVE  ConfigInv'
<1>1. CfuTypeOK /\ DriverTypeOK /\ HandshakeInv /\ ConfigInv
  BY DEF IInv
<1>2. /\ clk = "high" /\ clk' = "low" /\ CfuNegEdge(cmd)
      /\ UNCHANGED <<rsp_valid, model, layer, op, at>>
      /\ L' = L /\ in_x_origin' = in_x_origin /\ in_y_origin' = in_y_origin
      /\ batch_offset' = batch_offset /\ out_offset' = out_offset
  BY FallingFacts DEF in_x_origin, in_y_origin, batch_offset, out_offset
<1>3. cfg \in Config
  BY <1>1 DEF CfuTypeOK
<1>4. ASSUME UNCHANGED cfg, op = 0 \/ (cur_state = "INIT" /\ ~rsp_valid)
      PROVE  ConfigInv'
  BY <1>1, <1>2, <1>4 DEF ConfigInv, Given, Executed
<1>5. CASE Idle(cmd)
  <2>1. ~rsp_valid
    BY <1>1, <1>2, <1>5 DEF HandshakeInv, Idle, FinalStates
  <2> QED
    BY <1>4, <1>5, <2>1 DEF Idle
<1>6. CASE FetchVal \/ FetchFilter \/ AddProducts \/ CalcCoords \/ ConvDone
  <2>1. op = 0
    BY <1>1, <1>6, StateOp DEF FetchVal, FetchFilter, AddProducts, CalcCoords,
       ConvDone, ConvStates
  <2> QED
    BY <1>4, <1>6, <2>1 DEF FetchVal, FetchFilter, AddProducts, CalcCoords,
       ConvDone
<1>7. CASE SetZeroes
  BY <1>1, <1>7, StateOp DEF SetZeroes, SetRegisters
<1>8. CASE SetBaseOffsets(cmd)
  <2>1. op = 8
    BY <1>1, <1>8, StateOp DEF SetBaseOffsets, SetRegisters
  <2>2. cfg' = [cfg EXCEPT !.image_base_offset = Wrap(batch_offset),
                           !.filter_base_offset = Wrap(out_offset)]
    BY <1>8, <2>1 DEF SetBaseOffsets, SetRegisters, cmd, Operand
  <2>3. Wrap(batch_offset) = batch_offset /\ Wrap(out_offset) = out_offset
    BY Running, OperandFacts, Origins, <1>1, WordAssumption DEF Wrap, Word
  <2> QED
    BY <1>1, <1>2, <1>3, <2>1, <2>2, <2>3 DEF ConfigInv, Given, Executed, Config
<1>9. CASE SetShape(cmd)
  <2>1. CASE SetRegisters("SET_INPUT_CHANNEL_SHAPE",
                          [cfg EXCEPT !.input_channel_depth = cmd.in0,
                                      !.InputOffset = Low9(cmd.in1)])
    <3>1. op = 4
      BY <1>1, <2>1, StateOp DEF SetRegisters
    <3>2. cfg' = [cfg EXCEPT !.input_channel_depth = L.input_depth,
                             !.InputOffset = Low9(Wrap(L.input_offset))]
      BY <2>1, <3>1 DEF SetRegisters, cmd, Operand
    <3> QED
      BY <1>1, <1>2, <1>3, <3>1, <3>2 DEF ConfigInv, Given, Executed, Config
  <2>2. CASE SetRegisters("SET_FILTER_DIMS",
                          [cfg EXCEPT !.filter_width = cmd.in0,
                                      !.filter_height = cmd.in1])
    <3>1. op = 2
      BY <1>1, <2>2, StateOp DEF SetRegisters
    <3>2. L.filter_width = 1 /\ L.filter_height = 1
      BY <1>1, Running DEF ShapeOK, PointwiseLayer
    <3>3. cfg' = [cfg EXCEPT !.filter_width = 1, !.filter_height = 1]
      BY <2>2, <3>1, <3>2 DEF SetRegisters, cmd, Operand
    <3> QED
      BY <1>1, <1>2, <1>3, <3>1, <3>3 DEF ConfigInv, Given, Executed, Config
  <2>3. CASE SetRegisters("SET_IMAGE_COORDS",
                          [cfg EXCEPT !.cur_image_x = cmd.in0,
                                      !.cur_image_y = cmd.in1])
    <3>1. op = 5
      BY <1>1, <2>3, StateOp DEF SetRegisters
    <3>2. cfg' = [cfg EXCEPT !.cur_image_x = Wrap(in_x_origin),
                             !.cur_image_y = Wrap(in_y_origin)]
      BY <2>3, <3>1 DEF SetRegisters, cmd, Operand
    <3>3. Wrap(in_x_origin) = in_x_origin /\ Wrap(in_y_origin) = in_y_origin
      BY Running, OperandFacts, Origins, <1>1, WordAssumption DEF Wrap, Word
    <3> QED
      BY <1>1, <1>2, <1>3, <3>1, <3>2, <3>3 DEF ConfigInv, Given, Executed, Config
  <2>4. CASE SetRegisters("SET_IMAGE_DIMS",
                          [cfg EXCEPT !.image_width = cmd.in0,
                                      !.image_height = cmd.in1])
    <3>1. op = 3
      BY <1>1, <2>4, StateOp DEF SetRegisters
    <3>2. cfg' = [cfg EXCEPT !.image_width = L.input_width,
                             !.image_height = L.input_height]
      BY <2>4, <3>1 DEF SetRegisters, cmd, Operand
    <3> QED
      BY <1>1, <1>2, <1>3, <3>1, <3>2 DEF ConfigInv, Given, Executed, Config
  <2>5. CASE SetRegisters("SET_FILTER_INPUT_DEPTH",
                          [cfg EXCEPT !.filter_input_depth = cmd.in0,
                                      !.InputOffset = Low9(cmd.in1)])
    <3>1. op = 7 /\ L.filter_input_depth = L.input_depth
      BY <1>1, <2>5, StateOp, Running DEF SetRegisters, ShapeOK, PointwiseLayer
    <3>2. cfg' = [cfg EXCEPT !.filter_input_depth = L.input_depth,
                             !.InputOffset = Low9(Wrap(L.input_offset))]
      BY <2>5, <3>1 DEF SetRegisters, cmd, Operand
    <3> QED
      BY <1>1, <1>2, <1>3, <3>1, <3>2 DEF ConfigInv, Given, Executed, Config
  <2>6. CASE SetRegisters("SET_IMAGE_FILTER_ADR",
                          [cfg EXCEPT !.image_base = cmd.in0,
                                      !.filter_base = cmd.in1])
    <3>1. op = 6
      BY <1>1, <2>6, StateOp DEF SetRegisters
    <3>2. cfg' = [cfg EXCEPT !.image_base = L.input_data,
                             !.filter_base = L.filter_data]
      BY <2>6, <3>1 DEF SetRegisters, cmd, Operand
    <3> QED
      BY <1>1, <1>2, <1>3, <3>1, <3>2 DEF ConfigInv, Given, Executed, Config
  <2> QED
    BY <1>9, <2>1, <2>2, <2>3, <2>4, <2>5, <2>6, Zenon DEF SetShape
<1> QED
  BY <1>2, <1>5, <1>6, <1>7, <1>8, <1>9 DEF CfuNegEdge

-----------------------------------------------------------------------------
(* The depth counter *)

(* The shape and the counters in numbers. *)
LEMMA DepthFacts ==
  ASSUME PointwiseModels, IInv
  PROVE  /\ WORD \in Nat /\ WORD > 4
         /\ L.input_depth \in Nat /\ L.input_depth > 0 /\ L.input_depth % 4 = 0
         /\ L.input_depth < WORD
         /\ pos.depth \in Nat /\ pos.depth % 4 = 0 /\ pos.depth + 4 < WORD
         /\ pos = [depth |-> pos.depth, x |-> 0, y |-> 0]
<1>1. L.input_depth \in Word /\ ShapeOK(L)
  BY Running, OperandFacts DEF IInv
<1>2. pos \in Position /\ pos.x = 0 /\ pos.y = 0
      /\ pos.depth % 4 = 0 /\ pos.depth + 4 < WORD
  BY DEF IInv, CfuTypeOK, DepthInv
<1> QED
  BY <1>1, <1>2, WordAssumption DEF ShapeOK, PointwiseLayer, Word, Position

(* ADD goes to the next chunk, from the last one to the first. *)
LEMMA NextChunk ==
  ASSUME PointwiseModels, IInv, op = 0
  PROVE  /\ DepthDone <=> pos.depth + 4 >= L.input_depth
         /\ RowDone /\ ColumnDone
         /\ NextPosition = [depth |-> IF pos.depth + 4 < L.input_depth
                                      THEN pos.depth + 4 ELSE 0,
                            x |-> 0, y |-> 0]
<1>1. /\ cfg.input_channel_depth = L.input_depth
      /\ cfg.filter_width = 1 /\ cfg.filter_height = 1
  BY ConvConfig DEF IInv
<1>2. Wrap(pos.depth + 4) = pos.depth + 4 /\ Wrap(0 + 1) = 1
  BY DepthFacts DEF Wrap
<1>3. pos.x = 0 /\ pos.y = 0
  BY DEF IInv, DepthInv
<1>4. DepthDone <=> pos.depth + 4 >= L.input_depth
  BY <1>1, <1>2 DEF DepthDone
<1>5. RowDone /\ ColumnDone
  BY <1>1, <1>2, <1>3 DEF RowDone, ColumnDone
<1>6. CASE pos.depth + 4 < L.input_depth
  <2>1. ~DepthDone
    BY <1>4, <1>6, DepthFacts
  <2>2. NextPosition = [pos EXCEPT !.depth = pos.depth + 4]
    BY <1>2, <2>1 DEF NextPosition
  <2> QED
    BY <1>4, <1>5, <1>6, <2>2, DepthFacts
<1>7. CASE ~(pos.depth + 4 < L.input_depth)
  <2>1. DepthDone
    BY <1>4, <1>7, DepthFacts
  <2> QED
    BY <1>4, <1>5, <1>7, <2>1 DEF NextPosition
<1> QED
  BY <1>6, <1>7

LEMMA DepthRising ==
  ASSUME PointwiseModels, IInv, RisingEdge
  PROVE  DepthInv'
<1>1. DriverTypeOK /\ HandshakeInv /\ DepthInv
  BY DEF IInv
<1>2. UNCHANGED <<cfg, pos, model, cur_state>>
  BY <1>1, RisingFacts
<1>3. FourChannelsOnly' = FourChannelsOnly
  BY <1>2 DEF FourChannelsOnly
<1>4. CASE /\ ~rsp_valid
           /\ rsp_valid' <=> cur_state \in FinalStates
           /\ UNCHANGED <<layer, op, at, result>>
  <2>1. L' = L /\ (Started' <=> Started) /\ (Steady' <=> Steady)
        /\ (Fetching' <=> Fetching)
    BY <1>2, <1>3, <1>4 DEF L, Started, Steady, FinalStates, Fetching
  <2> QED
    BY <1>1, <1>2, <2>1 DEF DepthInv
<1>5. CASE Executed(op) /\ ~rsp_valid' /\ cur_state = "INIT" /\ SetUp
  <2>1. L' = L /\ ~Started' /\ ~Started /\ (Steady' <=> Steady)
    BY <1>2, <1>3, <1>5 DEF SetUp, L, Started, Steady
  <2> QED
    BY <1>1, <1>2, <2>1 DEF DepthInv
<1>6. CASE Executed(op) /\ ~rsp_valid' /\ cur_state = "INIT" /\ StoreOutput
  <2>1. ~Started'
    BY <1>2, <1>6 DEF Started
  <2>2. pos.depth + 4 = L.input_depth
    BY <1>1, <1>6 DEF DepthInv, StoreOutput, Executed, Started, ConvStates
  <2>3. CASE layer' = layer
    BY <1>1, <1>2, <2>1, <2>2, <2>3 DEF DepthInv, L
  <2>4. CASE at' = FirstOutput
    <3>1. layer \in DOMAIN model /\ layer' \in DOMAIN model
      BY <1>1, <1>2, DriverRising DEF DriverTypeOK, IInv
    <3>2. Steady' => L'.input_depth = L.input_depth
      BY <1>2, <1>3, <2>4, <3>1 DEF Steady, FourChannelsOnly, L
    <3> QED
      BY <1>1, <1>2, <2>1, <2>2, <3>2 DEF DepthInv
  <2> QED
    BY <1>6, <2>3, <2>4 DEF StoreOutput
<1> QED
  BY <1>1, <1>4, <1>5, <1>6, RisingFacts

LEMMA DepthFalling ==
  ASSUME PointwiseModels, IInv, FallingEdge
  PROVE  DepthInv'
<1>1. CfuTypeOK /\ DriverTypeOK /\ HandshakeInv /\ DepthInv
  BY DEF IInv
<1>2. /\ clk = "high" /\ clk' = "low" /\ CfuNegEdge(cmd)
      /\ UNCHANGED <<rsp_valid, op>> /\ L' = L /\ Steady' = Steady
  BY FallingFacts
<1>3. CASE Idle(cmd)
  <2>1. ~rsp_valid /\ cur_state = "INIT" /\ UNCHANGED pos
    BY <1>1, <1>2, <1>3 DEF HandshakeInv, Idle, FinalStates
  <2>2. op = 0 => cur_state' \in {"INIT", "FETCH_VAL"}
    BY <1>3 DEF Idle, cmd, Decode
  <2> QED
    BY <1>1, <1>2, <2>1, <2>2 DEF DepthInv, Started, Fetching, ConvStates
<1>4. CASE FetchVal \/ FetchFilter
  <2>1. /\ UNCHANGED pos /\ op = 0
        /\ cur_state' \in {"FETCH_VAL", "FETCH_FILTER", "ADD"}
    BY <1>1, <1>4, StateOp DEF FetchVal, FetchFilter, ConvStates
  <2> QED
    BY <1>1, <1>2, <2>1 DEF DepthInv, Started, Fetching, ConvStates
<1>5. CASE AddProducts
  <2>1. op = 0 /\ cur_state' = "CALC_COORDS" /\ pos' = NextPosition
    BY <1>1, <1>5, StateOp DEF AddProducts, ConvStates
  <2>2. pos' = [depth |-> IF pos.depth + 4 < L.input_depth
                           THEN pos.depth + 4 ELSE 0, x |-> 0, y |-> 0]
    BY <2>1, NextChunk
  <2>3. pos'.x = 0 /\ pos'.y = 0 /\ pos'.depth % 4 = 0
        /\ pos'.depth + 4 < WORD /\ pos'.depth + 4 <= L.input_depth
    BY <2>2, DepthFacts
  <2> QED
    BY <1>2, <2>1, <2>3 DEF DepthInv, Started, Fetching, ConvStates
<1>6. CASE CalcCoords
  <2>1. op = 0 /\ UNCHANGED pos /\ cur_state = "CALC_COORDS"
    BY <1>1, <1>6, StateOp DEF CalcCoords, ConvStates
  <2>2. pos.depth + 4 <= L.input_depth
    BY <1>1, <2>1 DEF DepthInv, Started, Fetching
  <2>3. \/ cur_state' = "FETCH_VAL"
        \/ cur_state' = "CONV_DONE" /\ pos.depth + 4 = L.input_depth
    BY <1>6, <2>1, <2>2, NextChunk, DepthFacts DEF CalcCoords
  <2> QED
    BY <1>1, <1>2, <2>1, <2>2, <2>3 DEF DepthInv, Started, Fetching, ConvStates
<1>7. CASE ConvDone
  <2>1. op = 0 /\ UNCHANGED pos /\ cur_state = "CONV_DONE" /\ cur_state' = "INIT"
    BY <1>1, <1>7, StateOp DEF ConvDone
  <2> QED
    BY <1>1, <1>2, <2>1 DEF DepthInv, Started, Fetching, ConvStates
<1>8. CASE SetZeroes \/ SetBaseOffsets(cmd) \/ SetShape(cmd)
  <2>1. op # 0
    BY <1>1, <1>8, StateOp DEF SetZeroes, SetBaseOffsets, SetShape, SetRegisters
  <2>2. pos' = pos
    BY <1>8, DepthFacts DEF SetZeroes, SetBaseOffsets, SetShape, ClearSum, KeepSum
  <2> QED
    BY <1>1, <1>2, <2>1, <2>2 DEF DepthInv, Started
<1> QED
  BY <1>2, <1>3, <1>4, <1>5, <1>6, <1>7, <1>8 DEF CfuNegEdge

-----------------------------------------------------------------------------
(* The sum *)

(* One more product is the next one of the sum. *)
LEMMA OneMore ==
  ASSUME NEW l, NEW o, NEW n \in Nat, NEW p,
         p = [image |-> WordOf(ImageByte(l, o) + Chunk(l, n + 1)),
              filter |-> WordOf(FilterByte(l, o) + Chunk(l, n + 1)),
              lanes |-> Lanes, offset |-> Low9(Wrap(l.input_offset))],
         NEW s, s = PartialSum(l, o, n), s \in Seq(Product), Len(s) = n
  PROVE  Append(s, p) = PartialSum(l, o, n + 1)
<1>1. \A i \in 1 .. n + 1 : i # n + 1 => i \in 1 .. n
  OBVIOUS
<1> QED
  BY <1>1 DEF PartialSum

LEMMA NoSum == \A l, o : PartialSum(l, o, 0) = << >>
  BY DEF PartialSum

(* What ADD multiplies is the chunk the counter points at, all four lanes. *)
LEMMA ProductAdded ==
  ASSUME PointwiseModels, IInv, cur_state = "ADD",
         pos.depth + 4 <= L.input_depth
  PROVE  sum_prods = [image |-> WordOf(ImageByte(L, at) + pos.depth),
                      filter |-> WordOf(FilterByte(L, at) + pos.depth),
                      lanes |-> Lanes, offset |-> Low9(Wrap(L.input_offset))]
<1>1. op = 0
  BY StateOp DEF IInv, ConvStates
<1>2. /\ matrix_vals = WordOf(cur_image_adr) /\ filter_vals = WordOf(cur_filter_adr)
  BY DEF IInv, FetchInv
<1>3. pos.x = 0 /\ pos.y = 0 /\ pos.depth \in Nat /\ pos.depth < L.input_depth
  BY DepthFacts
<1>4. /\ cur_image_adr = ImageByte(L, at) + pos.depth
      /\ cur_filter_adr = FilterByte(L, at) + pos.depth
  BY <1>1, <1>3, Addresses, Running DEF IInv
<1>5. add_select = Lanes
  <2>1. /\ cfg.input_channel_depth = L.input_depth /\ cfg.filter_width = 1
        /\ cfg.image_width = L.input_width
        /\ cfg.cur_image_x \in 0 .. L.input_width - 1
        /\ L.input_width \in Word
    BY <1>1, ConvConfig, Running, Origins, OperandFacts DEF IInv
  <2>2. \A m \in Nat : m < WORD => Wrap(m) = m
    BY WordAssumption DEF Wrap
  <2>3. cfg.cur_image_x + pos.x = cfg.cur_image_x
        /\ cfg.cur_image_x \in Nat /\ cfg.cur_image_x < WORD
    BY <1>3, <2>1, WordAssumption DEF Word
  <2>4. Wrap(cfg.cur_image_x + pos.x) = cfg.cur_image_x
    BY <2>2, <2>3
  <2>5. cfg.cur_image_x < cfg.image_width /\ pos.x < cfg.filter_width
    BY <1>3, <2>1, WordAssumption DEF Word
  <2>6. ASSUME NEW lane \in Lanes
        PROVE  Wrap(pos.depth + lane) < cfg.input_channel_depth
    <3>1. lane \in 0 .. 3
      BY DEF Lanes
    <3>2. /\ pos.depth \in Nat /\ pos.depth + 4 < WORD
          /\ L.input_depth \in Nat /\ WORD \in Nat
      BY DepthFacts
    <3>3. pos.depth + lane \in Nat /\ pos.depth + lane < WORD
          /\ pos.depth + lane < L.input_depth
      BY <3>1, <3>2
    <3> QED
      BY <2>1, <2>2, <3>3
  <2> QED
    BY <2>4, <2>5, <2>6 DEF add_select
<1>6. cfg.InputOffset = Low9(Wrap(L.input_offset))
  BY <1>1, ConvConfig DEF IInv
<1> QED
  BY <1>2, <1>4, <1>5, <1>6 DEF sum_prods

LEMMA SumRising ==
  ASSUME PointwiseModels, IInv, RisingEdge
  PROVE  SumInv'
<1>1. DriverTypeOK /\ HandshakeInv /\ SumInv
  BY DEF IInv
<1>2. UNCHANGED <<cfg, pos, model, cur_state, rsp_payload>>
  BY <1>1, RisingFacts
<1>3. FourChannelsOnly' = FourChannelsOnly
  BY <1>2 DEF FourChannelsOnly
<1>4. CASE /\ ~rsp_valid
           /\ rsp_valid' <=> cur_state \in FinalStates
           /\ UNCHANGED <<layer, op, at, result>>
  <2>1. L' = L /\ (Started' <=> Started) /\ (Steady' <=> Steady)
        /\ (Fetching' <=> Fetching) /\ ~Executed(8)'
    BY <1>2, <1>3, <1>4 DEF L, Started, Steady, FinalStates, Fetching, Executed
  <2> QED
    BY <1>1, <1>2, <1>4, <2>1 DEF SumInv
<1>5. CASE Executed(op) /\ ~rsp_valid' /\ cur_state = "INIT"
           /\ (SetUp \/ StoreOutput)
  <2>1. ~Started' /\ ~Executed(8)'
    BY <1>2, <1>5 DEF Started, Executed
  <2>2. op' = 0 => Executed(8)
    BY <1>5 DEF SetUp, StoreOutput, Executed, Finished
  <2> QED
    BY <1>1, <1>2, <2>1, <2>2 DEF SumInv
<1> QED
  BY <1>1, <1>4, <1>5, RisingFacts

LEMMA SumFalling ==
  ASSUME PointwiseModels, IInv, FallingEdge
  PROVE  SumInv'
<1>1. CfuTypeOK /\ DriverTypeOK /\ HandshakeInv /\ SumInv /\ DepthInv
  BY DEF IInv
<1>2. /\ clk = "high" /\ clk' = "low" /\ CfuNegEdge(cmd)
      /\ UNCHANGED <<rsp_valid, op, at>> /\ L' = L /\ Steady' = Steady
  BY FallingFacts
<1> DEFINE n == Len(rsp_payload)
<1>3. rsp_payload \in Seq(Product) /\ n \in Nat
  BY <1>1 DEF CfuTypeOK
<1>4. CASE Idle(cmd)
  <2>1. ~rsp_valid /\ cur_state = "INIT" /\ UNCHANGED <<pos, rsp_payload>>
    BY <1>1, <1>2, <1>4 DEF HandshakeInv, Idle, FinalStates
  <2>2. CASE op = 0 /\ valid
    <3>1. cur_state' = "FETCH_VAL" /\ ~Started
      BY <1>4, <2>1, <2>2 DEF Idle, cmd, Decode, Started
    <3>2. n = 0 /\ rsp_payload = << >>
      BY <1>1, <1>3, <2>2, <3>1 DEF SumInv
    <3>3. Steady => pos.depth = Chunk(L, 1)
      BY <1>1, <3>1, DepthFacts DEF DepthInv, Chunk
    <3> QED
      BY <1>2, <2>1, <2>2, <3>1, <3>2, <3>3, NoSum
         DEF SumInv, Started, Fetching, Executed
  <2>3. CASE ~(op = 0 /\ valid)
    <3>1. op = 0 => cur_state' = "INIT"
      BY <1>4, <2>3 DEF Idle, cmd
    <3> QED
      BY <1>1, <1>2, <2>1, <3>1 DEF SumInv, Started, Executed
  <2> QED
    BY <2>2, <2>3
<1>5. CASE FetchVal \/ FetchFilter
  <2>1. /\ UNCHANGED <<pos, rsp_payload>> /\ op = 0
        /\ cur_state \in {"FETCH_VAL", "FETCH_FILTER"}
        /\ cur_state' \in {"FETCH_VAL", "FETCH_FILTER", "ADD"}
    BY <1>1, <1>5, StateOp DEF FetchVal, FetchFilter, ConvStates
  <2> QED
    BY <1>1, <1>2, <2>1 DEF SumInv, Started, Fetching, Executed
<1>6. CASE AddProducts
  <2>1. /\ op = 0 /\ cur_state = "ADD" /\ cur_state' = "CALC_COORDS"
        /\ pos' = NextPosition /\ rsp_payload' = Append(rsp_payload, sum_prods)
    BY <1>1, <1>6, StateOp DEF AddProducts, ConvStates
  <2>2. Len(rsp_payload') = n + 1
    BY <1>3, <2>1, DatapathType, <1>1
  <2>3. ASSUME Steady
        PROVE  /\ rsp_payload' = PartialSum(L, at, n + 1)
               /\ pos'.depth = 4 * n
    <3>1. /\ rsp_payload = PartialSum(L, at, n)
          /\ pos.depth = Chunk(L, n + 1)
          /\ n > 0 => pos.depth + 4 < L.input_depth
      BY <1>1, <2>1, <2>3 DEF SumInv, Started, Fetching
    <3>2. pos.depth + 4 <= L.input_depth
      BY <1>3, <3>1, DepthFacts DEF Chunk
    <3>3. rsp_payload' = PartialSum(L, at, n + 1)
      BY <1>3, <2>1, <3>1, <3>2, ProductAdded, OneMore
    <3>4. pos'.depth = IF pos.depth + 4 < L.input_depth THEN pos.depth + 4 ELSE 0
      BY <2>1, NextChunk
    <3>5. pos'.depth = 4 * n
      BY <1>3, <3>1, <3>4, DepthFacts DEF Chunk
    <3> QED
      BY <3>3, <3>5
  <2>4. ~Fetching' /\ Started' /\ ~Executed(8)'
    BY <1>2, <2>1 DEF Started, Fetching, Executed
  <2> QED
    BY <1>2, <1>3, <2>1, <2>2, <2>3, <2>4 DEF SumInv
<1>7. CASE CalcCoords
  <2>1. op = 0 /\ UNCHANGED <<pos, rsp_payload>> /\ cur_state = "CALC_COORDS"
    BY <1>1, <1>7, StateOp DEF CalcCoords, ConvStates
  <2>2. \/ cur_state' = "FETCH_VAL" /\ pos.depth + 4 < L.input_depth
        \/ cur_state' = "CONV_DONE"
    BY <1>7, <2>1, NextChunk, DepthFacts DEF CalcCoords
  <2>3. Steady => /\ rsp_payload = PartialSum(L, at, n)
                  /\ n > 0 /\ pos.depth = 4 * (n - 1)
    BY <1>1, <2>1 DEF SumInv, Started, Fetching
  <2>4. Steady => pos.depth = Chunk(L, n + 1)
    BY <1>3, <2>3 DEF Chunk
  <2> QED
    BY <1>2, <2>1, <2>2, <2>3, <2>4 DEF SumInv, Started, Fetching, Executed
<1>8. CASE ConvDone
  <2>1. /\ op = 0 /\ UNCHANGED <<pos, rsp_payload>>
        /\ cur_state = "CONV_DONE" /\ cur_state' = "INIT"
    BY <1>1, <1>8, StateOp DEF ConvDone
  <2>2. rsp_valid
    BY <1>1, <1>2, <2>1 DEF HandshakeInv, FinalStates
  <2> QED
    BY <1>1, <1>2, <2>1, <2>2 DEF SumInv, Started, Fetching, Executed
<1>9. CASE SetZeroes \/ SetBaseOffsets(cmd)
  <2>1. op = 8 /\ rsp_payload' = << >>
    BY <1>1, <1>9, StateOp DEF SetZeroes, SetBaseOffsets, SetRegisters, ClearSum
  <2> QED
    BY <1>2, <2>1 DEF SumInv, Started
<1>10. CASE SetShape(cmd)
  <2>1. op \notin {0, 8}
    BY <1>1, <1>10, StateOp DEF SetShape, SetRegisters
  <2> QED
    BY <1>2, <2>1 DEF SumInv, Started, Executed
<1> QED
  BY <1>2, <1>4, <1>5, <1>6, <1>7, <1>8, <1>9, <1>10 DEF CfuNegEdge

-----------------------------------------------------------------------------
(* The fetches *)

LEMMA FetchRising ==
  ASSUME IInv, RisingEdge
  PROVE  FetchInv'
<1>1. FetchInv /\ CfuTypeOK
  BY DEF IInv
<1>2. /\ clk = "low" /\ clk' = "high"
      /\ UNCHANGED <<cur_state, cfg, pos, ram, matrix_vals, filter_vals>>
  BY RisingFacts DEF IInv
<1>3. cur_image_adr' = cur_image_adr /\ cur_filter_adr' = cur_filter_adr
  BY <1>2, AddressStable
<1>4. slave'.ack /\ ~slave'.err => SlaveMayAnswer /\ slave'.dat = ram.adr
  BY <1>1, SlaveFacts DEF RisingEdge
<1> QED
  BY <1>1, <1>2, <1>3, <1>4 DEF FetchInv, BusAddress, Fetching, WordOf

LEMMA FetchFalling ==
  ASSUME IInv, FallingEdge
  PROVE  FetchInv'
<1>1. FetchInv /\ CfuTypeOK
  BY DEF IInv
<1>2. CfuNegEdge(cmd) /\ clk = "high" /\ clk' = "low" /\ UNCHANGED slave
  BY FallingFacts
<1>3. BusOff => ~(ram'.cyc /\ ram'.stb) /\ ~SlaveMayAnswer'
  <2>1. ram \in [adr : WordAdr, cyc : BOOLEAN, stb : BOOLEAN]
    BY <1>1 DEF CfuTypeOK
  <2> QED
    BY <2>1 DEF BusOff, SlaveMayAnswer
<1>4. CASE Idle(cmd) \/ CalcCoords
  <2>1. cur_state' \notin {"FETCH_FILTER", "ADD"} /\ BusOff
    BY <1>4 DEF Idle, Decode, CalcCoords
  <2> QED
    BY <1>2, <1>3, <2>1 DEF FetchInv, BusAddress, Fetching
<1>5. CASE FetchVal
  <2>1. /\ cur_image_adr' = cur_image_adr
        /\ ram'.adr = WordOf(cur_image_adr)
        /\ cur_state' \in {"FETCH_VAL", "FETCH_FILTER"}
        /\ cur_state' = "FETCH_FILTER" => slave.ack /\ ~slave.err
    BY <1>5, AddressStable DEF FetchVal, BusRequest
  <2>2. slave.ack /\ ~slave.err => matrix_vals' = WordOf(cur_image_adr)
    BY <1>1, <1>2, <1>5 DEF FetchVal, FetchInv
  <2>3. slave.ack => ~SlaveMayAnswer'
    BY <1>2 DEF SlaveMayAnswer
  <2> QED
    BY <1>2, <2>1, <2>2, <2>3 DEF FetchInv, BusAddress, Fetching, WordOf
<1>6. CASE FetchFilter
  <2>1. /\ cur_filter_adr' = cur_filter_adr /\ cur_image_adr' = cur_image_adr
        /\ matrix_vals' = WordOf(cur_image_adr)
        /\ ram'.adr = WordOf(cur_filter_adr)
        /\ cur_state' \in {"FETCH_FILTER", "ADD"}
        /\ cur_state' = "ADD" => slave.ack /\ ~slave.err
    BY <1>1, <1>6, AddressStable DEF FetchFilter, BusRequest, FetchInv
  <2>2. slave.ack /\ ~slave.err => filter_vals' = WordOf(cur_filter_adr)
    BY <1>1, <1>2, <1>6 DEF FetchFilter, FetchInv
  <2> QED
    BY <1>2, <2>1, <2>2 DEF FetchInv, BusAddress, Fetching, WordOf
<1>7. CASE AddProducts
  BY <1>3, <1>7 DEF AddProducts, FetchInv, Fetching
<1>8. CASE ConvDone \/ SetZeroes \/ SetBaseOffsets(cmd) \/ SetShape(cmd)
  <2>1. cur_state' = "INIT"
    BY <1>8 DEF ConvDone, SetZeroes, SetBaseOffsets, SetShape, SetRegisters
  <2> QED
    BY <2>1 DEF FetchInv, Fetching
<1> QED
  BY <1>2, <1>4, <1>5, <1>6, <1>7, <1>8 DEF CfuNegEdge

-----------------------------------------------------------------------------
(* The results *)

(* When the response to a convolution is taken, the sum is the whole one.  *)
LEMMA SumAtTheEnd ==
  ASSUME WORD % 512 = 0, PointwiseModels, IInv, Executed(0), Steady
  PROVE  IsReference([layer |-> layer, at |-> at, value |-> rsp_payload])
<1> DEFINE n == Len(rsp_payload)
<1>1. Started /\ cur_state \notin ConvStates /\ ~Fetching
  BY DEF Executed, Started, ConvStates, Fetching
<1>2. n \in Nat
  BY DEF IInv, CfuTypeOK
<1>3. /\ rsp_payload = PartialSum(L, at, n)
      /\ n > 0 /\ pos.depth = 4 * (n - 1)
  BY <1>1 DEF IInv, SumInv
<1>4. pos.depth + 4 = L.input_depth
  BY <1>1 DEF IInv, DepthInv
<1>5. 4 * n = L.input_depth
  BY <1>2, <1>3, <1>4
<1>6. layer \in DOMAIN model
  BY DEF IInv, DriverTypeOK
<1> HIDE DEF n
<1>7. rsp_payload = PartialSum(model[layer], at, n)
  BY <1>3 DEF L
<1>8. ShapeOK(model[layer]) /\ at \in Outputs(model[layer])
  BY Running DEF IInv, L
<1>9. 4 * n = model[layer].input_depth
  BY <1>5 DEF L
<1> QED
  BY <1>2, <1>6, <1>7, <1>8, <1>9, WholeSum

LEMMA ResultRising ==
  ASSUME WORD % 512 = 0, PointwiseModels, IInv, RisingEdge
  PROVE  SteadyConvolution' /\ ExactOnFourChannels'
<1>1. DriverTypeOK /\ HandshakeInv /\ SteadyConvolution /\ ExactOnFourChannels
  BY DEF IInv
<1>2. model' = model
  BY <1>1, RisingFacts
<1>3. /\ FourChannelsOnly' = FourChannelsOnly
      /\ IsReference(result)' <=> IsReference(result')
  BY <1>2 DEF FourChannelsOnly, IsReference
<1>4. CASE result' = result
  BY <1>1, <1>3, <1>4 DEF SteadyConvolution, ExactOnFourChannels, ExactConvolution
<1>5. CASE Executed(op) /\ StoreOutput
  <2>1. result' = [layer |-> layer, at |-> at, value |-> rsp_payload] /\ op = 0
    BY <1>5 DEF StoreOutput
  <2>2. Steady => IsReference(result')
    BY <1>5, <2>1, SumAtTheEnd
  <2> QED
    BY <1>3, <2>1, <2>2
       DEF Steady, SteadyConvolution, ExactOnFourChannels, ExactConvolution
<1> QED
  BY <1>1, <1>4, <1>5, RisingFacts DEF SetUp

-----------------------------------------------------------------------------
(* The invariant *)

LEMMA InvInit ==
  ASSUME PointwiseModels, Init
  PROVE  IInv
<1>1. CfuTypeOK
  BY InitTypes DEF Init
<1>2. model \in Models /\ 1 \in DOMAIN model
  BY ModelsAssumption DEF Init
<1>3. DriverTypeOK
  BY <1>2, FirstOutputType DEF Init, DriverTypeOK, L, Outputs
<1>4. HandshakeInv
  BY DEF Init, CfuInit, HandshakeInv, Finished
<1>5. ConfigInv
  BY DEF Init, CfuInit, ConfigInv, Given, Executed
<1>6. ~Started /\ ~Fetching /\ ~Executed(8)
  BY DEF Init, CfuInit, Started, Fetching, Executed
<1>7. DepthInv
  <2>1. Steady => L.input_depth = 4
    BY <1>2 DEF Init, Steady, FourChannelsOnly, L
  <2> QED
    BY <1>6, <2>1, WordAssumption DEF Init, CfuInit, DepthInv
<1>8. SumInv
  BY <1>6 DEF Init, SumInv
<1>9. FetchInv
  BY <1>6 DEF Init, CfuInit, FetchInv, Fetching
<1>10. SteadyConvolution /\ ExactOnFourChannels
  BY DEF Init, SteadyConvolution, ExactOnFourChannels, ExactConvolution
<1> QED
  BY <1>1, <1>3, <1>4, <1>5, <1>7, <1>8, <1>9, <1>10 DEF IInv

(* A reset clears what the CFU had begun; the configuration it keeps is    *)
(* written again before it is used.                                        *)
LEMMA InvReset ==
  ASSUME PointwiseModels, IInv, Reset
  PROVE  IInv'
<1>1. CfuTypeOK'
  BY ResetTypes DEF Reset, IInv
<1>2. model' = model /\ model \in Models /\ 1 \in DOMAIN model
  BY ModelsAssumption DEF Reset, IInv, DriverTypeOK
<1>3. DriverTypeOK'
  BY <1>2, FirstOutputType DEF Reset, IInv, DriverTypeOK, L, Outputs
<1>4. HandshakeInv'
  BY DEF Reset, CfuReset, HandshakeInv, FinalStates
<1>5. ConfigInv'
  BY DEF Reset, CfuReset, ConfigInv, Given, Executed, IInv
<1>6. ~Started' /\ ~Fetching' /\ ~Executed(8)'
  BY DEF Reset, CfuReset, Started, Fetching, Executed
<1>7. DepthInv'
  <2>1. Steady' => L'.input_depth = 4
    BY <1>2 DEF Reset, Steady, FourChannelsOnly, L
  <2> QED
    BY <1>6, <2>1, WordAssumption DEF Reset, CfuReset, DepthInv
<1>8. SumInv'
  BY <1>6 DEF Reset, SumInv
<1>9. FetchInv'
  BY <1>6 DEF Reset, CfuReset, FetchInv, Fetching
<1>10. SteadyConvolution' /\ ExactOnFourChannels'
  BY DEF Reset, SteadyConvolution, ExactOnFourChannels, ExactConvolution
<1> QED
  BY <1>1, <1>3, <1>4, <1>5, <1>7, <1>8, <1>9, <1>10 DEF IInv

LEMMA InvUnchanged == IInv /\ UNCHANGED vars => IInv'
<1> SUFFICES ASSUME IInv, UNCHANGED vars PROVE IInv'
  OBVIOUS
<1> USE DEF vars, cfuVars, driverVars
<1>1. CfuTypeOK' /\ DriverTypeOK' /\ HandshakeInv'
  BY DEF IInv, CfuTypeOK, DriverTypeOK, HandshakeInv, L
<1>2. ConfigInv'
  BY DEF IInv, ConfigInv, Given, Executed, L, in_x_origin, in_y_origin,
     batch_offset, out_offset
<1>3. (Started' <=> Started) /\ (Fetching' <=> Fetching) /\ (Steady' <=> Steady)
      /\ (Executed(8)' <=> Executed(8)) /\ L' = L
      /\ (FourChannelsOnly' <=> FourChannelsOnly)
  BY DEF Started, Fetching, Steady, Executed, L, FourChannelsOnly
<1>4. DepthInv' /\ SumInv'
  BY <1>3 DEF IInv, DepthInv, SumInv
<1>5. FetchInv'
  BY AddressStable, <1>3 DEF IInv, FetchInv, BusAddress, SlaveMayAnswer, WordOf
<1>6. IsReference(result)' <=> IsReference(result)
  BY DEF IsReference
<1>7. SteadyConvolution' /\ ExactOnFourChannels'
  BY <1>3, <1>6 DEF IInv, SteadyConvolution, ExactOnFourChannels, ExactConvolution
<1> QED
  BY <1>1, <1>2, <1>4, <1>5, <1>7 DEF IInv

(* IInv is inductive and holds in every reachable state.  The word size is *)
(* 2^32 in the code; that 2^9 divides it is all the proof needs.           *)
THEOREM InductiveInvariant ==
  ASSUME WORD % 512 = 0, PointwiseModels
  PROVE  Spec => []IInv
<1>1. Init => IInv
  BY InvInit
<1>2. ASSUME IInv, RisingEdge PROVE IInv'
  <2>1. CfuTypeOK'
    BY <1>2, PosEdgeType DEF RisingEdge, IInv
  <2> QED
    BY <1>2, <2>1, DriverRising, HandshakeRising, ConfigRising, DepthRising,
       SumRising, FetchRising, ResultRising DEF IInv
<1>3. ASSUME IInv, FallingEdge PROVE IInv'
  <2>1. CfuTypeOK'
    BY <1>3, NegEdgeType, CmdType, FallingFacts DEF IInv
  <2>2. DriverTypeOK'
    BY <1>3, FallingFacts DEF IInv, DriverTypeOK
  <2>3. SteadyConvolution' /\ ExactOnFourChannels'
    <3>1. UNCHANGED <<result, model>>
      BY <1>3, FallingFacts
    <3> QED
      BY <1>3, <3>1 DEF IInv, SteadyConvolution, ExactOnFourChannels,
         ExactConvolution, FourChannelsOnly, IsReference
  <2> QED
    BY <1>3, <2>1, <2>2, <2>3, HandshakeFalling, ConfigFalling, DepthFalling,
       SumFalling, FetchFalling DEF IInv
<1>4. ASSUME IInv, Reset PROVE IInv'
  BY <1>4, InvReset
<1>5. IInv /\ [Next]_vars => IInv'
  BY <1>2, <1>3, <1>4, InvUnchanged DEF Next
<1> QED
  BY <1>1, <1>5, PTL DEF Spec

(* Every output of a layer but its first is the reference kernel's sum.    *)
THEOREM SteadyOutputsAreExact ==
  ASSUME WORD % 512 = 0, PointwiseModels
  PROVE  Spec => []SteadyConvolution
<1>1. IInv => SteadyConvolution
  BY DEF IInv
<1> QED
  BY <1>1, InductiveInvariant, PTL

(* When every layer has four channels, every output is.                    *)
THEOREM FourChannelsAreExact ==
  ASSUME WORD % 512 = 0, PointwiseModels
  PROVE  Spec => []ExactOnFourChannels
<1>1. IInv => ExactOnFourChannels
  BY DEF IInv
<1> QED
  BY <1>1, InductiveInvariant, PTL

(* Then the CFU asks the memory for words of the two tensors only.         *)
THEOREM FetchesStayInTensors ==
  ASSUME WORD % 512 = 0, PointwiseModels
  PROVE  Spec => []ReadsInTensors
<1>1. ASSUME IInv PROVE ReadsInTensors
  <2>1. SUFFICES ASSUME FourChannelsOnly, ram.cyc, ram.stb, op = 0,
                        cur_state \in ConvStates
                 PROVE  \/ 4 * ram.adr \in L.input_data ..
                             L.input_data + L.batches * L.input_height
                               * L.input_width * L.input_depth - 1
                        \/ 4 * ram.adr \in L.filter_data ..
                             L.filter_data + L.output_depth * L.filter_height
                               * L.filter_width * L.filter_input_depth - 1
    BY DEF ReadsInTensors
  <2>2. ram.adr \in {WordOf(cur_image_adr), WordOf(cur_filter_adr)}
    BY <1>1, <2>1 DEF IInv, FetchInv, BusAddress, Fetching, ConvStates
  <2>3. Started /\ Fetching /\ Steady
    BY <1>1, <2>1 DEF Started, Fetching, Steady, IInv, FetchInv, ConvStates
  <2> DEFINE n == Len(rsp_payload)
  <2>4. n \in Nat /\ pos.depth = Chunk(L, n + 1)
        /\ (n > 0 => pos.depth + 4 < L.input_depth)
    BY <1>1, <2>3 DEF IInv, CfuTypeOK, SumInv
  <2>5. /\ pos.depth + 4 <= L.input_depth /\ pos.depth \in Nat
        /\ pos.depth % 4 = 0 /\ pos.x = 0 /\ pos.y = 0
        /\ pos.depth < L.input_depth /\ L.input_depth \in Nat
    BY <1>1, <2>4, DepthFacts DEF Chunk
  <2>6. /\ cur_image_adr = ImageByte(L, at) + pos.depth
        /\ cur_filter_adr = FilterByte(L, at) + pos.depth
    BY <1>1, <2>1, <2>5, Addresses, Running DEF IInv
  <2> DEFINE bytes == L.batches * L.input_height * L.input_width * L.input_depth
             filters == L.output_depth * L.input_depth
  <2>7. /\ ImageByte(L, at) \in Nat /\ ImageByte(L, at) % 4 = 0
        /\ FilterByte(L, at) \in Nat /\ FilterByte(L, at) % 4 = 0
        /\ L.input_data <= ImageByte(L, at)
        /\ ImageByte(L, at) + L.input_depth <= L.input_data + bytes
        /\ L.filter_data <= FilterByte(L, at)
        /\ FilterByte(L, at) + L.input_depth <= L.filter_data + filters
    BY <1>1, Running, ByteFacts DEF IInv
  <2>8. /\ 4 * WordOf(cur_image_adr) = ImageByte(L, at) + pos.depth
        /\ 4 * WordOf(cur_filter_adr) = FilterByte(L, at) + pos.depth
    BY <2>5, <2>6, <2>7, Aligned
  <2>9. /\ L.input_data \in Nat /\ L.filter_data \in Nat
        /\ bytes \in Nat /\ filters \in Nat
        /\ filters = L.output_depth * L.filter_height * L.filter_width
                       * L.filter_input_depth
    <3>1. ShapeOK(L)
      BY <1>1, Running DEF IInv
    <3>2. L \in Layer /\ L.filter_height = 1 /\ L.filter_width = 1
          /\ L.filter_input_depth = L.input_depth
      BY <3>1 DEF ShapeOK, PointwiseLayer
    <3> QED
      BY <3>2, Products, WordAssumption DEF Layer, Word
  <2> HIDE DEF bytes, filters, n
  <2>10. \/ 4 * ram.adr \in L.input_data .. L.input_data + bytes - 1
         \/ 4 * ram.adr \in L.filter_data .. L.filter_data + filters - 1
    BY <2>2, <2>5, <2>7, <2>8, <2>9
  <2> QED
    BY <2>9, <2>10 DEF bytes
<1> QED
  BY <1>1, InductiveInvariant, PTL
=============================================================================
