------------------------------- MODULE NxLram --------------------------------
(***************************************************************************)
(* soc/hps_lattice_nx.py: blocks of large RAM (LRAM) of a CrossLink-NX     *)
(* behind one Wishbone bus.  With the dual port option consecutive words   *)
(* are striped across the blocks, and every block has a second, read-only  *)
(* port.  The acknowledge of the bus and the memories are clocked by the   *)
(* oscillator; each port of the memories has a clock enable of its own.    *)
(***************************************************************************)
EXTENDS Integers

CONSTANTS
  Blocks,          \* depth_cascading
  Rows,            \* words in a block (16384)
  DualPort,        \* dual_port
  Lanes,           \* the bytes of a word
  Values           \* contents of a byte

ASSUME LramAssumption ==
  /\ Blocks \in 1 .. 5
  /\ Rows \in Nat \ {0}
  /\ DualPort \in BOOLEAN
  /\ DualPort => Blocks \in {1, 2, 4}     \* depth must be a power of 2

Block == 0 .. Blocks - 1
Row == 0 .. Rows - 1
Adr == 0 .. Blocks * Rows - 1
Word == [Lanes -> Values]

VARIABLES
  mem,             \* contents of the blocks
  dout,            \* output of the bus side of each block
  bout,            \* output of the second port of each block
  ack              \* bus.ack

lramVars == <<mem, dout, bout, ack>>

(* Fault: the block is taken from the high address bits with either option. *)
BlockOfHigh(a) == a \div Rows

(* The block, and the word in it, that an address of the bus stands for. *)
BlockOf(a) == IF DualPort THEN a % Blocks ELSE a \div Rows

(* Fault: the row does not skip the bits that select the block. *)
RowOfLow(a) == a % Rows

RowOf(a) == IF DualPort THEN a \div Blocks ELSE a % Rows

At(a) == mem[BlockOf(a)][RowOf(a)]

dat_r(a) == dout[BlockOf(a)]

Merge(old, new, sel) == [l \in Lanes |-> IF l \in sel THEN new[l] ELSE old[l]]

LramInit ==
  /\ mem \in [Block -> [Row -> {[l \in Lanes |-> v] : v \in Values}]]
  /\ dout = [b \in Block |-> mem[b][0]]
  /\ bout = [b \in Block |-> mem[b][0]]
  /\ ack = FALSE

(* Only the block that the address selects is written and read. *)
PortA(bus, a_clken) ==
  LET b == BlockOf(bus.adr)
      wren == a_clken /\ bus.stb /\ bus.we
  IN /\ mem' = IF wren
               THEN [mem EXCEPT ![b][RowOf(bus.adr)] =
                                  Merge(@, bus.dat, bus.sel)]
               ELSE mem
     /\ dout' = IF a_clken /\ ~wren
                THEN [dout EXCEPT ![b] = At(bus.adr)] ELSE dout

(* A word read while it is written may come out old or new. *)
PortB(b_addr, b_clken) ==
  IF DualPort /\ b_clken
  THEN \E early \in SUBSET {b \in Block : mem'[b] # mem[b]} :
         bout' = [b \in Block |-> IF b \in early THEN mem[b][b_addr[b]]
                                  ELSE mem'[b][b_addr[b]]]
  ELSE bout' = bout

(* Fault: ack is not taken back. *)
AckHeld(bus) == ack' = bus.stb

Ack(bus) == ack' = (bus.stb /\ ~ack)

LramTypeOK ==
  /\ mem \in [Block -> [Row -> Word]]
  /\ dout \in [Block -> Word]
  /\ bout \in [Block -> Word]
  /\ ack \in BOOLEAN
=============================================================================
