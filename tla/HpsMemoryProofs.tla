--------------------------- MODULE HpsMemoryProofs ----------------------------
(***************************************************************************)
(* Proofs about HpsMemory for every number and size of blocks, with either *)
(* layout, and for every word.  What the CPU and the CFU read is proved    *)
(* for the SoC without the clock controller.                               *)
(***************************************************************************)
EXTENDS HpsMemory, TLAPS

(* Quotient and remainder of an address. *)
LEMMA DivMod ==
  ASSUME NEW a \in Nat, NEW r \in Nat \ {0}
  PROVE  /\ a = r * (a \div r) + (a % r)
         /\ a % r \in 0 .. r - 1
         /\ a \div r \in Nat
  OBVIOUS

(* An address below k rows of r words is in one of the first k. *)
LEMMA DivBound ==
  ASSUME NEW a \in Nat, NEW r \in Nat \ {0}, NEW k \in Nat, a < k * r
  PROVE  a \div r < k
  BY DivMod

(* With two ports, word r of block b is word Blocks * r + b of the bus.    *)
LEMMA Striping ==
  ASSUME DualPort, NEW b \in Block, NEW r \in Row
  PROVE  /\ Blocks * r + b \in Adr
         /\ BlockOf(Blocks * r + b) = b
         /\ RowOf(Blocks * r + b) = r
<1>1. CASE Blocks = 1
  BY <1>1, LramAssumption DEF Block, Row, Adr, BlockOf, RowOf
<1>2. CASE Blocks = 2
  BY <1>2, LramAssumption DEF Block, Row, Adr, BlockOf, RowOf
<1>3. CASE Blocks = 4
  BY <1>3, LramAssumption DEF Block, Row, Adr, BlockOf, RowOf
<1> QED
  BY <1>1, <1>2, <1>3, LramAssumption

(* Every address has a place, and no two have the same. *)
LEMMA Places ==
  /\ \A a \in Adr : BlockOf(a) \in Block /\ RowOf(a) \in Row
  /\ \A a, c \in Adr :
       BlockOf(a) = BlockOf(c) /\ RowOf(a) = RowOf(c) => a = c
<1>1. Blocks \in Nat \ {0} /\ Rows \in Nat \ {0}
  BY LramAssumption
<1>2. ASSUME NEW a \in Adr
      PROVE  a \in Nat /\ a < Blocks * Rows /\ a < Rows * Blocks
  BY <1>1 DEF Adr
<1>3. CASE DualPort
  <2>1. ASSUME NEW a \in Adr
        PROVE  /\ a = (Blocks * RowOf(a)) + BlockOf(a)
               /\ BlockOf(a) \in Block
               /\ RowOf(a) \in Nat
    BY <1>1, <1>2, <1>3, DivMod DEF BlockOf, RowOf, Block
  <2>2. ASSUME NEW a \in Adr
        PROVE  RowOf(a) \in Row
    <3>1. a \div Blocks < Rows
      BY <1>1, <1>2, DivBound
    <3> QED
      BY <1>1, <1>3, <2>1, <3>1 DEF RowOf, Row
  <2> QED
    BY <2>1, <2>2
<1>4. CASE ~DualPort
  <2>1. ASSUME NEW a \in Adr
        PROVE  /\ a = (Rows * BlockOf(a)) + RowOf(a)
               /\ BlockOf(a) \in Nat
               /\ RowOf(a) \in Row
    BY <1>1, <1>2, <1>4, DivMod DEF BlockOf, RowOf, Row
  <2>2. ASSUME NEW a \in Adr
        PROVE  BlockOf(a) \in Block
    <3>1. a \div Rows < Blocks
      BY <1>1, <1>2, DivBound
    <3> QED
      BY <1>1, <1>4, <2>1, <3>1 DEF BlockOf, Block
  <2> QED
    BY <2>1, <2>2
<1> QED
  BY <1>3, <1>4

(* A write repeated is the same write. *)
LEMMA MergeTwice ==
  ASSUME NEW old \in Word, NEW new \in Word, NEW sel
  PROVE  /\ Merge(old, new, sel) \in Word
         /\ Merge(Merge(old, new, sel), new, sel) = Merge(old, new, sel)
  BY DEF Merge, Word

(* What the CPU drives. *)
LEMMA BusTypes ==
  ASSUME bus \in {Idle} \cup Request
  PROVE  /\ bus.stb \in BOOLEAN
         /\ bus.we \in BOOLEAN
         /\ bus.adr \in Adr
         /\ bus.stb /\ bus.we => bus.dat \in Word
<1>1. 0 \in Adr
  BY LramAssumption DEF Adr
<1>2. CASE bus = Idle
  BY <1>1, <1>2 DEF Idle
<1>3. CASE bus \in Request
  <2>1. CASE \E a \in Adr : bus = [stb |-> TRUE, we |-> FALSE, adr |-> a,
                                  dat |-> Idle.dat, sel |-> Lanes]
    BY <2>1
  <2>2. CASE bus \in [stb : {TRUE}, we : {TRUE}, adr : Adr, dat : Word,
                      sel : (SUBSET Lanes) \ {{}}]
    BY <2>2
  <2> QED
    BY <1>3, <2>1, <2>2 DEF Request
<1> QED
  BY <1>2, <1>3

(* What one edge makes of the word at an address. *)
LEMMA WordAfterEdge ==
  ASSUME TypeOK, NEW clken \in BOOLEAN, PortA(bus, clken), NEW a \in Adr
  PROVE  At(a)' = IF clken /\ bus.stb /\ bus.we /\ bus.adr = a
                  THEN Merge(At(a), bus.dat, bus.sel) ELSE At(a)
<1> USE Places, BusTypes DEF TypeOK, LramTypeOK
<1>1. At(a)' = mem'[BlockOf(a)][RowOf(a)]
  BY DEF At
<1>2. CASE clken /\ bus.stb /\ bus.we
  <2>1. mem' = [mem EXCEPT ![BlockOf(bus.adr)][RowOf(bus.adr)] =
                             Merge(@, bus.dat, bus.sel)]
    BY <1>2 DEF PortA
  <2>2. CASE bus.adr = a
    BY <1>1, <1>2, <2>1, <2>2 DEF At
  <2>3. CASE bus.adr # a
    <3>1. BlockOf(bus.adr) # BlockOf(a) \/ RowOf(bus.adr) # RowOf(a)
      BY <2>3
    <3> QED
      BY <1>1, <2>1, <2>3, <3>1 DEF At
  <2> QED
    BY <2>2, <2>3
<1>3. CASE ~(clken /\ bus.stb /\ bus.we)
  BY <1>1, <1>3 DEF PortA, At
<1> QED
  BY <1>2, <1>3

(* A port changes only the words that are written, in their types. *)
LEMMA MemoryTypes ==
  ASSUME TypeOK, NEW clken \in BOOLEAN, PortA(bus, clken)
  PROVE  mem' \in [Block -> [Row -> Word]] /\ dout' \in [Block -> Word]
<1> USE Places, BusTypes, MergeTwice DEF TypeOK, LramTypeOK
<1>1. mem' \in [Block -> [Row -> Word]]
  <2>1. CASE clken /\ bus.stb /\ bus.we
    <3>1. Merge(At(bus.adr), bus.dat, bus.sel) \in Word
      BY <2>1 DEF At
    <3> QED
      BY <2>1, <3>1 DEF PortA, At
  <2> QED
    BY <2>1 DEF PortA
<1>2. dout' \in [Block -> Word]
  <2>1. At(bus.adr) \in Word
    BY DEF At
  <2> QED
    BY <2>1 DEF PortA
<1> QED
  BY <1>1, <1>2

-----------------------------------------------------------------------------
(* Memory, bus and history keep their types, with and without the clock    *)
(* controller.                                                             *)
THEOREM TypeCorrect == Spec => []TypeOK
<1>1. Init => TypeOK
  <2> SUFFICES ASSUME Init
               PROVE  TypeOK
    OBVIOUS
  <2>1. 0 \in Row
    BY LramAssumption DEF Row
  <2>2. LramTypeOK
    <3>1. \A v \in Values : [l \in Lanes |-> v] \in Word
      BY DEF Word
    <3>2. {[l \in Lanes |-> v] : v \in Values} \subseteq Word
      BY <3>1
    <3>3. mem \in [Block -> [Row -> Word]]
      BY <3>2 DEF Init, LramInit
    <3> QED
      BY <2>1, <3>3 DEF Init, LramInit, LramTypeOK
  <2>3. image \in [Adr -> Word]
    BY <2>2, Places DEF Init, LramTypeOK, At
  <2> QED
    BY <2>1, <2>2, <2>3 DEF Init, TypeOK, ClockInit, ClockTypeOK
<1>2. TypeOK /\ [Next]_memoryVars => TypeOK'
  <2> SUFFICES ASSUME TypeOK, [Next]_memoryVars
               PROVE  TypeOK'
    OBVIOUS
  <2>1. CASE Tick
    <3>1. cpuClock \in BOOLEAN
      BY DEF cpuClock, cpu_cen
    <3>2. mem' \in [Block -> [Row -> Word]] /\ dout' \in [Block -> Word]
      BY <2>1, <3>1, MemoryTypes DEF Tick
    <3>3. bout' \in [Block -> Word]
      BY <2>1, <3>2 DEF Tick, Ports, PortB, TypeOK, LramTypeOK
    <3>4. ack' \in BOOLEAN
      BY <2>1 DEF Tick, Ack
    <3>5. ClockTypeOK'
      BY <2>1 DEF Tick, ClockEdge, ClockTypeOK
    <3>6. bus' \in {Idle} \cup Request
      BY <2>1 DEF Tick, Cpu, TypeOK
    <3>7. cmd_valid' \in BOOLEAN
      BY <2>1 DEF Tick, Cpu, TypeOK
    <3>8. image' \in [Adr -> Word]
      <4>1. CASE cpuClock /\ Completes /\ bus.we
        <5>1. Merge(image[bus.adr], bus.dat, bus.sel) \in Word
          BY <4>1, BusTypes, MergeTwice DEF Completes, TypeOK
        <5> QED
          BY <2>1, <4>1, <5>1 DEF Tick, Cpu, TypeOK
      <4> QED
        BY <2>1, <4>1 DEF Tick, Cpu, TypeOK
    <3>9. cfu' \in {"idle", "busy", "answer"} /\ b_addr' \in [Block -> Row]
      BY <2>1 DEF Tick, Cfu, TypeOK
    <3> QED
      BY <3>2, <3>3, <3>4, <3>5, <3>6, <3>7, <3>8, <3>9
      DEF TypeOK, LramTypeOK, Request, Idle
  <2>2. CASE UNCHANGED memoryVars
    BY <2>2 DEF memoryVars, lramVars, TypeOK, LramTypeOK, ClockTypeOK
  <2> QED
    BY <2>1, <2>2 DEF Next
<1> QED
  BY <1>1, <1>2, PTL DEF Spec

-----------------------------------------------------------------------------
(* The block the CPU reads shows the word of the program from the edge     *)
(* that acknowledges it on.                                                *)
ReadInv ==
  bus.stb /\ ~bus.we /\ ack => dat_r(bus.adr) = image[bus.adr]

MemoryInv == TypeOK /\ WritesLand /\ ReadInv

(* A write under way to an address. *)
Pending(a) == bus.stb /\ bus.we /\ bus.adr = a

(* WritesLand where the clock of the CPU never stops. *)
LEMMA WritesLandAt ==
  ASSUME ~DynamicClock
  PROVE  WritesLand <=>
           \A a \in Adr :
             LET written == Merge(image[a], bus.dat, bus.sel)
             IN IF Pending(a) /\ ack THEN At(a) = written
                ELSE At(a) = image[a] \/ (Pending(a) /\ At(a) = written)
  BY DEF WritesLand, Pending, cpuClock, cpu_cen

(* An edge on which no transfer ends leaves the bus as it is: the word     *)
(* read is the program's, a word written is the program's with the bytes   *)
(* of the write, which the edge that ends the transfer writes again.       *)
LEMMA InductiveTick ==
  ASSUME ~DynamicClock, MemoryInv, TypeOK', Tick
  PROVE  WritesLand' /\ ReadInv'
<1> USE DEF MemoryInv
<1>1. cpuClock
  BY DEF cpuClock, cpu_cen
<1>2. PortA(bus, TRUE) /\ Cpu /\ Ack(bus)
  BY <1>1, Zenon DEF Tick
<1>3. ASSUME NEW a \in Adr
      PROVE  At(a)' = IF Pending(a) THEN Merge(At(a), bus.dat, bus.sel)
                      ELSE At(a)
  BY <1>2, <1>3, WordAfterEdge DEF Pending
<1>4. ASSUME NEW a \in Adr, Pending(a)
      PROVE  At(a)' = Merge(image[a], bus.dat, bus.sel)
  <2>1. image[a] \in Word /\ bus.dat \in Word
    BY <1>4, BusTypes DEF Pending, TypeOK
  <2>2. At(a) = image[a] \/ At(a) = Merge(image[a], bus.dat, bus.sel)
    BY <1>4, WritesLandAt
  <2> QED
    BY <1>3, <1>4, <2>1, <2>2, MergeTwice
<1>5. ASSUME NEW a \in Adr, ~Pending(a)
      PROVE  At(a)' = image[a]
  BY <1>3, <1>5, WritesLandAt
<1>6. CASE Completes
  <2>1. ~ack'
    BY <1>2, <1>6 DEF Ack, Completes
  <2>2. ASSUME NEW a \in Adr
        PROVE  At(a)' = image'[a]
    <3>1. CASE Pending(a)
      BY <1>2, <1>4, <1>6, <3>1 DEF Cpu, Pending, TypeOK
    <3>2. CASE ~Pending(a)
      BY <1>2, <1>5, <1>6, <3>2, BusTypes DEF Cpu, Pending, Completes, TypeOK
    <3> QED
      BY <3>1, <3>2
  <2>3. WritesLand'
    BY <2>1, <2>2 DEF WritesLand
  <2> QED
    BY <2>1, <2>3 DEF ReadInv
<1>7. CASE ~Completes
  <2>1. image' = image
    BY <1>2, <1>7 DEF Cpu
  <2>2. CASE bus.stb
    <3>1. bus' = bus /\ ack'
      BY <1>2, <1>7, <2>2 DEF Cpu, Ack, Completes
    <3>2. WritesLand'
      BY <1>4, <1>5, <2>1, <3>1 DEF WritesLand, Pending
    <3>3. ReadInv'
      <4> SUFFICES ASSUME ~bus.we
                   PROVE  dat_r(bus.adr)' = image[bus.adr]
        BY <2>1, <3>1 DEF ReadInv, dat_r
      <4>1. bus.adr \in Adr
        BY BusTypes DEF TypeOK
      <4>2. dat_r(bus.adr)' = At(bus.adr)
        BY <1>2, <3>1, <4>1, Places
        DEF PortA, dat_r, TypeOK, LramTypeOK
      <4> QED
        BY <4>1, <4>2, WritesLandAt DEF Pending
    <3> QED
      BY <3>2, <3>3
  <2>3. CASE ~bus.stb
    <3>1. ~ack'
      BY <1>2, <2>3 DEF Ack
    <3>2. \A a \in Adr : At(a)' = image'[a]
      BY <1>5, <2>1, <2>3 DEF Pending
    <3> QED
      BY <3>1, <3>2 DEF WritesLand, ReadInv
  <2> QED
    BY <2>2, <2>3
<1> QED
  BY <1>6, <1>7

(* Memory, bus and program agree at every edge, if the clock of the CPU    *)
(* does not stop.                                                          *)
THEOREM InductiveInvariant ==
  ASSUME ~DynamicClock
  PROVE  Spec => []MemoryInv
<1>1. Init /\ TypeOK => MemoryInv
  BY DEF Init, LramInit, Idle, MemoryInv, WritesLand, ReadInv
<1>2. MemoryInv /\ TypeOK' /\ [Next]_memoryVars => MemoryInv'
  <2> SUFFICES ASSUME MemoryInv, TypeOK', [Next]_memoryVars
               PROVE  MemoryInv'
    OBVIOUS
  <2>1. CASE Tick
    BY <2>1, InductiveTick DEF MemoryInv
  <2>2. CASE UNCHANGED memoryVars
    <3>1. /\ UNCHANGED <<mem, dout, ack, bus, image>>
          /\ cpuClock /\ cpuClock'
      BY <2>2 DEF memoryVars, lramVars, cpuClock, cpu_cen
    <3>2. WritesLand' /\ ReadInv'
      BY <3>1 DEF MemoryInv, WritesLand, ReadInv, At, dat_r
    <3> QED
      BY <3>2 DEF MemoryInv
  <2> QED
    BY <2>1, <2>2 DEF Next
<1> QED
  BY <1>1, <1>2, TypeCorrect, PTL DEF Spec

(* The CPU reads the word its program last wrote: for every number and     *)
(* size of blocks, with one port or two.                                   *)
THEOREM ReadsAreExact ==
  ASSUME ~DynamicClock
  PROVE  Spec => []ReadsExact
<1>1. MemoryInv => ReadsExact
  BY DEF MemoryInv, ReadInv, ReadsExact, Completes
<1> QED
  BY <1>1, InductiveInvariant, PTL

(* A write is in the memory when it is acknowledged, its other bytes and   *)
(* all other words as they were.                                           *)
THEOREM WritesAreInPlace ==
  ASSUME ~DynamicClock
  PROVE  Spec => []WritesLand
<1>1. MemoryInv => WritesLand
  BY DEF MemoryInv
<1> QED
  BY <1>1, InductiveInvariant, PTL

(* The ports of the CFU and the bus of the CPU mean the same words.        *)
THEOREM PortsMeanTheSame ==
  ASSUME ~DynamicClock
  PROVE  Spec => PortsExact
<1>1. MemoryInv /\ [Next]_memoryVars
      => [DualPort /\ cfuClock => \A b \in Block :
            LET a == Blocks * b_addr[b] + b
            IN \/ bout'[b] = image[a]
               \/ /\ bus.stb /\ bus.we /\ bus.adr = a
                  /\ bout'[b] = Merge(image[a], bus.dat, bus.sel)]_memoryVars
  <2> SUFFICES ASSUME MemoryInv, Tick, DualPort, cfuClock,
                      NEW b \in Block, NEW a, a = Blocks * b_addr[b] + b
               PROVE  \/ bout'[b] = image[a]
                      \/ /\ bus.stb /\ bus.we /\ bus.adr = a
                         /\ bout'[b] = Merge(image[a], bus.dat, bus.sel)
    BY DEF Next
  <2> USE DEF MemoryInv
  <2>1. a \in Adr /\ BlockOf(a) = b /\ RowOf(a) = b_addr[b]
    BY Striping DEF TypeOK
  <2>2. At(a) = mem[b][b_addr[b]] /\ At(a)' = mem'[b][b_addr[b]]
    BY <2>1 DEF At
  <2>3. cpuClock
    BY DEF cpuClock, cpu_cen
  <2>4. At(a)' = IF Pending(a) THEN Merge(At(a), bus.dat, bus.sel) ELSE At(a)
    BY <2>1, <2>3, WordAfterEdge DEF Tick, Pending
  <2>5. bout'[b] \in {At(a), At(a)'}
    BY <2>2 DEF Tick, Ports, PortB
  <2>6. CASE Pending(a)
    <3>1. image[a] \in Word /\ bus.dat \in Word
      BY <2>1, <2>6, BusTypes DEF Pending, TypeOK
    <3>2. At(a) = image[a] \/ At(a) = Merge(image[a], bus.dat, bus.sel)
      BY <2>1, <2>6, WritesLandAt
    <3> QED
      BY <2>4, <2>5, <2>6, <3>1, <3>2, MergeTwice DEF Pending
  <2>7. CASE ~Pending(a)
    BY <2>1, <2>4, <2>5, <2>7, WritesLandAt
  <2> QED
    BY <2>6, <2>7
<1> QED
  BY <1>1, InductiveInvariant, PTL DEF Spec, PortsExact
=============================================================================
