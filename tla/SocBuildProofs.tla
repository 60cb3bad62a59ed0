---------------------------- MODULE SocBuildProofs ---------------------------
(***************************************************************************)
(* Proofs about SocBuild, for every option of every program and files of   *)
(* any size.  First what a sequence of calls makes, asks for and maps, and *)
(* when all of it can be made; then each program, piece by piece; then the *)
(* machine that makes the calls one by one.                                *)
(***************************************************************************)
EXTENDS SocBuild, SequenceTheorems, TLAPS

(* The kinds of things, and the names of the programs' things, pads and    *)
(* windows: what a sequence of calls is a sequence of.                     *)
Kinds ==
  {"attr", "clock", "b_clkens", "contents", "initialized", "config", "const",
   "sys", "cfu", "cfu_ports", "lram.a", "arena.a", "arena.b", "CPUS", "module",
   "file", "board", "extension"}

Pads == HpsPads \cup SimPads \cup ArtyPads \cup OrangecrabPads
        \cup {"serial2", "pmoda"}

Attributes ==
  {"crg", "crg.sys_clk_enable", "crg.idelay", "crg.stop", "crg.reset", "cpu",
   "cpu.cfu_bus", "cpu.cfu_params", "cpu.debug_bus", "lram", "arena", "rom",
   "spiflash_mmap", "spiflash_phy", "timer0", "sdrphy", "ddrphy", "ethphy",
   "ethmac", "ethernet", "etherbone", "i2c", "gpio", "analyzer", "cfu_mem",
   "leds", "sdcard"}

Names ==
  Pads \cup Attributes
  \cup {"osc", "usb_12", "usb_48", "main_ram", "SOC_SEPARATE_ARENA", "cpu_cen",
        "cfu_cen", "1", "4", "VexRiscvCFURAM", "SDRAM_TEST_DISABLE",
        "MEMTEST_DATA_SIZE", "MEMTEST_ADDR_SIZE", "ROM_BOOT_ADDRESS",
        "LOCALIP",
        "REMOTEIP", "run", "bitstream", "fresh", "loaded"}

Things == Kinds \X Names

Slaves == {"none", "lram", "arena", "rom", "csr", "spiflash", "vexriscv_debug",
           "main_ram", "ethmac"}

Windows == [slave : Slaves, origin : Nat, size : Nat]

CallType ==
  [ok : BOOLEAN, needs : SUBSET Things, pads : SUBSET Pads,
   makes : SUBSET Things, maps : SUBSET Windows, blocks : Nat]

(* What the calls of a program make, ask for and map, and what they have   *)
(* made and asked for before the i-th.                                     *)
Made(s) == {x \in Things : \E i \in DOMAIN s : x \in s[i].makes}
Asked(s) == {p \in Pads : \E i \in DOMAIN s : p \in s[i].pads}
Mapped(s) == {w \in Windows : \E i \in DOMAIN s : w \in s[i].maps}
MadeBefore(s, i) == {x \in Things : \E j \in 1 .. i - 1 : x \in s[j].makes}
AskedBefore(s, i) == {p \in Pads : \E j \in 1 .. i - 1 : p \in s[j].pads}

(* A call can be made, where has has been made and used asked for. *)
Fits(c, known, has, used) ==
  /\ c.ok /\ c.needs \subseteq has
  /\ \A p \in c.pads :
       (p \in known \/ <<"extension", p>> \in has) /\ p \notin used

(* So can every call of a program, in its order. *)
Runs(s, known, has, used) ==
  \A i \in DOMAIN s :
    Fits(s[i], known, has \cup MadeBefore(s, i), used \cup AskedBefore(s, i))

-----------------------------------------------------------------------------
(* Programs one after the other *)

(* The parts of two sequences put together. *)
LEMMA ConcatParts ==
  ASSUME NEW s \in Seq(CallType), NEW r \in Seq(CallType)
  PROVE  /\ s \o r \in Seq(CallType)
         /\ DOMAIN (s \o r) = 1 .. Len(s) + Len(r)
         /\ DOMAIN s = 1 .. Len(s) /\ DOMAIN r = 1 .. Len(r)
         /\ \A i \in 1 .. Len(s) : (s \o r)[i] = s[i]
         /\ \A i \in 1 .. Len(r) : (s \o r)[Len(s) + i] = r[i]
         /\ \A i \in 1 .. Len(s) + Len(r) :
              i \in 1 .. Len(s) \/ \E j \in 1 .. Len(r) : i = Len(s) + j
  <1>1. \A i \in 1 .. Len(s) + Len(r) :
          i \notin 1 .. Len(s) =>
            i - Len(s) \in 1 .. Len(r) /\ i = Len(s) + (i - Len(s))
    OBVIOUS
  <1>2. \A i \in 1 .. Len(s) + Len(r) :
          i \in 1 .. Len(s) \/ \E j \in 1 .. Len(r) : i = Len(s) + j
    BY <1>1
  <1> QED BY <1>2

(* What both make is made. *)
LEMMA MadeConcat ==
  ASSUME NEW s \in Seq(CallType), NEW r \in Seq(CallType)
  PROVE  Made(s \o r) = Made(s) \cup Made(r)
  <1>1. ASSUME NEW x \in Made(s \o r) PROVE x \in Made(s) \cup Made(r)
    <2>1. PICK i \in 1 .. Len(s) + Len(r) : x \in (s \o r)[i].makes
      BY ConcatParts DEF Made
    <2>2. CASE i \in 1 .. Len(s) BY <2>1, <2>2, ConcatParts DEF Made
    <2>3. CASE \E j \in 1 .. Len(r) : i = Len(s) + j
      BY <2>1, <2>3, ConcatParts DEF Made
    <2> QED BY <2>2, <2>3, ConcatParts
  <1>2. ASSUME NEW x \in Made(s) PROVE x \in Made(s \o r)
    <2>1. PICK i \in 1 .. Len(s) : x \in s[i].makes
      BY ConcatParts DEF Made
    <2>2. i \in 1 .. Len(s) + Len(r) /\ x \in (s \o r)[i].makes
      BY <2>1, ConcatParts
    <2> QED BY <2>2, ConcatParts DEF Made
  <1>3. ASSUME NEW x \in Made(r) PROVE x \in Made(s \o r)
    <2>1. PICK i \in 1 .. Len(r) : x \in r[i].makes
      BY ConcatParts DEF Made
    <2>2. /\ Len(s) + i \in 1 .. Len(s) + Len(r)
          /\ x \in (s \o r)[Len(s) + i].makes
      BY <2>1, ConcatParts
    <2> QED BY <2>2, ConcatParts DEF Made
  <1> QED BY <1>1, <1>2, <1>3

(* What both ask for is asked for. *)
LEMMA AskedConcat ==
  ASSUME NEW s \in Seq(CallType), NEW r \in Seq(CallType)
  PROVE  Asked(s \o r) = Asked(s) \cup Asked(r)
  <1>1. ASSUME NEW x \in Asked(s \o r) PROVE x \in Asked(s) \cup Asked(r)
    <2>1. PICK i \in 1 .. Len(s) + Len(r) : x \in (s \o r)[i].pads
      BY ConcatParts DEF Asked
    <2>2. CASE i \in 1 .. Len(s) BY <2>1, <2>2, ConcatParts DEF Asked
    <2>3. CASE \E j \in 1 .. Len(r) : i = Len(s) + j
      BY <2>1, <2>3, ConcatParts DEF Asked
    <2> QED BY <2>2, <2>3, ConcatParts
  <1>2. ASSUME NEW x \in Asked(s) PROVE x \in Asked(s \o r)
    <2>1. PICK i \in 1 .. Len(s) : x \in s[i].pads
      BY ConcatParts DEF Asked
    <2>2. i \in 1 .. Len(s) + Len(r) /\ x \in (s \o r)[i].pads
      BY <2>1, ConcatParts
    <2> QED BY <2>2, ConcatParts DEF Asked
  <1>3. ASSUME NEW x \in Asked(r) PROVE x \in Asked(s \o r)
    <2>1. PICK i \in 1 .. Len(r) : x \in r[i].pads
      BY ConcatParts DEF Asked
    <2>2. /\ Len(s) + i \in 1 .. Len(s) + Len(r)
          /\ x \in (s \o r)[Len(s) + i].pads
      BY <2>1, ConcatParts
    <2> QED BY <2>2, ConcatParts DEF Asked
  <1> QED BY <1>1, <1>2, <1>3

(* What both map is mapped. *)
LEMMA MappedConcat ==
  ASSUME NEW s \in Seq(CallType), NEW r \in Seq(CallType)
  PROVE  Mapped(s \o r) = Mapped(s) \cup Mapped(r)
  <1>1. ASSUME NEW x \in Mapped(s \o r) PROVE x \in Mapped(s) \cup Mapped(r)
    <2>1. PICK i \in 1 .. Len(s) + Len(r) : x \in (s \o r)[i].maps
      BY ConcatParts DEF Mapped
    <2>2. CASE i \in 1 .. Len(s) BY <2>1, <2>2, ConcatParts DEF Mapped
    <2>3. CASE \E j \in 1 .. Len(r) : i = Len(s) + j
      BY <2>1, <2>3, ConcatParts DEF Mapped
    <2> QED BY <2>2, <2>3, ConcatParts
  <1>2. ASSUME NEW x \in Mapped(s) PROVE x \in Mapped(s \o r)
    <2>1. PICK i \in 1 .. Len(s) : x \in s[i].maps
      BY ConcatParts DEF Mapped
    <2>2. i \in 1 .. Len(s) + Len(r) /\ x \in (s \o r)[i].maps
      BY <2>1, ConcatParts
    <2> QED BY <2>2, ConcatParts DEF Mapped
  <1>3. ASSUME NEW x \in Mapped(r) PROVE x \in Mapped(s \o r)
    <2>1. PICK i \in 1 .. Len(r) : x \in r[i].maps
      BY ConcatParts DEF Mapped
    <2>2. /\ Len(s) + i \in 1 .. Len(s) + Len(r)
          /\ x \in (s \o r)[Len(s) + i].maps
      BY <2>1, ConcatParts
    <2> QED BY <2>2, ConcatParts DEF Mapped
  <1> QED BY <1>1, <1>2, <1>3


(* What comes before a call of the second program is the first program and *)
(* what comes before it in the second.                                     *)
LEMMA BeforeConcat ==
  ASSUME NEW s \in Seq(CallType), NEW r \in Seq(CallType)
  PROVE  /\ \A i \in 1 .. Len(s) : /\ MadeBefore(s \o r, i) = MadeBefore(s, i)
                                   /\ AskedBefore(s \o r, i)
                                        = AskedBefore(s, i)
         /\ \A i \in 1 .. Len(r) :
              /\ MadeBefore(s \o r, Len(s) + i) = Made(s) \cup MadeBefore(r, i)
              /\ AskedBefore(s \o r, Len(s) + i)
                   = Asked(s) \cup AskedBefore(r, i)
  <1>1. ASSUME NEW i \in 1 .. Len(s)
        PROVE  /\ MadeBefore(s \o r, i) = MadeBefore(s, i)
               /\ AskedBefore(s \o r, i) = AskedBefore(s, i)
    <2>1. \A j \in 1 .. i - 1 : (s \o r)[j] = s[j]
      BY ConcatParts
    <2> QED BY <2>1 DEF MadeBefore, AskedBefore
  <1>2. ASSUME NEW i \in 1 .. Len(r)
        PROVE  /\ MadeBefore(s \o r, Len(s) + i)
                    = Made(s) \cup MadeBefore(r, i)
               /\ AskedBefore(s \o r, Len(s) + i)
                    = Asked(s) \cup AskedBefore(r, i)
    <2>1. \A j \in 1 .. Len(s) + i - 1 :
            \/ j \in 1 .. Len(s) /\ (s \o r)[j] = s[j]
            \/ \E k \in 1 .. i - 1 : (s \o r)[j] = r[k]
      <3>1. ASSUME NEW j \in 1 .. Len(s) + i - 1, j \notin 1 .. Len(s)
            PROVE  \E k \in 1 .. i - 1 : (s \o r)[j] = r[k]
        <4>1. j - Len(s) \in 1 .. i - 1 /\ j - Len(s) \in 1 .. Len(r)
              /\ j = Len(s) + (j - Len(s))
          BY <3>1
        <4> QED BY <4>1, ConcatParts
      <3> QED BY <3>1, ConcatParts
    <2>2. \A j \in 1 .. Len(s) :
            j \in 1 .. Len(s) + i - 1 /\ (s \o r)[j] = s[j]
      BY ConcatParts
    <2>3. \A k \in 1 .. i - 1 :
            Len(s) + k \in 1 .. Len(s) + i - 1 /\ (s \o r)[Len(s) + k] = r[k]
      BY ConcatParts
    <2>4. DOMAIN s = 1 .. Len(s)
      BY ConcatParts
    <2>5. MadeBefore(s \o r, Len(s) + i) = Made(s) \cup MadeBefore(r, i)
      <3>1. ASSUME NEW x \in MadeBefore(s \o r, Len(s) + i)
            PROVE  x \in Made(s) \cup MadeBefore(r, i)
        <4>1. PICK j \in 1 .. Len(s) + i - 1 : x \in (s \o r)[j].makes
          BY DEF MadeBefore
        <4> QED BY <2>1, <2>4, <4>1 DEF Made, MadeBefore
      <3>2. ASSUME NEW x \in Made(s) PROVE x \in MadeBefore(s \o r, Len(s) + i)
        BY <2>2, <2>4 DEF Made, MadeBefore
      <3>3. ASSUME NEW x \in MadeBefore(r, i)
            PROVE  x \in MadeBefore(s \o r, Len(s) + i)
        <4>1. PICK k \in 1 .. i - 1 : x \in r[k].makes
          BY DEF MadeBefore
        <4>2. /\ Len(s) + k \in 1 .. Len(s) + i - 1
              /\ x \in (s \o r)[Len(s) + k].makes
          BY <2>3, <4>1
        <4> QED BY <4>2 DEF MadeBefore
      <3> QED BY <3>1, <3>2, <3>3
    <2>6. AskedBefore(s \o r, Len(s) + i) = Asked(s) \cup AskedBefore(r, i)
      <3>1. ASSUME NEW x \in AskedBefore(s \o r, Len(s) + i)
            PROVE  x \in Asked(s) \cup AskedBefore(r, i)
        <4>1. PICK j \in 1 .. Len(s) + i - 1 : x \in (s \o r)[j].pads
          BY DEF AskedBefore
        <4> QED BY <2>1, <2>4, <4>1 DEF Asked, AskedBefore
      <3>2. ASSUME NEW x \in Asked(s)
            PROVE x \in AskedBefore(s \o r, Len(s) + i)
        BY <2>2, <2>4 DEF Asked, AskedBefore
      <3>3. ASSUME NEW x \in AskedBefore(r, i)
            PROVE  x \in AskedBefore(s \o r, Len(s) + i)
        <4>1. x \in Pads /\ \E k \in 1 .. i - 1 : x \in r[k].pads
          BY DEF AskedBefore
        <4>2. PICK k \in 1 .. i - 1 : x \in r[k].pads
          BY <4>1
        <4>3. /\ Len(s) + k \in 1 .. Len(s) + i - 1
              /\ x \in (s \o r)[Len(s) + k].pads
          BY <2>3, <4>2
        <4> QED BY <4>1, <4>3 DEF AskedBefore
      <3> QED BY <3>1, <3>2, <3>3
    <2> QED BY <2>5, <2>6
  <1> QED BY <1>1, <1>2

(* The second can be made after the first, given what the first made. *)
LEMMA RunsConcat ==
  ASSUME NEW s \in Seq(CallType), NEW r \in Seq(CallType),
         NEW known, NEW has, NEW used
  PROVE  Runs(s \o r, known, has, used)
           <=> /\ Runs(s, known, has, used)
               /\ Runs(r, known, has \cup Made(s), used \cup Asked(s))
  <1> DEFINE FitsAt(i) == Fits((s \o r)[i], known,
                               has \cup MadeBefore(s \o r, i),
                               used \cup AskedBefore(s \o r, i))
  <1>1. ASSUME NEW i \in 1 .. Len(s)
        PROVE  FitsAt(i) <=> Fits(s[i], known, has \cup MadeBefore(s, i),
                                  used \cup AskedBefore(s, i))
    <2>1. /\ (s \o r)[i] = s[i]
          /\ MadeBefore(s \o r, i) = MadeBefore(s, i)
          /\ AskedBefore(s \o r, i) = AskedBefore(s, i)
      BY ConcatParts, BeforeConcat
    <2> QED BY <2>1
  <1>2. ASSUME NEW i \in 1 .. Len(r)
        PROVE  FitsAt(Len(s) + i)
                 <=> Fits(r[i], known,
                          (has \cup Made(s)) \cup MadeBefore(r, i),
                          (used \cup Asked(s)) \cup AskedBefore(r, i))
    <2>1. has \cup (Made(s) \cup MadeBefore(r, i))
            = (has \cup Made(s)) \cup MadeBefore(r, i)
      OBVIOUS
    <2>2. used \cup (Asked(s) \cup AskedBefore(r, i))
            = (used \cup Asked(s)) \cup AskedBefore(r, i)
      OBVIOUS
    <2>3. /\ (s \o r)[Len(s) + i] = r[i]
          /\ MadeBefore(s \o r, Len(s) + i) = Made(s) \cup MadeBefore(r, i)
          /\ AskedBefore(s \o r, Len(s) + i) = Asked(s) \cup AskedBefore(r, i)
      BY ConcatParts, BeforeConcat
    <2> QED BY <2>1, <2>2, <2>3
  <1>3. Runs(s \o r, known, has, used)
          <=> \A i \in 1 .. Len(s) + Len(r) : FitsAt(i)
    BY ConcatParts DEF Runs
  <1>4. Runs(s, known, has, used) <=> \A i \in 1 .. Len(s) : FitsAt(i)
    <2> HIDE DEF FitsAt
    <2> QED BY <1>1, ConcatParts DEF Runs
  <1>5. Runs(r, known, has \cup Made(s), used \cup Asked(s))
          <=> \A i \in 1 .. Len(r) : FitsAt(Len(s) + i)
    <2> HIDE DEF FitsAt
    <2> QED BY <1>2, ConcatParts DEF Runs
  <1>6. (\A i \in 1 .. Len(s) + Len(r) : FitsAt(i))
          <=> /\ \A i \in 1 .. Len(s) : FitsAt(i)
              /\ \A i \in 1 .. Len(r) : FitsAt(Len(s) + i)
    <2> HIDE DEF FitsAt
    <2>1. ASSUME NEW i \in 1 .. Len(r)
          PROVE Len(s) + i \in 1 .. Len(s) + Len(r)
      OBVIOUS
    <2>2. ASSUME NEW i \in 1 .. Len(s) PROVE i \in 1 .. Len(s) + Len(r)
      OBVIOUS
    <2> QED BY <2>1, <2>2, ConcatParts
  <1> HIDE DEF FitsAt
  <1> QED BY <1>3, <1>4, <1>5, <1>6

(* The blocks of LRAM that a program takes, call by call. *)
Takes(s, n) ==
  \E f \in [0 .. Len(s) -> Int] :
    /\ f[0] = 0 /\ f[Len(s)] = n
    /\ \A i \in 1 .. Len(s) : f[i] = f[i - 1] + s[i].blocks

(* A program is its first call and then the others. *)
LEMMA HeadAndTail ==
  ASSUME NEW s \in Seq(CallType), s # <<>>
  PROVE  /\ Head(s) \in CallType /\ Tail(s) \in Seq(CallType)
         /\ s = << Head(s) >> \o Tail(s)
  OBVIOUS

(* The blocks of both are taken. *)
LEMMA TakesConcat ==
  ASSUME NEW s \in Seq(CallType), NEW r \in Seq(CallType),
         NEW m \in Int, NEW n \in Int, Takes(s, m), Takes(r, n)
  PROVE  Takes(s \o r, m + n)
  <1>1. PICK f \in [0 .. Len(s) -> Int] :
          /\ f[0] = 0 /\ f[Len(s)] = m
          /\ \A i \in 1 .. Len(s) : f[i] = f[i - 1] + s[i].blocks
    BY DEF Takes
  <1>2. PICK g \in [0 .. Len(r) -> Int] :
          /\ g[0] = 0 /\ g[Len(r)] = n
          /\ \A i \in 1 .. Len(r) : g[i] = g[i - 1] + r[i].blocks
    BY DEF Takes
  <1> DEFINE h == [i \in 0 .. Len(s) + Len(r) |->
                     IF i <= Len(s) THEN f[i] ELSE m + g[i - Len(s)]]
  <1>3. \A i \in 0 .. Len(s) : h[i] = f[i]
    OBVIOUS
  <1>4. ASSUME NEW i \in 0 .. Len(r) PROVE h[Len(s) + i] = m + g[i]
    <2>1. CASE i = 0 BY <1>1, <1>2, <2>1
    <2>2. CASE i # 0
      <3>1. Len(s) + i \in 0 .. Len(s) + Len(r) /\ ~(Len(s) + i <= Len(s))
            /\ Len(s) + i - Len(s) = i
        BY <2>2
      <3> QED BY <3>1
    <2> QED BY <2>1, <2>2
  <1>5. h \in [0 .. Len(s) + Len(r) -> Int]
    <2>1. ASSUME NEW i \in 0 .. Len(s) + Len(r), ~(i <= Len(s))
          PROVE  i - Len(s) \in 0 .. Len(r)
      BY <2>1
    <2> QED BY <2>1
  <1> HIDE DEF h
  <1>6. h[0] = 0 /\ h[Len(s) + Len(r)] = m + n
    BY <1>1, <1>2, <1>3, <1>4
  <1>7. ASSUME NEW i \in 1 .. Len(s) + Len(r)
        PROVE  h[i] = h[i - 1] + (s \o r)[i].blocks
    <2>1. CASE i \in 1 .. Len(s)
      <3>1. i \in 0 .. Len(s) /\ i - 1 \in 0 .. Len(s) /\ (s \o r)[i] = s[i]
        BY <2>1, ConcatParts
      <3> QED BY <1>1, <1>3, <2>1, <3>1
    <2>2. CASE \E j \in 1 .. Len(r) : i = Len(s) + j
      <3>1. PICK j \in 1 .. Len(r) : i = Len(s) + j
        BY <2>2
      <3>2. /\ j \in 0 .. Len(r) /\ j - 1 \in 0 .. Len(r)
            /\ i - 1 = Len(s) + (j - 1) /\ (s \o r)[i] = r[j]
        BY <3>1, ConcatParts
      <3>3. h[i] = m + g[j] /\ h[i - 1] = m + g[j - 1]
        BY <1>4, <3>1, <3>2
      <3>4. r[j] \in CallType
        BY <3>2
      <3>5. r[j].blocks \in Int
        BY <3>4 DEF CallType
      <3>6. g[j] = g[j - 1] + r[j].blocks /\ g[j - 1] \in Int
        BY <1>2, <3>2
      <3> QED BY <3>2, <3>3, <3>5, <3>6
    <2> QED BY <2>1, <2>2, ConcatParts
  <1>8. Len(s \o r) = Len(s) + Len(r)
    OBVIOUS
  <1> QED BY <1>5, <1>6, <1>7, <1>8 DEF Takes

(* What is left once a call has been made. *)
LEMMA TakesTail ==
  ASSUME NEW c \in CallType, NEW s \in Seq(CallType), NEW n \in Int,
         Takes(<< c >> \o s, n)
  PROVE  Takes(s, n - c.blocks)
  <1>1. Len(<< c >> \o s) = Len(s) + 1
    OBVIOUS
  <1>2. PICK f \in [0 .. Len(s) + 1 -> Int] :
          /\ f[0] = 0 /\ f[Len(s) + 1] = n
          /\ \A i \in 1 .. Len(s) + 1 : f[i]
               = f[i - 1] + (<< c >> \o s)[i].blocks
    BY <1>1 DEF Takes
  <1> DEFINE g == [i \in 0 .. Len(s) |-> f[i + 1] - c.blocks]
  <1>3. c.blocks \in Int
    BY DEF CallType
  <1>4. f[1] = c.blocks
    <2>1. (<< c >> \o s)[1] = c
      OBVIOUS
    <2> QED BY <1>2, <1>3, <2>1
  <1>5. g \in [0 .. Len(s) -> Int]
    BY <1>3
  <1>6. g[0] = 0 /\ g[Len(s)] = n - c.blocks
    BY <1>2, <1>3, <1>4
  <1>7. ASSUME NEW i \in 1 .. Len(s)
        PROVE  g[i] = g[i - 1] + s[i].blocks
    <2>1. (<< c >> \o s)[i + 1] = s[i] /\ s[i] \in CallType
      BY ConcatParts
    <2>2. s[i].blocks \in Int
      BY <2>1 DEF CallType
    <2>3. i + 1 \in 1 .. Len(s) + 1 /\ i \in 0 .. Len(s) + 1 /\ (i + 1) - 1 = i
      OBVIOUS
    <2>4. f[i + 1] = f[i] + s[i].blocks /\ f[i] \in Int
      BY <1>2, <2>1, <2>3
    <2>5. g[i] = f[i + 1] - c.blocks /\ g[i - 1] = f[i] - c.blocks
      OBVIOUS
    <2> QED BY <1>3, <2>2, <2>4, <2>5
  <1> HIDE DEF g
  <1> QED BY <1>5, <1>6, <1>7 DEF Takes

(* One call takes its own blocks. *)
LEMMA TakesOne ==
  ASSUME NEW c \in CallType
  PROVE  Takes(<< c >>, c.blocks)
  <1> DEFINE f == [i \in 0 .. 1 |-> IF i = 0 THEN 0 ELSE c.blocks]
  <1>1. c.blocks \in Int
    BY DEF CallType
  <1>2. f \in [0 .. 1 -> Int] /\ f[0] = 0 /\ f[1] = c.blocks
    BY <1>1
  <1>3. Len(<< c >>) = 1 /\ << c >>[1] = c
    OBVIOUS
  <1> HIDE DEF f
  <1>4. \A i \in 1 .. 1 : f[i] = f[i - 1] + << c >>[i].blocks
    BY <1>1, <1>2, <1>3
  <1> QED BY <1>2, <1>3, <1>4 DEF Takes

(* No call takes no block. *)
LEMMA TakesNothing ==
  /\ Takes(<<>>, 0)
  /\ \A n : Takes(<<>>, n) => n = 0
  <1> DEFINE f == [i \in 0 .. 0 |-> 0]
  <1>1. f \in [0 .. 0 -> Int] /\ f[0] = 0
    OBVIOUS
  <1>2. Len(<<>>) = 0
    OBVIOUS
  <1>3. \A i \in 1 .. 0 : FALSE
    OBVIOUS
  <1> HIDE DEF f
  <1>4. Takes(<<>>, 0)
    BY <1>1, <1>2, <1>3 DEF Takes
  <1>5. ASSUME NEW n, Takes(<<>>, n) PROVE n = 0
    BY <1>2, <1>5 DEF Takes
  <1> QED BY <1>4, <1>5

(* What a program is, seen from outside: a sequence of calls that makes,   *)
(* asks for and maps these, and takes that many blocks.                    *)
Does(s, made, asked, mapped, n) ==
  /\ s \in Seq(CallType) /\ n \in Int
  /\ Made(s) = made /\ Asked(s) = asked /\ Mapped(s) = mapped /\ Takes(s, n)

(* Two programs, one after the other, do what both do. *)
LEMMA DoesConcat ==
  ASSUME NEW s, NEW r, NEW m, NEW p, NEW w, NEW n,
         NEW mm, NEW pp, NEW ww, NEW nn,
         Does(s, m, p, w, n), Does(r, mm, pp, ww, nn)
  PROVE  Does(s \o r, m \cup mm, p \cup pp, w \cup ww, n + nn)
  <1>1. /\ s \in Seq(CallType) /\ n \in Int /\ Takes(s, n)
        /\ Made(s) = m /\ Asked(s) = p /\ Mapped(s) = w
    BY DEF Does
  <1>2. /\ r \in Seq(CallType) /\ nn \in Int /\ Takes(r, nn)
        /\ Made(r) = mm /\ Asked(r) = pp /\ Mapped(r) = ww
    BY DEF Does
  <1>3. s \o r \in Seq(CallType) /\ n + nn \in Int
    BY <1>1, <1>2
  <1>4. Takes(s \o r, n + nn)
    BY <1>1, <1>2, TakesConcat
  <1>5. /\ Made(s \o r) = m \cup mm /\ Asked(s \o r) = p \cup pp
        /\ Mapped(s \o r) = w \cup ww
    BY <1>1, <1>2, MadeConcat, AskedConcat, MappedConcat
  <1> QED BY <1>3, <1>4, <1>5 DEF Does

(* The same for whether they can be made. *)
LEMMA RunsThen ==
  ASSUME NEW s, NEW r, NEW m, NEW p, NEW w, NEW n,
         NEW mm, NEW pp, NEW ww, NEW nn,
         Does(s, m, p, w, n), Does(r, mm, pp, ww, nn),
         NEW known, NEW has, NEW used
  PROVE  Runs(s \o r, known, has, used)
           <=> Runs(s, known, has, used)
             /\ Runs(r, known, has \cup m, used \cup p)
  BY RunsConcat DEF Does

(* No call does nothing. *)
LEMMA DoesNothing == Does(<<>>, {}, {}, {}, 0)
  BY TakesNothing DEF Does, Made, Asked, Mapped

(* What a step that is taken only sometimes makes, asks for or maps.       *)
If(b, things) == IF b THEN things ELSE {}

(* Calls made under a condition. *)
LEMMA DoesIf ==
  ASSUME NEW b, NEW s, NEW m, NEW p, NEW w, Does(s, m, p, w, 0),
         NEW known, NEW has, NEW used
  PROVE  /\ Does(When(b, s), If(b, m), If(b, p), If(b, w), 0)
         /\ Runs(When(b, s), known, has, used)
              <=> (b => Runs(s, known, has, used))
  <1>1. CASE b
    <2>1. /\ When(b, s) = s
          /\ If(b, m) = m /\ If(b, p) = p /\ If(b, w) = w
      BY <1>1 DEF When, If
    <2> QED BY <1>1, <2>1
  <1>2. CASE ~b
    <2>1. /\ When(b, s) = <<>>
          /\ If(b, m) = {} /\ If(b, p) = {} /\ If(b, w) = {}
      BY <1>2 DEF When, If
    <2> QED BY <1>2, <2>1, DoesNothing DEF Runs
  <1> QED BY <1>1, <1>2

(* Nothing, whether or not the condition holds. *)
LEMMA IfNothing ==
  ASSUME NEW b
  PROVE  If(b, {}) = {}
  BY DEF If

(* The pads are the platform's or an extension's, and nobody has them.     *)
Free(pads, known, has, used) ==
  \A p \in pads : (p \in known \/ <<"extension", p>> \in has) /\ p \notin used

(* A single call of any kind. *)
LEMMA DoesCall ==
  ASSUME NEW ok \in BOOLEAN, NEW needs \in SUBSET Things,
         NEW pads \in SUBSET Pads, NEW makes \in SUBSET Things,
         NEW maps \in SUBSET Windows, NEW blocks \in Nat,
         NEW known, NEW has, NEW used
  PROVE  /\ Does(<< Call(ok, needs, pads, makes, maps, blocks) >>,
                 makes, pads, maps, blocks)
         /\ Runs(<< Call(ok, needs, pads, makes, maps, blocks) >>, known, has,
                 used)
              <=> ok /\ needs \subseteq has /\ Free(pads, known, has, used)
  <1> DEFINE c == Call(ok, needs, pads, makes, maps, blocks)
  <1>1. /\ c \in CallType
        /\ c.ok = ok /\ c.needs = needs /\ c.pads = pads /\ c.makes = makes
        /\ c.maps = maps /\ c.blocks = blocks
    BY DEF Call, CallType
  <1> HIDE DEF c
  <1>2. << c >> \in Seq(CallType) /\ Len(<< c >>) = 1 /\ << c >>[1] = c
        /\ DOMAIN << c >> = {1}
    BY <1>1
  <1>3. Does(<< c >>, makes, pads, maps, blocks)
    <2>1. Made(<< c >>) = makes
      BY <1>1, <1>2 DEF Made
    <2>2. Asked(<< c >>) = pads
      BY <1>1, <1>2 DEF Asked
    <2>3. Mapped(<< c >>) = maps
      BY <1>1, <1>2 DEF Mapped
    <2> QED BY <1>1, <1>2, <2>1, <2>2, <2>3, TakesOne DEF Does
  <1>4. Runs(<< c >>, known, has, used)
          <=> ok /\ needs \subseteq has /\ Free(pads, known, has, used)
    <2>1. MadeBefore(<< c >>, 1) = {} /\ AskedBefore(<< c >>, 1) = {}
      BY DEF MadeBefore, AskedBefore
    <2>2. has \cup {} = has /\ used \cup {} = used
      OBVIOUS
    <2>3. Runs(<< c >>, known, has, used) <=> Fits(c, known, has, used)
      BY <1>2, <2>1, <2>2 DEF Runs
    <2> QED BY <1>1, <2>3 DEF Fits, Free
  <1> QED BY <1>3, <1>4 DEF c

(* The empty sets are sets of things, pads and windows. *)
LEMMA EmptySets ==
  ASSUME NEW known, NEW has, NEW used
  PROVE  /\ {} \in SUBSET Things /\ {} \in SUBSET Pads /\ {} \in SUBSET Windows
         /\ Free({}, known, has, used) /\ {} \subseteq has
  BY DEF Free

(* A call that makes things. *)
LEMMA DoesMakes ==
  ASSUME NEW things \in SUBSET Things, NEW known, NEW has, NEW used
  PROVE  /\ Does(<< Makes(things) >>, things, {}, {}, 0)
         /\ Runs(<< Makes(things) >>, known, has, used)
  BY EmptySets, DoesCall DEF Makes

(* A call that makes things from other things. *)
LEMMA DoesFrom ==
  ASSUME NEW needed \in SUBSET Things, NEW things \in SUBSET Things,
         NEW known, NEW has, NEW used
  PROVE  /\ Does(<< From(needed, things) >>, things, {}, {}, 0)
         /\ Runs(<< From(needed, things) >>, known, has, used)
              <=> needed \subseteq has
  BY EmptySets, DoesCall DEF From

(* A call that asks for pads. *)
LEMMA DoesRequests ==
  ASSUME NEW pads \in SUBSET Pads, NEW things \in SUBSET Things,
         NEW known, NEW has, NEW used
  PROVE  /\ Does(<< Requests(pads, things) >>, things, pads, {}, 0)
         /\ Runs(<< Requests(pads, things) >>, known, has, used)
              <=> Free(pads, known, has, used)
  BY EmptySets, DoesCall DEF Requests

(* A call that asserts. *)
LEMMA DoesAsserts ==
  ASSUME NEW b \in BOOLEAN, NEW known, NEW has, NEW used
  PROVE  /\ Does(<< Asserts(b) >>, {}, {}, {}, 0)
         /\ Runs(<< Asserts(b) >>, known, has, used) <=> b
  BY EmptySets, DoesCall DEF Asserts

(* A call that maps a window. *)
LEMMA DoesMaps ==
  ASSUME NEW needed \in SUBSET Things, NEW window \in Windows,
         NEW known, NEW has, NEW used
  PROVE  /\ Does(<< Maps(needed, window) >>, {}, {}, {window}, 0)
         /\ Runs(<< Maps(needed, window) >>, known, has, used)
              <=> needed \subseteq has
  BY EmptySets, DoesCall DEF Maps

(* Adding nothing. *)
LEMMA NoMore ==
  ASSUME NEW s
  PROVE  s \cup {} = s /\ {} \cup s = s
  OBVIOUS

(* Two calls are one call after the other. *)
LEMMA TwoCalls ==
  ASSUME NEW c, NEW d
  PROVE  << c, d >> = << c >> \o << d >>
  <1> DEFINE s == << c >> \o << d >>
  <1>1. << c, d >> \in Seq({c, d}) /\ s \in Seq({c, d})
    OBVIOUS
  <1>2. Len(<< c, d >>) = 2 /\ << c, d >>[1] = c /\ << c, d >>[2] = d
    OBVIOUS
  <1>3. Len(s) = 2 /\ s[1] = c /\ s[2] = d
    OBVIOUS
  <1> HIDE DEF s
  <1>4. \A i \in 1 .. 2 : << c, d >>[i] = s[i]
    BY <1>2, <1>3
  <1>5. << c, d >> = s
    BY <1>1, <1>2, <1>3, <1>4, SeqEqual
  <1> QED BY <1>5 DEF s

(* And so are three. *)
LEMMA ThreeCalls ==
  ASSUME NEW c, NEW d, NEW e
  PROVE  << c, d, e >> = (<< c >> \o << d >>) \o << e >>
  <1> DEFINE s == << c, d >> \o << e >>
  <1>1. << c, d, e >> \in Seq({c, d, e}) /\ s \in Seq({c, d, e})
    OBVIOUS
  <1>2. /\ Len(<< c, d, e >>) = 3
        /\ << c, d, e >>[1] = c /\ << c, d, e >>[2] = d /\ << c, d, e >>[3] = e
    OBVIOUS
  <1>3. Len(s) = 3 /\ s[1] = c /\ s[2] = d /\ s[3] = e
    OBVIOUS
  <1> HIDE DEF s
  <1>4. \A i \in 1 .. 3 : << c, d, e >>[i] = s[i]
    BY <1>2, <1>3
  <1>5. << c, d, e >> = s
    BY <1>1, <1>2, <1>3, <1>4, SeqEqual
  <1> QED BY <1>5, TwoCalls DEF s

-----------------------------------------------------------------------------
(* The programs' own things and windows *)

(* The attributes are things. *)
LEMMA AttrIsThing ==
  ASSUME NEW n \in Attributes
  PROVE  Attr(n) \in Things
  BY DEF Attr, Things, Kinds, Names

(* The windows are windows, and hold what they are made of. *)
LEMMA WindowIsWindow ==
  ASSUME NEW slave \in Slaves, NEW origin \in Nat, NEW size \in Nat
  PROVE  /\ Window(slave, origin, size) \in Windows
         /\ Window(slave, origin, size).slave = slave
         /\ Window(slave, origin, size).origin = origin
         /\ Window(slave, origin, size).size = size
  BY DEF Window, Windows

(* What the options of the HPS are. *)
LEMMA HpsOptionTypes ==
  ASSUME NEW o \in HpsOptions
  PROVE  /\ o.debug \in BOOLEAN /\ o.cpu_cfu \in BOOLEAN
         /\ o.execute_from_lram \in BOOLEAN /\ o.separate_arena \in BOOLEAN
         /\ o.build_bios \in BOOLEAN /\ o.cfu_mport \in BOOLEAN
         /\ o.dynamic_clock_control \in BOOLEAN
         /\ o.integrated_rom_init \in Nat /\ o.bios \in Nat
         /\ o.uartbone \in {"serial", "serial2"}
  <1>1. \A n \in {0} \cup FileWords : n \in Nat
    BY FilesAssumption
  <1>2. /\ o.debug \in BOOLEAN /\ o.cpu_cfu \in BOOLEAN
        /\ o.execute_from_lram \in BOOLEAN /\ o.separate_arena \in BOOLEAN
        /\ o.build_bios \in BOOLEAN /\ o.cfu_mport \in BOOLEAN
        /\ o.dynamic_clock_control \in BOOLEAN
        /\ o.integrated_rom_init \in {0} \cup FileWords /\ o.bios \in FileWords
        /\ o.uartbone \in {"serial", "serial2"}
    BY Zenon DEF HpsOptions
  <1> QED BY <1>1, <1>2

(* What add_cpu makes. *)
CpuMakes(o) ==
  {Attr("cpu")}
  \cup (IF o.cpu_cfu THEN {Attr("cpu.cfu_bus"), Attr("cpu.cfu_params")}
        ELSE {})
  \cup (IF "debug" \in HpsVariant(o) THEN {Attr("cpu.debug_bus")} ELSE {})

CrgMakes == {Attr("crg"), Attr("crg.sys_clk_enable"), <<"clock", "osc">>}

HpsCpu(o) == << create_crg, Maps({}, Window("csr", csr_origin, 1)),
                add_cpu(o) >>

(* create_crg, the bus of the registers and add_cpu. *)
LEMMA DoesHpsCpu ==
  ASSUME NEW o,
         NEW known, NEW has, NEW used
  PROVE  /\ Does(HpsCpu(o),
                CrgMakes \cup CpuMakes(o),
                {}, {Window("csr", csr_origin, 1)}, 0)
         /\ Runs(HpsCpu(o), known, has, used)
  <1> DEFINE w == Window("csr", csr_origin, 1)
             s1 == << Makes(CrgMakes) >>
             s2 == << Maps({}, w) >>
             s3 == << From({Attr("crg")}, CpuMakes(o)) >>
  <1>1. w \in Windows
    <2>1. "csr" \in Slaves /\ csr_origin \in Nat
      BY DEF Slaves, csr_origin
    <2> QED BY <2>1, WindowIsWindow
  <1>2. /\ Attr("crg") \in CrgMakes
        /\ CrgMakes \in SUBSET Things /\ {Attr("crg")} \in SUBSET Things
    <2>1. "crg" \in Attributes /\ "crg.sys_clk_enable" \in Attributes
      BY DEF Attributes
    <2>2. <<"clock", "osc">> \in Things
      BY DEF Things, Kinds, Names
    <2> QED BY <2>1, <2>2, AttrIsThing DEF CrgMakes
  <1>3. CpuMakes(o) \in SUBSET Things
    <2>1. "cpu" \in Attributes /\ "cpu.cfu_bus" \in Attributes
          /\ "cpu.cfu_params" \in Attributes /\ "cpu.debug_bus" \in Attributes
      BY DEF Attributes
    <2> QED BY <2>1, AttrIsThing DEF CpuMakes
  <1>4. /\ Does(s1, CrgMakes, {}, {}, 0)
        /\ Runs(s1, known, has, used)
    BY <1>2, DoesMakes
  <1>5. /\ Does(s2, {}, {}, {w}, 0)
        /\ Runs(s2, known, has \cup CrgMakes, used)
    BY <1>1, DoesMaps, EmptySets
  <1>6. /\ Does(s3, CpuMakes(o), {}, {}, 0)
        /\ Runs(s3, known, has \cup CrgMakes, used)
    BY <1>2, <1>3, DoesFrom
  <1>7. HpsCpu(o) = (s1 \o s2) \o s3
    BY ThreeCalls DEF HpsCpu, create_crg, CrgMakes, add_cpu, CpuMakes
  <1> HIDE DEF s1, s2, s3
  <1>8. Does(s1 \o s2, CrgMakes,
             {}, {w}, 0 + 0)
    BY <1>4, <1>5, DoesConcat, NoMore
  <1>9. Does((s1 \o s2) \o s3, CrgMakes \cup CpuMakes(o),
             {}, {w}, (0 + 0) + 0)
    BY <1>8, <1>6, DoesConcat, NoMore
  <1>10. Runs((s1 \o s2) \o s3, known, has, used)
         <=> /\ Runs(s1, known, has, used)
             /\ Runs(s2, known, has \cup CrgMakes, used)
             /\ Runs(s3, known, has \cup CrgMakes, used)
    BY <1>4, <1>5, <1>6, <1>8, <1>9, RunsThen, NoMore
  <1>11. /\ {w} = {Window("csr", csr_origin, 1)}
         /\ (0 + 0) + 0 = 0
    OBVIOUS
  <1>12. Does(HpsCpu(o), CrgMakes \cup CpuMakes(o),
            {}, {Window("csr", csr_origin, 1)}, 0)
    BY <1>7, <1>9, <1>11
  <1>13. Runs(HpsCpu(o), known, has, used)
    BY <1>7, <1>10, <1>4, <1>5, <1>6
  <1> QED BY <1>12, <1>13

(* A memory of LRAM, of which the arena has a second port.                 *)
LEMMA DoesLram ==
  ASSUME NEW name \in Attributes, NEW size \in 1 .. 5, NEW known, NEW has,
         NEW used
  PROVE  /\ Does(<< NXLRAM(name, size, FALSE) >>, {Attr(name)}, {}, {}, size)
         /\ Runs(<< NXLRAM(name, size, FALSE) >>, known, has, used)
  <1>1. {Attr(name)} \in SUBSET Things /\ size \in Nat
    BY AttrIsThing
  <1>2. NXLRAM(name, size, FALSE) = Call(TRUE, {}, {}, {Attr(name)}, {}, size)
    BY DEF NXLRAM
  <1> QED BY <1>1, <1>2, DoesCall, EmptySets

(* A memory with two ports, for the CPU and for the CFU. *)
LEMMA DoesDualPortLram ==
  ASSUME NEW size \in {1, 2, 4}, NEW known, NEW has, NEW used
  PROVE  /\ Does(<< NXLRAM("arena", size, TRUE) >>,
                 {Attr("arena"), <<"b_clkens", "arena">>}, {}, {}, size)
         /\ Runs(<< NXLRAM("arena", size, TRUE) >>, known, has, used)
  <1> DEFINE m == {Attr("arena"), <<"b_clkens", "arena">>}
  <1>1. m \in SUBSET Things /\ size \in Nat
    BY AttrIsThing DEF Things, Kinds, Names, Attributes
  <1>2. (size \in 1 .. 5 /\ (TRUE => size \in {1, 2, 4})) = TRUE
    OBVIOUS
  <1>3. {Attr("arena")} \cup (IF TRUE THEN {<<"b_clkens", "arena">>} ELSE {})
          = m
    OBVIOUS
  <1> HIDE DEF m
  <1>4. NXLRAM("arena", size, TRUE) = Call(TRUE, {}, {}, m, {}, size)
    BY <1>2, <1>3, Zenon DEF NXLRAM
  <1>5. /\ Does(<< NXLRAM("arena", size, TRUE) >>, m, {}, {}, size)
        /\ Runs(<< NXLRAM("arena", size, TRUE) >>, known, has, used)
    BY <1>1, <1>4, DoesCall, EmptySets
  <1> QED BY <1>5 DEF m

(* setup_ram *)
LEMMA DoesSetupRam ==
  ASSUME NEW size \in 1 .. 5,
         NEW known, NEW has, NEW used
  PROVE  /\ Does(setup_ram(size),
                {Attr("lram")},
                {}, {Window("lram", sram_origin, size)}, size)
         /\ Runs(setup_ram(size), known, has, used)
  <1> DEFINE w == Window("lram", sram_origin, size)
             c1 == NXLRAM("lram", size, FALSE)
             c2 == Maps({Attr("lram")}, w)
             s1 == << c1 >>
             s2 == << c2 >>
  <1>1. "lram" \in Attributes /\ {Attr("lram")} \in SUBSET Things
    <2>1. "lram" \in Attributes
      BY DEF Attributes
    <2> QED BY <2>1, AttrIsThing
  <1>2. w \in Windows
    <2>1. "lram" \in Slaves /\ sram_origin \in Nat /\ size \in Nat
      BY DEF Slaves, sram_origin
    <2> QED BY <2>1, WindowIsWindow
  <1>3. /\ Does(s1, {Attr("lram")}, {}, {}, size)
        /\ Runs(s1, known, has, used)
    BY <1>1, DoesLram
  <1>4. /\ Does(s2, {}, {}, {w}, 0)
        /\ Runs(s2, known, has \cup {Attr("lram")}, used)
    BY <1>2, <1>1, DoesMaps
  <1>5. setup_ram(size) = << c1, c2 >>
    BY DEF setup_ram
  <1> HIDE DEF c1, c2
  <1>6. setup_ram(size) = s1 \o s2
    BY <1>5, TwoCalls
  <1> HIDE DEF s1, s2
  <1>7. Does(s1 \o s2, {Attr("lram")},
             {}, {w}, size + 0)
    BY <1>3, <1>4, DoesConcat, NoMore
  <1>8. Runs(s1 \o s2, known, has, used)
        <=> /\ Runs(s1, known, has, used)
            /\ Runs(s2, known, has \cup {Attr("lram")}, used)
    BY <1>3, <1>4, <1>7, RunsThen, NoMore
  <1>9. /\ {w} = {Window("lram", sram_origin, size)}
        /\ size + 0 = size
    OBVIOUS
  <1>10. Does(setup_ram(size), {Attr("lram")},
            {}, {Window("lram", sram_origin, size)}, size)
    BY <1>6, <1>7, <1>9
  <1>11. Runs(setup_ram(size), known, has, used)
    BY <1>6, <1>8, <1>3, <1>4
  <1> QED BY <1>10, <1>11

(* The calls for an arena that is there. *)
ArenaMakes ==
  {Attr("arena"), <<"b_clkens", "arena">>, <<"config", "SOC_SEPARATE_ARENA">>}

arena_window == Window("arena", arena_origin, 4)

ArenaCalls ==
  << NXLRAM("arena", 4, TRUE), Maps({Attr("arena")}, arena_window),
     Makes({<<"config", "SOC_SEPARATE_ARENA">>}) >>

(* The calls for an arena that is there. *)
LEMMA DoesArenaCalls ==
  ASSUME NEW known, NEW has, NEW used
  PROVE  /\ Does(ArenaCalls,
                ArenaMakes,
                {}, {arena_window}, 4)
         /\ Runs(ArenaCalls, known, has, used)
  <1> DEFINE c1 == NXLRAM("arena", 4, TRUE)
             c2 == Maps({Attr("arena")}, arena_window)
             c3 == Makes({<<"config", "SOC_SEPARATE_ARENA">>})
             s1 == << c1 >>
             s2 == << c2 >>
             s3 == << c3 >>
  <1>1. {Attr("arena")} \in SUBSET Things
    <2>1. "arena" \in Attributes
      BY DEF Attributes
    <2> QED BY <2>1, AttrIsThing
  <1>2. {<<"config", "SOC_SEPARATE_ARENA">>} \in SUBSET Things
    <2>1. <<"config", "SOC_SEPARATE_ARENA">> \in Things
      BY DEF Things, Kinds, Names
    <2> QED BY <2>1
  <1>3. arena_window \in Windows
    <2>1. "arena" \in Slaves /\ arena_origin \in Nat
      BY DEF Slaves, arena_origin
    <2> QED BY <2>1, WindowIsWindow DEF arena_window
  <1>4. /\ Does(s1, {Attr("arena"), <<"b_clkens", "arena">>}, {}, {}, 4)
        /\ Runs(s1, known, has, used)
    BY DoesDualPortLram
  <1>5. /\ Does(s2, {}, {}, {arena_window}, 0)
        /\ Runs(s2, known, has \cup {Attr("arena"), <<"b_clkens", "arena">>},
                used)
    BY <1>3, <1>1, DoesMaps
  <1>6. /\ Does(s3, {<<"config", "SOC_SEPARATE_ARENA">>}, {}, {}, 0)
        /\ Runs(s3, known, has \cup {Attr("arena"), <<"b_clkens", "arena">>},
                used)
    BY <1>2, DoesMakes
  <1>7. ArenaCalls = << c1, c2, c3 >>
    BY DEF ArenaCalls
  <1> HIDE DEF c1, c2, c3
  <1>8. ArenaCalls = (s1 \o s2) \o s3
    BY <1>7, ThreeCalls
  <1> HIDE DEF s1, s2, s3
  <1>9. Does(s1 \o s2, {Attr("arena"), <<"b_clkens", "arena">>},
             {}, {arena_window}, 4 + 0)
    BY <1>4, <1>5, DoesConcat, NoMore
  <1>10. Does((s1 \o s2) \o s3,
              {Attr("arena"), <<"b_clkens", "arena">>}
                \cup {<<"config", "SOC_SEPARATE_ARENA">>},
              {}, {arena_window}, (4 + 0) + 0)
    BY <1>9, <1>6, DoesConcat, NoMore
  <1>11. Runs((s1 \o s2) \o s3, known, has, used)
         <=> /\ Runs(s1, known, has, used)
             /\ Runs(s2, known,
                     has \cup {Attr("arena"), <<"b_clkens", "arena">>}, used)
             /\ Runs(s3, known,
                     has \cup {Attr("arena"), <<"b_clkens", "arena">>}, used)
    BY <1>4, <1>5, <1>6, <1>9, <1>10, RunsThen, NoMore
  <1>12. /\ {Attr("arena"), <<"b_clkens", "arena">>}
              \cup {<<"config", "SOC_SEPARATE_ARENA">>} = ArenaMakes
         /\ (4 + 0) + 0 = 4
    BY DEF ArenaMakes
  <1>13. Does(ArenaCalls, ArenaMakes,
            {}, {arena_window}, 4)
    BY <1>8, <1>10, <1>12
  <1>14. Runs(ArenaCalls, known, has, used)
    BY <1>8, <1>11, <1>4, <1>5, <1>6
  <1> QED BY <1>13, <1>14

ArenaMade(o) == IF o.separate_arena THEN ArenaMakes ELSE {}

ArenaThere(o) == IF o.separate_arena THEN {arena_window} ELSE {}

ArenaMapped(o) == {Window("none", arena_origin, arena_size(o))}
  \cup ArenaThere(o)

(* An arena that is there has four blocks. *)
LEMMA ArenaSize ==
  ASSUME NEW o
  PROVE  /\ o.separate_arena => arena_size(o) = 4
         /\ ~o.separate_arena => arena_size(o) = 0
  BY DEF arena_size, ram_size, RAM_SIZE

(* setup_arena, with and without a separate arena. *)
LEMMA DoesSetupArena ==
  ASSUME NEW o,
         NEW known, NEW has, NEW used
  PROVE  /\ Does(setup_arena(arena_size(o)),
                ArenaMade(o),
                {}, ArenaMapped(o), arena_size(o))
         /\ Runs(setup_arena(arena_size(o)), known, has, used)
  <1> DEFINE w == Window("none", arena_origin, arena_size(o))
             s1 == << Maps({}, w) >>
             s2 == When(o.separate_arena, ArenaCalls)
  <1>1. arena_size(o) \in Nat
    BY ArenaSize
  <1>2. w \in Windows
    <2>1. "none" \in Slaves /\ arena_origin \in Nat
      BY DEF Slaves, arena_origin
    <2> QED BY <2>1, <1>1, WindowIsWindow
  <1>3. /\ Does(s1, {}, {}, {w}, 0)
        /\ Runs(s1, known, has, used)
    BY <1>2, DoesMaps, EmptySets
  <1>4. /\ Does(s2, ArenaMade(o), {}, ArenaThere(o), arena_size(o))
        /\ Runs(s2, known, has, used)
    <2>1. CASE o.separate_arena
      <3>1. s2 = ArenaCalls /\ arena_size(o) = 4
        BY <2>1, ArenaSize DEF When
      <3>2. ArenaMade(o) = ArenaMakes /\ ArenaThere(o) = {arena_window}
        BY <2>1 DEF ArenaMade, ArenaThere
      <3> QED BY <3>1, <3>2, DoesArenaCalls
    <2>2. CASE ~o.separate_arena
      <3>1. s2 = <<>> /\ arena_size(o) = 0
        BY <2>2, ArenaSize DEF When
      <3>2. ArenaMade(o) = {} /\ ArenaThere(o) = {}
        BY <2>2 DEF ArenaMade, ArenaThere
      <3> QED BY <3>1, <3>2, DoesNothing DEF Runs
    <2> QED BY <2>1, <2>2
  <1>5. setup_arena(arena_size(o)) = s1 \o s2
    <2>1. CASE o.separate_arena
      <3>1. arena_size(o) = 4
        BY <2>1, ArenaSize
      <3> QED BY <2>1, <3>1 DEF setup_arena, When, ArenaCalls, arena_window
    <2>2. CASE ~o.separate_arena
      <3>1. arena_size(o) = 0
        BY <2>2, ArenaSize
      <3> QED BY <2>2, <3>1 DEF setup_arena, When
    <2> QED BY <2>1, <2>2
  <1> HIDE DEF s1, s2
  <1>6. Does(s1 \o s2, ArenaMade(o),
             {}, {w} \cup ArenaThere(o), 0 + arena_size(o))
    BY <1>3, <1>4, DoesConcat, NoMore
  <1>7. Runs(s1 \o s2, known, has, used)
        <=> /\ Runs(s1, known, has, used)
            /\ Runs(s2, known, has, used)
    BY <1>3, <1>4, <1>6, RunsThen, NoMore
  <1>8. /\ {w} \cup ArenaThere(o) = ArenaMapped(o)
        /\ 0 + arena_size(o) = arena_size(o)
    BY <1>1 DEF ArenaMapped
  <1>9. Does(setup_arena(arena_size(o)), ArenaMade(o),
            {}, ArenaMapped(o), arena_size(o))
    BY <1>5, <1>6, <1>8
  <1>10. Runs(setup_arena(arena_size(o)), known, has, used)
    BY <1>5, <1>7, <1>3, <1>4
  <1> QED BY <1>9, <1>10

(* One clock enable. *)
LEMMA DoesDrive ==
  ASSUME NEW port \in Kinds, NEW clken \in Things, NEW source \in Names,
         NEW known, NEW has, NEW used
  PROVE  /\ Does(<< Drive(port, clken, source) >>, {<<port, source>>}, {}, {},
                 0)
         /\ Runs(<< Drive(port, clken, source) >>, known, has, used)
              <=> clken \in has
  <1>1. {<<port, source>>} \in SUBSET Things /\ {clken} \in SUBSET Things
    BY DEF Things
  <1> QED BY <1>1, DoesFrom DEF Drive

(* What the clock enables are driven by, and what there must be for that.  *)
ArenaClock(o, cpu) == IF o.separate_arena THEN {<<"arena.a", cpu>>} ELSE {}

PortClock(o, cfu) ==
  IF o.separate_arena /\ o.cfu_mport THEN {<<"arena.b", cfu>>} ELSE {}

ClockMakes(o, cpu, cfu) ==
  ({<<"lram.a", cpu>>} \cup ArenaClock(o, cpu)) \cup PortClock(o, cfu)

ClocksFit(o, has) ==
  /\ Attr("lram") \in has
  /\ o.separate_arena => Attr("arena") \in has
  /\ o.separate_arena /\ o.cfu_mport => <<"b_clkens", "arena">> \in has

(* The clock enables of the memories, from two given sources. *)
LEMMA DoesClockEnables ==
  ASSUME NEW o, NEW cpu \in Names, NEW cfu \in Names,
         NEW known, NEW has, NEW used
  PROVE  /\ Does(ClockEnables(o, cpu, cfu),
                ClockMakes(o, cpu, cfu),
                {}, {}, 0)
         /\ Runs(ClockEnables(o, cpu, cfu), known, has, used)
              <=> ClocksFit(o, has)
  <1> DEFINE s1 == << Drive("lram.a", Attr("lram"), cpu) >>
             s2 == When(o.separate_arena,
                        << Drive("arena.a", Attr("arena"), cpu) >>)
             s3 == When(o.separate_arena /\ o.cfu_mport,
                         << Drive("arena.b", <<"b_clkens", "arena">>, cfu) >>)
  <1>1. /\ "lram.a" \in Kinds /\ "arena.a" \in Kinds /\ "arena.b" \in Kinds
        /\ Attr("lram") \in Things /\ Attr("arena") \in Things
        /\ <<"b_clkens", "arena">> \in Things
    BY AttrIsThing DEF Things, Kinds, Names, Attributes
  <1>2. /\ Does(s1, {<<"lram.a", cpu>>}, {}, {}, 0)
        /\ Runs(s1, known, has, used)
             <=> Attr("lram") \in has
    BY <1>1, DoesDrive
  <1>3. /\ Does(s2, ArenaClock(o, cpu), {}, {}, 0)
        /\ Runs(s2, known, has \cup {<<"lram.a", cpu>>}, used)
             <=> (o.separate_arena
                  => Attr("arena") \in (has \cup {<<"lram.a", cpu>>}))
    <2>1. CASE o.separate_arena
      <3>1. /\ s2 = << Drive("arena.a", Attr("arena"), cpu) >>
            /\ ArenaClock(o, cpu) = {<<"arena.a", cpu>>}
        BY <2>1 DEF When, ArenaClock
      <3> HIDE DEF s2
      <3> QED BY <2>1, <3>1, <1>1, DoesDrive
    <2>2. CASE ~(o.separate_arena)
      <3>1. s2 = <<>> /\ ArenaClock(o, cpu) = {}
        BY <2>2 DEF When, ArenaClock
      <3> HIDE DEF s2
      <3> QED BY <2>2, <3>1, DoesNothing DEF Runs
    <2> QED BY <2>1, <2>2
  <1>4. /\ Does(s3, PortClock(o, cfu), {}, {}, 0)
        /\ Runs(s3, known,
                has \cup ({<<"lram.a", cpu>>} \cup ArenaClock(o, cpu)), used)
             <=> (o.separate_arena /\ o.cfu_mport
                  => <<"b_clkens", "arena">>
                     \in has \cup ({<<"lram.a", cpu>>} \cup ArenaClock(o, cpu)))
    <2>1. CASE o.separate_arena /\ o.cfu_mport
      <3>1. /\ s3 = << Drive("arena.b", <<"b_clkens", "arena">>, cfu) >>
            /\ PortClock(o, cfu) = {<<"arena.b", cfu>>}
        BY <2>1 DEF When, PortClock
      <3> HIDE DEF s3
      <3> QED BY <2>1, <3>1, <1>1, DoesDrive
    <2>2. CASE ~(o.separate_arena /\ o.cfu_mport)
      <3>1. s3 = <<>> /\ PortClock(o, cfu) = {}
        BY <2>2 DEF When, PortClock
      <3> HIDE DEF s3
      <3> QED BY <2>2, <3>1, DoesNothing DEF Runs
    <2> QED BY <2>1, <2>2
  <1>5. ClockEnables(o, cpu, cfu) = (s1 \o s2) \o s3
    BY DEF ClockEnables
  <1> HIDE DEF s1, s2, s3
  <1>6. Does(s1 \o s2, {<<"lram.a", cpu>>} \cup ArenaClock(o, cpu),
             {}, {}, 0 + 0)
    BY <1>2, <1>3, DoesConcat, NoMore
  <1>7. Does((s1 \o s2) \o s3,
             {<<"lram.a", cpu>>} \cup ArenaClock(o, cpu)
               \cup PortClock(o, cfu),
             {}, {}, (0 + 0) + 0)
    BY <1>6, <1>4, DoesConcat, NoMore
  <1>8. Runs((s1 \o s2) \o s3, known, has, used)
        <=> /\ Runs(s1, known, has, used)
            /\ Runs(s2, known, has \cup {<<"lram.a", cpu>>}, used)
            /\ Runs(s3, known,
                    has \cup ({<<"lram.a", cpu>>} \cup ArenaClock(o, cpu)),
                    used)
    BY <1>2, <1>3, <1>4, <1>6, <1>7, RunsThen, NoMore
  <1>9. /\ {<<"lram.a", cpu>>} \cup ArenaClock(o, cpu) \cup PortClock(o, cfu)
             = ClockMakes(o, cpu, cfu)
        /\ (0 + 0) + 0 = 0
    BY DEF ClockMakes
  <1>10. /\ Attr("arena") \in has \cup {<<"lram.a", cpu>>}
              <=> Attr("arena") \in has
         /\ <<"b_clkens", "arena">> \in has
              \cup ({<<"lram.a", cpu>>} \cup ArenaClock(o, cpu))
              <=> <<"b_clkens", "arena">> \in has
    BY DEF Attr, ArenaClock
  <1>11. Does(ClockEnables(o, cpu, cfu), ClockMakes(o, cpu, cfu),
            {}, {}, 0)
    BY <1>5, <1>7, <1>9
  <1>12. Runs(ClockEnables(o, cpu, cfu), known, has, used)
          <=> ClocksFit(o, has)
    BY <1>5, <1>8, <1>2, <1>3, <1>4, <1>10 DEF ClocksFit
  <1> QED BY <1>11, <1>12

(* The two clocks, where the CFU gets a clock of its own. *)
DynamicClocks ==
  << From({Attr("cpu.cfu_bus")}, {}),
     From({Attr("crg.sys_clk_enable")}, {<<"sys", "cpu_cen">>}),
     From({Attr("cpu.cfu_params")}, {<<"cfu", "cfu_cen">>}) >>

DynamicMakes == {<<"sys", "cpu_cen">>, <<"cfu", "cfu_cen">>}

DynamicFit(has) ==
  /\ Attr("cpu.cfu_bus") \in has /\ Attr("crg.sys_clk_enable") \in has
  /\ Attr("cpu.cfu_params") \in has

(* The two clock enables, of the CPU and of the CFU. *)
LEMMA DoesDynamicClocks ==
  ASSUME NEW known, NEW has, NEW used
  PROVE  /\ Does(DynamicClocks,
                DynamicMakes,
                {}, {}, 0)
         /\ Runs(DynamicClocks, known, has, used)
              <=> DynamicFit(has)
  <1> DEFINE c1 == From({Attr("cpu.cfu_bus")}, {})
             c2 == From({Attr("crg.sys_clk_enable")}, {<<"sys", "cpu_cen">>})
             c3 == From({Attr("cpu.cfu_params")}, {<<"cfu", "cfu_cen">>})
             s1 == << c1 >>
             s2 == << c2 >>
             s3 == << c3 >>
  <1>1. /\ {Attr("cpu.cfu_bus")} \in SUBSET Things
        /\ {Attr("crg.sys_clk_enable")} \in SUBSET Things
        /\ {Attr("cpu.cfu_params")} \in SUBSET Things
        /\ {<<"sys", "cpu_cen">>} \in SUBSET Things
        /\ {<<"cfu", "cfu_cen">>} \in SUBSET Things
    BY AttrIsThing DEF Things, Kinds, Names, Attributes
  <1>2. /\ Does(s1, {}, {}, {}, 0)
        /\ Runs(s1, known, has, used)
             <=> Attr("cpu.cfu_bus") \in has
    BY <1>1, DoesFrom, EmptySets
  <1>3. /\ Does(s2, {<<"sys", "cpu_cen">>}, {}, {}, 0)
        /\ Runs(s2, known, has, used)
             <=> Attr("crg.sys_clk_enable") \in has
    BY <1>1, DoesFrom
  <1>4. /\ Does(s3, {<<"cfu", "cfu_cen">>}, {}, {}, 0)
        /\ Runs(s3, known, has \cup {<<"sys", "cpu_cen">>}, used)
             <=> Attr("cpu.cfu_params") \in (has \cup {<<"sys", "cpu_cen">>})
    BY <1>1, DoesFrom
  <1>5. DynamicClocks = << c1, c2, c3 >>
    BY DEF DynamicClocks
  <1> HIDE DEF c1, c2, c3
  <1>6. DynamicClocks = (s1 \o s2) \o s3
    BY <1>5, ThreeCalls
  <1> HIDE DEF s1, s2, s3
  <1>7. Does(s1 \o s2, {<<"sys", "cpu_cen">>},
             {}, {}, 0 + 0)
    BY <1>2, <1>3, DoesConcat, NoMore
  <1>8. Does((s1 \o s2) \o s3,
             {<<"sys", "cpu_cen">>} \cup {<<"cfu", "cfu_cen">>},
             {}, {}, (0 + 0) + 0)
    BY <1>7, <1>4, DoesConcat, NoMore
  <1>9. Runs((s1 \o s2) \o s3, known, has, used)
        <=> /\ Runs(s1, known, has, used)
            /\ Runs(s2, known, has, used)
            /\ Runs(s3, known, has \cup {<<"sys", "cpu_cen">>}, used)
    BY <1>2, <1>3, <1>4, <1>7, <1>8, RunsThen, NoMore
  <1>10. /\ {<<"sys", "cpu_cen">>} \cup {<<"cfu", "cfu_cen">>} = DynamicMakes
         /\ (0 + 0) + 0 = 0
    BY DEF DynamicMakes
  <1>11. Attr("cpu.cfu_params") \in has \cup {<<"sys", "cpu_cen">>}
            <=> Attr("cpu.cfu_params") \in has
    BY DEF Attr
  <1>12. Does(DynamicClocks, DynamicMakes,
            {}, {}, 0)
    BY <1>6, <1>8, <1>10
  <1>13. Runs(DynamicClocks, known, has, used)
          <=> DynamicFit(has)
    BY <1>6, <1>9, <1>2, <1>3, <1>4, <1>11 DEF DynamicFit
  <1> QED BY <1>12, <1>13

HpsClockMakes(o) ==
  IF o.dynamic_clock_control
  THEN DynamicMakes \cup ClockMakes(o, "cpu_cen", "cfu_cen")
  ELSE ClockMakes(o, "1", "1")

(* The clocks, with and without dynamic clock control. *)
LEMMA DoesHpsClockControl ==
  ASSUME NEW o, NEW known, NEW has, NEW used
  PROVE  /\ Does(HpsClockControl(o), HpsClockMakes(o), {}, {}, 0)
         /\ Runs(HpsClockControl(o), known, has, used)
              <=> (o.dynamic_clock_control => DynamicFit(has))
                /\ ClocksFit(o, has)
  <1>1. /\ "cpu_cen" \in Names /\ "cfu_cen" \in Names /\ "1" \in Names
    BY DEF Names
  <1>2. CASE o.dynamic_clock_control
    <2> DEFINE s1 == DynamicClocks
               s2 == ClockEnables(o, "cpu_cen", "cfu_cen")
    <2>1. HpsClockControl(o) = s1 \o s2
      BY <1>2 DEF HpsClockControl, DynamicClocks
    <2>2. HpsClockMakes(o)
            = DynamicMakes \cup ClockMakes(o, "cpu_cen", "cfu_cen")
      BY <1>2 DEF HpsClockMakes
    <2>3. /\ Does(s1, DynamicMakes, {}, {}, 0)
          /\ Runs(s1, known, has, used) <=> DynamicFit(has)
      BY DoesDynamicClocks
    <2>4. /\ Does(s2, ClockMakes(o, "cpu_cen", "cfu_cen"), {}, {}, 0)
          /\ Runs(s2, known, has \cup DynamicMakes, used)
               <=> ClocksFit(o, has \cup DynamicMakes)
      BY <1>1, DoesClockEnables
    <2>5. ClocksFit(o, has \cup DynamicMakes) <=> ClocksFit(o, has)
      BY DEF ClocksFit, DynamicMakes, Attr
    <2> HIDE DEF s1, s2
    <2>6. Does(s1 \o s2, HpsClockMakes(o), {}, {}, 0 + 0)
      BY <2>2, <2>3, <2>4, DoesConcat, NoMore
    <2>7. Runs(s1 \o s2, known, has, used)
            <=> Runs(s1, known, has, used)
              /\ Runs(s2, known, has \cup DynamicMakes, used)
      BY <2>3, <2>4, RunsThen, NoMore
    <2> QED BY <1>2, <2>1, <2>3, <2>4, <2>5, <2>6, <2>7
  <1>3. CASE ~o.dynamic_clock_control
    <2>1. HpsClockControl(o) = ClockEnables(o, "1", "1")
      BY <1>3 DEF HpsClockControl
    <2>2. HpsClockMakes(o) = ClockMakes(o, "1", "1")
      BY <1>3 DEF HpsClockMakes
    <2> QED BY <1>1, <1>3, <2>1, <2>2, DoesClockEnables
  <1> QED BY <1>2, <1>3

PortMakes == {<<"cfu_ports", "4">>}

(* connect_cfu_to_lram *)
LEMMA DoesPorts ==
  ASSUME NEW known, NEW has, NEW used
  PROVE  /\ Does(connect_cfu_to_lram,
                PortMakes,
                {}, {}, 0)
         /\ Runs(connect_cfu_to_lram, known, has, used)
              <=> Attr("cpu.cfu_params") \in has
                /\ <<"b_clkens", "arena">> \in has
  <1> DEFINE c1 == From({Attr("cpu.cfu_params")}, PortMakes)
             c2 == From({<<"b_clkens", "arena">>}, {})
             s1 == << c1 >>
             s2 == << c2 >>
  <1>1. /\ {Attr("cpu.cfu_params")} \in SUBSET Things
        /\ {<<"b_clkens", "arena">>} \in SUBSET Things
    BY AttrIsThing DEF Things, Kinds, Names, Attributes
  <1>2. PortMakes \in SUBSET Things
    BY DEF PortMakes, Things, Kinds, Names
  <1>3. /\ Does(s1, PortMakes, {}, {}, 0)
        /\ Runs(s1, known, has, used)
             <=> Attr("cpu.cfu_params") \in has
    BY <1>1, <1>2, DoesFrom
  <1>4. /\ Does(s2, {}, {}, {}, 0)
        /\ Runs(s2, known, has \cup PortMakes, used)
             <=> <<"b_clkens", "arena">> \in (has \cup PortMakes)
    BY <1>1, DoesFrom, EmptySets
  <1>5. connect_cfu_to_lram = << c1, c2 >>
    BY DEF connect_cfu_to_lram, PortMakes
  <1> HIDE DEF c1, c2
  <1>6. connect_cfu_to_lram = s1 \o s2
    BY <1>5, TwoCalls
  <1> HIDE DEF s1, s2
  <1>7. Does(s1 \o s2, PortMakes,
             {}, {}, 0 + 0)
    BY <1>3, <1>4, DoesConcat, NoMore
  <1>8. Runs(s1 \o s2, known, has, used)
        <=> /\ Runs(s1, known, has, used)
            /\ Runs(s2, known, has \cup PortMakes, used)
    BY <1>3, <1>4, <1>7, RunsThen, NoMore
  <1>9. 0 + 0 = 0
    OBVIOUS
  <1>10. <<"b_clkens", "arena">> \in has \cup PortMakes
           <=> <<"b_clkens", "arena">> \in has
    BY DEF PortMakes
  <1>11. Does(connect_cfu_to_lram, PortMakes,
            {}, {}, 0)
    BY <1>6, <1>7, <1>9
  <1>12. Runs(connect_cfu_to_lram, known, has, used)
          <=> Attr("cpu.cfu_params") \in has /\ <<"b_clkens", "arena">> \in has
    BY <1>6, <1>8, <1>3, <1>4, <1>10
  <1> QED BY <1>11, <1>12

FlashMakes == {Attr("spiflash_mmap")}

(* setup_litespi_flash *)
LEMMA DoesFlash ==
  ASSUME NEW known, NEW has, NEW used
  PROVE  /\ Does(setup_litespi_flash,
                FlashMakes,
                {"spiflash4x"}, {spiflash_region}, 0)
         /\ Runs(setup_litespi_flash, known, has, used)
              <=> Free({"spiflash4x"}, known, has, used)
  <1> DEFINE c1 == Requests({"spiflash4x"}, FlashMakes)
             c2 == Maps(FlashMakes, spiflash_region)
             s1 == << c1 >>
             s2 == << c2 >>
  <1>1. FlashMakes \in SUBSET Things
    BY AttrIsThing DEF FlashMakes, Attributes
  <1>2. {"spiflash4x"} \in SUBSET Pads
    BY DEF Pads, SimPads
  <1>3. spiflash_region \in Windows
    <2>1. "spiflash" \in Slaves /\ 8192 \in Nat /\ 256 \in Nat
      BY DEF Slaves
    <2> QED BY <2>1, WindowIsWindow DEF spiflash_region
  <1>4. /\ Does(s1, FlashMakes, {"spiflash4x"}, {}, 0)
        /\ Runs(s1, known, has, used)
             <=> Free({"spiflash4x"}, known, has, used)
    BY <1>1, <1>2, DoesRequests
  <1>5. /\ Does(s2, {}, {}, {spiflash_region}, 0)
        /\ Runs(s2, known, has \cup FlashMakes, used \cup {"spiflash4x"})
    BY <1>1, <1>3, DoesMaps
  <1>6. setup_litespi_flash = << c1, c2 >>
    BY DEF setup_litespi_flash, FlashMakes
  <1> HIDE DEF c1, c2
  <1>7. setup_litespi_flash = s1 \o s2
    BY <1>6, TwoCalls
  <1> HIDE DEF s1, s2
  <1>8. Does(s1 \o s2, FlashMakes,
             {"spiflash4x"}, {spiflash_region}, 0 + 0)
    BY <1>4, <1>5, DoesConcat, NoMore
  <1>9. Runs(s1 \o s2, known, has, used)
        <=> /\ Runs(s1, known, has, used)
            /\ Runs(s2, known, has \cup FlashMakes, used \cup {"spiflash4x"})
    BY <1>4, <1>5, <1>8, RunsThen, NoMore
  <1>10. 0 + 0 = 0
    OBVIOUS
  <1>11. Does(setup_litespi_flash, FlashMakes,
            {"spiflash4x"}, {spiflash_region}, 0)
    BY <1>7, <1>8, <1>10
  <1>12. Runs(setup_litespi_flash, known, has, used)
          <=> Free({"spiflash4x"}, known, has, used)
    BY <1>7, <1>9, <1>4, <1>5
  <1> QED BY <1>11, <1>12

(* The ROM in LRAM, and what a file for it makes. *)
rom_window(o) == Window("rom", reset_address(o), 1)

RomInit(o) ==
  << Asserts(o.integrated_rom_init <= RomWords),
     add_init("rom", o.integrated_rom_init),
     Makes({<<"initialized", "rom">>}) >>

RomInitMakes == {<<"contents", "rom">>, <<"initialized", "rom">>}

(* Contents are added to a ROM they fit into. *)
LEMMA DoesAddInit ==
  ASSUME NEW words \in Nat, NEW known, NEW has, NEW used
  PROVE  /\ Does(<< add_init("rom", words) >>, {<<"contents", "rom">>}, {}, {},
                 0)
         /\ Runs(<< add_init("rom", words) >>, known, has, used)
              <=> words <= RomWords /\ Attr("rom") \in has
  <1> DEFINE ok == words <= RomWords
  <1>1. /\ {Attr("rom")} \in SUBSET Things
        /\ {<<"contents", "rom">>} \in SUBSET Things
    BY AttrIsThing DEF Things, Kinds, Names, Attributes
  <1>2. ok \in BOOLEAN
    BY DEF RomWords
  <1>3. add_init("rom", words)
          = Call(ok, {Attr("rom")}, {}, {<<"contents", "rom">>}, {}, 0)
    BY DEF add_init
  <1> HIDE DEF ok
  <1> DEFINE s == << Call(ok, {Attr("rom")}, {},
                          {<<"contents", "rom">>}, {}, 0) >>
  <1>4. /\ Does(s, {<<"contents", "rom">>}, {}, {}, 0)
        /\ Runs(s, known, has, used)
             <=> ok /\ {Attr("rom")} \subseteq has
               /\ Free({}, known, has, used)
    BY <1>1, <1>2, DoesCall, EmptySets
  <1>5. << add_init("rom", words) >> = s
    BY <1>3
  <1> HIDE DEF s
  <1>6. Free({}, known, has, used)
    BY EmptySets
  <1> QED BY <1>4, <1>5, <1>6 DEF ok

(* The file of --integrated-rom-init. *)
LEMMA DoesRomInit ==
  ASSUME NEW o, o.integrated_rom_init \in Nat,
         NEW known, NEW has, NEW used
  PROVE  /\ Does(RomInit(o),
                RomInitMakes,
                {}, {}, 0)
         /\ Runs(RomInit(o), known, has, used)
              <=> o.integrated_rom_init <= RomWords /\ Attr("rom") \in has
  <1> DEFINE c1 == Asserts(o.integrated_rom_init <= RomWords)
             c2 == add_init("rom", o.integrated_rom_init)
             c3 == Makes({<<"initialized", "rom">>})
             s1 == << c1 >>
             s2 == << c2 >>
             s3 == << c3 >>
  <1>1. /\ {<<"initialized", "rom">>} \in SUBSET Things
    BY AttrIsThing DEF Things, Kinds, Names, Attributes
  <1>2. /\ Does(s1, {}, {}, {}, 0)
        /\ Runs(s1, known, has, used)
             <=> o.integrated_rom_init <= RomWords
    <2>1. (o.integrated_rom_init <= RomWords) \in BOOLEAN
      BY DEF RomWords
    <2> QED BY <2>1, DoesAsserts
  <1>3. /\ Does(s2, {<<"contents", "rom">>}, {}, {}, 0)
        /\ Runs(s2, known, has, used)
             <=> (o.integrated_rom_init <= RomWords /\ Attr("rom") \in has)
    BY DoesAddInit
  <1>4. /\ Does(s3, {<<"initialized", "rom">>}, {}, {}, 0)
        /\ Runs(s3, known, has \cup {<<"contents", "rom">>}, used)
    BY <1>1, DoesMakes
  <1>5. RomInit(o) = << c1, c2, c3 >>
    BY DEF RomInit
  <1> HIDE DEF c1, c2, c3
  <1>6. RomInit(o) = (s1 \o s2) \o s3
    BY <1>5, ThreeCalls
  <1> HIDE DEF s1, s2, s3
  <1>7. Does(s1 \o s2, {<<"contents", "rom">>},
             {}, {}, 0 + 0)
    BY <1>2, <1>3, DoesConcat, NoMore
  <1>8. Does((s1 \o s2) \o s3,
             {<<"contents", "rom">>} \cup {<<"initialized", "rom">>},
             {}, {}, (0 + 0) + 0)
    BY <1>7, <1>4, DoesConcat, NoMore
  <1>9. Runs((s1 \o s2) \o s3, known, has, used)
        <=> /\ Runs(s1, known, has, used)
            /\ Runs(s2, known, has, used)
            /\ Runs(s3, known, has \cup {<<"contents", "rom">>}, used)
    BY <1>2, <1>3, <1>4, <1>7, <1>8, RunsThen, NoMore
  <1>10. /\ {<<"contents", "rom">>} \cup {<<"initialized", "rom">>}
              = RomInitMakes
         /\ (0 + 0) + 0 = 0
    BY DEF RomInitMakes
  <1>11. Does(RomInit(o), RomInitMakes,
            {}, {}, 0)
    BY <1>6, <1>8, <1>10
  <1>12. Runs(RomInit(o), known, has, used)
          <=> o.integrated_rom_init <= RomWords /\ Attr("rom") \in has
    BY <1>6, <1>9, <1>2, <1>3, <1>4
  <1> QED BY <1>11, <1>12

RomInitMade(o) == IF o.integrated_rom_init > 0 THEN RomInitMakes ELSE {}

(* Execution from LRAM starts at address 0. *)
LEMMA ResetAddress ==
  ASSUME NEW o
  PROVE  /\ reset_address(o) \in Nat
         /\ o.execute_from_lram => reset_address(o) = 0
  BY DEF reset_address, spiflash_region, Window, rom_offset

rom_blocks == 1

RomFits(o) ==
  o.integrated_rom_init > 0 => o.integrated_rom_init <= RomWords

(* setup_rom_in_lram, and the file for it. *)
LEMMA DoesRomInLram ==
  ASSUME NEW o, o.integrated_rom_init \in Nat,
         NEW known, NEW has, NEW used
  PROVE  /\ Does(setup_rom_in_lram(o)
                 \o When(o.integrated_rom_init > 0, RomInit(o)),
                {Attr("rom")} \cup RomInitMade(o),
                {}, {rom_window(o)}, rom_blocks)
         /\ Runs(setup_rom_in_lram(o)
                 \o When(o.integrated_rom_init > 0, RomInit(o)), known, has,
                 used)
              <=> Attr("cpu") \in has /\ RomFits(o)
  <1> DEFINE s1 == << NXLRAM("rom", rom_blocks, FALSE) >>
             s2 == << Maps({Attr("rom"), Attr("cpu")}, rom_window(o)) >>
             s3 == When(o.integrated_rom_init > 0, RomInit(o))
  <1>1. /\ {Attr("rom"), Attr("cpu")} \in SUBSET Things
    BY AttrIsThing DEF Things, Kinds, Names, Attributes
  <1>2. "rom" \in Attributes /\ rom_blocks \in 1 .. 5
    BY DEF Attributes, rom_blocks
  <1>3. rom_window(o) \in Windows
    <2>1. "rom" \in Slaves /\ reset_address(o) \in Nat /\ 1 \in Nat
      BY ResetAddress DEF Slaves
    <2> QED BY <2>1, WindowIsWindow DEF rom_window
  <1>4. /\ Does(s1, {Attr("rom")}, {}, {}, rom_blocks)
        /\ Runs(s1, known, has, used)
    BY <1>2, DoesLram
  <1>5. /\ Does(s2, {}, {}, {rom_window(o)}, 0)
        /\ Runs(s2, known, has \cup {Attr("rom")}, used)
             <=> {Attr("rom"), Attr("cpu")} \subseteq (has \cup {Attr("rom")})
    BY <1>3, <1>1, DoesMaps
  <1>6. /\ Does(s3, RomInitMade(o), {}, {}, 0)
        /\ Runs(s3, known, has \cup {Attr("rom")}, used)
             <=> RomFits(o)
    <2>1. Attr("rom") \in has \cup {Attr("rom")}
      OBVIOUS
    <2>2. CASE o.integrated_rom_init > 0
      <3>1. s3 = RomInit(o) /\ RomInitMade(o) = RomInitMakes
        BY <2>2 DEF When, RomInitMade
      <3> HIDE DEF s3
      <3> QED BY <2>1, <2>2, <3>1, DoesRomInit DEF RomFits
    <2>3. CASE ~(o.integrated_rom_init > 0)
      <3>1. s3 = <<>> /\ RomInitMade(o) = {}
        BY <2>3 DEF When, RomInitMade
      <3> HIDE DEF s3
      <3> QED BY <2>3, <3>1, DoesNothing DEF Runs, RomFits
    <2> QED BY <2>2, <2>3
  <1>7. setup_rom_in_lram(o) \o When(o.integrated_rom_init > 0, RomInit(o))
          = (s1 \o s2) \o s3
    <2>1. setup_rom_in_lram(o) = s1 \o s2
      BY TwoCalls DEF setup_rom_in_lram, rom_window, rom_blocks
    <2> HIDE DEF s1, s2
    <2> QED BY <2>1
  <1> HIDE DEF s1, s2, s3
  <1>8. Does(s1 \o s2, {Attr("rom")},
             {}, {rom_window(o)}, rom_blocks + 0)
    BY <1>4, <1>5, DoesConcat, NoMore
  <1>9. Does((s1 \o s2) \o s3, {Attr("rom")} \cup RomInitMade(o),
             {}, {rom_window(o)}, (rom_blocks + 0) + 0)
    BY <1>8, <1>6, DoesConcat, NoMore
  <1>10. Runs((s1 \o s2) \o s3, known, has, used)
         <=> /\ Runs(s1, known, has, used)
             /\ Runs(s2, known, has \cup {Attr("rom")}, used)
             /\ Runs(s3, known, has \cup {Attr("rom")}, used)
    BY <1>4, <1>5, <1>6, <1>8, <1>9, RunsThen, NoMore
  <1>11. (rom_blocks + 0) + 0 = rom_blocks
    BY <1>2 DEF rom_blocks
  <1>12. rom_blocks \in Int
    BY DEF rom_blocks
  <1>13. {Attr("rom"), Attr("cpu")} \subseteq has \cup {Attr("rom")}
           <=> Attr("cpu") \in has
    BY DEF Attr
  <1>14. Does(setup_rom_in_lram(o)
              \o When(o.integrated_rom_init > 0, RomInit(o)),
              {Attr("rom")} \cup RomInitMade(o),
            {}, {rom_window(o)}, rom_blocks)
    BY <1>7, <1>9, <1>11
  <1>15. Runs(setup_rom_in_lram(o)
              \o When(o.integrated_rom_init > 0, RomInit(o)), known, has, used)
          <=> Attr("cpu") \in has /\ RomFits(o)
    BY <1>7, <1>10, <1>4, <1>5, <1>6, <1>13
  <1> QED BY <1>14, <1>15

RomMade(o) ==
  IF o.execute_from_lram THEN {Attr("rom")} \cup RomInitMade(o) ELSE {}

rom_in_flash ==
  Window("none", spiflash_region.origin + rom_offset,
         spiflash_region.size - rom_offset)

RomMapped(o) == IF o.execute_from_lram THEN {rom_window(o)} ELSE {rom_in_flash}

RomBlocks(o) == IF o.execute_from_lram THEN rom_blocks ELSE 0

(* The flash is 16 MB at 0x20000000, *)
LEMMA FlashRegion ==
  /\ spiflash_region \in Windows /\ spiflash_region.slave = "spiflash"
  /\ spiflash_region.origin = 8192 /\ spiflash_region.size = 256
  <1>1. "spiflash" \in Slaves /\ 8192 \in Nat /\ 256 \in Nat
    BY DEF Slaves
  <1> QED BY <1>1, WindowIsWindow DEF spiflash_region

(* and what it holds after the bitstream is the ROM in flash. *)
LEMMA RomInFlash ==
  /\ rom_in_flash \in Windows /\ rom_in_flash.slave = "none"
  /\ rom_in_flash.origin = 8224 /\ rom_in_flash.size = 224
  <1>1. "none" \in Slaves /\ 8224 \in Nat /\ 224 \in Nat
    BY DEF Slaves
  <1>2. rom_in_flash = Window("none", 8224, 224)
    BY FlashRegion DEF rom_in_flash, rom_offset
  <1> QED BY <1>1, <1>2, WindowIsWindow

(* The ROM, in LRAM or in flash. *)
LEMMA DoesHpsRom ==
  ASSUME NEW o, o.integrated_rom_init \in Nat, NEW known, NEW has, NEW used
  PROVE  /\ Does(HpsRom(o), RomMade(o), {}, RomMapped(o), RomBlocks(o))
         /\ Runs(HpsRom(o), known, has, used)
              <=> (o.execute_from_lram => Attr("cpu") \in has /\ RomFits(o))
  <1>1. CASE o.execute_from_lram
    <2> DEFINE s == setup_rom_in_lram(o)
          \o When(o.integrated_rom_init > 0, RomInit(o))
    <2>1. HpsRom(o) = s
      BY <1>1 DEF HpsRom, RomInit
    <2>2. /\ RomMade(o) = {Attr("rom")} \cup RomInitMade(o)
          /\ RomMapped(o) = {rom_window(o)} /\ RomBlocks(o) = rom_blocks
      BY <1>1 DEF RomMade, RomMapped, RomBlocks
    <2>3. /\ Does(s, {Attr("rom")} \cup RomInitMade(o), {}, {rom_window(o)},
                  rom_blocks)
          /\ Runs(s, known, has, used) <=> Attr("cpu") \in has /\ RomFits(o)
      BY DoesRomInLram
    <2> HIDE DEF s
    <2> QED BY <1>1, <2>1, <2>2, <2>3
  <1>2. CASE ~o.execute_from_lram
    <2>1. HpsRom(o) = << Maps({}, rom_in_flash) >>
      BY <1>2 DEF HpsRom, setup_rom_in_flash, rom_in_flash
    <2>2. /\ RomMade(o) = {} /\ RomMapped(o) = {rom_in_flash}
          /\ RomBlocks(o) = 0
      BY <1>2 DEF RomMade, RomMapped, RomBlocks
    <2>3. /\ Does(<< Maps({}, rom_in_flash) >>, {}, {}, {rom_in_flash}, 0)
          /\ Runs(<< Maps({}, rom_in_flash) >>, known, has, used)
      BY RomInFlash, DoesMaps, EmptySets
    <2> QED BY <1>2, <2>1, <2>2, <2>3
  <1> QED BY <1>1, <1>2

DebugAsked(o) == IF o.debug THEN {o.uartbone} ELSE {}
DebugMapped(o) == IF o.debug THEN {vexriscv_region} ELSE {}

DebugCalls(o) ==
  << Requests({o.uartbone}, {}),
     Maps({Attr("cpu.debug_bus")}, vexriscv_region) >>

(* The UART bridge and the debug bus. *)
LEMMA DoesDebugCalls ==
  ASSUME NEW o, o.uartbone \in {"serial", "serial2"},
         NEW known, NEW has, NEW used
  PROVE  /\ Does(DebugCalls(o),
                {},
                {o.uartbone}, {vexriscv_region}, 0)
         /\ Runs(DebugCalls(o), known, has, used)
              <=> Free({o.uartbone}, known, has, used)
                /\ Attr("cpu.debug_bus") \in has
  <1> DEFINE c1 == Requests({o.uartbone}, {})
             c2 == Maps({Attr("cpu.debug_bus")}, vexriscv_region)
             s1 == << c1 >>
             s2 == << c2 >>
  <1>1. /\ {Attr("cpu.debug_bus")} \in SUBSET Things
    BY AttrIsThing DEF Things, Kinds, Names, Attributes
  <1>2. {o.uartbone} \in SUBSET Pads
    BY DEF Pads, SimPads
  <1>3. vexriscv_region \in Windows
    <2>1. "vexriscv_debug" \in Slaves /\ 61455 \in Nat /\ 1 \in Nat
      BY DEF Slaves
    <2> QED BY <2>1, WindowIsWindow DEF vexriscv_region
  <1>4. /\ Does(s1, {}, {o.uartbone}, {}, 0)
        /\ Runs(s1, known, has, used)
             <=> Free({o.uartbone}, known, has, used)
    BY <1>2, DoesRequests, EmptySets
  <1>5. /\ Does(s2, {}, {}, {vexriscv_region}, 0)
        /\ Runs(s2, known, has, used \cup {o.uartbone})
             <=> Attr("cpu.debug_bus") \in has
    BY <1>1, <1>3, DoesMaps
  <1>6. DebugCalls(o) = << c1, c2 >>
    BY DEF DebugCalls
  <1> HIDE DEF c1, c2
  <1>7. DebugCalls(o) = s1 \o s2
    BY <1>6, TwoCalls
  <1> HIDE DEF s1, s2
  <1>8. Does(s1 \o s2, {},
             {o.uartbone}, {vexriscv_region}, 0 + 0)
    BY <1>4, <1>5, DoesConcat, NoMore
  <1>9. Runs(s1 \o s2, known, has, used)
        <=> /\ Runs(s1, known, has, used)
            /\ Runs(s2, known, has, used \cup {o.uartbone})
    BY <1>4, <1>5, <1>8, RunsThen, NoMore
  <1>10. 0 + 0 = 0
    OBVIOUS
  <1>11. Does(DebugCalls(o), {},
            {o.uartbone}, {vexriscv_region}, 0)
    BY <1>7, <1>8, <1>10
  <1>12. Runs(DebugCalls(o), known, has, used)
          <=> Free({o.uartbone}, known, has, used)
            /\ Attr("cpu.debug_bus") \in has
    BY <1>7, <1>9, <1>4, <1>5
  <1> QED BY <1>11, <1>12

(* Both, with --debug. *)
LEMMA DoesHpsDebug ==
  ASSUME NEW o, o.uartbone \in {"serial", "serial2"}, NEW known, NEW has,
         NEW used
  PROVE  /\ Does(HpsDebug(o), {}, DebugAsked(o), DebugMapped(o), 0)
         /\ Runs(HpsDebug(o), known, has, used)
              <=> (o.debug => /\ Free({o.uartbone}, known, has, used)
                              /\ Attr("cpu.debug_bus") \in has)
  <1>1. CASE o.debug
    <2>1. /\ HpsDebug(o) = DebugCalls(o)
          /\ DebugAsked(o) = {o.uartbone} /\ DebugMapped(o) = {vexriscv_region}
      BY <1>1 DEF HpsDebug, DebugCalls, When, DebugAsked, DebugMapped
    <2> QED BY <1>1, <2>1, DoesDebugCalls
  <1>2. CASE ~o.debug
    <2>1. HpsDebug(o) = <<>> /\ DebugAsked(o) = {} /\ DebugMapped(o) = {}
      BY <1>2 DEF HpsDebug, When, DebugAsked, DebugMapped
    <2> QED BY <1>2, <2>1, DoesNothing DEF Runs
  <1> QED BY <1>1, <1>2

(* The builder has a BIOS to write into the ROM.                           *)
BiosToWrite(o) ==
  /\ o.execute_from_lram /\ o.build_bios
  /\ ~(o.execute_from_lram /\ o.integrated_rom_init > 0)

BiosMade(o) == IF BiosToWrite(o) THEN {<<"contents", "rom">>} ELSE {}

(* initialize_rom: a BIOS that fits is written where there is a ROM. *)
LEMMA DoesInitializeRom ==
  ASSUME NEW o, o.bios \in Nat, NEW known, NEW has, NEW used
  PROVE  /\ Does(initialize_rom(o), BiosMade(o), {}, {}, 0)
         /\ Runs(initialize_rom(o), known, has, used)
              <=> (BiosToWrite(o) => o.bios <= RomWords /\ Attr("rom") \in has)
  <1>1. CASE BiosToWrite(o)
    <2>1. /\ initialize_rom(o) = << add_init("rom", o.bios) >>
          /\ BiosMade(o) = {<<"contents", "rom">>}
      BY <1>1 DEF initialize_rom, BiosToWrite, BiosMade, When
    <2> QED BY <1>1, <2>1, DoesAddInit
  <1>2. CASE ~BiosToWrite(o)
    <2>1. initialize_rom(o) = <<>> /\ BiosMade(o) = {}
      BY <1>2 DEF initialize_rom, BiosToWrite, BiosMade, When
    <2> QED BY <1>2, <2>1, DoesNothing DEF Runs
  <1> QED BY <1>1, <1>2

-----------------------------------------------------------------------------
(* hps_soc.py *)

(* CPU, memories and clocks. *)
HpsFirst(o) ==
  ((HpsCpu(o) \o setup_ram(ram_size(o))) \o setup_arena(arena_size(o)))
  \o HpsClockControl(o)

HpsCpuMade(o) == CrgMakes \cup CpuMakes(o)

HpsFirstMade(o) ==
  ((HpsCpuMade(o) \cup {Attr("lram")}) \cup ArenaMade(o)) \cup HpsClockMakes(o)

csr_window == Window("csr", csr_origin, 1)

lram_window(o) == Window("lram", sram_origin, ram_size(o))

HpsFirstMapped(o) == ({csr_window} \cup {lram_window(o)}) \cup ArenaMapped(o)

(* The LRAM has between one and five blocks. *)
LEMMA RamSize ==
  ASSUME NEW o
  PROVE  ram_size(o) \in 1 .. 5
  BY DEF ram_size, RAM_SIZE

(* The CPU, its LRAM, the arena and the clocks. *)
LEMMA DoesHpsFirst ==
  ASSUME NEW o
  PROVE  /\ Does(HpsFirst(o),
                HpsFirstMade(o),
                {}, HpsFirstMapped(o), (0 + ram_size(o) + arena_size(o)) + 0)
         /\ Runs(HpsFirst(o), HpsPads, {}, {})
              <=> (o.dynamic_clock_control => o.cpu_cfu)
  <1> DEFINE s1 == HpsCpu(o)
             s2 == setup_ram(ram_size(o))
             s3 == setup_arena(arena_size(o))
             s4 == HpsClockControl(o)
  <1>1. ram_size(o) \in 1 .. 5
    BY RamSize
  <1>2. /\ Does(s1, HpsCpuMade(o), {}, {csr_window}, 0)
        /\ Runs(s1, HpsPads, {}, {})
    BY DoesHpsCpu DEF HpsCpuMade, csr_window
  <1>3. /\ Does(s2, {Attr("lram")}, {}, {lram_window(o)}, ram_size(o))
        /\ Runs(s2, HpsPads, HpsCpuMade(o), {})
    BY <1>1, DoesSetupRam DEF lram_window
  <1>4. /\ Does(s3, ArenaMade(o), {}, ArenaMapped(o), arena_size(o))
        /\ Runs(s3, HpsPads, HpsCpuMade(o) \cup {Attr("lram")}, {})
    BY DoesSetupArena
  <1>5. /\ Does(s4, HpsClockMakes(o), {}, {}, 0)
        /\ Runs(s4, HpsPads,
                (HpsCpuMade(o) \cup {Attr("lram")}) \cup ArenaMade(o), {})
             <=> (o.dynamic_clock_control
                  => DynamicFit((HpsCpuMade(o) \cup {Attr("lram")})
                                \cup ArenaMade(o)))
                 /\ ClocksFit(o,
                              (HpsCpuMade(o) \cup {Attr("lram")})
                                \cup ArenaMade(o))
    BY DoesHpsClockControl
  <1>6. HpsFirst(o) = ((s1 \o s2) \o s3) \o s4
    BY DEF HpsFirst
  <1> HIDE DEF s1, s2, s3, s4
  <1>7. Does(s1 \o s2, HpsCpuMade(o) \cup {Attr("lram")},
             {}, {csr_window} \cup {lram_window(o)}, 0 + ram_size(o))
    BY <1>2, <1>3, DoesConcat, NoMore
  <1>8. Does((s1 \o s2) \o s3,
             (HpsCpuMade(o) \cup {Attr("lram")}) \cup ArenaMade(o),
             {}, ({csr_window} \cup {lram_window(o)}) \cup ArenaMapped(o),
             (0 + ram_size(o)) + arena_size(o))
    BY <1>7, <1>4, DoesConcat, NoMore
  <1>9. Does(((s1 \o s2) \o s3) \o s4,
             ((HpsCpuMade(o) \cup {Attr("lram")}) \cup ArenaMade(o))
               \cup HpsClockMakes(o),
             {}, ({csr_window} \cup {lram_window(o)}) \cup ArenaMapped(o),
             ((0 + ram_size(o)) + arena_size(o)) + 0)
    BY <1>8, <1>5, DoesConcat, NoMore
  <1>10. Runs(((s1 \o s2) \o s3) \o s4, HpsPads, {}, {})
         <=> /\ Runs(s1, HpsPads, {}, {})
             /\ Runs(s2, HpsPads, HpsCpuMade(o), {})
             /\ Runs(s3, HpsPads, HpsCpuMade(o) \cup {Attr("lram")}, {})
             /\ Runs(s4, HpsPads,
                     (HpsCpuMade(o) \cup {Attr("lram")}) \cup ArenaMade(o), {})
    BY <1>2, <1>3, <1>4, <1>5, <1>7, <1>8, <1>9, RunsThen, NoMore
  <1>11. /\ ((HpsCpuMade(o) \cup {Attr("lram")}) \cup ArenaMade(o))
              \cup HpsClockMakes(o) = HpsFirstMade(o)
         /\ ({csr_window} \cup {lram_window(o)}) \cup ArenaMapped(o)
              = HpsFirstMapped(o)
         /\ ((0 + ram_size(o)) + arena_size(o)) + 0
              = (0 + ram_size(o) + arena_size(o)) + 0
    BY DEF HpsFirstMade, HpsFirstMapped
  <1>12. DynamicFit((HpsCpuMade(o) \cup {Attr("lram")}) \cup ArenaMade(o))
           <=> o.cpu_cfu
    BY DEF DynamicFit, HpsCpuMade, CrgMakes, CpuMakes, ArenaMade, ArenaMakes,
       Attr
  <1>13. ClocksFit(o, (HpsCpuMade(o) \cup {Attr("lram")}) \cup ArenaMade(o))
    BY DEF ClocksFit, ArenaMade, ArenaMakes
  <1>14. Does(HpsFirst(o), HpsFirstMade(o),
            {}, HpsFirstMapped(o), (0 + ram_size(o) + arena_size(o)) + 0)
    BY <1>6, <1>9, <1>11
  <1>15. Runs(HpsFirst(o), HpsPads, {}, {})
          <=> (o.dynamic_clock_control => o.cpu_cfu)
    BY <1>6, <1>10, <1>2, <1>3, <1>4, <1>5, <1>12, <1>13
  <1> QED BY <1>14, <1>15

HpsRam(o) == (0 + ram_size(o) + arena_size(o)) + 0

PortMade(o) == IF o.cfu_mport THEN PortMakes ELSE {}

(* ... and the rest of the memories. *)
HpsMemories(o) ==
  ((HpsFirst(o) \o When(o.cfu_mport, connect_cfu_to_lram))
   \o setup_litespi_flash)
  \o HpsRom(o)

HpsMemoriesMade(o) ==
  ((HpsFirstMade(o) \cup PortMade(o)) \cup FlashMakes) \cup RomMade(o)

HpsMemoriesMapped(o) ==
  (HpsFirstMapped(o) \cup {spiflash_region}) \cup RomMapped(o)

(* The options for which all of it can be made. *)
MemoriesFit(o) ==
  /\ o.dynamic_clock_control => o.cpu_cfu
  /\ o.cfu_mport => o.cpu_cfu /\ o.separate_arena
  /\ o.execute_from_lram => RomFits(o)

HpsBlocks(o) == HpsRam(o) + 0 + 0 + RomBlocks(o)

(* The constructor of HpsSoC, up to the ROM. *)
LEMMA DoesHpsMemories ==
  ASSUME NEW o, o.integrated_rom_init \in Nat
  PROVE  /\ Does(HpsMemories(o),
                HpsMemoriesMade(o),
                {"spiflash4x"}, HpsMemoriesMapped(o), HpsBlocks(o))
         /\ Runs(HpsMemories(o), HpsPads, {}, {})
              <=> MemoriesFit(o)
  <1> DEFINE s1 == HpsFirst(o)
             s2 == When(o.cfu_mport, connect_cfu_to_lram)
             s3 == setup_litespi_flash
             s4 == HpsRom(o)
  <1>1. /\ Does(s1, HpsFirstMade(o), {}, HpsFirstMapped(o), HpsRam(o))
        /\ Runs(s1, HpsPads, {}, {})
             <=> (o.dynamic_clock_control => o.cpu_cfu)
    BY DoesHpsFirst DEF HpsRam
  <1>2. /\ Does(s2, PortMade(o), {}, {}, 0)
        /\ Runs(s2, HpsPads, HpsFirstMade(o), {})
             <=> (o.cfu_mport =>
                   Attr("cpu.cfu_params") \in HpsFirstMade(o)
                     /\ <<"b_clkens", "arena">> \in HpsFirstMade(o))
    <2>1. CASE o.cfu_mport
      <3>1. s2 = connect_cfu_to_lram /\ PortMade(o) = PortMakes
        BY <2>1 DEF When, PortMade
      <3> HIDE DEF s2
      <3> QED BY <2>1, <3>1, DoesPorts
    <2>2. CASE ~(o.cfu_mport)
      <3>1. s2 = <<>> /\ PortMade(o) = {}
        BY <2>2 DEF When, PortMade
      <3> HIDE DEF s2
      <3> QED BY <2>2, <3>1, DoesNothing DEF Runs
    <2> QED BY <2>1, <2>2
  <1>3. /\ Does(s3, FlashMakes, {"spiflash4x"}, {spiflash_region}, 0)
        /\ Runs(s3, HpsPads, HpsFirstMade(o) \cup PortMade(o), {})
             <=> Free({"spiflash4x"}, HpsPads,
                      HpsFirstMade(o) \cup PortMade(o), {})
    BY DoesFlash
  <1>4. /\ Does(s4, RomMade(o), {}, RomMapped(o), RomBlocks(o))
        /\ Runs(s4, HpsPads,
                (HpsFirstMade(o) \cup PortMade(o)) \cup FlashMakes,
                {"spiflash4x"})
             <=> (o.execute_from_lram
                  => Attr("cpu") \in ((HpsFirstMade(o) \cup PortMade(o))
                                      \cup FlashMakes) /\ RomFits(o))
    BY DoesHpsRom
  <1>5. HpsMemories(o) = ((s1 \o s2) \o s3) \o s4
    BY DEF HpsMemories
  <1> HIDE DEF s1, s2, s3, s4
  <1>6. Does(s1 \o s2, HpsFirstMade(o) \cup PortMade(o),
             {}, HpsFirstMapped(o), HpsRam(o) + 0)
    BY <1>1, <1>2, DoesConcat, NoMore
  <1>7. Does((s1 \o s2) \o s3,
             (HpsFirstMade(o) \cup PortMade(o)) \cup FlashMakes,
             {"spiflash4x"}, HpsFirstMapped(o) \cup {spiflash_region},
             (HpsRam(o) + 0) + 0)
    BY <1>6, <1>3, DoesConcat, NoMore
  <1>8. Does(((s1 \o s2) \o s3) \o s4,
             ((HpsFirstMade(o) \cup PortMade(o)) \cup FlashMakes)
               \cup RomMade(o),
             {"spiflash4x"},
             (HpsFirstMapped(o) \cup {spiflash_region}) \cup RomMapped(o),
             ((HpsRam(o) + 0) + 0) + RomBlocks(o))
    BY <1>7, <1>4, DoesConcat, NoMore
  <1>9. Runs(((s1 \o s2) \o s3) \o s4, HpsPads, {}, {})
        <=> /\ Runs(s1, HpsPads, {}, {})
            /\ Runs(s2, HpsPads, HpsFirstMade(o), {})
            /\ Runs(s3, HpsPads, HpsFirstMade(o) \cup PortMade(o), {})
            /\ Runs(s4, HpsPads,
                    (HpsFirstMade(o) \cup PortMade(o)) \cup FlashMakes,
                    {"spiflash4x"})
    BY <1>1, <1>2, <1>3, <1>4, <1>6, <1>7, <1>8, RunsThen, NoMore
  <1>10. /\ ((HpsFirstMade(o) \cup PortMade(o)) \cup FlashMakes)
              \cup RomMade(o) = HpsMemoriesMade(o)
         /\ (HpsFirstMapped(o) \cup {spiflash_region}) \cup RomMapped(o)
              = HpsMemoriesMapped(o)
         /\ ((HpsRam(o) + 0) + 0) + RomBlocks(o) = HpsBlocks(o)
    BY DEF HpsMemoriesMade, HpsMemoriesMapped, HpsBlocks
  <1>11. Attr("cpu.cfu_params") \in HpsFirstMade(o) <=> o.cpu_cfu
    BY DEF HpsFirstMade, HpsCpuMade, CrgMakes, CpuMakes, ArenaMade, ArenaMakes,
           HpsClockMakes, DynamicMakes, ClockMakes, ArenaClock, PortClock, Attr
  <1>12. <<"b_clkens", "arena">> \in HpsFirstMade(o) <=> o.separate_arena
    BY DEF HpsFirstMade, HpsCpuMade, CrgMakes, CpuMakes, ArenaMade, ArenaMakes,
           HpsClockMakes, DynamicMakes, ClockMakes, ArenaClock, PortClock, Attr
  <1>13. Attr("cpu") \in HpsFirstMade(o)
    BY DEF HpsFirstMade, HpsCpuMade, CpuMakes
  <1>14. Free({"spiflash4x"}, HpsPads, HpsFirstMade(o) \cup PortMade(o), {})
    BY DEF Free, HpsPads
  <1>15. Does(HpsMemories(o), HpsMemoriesMade(o),
            {"spiflash4x"}, HpsMemoriesMapped(o), HpsBlocks(o))
    BY <1>5, <1>8, <1>10
  <1>16. Runs(HpsMemories(o), HpsPads, {}, {})
          <=> MemoriesFit(o)
    BY <1>5, <1>9, <1>1, <1>2, <1>3, <1>4, <1>11, <1>12, <1>13, <1>14
       DEF MemoriesFit
  <1> QED BY <1>15, <1>16

TimerMade(o) == IF o.build_bios THEN {Attr("timer0")} ELSE {}

HpsMade(o) == (HpsMemoriesMade(o) \cup TimerMade(o)) \cup BiosMade(o)

HpsAsked(o) == ({"spiflash4x"} \cup {"serial"}) \cup DebugAsked(o)

HpsMapped(o) == HpsMemoriesMapped(o) \cup DebugMapped(o)

HpsTotal(o) == HpsBlocks(o) + 0 + 0 + 0 + 0

(* The options of the HPS that can be built. *)
HpsFits(o) ==
  /\ ~o.debug /\ MemoriesFit(o)
  /\ BiosToWrite(o) => o.bios <= RomWords

(* The whole program: what it makes, asks for, maps and takes. *)
LEMMA DoesHpsMain ==
  ASSUME NEW o \in HpsOptions
  PROVE  /\ Does(HpsMain(o),
                HpsMade(o),
                HpsAsked(o), HpsMapped(o), HpsTotal(o))
         /\ Runs(HpsMain(o), HpsPads, {}, {})
              <=> HpsFits(o)
  <1> DEFINE s1 == HpsMemories(o)
             s2 == << Requests({"serial"}, {}) >>
             s3 == HpsDebug(o)
             s4 == When(o.build_bios, << Makes({Attr("timer0")}) >>)
             s5 == initialize_rom(o)
  <1>1. /\ o.integrated_rom_init \in Nat /\ o.bios \in Nat
        /\ o.uartbone \in {"serial", "serial2"}
    BY HpsOptionTypes
  <1>2. /\ {Attr("timer0")} \in SUBSET Things
    BY AttrIsThing DEF Things, Kinds, Names, Attributes
  <1>3. {"serial"} \in SUBSET Pads
    BY DEF Pads, SimPads
  <1>4. /\ Does(s1, HpsMemoriesMade(o), {"spiflash4x"}, HpsMemoriesMapped(o),
                HpsBlocks(o))
        /\ Runs(s1, HpsPads, {}, {})
             <=> MemoriesFit(o)
    BY <1>1, DoesHpsMemories
  <1>5. /\ Does(s2, {}, {"serial"}, {}, 0)
        /\ Runs(s2, HpsPads, HpsMemoriesMade(o), {"spiflash4x"})
             <=> Free({"serial"}, HpsPads, HpsMemoriesMade(o), {"spiflash4x"})
    BY <1>3, DoesRequests, EmptySets
  <1>6. /\ Does(s3, {}, DebugAsked(o), DebugMapped(o), 0)
        /\ Runs(s3, HpsPads, HpsMemoriesMade(o),
                {"spiflash4x"} \cup {"serial"})
             <=> (o.debug
                  => /\ Free({o.uartbone}, HpsPads, HpsMemoriesMade(o),
                             {"spiflash4x"} \cup {"serial"})
                     /\ Attr("cpu.debug_bus") \in HpsMemoriesMade(o))
    BY <1>1, DoesHpsDebug
  <1>7. /\ Does(s4, TimerMade(o), {}, {}, 0)
        /\ Runs(s4, HpsPads, HpsMemoriesMade(o),
                ({"spiflash4x"} \cup {"serial"}) \cup DebugAsked(o))
    <2>1. CASE o.build_bios
      <3>1. /\ s4 = << Makes({Attr("timer0")}) >>
            /\ TimerMade(o) = {Attr("timer0")}
        BY <2>1 DEF When, TimerMade
      <3> HIDE DEF s4
      <3> QED BY <2>1, <3>1, <1>2, DoesMakes
    <2>2. CASE ~(o.build_bios)
      <3>1. s4 = <<>> /\ TimerMade(o) = {}
        BY <2>2 DEF When, TimerMade
      <3> HIDE DEF s4
      <3> QED BY <2>2, <3>1, DoesNothing DEF Runs
    <2> QED BY <2>1, <2>2
  <1>8. /\ Does(s5, BiosMade(o), {}, {}, 0)
        /\ Runs(s5, HpsPads, HpsMemoriesMade(o) \cup TimerMade(o),
                ({"spiflash4x"} \cup {"serial"}) \cup DebugAsked(o))
             <=> (BiosToWrite(o) =>
                   o.bios <= RomWords
                     /\ Attr("rom") \in (HpsMemoriesMade(o) \cup TimerMade(o)))
    BY <1>1, DoesInitializeRom
  <1>9. HpsMain(o) = (((s1 \o s2) \o s3) \o s4) \o s5
    BY DEF HpsMain, HpsSoC, HpsMemories, HpsFirst, HpsCpu
  <1> HIDE DEF s1, s2, s3, s4, s5
  <1>10. Does(s1 \o s2, HpsMemoriesMade(o),
              {"spiflash4x"} \cup {"serial"}, HpsMemoriesMapped(o),
              HpsBlocks(o) + 0)
    BY <1>4, <1>5, DoesConcat, NoMore
  <1>11. Does((s1 \o s2) \o s3, HpsMemoriesMade(o),
              ({"spiflash4x"} \cup {"serial"}) \cup DebugAsked(o),
              HpsMemoriesMapped(o) \cup DebugMapped(o), (HpsBlocks(o) + 0) + 0)
    BY <1>10, <1>6, DoesConcat, NoMore
  <1>12. Does(((s1 \o s2) \o s3) \o s4, HpsMemoriesMade(o) \cup TimerMade(o),
              ({"spiflash4x"} \cup {"serial"}) \cup DebugAsked(o),
              HpsMemoriesMapped(o) \cup DebugMapped(o),
                ((HpsBlocks(o) + 0) + 0) + 0)
    BY <1>11, <1>7, DoesConcat, NoMore
  <1>13. Does((((s1 \o s2) \o s3) \o s4) \o s5,
              (HpsMemoriesMade(o) \cup TimerMade(o)) \cup BiosMade(o),
              ({"spiflash4x"} \cup {"serial"}) \cup DebugAsked(o),
              HpsMemoriesMapped(o) \cup DebugMapped(o),
                (((HpsBlocks(o) + 0) + 0) + 0) + 0)
    BY <1>12, <1>8, DoesConcat, NoMore
  <1>14. Runs((((s1 \o s2) \o s3) \o s4) \o s5, HpsPads, {}, {})
         <=> /\ Runs(s1, HpsPads, {}, {})
             /\ Runs(s2, HpsPads, HpsMemoriesMade(o), {"spiflash4x"})
             /\ Runs(s3, HpsPads, HpsMemoriesMade(o),
                     {"spiflash4x"} \cup {"serial"})
             /\ Runs(s4, HpsPads, HpsMemoriesMade(o),
                     ({"spiflash4x"} \cup {"serial"}) \cup DebugAsked(o))
             /\ Runs(s5, HpsPads, HpsMemoriesMade(o) \cup TimerMade(o),
                     ({"spiflash4x"} \cup {"serial"}) \cup DebugAsked(o))
    BY <1>4, <1>5, <1>6, <1>7, <1>8, <1>10, <1>11, <1>12, <1>13, RunsThen,
       NoMore
  <1>15. /\ (HpsMemoriesMade(o) \cup TimerMade(o)) \cup BiosMade(o)
              = HpsMade(o)
         /\ ({"spiflash4x"} \cup {"serial"}) \cup DebugAsked(o) = HpsAsked(o)
         /\ HpsMemoriesMapped(o) \cup DebugMapped(o) = HpsMapped(o)
         /\ (((HpsBlocks(o) + 0) + 0) + 0) + 0 = HpsTotal(o)
    BY DEF HpsMade, HpsAsked, HpsMapped, HpsTotal
  <1>16. Free({"serial"}, HpsPads, HpsMemoriesMade(o), {"spiflash4x"})
    BY DEF Free, HpsPads
  <1>17. <<"extension", "serial2">> \notin HpsMemoriesMade(o)
    BY DEF HpsMemoriesMade, HpsFirstMade, HpsCpuMade, CrgMakes, CpuMakes,
           ArenaMade, ArenaMakes, HpsClockMakes, DynamicMakes, ClockMakes,
           ArenaClock, PortClock, PortMade, PortMakes, FlashMakes, RomMade,
           RomInitMade, RomInitMakes, Attr
  <1>18. ~Free({o.uartbone}, HpsPads, HpsMemoriesMade(o),
               {"spiflash4x"} \cup {"serial"})
    BY <1>1, <1>17 DEF Free, HpsPads
  <1>19. o.execute_from_lram => Attr("rom") \in HpsMemoriesMade(o)
    BY DEF HpsMemoriesMade, RomMade
  <1>20. BiosToWrite(o) => o.execute_from_lram
    BY DEF BiosToWrite
  <1>21. Does(HpsMain(o), HpsMade(o),
            HpsAsked(o), HpsMapped(o), HpsTotal(o))
    BY <1>9, <1>13, <1>15
  <1>22. Runs(HpsMain(o), HpsPads, {}, {})
          <=> HpsFits(o)
    BY <1>9, <1>14, <1>4, <1>5, <1>6, <1>7, <1>8, <1>16, <1>18, <1>19, <1>20
       DEF HpsFits
  <1> QED BY <1>21, <1>22

-----------------------------------------------------------------------------
(* sim.py and litex_sim.py *)

(* What the options of litex_sim.py are, *)
LEMMA LitexSimOptionTypes ==
  ASSUME NEW o \in LitexSimOptions
  PROVE  /\ o.main_ram \in BOOLEAN /\ o.ram_init \in {"none", "bin", "json"}
         /\ o.with_sdram \in BOOLEAN
         /\ o.sdram_init \in {"none", "bin", "json"}
         /\ o.with_ethernet \in BOOLEAN /\ o.with_etherbone \in BOOLEAN
         /\ o.phy \in {"sim", "xgmii", "gmii", "rgmii"}
         /\ o.devices \in SUBSET {"i2c", "gpio", "spi_flash", "analyzer"}
  BY Zenon DEF LitexSimOptions

(* and those of sim.py. *)
LEMMA SimOptionTypes ==
  ASSUME NEW o \in SimOptions
  PROVE  /\ o.run \in BOOLEAN /\ o.bin \in BOOLEAN
         /\ o.separate_arena \in BOOLEAN
         /\ o.cfu_mport \in BOOLEAN /\ o.cpu_cfu \in BOOLEAN
  BY Zenon DEF SimOptions

(* What sim.py asks of the SoC are options of litex_sim.py. *)
LEMMA SimArgsAreOptions ==
  ASSUME NEW o
  PROVE  /\ SimArgs(o) \in LitexSimOptions
         /\ SimArgs(o).main_ram = TRUE /\ SimArgs(o).with_sdram = FALSE
         /\ SimArgs(o).with_ethernet = FALSE
         /\ SimArgs(o).with_etherbone = FALSE
         /\ SimArgs(o).devices = {} /\ SimArgs(o).phy = "sim"
  BY DEF SimArgs, LitexSimOptions

ModuleMade(pads) == {<<"module", p>> : p \in pads}

(* A module of the simulator, for pads that there are. *)
LEMMA DoesSimModule ==
  ASSUME NEW pads \in SUBSET Pads, NEW known, NEW has, NEW used
  PROVE  /\ Does(<< SimModule(pads) >>, ModuleMade(pads), {}, {}, 0)
         /\ Runs(<< SimModule(pads) >>, known, has, used) <=> pads # {}
  <1> DEFINE ok == pads # {}
             m == ModuleMade(pads)
             s == << Call(ok, {}, {}, m, {}, 0) >>
  <1>1. ok \in BOOLEAN
    OBVIOUS
  <1>2. m \in SUBSET Things
    BY DEF ModuleMade, Things, Kinds, Names
  <1>3. << SimModule(pads) >> = s
    BY DEF SimModule, ModuleMade
  <1> HIDE DEF ok, m
  <1>4. /\ Does(s, m, {}, {}, 0)
        /\ Runs(s, known, has, used)
             <=> ok /\ {} \subseteq has /\ Free({}, known, has, used)
    BY <1>1, <1>2, DoesCall, EmptySets
  <1> HIDE DEF s
  <1> QED BY <1>3, <1>4, EmptySets DEF ok, m

(* Every PHY but one has pads. *)
LEMMA EthPadsOf ==
  ASSUME NEW phy \in {"sim", "xgmii", "gmii", "rgmii"}
  PROVE  /\ EthPads(phy) \in SUBSET {"eth", "xgmii_eth", "gmii_eth"}
         /\ EthPads(phy) \in SUBSET Pads /\ EthPads(phy) \in SUBSET SimPads
         /\ EthPads(phy) # {} <=> phy # "rgmii"
  BY DEF EthPads, Pads, SimPads

(* The core of LiteX, with the windows that all these SoCs have. *)
CoreWindows == {Window("rom", 0, 2), Window("csr", 61440, 1)}

CoreMade(cpu_cfu) ==
  {Attr("cpu")} \cup (IF cpu_cfu THEN {Attr("cpu.cfu_params")} ELSE {})

(* The windows of the core are windows. *)
LEMMA CoreWindow ==
  CoreWindows \in SUBSET Windows
  <1>1. "rom" \in Slaves /\ "csr" \in Slaves /\ 0 \in Nat /\ 2 \in Nat
        /\ 61440 \in Nat /\ 1 \in Nat
    BY DEF Slaves
  <1> QED BY <1>1, WindowIsWindow DEF CoreWindows

(* SoCCore of LiteX. *)
LEMMA DoesSoCCore ==
  ASSUME NEW uart \in SUBSET Pads, NEW cpu_cfu \in BOOLEAN,
         NEW windows \in SUBSET Windows, NEW known, NEW has, NEW used
  PROVE  /\ Does(<< SoCCore(uart, cpu_cfu, windows) >>, CoreMade(cpu_cfu),
                 uart,
                 CoreWindows \cup windows, 0)
         /\ Runs(<< SoCCore(uart, cpu_cfu, windows) >>, known, has, used)
              <=> /\ Attr("crg") \in has
                  /\ <<"CPUS", "VexRiscvCFURAM">> \in has
                  /\ Free(uart, known, has, used)
  <1> DEFINE needs == {Attr("crg"), <<"CPUS", "VexRiscvCFURAM">>}
             m == CoreMade(cpu_cfu)
             w == CoreWindows \cup windows
             s == << Call(TRUE, needs, uart, m, w, 0) >>
  <1>1. needs \in SUBSET Things
    BY AttrIsThing DEF Things, Kinds, Names, Attributes
  <1>2. m \in SUBSET Things
    <2>1. "cpu" \in Attributes /\ "cpu.cfu_params" \in Attributes
      BY DEF Attributes
    <2> QED BY <2>1, AttrIsThing DEF CoreMade
  <1>3. w \in SUBSET Windows
    BY CoreWindow
  <1>4. << SoCCore(uart, cpu_cfu, windows) >> = s
    BY DEF SoCCore, CoreMade, CoreWindows
  <1>5. needs \subseteq has
          <=> Attr("crg") \in has /\ <<"CPUS", "VexRiscvCFURAM">> \in has
    OBVIOUS
  <1> HIDE DEF needs, m, w
  <1>6. /\ Does(s, m, uart, w, 0)
        /\ Runs(s, known, has, used)
             <=> TRUE /\ needs \subseteq has /\ Free(uart, known, has, used)
    BY <1>1, <1>2, <1>3, DoesCall
  <1> HIDE DEF s
  <1> QED BY <1>4, <1>5, <1>6 DEF m, w

sdram_window == main_ram(2048)

SdramConsts(preloaded) ==
  IF preloaded
    THEN {<<"const", "SDRAM_TEST_DISABLE">>, <<"contents", "main_ram">>}
  ELSE {<<"const", "MEMTEST_DATA_SIZE">>, <<"const", "MEMTEST_ADDR_SIZE">>}

SdramMade(preloaded) == {Attr("sdrphy")} \cup SdramConsts(preloaded)

(* The main memory is a window of that size. *)
LEMMA MainRamWindow ==
  ASSUME NEW size \in Nat
  PROVE  /\ main_ram(size) \in Windows /\ main_ram(size).slave = "main_ram"
         /\ main_ram(size).origin = 16384 /\ main_ram(size).size = size
  <1>1. "main_ram" \in Slaves /\ 16384 \in Nat
    BY DEF Slaves
  <1> QED BY <1>1, WindowIsWindow DEF main_ram, main_ram_origin

(* The SDRAM, preloaded or not. *)
LEMMA DoesSdram ==
  ASSUME NEW preloaded,
         NEW known, NEW has, NEW used
  PROVE  /\ Does(Sdram(preloaded),
                SdramMade(preloaded),
                {}, {sdram_window}, 0)
         /\ Runs(Sdram(preloaded), known, has, used)
  <1> DEFINE c1 == Makes({Attr("sdrphy")})
             c2 == Maps({Attr("sdrphy")}, sdram_window)
             c3 == Makes(SdramConsts(preloaded))
             s1 == << c1 >>
             s2 == << c2 >>
             s3 == << c3 >>
  <1>1. /\ {Attr("sdrphy")} \in SUBSET Things
    BY AttrIsThing DEF Things, Kinds, Names, Attributes
  <1>2. SdramConsts(preloaded) \in SUBSET Things
    BY DEF SdramConsts, Things, Kinds, Names
  <1>3. sdram_window \in Windows
    BY MainRamWindow DEF sdram_window
  <1>4. /\ Does(s1, {Attr("sdrphy")}, {}, {}, 0)
        /\ Runs(s1, known, has, used)
    BY <1>1, DoesMakes
  <1>5. /\ Does(s2, {}, {}, {sdram_window}, 0)
        /\ Runs(s2, known, has \cup {Attr("sdrphy")}, used)
    BY <1>1, <1>3, DoesMaps
  <1>6. /\ Does(s3, SdramConsts(preloaded), {}, {}, 0)
        /\ Runs(s3, known, has \cup {Attr("sdrphy")}, used)
    BY <1>2, DoesMakes
  <1>7. Sdram(preloaded) = << c1, c2, c3 >>
    BY DEF Sdram, SdramConsts, sdram_window
  <1> HIDE DEF c1, c2, c3
  <1>8. Sdram(preloaded) = (s1 \o s2) \o s3
    BY <1>7, ThreeCalls
  <1> HIDE DEF s1, s2, s3
  <1>9. Does(s1 \o s2, {Attr("sdrphy")},
             {}, {sdram_window}, 0 + 0)
    BY <1>4, <1>5, DoesConcat, NoMore
  <1>10. Does((s1 \o s2) \o s3, {Attr("sdrphy")} \cup SdramConsts(preloaded),
              {}, {sdram_window}, (0 + 0) + 0)
    BY <1>9, <1>6, DoesConcat, NoMore
  <1>11. Runs((s1 \o s2) \o s3, known, has, used)
         <=> /\ Runs(s1, known, has, used)
             /\ Runs(s2, known, has \cup {Attr("sdrphy")}, used)
             /\ Runs(s3, known, has \cup {Attr("sdrphy")}, used)
    BY <1>4, <1>5, <1>6, <1>9, <1>10, RunsThen, NoMore
  <1>12. /\ {Attr("sdrphy")} \cup SdramConsts(preloaded) = SdramMade(preloaded)
         /\ (0 + 0) + 0 = 0
    BY DEF SdramMade
  <1>13. Does(Sdram(preloaded), SdramMade(preloaded),
            {}, {sdram_window}, 0)
    BY <1>8, <1>10, <1>12
  <1>14. Runs(Sdram(preloaded), known, has, used)
    BY <1>8, <1>11, <1>4, <1>5, <1>6
  <1> QED BY <1>13, <1>14

ethmac_window == Window("ethmac", 32768, 1)

EthMac ==
  << From({Attr("ethphy"), Attr("cpu")}, {Attr("ethmac")}),
     Maps({Attr("ethmac")}, ethmac_window) >>

(* The MAC of the CPU. *)
LEMMA DoesEthMac ==
  ASSUME NEW known, NEW has, NEW used
  PROVE  /\ Does(EthMac,
                {Attr("ethmac")},
                {}, {ethmac_window}, 0)
         /\ Runs(EthMac, known, has, used)
              <=> {Attr("ethphy"), Attr("cpu")} \subseteq has
  <1> DEFINE c1 == From({Attr("ethphy"), Attr("cpu")}, {Attr("ethmac")})
             c2 == Maps({Attr("ethmac")}, ethmac_window)
             s1 == << c1 >>
             s2 == << c2 >>
  <1>1. /\ {Attr("ethphy"), Attr("cpu")} \in SUBSET Things
        /\ {Attr("ethmac")} \in SUBSET Things
    BY AttrIsThing DEF Things, Kinds, Names, Attributes
  <1>2. ethmac_window \in Windows
    <2>1. "ethmac" \in Slaves /\ 32768 \in Nat /\ 1 \in Nat
      BY DEF Slaves
    <2> QED BY <2>1, WindowIsWindow DEF ethmac_window
  <1>3. /\ Does(s1, {Attr("ethmac")}, {}, {}, 0)
        /\ Runs(s1, known, has, used)
             <=> {Attr("ethphy"), Attr("cpu")} \subseteq has
    BY <1>1, DoesFrom
  <1>4. /\ Does(s2, {}, {}, {ethmac_window}, 0)
        /\ Runs(s2, known, has \cup {Attr("ethmac")}, used)
    BY <1>1, <1>2, DoesMaps
  <1>5. EthMac = << c1, c2 >>
    BY DEF EthMac
  <1> HIDE DEF c1, c2
  <1>6. EthMac = s1 \o s2
    BY <1>5, TwoCalls
  <1> HIDE DEF s1, s2
  <1>7. Does(s1 \o s2, {Attr("ethmac")},
             {}, {ethmac_window}, 0 + 0)
    BY <1>3, <1>4, DoesConcat, NoMore
  <1>8. Runs(s1 \o s2, known, has, used)
        <=> /\ Runs(s1, known, has, used)
            /\ Runs(s2, known, has \cup {Attr("ethmac")}, used)
    BY <1>3, <1>4, <1>7, RunsThen, NoMore
  <1>9. 0 + 0 = 0
    OBVIOUS
  <1>10. Does(EthMac, {Attr("ethmac")},
            {}, {ethmac_window}, 0)
    BY <1>6, <1>7, <1>9
  <1>11. Runs(EthMac, known, has, used)
          <=> {Attr("ethphy"), Attr("cpu")} \subseteq has
    BY <1>6, <1>8, <1>3, <1>4
  <1> QED BY <1>10, <1>11

Eth(o) == o.with_ethernet \/ o.with_etherbone

EthAsked(o) == If(Eth(o), EthPads(o.phy))

EthMade(o) ==
  (If(Eth(o), {Attr("ethphy")}) \cup If(o.with_ethernet, {Attr("ethmac")}))
  \cup If(o.with_etherbone, {Attr("etherbone")})

EthMapped(o) == If(o.with_ethernet, {ethmac_window})

EthPhy(o) ==
  << Call(EthPads(o.phy) # {}, {}, EthPads(o.phy), {Attr("ethphy")}, {}, 0) >>

EthMaster(o) ==
  << From({Attr(IF o.with_ethernet THEN "ethmac" ELSE "ethphy")},
          {Attr("etherbone")}) >>

master_of(o) == {Attr(IF o.with_ethernet THEN "ethmac" ELSE "ethphy")}

(* An Ethernet that is asked for has a PHY with pads. *)
EthFits(o) == Eth(o) => o.phy # "rgmii"

(* The PHY of an Ethernet. *)
LEMMA DoesEthPhy ==
  ASSUME NEW o \in LitexSimOptions, NEW known, NEW has, NEW used
  PROVE  /\ Does(EthPhy(o), {Attr("ethphy")}, EthPads(o.phy), {}, 0)
         /\ Runs(EthPhy(o), known, has, used)
              <=> o.phy # "rgmii" /\ Free(EthPads(o.phy), known, has, used)
  <1> DEFINE ok == EthPads(o.phy) # {}
             p == EthPads(o.phy)
             m == {Attr("ethphy")}
             s == << Call(ok, {}, p, m, {}, 0) >>
  <1>1. ok \in BOOLEAN
    OBVIOUS
  <1>2. m \in SUBSET Things
    BY AttrIsThing DEF Attributes
  <1>3. p \in SUBSET Pads /\ (ok <=> o.phy # "rgmii")
    BY LitexSimOptionTypes, EthPadsOf
  <1>4. EthPhy(o) = s
    BY DEF EthPhy
  <1> HIDE DEF ok, p, m
  <1>5. /\ Does(s, m, p, {}, 0)
        /\ Runs(s, known, has, used)
             <=> ok /\ {} \subseteq has /\ Free(p, known, has, used)
    BY <1>1, <1>2, <1>3, DoesCall, EmptySets
  <1> HIDE DEF s
  <1>6. {} \subseteq has
    OBVIOUS
  <1>7. /\ Does(EthPhy(o), m, p, {}, 0)
        /\ Runs(EthPhy(o), known, has, used)
             <=> o.phy # "rgmii" /\ Free(p, known, has, used)
    BY <1>3, <1>4, <1>5, <1>6
  <1> QED BY <1>7 DEF m, p

(* Ethernet and Etherbone, either or both. *)
LEMMA DoesEthernet ==
  ASSUME NEW o \in LitexSimOptions, NEW has, NEW used,
         Attr("cpu") \in has, Free(EthPads(o.phy), SimPads, has, used)
  PROVE  /\ Does(Ethernet(o),
                EthMade(o),
                EthAsked(o), EthMapped(o), 0)
         /\ Runs(Ethernet(o), SimPads, has, used)
              <=> EthFits(o)
  <1> DEFINE m1 == If(Eth(o), {Attr("ethphy")})
             p1 == If(Eth(o), EthPads(o.phy))
             m2 == If(o.with_ethernet, {Attr("ethmac")})
             w2 == If(o.with_ethernet, {ethmac_window})
             m3 == If(o.with_etherbone, {Attr("etherbone")})
             s1 == When(Eth(o),
                       EthPhy(o))
             s2 == When(o.with_ethernet,
                       EthMac)
             s3 == When(o.with_etherbone,
                       EthMaster(o))
  <1>1. /\ {Attr("etherbone")} \in SUBSET Things
        /\ {Attr(IF o.with_ethernet THEN "ethmac"
                 ELSE "ethphy")} \in SUBSET Things
    <2>1. "etherbone" \in Attributes /\ "ethmac" \in Attributes
          /\ "ethphy" \in Attributes
      BY DEF Attributes
    <2> QED BY <2>1, AttrIsThing
  <1>2. /\ Does(s1, m1, p1, {}, 0)
        /\ Runs(s1, SimPads, has, used)
             <=> (Eth(o)
                  => o.phy # "rgmii"
                    /\ Free(EthPads(o.phy), SimPads, has, used))
    <2> DEFINE r == EthPhy(o)
    <2>1. /\ Does(r, {Attr("ethphy")}, EthPads(o.phy), {}, 0)
          /\ Runs(r, SimPads, has, used)
               <=> o.phy # "rgmii" /\ Free(EthPads(o.phy), SimPads, has, used)
      BY DoesEthPhy
    <2>2. s1 = When(Eth(o), r)
      OBVIOUS
    <2> HIDE DEF r, s1
    <2> QED BY <2>1, <2>2, DoesIf, IfNothing
  <1>3. /\ Does(s2, m2, {}, w2, 0)
        /\ Runs(s2, SimPads, has \cup m1, used \cup p1)
             <=> (o.with_ethernet
                  => {Attr("ethphy"), Attr("cpu")} \subseteq (has \cup m1))
    <2> DEFINE r == EthMac
    <2>1. /\ Does(r, {Attr("ethmac")}, {}, {ethmac_window}, 0)
          /\ Runs(r, SimPads, (has \cup m1), (used \cup p1))
               <=> {Attr("ethphy"), Attr("cpu")} \subseteq (has \cup m1)
      BY DoesEthMac
    <2>2. s2 = When(o.with_ethernet, r)
      OBVIOUS
    <2> HIDE DEF r, s2
    <2> QED BY <2>1, <2>2, DoesIf, IfNothing
  <1>4. /\ Does(s3, m3, {}, {}, 0)
        /\ Runs(s3, SimPads, has \cup (m1 \cup m2), used \cup p1)
             <=> (o.with_etherbone
                  => master_of(o) \subseteq (has \cup (m1 \cup m2)))
    <2> DEFINE r == EthMaster(o)
    <2>1. /\ Does(r, {Attr("etherbone")}, {}, {}, 0)
          /\ Runs(r, SimPads, (has \cup (m1 \cup m2)), (used \cup p1))
               <=> master_of(o) \subseteq (has \cup (m1 \cup m2))
      BY <1>1, DoesFrom DEF EthMaster, master_of
    <2>2. s3 = When(o.with_etherbone, r)
      OBVIOUS
    <2> HIDE DEF r, s3
    <2> QED BY <2>1, <2>2, DoesIf, IfNothing
  <1>5. Ethernet(o) = (s1 \o s2) \o s3
    BY DEF Ethernet, Eth, EthPhy, EthMac, EthMaster, ethmac_window
  <1> HIDE DEF s1, s2, s3, m1, p1, m2, w2, m3
  <1>6. Does(s1 \o s2, m1 \cup m2,
             p1, w2, 0 + 0)
    BY <1>2, <1>3, DoesConcat, NoMore
  <1>7. Does((s1 \o s2) \o s3, (m1 \cup m2) \cup m3,
             p1, w2, (0 + 0) + 0)
    BY <1>6, <1>4, DoesConcat, NoMore
  <1>8. Runs((s1 \o s2) \o s3, SimPads, has, used)
        <=> /\ Runs(s1, SimPads, has, used)
            /\ Runs(s2, SimPads, has \cup m1, used \cup p1)
            /\ Runs(s3, SimPads, has \cup (m1 \cup m2), used \cup p1)
    BY <1>2, <1>3, <1>4, <1>6, <1>7, RunsThen, NoMore
  <1>9. /\ (m1 \cup m2) \cup m3 = EthMade(o)
        /\ p1 = EthAsked(o)
        /\ w2 = EthMapped(o)
        /\ (0 + 0) + 0 = 0
    BY DEF EthMade, EthAsked, EthMapped, m1, p1, m2, w2, m3
  <1>10. o.with_ethernet => {Attr("ethphy"), Attr("cpu")} \subseteq has \cup m1
    BY DEF If, Eth, m1
  <1>11. o.with_etherbone => master_of(o) \subseteq has \cup (m1 \cup m2)
    BY DEF If, Eth, master_of, m1, m2
  <1>12. Does(Ethernet(o), EthMade(o),
            EthAsked(o), EthMapped(o), 0)
    BY <1>5, <1>7, <1>9
  <1>13. Runs(Ethernet(o), SimPads, has, used)
          <=> EthFits(o)
    BY <1>5, <1>8, <1>2, <1>3, <1>4, <1>10, <1>11 DEF EthFits
  <1> QED BY <1>12, <1>13

Device(o, name) == name \in o.devices

DevicesMade(o) ==
  ((If(Device(o, "i2c"), {Attr("i2c")})
    \cup If(Device(o, "spi_flash"), {Attr("spiflash_phy")}))
   \cup If(Device(o, "gpio"), {Attr("gpio")}))
  \cup If(Device(o, "analyzer"), {Attr("analyzer")})

DevicesAsked(o) == If(Device(o, "i2c"), {"i2c"})
  \cup If(Device(o, "gpio"), {"gpio"})

(* The devices on the pads of the simulator. *)
LEMMA DoesDevices ==
  ASSUME NEW o, NEW has, NEW used,
         Attr("cpu") \in has, Free({"i2c", "gpio"}, SimPads, has, used)
  PROVE  /\ Does(Devices(o),
                DevicesMade(o),
                DevicesAsked(o), {}, 0)
         /\ Runs(Devices(o), SimPads, has, used)
  <1> DEFINE m1 == If(Device(o, "i2c"), {Attr("i2c")})
             p1 == If(Device(o, "i2c"), {"i2c"})
             m2 == If(Device(o, "spi_flash"), {Attr("spiflash_phy")})
             m3 == If(Device(o, "gpio"), {Attr("gpio")})
             p3 == If(Device(o, "gpio"), {"gpio"})
             m4 == If(Device(o, "analyzer"), {Attr("analyzer")})
             s1 == When(Device(o, "i2c"),
                       << Requests({"i2c"}, {Attr("i2c")}) >>)
             s2 == When(Device(o, "spi_flash"),
                       << Makes({Attr("spiflash_phy")}) >>)
             s3 == When(Device(o, "gpio"),
                       << Requests({"gpio"}, {Attr("gpio")}) >>)
             s4 == When(Device(o, "analyzer"),
                       << From({Attr("cpu")}, {Attr("analyzer")}) >>)
  <1>1. /\ {Attr("i2c")} \in SUBSET Things
        /\ {Attr("spiflash_phy")} \in SUBSET Things
        /\ {Attr("gpio")} \in SUBSET Things
        /\ {Attr("analyzer")} \in SUBSET Things
        /\ {Attr("cpu")} \in SUBSET Things
    BY AttrIsThing DEF Things, Kinds, Names, Attributes
  <1>2. {"i2c"} \in SUBSET Pads /\ {"gpio"} \in SUBSET Pads
    BY DEF Pads, SimPads
  <1>3. /\ Does(s1, m1, p1, {}, 0)
        /\ Runs(s1, SimPads, has, used)
             <=> (Device(o, "i2c") => Free({"i2c"}, SimPads, has, used))
    <2> DEFINE r == << Requests({"i2c"}, {Attr("i2c")}) >>
    <2>1. /\ Does(r, {Attr("i2c")}, {"i2c"}, {}, 0)
          /\ Runs(r, SimPads, has, used)
               <=> Free({"i2c"}, SimPads, has, used)
      BY <1>1, <1>2, DoesRequests
    <2>2. s1 = When(Device(o, "i2c"), r)
      OBVIOUS
    <2> HIDE DEF r, s1
    <2> QED BY <2>1, <2>2, DoesIf, IfNothing
  <1>4. /\ Does(s2, m2, {}, {}, 0)
        /\ Runs(s2, SimPads, has \cup m1, used \cup p1)
    <2> DEFINE r == << Makes({Attr("spiflash_phy")}) >>
    <2>1. /\ Does(r, {Attr("spiflash_phy")}, {}, {}, 0)
          /\ Runs(r, SimPads, (has \cup m1), (used \cup p1))
      BY <1>1, DoesMakes
    <2>2. s2 = When(Device(o, "spi_flash"), r)
      OBVIOUS
    <2> HIDE DEF r, s2
    <2> QED BY <2>1, <2>2, DoesIf, IfNothing
  <1>5. /\ Does(s3, m3, p3, {}, 0)
        /\ Runs(s3, SimPads, has \cup (m1 \cup m2), used \cup p1)
             <=> (Device(o, "gpio")
                  => Free({"gpio"}, SimPads, has \cup (m1 \cup m2),
                          used \cup p1))
    <2> DEFINE r == << Requests({"gpio"}, {Attr("gpio")}) >>
    <2>1. /\ Does(r, {Attr("gpio")}, {"gpio"}, {}, 0)
          /\ Runs(r, SimPads, (has \cup (m1 \cup m2)), (used \cup p1))
               <=> Free({"gpio"}, SimPads, has \cup (m1 \cup m2), used \cup p1)
      BY <1>1, <1>2, DoesRequests
    <2>2. s3 = When(Device(o, "gpio"), r)
      OBVIOUS
    <2> HIDE DEF r, s3
    <2> QED BY <2>1, <2>2, DoesIf, IfNothing
  <1>6. /\ Does(s4, m4, {}, {}, 0)
        /\ Runs(s4, SimPads, has \cup ((m1 \cup m2) \cup m3),
                used \cup (p1 \cup p3))
             <=> (Device(o, "analyzer")
                  => Attr("cpu") \in (has \cup ((m1 \cup m2) \cup m3)))
    <2> DEFINE r == << From({Attr("cpu")}, {Attr("analyzer")}) >>
    <2>1. /\ Does(r, {Attr("analyzer")}, {}, {}, 0)
          /\ Runs(r, SimPads, has \cup ((m1 \cup m2) \cup m3),
                  used \cup (p1 \cup p3))
               <=> Attr("cpu") \in (has \cup ((m1 \cup m2) \cup m3))
      BY <1>1, DoesFrom
    <2>2. s4 = When(Device(o, "analyzer"), r)
      OBVIOUS
    <2> HIDE DEF r, s4
    <2> QED BY <2>1, <2>2, DoesIf, IfNothing
  <1>7. Devices(o) = ((s1 \o s2) \o s3) \o s4
    BY DEF Devices, Device
  <1> HIDE DEF s1, s2, s3, s4, m1, p1, m2, m3, p3, m4
  <1>8. Does(s1 \o s2, m1 \cup m2,
             p1, {}, 0 + 0)
    BY <1>3, <1>4, DoesConcat, NoMore
  <1>9. Does((s1 \o s2) \o s3, (m1 \cup m2) \cup m3,
             p1 \cup p3, {}, (0 + 0) + 0)
    BY <1>8, <1>5, DoesConcat, NoMore
  <1>10. Does(((s1 \o s2) \o s3) \o s4, ((m1 \cup m2) \cup m3) \cup m4,
              p1 \cup p3, {}, ((0 + 0) + 0) + 0)
    BY <1>9, <1>6, DoesConcat, NoMore
  <1>11. Runs(((s1 \o s2) \o s3) \o s4, SimPads, has, used)
         <=> /\ Runs(s1, SimPads, has, used)
             /\ Runs(s2, SimPads, has \cup m1, used \cup p1)
             /\ Runs(s3, SimPads, has \cup (m1 \cup m2), used \cup p1)
             /\ Runs(s4, SimPads, has \cup ((m1 \cup m2) \cup m3),
                     used \cup (p1 \cup p3))
    BY <1>3, <1>4, <1>5, <1>6, <1>8, <1>9, <1>10, RunsThen, NoMore
  <1>12. /\ ((m1 \cup m2) \cup m3) \cup m4 = DevicesMade(o)
         /\ p1 \cup p3 = DevicesAsked(o)
         /\ ((0 + 0) + 0) + 0 = 0
    BY DEF DevicesMade, DevicesAsked, m1, p1, m2, m3, p3, m4
  <1>13. Free({"i2c"}, SimPads, has, used)
    BY DEF Free
  <1>14. Free({"gpio"}, SimPads, has \cup (m1 \cup m2), used \cup p1)
    BY DEF Free, If, p1
  <1>15. Does(Devices(o), DevicesMade(o),
            DevicesAsked(o), {}, 0)
    BY <1>7, <1>10, <1>12
  <1>16. Runs(Devices(o), SimPads, has, used)
    BY <1>7, <1>11, <1>3, <1>4, <1>5, <1>6, <1>13, <1>14
  <1> QED BY <1>15, <1>16

(* The CPU, and the memories that come with it. *)
IntegratedRam(o) ==
  IF o.main_ram THEN {main_ram(integrated_main_ram_size)} ELSE {}

SimCore(o, cpu_cfu) ==
  << Makes({<<"CPUS", "VexRiscvCFURAM">>}),
               Requests({"sys_clk"}, {Attr("crg")}),
     SoCCore({"serial"}, cpu_cfu, IntegratedRam(o)) >>

SimCoreMade(cpu_cfu) ==
  ({<<"CPUS", "VexRiscvCFURAM">>} \cup {Attr("crg")}) \cup CoreMade(cpu_cfu)

SimCoreMapped(o) == CoreWindows \cup IntegratedRam(o)

(* The CPU class, the clock generator and the core. *)
LEMMA DoesSimCore ==
  ASSUME NEW o, NEW cpu_cfu \in BOOLEAN, NEW has
  PROVE  /\ Does(SimCore(o, cpu_cfu),
                SimCoreMade(cpu_cfu),
                {"sys_clk"} \cup {"serial"}, SimCoreMapped(o), 0)
         /\ Runs(SimCore(o, cpu_cfu), SimPads, has, {})
  <1> DEFINE c1 == Makes({<<"CPUS", "VexRiscvCFURAM">>})
             c2 == Requests({"sys_clk"}, {Attr("crg")})
             c3 == SoCCore({"serial"}, cpu_cfu, IntegratedRam(o))
             s1 == << c1 >>
             s2 == << c2 >>
             s3 == << c3 >>
             h == {<<"CPUS", "VexRiscvCFURAM">>} \cup {Attr("crg")}
  <1>1. /\ {<<"CPUS", "VexRiscvCFURAM">>} \in SUBSET Things
        /\ {Attr("crg")} \in SUBSET Things
    BY AttrIsThing DEF Things, Kinds, Names, Attributes
  <1>2. {"sys_clk"} \in SUBSET Pads /\ {"serial"} \in SUBSET Pads
    BY DEF Pads, SimPads
  <1>3. IntegratedRam(o) \in SUBSET Windows
    BY MainRamWindow DEF IntegratedRam, integrated_main_ram_size
  <1>4. /\ Does(s1, {<<"CPUS", "VexRiscvCFURAM">>}, {}, {}, 0)
        /\ Runs(s1, SimPads, has, {})
    BY <1>1, DoesMakes
  <1>5. /\ Does(s2, {Attr("crg")}, {"sys_clk"}, {}, 0)
        /\ Runs(s2, SimPads, has \cup {<<"CPUS", "VexRiscvCFURAM">>}, {})
             <=> Free({"sys_clk"}, SimPads,
                      has \cup {<<"CPUS", "VexRiscvCFURAM">>}, {})
    BY <1>1, <1>2, DoesRequests
  <1>6. /\ Does(s3, CoreMade(cpu_cfu), {"serial"}, SimCoreMapped(o), 0)
        /\ Runs(s3, SimPads, has \cup h, {"sys_clk"})
             <=> /\ Attr("crg") \in has \cup h
                 /\ <<"CPUS", "VexRiscvCFURAM">> \in has \cup h
                 /\ Free({"serial"}, SimPads, has \cup h, {"sys_clk"})
    BY <1>2, <1>3, DoesSoCCore DEF SimCoreMapped
  <1>7. SimCore(o, cpu_cfu) = << c1, c2, c3 >>
    BY DEF SimCore
  <1> HIDE DEF c1, c2, c3
  <1>8. SimCore(o, cpu_cfu) = (s1 \o s2) \o s3
    BY <1>7, ThreeCalls
  <1> HIDE DEF s1, s2, s3
  <1>9. Does(s1 \o s2, h, {"sys_clk"}, {}, 0 + 0)
    BY <1>4, <1>5, DoesConcat, NoMore
  <1>10. Does((s1 \o s2) \o s3, h \cup CoreMade(cpu_cfu),
              {"sys_clk"} \cup {"serial"}, SimCoreMapped(o), (0 + 0) + 0)
    BY <1>9, <1>6, DoesConcat, NoMore
  <1>11. Runs((s1 \o s2) \o s3, SimPads, has, {})
         <=> /\ Runs(s1, SimPads, has, {})
             /\ Runs(s2, SimPads, has \cup {<<"CPUS", "VexRiscvCFURAM">>}, {})
             /\ Runs(s3, SimPads, has \cup h, {"sys_clk"})
    BY <1>4, <1>5, <1>6, <1>9, <1>10, RunsThen, NoMore
  <1>12. /\ h \cup CoreMade(cpu_cfu) = SimCoreMade(cpu_cfu)
         /\ (0 + 0) + 0 = 0
    BY DEF SimCoreMade
  <1>13. Free({"sys_clk"}, SimPads, has \cup {<<"CPUS", "VexRiscvCFURAM">>},
              {})
    BY DEF Free, SimPads
  <1>14. Free({"serial"}, SimPads, has \cup h, {"sys_clk"})
    BY DEF Free, SimPads
  <1>15. Does(SimCore(o, cpu_cfu), SimCoreMade(cpu_cfu),
            {"sys_clk"} \cup {"serial"}, SimCoreMapped(o), 0)
    BY <1>8, <1>10, <1>12
  <1>16. Runs(SimCore(o, cpu_cfu), SimPads, has, {})
    BY <1>8, <1>11, <1>4, <1>5, <1>6, <1>13, <1>14
  <1> QED BY <1>15, <1>16

Dram(o) == ~o.main_ram /\ o.with_sdram

SimSoCMade(o, cpu_cfu) ==
  ((SimCoreMade(cpu_cfu) \cup If(Dram(o), SdramMade(o.sdram_init # "none")))
   \cup EthMade(o)) \cup DevicesMade(o)

SimSoCAsked(o) == (({"sys_clk"} \cup {"serial"}) \cup EthAsked(o))
  \cup DevicesAsked(o)

SimSoCMapped(o) ==
  (SimCoreMapped(o) \cup If(Dram(o), {sdram_window})) \cup EthMapped(o)

(* The constructor of SimSoC. *)
LEMMA DoesSimSoC ==
  ASSUME NEW o \in LitexSimOptions, NEW cpu_cfu \in BOOLEAN, NEW has
  PROVE  /\ Does(SimSoC(o, cpu_cfu),
                SimSoCMade(o, cpu_cfu),
                SimSoCAsked(o), SimSoCMapped(o), 0)
         /\ Runs(SimSoC(o, cpu_cfu), SimPads, has, {})
              <=> EthFits(o)
  <1> DEFINE m2 == If(Dram(o), SdramMade(o.sdram_init # "none"))
             w2 == If(Dram(o), {sdram_window})
             s1 == SimCore(o, cpu_cfu)
             s2 == When(Dram(o),
                       Sdram(o.sdram_init # "none"))
             s3 == Ethernet(o)
             s4 == Devices(o)
  <1>1. /\ Does(s1, SimCoreMade(cpu_cfu), {"sys_clk"} \cup {"serial"},
                SimCoreMapped(o), 0)
        /\ Runs(s1, SimPads, has, {})
    BY DoesSimCore
  <1>2. /\ Does(s2, m2, {}, w2, 0)
        /\ Runs(s2, SimPads, has \cup SimCoreMade(cpu_cfu),
                {"sys_clk"} \cup {"serial"})
    <2> DEFINE r == Sdram(o.sdram_init # "none")
    <2>1. /\ Does(r, SdramMade(o.sdram_init # "none"), {}, {sdram_window}, 0)
          /\ Runs(r, SimPads, has \cup SimCoreMade(cpu_cfu),
                  {"sys_clk"} \cup {"serial"})
      BY DoesSdram
    <2>2. s2 = When(Dram(o), r)
      OBVIOUS
    <2> HIDE DEF r, s2
    <2> QED BY <2>1, <2>2, DoesIf, IfNothing
  <1>3. /\ Does(s3, EthMade(o), EthAsked(o), EthMapped(o), 0)
        /\ Runs(s3, SimPads, has \cup (SimCoreMade(cpu_cfu) \cup m2),
                {"sys_clk"} \cup {"serial"})
             <=> EthFits(o)
    <2>1. Attr("cpu") \in (has \cup (SimCoreMade(cpu_cfu) \cup m2))
      BY DEF SimCoreMade, CoreMade
    <2>2. Free(EthPads(o.phy), SimPads,
               has \cup (SimCoreMade(cpu_cfu) \cup m2),
               {"sys_clk"} \cup {"serial"})
      BY LitexSimOptionTypes, EthPadsOf DEF Free
    <2> HIDE DEF s3
    <2>3. s3 = Ethernet(o)
      BY DEF s3
    <2> QED BY <2>1, <2>2, <2>3, DoesEthernet
  <1>4. /\ Does(s4, DevicesMade(o), DevicesAsked(o), {}, 0)
        /\ Runs(s4, SimPads,
                has \cup ((SimCoreMade(cpu_cfu) \cup m2) \cup EthMade(o)),
                ({"sys_clk"} \cup {"serial"}) \cup EthAsked(o))
    <2>1. Attr("cpu") \in (has
                           \cup ((SimCoreMade(cpu_cfu) \cup m2)
                                 \cup EthMade(o)))
      BY DEF SimCoreMade, CoreMade
    <2>2. EthAsked(o) \in SUBSET {"eth", "xgmii_eth", "gmii_eth"}
      BY LitexSimOptionTypes, EthPadsOf DEF EthAsked, If
    <2>3. Free({"i2c", "gpio"}, SimPads,
               has \cup ((SimCoreMade(cpu_cfu) \cup m2) \cup EthMade(o)),
               ({"sys_clk"} \cup {"serial"}) \cup EthAsked(o))
      BY <2>2 DEF Free, SimPads
    <2> HIDE DEF s4
    <2>4. s4 = Devices(o)
      BY DEF s4
    <2> QED BY <2>1, <2>3, <2>4, DoesDevices
  <1>5. SimSoC(o, cpu_cfu) = ((s1 \o s2) \o s3) \o s4
    BY DEF SimSoC, SimCore, IntegratedRam, Dram
  <1> HIDE DEF s1, s2, s3, s4, m2, w2
  <1>6. Does(s1 \o s2, SimCoreMade(cpu_cfu) \cup m2,
             ({"sys_clk"} \cup {"serial"}), SimCoreMapped(o) \cup w2, 0 + 0)
    BY <1>1, <1>2, DoesConcat, NoMore
  <1>7. Does((s1 \o s2) \o s3, (SimCoreMade(cpu_cfu) \cup m2) \cup EthMade(o),
             ({"sys_clk"} \cup {"serial"}) \cup EthAsked(o),
             (SimCoreMapped(o) \cup w2) \cup EthMapped(o), (0 + 0) + 0)
    BY <1>6, <1>3, DoesConcat, NoMore
  <1>8. Does(((s1 \o s2) \o s3) \o s4,
             ((SimCoreMade(cpu_cfu) \cup m2) \cup EthMade(o))
               \cup DevicesMade(o),
             (({"sys_clk"} \cup {"serial"}) \cup EthAsked(o))
               \cup DevicesAsked(o),
               (SimCoreMapped(o) \cup w2) \cup EthMapped(o), ((0 + 0) + 0) + 0)
    BY <1>7, <1>4, DoesConcat, NoMore
  <1>9. Runs(((s1 \o s2) \o s3) \o s4, SimPads, has, {})
        <=> /\ Runs(s1, SimPads, has, {})
            /\ Runs(s2, SimPads, has \cup SimCoreMade(cpu_cfu),
                    {"sys_clk"} \cup {"serial"})
            /\ Runs(s3, SimPads, has \cup (SimCoreMade(cpu_cfu) \cup m2),
                    {"sys_clk"} \cup {"serial"})
            /\ Runs(s4, SimPads,
                    has \cup ((SimCoreMade(cpu_cfu) \cup m2) \cup EthMade(o)),
                    ({"sys_clk"} \cup {"serial"}) \cup EthAsked(o))
    BY <1>1, <1>2, <1>3, <1>4, <1>6, <1>7, <1>8, RunsThen, NoMore
  <1>10. /\ ((SimCoreMade(cpu_cfu) \cup m2) \cup EthMade(o))
              \cup DevicesMade(o) = SimSoCMade(o, cpu_cfu)
         /\ (({"sys_clk"} \cup {"serial"}) \cup EthAsked(o))
              \cup DevicesAsked(o) = SimSoCAsked(o)
         /\ (SimCoreMapped(o) \cup w2) \cup EthMapped(o) = SimSoCMapped(o)
         /\ ((0 + 0) + 0) + 0 = 0
    BY DEF SimSoCMade, SimSoCAsked, SimSoCMapped, m2, w2
  <1>11. Does(SimSoC(o, cpu_cfu), SimSoCMade(o, cpu_cfu),
            SimSoCAsked(o), SimSoCMapped(o), 0)
    BY <1>5, <1>8, <1>10
  <1>12. Runs(SimSoC(o, cpu_cfu), SimPads, has, {})
          <=> EthFits(o)
    BY <1>5, <1>9, <1>1, <1>2, <1>3, <1>4
  <1> QED BY <1>11, <1>12

RamLoaded(o) == o.main_ram /\ o.ram_init # "none"

Boots(o) == SimImage(o) # "none"

ContentsMade == {<<"contents", "main_ram">>}
BootMade == {<<"const", "ROM_BOOT_ADDRESS">>}
IpMade == {<<"const", "LOCALIP">>, <<"const", "REMOTEIP">>}

LitexSoCMade(o) == SimSoCMade(o, FALSE)

LitexSimMade(o) ==
  (((((ModuleMade({"serial"}) \cup If(RamLoaded(o), ContentsMade))
      \cup If(Eth(o), ModuleMade(EthPads(o.phy))))
     \cup If(Device(o, "i2c"), ModuleMade({"i2c"})))
    \cup LitexSoCMade(o))
   \cup If(Boots(o), BootMade))
  \cup If(o.with_ethernet, IpMade)

(* The options of litex_sim.py that can be built. *)
LitexSimFits(o) == EthFits(o) /\ (Dram(o) => o.ram_init = "none")

(* The whole of litex_sim.py. *)
LEMMA DoesLitexSimMain ==
  ASSUME NEW o \in LitexSimOptions
  PROVE  /\ Does(LitexSimMain(o),
                LitexSimMade(o),
                SimSoCAsked(o), SimSoCMapped(o), 0)
         /\ Runs(LitexSimMain(o), SimPads, {}, {})
              <=> LitexSimFits(o)
  <1> DEFINE m2 == If(RamLoaded(o), ContentsMade)
             m4 == If(Eth(o), ModuleMade(EthPads(o.phy)))
             m5 == If(Device(o, "i2c"), ModuleMade({"i2c"}))
             m7 == If(Boots(o), BootMade)
             m8 == If(o.with_ethernet, IpMade)
             s1 == << SimModule({"serial"}) >>
             s2 == When(RamLoaded(o),
                       << Makes(ContentsMade) >>)
             s3 == When(Dram(o),
                       << Asserts(o.ram_init = "none") >>)
             s4 == When(Eth(o),
                       << SimModule(EthPads(o.phy)) >>)
             s5 == When(Device(o, "i2c"),
                       << SimModule({"i2c"}) >>)
             s6 == SimSoC(o, FALSE)
             s7 == When(Boots(o),
                       << Makes(BootMade) >>)
             s8 == When(o.with_ethernet,
                       << Makes(IpMade) >>)
  <1>1. /\ ContentsMade \in SUBSET Things /\ BootMade \in SUBSET Things
        /\ IpMade \in SUBSET Things
    BY DEF ContentsMade, BootMade, IpMade, Things, Kinds, Names
  <1>2. {"serial"} \in SUBSET Pads /\ {"i2c"} \in SUBSET Pads
    BY DEF Pads, SimPads
  <1>3. /\ Does(s1, ModuleMade({"serial"}), {}, {}, 0)
        /\ Runs(s1, SimPads, {}, {})
    <2>1. {"serial"} # {}
      OBVIOUS
    <2> QED BY <2>1, <1>2, DoesSimModule
  <1>4. /\ Does(s2, m2, {}, {}, 0)
        /\ Runs(s2, SimPads, ModuleMade({"serial"}), {})
    <2> DEFINE r == << Makes(ContentsMade) >>
    <2>1. /\ Does(r, ContentsMade, {}, {}, 0)
          /\ Runs(r, SimPads, ModuleMade({"serial"}), {})
      BY <1>1, DoesMakes
    <2>2. s2 = When(RamLoaded(o), r)
      OBVIOUS
    <2> HIDE DEF r, s2
    <2> QED BY <2>1, <2>2, DoesIf, IfNothing
  <1>5. /\ Does(s3, {}, {}, {}, 0)
        /\ Runs(s3, SimPads, ModuleMade({"serial"}) \cup m2, {})
             <=> (Dram(o) => o.ram_init = "none")
    <2> DEFINE r == << Asserts(o.ram_init = "none") >>
    <2>1. /\ Does(r, {}, {}, {}, 0)
          /\ Runs(r, SimPads, (ModuleMade({"serial"}) \cup m2), {})
               <=> o.ram_init = "none"
      <3>1. (o.ram_init = "none") \in BOOLEAN
        OBVIOUS
      <3> QED BY <3>1, DoesAsserts
    <2>2. s3 = When(Dram(o), r)
      OBVIOUS
    <2> HIDE DEF r, s3
    <2> QED BY <2>1, <2>2, DoesIf, IfNothing
  <1>6. /\ Does(s4, m4, {}, {}, 0)
        /\ Runs(s4, SimPads, ModuleMade({"serial"}) \cup m2, {})
             <=> (Eth(o) => o.phy # "rgmii")
    <2> DEFINE r == << SimModule(EthPads(o.phy)) >>
    <2>1. /\ Does(r, ModuleMade(EthPads(o.phy)), {}, {}, 0)
          /\ Runs(r, SimPads, (ModuleMade({"serial"}) \cup m2), {})
               <=> o.phy # "rgmii"
      BY LitexSimOptionTypes, EthPadsOf, DoesSimModule
    <2>2. s4 = When(Eth(o), r)
      OBVIOUS
    <2> HIDE DEF r, s4
    <2> QED BY <2>1, <2>2, DoesIf, IfNothing
  <1>7. /\ Does(s5, m5, {}, {}, 0)
        /\ Runs(s5, SimPads, (ModuleMade({"serial"}) \cup m2) \cup m4, {})
    <2> DEFINE r == << SimModule({"i2c"}) >>
    <2>1. /\ Does(r, ModuleMade({"i2c"}), {}, {}, 0)
          /\ Runs(r, SimPads, ((ModuleMade({"serial"}) \cup m2) \cup m4), {})
      <3>1. {"i2c"} # {}
        OBVIOUS
      <3> QED BY <3>1, <1>2, DoesSimModule
    <2>2. s5 = When(Device(o, "i2c"), r)
      OBVIOUS
    <2> HIDE DEF r, s5
    <2> QED BY <2>1, <2>2, DoesIf, IfNothing
  <1>8. /\ Does(s6, LitexSoCMade(o), SimSoCAsked(o), SimSoCMapped(o), 0)
        /\ Runs(s6, SimPads,
                ((ModuleMade({"serial"}) \cup m2) \cup m4) \cup m5, {})
             <=> EthFits(o)
    BY DoesSimSoC DEF LitexSoCMade
  <1>9. /\ Does(s7, m7, {}, {}, 0)
        /\ Runs(s7, SimPads,
                (((ModuleMade({"serial"}) \cup m2) \cup m4) \cup m5)
                  \cup LitexSoCMade(o), SimSoCAsked(o))
    <2> DEFINE r == << Makes(BootMade) >>
    <2>1. /\ Does(r, BootMade, {}, {}, 0)
          /\ Runs(r, SimPads,
                  (((ModuleMade({"serial"}) \cup m2) \cup m4) \cup m5)
                    \cup LitexSoCMade(o), SimSoCAsked(o))
      BY <1>1, DoesMakes
    <2>2. s7 = When(Boots(o), r)
      OBVIOUS
    <2> HIDE DEF r, s7
    <2> QED BY <2>1, <2>2, DoesIf, IfNothing
  <1>10. /\ Does(s8, m8, {}, {}, 0)
         /\ Runs(s8, SimPads,
                 ((((ModuleMade({"serial"}) \cup m2) \cup m4) \cup m5)
                  \cup LitexSoCMade(o)) \cup m7, SimSoCAsked(o))
    <2> DEFINE r == << Makes(IpMade) >>
    <2>1. /\ Does(r, IpMade, {}, {}, 0)
          /\ Runs(r, SimPads,
                  ((((ModuleMade({"serial"}) \cup m2) \cup m4) \cup m5)
                   \cup LitexSoCMade(o)) \cup m7, SimSoCAsked(o))
      BY <1>1, DoesMakes
    <2>2. s8 = When(o.with_ethernet, r)
      OBVIOUS
    <2> HIDE DEF r, s8
    <2> QED BY <2>1, <2>2, DoesIf, IfNothing
  <1>11. LitexSimMain(o)
           = ((((((s1 \o s2) \o s3) \o s4) \o s5) \o s6) \o s7) \o s8
    BY DEF LitexSimMain, RamLoaded, Dram, Eth, Device, Boots, ContentsMade,
           BootMade, IpMade
  <1> HIDE DEF s1, s2, s3, s4, s5, s6, s7, s8, m2, m4, m5, m7, m8
  <1>12. Does(s1 \o s2, ModuleMade({"serial"}) \cup m2,
              {}, {}, 0 + 0)
    BY <1>3, <1>4, DoesConcat, NoMore
  <1>13. Does((s1 \o s2) \o s3, ModuleMade({"serial"}) \cup m2,
              {}, {}, (0 + 0) + 0)
    BY <1>12, <1>5, DoesConcat, NoMore
  <1>14. Does(((s1 \o s2) \o s3) \o s4,
              (ModuleMade({"serial"}) \cup m2) \cup m4,
              {}, {}, ((0 + 0) + 0) + 0)
    BY <1>13, <1>6, DoesConcat, NoMore
  <1>15. Does((((s1 \o s2) \o s3) \o s4) \o s5,
              ((ModuleMade({"serial"}) \cup m2) \cup m4) \cup m5,
              {}, {}, (((0 + 0) + 0) + 0) + 0)
    BY <1>14, <1>7, DoesConcat, NoMore
  <1>16. Does(((((s1 \o s2) \o s3) \o s4) \o s5) \o s6,
              (((ModuleMade({"serial"}) \cup m2) \cup m4) \cup m5)
                \cup LitexSoCMade(o),
              SimSoCAsked(o), SimSoCMapped(o), ((((0 + 0) + 0) + 0) + 0) + 0)
    BY <1>15, <1>8, DoesConcat, NoMore
  <1>17. Does((((((s1 \o s2) \o s3) \o s4) \o s5) \o s6) \o s7,
              ((((ModuleMade({"serial"}) \cup m2) \cup m4) \cup m5)
               \cup LitexSoCMade(o)) \cup m7,
              SimSoCAsked(o), SimSoCMapped(o),
                (((((0 + 0) + 0) + 0) + 0) + 0) + 0)
    BY <1>16, <1>9, DoesConcat, NoMore
  <1>18. Does(((((((s1 \o s2) \o s3) \o s4) \o s5) \o s6) \o s7) \o s8,
              (((((ModuleMade({"serial"}) \cup m2) \cup m4) \cup m5)
                \cup LitexSoCMade(o)) \cup m7) \cup m8,
              SimSoCAsked(o), SimSoCMapped(o),
                ((((((0 + 0) + 0) + 0) + 0) + 0) + 0) + 0)
    BY <1>17, <1>10, DoesConcat, NoMore
  <1>19. Runs(((((((s1 \o s2) \o s3) \o s4) \o s5) \o s6) \o s7) \o s8,
              SimPads, {}, {})
         <=> /\ Runs(s1, SimPads, {}, {})
             /\ Runs(s2, SimPads, ModuleMade({"serial"}), {})
             /\ Runs(s3, SimPads, ModuleMade({"serial"}) \cup m2, {})
             /\ Runs(s4, SimPads, ModuleMade({"serial"}) \cup m2, {})
             /\ Runs(s5, SimPads, (ModuleMade({"serial"}) \cup m2) \cup m4, {})
             /\ Runs(s6, SimPads,
                     ((ModuleMade({"serial"}) \cup m2) \cup m4) \cup m5, {})
             /\ Runs(s7, SimPads,
                     (((ModuleMade({"serial"}) \cup m2) \cup m4) \cup m5)
                       \cup LitexSoCMade(o), SimSoCAsked(o))
             /\ Runs(s8, SimPads,
                     ((((ModuleMade({"serial"}) \cup m2) \cup m4) \cup m5)
                      \cup LitexSoCMade(o)) \cup m7, SimSoCAsked(o))
    BY <1>3, <1>4, <1>5, <1>6, <1>7, <1>8, <1>9, <1>10, <1>12, <1>13, <1>14,
       <1>15, <1>16, <1>17, <1>18, RunsThen, NoMore
  <1>20. /\ (((((ModuleMade({"serial"}) \cup m2) \cup m4) \cup m5)
              \cup LitexSoCMade(o)) \cup m7) \cup m8 = LitexSimMade(o)
         /\ ((((((0 + 0) + 0) + 0) + 0) + 0) + 0) + 0 = 0
    BY DEF LitexSimMade, m2, m4, m5, m7, m8
  <1>21. Does(LitexSimMain(o), LitexSimMade(o),
            SimSoCAsked(o), SimSoCMapped(o), 0)
    BY <1>11, <1>18, <1>20
  <1>22. Runs(LitexSimMain(o), SimPads, {}, {})
          <=> LitexSimFits(o)
    BY <1>11, <1>19, <1>3, <1>4, <1>5, <1>6, <1>7, <1>8, <1>9, <1>10
       DEF LitexSimFits, EthFits
  <1> QED BY <1>21, <1>22

RunBin(o) == o.run /\ o.bin

SimArenaMade(o) ==
  IF SimSeparateArena(o)
  THEN {<<"config", "SOC_SEPARATE_ARENA">>} \cup {Attr("arena")} ELSE {}

SimArenaMapped(o) ==
  IF SimSeparateArena(o) THEN {sim_arena} ELSE {Window("none", 24576, 0)}

(* The arena of sim.py, and the region that only the linker knows of. *)
LEMMA SimArenaWindows ==
  /\ sim_arena \in Windows /\ sim_arena.slave = "arena"
  /\ sim_arena.origin = 24576 /\ sim_arena.size = 4
  /\ Window("none", 24576, 0) \in Windows
  /\ Window("none", 24576, 0).slave = "none"
  /\ Window("none", 24576, 0).origin = 24576
  /\ Window("none", 24576, 0).size = 0
  <1>1. "arena" \in Slaves /\ "none" \in Slaves /\ 24576 \in Nat /\ 4 \in Nat
        /\ 0 \in Nat
    BY DEF Slaves
  <1> QED BY <1>1, WindowIsWindow DEF sim_arena

(* The arena of sim.py. *)
LEMMA DoesSimArena ==
  ASSUME NEW o, NEW known, NEW has, NEW used
  PROVE  /\ Does(SimArena(o), SimArenaMade(o), {}, SimArenaMapped(o), 0)
         /\ Runs(SimArena(o), known, has, used)
  <1> DEFINE m1 == {<<"config", "SOC_SEPARATE_ARENA">>}
             m2 == {Attr("arena")}
             s1 == << Makes(m1) >>
             s2 == << Call(TRUE, {}, {}, m2, {sim_arena}, 0) >>
  <1>1. m1 \in SUBSET Things /\ m2 \in SUBSET Things
    BY AttrIsThing DEF Things, Kinds, Names, Attributes
  <1>2. {sim_arena} \in SUBSET Windows
    BY SimArenaWindows
  <1>3. CASE SimSeparateArena(o)
    <2>1. SimArenaMade(o) = m1 \cup m2 /\ SimArenaMapped(o) = {sim_arena}
      BY <1>3 DEF SimArenaMade, SimArenaMapped
    <2>2. SimArena(o) = s1 \o s2
      BY <1>3, TwoCalls DEF SimArena
    <2> HIDE DEF m1, m2
    <2>3. Does(s1, m1, {}, {}, 0) /\ Runs(s1, known, has, used)
      BY <1>1, DoesMakes
    <2>4. /\ Does(s2, m2, {}, {sim_arena}, 0)
          /\ Runs(s2, known, has \cup m1, used)
      BY <1>1, <1>2, DoesCall, EmptySets
    <2> HIDE DEF s1, s2
    <2>5. Does(s1 \o s2, m1 \cup m2, {}, {sim_arena}, 0 + 0)
      BY <2>3, <2>4, DoesConcat, NoMore
    <2>6. Runs(s1 \o s2, known, has, used)
      BY <2>3, <2>4, RunsThen, NoMore
    <2> QED BY <2>1, <2>2, <2>5, <2>6
  <1>4. CASE ~SimSeparateArena(o)
    <2> DEFINE w == Window("none", 24576, 0)
    <2>1. /\ SimArenaMade(o) = {} /\ SimArenaMapped(o) = {w}
      BY <1>4 DEF SimArenaMade, SimArenaMapped
    <2>2. SimArena(o) = << Maps({}, w) >>
      BY <1>4, SimArenaWindows DEF SimArena
    <2>3. w \in Windows
      BY SimArenaWindows
    <2> HIDE DEF w
    <2>4. /\ Does(<< Maps({}, w) >>, {}, {}, {w}, 0)
          /\ Runs(<< Maps({}, w) >>, known, has, used)
      BY <2>3, DoesMaps, EmptySets
    <2> QED BY <2>1, <2>2, <2>4
  <1> QED BY <1>3, <1>4

SimEnd == << SimModule({"serial"}), Makes(BootMade) >>

SimEndMade == ModuleMade({"serial"}) \cup BootMade

(* The end of sim.py: the serial module and the boot address. *)
LEMMA DoesSimEnd ==
  ASSUME NEW known, NEW has, NEW used
  PROVE  /\ Does(SimEnd,
                SimEndMade,
                {}, {}, 0)
         /\ Runs(SimEnd, known, has, used)
  <1> DEFINE c1 == SimModule({"serial"})
             c2 == Makes(BootMade)
             s1 == << c1 >>
             s2 == << c2 >>
  <1>1. BootMade \in SUBSET Things
    BY DEF BootMade, Things, Kinds, Names
  <1>2. {"serial"} \in SUBSET Pads
    BY DEF Pads, SimPads
  <1>3. /\ Does(s1, ModuleMade({"serial"}), {}, {}, 0)
        /\ Runs(s1, known, has, used)
    <2>1. {"serial"} # {}
      OBVIOUS
    <2> QED BY <2>1, <1>2, DoesSimModule
  <1>4. /\ Does(s2, BootMade, {}, {}, 0)
        /\ Runs(s2, known, has \cup ModuleMade({"serial"}), used)
    BY <1>1, DoesMakes
  <1>5. SimEnd = << c1, c2 >>
    BY DEF SimEnd
  <1> HIDE DEF c1, c2
  <1>6. SimEnd = s1 \o s2
    BY <1>5, TwoCalls
  <1> HIDE DEF s1, s2
  <1>7. Does(s1 \o s2, ModuleMade({"serial"}) \cup BootMade,
             {}, {}, 0 + 0)
    BY <1>3, <1>4, DoesConcat, NoMore
  <1>8. Runs(s1 \o s2, known, has, used)
        <=> /\ Runs(s1, known, has, used)
            /\ Runs(s2, known, has \cup ModuleMade({"serial"}), used)
    BY <1>3, <1>4, <1>7, RunsThen, NoMore
  <1>9. /\ ModuleMade({"serial"}) \cup BootMade = SimEndMade
        /\ 0 + 0 = 0
    BY DEF SimEndMade
  <1>10. Does(SimEnd, SimEndMade,
            {}, {}, 0)
    BY <1>6, <1>7, <1>9
  <1>11. Runs(SimEnd, known, has, used)
    BY <1>6, <1>8, <1>3, <1>4
  <1> QED BY <1>10, <1>11

RunMade == {<<"file", "run">>}

SimPorts == {Attr("arena"), Attr("cpu.cfu_params")}

SimMade(o) ==
  ((((If(RunBin(o), ContentsMade) \cup SimSoCMade(SimArgs(o), o.cpu_cfu))
     \cup SimArenaMade(o)) \cup If(o.cfu_mport, PortMakes)) \cup SimEndMade)
  \cup If(o.run, RunMade)

SimMapped(o) == SimSoCMapped(SimArgs(o)) \cup SimArenaMapped(o)

(* The options of sim.py that can be built. *)
SimFits(o) == o.cfu_mport => o.cpu_cfu

(* The whole of sim.py. *)
LEMMA DoesSimMain ==
  ASSUME NEW o \in SimOptions
  PROVE  /\ Does(SimMain(o),
                SimMade(o),
                SimSoCAsked(SimArgs(o)), SimMapped(o), 0)
         /\ Runs(SimMain(o), SimPads, {}, {})
              <=> SimFits(o)
  <1> DEFINE m1 == If(RunBin(o), ContentsMade)
             m4 == If(o.cfu_mport, PortMakes)
             m6 == If(o.run, RunMade)
             s1 == When(RunBin(o),
                       << Makes(ContentsMade) >>)
             s2 == SimSoC(SimArgs(o), o.cpu_cfu)
             s3 == SimArena(o)
             s4 == When(o.cfu_mport,
                       << From(SimPorts, PortMakes) >>)
             s5 == SimEnd
             s6 == When(o.run,
                       << Makes(RunMade) >>)
  <1>1. /\ ContentsMade \in SUBSET Things /\ RunMade \in SUBSET Things
        /\ PortMakes \in SUBSET Things /\ SimPorts \in SUBSET Things
    <2>1. "arena" \in Attributes /\ "cpu.cfu_params" \in Attributes
      BY DEF Attributes
    <2>2. SimPorts \in SUBSET Things
      BY <2>1, AttrIsThing DEF SimPorts
    <2> QED BY <2>2 DEF ContentsMade, RunMade, PortMakes, Things, Kinds, Names
  <1>2. /\ Does(s1, m1, {}, {}, 0)
        /\ Runs(s1, SimPads, {}, {})
    <2> DEFINE r == << Makes(ContentsMade) >>
    <2>1. /\ Does(r, ContentsMade, {}, {}, 0)
          /\ Runs(r, SimPads, {}, {})
      BY <1>1, DoesMakes
    <2>2. s1 = When(RunBin(o), r)
      OBVIOUS
    <2> HIDE DEF r, s1
    <2> QED BY <2>1, <2>2, DoesIf, IfNothing
  <1>3. /\ Does(s2, SimSoCMade(SimArgs(o), o.cpu_cfu), SimSoCAsked(SimArgs(o)),
                SimSoCMapped(SimArgs(o)), 0)
        /\ Runs(s2, SimPads, m1, {})
    <2>1. EthFits(SimArgs(o))
      BY SimArgsAreOptions DEF EthFits, Eth
    <2> HIDE DEF s2
    <2>2. s2 = SimSoC(SimArgs(o), o.cpu_cfu)
      BY DEF s2
    <2> QED BY <2>1, <2>2, SimOptionTypes, SimArgsAreOptions, DoesSimSoC
  <1>4. /\ Does(s3, SimArenaMade(o), {}, SimArenaMapped(o), 0)
        /\ Runs(s3, SimPads, m1 \cup SimSoCMade(SimArgs(o), o.cpu_cfu),
                SimSoCAsked(SimArgs(o)))
    BY DoesSimArena
  <1>5. /\ Does(s4, m4, {}, {}, 0)
        /\ Runs(s4, SimPads,
                (m1 \cup SimSoCMade(SimArgs(o), o.cpu_cfu))
                  \cup SimArenaMade(o), SimSoCAsked(SimArgs(o)))
             <=> (o.cfu_mport
                  => SimPorts
                    \subseteq ((m1 \cup SimSoCMade(SimArgs(o), o.cpu_cfu))
                               \cup SimArenaMade(o)))
    <2> DEFINE r == << From(SimPorts, PortMakes) >>
    <2>1. /\ Does(r, PortMakes, {}, {}, 0)
          /\ Runs(r, SimPads,
                  (m1 \cup SimSoCMade(SimArgs(o), o.cpu_cfu))
                    \cup SimArenaMade(o), SimSoCAsked(SimArgs(o)))
               <=> SimPorts
                 \subseteq ((m1 \cup SimSoCMade(SimArgs(o), o.cpu_cfu))
                            \cup SimArenaMade(o))
      BY <1>1, DoesFrom
    <2>2. s4 = When(o.cfu_mport, r)
      OBVIOUS
    <2> HIDE DEF r, s4
    <2> QED BY <2>1, <2>2, DoesIf, IfNothing
  <1>6. /\ Does(s5, SimEndMade, {}, {}, 0)
        /\ Runs(s5, SimPads,
                ((m1 \cup SimSoCMade(SimArgs(o), o.cpu_cfu))
                 \cup SimArenaMade(o)) \cup m4, SimSoCAsked(SimArgs(o)))
    BY DoesSimEnd
  <1>7. /\ Does(s6, m6, {}, {}, 0)
        /\ Runs(s6, SimPads,
                (((m1 \cup SimSoCMade(SimArgs(o), o.cpu_cfu))
                  \cup SimArenaMade(o)) \cup m4) \cup SimEndMade,
                  SimSoCAsked(SimArgs(o)))
    <2> DEFINE r == << Makes(RunMade) >>
    <2>1. /\ Does(r, RunMade, {}, {}, 0)
          /\ Runs(r, SimPads,
                  (((m1 \cup SimSoCMade(SimArgs(o), o.cpu_cfu))
                    \cup SimArenaMade(o)) \cup m4) \cup SimEndMade,
                    SimSoCAsked(SimArgs(o)))
      BY <1>1, DoesMakes
    <2>2. s6 = When(o.run, r)
      OBVIOUS
    <2> HIDE DEF r, s6
    <2> QED BY <2>1, <2>2, DoesIf, IfNothing
  <1>8. SimMain(o) = ((((s1 \o s2) \o s3) \o s4) \o s5) \o s6
    BY DEF SimMain, RunBin, ContentsMade, SimEnd, BootMade, RunMade, PortMakes,
           SimPorts
  <1> HIDE DEF s1, s2, s3, s4, s5, s6, m1, m4, m6
  <1>9. Does(s1 \o s2, m1 \cup SimSoCMade(SimArgs(o), o.cpu_cfu),
             SimSoCAsked(SimArgs(o)), SimSoCMapped(SimArgs(o)), 0 + 0)
    BY <1>2, <1>3, DoesConcat, NoMore
  <1>10. Does((s1 \o s2) \o s3,
              (m1 \cup SimSoCMade(SimArgs(o), o.cpu_cfu)) \cup SimArenaMade(o),
              SimSoCAsked(SimArgs(o)),
                SimSoCMapped(SimArgs(o)) \cup SimArenaMapped(o), (0 + 0) + 0)
    BY <1>9, <1>4, DoesConcat, NoMore
  <1>11. Does(((s1 \o s2) \o s3) \o s4,
              ((m1 \cup SimSoCMade(SimArgs(o), o.cpu_cfu))
               \cup SimArenaMade(o)) \cup m4,
              SimSoCAsked(SimArgs(o)),
                SimSoCMapped(SimArgs(o)) \cup SimArenaMapped(o),
                  ((0 + 0) + 0) + 0)
    BY <1>10, <1>5, DoesConcat, NoMore
  <1>12. Does((((s1 \o s2) \o s3) \o s4) \o s5,
              (((m1 \cup SimSoCMade(SimArgs(o), o.cpu_cfu))
                \cup SimArenaMade(o)) \cup m4) \cup SimEndMade,
              SimSoCAsked(SimArgs(o)),
                SimSoCMapped(SimArgs(o)) \cup SimArenaMapped(o),
                  (((0 + 0) + 0) + 0) + 0)
    BY <1>11, <1>6, DoesConcat, NoMore
  <1>13. Does(((((s1 \o s2) \o s3) \o s4) \o s5) \o s6,
              ((((m1 \cup SimSoCMade(SimArgs(o), o.cpu_cfu))
                 \cup SimArenaMade(o)) \cup m4) \cup SimEndMade) \cup m6,
              SimSoCAsked(SimArgs(o)),
                SimSoCMapped(SimArgs(o)) \cup SimArenaMapped(o),
                  ((((0 + 0) + 0) + 0) + 0) + 0)
    BY <1>12, <1>7, DoesConcat, NoMore
  <1>14. Runs(((((s1 \o s2) \o s3) \o s4) \o s5) \o s6, SimPads, {}, {})
         <=> /\ Runs(s1, SimPads, {}, {})
             /\ Runs(s2, SimPads, m1, {})
             /\ Runs(s3, SimPads, m1 \cup SimSoCMade(SimArgs(o), o.cpu_cfu),
                     SimSoCAsked(SimArgs(o)))
             /\ Runs(s4, SimPads,
                     (m1 \cup SimSoCMade(SimArgs(o), o.cpu_cfu))
                       \cup SimArenaMade(o), SimSoCAsked(SimArgs(o)))
             /\ Runs(s5, SimPads,
                     ((m1 \cup SimSoCMade(SimArgs(o), o.cpu_cfu))
                      \cup SimArenaMade(o)) \cup m4, SimSoCAsked(SimArgs(o)))
             /\ Runs(s6, SimPads,
                     (((m1 \cup SimSoCMade(SimArgs(o), o.cpu_cfu))
                       \cup SimArenaMade(o)) \cup m4) \cup SimEndMade,
                       SimSoCAsked(SimArgs(o)))
    BY <1>2, <1>3, <1>4, <1>5, <1>6, <1>7, <1>9, <1>10, <1>11, <1>12, <1>13,
       RunsThen, NoMore
  <1>15. /\ ((((m1 \cup SimSoCMade(SimArgs(o), o.cpu_cfu))
               \cup SimArenaMade(o)) \cup m4) \cup SimEndMade) \cup m6
                 = SimMade(o)
         /\ SimSoCMapped(SimArgs(o)) \cup SimArenaMapped(o) = SimMapped(o)
         /\ ((((0 + 0) + 0) + 0) + 0) + 0 = 0
    BY DEF SimMade, SimMapped, m1, m4, m6
  <1>16. o.cfu_mport => Attr("arena") \in SimArenaMade(o)
    BY DEF SimArenaMade, SimSeparateArena
  <1>17. /\ Attr("cpu.cfu_params") \notin m1
         /\ Attr("cpu.cfu_params") \notin SimArenaMade(o)
    BY DEF m1, If, ContentsMade, SimArenaMade, Attr
  <1>18. Attr("cpu.cfu_params") \in SimSoCMade(SimArgs(o), o.cpu_cfu)
           <=> o.cpu_cfu
    BY SimArgsAreOptions
       DEF SimSoCMade, SimCoreMade, CoreMade, SdramMade, SdramConsts, EthMade,
           DevicesMade, Dram, Eth, Device, If, Attr
  <1>19. o.cfu_mport =>
           (SimPorts
              \subseteq (m1 \cup SimSoCMade(SimArgs(o), o.cpu_cfu))
                \cup SimArenaMade(o)
            <=> o.cpu_cfu)
    BY <1>16, <1>17, <1>18 DEF SimPorts
  <1>20. Does(SimMain(o), SimMade(o),
            SimSoCAsked(SimArgs(o)), SimMapped(o), 0)
    BY <1>8, <1>13, <1>15
  <1>21. Runs(SimMain(o), SimPads, {}, {})
          <=> SimFits(o)
    BY <1>8, <1>14, <1>2, <1>3, <1>4, <1>5, <1>6, <1>7, <1>19 DEF SimFits
  <1> QED BY <1>20, <1>21

-----------------------------------------------------------------------------
(* The boards *)

(* What the options of the Arty are, *)
LEMMA ArtyOptionTypes ==
  ASSUME NEW o \in ArtyOptions
  PROVE  /\ o.main_ram \in BOOLEAN /\ o.build \in BOOLEAN /\ o.load \in BOOLEAN
         /\ o.left \in BOOLEAN
         /\ o.ethernet \in {"none", "ethernet", "etherbone"}
         /\ o.eth_dynamic_ip \in BOOLEAN
         /\ o.devices \in SUBSET {"spi_flash", "pmod_gpio", "spi_sdcard"}
  <1> DEFINE E == {"none", "ethernet", "etherbone"}
             D == SUBSET {"spi_flash", "pmod_gpio", "spi_sdcard"}
  <1>0. ArtyOptions
          = {[main_ram |-> b.main_ram, build |-> b.build, load |-> b.load,
              left |-> b.left, ethernet |-> e, eth_dynamic_ip |-> d,
              devices |-> s] :
               b \in BuildOptions, e \in E, d \in BOOLEAN, s \in D}
    BY DEF ArtyOptions
  <1> HIDE DEF E, D
  <1>1. PICK b \in BuildOptions, e \in E, d \in BOOLEAN, s \in D :
          o = [main_ram |-> b.main_ram, build |-> b.build, load |-> b.load,
               left |-> b.left, ethernet |-> e, eth_dynamic_ip |-> d,
               devices |-> s]
    BY <1>0
  <1>2. /\ b.main_ram \in BOOLEAN /\ b.build \in BOOLEAN /\ b.load \in BOOLEAN
        /\ b.left \in BOOLEAN
    BY Zenon DEF BuildOptions
  <1>3. /\ o.main_ram = b.main_ram /\ o.build = b.build /\ o.load = b.load
        /\ o.left = b.left /\ o.ethernet = e /\ o.eth_dynamic_ip = d
        /\ o.devices = s
    BY <1>1
  <1> QED BY <1>2, <1>3 DEF E, D

(* and those of the OrangeCrab. *)
LEMMA OrangecrabOptionTypes ==
  ASSUME NEW o \in OrangecrabOptions
  PROVE  /\ o.main_ram \in BOOLEAN /\ o.build \in BOOLEAN /\ o.load \in BOOLEAN
         /\ o.left \in BOOLEAN /\ o.sdram_device \in {"MT41K64M16", "unknown"}
         /\ o.with_spi_sdcard \in BOOLEAN
  <1>1. PICK b \in BuildOptions, d \in {"MT41K64M16", "unknown"},
          s \in BOOLEAN :
          o = [main_ram |-> b.main_ram, build |-> b.build, load |-> b.load,
               left |-> b.left, sdram_device |-> d, with_spi_sdcard |-> s]
    BY DEF OrangecrabOptions
  <1>2. /\ b.main_ram \in BOOLEAN /\ b.build \in BOOLEAN /\ b.load \in BOOLEAN
        /\ b.left \in BOOLEAN
    BY Zenon DEF BuildOptions
  <1>3. /\ o.main_ram = b.main_ram /\ o.build = b.build /\ o.load = b.load
        /\ o.left = b.left /\ o.sdram_device = d /\ o.with_spi_sdcard = s
    BY <1>1
  <1> QED BY <1>2, <1>3

BitstreamMade == {bitstream}
FreshMade == {bitstream, <<"file", "fresh">>}
LoadedMade == {<<"board", "loaded">>}

BuildMade(o) ==
  (If(o.left, BitstreamMade) \cup If(o.build, FreshMade))
    \cup If(o.load, LoadedMade)

(* Only a bitstream can be loaded. *)
LoadFits(o) == o.load => o.build \/ o.left

(* Building and loading, which needs a bitstream. *)
LEMMA DoesBuildAndLoad ==
  ASSUME NEW o, NEW known, NEW has, NEW used,
         bitstream \notin has
  PROVE  /\ Does(BuildAndLoad(o),
                BuildMade(o),
                {}, {}, 0)
         /\ Runs(BuildAndLoad(o), known, has, used)
              <=> LoadFits(o)
  <1> DEFINE m1 == If(o.left, BitstreamMade)
             m2 == If(o.build, FreshMade)
             m3 == If(o.load, LoadedMade)
             s1 == When(o.left,
                       << Makes(BitstreamMade) >>)
             s2 == When(o.build,
                       << Makes(FreshMade) >>)
             s3 == When(o.load,
                       << From(BitstreamMade, LoadedMade) >>)
  <1>1. /\ BitstreamMade \in SUBSET Things /\ FreshMade \in SUBSET Things
        /\ LoadedMade \in SUBSET Things
    BY DEF BitstreamMade, FreshMade, LoadedMade, bitstream, Things, Kinds,
       Names
  <1>2. /\ Does(s1, m1, {}, {}, 0)
        /\ Runs(s1, known, has, used)
    <2> DEFINE r == << Makes(BitstreamMade) >>
    <2>1. /\ Does(r, BitstreamMade, {}, {}, 0)
          /\ Runs(r, known, has, used)
      BY <1>1, DoesMakes
    <2>2. s1 = When(o.left, r)
      OBVIOUS
    <2> HIDE DEF r, s1
    <2> QED BY <2>1, <2>2, DoesIf, IfNothing
  <1>3. /\ Does(s2, m2, {}, {}, 0)
        /\ Runs(s2, known, has \cup m1, used)
    <2> DEFINE r == << Makes(FreshMade) >>
    <2>1. /\ Does(r, FreshMade, {}, {}, 0)
          /\ Runs(r, known, (has \cup m1), used)
      BY <1>1, DoesMakes
    <2>2. s2 = When(o.build, r)
      OBVIOUS
    <2> HIDE DEF r, s2
    <2> QED BY <2>1, <2>2, DoesIf, IfNothing
  <1>4. /\ Does(s3, m3, {}, {}, 0)
        /\ Runs(s3, known, has \cup (m1 \cup m2), used)
             <=> (o.load => BitstreamMade \subseteq (has \cup (m1 \cup m2)))
    <2> DEFINE r == << From(BitstreamMade, LoadedMade) >>
    <2>1. /\ Does(r, LoadedMade, {}, {}, 0)
          /\ Runs(r, known, (has \cup (m1 \cup m2)), used)
               <=> BitstreamMade \subseteq (has \cup (m1 \cup m2))
      BY <1>1, DoesFrom
    <2>2. s3 = When(o.load, r)
      OBVIOUS
    <2> HIDE DEF r, s3
    <2> QED BY <2>1, <2>2, DoesIf, IfNothing
  <1>5. BuildAndLoad(o) = (s1 \o s2) \o s3
    BY DEF BuildAndLoad, BitstreamMade, FreshMade, LoadedMade
  <1> HIDE DEF s1, s2, s3, m1, m2, m3
  <1>6. Does(s1 \o s2, m1 \cup m2,
             {}, {}, 0 + 0)
    BY <1>2, <1>3, DoesConcat, NoMore
  <1>7. Does((s1 \o s2) \o s3, (m1 \cup m2) \cup m3,
             {}, {}, (0 + 0) + 0)
    BY <1>6, <1>4, DoesConcat, NoMore
  <1>8. Runs((s1 \o s2) \o s3, known, has, used)
        <=> /\ Runs(s1, known, has, used)
            /\ Runs(s2, known, has \cup m1, used)
            /\ Runs(s3, known, has \cup (m1 \cup m2), used)
    BY <1>2, <1>3, <1>4, <1>6, <1>7, RunsThen, NoMore
  <1>9. /\ (m1 \cup m2) \cup m3 = BuildMade(o)
        /\ (0 + 0) + 0 = 0
    BY DEF BuildMade, m1, m2, m3
  <1>10. BitstreamMade \subseteq has \cup (m1 \cup m2) <=> o.build \/ o.left
    BY DEF If, BitstreamMade, FreshMade, bitstream, m1, m2
  <1>11. Does(BuildAndLoad(o), BuildMade(o),
            {}, {}, 0)
    BY <1>5, <1>7, <1>9
  <1>12. Runs(BuildAndLoad(o), known, has, used)
          <=> LoadFits(o)
    BY <1>5, <1>8, <1>2, <1>3, <1>4, <1>10 DEF LoadFits
  <1> QED BY <1>11, <1>12

CfuCpus == {<<"CPUS", "VexRiscvCFURAM">>}
CfuCpuMade == {Attr("cpu"), Attr("cfu_mem")}
CfuCoreMade == CfuCpus \cup CfuCpuMade

(* The core, with the CPU that has a port into the memory. *)
LEMMA DoesCfuRamSoCCore ==
  ASSUME NEW uart \in SUBSET Pads, NEW needed \in SUBSET Things,
         NEW windows \in SUBSET Windows, NEW known, NEW has, NEW used,
         needed \subseteq has, Free(uart, known, has, used)
  PROVE  /\ Does(CfuRamSoCCore(uart, needed, windows),
                CfuCoreMade,
                uart, CoreWindows \cup windows, 0)
         /\ Runs(CfuRamSoCCore(uart, needed, windows), known, has, used)
  <1> DEFINE n == needed \cup CfuCpus
             w == CoreWindows \cup windows
             c1 == Makes(CfuCpus)
             c2 == Call(TRUE, n, uart, CfuCpuMade, w, 0)
             s1 == << c1 >>
             s2 == << c2 >>
  <1>1. CfuCpus \in SUBSET Things /\ CfuCpuMade \in SUBSET Things
    BY AttrIsThing DEF CfuCpus, CfuCpuMade, Things, Kinds, Names, Attributes
  <1>2. n \in SUBSET Things
    BY <1>1
  <1>3. w \in SUBSET Windows
    BY CoreWindow
  <1>4. /\ Does(s1, CfuCpus, {}, {}, 0)
        /\ Runs(s1, known, has, used)
    BY <1>1, DoesMakes
  <1>5. /\ Does(s2, CfuCpuMade, uart, w, 0)
        /\ Runs(s2, known, has \cup CfuCpus, used)
    <2>1. n \subseteq (has \cup CfuCpus)
      OBVIOUS
    <2>2. Free(uart, known, (has \cup CfuCpus), used)
      BY DEF Free
    <2> HIDE DEF n, w
    <2> QED BY <1>1, <1>2, <1>3, <2>1, <2>2, DoesCall
  <1>6. CfuRamSoCCore(uart, needed, windows) = << c1, c2 >>
    BY DEF CfuRamSoCCore, CfuCpus, CfuCpuMade, CoreWindows
  <1> HIDE DEF c1, c2
  <1>7. CfuRamSoCCore(uart, needed, windows) = s1 \o s2
    BY <1>6, TwoCalls
  <1> HIDE DEF s1, s2
  <1>8. Does(s1 \o s2, CfuCpus \cup CfuCpuMade,
             uart, w, 0 + 0)
    BY <1>4, <1>5, DoesConcat, NoMore
  <1>9. Runs(s1 \o s2, known, has, used)
        <=> /\ Runs(s1, known, has, used)
            /\ Runs(s2, known, has \cup CfuCpus, used)
    BY <1>4, <1>5, <1>8, RunsThen, NoMore
  <1>10. /\ CfuCpus \cup CfuCpuMade = CfuCoreMade
         /\ w = CoreWindows \cup windows
         /\ 0 + 0 = 0
    BY DEF CfuCoreMade
  <1>11. Does(CfuRamSoCCore(uart, needed, windows), CfuCoreMade,
            uart, CoreWindows \cup windows, 0)
    BY <1>7, <1>8, <1>10
  <1>12. Runs(CfuRamSoCCore(uart, needed, windows), known, has, used)
    BY <1>7, <1>9, <1>4, <1>5
  <1> QED BY <1>11, <1>12

(* The main memory of a board, integrated or on the board. *)
LEMMA BoardRam ==
  ASSUME NEW o
  PROVE  /\ MainRam(o) \in SUBSET Windows /\ DramWindow \in Windows
         /\ DramWindow.slave = "main_ram" /\ DramWindow.origin = 16384
         /\ DramWindow.size = 4096
         /\ Window("main_ram", 16384, 1) \in Windows
         /\ Window("main_ram", 16384, 1).slave = "main_ram"
         /\ Window("main_ram", 16384, 1).origin = 16384
         /\ Window("main_ram", 16384, 1).size = 1
  <1>1. "main_ram" \in Slaves /\ 16384 \in Nat /\ 1 \in Nat /\ 4096 \in Nat
    BY DEF Slaves
  <1> QED BY <1>1, WindowIsWindow DEF MainRam, DramWindow

OnDram(o) == ~o.main_ram

ArtyDramCalls ==
  << Call(TRUE, {Attr("crg.idelay")}, {"ddram"}, {Attr("ddrphy")}, {}, 0),
     Maps({Attr("ddrphy")}, DramWindow) >>

(* The DRAM of the Arty, *)
LEMMA DoesArtyDramCalls ==
  ASSUME NEW known, NEW has, NEW used
  PROVE  /\ Does(ArtyDramCalls,
                {Attr("ddrphy")},
                {"ddram"}, {DramWindow}, 0)
         /\ Runs(ArtyDramCalls, known, has, used)
              <=> {Attr("crg.idelay")} \subseteq has
                /\ Free({"ddram"}, known, has, used)
  <1> DEFINE c1 == Call(TRUE, {Attr("crg.idelay")}, {"ddram"},
                        {Attr("ddrphy")}, {}, 0)
             c2 == Maps({Attr("ddrphy")}, DramWindow)
             s1 == << c1 >>
             s2 == << c2 >>
  <1>1. /\ {Attr("crg.idelay")} \in SUBSET Things
        /\ {Attr("ddrphy")} \in SUBSET Things
    BY AttrIsThing DEF Things, Kinds, Names, Attributes
  <1>2. {"ddram"} \in SUBSET Pads
    BY DEF Pads, ArtyPads
  <1>3. /\ Does(s1, {Attr("ddrphy")}, {"ddram"}, {}, 0)
        /\ Runs(s1, known, has, used)
             <=> {Attr("crg.idelay")} \subseteq has
               /\ Free({"ddram"}, known, has, used)
    <2> DEFINE n == {Attr("crg.idelay")}
               p == {"ddram"}
               m == {Attr("ddrphy")}
    <2>1. n \in SUBSET Things /\ p \in SUBSET Pads /\ m \in SUBSET Things
      BY <1>1, <1>2
    <2>2. s1 = << Call(TRUE, n, p, m, {}, 0) >>
      OBVIOUS
    <2> HIDE DEF n, p, m, s1
    <2>3. /\ Does(s1, m, p, {}, 0)
          /\ Runs(s1, known, has, used)
               <=> n \subseteq has /\ Free(p, known, has, used)
      BY <2>1, <2>2, DoesCall, EmptySets
    <2> QED BY <2>3 DEF n, p, m
  <1>4. /\ Does(s2, {}, {}, {DramWindow}, 0)
        /\ Runs(s2, known, has \cup {Attr("ddrphy")}, used \cup {"ddram"})
    BY <1>1, BoardRam, DoesMaps
  <1>5. ArtyDramCalls = << c1, c2 >>
    BY DEF ArtyDramCalls
  <1> HIDE DEF c1, c2
  <1>6. ArtyDramCalls = s1 \o s2
    BY <1>5, TwoCalls
  <1> HIDE DEF s1, s2
  <1>7. Does(s1 \o s2, {Attr("ddrphy")},
             {"ddram"}, {DramWindow}, 0 + 0)
    BY <1>3, <1>4, DoesConcat, NoMore
  <1>8. Runs(s1 \o s2, known, has, used)
        <=> /\ Runs(s1, known, has, used)
            /\ Runs(s2, known, has \cup {Attr("ddrphy")}, used \cup {"ddram"})
    BY <1>3, <1>4, <1>7, RunsThen, NoMore
  <1>9. 0 + 0 = 0
    OBVIOUS
  <1>10. Does(ArtyDramCalls, {Attr("ddrphy")},
            {"ddram"}, {DramWindow}, 0)
    BY <1>6, <1>7, <1>9
  <1>11. Runs(ArtyDramCalls, known, has, used)
          <=> {Attr("crg.idelay")} \subseteq has
            /\ Free({"ddram"}, known, has, used)
    BY <1>6, <1>8, <1>3, <1>4
  <1> QED BY <1>10, <1>11

ArtyEth(o) == o.ethernet # "none"

ArtyEthAsked == {"eth_clocks", "eth"}

ArtyEthMade(o) == {Attr("ethphy")} \cup {<<"attr", o.ethernet>>}

ArtyEthCalls(o) ==
  << Requests(ArtyEthAsked, {Attr("ethphy")}),
     From({Attr("ethphy")}, {<<"attr", o.ethernet>>}) >>

(* its Ethernet, *)
LEMMA DoesArtyEthCalls ==
  ASSUME NEW o,
         o.ethernet \in {"ethernet", "etherbone"},
         NEW known, NEW has, NEW used
  PROVE  /\ Does(ArtyEthCalls(o),
                ArtyEthMade(o),
                ArtyEthAsked, {}, 0)
         /\ Runs(ArtyEthCalls(o), known, has, used)
              <=> Free(ArtyEthAsked, known, has, used)
  <1> DEFINE c1 == Requests(ArtyEthAsked, {Attr("ethphy")})
             c2 == From({Attr("ethphy")}, {<<"attr", o.ethernet>>})
             s1 == << c1 >>
             s2 == << c2 >>
  <1>1. /\ {Attr("ethphy")} \in SUBSET Things
        /\ {<<"attr", o.ethernet>>} \in SUBSET Things
    BY AttrIsThing DEF Things, Kinds, Names, Attributes
  <1>2. ArtyEthAsked \in SUBSET Pads
    BY DEF ArtyEthAsked, Pads, ArtyPads
  <1>3. /\ Does(s1, {Attr("ethphy")}, ArtyEthAsked, {}, 0)
        /\ Runs(s1, known, has, used)
             <=> Free(ArtyEthAsked, known, has, used)
    BY <1>1, <1>2, DoesRequests
  <1>4. /\ Does(s2, {<<"attr", o.ethernet>>}, {}, {}, 0)
        /\ Runs(s2, known, has \cup {Attr("ethphy")}, used \cup ArtyEthAsked)
    BY <1>1, DoesFrom
  <1>5. ArtyEthCalls(o) = << c1, c2 >>
    BY DEF ArtyEthCalls
  <1> HIDE DEF c1, c2
  <1>6. ArtyEthCalls(o) = s1 \o s2
    BY <1>5, TwoCalls
  <1> HIDE DEF s1, s2
  <1>7. Does(s1 \o s2, {Attr("ethphy")} \cup {<<"attr", o.ethernet>>},
             ArtyEthAsked, {}, 0 + 0)
    BY <1>3, <1>4, DoesConcat, NoMore
  <1>8. Runs(s1 \o s2, known, has, used)
        <=> /\ Runs(s1, known, has, used)
            /\ Runs(s2, known, has \cup {Attr("ethphy")},
                    used \cup ArtyEthAsked)
    BY <1>3, <1>4, <1>7, RunsThen, NoMore
  <1>9. /\ {Attr("ethphy")} \cup {<<"attr", o.ethernet>>} = ArtyEthMade(o)
        /\ 0 + 0 = 0
    BY DEF ArtyEthMade
  <1>10. Does(ArtyEthCalls(o), ArtyEthMade(o),
            ArtyEthAsked, {}, 0)
    BY <1>6, <1>7, <1>9
  <1>11. Runs(ArtyEthCalls(o), known, has, used)
          <=> Free(ArtyEthAsked, known, has, used)
    BY <1>6, <1>8, <1>3, <1>4
  <1> QED BY <1>10, <1>11

PmodMade == {<<"extension", "pmoda">>} \cup {Attr("gpio")}

PmodCalls == << Makes({<<"extension", "pmoda">>}),
                          Requests({"pmoda"}, {Attr("gpio")}) >>

(* its extension of the platform, *)
LEMMA DoesPmodCalls ==
  ASSUME NEW known, NEW has, NEW used,
         "pmoda" \notin used
  PROVE  /\ Does(PmodCalls,
                PmodMade,
                {"pmoda"}, {}, 0)
         /\ Runs(PmodCalls, known, has, used)
  <1> DEFINE c1 == Makes({<<"extension", "pmoda">>})
             c2 == Requests({"pmoda"}, {Attr("gpio")})
             s1 == << c1 >>
             s2 == << c2 >>
  <1>1. /\ {<<"extension", "pmoda">>} \in SUBSET Things
        /\ {Attr("gpio")} \in SUBSET Things
    BY AttrIsThing DEF Things, Kinds, Names, Attributes, Pads
  <1>2. {"pmoda"} \in SUBSET Pads
    BY DEF Pads
  <1>3. /\ Does(s1, {<<"extension", "pmoda">>}, {}, {}, 0)
        /\ Runs(s1, known, has, used)
    BY <1>1, DoesMakes
  <1>4. /\ Does(s2, {Attr("gpio")}, {"pmoda"}, {}, 0)
        /\ Runs(s2, known, has \cup {<<"extension", "pmoda">>}, used)
             <=> Free({"pmoda"}, known, has \cup {<<"extension", "pmoda">>},
                      used)
    BY <1>1, <1>2, DoesRequests
  <1>5. PmodCalls = << c1, c2 >>
    BY DEF PmodCalls
  <1> HIDE DEF c1, c2
  <1>6. PmodCalls = s1 \o s2
    BY <1>5, TwoCalls
  <1> HIDE DEF s1, s2
  <1>7. Does(s1 \o s2, {<<"extension", "pmoda">>} \cup {Attr("gpio")},
             {"pmoda"}, {}, 0 + 0)
    BY <1>3, <1>4, DoesConcat, NoMore
  <1>8. Runs(s1 \o s2, known, has, used)
        <=> /\ Runs(s1, known, has, used)
            /\ Runs(s2, known, has \cup {<<"extension", "pmoda">>}, used)
    BY <1>3, <1>4, <1>7, RunsThen, NoMore
  <1>9. /\ {<<"extension", "pmoda">>} \cup {Attr("gpio")} = PmodMade
        /\ 0 + 0 = 0
    BY DEF PmodMade
  <1>10. Free({"pmoda"}, known, has \cup {<<"extension", "pmoda">>}, used)
    BY DEF Free
  <1>11. Does(PmodCalls, PmodMade,
            {"pmoda"}, {}, 0)
    BY <1>6, <1>7, <1>9
  <1>12. Runs(PmodCalls, known, has, used)
    BY <1>6, <1>8, <1>3, <1>4, <1>10
  <1> QED BY <1>11, <1>12

ArtyDevicesMade(o) == {Attr("leds")} \cup If(Device(o, "pmod_gpio"), PmodMade)

ArtyDevicesAsked(o) ==
  (If(Device(o, "spi_flash"), {"spiflash4x"}) \cup {"user_led"})
  \cup If(Device(o, "pmod_gpio"), {"pmoda"})

(* all its devices, *)
LEMMA DoesArtyDevices ==
  ASSUME NEW o, NEW has, NEW used,
         Free({"spiflash4x", "user_led"}, ArtyPads, has, used),
           "pmoda" \notin used
  PROVE  /\ Does(ArtyDevices(o),
                ArtyDevicesMade(o),
                ArtyDevicesAsked(o), {}, 0)
         /\ Runs(ArtyDevices(o), ArtyPads, has, used)
  <1> DEFINE p1 == If(Device(o, "spi_flash"), {"spiflash4x"})
             m3 == If(Device(o, "pmod_gpio"), PmodMade)
             p3 == If(Device(o, "pmod_gpio"), {"pmoda"})
             s1 == When(Device(o, "spi_flash"),
                       << Requests({"spiflash4x"}, {}) >>)
             s2 == << Requests({"user_led"}, {Attr("leds")}) >>
             s3 == When(Device(o, "pmod_gpio"),
                       PmodCalls)
  <1>1. /\ {Attr("leds")} \in SUBSET Things
    BY AttrIsThing DEF Things, Kinds, Names, Attributes
  <1>2. {"spiflash4x"} \in SUBSET Pads /\ {"user_led"} \in SUBSET Pads
    BY DEF Pads, ArtyPads
  <1>3. /\ Does(s1, {}, p1, {}, 0)
        /\ Runs(s1, ArtyPads, has, used)
             <=> (Device(o, "spi_flash")
                  => Free({"spiflash4x"}, ArtyPads, has, used))
    <2> DEFINE r == << Requests({"spiflash4x"}, {}) >>
    <2>1. /\ Does(r, {}, {"spiflash4x"}, {}, 0)
          /\ Runs(r, ArtyPads, has, used)
               <=> Free({"spiflash4x"}, ArtyPads, has, used)
      BY <1>2, DoesRequests, EmptySets
    <2>2. s1 = When(Device(o, "spi_flash"), r)
      OBVIOUS
    <2> HIDE DEF r, s1
    <2> QED BY <2>1, <2>2, DoesIf, IfNothing
  <1>4. /\ Does(s2, {Attr("leds")}, {"user_led"}, {}, 0)
        /\ Runs(s2, ArtyPads, has, used \cup p1)
             <=> Free({"user_led"}, ArtyPads, has, (used \cup p1))
    BY <1>1, <1>2, DoesRequests
  <1>5. /\ Does(s3, m3, p3, {}, 0)
        /\ Runs(s3, ArtyPads, has \cup {Attr("leds")},
                used \cup (p1 \cup {"user_led"}))
    <2> DEFINE r == PmodCalls
    <2>1. /\ Does(r, PmodMade, {"pmoda"}, {}, 0)
          /\ Runs(r, ArtyPads, has \cup {Attr("leds")},
                  used \cup (p1 \cup {"user_led"}))
      <3>1. "pmoda" \notin (used \cup (p1 \cup {"user_led"}))
          BY DEF If
      <3> QED BY <3>1, DoesPmodCalls
    <2>2. s3 = When(Device(o, "pmod_gpio"), r)
      OBVIOUS
    <2> HIDE DEF r, s3
    <2> QED BY <2>1, <2>2, DoesIf, IfNothing
  <1>6. ArtyDevices(o) = (s1 \o s2) \o s3
    BY DEF ArtyDevices, Device, PmodCalls
  <1> HIDE DEF s1, s2, s3, p1, m3, p3
  <1>7. Does(s1 \o s2, {Attr("leds")},
             p1 \cup {"user_led"}, {}, 0 + 0)
    BY <1>3, <1>4, DoesConcat, NoMore
  <1>8. Does((s1 \o s2) \o s3, {Attr("leds")} \cup m3,
             (p1 \cup {"user_led"}) \cup p3, {}, (0 + 0) + 0)
    BY <1>7, <1>5, DoesConcat, NoMore
  <1>9. Runs((s1 \o s2) \o s3, ArtyPads, has, used)
        <=> /\ Runs(s1, ArtyPads, has, used)
            /\ Runs(s2, ArtyPads, has, used \cup p1)
            /\ Runs(s3, ArtyPads, has \cup {Attr("leds")},
                    used \cup (p1 \cup {"user_led"}))
    BY <1>3, <1>4, <1>5, <1>7, <1>8, RunsThen, NoMore
  <1>10. /\ {Attr("leds")} \cup m3 = ArtyDevicesMade(o)
         /\ (p1 \cup {"user_led"}) \cup p3 = ArtyDevicesAsked(o)
         /\ (0 + 0) + 0 = 0
    BY DEF ArtyDevicesMade, ArtyDevicesAsked, p1, m3, p3
  <1>11. Free({"spiflash4x"}, ArtyPads, has, used)
    BY DEF Free
  <1>12. Free({"user_led"}, ArtyPads, has, used \cup p1)
    BY DEF Free, If, p1
  <1>13. Does(ArtyDevices(o), ArtyDevicesMade(o),
            ArtyDevicesAsked(o), {}, 0)
    BY <1>6, <1>8, <1>10
  <1>14. Runs(ArtyDevices(o), ArtyPads, has, used)
    BY <1>6, <1>9, <1>3, <1>4, <1>5, <1>11, <1>12
  <1> QED BY <1>13, <1>14

ArtyCrgMade(o) ==
  {Attr("crg")} \cup IF OnDram(o) THEN {Attr("crg.idelay")} ELSE {}

ArtyCrgAsked == {"clk100", "cpu_reset", "eth_ref_clk"}

ArtyBaseMade(o) ==
  (((ArtyCrgMade(o) \cup CfuCoreMade) \cup If(OnDram(o), {Attr("ddrphy")}))
   \cup If(ArtyEth(o), ArtyEthMade(o))) \cup ArtyDevicesMade(o)

ArtyBaseAsked(o) ==
  (((ArtyCrgAsked \cup {"serial"}) \cup If(OnDram(o), {"ddram"}))
   \cup If(ArtyEth(o), ArtyEthAsked)) \cup ArtyDevicesAsked(o)

BoardMapped(o) == (CoreWindows \cup MainRam(o))
  \cup If(OnDram(o), {DramWindow})

(* its SoC, *)
LEMMA DoesArtyBaseSoC ==
  ASSUME NEW o \in ArtyOptions
  PROVE  /\ Does(ArtyBaseSoC(o),
                ArtyBaseMade(o),
                ArtyBaseAsked(o), BoardMapped(o), 0)
         /\ Runs(ArtyBaseSoC(o), ArtyPads, {}, {})
  <1> DEFINE m3 == If(OnDram(o), {Attr("ddrphy")})
             p3 == If(OnDram(o), {"ddram"})
             w3 == If(OnDram(o), {DramWindow})
             m4 == If(ArtyEth(o), ArtyEthMade(o))
             p4 == If(ArtyEth(o), ArtyEthAsked)
             s1 == << ArtyCRG(~o.main_ram) >>
             s2 == CfuRamSoCCore({"serial"}, {Attr("crg")}, MainRam(o))
             s3 == When(OnDram(o),
                       ArtyDramCalls)
             s4 == When(ArtyEth(o), ArtyEthCalls(o))
             s5 == ArtyDevices(o)
  <1>1. ArtyCrgMade(o) \in SUBSET Things /\ {Attr("crg")} \in SUBSET Things
    <2>1. "crg" \in Attributes /\ "crg.idelay" \in Attributes
      BY DEF Attributes
    <2> QED BY <2>1, AttrIsThing DEF ArtyCrgMade
  <1>2. ArtyCrgAsked \in SUBSET Pads /\ {"serial"} \in SUBSET Pads
    BY DEF ArtyCrgAsked, Pads, ArtyPads
  <1>3. /\ Does(s1, ArtyCrgMade(o), ArtyCrgAsked, {}, 0)
        /\ Runs(s1, ArtyPads, {}, {})
             <=> Free(ArtyCrgAsked, ArtyPads, {}, {})
    <2>1. s1 = << Requests(ArtyCrgAsked, ArtyCrgMade(o)) >>
      BY DEF ArtyCRG, ArtyCrgAsked, ArtyCrgMade, OnDram
    <2> HIDE DEF s1
    <2> QED BY <1>1, <1>2, <2>1, DoesRequests
  <1>4. /\ Does(s2, CfuCoreMade, {"serial"}, CoreWindows \cup MainRam(o), 0)
        /\ Runs(s2, ArtyPads, ArtyCrgMade(o), ArtyCrgAsked)
    <2> DEFINE n == {Attr("crg")}
               u == {"serial"}
               w == MainRam(o)
    <2>1. n \in SUBSET Things /\ u \in SUBSET Pads /\ w \in SUBSET Windows
      BY <1>1, <1>2, BoardRam
    <2>2. n \subseteq ArtyCrgMade(o)
      BY DEF ArtyCrgMade
    <2>3. Free(u, ArtyPads, ArtyCrgMade(o), ArtyCrgAsked)
      BY DEF Free, ArtyPads, ArtyCrgAsked
    <2>4. s2 = CfuRamSoCCore(u, n, w)
      OBVIOUS
    <2> HIDE DEF s2, n, u, w
    <2>5. /\ Does(s2, CfuCoreMade, u, CoreWindows \cup w, 0)
          /\ Runs(s2, ArtyPads, ArtyCrgMade(o), ArtyCrgAsked)
      BY <2>1, <2>2, <2>3, <2>4, DoesCfuRamSoCCore
    <2> QED BY <2>5 DEF u, w
  <1>5. /\ Does(s3, m3, p3, w3, 0)
        /\ Runs(s3, ArtyPads, ArtyCrgMade(o) \cup CfuCoreMade,
                ArtyCrgAsked \cup {"serial"})
             <=> (OnDram(o)
                  => {Attr("crg.idelay")}
                    \subseteq (ArtyCrgMade(o) \cup CfuCoreMade)
                      /\ Free({"ddram"}, ArtyPads,
                              ArtyCrgMade(o) \cup CfuCoreMade,
                                ArtyCrgAsked \cup {"serial"}))
    <2> DEFINE r == ArtyDramCalls
    <2>1. /\ Does(r, {Attr("ddrphy")}, {"ddram"}, {DramWindow}, 0)
          /\ Runs(r, ArtyPads, ArtyCrgMade(o) \cup CfuCoreMade,
                  ArtyCrgAsked \cup {"serial"})
               <=> {Attr("crg.idelay")}
                 \subseteq (ArtyCrgMade(o) \cup CfuCoreMade)
                   /\ Free({"ddram"}, ArtyPads,
                           ArtyCrgMade(o) \cup CfuCoreMade,
                             ArtyCrgAsked \cup {"serial"})
      BY DoesArtyDramCalls
    <2>2. s3 = When(OnDram(o), r)
      OBVIOUS
    <2> HIDE DEF r, s3
    <2> QED BY <2>1, <2>2, DoesIf, IfNothing
  <1>6. /\ Does(s4, m4, p4, {}, 0)
        /\ Runs(s4, ArtyPads, (ArtyCrgMade(o) \cup CfuCoreMade) \cup m3,
                (ArtyCrgAsked \cup {"serial"}) \cup p3)
             <=> (ArtyEth(o)
                  => Free(ArtyEthAsked, ArtyPads,
                          (ArtyCrgMade(o) \cup CfuCoreMade) \cup m3,
                          (ArtyCrgAsked \cup {"serial"}) \cup p3))
    <2>1. CASE ArtyEth(o)
      <3>1. o.ethernet \in {"ethernet", "etherbone"}
        BY <2>1, ArtyOptionTypes DEF ArtyEth
      <3>2. s4 = ArtyEthCalls(o) /\ m4 = ArtyEthMade(o) /\ p4 = ArtyEthAsked
        BY <2>1 DEF When, If
      <3> HIDE DEF s4, m4, p4
      <3> QED BY <2>1, <3>1, <3>2, DoesArtyEthCalls
    <2>2. CASE ~ArtyEth(o)
      <3>1. s4 = <<>> /\ m4 = {} /\ p4 = {}
        BY <2>2 DEF When, If
      <3> HIDE DEF s4, m4, p4
      <3> QED BY <2>2, <3>1, DoesNothing DEF Runs
    <2> QED BY <2>1, <2>2
  <1>7. /\ Does(s5, ArtyDevicesMade(o), ArtyDevicesAsked(o), {}, 0)
        /\ Runs(s5, ArtyPads,
                ((ArtyCrgMade(o) \cup CfuCoreMade) \cup m3) \cup m4,
                ((ArtyCrgAsked \cup {"serial"}) \cup p3) \cup p4)
    <2>1. /\ Free({"spiflash4x", "user_led"}, ArtyPads,
                  ((ArtyCrgMade(o) \cup CfuCoreMade) \cup m3) \cup m4,
                  ((ArtyCrgAsked \cup {"serial"}) \cup p3) \cup p4)
          /\ "pmoda" \notin (((ArtyCrgAsked \cup {"serial"}) \cup p3) \cup p4)
      BY DEF Free, ArtyPads, ArtyCrgAsked, ArtyEthAsked, If
    <2> HIDE DEF s5
    <2>2. s5 = ArtyDevices(o)
      BY DEF s5
    <2> QED BY <2>1, <2>2, DoesArtyDevices
  <1>8. ArtyBaseSoC(o) = (((s1 \o s2) \o s3) \o s4) \o s5
    BY DEF ArtyBaseSoC, ArtyDram, OnDram, ArtyDramCalls, ArtyEthernet, ArtyEth,
           ArtyEthCalls, ArtyEthAsked
  <1> HIDE DEF s1, s2, s3, s4, s5, m3, p3, w3, m4, p4
  <1>9. Does(s1 \o s2, ArtyCrgMade(o) \cup CfuCoreMade,
             ArtyCrgAsked \cup {"serial"}, (CoreWindows \cup MainRam(o)),
             0 + 0)
    BY <1>3, <1>4, DoesConcat, NoMore
  <1>10. Does((s1 \o s2) \o s3, (ArtyCrgMade(o) \cup CfuCoreMade) \cup m3,
              (ArtyCrgAsked \cup {"serial"}) \cup p3,
              (CoreWindows \cup MainRam(o)) \cup w3, (0 + 0) + 0)
    BY <1>9, <1>5, DoesConcat, NoMore
  <1>11. Does(((s1 \o s2) \o s3) \o s4,
              ((ArtyCrgMade(o) \cup CfuCoreMade) \cup m3) \cup m4,
              ((ArtyCrgAsked \cup {"serial"}) \cup p3) \cup p4,
              (CoreWindows \cup MainRam(o)) \cup w3, ((0 + 0) + 0) + 0)
    BY <1>10, <1>6, DoesConcat, NoMore
  <1>12. Does((((s1 \o s2) \o s3) \o s4) \o s5,
              (((ArtyCrgMade(o) \cup CfuCoreMade) \cup m3) \cup m4)
                \cup ArtyDevicesMade(o),
              (((ArtyCrgAsked \cup {"serial"}) \cup p3) \cup p4)
                \cup ArtyDevicesAsked(o),
                (CoreWindows \cup MainRam(o)) \cup w3, (((0 + 0) + 0) + 0) + 0)
    BY <1>11, <1>7, DoesConcat, NoMore
  <1>13. Runs((((s1 \o s2) \o s3) \o s4) \o s5, ArtyPads, {}, {})
         <=> /\ Runs(s1, ArtyPads, {}, {})
             /\ Runs(s2, ArtyPads, ArtyCrgMade(o), ArtyCrgAsked)
             /\ Runs(s3, ArtyPads, ArtyCrgMade(o) \cup CfuCoreMade,
                     ArtyCrgAsked \cup {"serial"})
             /\ Runs(s4, ArtyPads, (ArtyCrgMade(o) \cup CfuCoreMade) \cup m3,
                     (ArtyCrgAsked \cup {"serial"}) \cup p3)
             /\ Runs(s5, ArtyPads,
                     ((ArtyCrgMade(o) \cup CfuCoreMade) \cup m3) \cup m4,
                     ((ArtyCrgAsked \cup {"serial"}) \cup p3) \cup p4)
    BY <1>3, <1>4, <1>5, <1>6, <1>7, <1>9, <1>10, <1>11, <1>12, RunsThen,
       NoMore
  <1>14. /\ (((ArtyCrgMade(o) \cup CfuCoreMade) \cup m3) \cup m4)
              \cup ArtyDevicesMade(o) = ArtyBaseMade(o)
         /\ (((ArtyCrgAsked \cup {"serial"}) \cup p3) \cup p4)
              \cup ArtyDevicesAsked(o) = ArtyBaseAsked(o)
         /\ ((CoreWindows \cup MainRam(o))) \cup w3 = BoardMapped(o)
         /\ (((0 + 0) + 0) + 0) + 0 = 0
    BY DEF ArtyBaseMade, ArtyBaseAsked, BoardMapped, m3, p3, w3, m4, p4
  <1>15. Free(ArtyCrgAsked, ArtyPads, {}, {})
    BY DEF Free, ArtyCrgAsked, ArtyPads
  <1>16. OnDram(o)
           => {Attr("crg.idelay")} \subseteq ArtyCrgMade(o) \cup CfuCoreMade
    BY DEF ArtyCrgMade
  <1>17. Free({"ddram"}, ArtyPads, ArtyCrgMade(o) \cup CfuCoreMade,
              ArtyCrgAsked \cup {"serial"})
    BY DEF Free, ArtyCrgAsked, ArtyPads
  <1>18. Free(ArtyEthAsked, ArtyPads,
              (ArtyCrgMade(o) \cup CfuCoreMade) \cup m3,
                (ArtyCrgAsked \cup {"serial"}) \cup p3)
    BY DEF Free, ArtyEthAsked, ArtyCrgAsked, ArtyPads, p3, If
  <1>19. Does(ArtyBaseSoC(o), ArtyBaseMade(o),
            ArtyBaseAsked(o), BoardMapped(o), 0)
    BY <1>8, <1>12, <1>14
  <1>20. Runs(ArtyBaseSoC(o), ArtyPads, {}, {})
    BY <1>8, <1>13, <1>3, <1>4, <1>5, <1>6, <1>7, <1>15, <1>16, <1>17, <1>18
  <1> QED BY <1>19, <1>20

SdExtension == {<<"extension", "spisdcard">>}

ArtyMade(o) ==
  ((ArtyBaseMade(o) \cup SdExtension)
   \cup If(Device(o, "spi_sdcard"), {Attr("sdcard")})) \cup BuildMade(o)

ArtyAsked(o) ==
  ArtyBaseAsked(o) \cup If(Device(o, "spi_sdcard"), {"spisdcard"})

(* The options of the Arty that can be built. *)
ArtyFits(o) ==
  ~(o.ethernet = "etherbone" /\ o.eth_dynamic_ip) /\ LoadFits(o)

ArtyIp(o) == ~(o.ethernet = "etherbone" /\ o.eth_dynamic_ip)

(* and the whole program. *)
LEMMA DoesArtyMain ==
  ASSUME NEW o \in ArtyOptions
  PROVE  /\ Does(ArtyMain(o),
                ArtyMade(o),
                ArtyAsked(o), BoardMapped(o), 0)
         /\ Runs(ArtyMain(o), ArtyPads, {}, {})
              <=> ArtyFits(o)
  <1> DEFINE m4 == If(Device(o, "spi_sdcard"), {Attr("sdcard")})
             p4 == If(Device(o, "spi_sdcard"), {"spisdcard"})
             s1 == << Asserts(ArtyIp(o)) >>
             s2 == ArtyBaseSoC(o)
             s3 == << Makes(SdExtension) >>
             s4 == When(Device(o, "spi_sdcard"),
                       << Requests({"spisdcard"}, {Attr("sdcard")}) >>)
             s5 == BuildAndLoad(o)
  <1>1. SdExtension \in SUBSET Things /\ {Attr("sdcard")} \in SUBSET Things
    <2>1. "sdcard" \in Attributes
      BY DEF Attributes
    <2>2. {Attr("sdcard")} \in SUBSET Things
      BY <2>1, AttrIsThing
    <2> QED BY <2>2 DEF SdExtension, Things, Kinds, Names, Pads, OrangecrabPads
  <1>2. {"spisdcard"} \in SUBSET Pads
    BY DEF Pads, OrangecrabPads
  <1>3. /\ Does(s1, {}, {}, {}, 0)
        /\ Runs(s1, ArtyPads, {}, {})
             <=> ArtyIp(o)
    <2>1. ArtyIp(o) \in BOOLEAN
      BY DEF ArtyIp
    <2> HIDE DEF s1
    <2>2. s1 = << Asserts(ArtyIp(o)) >>
      BY DEF s1
    <2> QED BY <2>1, <2>2, DoesAsserts
  <1>4. /\ Does(s2, ArtyBaseMade(o), ArtyBaseAsked(o), BoardMapped(o), 0)
        /\ Runs(s2, ArtyPads, {}, {})
    BY DoesArtyBaseSoC
  <1>5. /\ Does(s3, SdExtension, {}, {}, 0)
        /\ Runs(s3, ArtyPads, ArtyBaseMade(o), ArtyBaseAsked(o))
    BY <1>1, DoesMakes
  <1>6. /\ Does(s4, m4, p4, {}, 0)
        /\ Runs(s4, ArtyPads, ArtyBaseMade(o) \cup SdExtension,
                ArtyBaseAsked(o))
             <=> (Device(o, "spi_sdcard")
                  => Free({"spisdcard"}, ArtyPads,
                          ArtyBaseMade(o) \cup SdExtension, ArtyBaseAsked(o)))
    <2> DEFINE r == << Requests({"spisdcard"}, {Attr("sdcard")}) >>
    <2>1. /\ Does(r, {Attr("sdcard")}, {"spisdcard"}, {}, 0)
          /\ Runs(r, ArtyPads, ArtyBaseMade(o) \cup SdExtension,
                  ArtyBaseAsked(o))
               <=> Free({"spisdcard"}, ArtyPads,
                        ArtyBaseMade(o) \cup SdExtension, ArtyBaseAsked(o))
      BY <1>1, <1>2, DoesRequests
    <2>2. s4 = When(Device(o, "spi_sdcard"), r)
      OBVIOUS
    <2> HIDE DEF r, s4
    <2> QED BY <2>1, <2>2, DoesIf, IfNothing
  <1>7. /\ Does(s5, BuildMade(o), {}, {}, 0)
        /\ Runs(s5, ArtyPads, (ArtyBaseMade(o) \cup SdExtension) \cup m4,
                ArtyBaseAsked(o) \cup p4)
             <=> LoadFits(o)
    <2>1. bitstream \notin ArtyBaseMade(o)
      BY DEF ArtyBaseMade, ArtyCrgMade, CfuCoreMade, CfuCpus, CfuCpuMade,
           ArtyEthMade, ArtyDevicesMade, PmodMade, bitstream, If, Attr
    <2>2. bitstream \notin ((ArtyBaseMade(o) \cup SdExtension) \cup m4)
      BY <2>1 DEF SdExtension, bitstream, If, Attr
    <2> HIDE DEF s5, m4
    <2>3. s5 = BuildAndLoad(o)
      BY DEF s5
    <2> QED BY <2>2, <2>3, DoesBuildAndLoad
  <1>8. ArtyMain(o) = (((s1 \o s2) \o s3) \o s4) \o s5
    BY DEF ArtyMain, ArtyIp, SdExtension, Device
  <1> HIDE DEF s1, s2, s3, s4, s5, m4, p4
  <1>9. Does(s1 \o s2, ArtyBaseMade(o),
             ArtyBaseAsked(o), BoardMapped(o), 0 + 0)
    BY <1>3, <1>4, DoesConcat, NoMore
  <1>10. Does((s1 \o s2) \o s3, ArtyBaseMade(o) \cup SdExtension,
              ArtyBaseAsked(o), BoardMapped(o), (0 + 0) + 0)
    BY <1>9, <1>5, DoesConcat, NoMore
  <1>11. Does(((s1 \o s2) \o s3) \o s4,
              (ArtyBaseMade(o) \cup SdExtension) \cup m4,
              ArtyBaseAsked(o) \cup p4, BoardMapped(o), ((0 + 0) + 0) + 0)
    BY <1>10, <1>6, DoesConcat, NoMore
  <1>12. Does((((s1 \o s2) \o s3) \o s4) \o s5,
              ((ArtyBaseMade(o) \cup SdExtension) \cup m4) \cup BuildMade(o),
              ArtyBaseAsked(o) \cup p4, BoardMapped(o),
                (((0 + 0) + 0) + 0) + 0)
    BY <1>11, <1>7, DoesConcat, NoMore
  <1>13. Runs((((s1 \o s2) \o s3) \o s4) \o s5, ArtyPads, {}, {})
         <=> /\ Runs(s1, ArtyPads, {}, {})
             /\ Runs(s2, ArtyPads, {}, {})
             /\ Runs(s3, ArtyPads, ArtyBaseMade(o), ArtyBaseAsked(o))
             /\ Runs(s4, ArtyPads, ArtyBaseMade(o) \cup SdExtension,
                     ArtyBaseAsked(o))
             /\ Runs(s5, ArtyPads, (ArtyBaseMade(o) \cup SdExtension) \cup m4,
                     ArtyBaseAsked(o) \cup p4)
    BY <1>3, <1>4, <1>5, <1>6, <1>7, <1>9, <1>10, <1>11, <1>12, RunsThen,
       NoMore
  <1>14. /\ ((ArtyBaseMade(o) \cup SdExtension) \cup m4) \cup BuildMade(o)
              = ArtyMade(o)
         /\ ArtyBaseAsked(o) \cup p4 = ArtyAsked(o)
         /\ (((0 + 0) + 0) + 0) + 0 = 0
    BY DEF ArtyMade, ArtyAsked, m4, p4
  <1>15. "spisdcard" \notin ArtyBaseAsked(o)
    BY DEF ArtyBaseAsked, ArtyCrgAsked, ArtyEthAsked, ArtyDevicesAsked, If
  <1>16. Free({"spisdcard"}, ArtyPads, ArtyBaseMade(o) \cup SdExtension,
              ArtyBaseAsked(o))
    BY <1>15 DEF Free, SdExtension
  <1>17. Does(ArtyMain(o), ArtyMade(o),
            ArtyAsked(o), BoardMapped(o), 0)
    BY <1>8, <1>12, <1>14
  <1>18. Runs(ArtyMain(o), ArtyPads, {}, {})
          <=> ArtyFits(o)
    BY <1>8, <1>13, <1>3, <1>4, <1>5, <1>6, <1>7, <1>16 DEF ArtyFits, ArtyIp
  <1> QED BY <1>17, <1>18

OcDramCalls(o) ==
  << Requests({"ddram"}, {Attr("ddrphy")}),
     From({Attr("ddrphy"), Attr("crg.stop"), Attr("crg.reset")}, {}),
     Call(o.sdram_device = "MT41K64M16", {Attr("ddrphy")}, {}, {},
          {DramWindow}, 0) >>

OcCrg == {Attr("crg.stop"), Attr("crg.reset")}

OcNeeds == {Attr("ddrphy"), Attr("crg.stop"), Attr("crg.reset")}

OcKnown(o) == o.sdram_device = "MT41K64M16"

(* The DRAM of the OrangeCrab, for a device that is known, *)
LEMMA DoesOcDramCalls ==
  ASSUME NEW o, NEW known, NEW has, NEW used,
         OcCrg \subseteq has
  PROVE  /\ Does(OcDramCalls(o),
                {Attr("ddrphy")},
                {"ddram"}, {DramWindow}, 0)
         /\ Runs(OcDramCalls(o), known, has, used)
              <=> Free({"ddram"}, known, has, used) /\ OcKnown(o)
  <1> DEFINE c1 == Requests({"ddram"}, {Attr("ddrphy")})
             c2 == From(OcNeeds, {})
             c3 == Call(OcKnown(o), {Attr("ddrphy")}, {}, {}, {DramWindow}, 0)
             s1 == << c1 >>
             s2 == << c2 >>
             s3 == << c3 >>
  <1>1. OcNeeds \in SUBSET Things /\ {Attr("ddrphy")} \in SUBSET Things
    <2>1. "ddrphy" \in Attributes /\ "crg.stop" \in Attributes
          /\ "crg.reset" \in Attributes
      BY DEF Attributes
    <2> QED BY <2>1, AttrIsThing DEF OcNeeds
  <1>2. {"ddram"} \in SUBSET Pads
    BY DEF Pads, ArtyPads
  <1>3. /\ Does(s1, {Attr("ddrphy")}, {"ddram"}, {}, 0)
        /\ Runs(s1, known, has, used)
             <=> Free({"ddram"}, known, has, used)
    BY <1>1, <1>2, DoesRequests
  <1>4. /\ Does(s2, {}, {}, {}, 0)
        /\ Runs(s2, known, has \cup {Attr("ddrphy")}, used \cup {"ddram"})
             <=> OcNeeds \subseteq (has \cup {Attr("ddrphy")})
    BY <1>1, DoesFrom, EmptySets
  <1>5. /\ Does(s3, {}, {}, {DramWindow}, 0)
        /\ Runs(s3, known, has \cup {Attr("ddrphy")}, used \cup {"ddram"})
             <=> OcKnown(o)
    <2> DEFINE n == {Attr("ddrphy")}
               w == {DramWindow}
               b == OcKnown(o)
    <2>1. n \in SUBSET Things /\ w \in SUBSET Windows /\ b \in BOOLEAN
      BY <1>1, BoardRam DEF OcKnown
    <2>2. /\ s3 = << Call(b, n, {}, {}, w, 0) >>
          /\ n \subseteq (has \cup {Attr("ddrphy")})
      OBVIOUS
    <2> HIDE DEF n, w, b, s3
    <2>3. ASSUME NEW h, NEW u, n \subseteq h
          PROVE  /\ Does(s3, {}, {}, w, 0)
                 /\ Runs(s3, known, h, u) <=> b
      <3>1. /\ Does(s3, {}, {}, w, 0)
            /\ Runs(s3, known, h, u)
                 <=> b /\ n \subseteq h /\ Free({}, known, h, u)
        BY <2>1, <2>2, DoesCall, EmptySets
      <3> QED BY <2>3, <3>1, EmptySets
    <2> QED BY <2>2, <2>3 DEF w, b
  <1>6. OcDramCalls(o) = << c1, c2, c3 >>
    BY DEF OcDramCalls, OcNeeds, OcKnown
  <1> HIDE DEF c1, c2, c3
  <1>7. OcDramCalls(o) = (s1 \o s2) \o s3
    BY <1>6, ThreeCalls
  <1> HIDE DEF s1, s2, s3
  <1>8. Does(s1 \o s2, {Attr("ddrphy")},
             {"ddram"}, {}, 0 + 0)
    BY <1>3, <1>4, DoesConcat, NoMore
  <1>9. Does((s1 \o s2) \o s3, {Attr("ddrphy")},
             {"ddram"}, {DramWindow}, (0 + 0) + 0)
    BY <1>8, <1>5, DoesConcat, NoMore
  <1>10. Runs((s1 \o s2) \o s3, known, has, used)
         <=> /\ Runs(s1, known, has, used)
             /\ Runs(s2, known, has \cup {Attr("ddrphy")}, used \cup {"ddram"})
             /\ Runs(s3, known, has \cup {Attr("ddrphy")}, used \cup {"ddram"})
    BY <1>3, <1>4, <1>5, <1>8, <1>9, RunsThen, NoMore
  <1>11. (0 + 0) + 0 = 0
    OBVIOUS
  <1>12. OcNeeds \subseteq has \cup {Attr("ddrphy")}
    BY DEF OcNeeds, OcCrg
  <1>13. Does(OcDramCalls(o), {Attr("ddrphy")},
            {"ddram"}, {DramWindow}, 0)
    BY <1>7, <1>9, <1>11
  <1>14. Runs(OcDramCalls(o), known, has, used)
          <=> Free({"ddram"}, known, has, used) /\ OcKnown(o)
    BY <1>7, <1>10, <1>3, <1>4, <1>5, <1>12
  <1> QED BY <1>13, <1>14

OcCrgMade(o) ==
  {Attr("crg"), <<"clock", "usb_12">>, <<"clock", "usb_48">>}
  \cup IF OnDram(o) THEN OcCrg ELSE {}

OcCrgAsked == {"clk48", "usr_btn", "rst_n"}

OcClocks == {Attr("crg"), <<"clock", "usb_12">>, <<"clock", "usb_48">>}

OcBaseMade(o) ==
  ((OcCrgMade(o) \cup CfuCoreMade) \cup If(OnDram(o), {Attr("ddrphy")}))
  \cup {Attr("leds")}

OcBaseAsked(o) ==
  ((OcCrgAsked \cup {"usb"}) \cup If(OnDram(o), {"ddram"})) \cup {"user_led"}

OcDramFits(o) == OnDram(o) => OcKnown(o)

(* its SoC, *)
LEMMA DoesOrangecrabBaseSoC ==
  ASSUME NEW o
  PROVE  /\ Does(OrangecrabBaseSoC(o),
                OcBaseMade(o),
                OcBaseAsked(o), BoardMapped(o), 0)
         /\ Runs(OrangecrabBaseSoC(o), OrangecrabPads, {}, {})
              <=> OcDramFits(o)
  <1> DEFINE m3 == If(OnDram(o), {Attr("ddrphy")})
             p3 == If(OnDram(o), {"ddram"})
             w3 == If(OnDram(o), {DramWindow})
             s1 == << OrangecrabCRG(~o.main_ram) >>
             s2 == CfuRamSoCCore({"usb"}, OcClocks, MainRam(o))
             s3 == When(OnDram(o), OcDramCalls(o))
             s4 == << Requests({"user_led"}, {Attr("leds")}) >>
  <1>1. /\ OcCrgMade(o) \in SUBSET Things /\ OcClocks \in SUBSET Things
        /\ {Attr("leds")} \in SUBSET Things
    <2>1. /\ "crg" \in Attributes /\ "crg.stop" \in Attributes
          /\ "crg.reset" \in Attributes /\ "leds" \in Attributes
      BY DEF Attributes
    <2>2. <<"clock", "usb_12">> \in Things /\ <<"clock", "usb_48">> \in Things
      BY DEF Things, Kinds, Names
    <2> QED BY <2>1, <2>2, AttrIsThing DEF OcCrgMade, OcCrg, OcClocks
  <1>2. /\ OcCrgAsked \in SUBSET Pads /\ {"usb"} \in SUBSET Pads
        /\ {"user_led"} \in SUBSET Pads
    BY DEF OcCrgAsked, Pads, OrangecrabPads
  <1>3. /\ Does(s1, OcCrgMade(o), OcCrgAsked, {}, 0)
        /\ Runs(s1, OrangecrabPads, {}, {})
             <=> Free(OcCrgAsked, OrangecrabPads, {}, {})
    <2>1. s1 = << Requests(OcCrgAsked, OcCrgMade(o)) >>
      BY DEF OrangecrabCRG, OcCrgAsked, OcCrgMade, OcCrg, OnDram
    <2> HIDE DEF s1
    <2> QED BY <1>1, <1>2, <2>1, DoesRequests
  <1>4. /\ Does(s2, CfuCoreMade, {"usb"}, CoreWindows \cup MainRam(o), 0)
        /\ Runs(s2, OrangecrabPads, OcCrgMade(o), OcCrgAsked)
    <2> DEFINE u == {"usb"}
               w == MainRam(o)
    <2>1. /\ OcClocks \in SUBSET Things /\ u \in SUBSET Pads
          /\ w \in SUBSET Windows
      BY <1>1, <1>2, BoardRam
    <2>2. OcClocks \subseteq OcCrgMade(o)
      BY DEF OcCrgMade, OcClocks
    <2>3. Free(u, OrangecrabPads, OcCrgMade(o), OcCrgAsked)
      BY DEF Free, OrangecrabPads, OcCrgAsked
    <2>4. s2 = CfuRamSoCCore(u, OcClocks, w)
      OBVIOUS
    <2> HIDE DEF s2, u, w
    <2>5. /\ Does(s2, CfuCoreMade, u, CoreWindows \cup w, 0)
          /\ Runs(s2, OrangecrabPads, OcCrgMade(o), OcCrgAsked)
      BY <2>1, <2>2, <2>3, <2>4, DoesCfuRamSoCCore
    <2> QED BY <2>5 DEF u, w
  <1>5. /\ Does(s3, m3, p3, w3, 0)
        /\ Runs(s3, OrangecrabPads, OcCrgMade(o) \cup CfuCoreMade,
                OcCrgAsked \cup {"usb"})
             <=> (OnDram(o)
                  => Free({"ddram"}, OrangecrabPads,
                          OcCrgMade(o) \cup CfuCoreMade,
                            OcCrgAsked \cup {"usb"}) /\ OcKnown(o))
    <2>1. CASE OnDram(o)
      <3>1. OcCrg \subseteq (OcCrgMade(o) \cup CfuCoreMade)
        BY <2>1 DEF OcCrgMade
      <3>2. /\ s3 = OcDramCalls(o) /\ m3 = {Attr("ddrphy")} /\ p3 = {"ddram"}
            /\ w3 = {DramWindow}
        BY <2>1 DEF When, If
      <3> HIDE DEF s3, m3, p3, w3
      <3> QED BY <2>1, <3>1, <3>2, DoesOcDramCalls
    <2>2. CASE ~OnDram(o)
      <3>1. s3 = <<>> /\ m3 = {} /\ p3 = {} /\ w3 = {}
        BY <2>2 DEF When, If
      <3> HIDE DEF s3, m3, p3, w3
      <3> QED BY <2>2, <3>1, DoesNothing DEF Runs
    <2> QED BY <2>1, <2>2
  <1>6. /\ Does(s4, {Attr("leds")}, {"user_led"}, {}, 0)
        /\ Runs(s4, OrangecrabPads, (OcCrgMade(o) \cup CfuCoreMade) \cup m3,
                (OcCrgAsked \cup {"usb"}) \cup p3)
             <=> Free({"user_led"}, OrangecrabPads,
                      (OcCrgMade(o) \cup CfuCoreMade) \cup m3,
                      (OcCrgAsked \cup {"usb"}) \cup p3)
    BY <1>1, <1>2, DoesRequests
  <1>7. OrangecrabBaseSoC(o) = ((s1 \o s2) \o s3) \o s4
    BY DEF OrangecrabBaseSoC, OrangecrabDram, OnDram, OcDramCalls, OcClocks
  <1> HIDE DEF s1, s2, s3, s4, m3, p3, w3
  <1>8. Does(s1 \o s2, OcCrgMade(o) \cup CfuCoreMade,
             OcCrgAsked \cup {"usb"}, (CoreWindows \cup MainRam(o)), 0 + 0)
    BY <1>3, <1>4, DoesConcat, NoMore
  <1>9. Does((s1 \o s2) \o s3, (OcCrgMade(o) \cup CfuCoreMade) \cup m3,
             (OcCrgAsked \cup {"usb"}) \cup p3,
             (CoreWindows \cup MainRam(o)) \cup w3, (0 + 0) + 0)
    BY <1>8, <1>5, DoesConcat, NoMore
  <1>10. Does(((s1 \o s2) \o s3) \o s4,
              ((OcCrgMade(o) \cup CfuCoreMade) \cup m3) \cup {Attr("leds")},
              ((OcCrgAsked \cup {"usb"}) \cup p3) \cup {"user_led"},
              (CoreWindows \cup MainRam(o)) \cup w3, ((0 + 0) + 0) + 0)
    BY <1>9, <1>6, DoesConcat, NoMore
  <1>11. Runs(((s1 \o s2) \o s3) \o s4, OrangecrabPads, {}, {})
         <=> /\ Runs(s1, OrangecrabPads, {}, {})
             /\ Runs(s2, OrangecrabPads, OcCrgMade(o), OcCrgAsked)
             /\ Runs(s3, OrangecrabPads, OcCrgMade(o) \cup CfuCoreMade,
                     OcCrgAsked \cup {"usb"})
             /\ Runs(s4, OrangecrabPads,
                     (OcCrgMade(o) \cup CfuCoreMade) \cup m3,
                     (OcCrgAsked \cup {"usb"}) \cup p3)
    BY <1>3, <1>4, <1>5, <1>6, <1>8, <1>9, <1>10, RunsThen, NoMore
  <1>12. /\ ((OcCrgMade(o) \cup CfuCoreMade) \cup m3) \cup {Attr("leds")}
              = OcBaseMade(o)
         /\ ((OcCrgAsked \cup {"usb"}) \cup p3) \cup {"user_led"}
              = OcBaseAsked(o)
         /\ ((CoreWindows \cup MainRam(o))) \cup w3 = BoardMapped(o)
         /\ ((0 + 0) + 0) + 0 = 0
    BY DEF OcBaseMade, OcBaseAsked, BoardMapped, m3, p3, w3
  <1>13. Free(OcCrgAsked, OrangecrabPads, {}, {})
    BY DEF Free, OcCrgAsked, OrangecrabPads
  <1>14. Free({"ddram"}, OrangecrabPads, OcCrgMade(o) \cup CfuCoreMade,
              OcCrgAsked \cup {"usb"})
    BY DEF Free, OcCrgAsked, OrangecrabPads
  <1>15. Free({"user_led"}, OrangecrabPads,
              (OcCrgMade(o) \cup CfuCoreMade) \cup m3,
                (OcCrgAsked \cup {"usb"}) \cup p3)
    BY DEF Free, OcCrgAsked, OrangecrabPads, p3, If
  <1>16. Does(OrangecrabBaseSoC(o), OcBaseMade(o),
            OcBaseAsked(o), BoardMapped(o), 0)
    BY <1>7, <1>10, <1>12
  <1>17. Runs(OrangecrabBaseSoC(o), OrangecrabPads, {}, {})
          <=> OcDramFits(o)
    BY <1>7, <1>11, <1>3, <1>4, <1>5, <1>6, <1>13, <1>14, <1>15 DEF OcDramFits
  <1> QED BY <1>16, <1>17

OrangecrabMade(o) ==
  (OcBaseMade(o) \cup If(o.with_spi_sdcard, {Attr("sdcard")}))
    \cup BuildMade(o)

OrangecrabAsked(o) == OcBaseAsked(o) \cup If(o.with_spi_sdcard, {"spisdcard"})

(* The options of the OrangeCrab that can be built. *)
OrangecrabFits(o) == OcDramFits(o) /\ LoadFits(o)

(* and the whole program. *)
LEMMA DoesOrangecrabMain ==
  ASSUME NEW o
  PROVE  /\ Does(OrangecrabMain(o),
                OrangecrabMade(o),
                OrangecrabAsked(o), BoardMapped(o), 0)
         /\ Runs(OrangecrabMain(o), OrangecrabPads, {}, {})
              <=> OrangecrabFits(o)
  <1> DEFINE m2 == If(o.with_spi_sdcard, {Attr("sdcard")})
             p2 == If(o.with_spi_sdcard, {"spisdcard"})
             s1 == OrangecrabBaseSoC(o)
             s2 == When(o.with_spi_sdcard,
                       << Requests({"spisdcard"}, {Attr("sdcard")}) >>)
             s3 == BuildAndLoad(o)
  <1>1. {Attr("sdcard")} \in SUBSET Things
    <2>1. "sdcard" \in Attributes
      BY DEF Attributes
    <2> QED BY <2>1, AttrIsThing
  <1>2. {"spisdcard"} \in SUBSET Pads
    BY DEF Pads, OrangecrabPads
  <1>3. /\ Does(s1, OcBaseMade(o), OcBaseAsked(o), BoardMapped(o), 0)
        /\ Runs(s1, OrangecrabPads, {}, {})
             <=> OcDramFits(o)
    BY DoesOrangecrabBaseSoC
  <1>4. /\ Does(s2, m2, p2, {}, 0)
        /\ Runs(s2, OrangecrabPads, OcBaseMade(o), OcBaseAsked(o))
             <=> (o.with_spi_sdcard
                  => Free({"spisdcard"}, OrangecrabPads, OcBaseMade(o),
                          OcBaseAsked(o)))
    <2> DEFINE r == << Requests({"spisdcard"}, {Attr("sdcard")}) >>
    <2>1. /\ Does(r, {Attr("sdcard")}, {"spisdcard"}, {}, 0)
          /\ Runs(r, OrangecrabPads, OcBaseMade(o), OcBaseAsked(o))
               <=> Free({"spisdcard"}, OrangecrabPads, OcBaseMade(o),
                        OcBaseAsked(o))
      BY <1>1, <1>2, DoesRequests
    <2>2. s2 = When(o.with_spi_sdcard, r)
      OBVIOUS
    <2> HIDE DEF r, s2
    <2> QED BY <2>1, <2>2, DoesIf, IfNothing
  <1>5. /\ Does(s3, BuildMade(o), {}, {}, 0)
        /\ Runs(s3, OrangecrabPads, OcBaseMade(o) \cup m2,
                OcBaseAsked(o) \cup p2)
             <=> LoadFits(o)
    <2>1. bitstream \notin OcBaseMade(o)
      BY DEF OcBaseMade, OcCrgMade, OcCrg, CfuCoreMade, CfuCpus, CfuCpuMade,
         bitstream, If, Attr
    <2>2. bitstream \notin (OcBaseMade(o) \cup m2)
      BY <2>1 DEF bitstream, If, Attr
    <2> HIDE DEF s3, m2
    <2>3. s3 = BuildAndLoad(o)
      BY DEF s3
    <2> QED BY <2>2, <2>3, DoesBuildAndLoad
  <1>6. OrangecrabMain(o) = (s1 \o s2) \o s3
    BY DEF OrangecrabMain
  <1> HIDE DEF s1, s2, s3, m2, p2
  <1>7. Does(s1 \o s2, OcBaseMade(o) \cup m2,
             OcBaseAsked(o) \cup p2, BoardMapped(o), 0 + 0)
    BY <1>3, <1>4, DoesConcat, NoMore
  <1>8. Does((s1 \o s2) \o s3, (OcBaseMade(o) \cup m2) \cup BuildMade(o),
             OcBaseAsked(o) \cup p2, BoardMapped(o), (0 + 0) + 0)
    BY <1>7, <1>5, DoesConcat, NoMore
  <1>9. Runs((s1 \o s2) \o s3, OrangecrabPads, {}, {})
        <=> /\ Runs(s1, OrangecrabPads, {}, {})
            /\ Runs(s2, OrangecrabPads, OcBaseMade(o), OcBaseAsked(o))
            /\ Runs(s3, OrangecrabPads, OcBaseMade(o) \cup m2,
                    OcBaseAsked(o) \cup p2)
    BY <1>3, <1>4, <1>5, <1>7, <1>8, RunsThen, NoMore
  <1>10. /\ (OcBaseMade(o) \cup m2) \cup BuildMade(o) = OrangecrabMade(o)
         /\ OcBaseAsked(o) \cup p2 = OrangecrabAsked(o)
         /\ (0 + 0) + 0 = 0
    BY DEF OrangecrabMade, OrangecrabAsked, m2, p2
  <1>11. Free({"spisdcard"}, OrangecrabPads, OcBaseMade(o), OcBaseAsked(o))
    BY DEF Free, OcBaseAsked, OcCrgAsked, OrangecrabPads, If
  <1>12. Does(OrangecrabMain(o), OrangecrabMade(o),
            OrangecrabAsked(o), BoardMapped(o), 0)
    BY <1>6, <1>8, <1>10
  <1>13. Runs(OrangecrabMain(o), OrangecrabPads, {}, {})
          <=> OrangecrabFits(o)
    BY <1>6, <1>9, <1>3, <1>4, <1>5, <1>11 DEF OrangecrabFits
  <1> QED BY <1>12, <1>13

-----------------------------------------------------------------------------
(* All the programs *)

(* The options of each program that can be built, as a condition on them.  *)
Buildable(t, o) ==
  CASE t = "hps" -> HpsFits(o)
    [] t = "sim" -> SimFits(o)
    [] t = "litex_sim" -> LitexSimFits(o)
    [] t = "arty" -> ArtyFits(o)
    [] t = "orangecrab" -> OrangecrabFits(o)

MappedBy(t, o) ==
  CASE t = "hps" -> HpsMapped(o)
    [] t = "sim" -> SimMapped(o)
    [] t = "litex_sim" -> SimSoCMapped(o)
    [] t = "arty" -> BoardMapped(o)
    [] t = "orangecrab" -> BoardMapped(o)

(* What any program maps, and when all its calls can be made. *)
LEMMA CallsOf ==
  ASSUME NEW t \in Targets, NEW o \in Options(t)
  PROVE  /\ Calls(t, o) \in Seq(CallType)
         /\ Mapped(Calls(t, o)) = MappedBy(t, o)
         /\ Runs(Calls(t, o), PadsOf(t), {}, {}) <=> Buildable(t, o)
  <1>1. CASE t = "hps"
    <2>1. /\ o \in HpsOptions /\ Calls(t, o) = HpsMain(o)
          /\ PadsOf(t) = HpsPads
          /\ Buildable(t, o) = HpsFits(o) /\ MappedBy(t, o) = HpsMapped(o)
      BY <1>1 DEF Options, Calls, PadsOf, Buildable, MappedBy
    <2> QED BY <2>1, DoesHpsMain DEF Does
  <1>2. CASE t = "sim"
    <2>1. /\ o \in SimOptions /\ Calls(t, o) = SimMain(o)
          /\ PadsOf(t) = SimPads
          /\ Buildable(t, o) = SimFits(o) /\ MappedBy(t, o) = SimMapped(o)
      BY <1>2 DEF Options, Calls, PadsOf, Buildable, MappedBy
    <2> QED BY <2>1, DoesSimMain DEF Does
  <1>3. CASE t = "litex_sim"
    <2>1. /\ o \in LitexSimOptions /\ Calls(t, o) = LitexSimMain(o)
          /\ PadsOf(t) = SimPads /\ Buildable(t, o) = LitexSimFits(o)
          /\ MappedBy(t, o) = SimSoCMapped(o)
      BY <1>3 DEF Options, Calls, PadsOf, Buildable, MappedBy
    <2> QED BY <2>1, DoesLitexSimMain DEF Does
  <1>4. CASE t = "arty"
    <2>1. /\ o \in ArtyOptions /\ Calls(t, o) = ArtyMain(o)
          /\ PadsOf(t) = ArtyPads /\ Buildable(t, o) = ArtyFits(o)
          /\ MappedBy(t, o) = BoardMapped(o)
      BY <1>4 DEF Options, Calls, PadsOf, Buildable, MappedBy
    <2> QED BY <2>1, DoesArtyMain DEF Does
  <1>5. CASE t = "orangecrab"
    <2>1. /\ o \in OrangecrabOptions /\ Calls(t, o) = OrangecrabMain(o)
          /\ PadsOf(t) = OrangecrabPads /\ Buildable(t, o) = OrangecrabFits(o)
          /\ MappedBy(t, o) = BoardMapped(o)
      BY <1>5 DEF Options, Calls, PadsOf, Buildable, MappedBy
    <2> QED BY <2>1, DoesOrangecrabMain DEF Does
  <1> QED BY <1>1, <1>2, <1>3, <1>4, <1>5 DEF Targets

(* The options that cannot be built are the ones with a call that cannot. *)
LEMMA BuildableOrNot ==
  ASSUME target \in Targets, opt \in Options(target)
  PROVE  Buildable(target, opt) <=> ~Unbuildable
  <1>1. CASE target = "hps"
    <2>1. opt.integrated_rom_init \in Nat /\ opt.bios \in Nat
      BY <1>1, HpsOptionTypes DEF Options
    <2>2. Buildable(target, opt) <=> HpsFits(opt)
      BY <1>1 DEF Buildable
    <2> QED BY <1>1, <2>1, <2>2 DEF HpsFits, MemoriesFit, RomFits, BiosToWrite,
                                    Unbuildable, RomWords
  <1>2. CASE target = "sim"
    <2>1. Buildable(target, opt) <=> SimFits(opt)
      BY <1>2 DEF Buildable
    <2> QED BY <1>2, <2>1 DEF SimFits, Unbuildable
  <1>3. CASE target = "litex_sim"
    <2>1. Buildable(target, opt) <=> LitexSimFits(opt)
      BY <1>3 DEF Buildable
    <2> QED BY <1>3, <2>1 DEF LitexSimFits, EthFits, Eth, Dram, Unbuildable
  <1>4. CASE target = "arty"
    <2>1. Buildable(target, opt) <=> ArtyFits(opt)
      BY <1>4 DEF Buildable
    <2> QED BY <1>4, <2>1 DEF ArtyFits, LoadFits, Unbuildable
  <1>5. CASE target = "orangecrab"
    <2>1. Buildable(target, opt) <=> OrangecrabFits(opt)
      BY <1>5 DEF Buildable
    <2>2. opt.sdram_device \in {"MT41K64M16", "unknown"}
      BY <1>5, OrangecrabOptionTypes DEF Options
    <2> QED BY <1>5, <2>1, <2>2
          DEF OrangecrabFits, OcDramFits, OnDram, OcKnown, LoadFits,
              Unbuildable
  <1> QED BY <1>1, <1>2, <1>3, <1>4, <1>5 DEF Targets

-----------------------------------------------------------------------------
(* The machine *)

(* What is left of a program when its first call has been made. *)
LEMMA FirstCall ==
  ASSUME NEW s \in Seq(CallType), s # <<>>, NEW known, NEW has, NEW used
  PROVE  /\ Head(s) \in CallType /\ Tail(s) \in Seq(CallType)
         /\ Made(s) = Head(s).makes \cup Made(Tail(s))
         /\ Mapped(s) = Head(s).maps \cup Mapped(Tail(s))
         /\ Runs(s, known, has, used)
              <=> /\ Fits(Head(s), known, has, used)
                  /\ Runs(Tail(s), known, has \cup Head(s).makes,
                          used \cup Head(s).pads)
         /\ \A n \in Int : Takes(s, n) => Takes(Tail(s), n - Head(s).blocks)
  <1> DEFINE c == Head(s)
             r == Tail(s)
  <1>1. c \in CallType /\ r \in Seq(CallType) /\ s = << c >> \o r
    BY HeadAndTail
  <1> HIDE DEF c, r
  <1>2. << c >> \in Seq(CallType) /\ DOMAIN << c >> = {1} /\ << c >>[1] = c
    BY <1>1
  <1>3. /\ c.makes \in SUBSET Things /\ c.pads \in SUBSET Pads
        /\ c.maps \in SUBSET Windows
    BY <1>1 DEF CallType
  <1>4. Made(<< c >>) = c.makes
    BY <1>2, <1>3 DEF Made
  <1>5. Asked(<< c >>) = c.pads
    BY <1>2, <1>3 DEF Asked
  <1>6. Mapped(<< c >>) = c.maps
    BY <1>2, <1>3 DEF Mapped
  <1>7. Runs(<< c >>, known, has, used) <=> Fits(c, known, has, used)
    <2>1. MadeBefore(<< c >>, 1) = {} /\ AskedBefore(<< c >>, 1) = {}
      BY DEF MadeBefore, AskedBefore
    <2>2. has \cup {} = has /\ used \cup {} = used
      OBVIOUS
    <2> QED BY <1>2, <2>1, <2>2 DEF Runs
  <1>8. Made(s) = c.makes \cup Made(r)
    BY <1>1, <1>2, <1>4, MadeConcat
  <1>9. Mapped(s) = c.maps \cup Mapped(r)
    BY <1>1, <1>2, <1>6, MappedConcat
  <1>10. Runs(s, known, has, used)
           <=> /\ Fits(c, known, has, used)
               /\ Runs(r, known, has \cup c.makes, used \cup c.pads)
    BY <1>1, <1>2, <1>4, <1>5, <1>7, RunsConcat
  <1>11. ASSUME NEW n \in Int, Takes(s, n) PROVE Takes(r, n - c.blocks)
    BY <1>1, <1>11, TakesTail
  <1> QED BY <1>1, <1>8, <1>9, <1>10, <1>11 DEF c, r

Statuses == {"building", "raised", "built"}

Socs == [status : Statuses, has : SUBSET Things, used : SUBSET Pads,
         windows : SUBSET Windows, blocks : Int]

BuildTypeOK ==
  /\ target \in Targets /\ opt \in Options(target)
  /\ todo \in Seq(CallType) /\ soc \in Socs

(* Nothing is lost and nothing is added: what has been made and what the   *)
(* rest of the calls will make is what the program makes.                  *)
NothingLost ==
  /\ soc.has \cup Made(todo) = Made(Calls(target, opt))
  /\ soc.windows \cup Mapped(todo) = Mapped(Calls(target, opt))
  /\ \A n \in Int : Takes(Calls(target, opt), n) => Takes(todo, n - soc.blocks)

(* The rest of the calls can be made if all of them could.                 *)
StillRuns ==
  IF soc.status = "raised"
    THEN ~Runs(Calls(target, opt), PadsOf(target), {}, {})
  ELSE Runs(todo, PadsOf(target), soc.has, soc.used)
         <=> Runs(Calls(target, opt), PadsOf(target), {}, {})

BuildInv ==
  /\ BuildTypeOK /\ NothingLost /\ StillRuns
  /\ soc.status = "built" => todo = <<>>

(* The invariant holds before the first call. *)
LEMMA BuildInit ==
  ASSUME Init
  PROVE  BuildInv
  <1>1. /\ target \in Targets /\ opt \in Options(target)
        /\ todo = Calls(target, opt)
        /\ soc
             = [status |-> "building", has |-> {}, used |-> {}, windows |-> {},
                  blocks |-> 0]
    BY DEF Init
  <1>2. /\ soc.status = "building" /\ soc.has = {} /\ soc.used = {}
        /\ soc.windows = {} /\ soc.blocks = 0 /\ soc \in Socs
    BY <1>1 DEF Socs, Statuses
  <1>3. todo \in Seq(CallType)
    BY <1>1, CallsOf
  <1>4. NothingLost
    <2>1. \A n \in Int : n - 0 = n
      OBVIOUS
    <2> QED BY <1>1, <1>2, <2>1 DEF NothingLost
  <1>5. StillRuns
    BY <1>1, <1>2 DEF StillRuns
  <1> QED BY <1>1, <1>2, <1>3, <1>4, <1>5 DEF BuildInv, BuildTypeOK

(* A call that is made keeps it, *)
LEMMA BuildMake ==
  ASSUME BuildInv, Make
  PROVE  BuildInv'
  <1> DEFINE c == Head(todo)
             all == Calls(target, opt)
             known == PadsOf(target)
  <1>1. /\ todo # <<>> /\ todo \in Seq(CallType) /\ soc \in Socs
        /\ soc.status = "building" /\ CanCall(c)
        /\ target \in Targets /\ opt \in Options(target)
    BY DEF BuildInv, BuildTypeOK, Make
  <1>2. /\ soc' = [soc EXCEPT !.has = @ \cup c.makes, !.used = @ \cup c.pads,
                              !.windows = @ \cup c.maps,
                              !.blocks = @ + c.blocks]
        /\ todo' = Tail(todo) /\ target' = target /\ opt' = opt
    BY DEF Make
  <1>3. /\ c \in CallType /\ todo' \in Seq(CallType)
        /\ Made(todo) = c.makes \cup Made(todo')
        /\ Mapped(todo) = c.maps \cup Mapped(todo')
        /\ Runs(todo, known, soc.has, soc.used)
             <=> /\ Fits(c, known, soc.has, soc.used)
                 /\ Runs(todo', known, soc.has \cup c.makes,
                         soc.used \cup c.pads)
        /\ \A n \in Int : Takes(todo, n) => Takes(todo', n - c.blocks)
    BY <1>1, <1>2, FirstCall
  <1>4. /\ c.makes \in SUBSET Things /\ c.pads \in SUBSET Pads
        /\ c.maps \in SUBSET Windows /\ c.blocks \in Nat
    BY <1>3 DEF CallType
  <1>5. Fits(c, known, soc.has, soc.used)
    BY <1>1 DEF CanCall, Fits
  <1>6. /\ soc.has \in SUBSET Things /\ soc.used \in SUBSET Pads
        /\ soc.windows \in SUBSET Windows /\ soc.blocks \in Int
    BY <1>1 DEF Socs
  <1> HIDE DEF c, all, known
  <1>7. /\ soc'.status = "building" /\ soc'.has = soc.has \cup c.makes
        /\ soc'.used = soc.used \cup c.pads
        /\ soc'.windows = soc.windows \cup c.maps
        /\ soc'.blocks = soc.blocks + c.blocks /\ soc' \in Socs
    <2> DEFINE h == soc.has \cup c.makes
               u == soc.used \cup c.pads
               w == soc.windows \cup c.maps
               b == soc.blocks + c.blocks
    <2>1. /\ h \in SUBSET Things /\ u \in SUBSET Pads /\ w \in SUBSET Windows
          /\ b \in Int
      BY <1>4, <1>6
    <2>2. soc'
            = [soc EXCEPT !.has = h, !.used = u, !.windows = w, !.blocks = b]
      BY <1>2
    <2> HIDE DEF h, u, w, b
    <2>3. /\ soc'.status = soc.status /\ soc'.has = h /\ soc'.used = u
          /\ soc'.windows = w /\ soc'.blocks = b /\ soc' \in Socs
      BY <1>1, <2>1, <2>2 DEF Socs
    <2> QED BY <1>1, <2>3 DEF h, u, w, b
  <1>8. all = Calls(target, opt) /\ all = Calls(target', opt')
        /\ known = PadsOf(target) /\ known = PadsOf(target')
    BY <1>2 DEF all, known
  <1>9. NothingLost'
    <2>1. /\ soc.has \cup Made(todo) = Made(all)
          /\ soc.windows \cup Mapped(todo) = Mapped(all)
          /\ \A n \in Int : Takes(all, n) => Takes(todo, n - soc.blocks)
      BY <1>8 DEF BuildInv, NothingLost
    <2>2. soc'.has \cup Made(todo') = Made(all)
      BY <1>3, <1>7, <2>1
    <2>3. soc'.windows \cup Mapped(todo') = Mapped(all)
      BY <1>3, <1>7, <2>1
    <2>4. ASSUME NEW n \in Int, Takes(all, n)
          PROVE Takes(todo', n - soc'.blocks)
      <3>1. Takes(todo, n - soc.blocks) /\ n - soc.blocks \in Int
        BY <1>6, <2>1, <2>4
      <3>2. Takes(todo', (n - soc.blocks) - c.blocks)
        BY <1>3, <3>1
      <3>3. (n - soc.blocks) - c.blocks = n - soc'.blocks
        BY <1>4, <1>6, <1>7
      <3> QED BY <3>2, <3>3
    <2> QED BY <1>8, <2>2, <2>3, <2>4 DEF NothingLost
  <1>10. StillRuns'
    <2>1. Runs(todo, known, soc.has, soc.used) <=> Runs(all, known, {}, {})
      BY <1>1, <1>8 DEF BuildInv, StillRuns
    <2>2. Runs(todo', known, soc'.has, soc'.used) <=> Runs(all, known, {}, {})
      BY <1>3, <1>5, <1>7, <2>1
    <2> QED BY <1>7, <1>8, <2>2 DEF StillRuns
  <1>11. BuildTypeOK'
    BY <1>1, <1>2, <1>3, <1>7 DEF BuildTypeOK
  <1> QED BY <1>7, <1>9, <1>10, <1>11 DEF BuildInv

(* (the outcome of a build is all that its end changes) *)
LEMMA BuildStatus ==
  ASSUME soc \in Socs, NEW s \in Statuses, soc' = [soc EXCEPT !.status = s]
  PROVE  /\ soc' \in Socs /\ soc'.status = s /\ soc'.has = soc.has
         /\ soc'.used = soc.used /\ soc'.windows = soc.windows
         /\ soc'.blocks = soc.blocks
  BY DEF Socs

(* so does one that raises, *)
LEMMA BuildRaise ==
  ASSUME BuildInv, Raise
  PROVE  BuildInv'
  <1>1. /\ todo # <<>> /\ todo \in Seq(CallType) /\ soc \in Socs
        /\ soc.status = "building" /\ ~CanCall(Head(todo))
        /\ soc' = [soc EXCEPT !.status = "raised"] /\ "raised" \in Statuses
        /\ target' = target /\ opt' = opt /\ todo' = todo
    BY DEF BuildInv, BuildTypeOK, Raise, Statuses
  <1>2. /\ soc' \in Socs /\ soc'.status = "raised" /\ soc'.has = soc.has
        /\ soc'.used = soc.used /\ soc'.windows = soc.windows
        /\ soc'.blocks = soc.blocks
    BY <1>1, BuildStatus
  <1>3. ~Fits(Head(todo), PadsOf(target), soc.has, soc.used)
    BY <1>1 DEF CanCall, Fits
  <1>4. ~Runs(todo, PadsOf(target), soc.has, soc.used)
    BY <1>1, <1>3, FirstCall
  <1>5. StillRuns'
    BY <1>1, <1>2, <1>4 DEF BuildInv, StillRuns
  <1>6. NothingLost'
    BY <1>1, <1>2 DEF BuildInv, NothingLost
  <1>7. BuildTypeOK'
    BY <1>1, <1>2 DEF BuildInv, BuildTypeOK
  <1> QED BY <1>2, <1>5, <1>6, <1>7 DEF BuildInv

(* and so does the end of the build. *)
LEMMA BuildFinish ==
  ASSUME BuildInv, Finish
  PROVE  BuildInv'
  <1>1. /\ todo = <<>> /\ soc \in Socs /\ soc.status = "building"
        /\ soc' = [soc EXCEPT !.status = "built"] /\ "built" \in Statuses
        /\ target' = target /\ opt' = opt /\ todo' = todo
    BY DEF BuildInv, BuildTypeOK, Finish, Statuses
  <1>2. /\ soc' \in Socs /\ soc'.status = "built" /\ soc'.has = soc.has
        /\ soc'.used = soc.used /\ soc'.windows = soc.windows
        /\ soc'.blocks = soc.blocks
    BY <1>1, BuildStatus
  <1>3. StillRuns'
    BY <1>1, <1>2 DEF BuildInv, StillRuns
  <1>4. NothingLost'
    BY <1>1, <1>2 DEF BuildInv, NothingLost
  <1>5. BuildTypeOK'
    BY <1>1, <1>2 DEF BuildInv, BuildTypeOK
  <1> QED BY <1>1, <1>2, <1>3, <1>4, <1>5 DEF BuildInv

(* It is an invariant. *)
LEMMA BuildInvariant == Spec => []BuildInv
  <1>1. Init => BuildInv
    BY BuildInit
  <1>2. ASSUME BuildInv, [Next]_socVars
        PROVE  BuildInv'
    <2>1. CASE Make BY <1>2, <2>1, BuildMake
    <2>2. CASE Raise BY <1>2, <2>2, BuildRaise
    <2>3. CASE Finish BY <1>2, <2>3, BuildFinish
    <2>4. CASE UNCHANGED socVars
      <3>1. target' = target /\ opt' = opt /\ todo' = todo /\ soc' = soc
        BY <2>4 DEF socVars
      <3> QED BY <1>2, <3>1 DEF BuildInv, BuildTypeOK, NothingLost, StillRuns
    <2> QED BY <1>2, <2>1, <2>2, <2>3, <2>4 DEF Next
  <1> QED BY <1>1, <1>2, PTL DEF Spec

-----------------------------------------------------------------------------
(* What is true of a build *)

(* A build that has ended has made all that the program makes. *)
LEMMA BuiltAll ==
  ASSUME BuildInv, Built
  PROVE  /\ soc.has = Made(Calls(target, opt))
         /\ soc.windows = MappedBy(target, opt)
         /\ Buildable(target, opt)
         /\ \A n \in Int : Takes(Calls(target, opt), n) => soc.blocks = n
  <1>1. /\ todo = <<>> /\ soc.status = "built" /\ target \in Targets
        /\ opt \in Options(target) /\ soc \in Socs
    BY DEF BuildInv, BuildTypeOK, Built
  <1>2. Made(todo) = {} /\ Mapped(todo) = {}
    BY <1>1 DEF Made, Mapped
  <1>3. Runs(todo, PadsOf(target), soc.has, soc.used)
    BY <1>1 DEF Runs
  <1>4. /\ soc.has = Made(Calls(target, opt))
        /\ soc.windows = Mapped(Calls(target, opt))
    BY <1>2 DEF BuildInv, NothingLost
  <1>5. Runs(Calls(target, opt), PadsOf(target), {}, {})
    BY <1>1, <1>3 DEF BuildInv, StillRuns
  <1>6. ASSUME NEW n \in Int, Takes(Calls(target, opt), n) PROVE soc.blocks = n
    <2>1. Takes(<<>>, n - soc.blocks)
      BY <1>1, <1>6 DEF BuildInv, NothingLost
    <2>2. n - soc.blocks = 0
      BY <2>1, TakesNothing
    <2> QED BY <1>1, <2>2 DEF Socs
  <1> QED BY <1>1, <1>4, <1>5, <1>6, CallsOf

(* An HPS that is built, *)
LEMMA BuiltHps ==
  ASSUME BuildInv, Built, target = "hps"
  PROVE  /\ opt \in HpsOptions /\ HpsFits(opt)
         /\ soc.has = HpsMade(opt) /\ soc.windows = HpsMapped(opt)
         /\ soc.blocks = HpsTotal(opt)
  <1>1. opt \in HpsOptions /\ Calls(target, opt) = HpsMain(opt)
    BY DEF BuildInv, BuildTypeOK, Options, Calls
  <1>2. /\ Buildable(target, opt) = HpsFits(opt)
        /\ MappedBy(target, opt) = HpsMapped(opt)
    BY DEF Buildable, MappedBy
  <1>3. /\ Made(HpsMain(opt)) = HpsMade(opt)
        /\ Takes(HpsMain(opt), HpsTotal(opt))
        /\ HpsTotal(opt) \in Int
    BY <1>1, DoesHpsMain DEF Does
  <1> QED BY <1>1, <1>2, <1>3, BuiltAll

(* A build raises exactly for the options that cannot be built: whatever   *)
(* the other options and however large the files, every attribute, file    *)
(* and pad that a call needs is there when the call is made, and no pad is  *)
(* asked for twice.                                                        *)
THEOREM RaisesOnlyForThose == Spec => []RaisesOnlyWhenUnbuildable
  <1>1. BuildInv => RaisesOnlyWhenUnbuildable
    <2> SUFFICES ASSUME BuildInv PROVE RaisesOnlyWhenUnbuildable
      OBVIOUS
    <2>1. target \in Targets /\ opt \in Options(target)
      BY DEF BuildInv, BuildTypeOK
    <2>2. ASSUME soc.status = "raised" PROVE Unbuildable
      BY <2>1, <2>2, CallsOf, BuildableOrNot DEF BuildInv, StillRuns
    <2>3. ASSUME Built PROVE ~Unbuildable
      BY <2>1, <2>3, BuiltAll, BuildableOrNot
    <2> QED BY <2>2, <2>3 DEF RaisesOnlyWhenUnbuildable
  <1> QED BY <1>1, BuildInvariant, PTL

(* hps_soc.py, the sizes of the memories: the HPS is built with all of its *)
(* LRAM and with no more than it has, with a block left free for the ROM   *)
(* if it needs one, unless a separate arena has taken that block, too.     *)
THEOREM SpendsAllLram == Spec => []LramSharedOut
  <1>1. BuildInv => LramSharedOut
    <2> SUFFICES ASSUME BuildInv, Built, target = "hps",
                        ~(opt.separate_arena /\ opt.execute_from_lram)
                 PROVE  soc.blocks = RAM_SIZE
      BY DEF LramSharedOut
    <2>1. soc.blocks = HpsTotal(opt)
      BY BuiltHps
    <2> QED BY <2>1
          DEF HpsTotal, HpsBlocks, HpsRam, ram_size, arena_size, RAM_SIZE,
              RomBlocks, rom_blocks
  <1> QED BY <1>1, BuildInvariant, PTL

(* The CPU of the HPS starts in memory that is there, in flash or in LRAM. *)
THEOREM StartsInMemory == Spec => []ResetIsMapped
  <1>1. BuildInv => ResetIsMapped
    <2> SUFFICES ASSUME BuildInv, Built, target = "hps"
                 PROVE  \E w \in soc.windows :
                          w.slave # "none" /\ reset_address(opt) \in Units(w)
      BY DEF ResetIsMapped
    <2>1. soc.windows = HpsMapped(opt)
      BY BuiltHps
    <2>2. CASE opt.execute_from_lram
      <3>1. "rom" \in Slaves /\ reset_address(opt) \in Nat /\ 1 \in Nat
        BY ResetAddress DEF Slaves
      <3>2. /\ rom_window(opt).slave = "rom" /\ rom_window(opt).size = 1
            /\ rom_window(opt).origin = reset_address(opt)
        BY <3>1, WindowIsWindow DEF rom_window
      <3>3. rom_window(opt) \in soc.windows
        BY <2>1, <2>2 DEF HpsMapped, HpsMemoriesMapped, RomMapped
      <3>4. reset_address(opt) \in Units(rom_window(opt))
        BY <3>1, <3>2 DEF Units
      <3> QED BY <3>2, <3>3, <3>4
    <2>3. CASE ~opt.execute_from_lram
      <3>1. spiflash_region \in soc.windows
        BY <2>1 DEF HpsMapped, HpsMemoriesMapped
      <3>2. reset_address(opt) = 8224
        BY <2>3, FlashRegion DEF reset_address, rom_offset
      <3>3. reset_address(opt) \in Units(spiflash_region)
        BY <3>2, FlashRegion DEF Units
      <3> QED BY <3>1, <3>3, FlashRegion
    <2> QED BY <2>2, <2>3
  <1> QED BY <1>1, BuildInvariant, PTL

(* Each side of the memories in use is driven by one clock enable, that of *)
(* the CPU or of the CFU, whichever uses it.                               *)
THEOREM SidesAreClocked == Spec => []MemoriesClocked
  <1>1. BuildInv => MemoriesClocked
    <2> SUFFICES ASSUME BuildInv, Built, target = "hps"
                 PROVE  MemoriesClocked
      BY DEF MemoriesClocked
    <2> DEFINE cpu == IF opt.dynamic_clock_control THEN "cpu_cen" ELSE "1"
               cfu == IF opt.dynamic_clock_control THEN "cfu_cen" ELSE "1"
               all == {"cpu_cen", "cfu_cen", "1"}
               sources(port) == {s \in all : <<port, s>> \in soc.has}
    <2>1. soc.has = HpsMade(opt) /\ HpsFits(opt)
      BY BuiltHps
    <2>2. ASSUME NEW port \in {"lram.a", "arena.a", "arena.b", "cfu"}, NEW s
          PROVE  <<port, s>> \in soc.has <=> <<port, s>> \in HpsClockMakes(opt)
      <3>1. /\ <<port, s>> \notin HpsCpuMade(opt)
            /\ <<port, s>> \notin {Attr("lram")}
            /\ <<port, s>> \notin ArenaMade(opt)
        BY DEF HpsCpuMade, CrgMakes, CpuMakes, ArenaMade, ArenaMakes, Attr
      <3>2. <<port, s>> \notin PortMade(opt) /\ <<port, s>> \notin FlashMakes
        BY DEF PortMade, PortMakes, FlashMakes, Attr
      <3>3. /\ <<port, s>> \notin RomMade(opt)
            /\ <<port, s>> \notin TimerMade(opt)
            /\ <<port, s>> \notin BiosMade(opt)
        BY DEF RomMade, RomInitMade, RomInitMakes, TimerMade, BiosMade, Attr
      <3> QED BY <2>1, <3>1, <3>2, <3>3
            DEF HpsMade, HpsMemoriesMade, HpsFirstMade
    <2>3. HpsClockMakes(opt)
            = (IF opt.dynamic_clock_control THEN DynamicMakes ELSE {})
              \cup ClockMakes(opt, cpu, cfu)
      BY DEF HpsClockMakes
    <2>4. cpu \in all /\ cfu \in all
      OBVIOUS
    <2>5. opt.cfu_mport => opt.separate_arena
      BY <2>1 DEF HpsFits, MemoriesFit
    <2>6. opt.dynamic_clock_control => cfu = "cfu_cen"
      OBVIOUS
    <2> HIDE DEF cpu, cfu
    <2>7. ASSUME NEW s \in all PROVE <<"lram.a", s>> \in soc.has <=> s = cpu
      BY <2>2, <2>3 DEF DynamicMakes, ClockMakes, ArenaClock, PortClock
    <2>8. ASSUME NEW s \in all, opt.separate_arena
          PROVE  <<"arena.a", s>> \in soc.has <=> s = cpu
      BY <2>2, <2>3, <2>8 DEF DynamicMakes, ClockMakes, ArenaClock, PortClock
    <2>9. ASSUME NEW s \in all, opt.cfu_mport
          PROVE  <<"arena.b", s>> \in soc.has <=> s = cfu
      BY <2>2, <2>3, <2>5, <2>9
         DEF DynamicMakes, ClockMakes, ArenaClock, PortClock
    <2>10. ASSUME NEW s \in all, opt.dynamic_clock_control
           PROVE  <<"cfu", s>> \in soc.has <=> s = cfu
      BY <2>2, <2>3, <2>6, <2>10
         DEF DynamicMakes, ClockMakes, ArenaClock, PortClock
    <2> HIDE DEF all
    <2>11. sources("lram.a") = {cpu}
      BY <2>4, <2>7
    <2>12. opt.separate_arena => sources("arena.a") = {cpu}
      BY <2>4, <2>8
    <2>13. opt.cfu_mport => sources("arena.b") = {cfu}
      BY <2>4, <2>9
    <2>14. opt.dynamic_clock_control => sources("cfu") = {cfu}
      BY <2>4, <2>10
    <2> QED BY <2>11, <2>12, <2>13, <2>14 DEF MemoriesClocked, cpu, cfu, all
  <1> QED BY <1>1, BuildInvariant, PTL

(* A SoC that sim.py has built, *)
LEMMA BuiltSim ==
  ASSUME BuildInv, Built, target = "sim"
  PROVE  /\ opt \in SimOptions /\ SimFits(opt)
         /\ soc.has = SimMade(opt) /\ soc.windows = SimMapped(opt)
  <1>1. opt \in SimOptions /\ Calls(target, opt) = SimMain(opt)
    BY DEF BuildInv, BuildTypeOK, Options, Calls
  <1>2. /\ Buildable(target, opt) = SimFits(opt)
        /\ MappedBy(target, opt) = SimMapped(opt)
    BY DEF Buildable, MappedBy
  <1>3. Made(SimMain(opt)) = SimMade(opt)
    BY <1>1, DoesSimMain DEF Does
  <1> QED BY <1>1, <1>2, <1>3, BuiltAll

(* and one that litex_sim.py has. *)
LEMMA BuiltLitexSim ==
  ASSUME BuildInv, Built, target = "litex_sim"
  PROVE  /\ opt \in LitexSimOptions /\ LitexSimFits(opt)
         /\ soc.has = LitexSimMade(opt) /\ soc.windows = SimSoCMapped(opt)
  <1>1. opt \in LitexSimOptions /\ Calls(target, opt) = LitexSimMain(opt)
    BY DEF BuildInv, BuildTypeOK, Options, Calls
  <1>2. /\ Buildable(target, opt) = LitexSimFits(opt)
        /\ MappedBy(target, opt) = SimSoCMapped(opt)
    BY DEF Buildable, MappedBy
  <1>3. Made(LitexSimMain(opt)) = LitexSimMade(opt)
    BY <1>1, DoesLitexSimMain DEF Does
  <1> QED BY <1>1, <1>2, <1>3, BuiltAll

(* Windows that are there, whatever the options. *)
LEMMA HpsWindows ==
  ASSUME NEW o
  PROVE  /\ csr_window.slave = "csr" /\ csr_window.origin = 61440
         /\ csr_window.size = 1
         /\ lram_window(o).slave = "lram" /\ lram_window(o).origin = 16384
         /\ lram_window(o).size = ram_size(o)
         /\ arena_window.slave = "arena" /\ arena_window.origin = 24576
         /\ arena_window.size = 4
         /\ Window("none", arena_origin, arena_size(o)).slave = "none"
         /\ Window("none", arena_origin, arena_size(o)).origin = 24576
         /\ rom_window(o).slave = "rom" /\ rom_window(o).size = 1
         /\ rom_window(o).origin = reset_address(o)
         /\ vexriscv_region.slave = "vexriscv_debug"
         /\ vexriscv_region.origin = 61455 /\ vexriscv_region.size = 1
  BY DEF csr_window, lram_window, arena_window, rom_window, vexriscv_region,
     Window, csr_origin, sram_origin, arena_origin

(* And those of the simulated SoCs. *)
LEMMA SimWindows ==
  /\ \A w \in CoreWindows :
       \/ w.slave = "rom" /\ w.origin = 0 /\ w.size = 2
       \/ w.slave = "csr" /\ w.origin = 61440 /\ w.size = 1
  /\ \A o : \A w \in IntegratedRam(o) :
       w.slave = "main_ram" /\ w.origin = 16384 /\ w.size = 512
  /\ sdram_window.slave = "main_ram" /\ sdram_window.origin = 16384
  /\ sdram_window.size = 2048
  /\ ethmac_window.slave = "ethmac" /\ ethmac_window.origin = 32768
  /\ ethmac_window.size = 1
  BY DEF CoreWindows, IntegratedRam, sdram_window, ethmac_window, main_ram,
     Window, main_ram_origin, integrated_main_ram_size

(* The program is compiled for a separate arena exactly when the SoC has   *)
(* one, and the CFU reads memory only where it is there.                   *)
THEOREM ArenaIsThere == Spec => []ArenaAsConfigured
  <1> DEFINE config == <<"config", "SOC_SEPARATE_ARENA">>
             ports == <<"cfu_ports", "4">>
             arena == {w \in soc.windows : w.origin = arena_origin}
             there == {w \in arena : w.slave = "arena" /\ w.size = 4}
  <1>1. arena_origin = 24576
    BY DEF arena_origin
  <1>2. ASSUME BuildInv, Built, target = "hps"
        PROVE  /\ arena # {} /\ (config \in soc.has <=> there # {})
               /\ ports \in soc.has => there # {}
    <2>1. /\ soc.has = HpsMade(opt) /\ HpsFits(opt)
          /\ soc.windows = HpsMapped(opt)
      BY <1>2, BuiltHps
    <2>2. config \in soc.has <=> opt.separate_arena
      BY <2>1 DEF HpsMade, HpsMemoriesMade, HpsFirstMade, HpsCpuMade, CrgMakes,
           CpuMakes, ArenaMade, ArenaMakes, HpsClockMakes, DynamicMakes,
           ClockMakes, ArenaClock, PortClock, PortMade, PortMakes, FlashMakes,
           RomMade, RomInitMade, RomInitMakes, TimerMade, BiosMade, Attr
    <2>3. ports \in soc.has <=> opt.cfu_mport
      BY <2>1 DEF HpsMade, HpsMemoriesMade, HpsFirstMade, HpsCpuMade, CrgMakes,
           CpuMakes, ArenaMade, ArenaMakes, HpsClockMakes, DynamicMakes,
           ClockMakes, ArenaClock, PortClock, PortMade, PortMakes, FlashMakes,
           RomMade, RomInitMade, RomInitMakes, TimerMade, BiosMade, Attr
    <2>4. opt.cfu_mport => opt.separate_arena
      BY <2>1 DEF HpsFits, MemoriesFit
    <2>5. Window("none", arena_origin, arena_size(opt)) \in arena
      BY <1>1, <2>1, HpsWindows
         DEF HpsMapped, HpsMemoriesMapped, HpsFirstMapped, ArenaMapped
    <2>6. ASSUME NEW w \in there PROVE opt.separate_arena
      BY <1>1, <2>1, <2>6, HpsWindows, FlashRegion, RomInFlash
         DEF HpsMapped, HpsMemoriesMapped, HpsFirstMapped, ArenaMapped,
             ArenaThere, RomMapped, DebugMapped
    <2>7. ASSUME opt.separate_arena PROVE arena_window \in there
      BY <1>1, <2>1, <2>7, HpsWindows DEF HpsMapped, HpsMemoriesMapped,
         HpsFirstMapped, ArenaMapped, ArenaThere
    <2> QED BY <2>2, <2>3, <2>4, <2>5, <2>6, <2>7
  <1>3. ASSUME BuildInv, Built, target = "sim"
        PROVE  /\ arena # {} /\ (config \in soc.has <=> there # {})
               /\ ports \in soc.has => there # {}
    <2>1. soc.has = SimMade(opt) /\ soc.windows = SimMapped(opt)
      BY <1>3, BuiltSim
    <2>2. /\ config \notin SimSoCMade(SimArgs(opt), opt.cpu_cfu)
          /\ ports \notin SimSoCMade(SimArgs(opt), opt.cpu_cfu)
      BY SimArgsAreOptions DEF SimSoCMade, SimCoreMade, CoreMade, SdramMade,
         SdramConsts, EthMade, DevicesMade, Dram, Eth, Device, If, Attr
    <2>3. config \notin SimEndMade /\ ports \notin SimEndMade
      BY DEF SimEndMade, ModuleMade, BootMade
    <2>4. config \in soc.has <=> SimSeparateArena(opt)
      BY <2>1, <2>2, <2>3 DEF SimMade, ContentsMade, SimArenaMade, PortMakes,
         RunMade, If, Attr
    <2>5. ports \in soc.has => opt.cfu_mport
      BY <2>1, <2>2, <2>3 DEF SimMade, ContentsMade, SimArenaMade, PortMakes,
         RunMade, If, Attr
    <2>6. opt.cfu_mport => SimSeparateArena(opt)
      BY DEF SimSeparateArena
    <2>7. CASE SimSeparateArena(opt)
      <3>1. sim_arena \in there
        BY <1>1, <2>1, <2>7, SimArenaWindows DEF SimMapped, SimArenaMapped
      <3> QED BY <2>4, <2>7, <3>1
    <2>8. CASE ~SimSeparateArena(opt)
      <3>1. Window("none", 24576, 0) \in arena
        BY <1>1, <2>1, <2>8, SimArenaWindows DEF SimMapped, SimArenaMapped
      <3>2. ASSUME NEW w \in there PROVE FALSE
        BY <1>1, <2>1, <2>8, <3>2, SimArenaWindows, SimWindows
           DEF SimMapped, SimArenaMapped, SimSoCMapped, SimCoreMapped,
               EthMapped, If
      <3> QED BY <2>4, <2>5, <2>6, <2>8, <3>1, <3>2
    <2> QED BY <2>7, <2>8
  <1>4. BuildInv => ArenaAsConfigured
    <2> SUFFICES ASSUME BuildInv, Built, target \in {"hps", "sim"}
                 PROVE  ArenaAsConfigured
      BY DEF ArenaAsConfigured
    <2>1. /\ arena # {} /\ (config \in soc.has <=> there # {})
          /\ ports \in soc.has => there # {}
      BY <1>2, <1>3
    <2> QED BY <2>1 DEF ArenaAsConfigured
  <1> QED BY <1>4, BuildInvariant, PTL


(* What decides whether the memory the BIOS boots from holds an image. *)
LEMMA SocContents ==
  ASSUME NEW o \in LitexSimOptions, NEW cpu_cfu
  PROVE  /\ <<"contents", "main_ram">> \in SimSoCMade(o, cpu_cfu)
              <=> Dram(o) /\ o.sdram_init # "none"
         /\ <<"const", "ROM_BOOT_ADDRESS">> \notin SimSoCMade(o, cpu_cfu)
         /\ <<"const", "SDRAM_TEST_DISABLE">> \in SimSoCMade(o, cpu_cfu)
              <=> Dram(o) /\ o.sdram_init # "none"
  <1> DEFINE things == {<<"contents", "main_ram">>,
                        <<"const", "ROM_BOOT_ADDRESS">>,
                        <<"const", "SDRAM_TEST_DISABLE">>}
  <1>1. ASSUME NEW x \in things
        PROVE  x \notin SimCoreMade(cpu_cfu) /\ x \notin EthMade(o)
               /\ x \notin DevicesMade(o)
    <2>1. \A n : x # Attr(n)
      BY DEF Attr
    <2>2. x # <<"CPUS", "VexRiscvCFURAM">>
      OBVIOUS
    <2> QED BY <2>1, <2>2 DEF SimCoreMade, CoreMade, EthMade, DevicesMade, If
  <1>2. ASSUME NEW preloaded \in BOOLEAN
        PROVE  /\ <<"contents", "main_ram">> \in SdramMade(preloaded)
                    <=> preloaded
               /\ <<"const", "ROM_BOOT_ADDRESS">> \notin SdramMade(preloaded)
               /\ <<"const", "SDRAM_TEST_DISABLE">> \in SdramMade(preloaded)
                    <=> preloaded
    BY DEF SdramMade, SdramConsts, Attr
  <1>3. ASSUME NEW x \in things
        PROVE  x \in SimSoCMade(o, cpu_cfu)
                 <=> Dram(o) /\ x \in SdramMade(o.sdram_init # "none")
    BY <1>1 DEF SimSoCMade, If
  <1> DEFINE preloaded == o.sdram_init # "none"
  <1>4. preloaded \in BOOLEAN
    OBVIOUS
  <1>5. ASSUME NEW x \in things
        PROVE  x \in SimSoCMade(o, cpu_cfu)
                 <=> Dram(o) /\ x \in SdramMade(preloaded)
    BY <1>3
  <1>6. preloaded <=> o.sdram_init # "none"
    OBVIOUS
  <1> HIDE DEF preloaded
  <1> QED BY <1>2, <1>4, <1>5, <1>6

(* The SDRAM is the only memory that is initialised, and tested. *)
LEMMA SocPhy ==
  ASSUME NEW o \in LitexSimOptions, NEW cpu_cfu
  PROVE  Attr("sdrphy") \in SimSoCMade(o, cpu_cfu) <=> Dram(o)
  <1>1. /\ Attr("sdrphy") \notin SimCoreMade(cpu_cfu)
        /\ Attr("sdrphy") \notin EthMade(o)
        /\ Attr("sdrphy") \notin DevicesMade(o)
    BY DEF SimCoreMade, CoreMade, EthMade, DevicesMade, If, Attr
  <1>2. Attr("sdrphy") \in SdramMade(o.sdram_init # "none")
    BY DEF SdramMade
  <1> QED BY <1>1, <1>2 DEF SimSoCMade, If

(* litex_sim.py and sim.py: the simulated BIOS boots from memory that      *)
(* holds an image, does not test such memory, and tests SDRAM that holds   *)
(* none, whatever the options of either program.                           *)
THEOREM BootsImages == Spec => []BootsAnImage
  <1> DEFINE contents == <<"contents", "main_ram">>
             boot == <<"const", "ROM_BOOT_ADDRESS">>
             skip == <<"const", "SDRAM_TEST_DISABLE">>
             phy == Attr("sdrphy")
  <1>1. ASSUME BuildInv, Built, target = "sim"
        PROVE  /\ contents \in soc.has <=> opt.run /\ opt.bin
               /\ boot \in soc.has /\ phy \notin soc.has
               /\ \E w \in soc.windows : w.slave = "main_ram"
    <2>1. /\ opt \in SimOptions /\ soc.has = SimMade(opt)
          /\ soc.windows = SimMapped(opt)
      BY <1>1, BuiltSim
    <2>2. /\ contents \notin SimSoCMade(SimArgs(opt), opt.cpu_cfu)
          /\ phy \notin SimSoCMade(SimArgs(opt), opt.cpu_cfu)
      BY SimArgsAreOptions, SocContents, SocPhy DEF Dram
    <2>3. /\ contents \notin SimArenaMade(opt) /\ phy \notin SimArenaMade(opt)
          /\ contents \notin PortMakes /\ phy \notin PortMakes
          /\ contents \notin RunMade /\ phy \notin RunMade
      BY DEF SimArenaMade, PortMakes, RunMade, Attr
    <2>4. /\ contents \notin SimEndMade /\ phy \notin SimEndMade
          /\ boot \in SimEndMade
      BY DEF SimEndMade, ModuleMade, BootMade, Attr
    <2>5. contents \in ContentsMade /\ phy \notin ContentsMade
      BY DEF ContentsMade, Attr
    <2>6. contents \in soc.has <=> opt.run /\ opt.bin
      BY <2>1, <2>2, <2>3, <2>4, <2>5 DEF SimMade, If, RunBin
    <2>7. boot \in soc.has /\ phy \notin soc.has
      BY <2>1, <2>2, <2>3, <2>4, <2>5 DEF SimMade, If
    <2>8. main_ram(integrated_main_ram_size) \in soc.windows
      <3>1. SimArgs(opt).main_ram
        BY SimArgsAreOptions
      <3>2. IntegratedRam(SimArgs(opt)) = {main_ram(integrated_main_ram_size)}
        BY <3>1 DEF IntegratedRam
      <3>3. IntegratedRam(SimArgs(opt)) \subseteq soc.windows
        BY <2>1 DEF SimMapped, SimSoCMapped, SimCoreMapped
      <3> QED BY <3>2, <3>3
    <2>9. main_ram(integrated_main_ram_size).slave = "main_ram"
      BY DEF main_ram, Window
    <2> QED BY <2>6, <2>7, <2>8, <2>9
  <1>2. ASSUME BuildInv, Built, target = "litex_sim"
        PROVE  /\ contents \in soc.has <=> SimImage(opt) # "none"
               /\ boot \in soc.has <=> SimImage(opt) # "none"
               /\ phy \in soc.has <=> Dram(opt)
               /\ Dram(opt)
                    => (skip \in soc.has <=> SimImage(opt) # "none")
               /\ SimImage(opt) # "none"
                    => \E w \in soc.windows : w.slave = "main_ram"
    <2>1. /\ opt \in LitexSimOptions /\ soc.has = LitexSimMade(opt)
          /\ soc.windows = SimSoCMapped(opt)
      BY <1>2, BuiltLitexSim
    <2>2. ASSUME NEW x \in {contents, boot, skip}, NEW pads
          PROVE  x \notin ModuleMade(pads) /\ x \notin IpMade
      BY DEF ModuleMade, IpMade
    <2>3. ASSUME NEW x \in {contents, boot, skip}
          PROVE  x \in soc.has
                   <=> \/ RamLoaded(opt) /\ x \in ContentsMade
                       \/ x \in SimSoCMade(opt, FALSE)
                       \/ Boots(opt) /\ x \in BootMade
      BY <2>1, <2>2 DEF LitexSimMade, LitexSoCMade, If
    <2>4. FALSE \in BOOLEAN
      OBVIOUS
    <2>5. /\ contents \in LitexSoCMade(opt)
               <=> Dram(opt) /\ opt.sdram_init # "none"
          /\ boot \notin LitexSoCMade(opt)
          /\ skip \in LitexSoCMade(opt)
               <=> Dram(opt) /\ opt.sdram_init # "none"
      BY <2>1, SocContents DEF LitexSoCMade
    <2>6. /\ contents \in ContentsMade /\ contents \notin BootMade
          /\ boot \notin ContentsMade /\ boot \in BootMade
          /\ skip \notin ContentsMade /\ skip \notin BootMade
      BY DEF ContentsMade, BootMade
    <2>7. /\ contents \in soc.has
               <=> RamLoaded(opt) \/ (Dram(opt) /\ opt.sdram_init # "none")
          /\ boot \in soc.has <=> Boots(opt)
          /\ skip \in soc.has <=> Dram(opt) /\ opt.sdram_init # "none"
      BY <2>3, <2>5, <2>6 DEF LitexSoCMade
    <2>8. SimImage(opt) # "none"
            <=> RamLoaded(opt) \/ (Dram(opt) /\ opt.sdram_init # "none")
      BY DEF SimImage, RamLoaded, Dram
    <2>9. ASSUME SimImage(opt) # "none"
          PROVE  \E w \in soc.windows : w.slave = "main_ram"
      <3>1. CASE opt.main_ram
        <4>1. main_ram(integrated_main_ram_size) \in soc.windows
          BY <2>1, <3>1 DEF SimSoCMapped, SimCoreMapped, IntegratedRam
        <4> QED BY <4>1 DEF main_ram, Window
      <3>2. CASE Dram(opt)
        <4>1. sdram_window \in soc.windows
          BY <2>1, <3>2 DEF SimSoCMapped, If
        <4> QED BY <4>1, SimWindows
      <3> QED BY <2>8, <2>9, <3>1, <3>2 DEF RamLoaded
    <2>10. phy \in soc.has <=> Dram(opt)
      <3>1. phy \in LitexSoCMade(opt) <=> Dram(opt)
        BY <2>1, SocPhy DEF LitexSoCMade
      <3>2. /\ \A pads : phy \notin ModuleMade(pads)
            /\ phy \notin IpMade /\ phy \notin ContentsMade
            /\ phy \notin BootMade
        BY DEF ModuleMade, IpMade, ContentsMade, BootMade, Attr
      <3> QED BY <2>1, <3>1, <3>2 DEF LitexSimMade, If
    <2>11. Dram(opt) => (SimImage(opt) # "none" <=> opt.sdram_init # "none")
      BY DEF SimImage, Dram
    <2> HIDE DEF phy, skip
    <2> QED BY <2>7, <2>8, <2>9, <2>10, <2>11 DEF Boots
  <1>3. BuildInv => BootsAnImage
    <2> SUFFICES ASSUME BuildInv, Built, target \in {"sim", "litex_sim"}
                 PROVE  BootsAnImage
      BY DEF BootsAnImage
    <2>1. CASE target = "sim"
      BY <1>1, <2>1 DEF BootsAnImage, MemoryIsTested
    <2>2. CASE target = "litex_sim"
      BY <1>2, <2>2 DEF BootsAnImage, MemoryIsTested
    <2> QED BY <2>1, <2>2
  <1> QED BY <1>3, BuildInvariant, PTL

(* Where the memories are.  Two regions of the map are shared: the LRAM of *)
(* the HPS is where the other programs have their main memory.             *)
InRegion(w) ==
  /\ w.size \in Nat
  /\ \/ w.slave = "none"
     \/ w.slave = "csr" /\ w.origin = 61440 /\ w.size = 1
     \/ w.slave = "vexriscv_debug" /\ w.origin = 61455 /\ w.size = 1
     \/ w.slave = "lram" /\ w.origin = 16384 /\ w.size <= 5
     \/ w.slave = "arena" /\ w.origin = 24576 /\ w.size = 4
     \/ w.slave = "spiflash" /\ w.origin = 8192 /\ w.size = 256
     \/ w.slave = "rom" /\ w.origin = 0 /\ w.size <= 2
     \/ w.slave = "main_ram" /\ w.origin = 16384 /\ w.size <= 4096
     \/ w.slave = "ethmac" /\ w.origin = 32768 /\ w.size = 1

(* Different regions do not overlap but for those two. *)
LEMMA RegionsDisjoint ==
  ASSUME NEW v, NEW w, InRegion(v), InRegion(w), v.slave # w.slave,
         v.slave # "none", w.slave # "none",
         v.slave # "lram" \/ w.slave # "main_ram",
         v.slave # "main_ram" \/ w.slave # "lram"
  PROVE  Units(v) \cap Units(w) = {}
  <1>1. /\ v.size \in Nat /\ w.size \in Nat /\ v.origin \in Nat
        /\ w.origin \in Nat
    BY DEF InRegion
  <1>2. v.origin + v.size <= w.origin \/ w.origin + w.size <= v.origin
    <2>1. CASE v.slave \in {"rom", "spiflash", "lram", "main_ram"}
      BY <1>1, <2>1 DEF InRegion
    <2>2. CASE v.slave \notin {"rom", "spiflash", "lram", "main_ram"}
      BY <1>1, <2>2 DEF InRegion
    <2> QED BY <2>1, <2>2
  <1> QED BY <1>1, <1>2 DEF Units

(* Of the windows of a program that something answers, each is in its      *)
(* region, no two have the same slave, and it has LRAM or main memory.     *)
Apart(windows) ==
  /\ \A w \in windows : InRegion(w)
  /\ \A v, w \in windows : v.slave = w.slave /\ v.slave # "none" => v = w
  /\ \A v, w \in windows : ~(v.slave = "lram" /\ w.slave = "main_ram")

(* So windows that are apart share no address. *)
LEMMA ApartDisjoint ==
  ASSUME NEW windows, Apart(windows), NEW v \in windows, NEW w \in windows,
         v # w, v.slave # "none", w.slave # "none"
  PROVE  Units(v) \cap Units(w) = {}
  <1>1. InRegion(v) /\ InRegion(w) /\ v.slave # w.slave
    BY DEF Apart
  <1>2. /\ v.slave # "lram" \/ w.slave # "main_ram"
        /\ v.slave # "main_ram" \/ w.slave # "lram"
    BY DEF Apart
  <1> QED BY <1>1, <1>2, RegionsDisjoint

(* The windows of the HPS are apart, *)
LEMMA HpsApart ==
  ASSUME NEW o \in HpsOptions
  PROVE  Apart(HpsMapped(o))
  <1>1. ram_size(o) \in 1 .. 5 /\ arena_size(o) \in Nat
    BY RamSize DEF arena_size, RAM_SIZE
  <1>2. ASSUME NEW w \in HpsMapped(o), w.slave # "none"
        PROVE  \/ w = csr_window
               \/ w = lram_window(o)
               \/ w = arena_window
               \/ w = spiflash_region
               \/ w = rom_window(o) /\ o.execute_from_lram
               \/ w = vexriscv_region
    BY <1>2, HpsWindows, RomInFlash
       DEF HpsMapped, HpsMemoriesMapped, HpsFirstMapped, ArenaMapped,
           ArenaThere, RomMapped, DebugMapped
  <1>3. ASSUME o.execute_from_lram PROVE rom_window(o).origin = 0
    <2>1. rom_window(o).origin = reset_address(o)
      BY HpsWindows
    <2>2. reset_address(o) = 0
      BY <1>3, ResetAddress
    <2> QED BY <2>1, <2>2
  <1>4. ASSUME NEW w \in HpsMapped(o)
        PROVE  InRegion(w)
    <2>1. w \in Windows
      <3>1. HpsMapped(o) = Mapped(HpsMain(o))
        BY DoesHpsMain DEF Does
      <3> QED BY <1>4, <3>1 DEF Mapped
    <2>2. w.size \in Nat
      BY <2>1 DEF Windows
    <2>3. CASE w.slave = "none"
      BY <2>2, <2>3 DEF InRegion
    <2>4. CASE w.slave # "none"
      <3>1. \/ w = csr_window
            \/ w = lram_window(o)
            \/ w = arena_window
            \/ w = spiflash_region
            \/ w = rom_window(o) /\ o.execute_from_lram
            \/ w = vexriscv_region
        BY <1>2, <2>4
      <3> QED BY <1>1, <1>3, <2>2, <3>1, HpsWindows, FlashRegion DEF InRegion
    <2> QED BY <2>3, <2>4
  <1>5. ASSUME NEW v \in HpsMapped(o), NEW w \in HpsMapped(o),
               v.slave = w.slave,
               v.slave # "none"
        PROVE  v = w
    BY <1>2, <1>5, HpsWindows, FlashRegion
  <1>6. ASSUME NEW w \in HpsMapped(o) PROVE w.slave # "main_ram"
    BY <1>2, HpsWindows, FlashRegion
  <1> QED BY <1>4, <1>5, <1>6 DEF Apart

(* so are those of SimSoC, *)
LEMMA SimSoCApart ==
  ASSUME NEW o \in LitexSimOptions
  PROVE  /\ Apart(SimSoCMapped(o))
         /\ \A w \in SimSoCMapped(o) :
              w.slave \in {"rom", "csr", "main_ram", "ethmac"}
  <1>1. ASSUME NEW w \in SimSoCMapped(o)
        PROVE  \/ w \in CoreWindows
               \/ o.main_ram /\ w = main_ram(integrated_main_ram_size)
               \/ ~o.main_ram /\ w = sdram_window
               \/ w = ethmac_window
    BY <1>1 DEF SimSoCMapped, SimCoreMapped, IntegratedRam, EthMapped, If, Dram
  <1>2. /\ main_ram(integrated_main_ram_size).slave = "main_ram"
        /\ main_ram(integrated_main_ram_size).origin = 16384
        /\ main_ram(integrated_main_ram_size).size = 512
    BY DEF main_ram, Window, main_ram_origin, integrated_main_ram_size
  <1>3. ASSUME NEW w \in SimSoCMapped(o)
        PROVE  /\ InRegion(w)
               /\ w.slave \in {"rom", "csr", "main_ram", "ethmac"}
    <2>1. \/ w.slave = "rom" /\ w.origin = 0 /\ w.size = 2
          \/ w.slave = "csr" /\ w.origin = 61440 /\ w.size = 1
          \/ w.slave = "main_ram" /\ w.origin = 16384 /\ w.size \in {512, 2048}
          \/ w.slave = "ethmac" /\ w.origin = 32768 /\ w.size = 1
      BY <1>1, <1>2, SimWindows
    <2> QED BY <2>1 DEF InRegion
  <1>4. ASSUME NEW v \in CoreWindows, NEW w \in CoreWindows, v.slave = w.slave
        PROVE  v = w
    BY <1>4 DEF CoreWindows, Window
  <1>5. ASSUME NEW v \in SimSoCMapped(o), NEW w \in SimSoCMapped(o),
               v.slave = w.slave
        PROVE  v = w
    BY <1>1, <1>2, <1>4, <1>5, SimWindows
  <1> QED BY <1>3, <1>5 DEF Apart

(* those of sim.py with its arena, *)
LEMMA SimApart ==
  ASSUME NEW o
  PROVE  Apart(SimMapped(o))
  <1>1. SimArgs(o) \in LitexSimOptions
    BY SimArgsAreOptions
  <1> DEFINE soc_windows == SimSoCMapped(SimArgs(o))
  <1>2. /\ Apart(soc_windows)
        /\ \A w \in soc_windows : w.slave \in {"rom", "csr", "main_ram",
                                               "ethmac"}
    BY <1>1, SimSoCApart
  <1>3. ASSUME NEW w \in SimMapped(o), w \notin soc_windows
        PROVE  w = sim_arena \/ w = Window("none", 24576, 0)
    BY <1>3 DEF SimMapped, SimArenaMapped
  <1>4. InRegion(sim_arena) /\ InRegion(Window("none", 24576, 0))
    BY SimArenaWindows DEF InRegion
  <1> HIDE DEF soc_windows
  <1>5. \A w \in SimMapped(o) : InRegion(w)
    BY <1>2, <1>3, <1>4 DEF Apart
  <1>6. ASSUME NEW v \in SimMapped(o), NEW w \in SimMapped(o),
               v.slave = w.slave,
               v.slave # "none"
        PROVE  v = w
    BY <1>2, <1>3, <1>6, SimArenaWindows DEF Apart
  <1>7. ASSUME NEW w \in SimMapped(o) PROVE w.slave # "lram"
    BY <1>2, <1>3, SimArenaWindows
  <1> QED BY <1>5, <1>6, <1>7 DEF Apart

(* and those of the boards. *)
LEMMA BoardApart ==
  ASSUME NEW o
  PROVE  Apart(BoardMapped(o))
  <1> DEFINE ram == Window("main_ram", 16384, 1)
  <1>1. ASSUME NEW w \in BoardMapped(o)
        PROVE  \/ w \in CoreWindows
               \/ o.main_ram /\ w = ram
               \/ ~o.main_ram /\ w = DramWindow
    BY <1>1 DEF BoardMapped, MainRam, If, OnDram
  <1>2. ASSUME NEW w \in BoardMapped(o)
        PROVE  InRegion(w) /\ w.slave \in {"rom", "csr", "main_ram"}
    <2>1. \/ w.slave = "rom" /\ w.origin = 0 /\ w.size = 2
          \/ w.slave = "csr" /\ w.origin = 61440 /\ w.size = 1
          \/ w.slave = "main_ram" /\ w.origin = 16384 /\ w.size \in {1, 4096}
      BY <1>1, BoardRam, SimWindows
    <2> QED BY <2>1 DEF InRegion
  <1>3. ASSUME NEW v \in CoreWindows, NEW w \in CoreWindows, v.slave = w.slave
        PROVE  v = w
    BY <1>3 DEF CoreWindows, Window
  <1> HIDE DEF ram
  <1>4. ASSUME NEW v \in BoardMapped(o), NEW w \in BoardMapped(o),
               v.slave = w.slave
        PROVE  v = w
    <2>1. ram.slave = "main_ram" /\ DramWindow.slave = "main_ram"
      BY BoardRam DEF ram
    <2> QED BY <1>1, <1>3, <1>4, <2>1, SimWindows
  <1> QED BY <1>2, <1>4 DEF Apart

(* Two memories never answer the same address, at any moment of a build.   *)
THEOREM NoSharedAddress == Spec => []WindowsDisjoint
  <1>1. BuildInv => WindowsDisjoint
    <2> SUFFICES ASSUME BuildInv, NEW v \in soc.windows, NEW w \in soc.windows,
                        v # w, v.slave # "none", w.slave # "none"
                 PROVE  Units(v) \cap Units(w) = {}
      BY DEF WindowsDisjoint
    <2>1. target \in Targets /\ opt \in Options(target)
      BY DEF BuildInv, BuildTypeOK
    <2>2. soc.windows \subseteq MappedBy(target, opt)
      BY <2>1, CallsOf DEF BuildInv, NothingLost
    <2>3. Apart(MappedBy(target, opt))
      <3>1. CASE target = "hps"
        <4>1. opt \in HpsOptions /\ MappedBy(target, opt) = HpsMapped(opt)
          BY <2>1, <3>1 DEF Options, MappedBy
        <4> QED BY <4>1, HpsApart
      <3>2. CASE target = "sim"
        <4>1. MappedBy(target, opt) = SimMapped(opt)
          BY <3>2 DEF MappedBy
        <4> QED BY <4>1, SimApart
      <3>3. CASE target = "litex_sim"
        <4>1. /\ opt \in LitexSimOptions
              /\ MappedBy(target, opt) = SimSoCMapped(opt)
          BY <2>1, <3>3 DEF Options, MappedBy
        <4> QED BY <4>1, SimSoCApart
      <3>4. CASE target \in {"arty", "orangecrab"}
        <4>1. MappedBy(target, opt) = BoardMapped(opt)
          BY <3>4 DEF MappedBy
        <4> QED BY <4>1, BoardApart
      <3> QED BY <2>1, <3>1, <3>2, <3>3, <3>4 DEF Targets
    <2>4. v \in MappedBy(target, opt) /\ w \in MappedBy(target, opt)
      BY <2>2
    <2> QED BY <2>3, <2>4, ApartDisjoint
  <1> QED BY <1>1, BuildInvariant, PTL
=============================================================================
