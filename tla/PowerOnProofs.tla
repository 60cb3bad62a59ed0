---------------------------- MODULE PowerOnProofs -----------------------------
(***************************************************************************)
(* Proofs about PowerOn for every length of the power-on delay and of the  *)
(* time the button has to be held.                                         *)
(***************************************************************************)
EXTENDS PowerOn, TLAPS

Signals == [valid : BOOLEAN, ready : BOOLEAN, rsp : BOOLEAN]

(* The edge for given signals of the CPU and the CFU. *)
EdgeWith(cmd) ==
  /\ ~bootloader
  /\ UNCHANGED board
  /\ pressed' \in BOOLEAN
  /\ rst' \in {rst, TRUE, FALSE}
  /\ Por
  /\ Timer
  /\ locked' \in IF board = "hps" THEN {FALSE} ELSE Locks(locked, pll_reset)
  /\ ddr' \in [stop : BOOLEAN, reset : BOOLEAN] \cup {ddr}
  /\ Synchronizer(cmd)
  /\ IF InReset THEN enabled' = "CPU_ENABLED"
     ELSE ClockEdge(cmd.valid, cmd.ready, cmd.rsp)
  /\ held' = IF pressed THEN (IF held < HoldCycles THEN held + 1 ELSE held)
             ELSE 0
  /\ cleared' = IF InReset THEN cleared \/ SysEdge(cmd)
                ELSE cleared /\ ~Cause'

(* What the proofs use of an edge. *)
LEMMA EdgeFacts == ASSUME Edge PROVE \E cmd \in Signals : EdgeWith(cmd)
  BY DEF Edge, EdgeWith, Signals

(* Both delays are positive. *)
LEMMA Delays == PorCycles \in Nat \ {0} /\ HoldCycles \in Nat \ {0}
  BY PowerOnAssumption

(* The state after configuration is well typed. *)
LEMMA InitialTypes == Init => TypeOK
<1> SUFFICES ASSUME Init
             PROVE  TypeOK
  OBVIOUS
<1>1. /\ por_count \in 0 .. PorCycles
      /\ timer \in 0 .. HoldCycles
      /\ sync \in 0 .. 2
      /\ held \in 0 .. HoldCycles
  BY Delays DEF Init
<1>2. /\ board \in Boards
      /\ {pressed, rst, locked, cleared} \subseteq BOOLEAN
      /\ ddr \in [stop : BOOLEAN, reset : BOOLEAN]
      /\ ClockTypeOK
  BY DEF Init, ClockInit, ClockTypeOK
<1> QED
  BY <1>1, <1>2 DEF TypeOK

-----------------------------------------------------------------------------
(* Counters and registers keep their types: the counters stop at zero.     *)
THEOREM TypeCorrect == Spec => []TypeOK
<1>1. Init => TypeOK
  BY InitialTypes
<1>2. TypeOK /\ [Next]_powerVars => TypeOK'
  <2> SUFFICES ASSUME TypeOK, [Next]_powerVars
               PROVE  TypeOK'
    OBVIOUS
  <2> USE PowerOnAssumption
  <2>1. CASE Edge
    <3>1. PICK cmd \in Signals : EdgeWith(cmd)
      BY <2>1, EdgeFacts
    <3>2. por_count' \in 0 .. PorCycles
      BY <3>1 DEF EdgeWith, Por, por_done, TypeOK
    <3>3. timer' \in 0 .. HoldCycles
      BY <3>1 DEF EdgeWith, Timer, TypeOK
    <3>4. held' \in 0 .. HoldCycles
      BY <3>1 DEF EdgeWith, TypeOK
    <3>5. sync' \in 0 .. 2
      BY <3>1 DEF EdgeWith, Synchronizer, TypeOK
    <3>6. locked' \in BOOLEAN
      BY <3>1 DEF EdgeWith, Locks, TypeOK
    <3>7. cleared' \in BOOLEAN
      BY <3>1 DEF EdgeWith, TypeOK
    <3>8. ClockTypeOK'
      BY <3>1 DEF EdgeWith, ClockEdge, ClockTypeOK, TypeOK
    <3>9. /\ pressed' \in BOOLEAN /\ rst' \in BOOLEAN /\ board' \in Boards
          /\ ddr' \in [stop : BOOLEAN, reset : BOOLEAN]
      BY <3>1 DEF EdgeWith, TypeOK
    <3> QED
      BY <3>2, <3>3, <3>4, <3>5, <3>6, <3>7, <3>8, <3>9 DEF TypeOK
  <2>2. CASE Reload
    <3>1. /\ por_count' \in 0 .. PorCycles
          /\ timer' \in 0 .. HoldCycles
          /\ sync' \in 0 .. 2
          /\ held' \in 0 .. HoldCycles
      BY <2>2, Delays DEF Reload
    <3>2. /\ board' \in Boards
          /\ {pressed', rst', locked', cleared'} \subseteq BOOLEAN
          /\ ddr' \in [stop : BOOLEAN, reset : BOOLEAN]
          /\ ClockTypeOK'
      BY <2>2 DEF Reload, TypeOK, ClockTypeOK
    <3> QED
      BY <3>1, <3>2 DEF TypeOK
  <2>3. CASE UNCHANGED powerVars
    BY <2>3 DEF powerVars, TypeOK, ClockTypeOK
  <2> QED
    BY <2>1, <2>2, <2>3 DEF Next
<1> QED
  BY <1>1, <1>2, PTL DEF Spec

-----------------------------------------------------------------------------
(* The timer and the time the button has been down add up. *)
TimerInv == timer + held = HoldCycles

(* The PLL locks only after the power-on delay. *)
LockInv == locked => por_done

(* Whoever has let go of the first stage of the synchronizer has had an    *)
(* edge in this reset.                                                     *)
ClearedInv == ~Cause /\ sync < 2 => cleared

(* The reset of the SoC resets the clock controller of the HPS. *)
GateInv == board = "hps" /\ InReset => enabled = "CPU_ENABLED"

PowerInv == TypeOK /\ TimerInv /\ LockInv /\ ClearedInv /\ GateInv

(* What an edge may make of the reset is decided from the signals before   *)
(* it: the conjuncts of the invariant hold again after it.                 *)
LEMMA InductiveEdge ==
  ASSUME PowerInv, Edge, TypeOK'
  PROVE  PowerInv'
<1> USE PowerOnAssumption
<1>1. PICK cmd \in Signals : EdgeWith(cmd)
  BY EdgeFacts
<1>2. TimerInv'
  BY <1>1 DEF EdgeWith, Timer, PowerInv, TimerInv, TypeOK
<1>3. por_done => por_done'
  BY <1>1 DEF EdgeWith, Por, por_done
<1>4. LockInv'
  BY <1>1, <1>3
  DEF EdgeWith, Locks, pll_reset, PowerInv, LockInv, TypeOK
<1>5. board = "hps" /\ InReset => SysEdge(cmd)
  BY DEF SysEdge, cpu_cen, Calculating, PowerInv, GateInv
<1>6. ClearedInv'
  <2> SUFFICES ASSUME ~Cause', sync' < 2
               PROVE  cleared'
    BY DEF ClearedInv
  <2>1. ~Cause
    BY <1>1 DEF EdgeWith, Synchronizer
  <2>2. CASE sync = 2
    <3>1. InReset
      BY <2>2 DEF InReset
    <3>2. SysEdge(cmd)
      BY <1>1, <1>5, <2>1, <2>2, <3>1 DEF EdgeWith, Synchronizer
    <3> QED
      BY <1>1, <3>1, <3>2 DEF EdgeWith
  <2>3. CASE sync < 2
    BY <1>1, <2>1, <2>3 DEF EdgeWith, PowerInv, ClearedInv, TypeOK
  <2> QED
    BY <2>2, <2>3 DEF PowerInv, TypeOK
<1>7. GateInv'
  <2> SUFFICES ASSUME board' = "hps", InReset'
               PROVE  enabled' = "CPU_ENABLED"
    BY DEF GateInv
  <2>1. board = "hps"
    BY <1>1 DEF EdgeWith
  <2>2. CASE InReset
    BY <1>1, <2>2 DEF EdgeWith
  <2>3. CASE ~InReset
    <3>1. ~Cause /\ sync = 0
      BY <2>3 DEF InReset, PowerInv, TypeOK
    <3>2. por_done' /\ sync' = 0
      BY <1>1, <1>3, <2>1, <3>1 DEF EdgeWith, Synchronizer, Cause
    <3> QED
      BY <1>1, <2>1, <3>2 DEF InReset, Cause, EdgeWith
  <2> QED
    BY <2>2, <2>3
<1> QED
  BY <1>2, <1>4, <1>6, <1>7 DEF PowerInv

(* The invariant of the reset is inductive: registers of the SoC, the      *)
(* timer and the PLLs, over power-on, presses, resets and the bootloader.  *)
THEOREM InductiveInvariant == Spec => []PowerInv
<1>1. Init => PowerInv
  <2> SUFFICES ASSUME Init
               PROVE  PowerInv
    OBVIOUS
  <2>1. TypeOK
    BY InitialTypes
  <2> QED
    BY <2>1, PowerOnAssumption
    DEF Init, PowerInv, TimerInv, LockInv, ClearedInv, GateInv, ClockInit
<1>2. PowerInv /\ TypeOK' /\ [Next]_powerVars => PowerInv'
  <2> SUFFICES ASSUME PowerInv, TypeOK', [Next]_powerVars
               PROVE  PowerInv'
    OBVIOUS
  <2>1. CASE Edge
    BY <2>1, InductiveEdge
  <2>2. CASE Reload
    BY <2>2, PowerOnAssumption
    DEF Reload, PowerInv, TimerInv, LockInv, ClearedInv, GateInv
  <2>3. CASE UNCHANGED powerVars
    BY <2>3 DEF powerVars, PowerInv, TimerInv, LockInv, ClearedInv, GateInv,
                por_done, Cause, InReset
  <2> QED
    BY <2>1, <2>2, <2>3 DEF Next
<1> QED
  BY <1>1, <1>2, TypeCorrect, PTL DEF Spec

-----------------------------------------------------------------------------
(* No register of the SoC leaves reset without a clock edge, or before the *)
(* power-on delay is over.                                                 *)
THEOREM StartsClean == Spec => []SysStartsClean
<1>1. PowerInv => SysStartsClean
  BY DEF PowerInv, TypeOK, ClearedInv, LockInv, SysStartsClean, InReset, Cause
<1> QED
  BY <1>1, InductiveInvariant, PTL

(* The bootloader is entered only after the button has been down for all   *)
(* of the time, without a break.                                           *)
THEOREM NeedsHold == Spec => []BootloaderNeedsHold
<1>1. PowerInv => BootloaderNeedsHold
  BY PowerOnAssumption
  DEF PowerInv, TypeOK, TimerInv, BootloaderNeedsHold, bootloader
<1> QED
  BY <1>1, InductiveInvariant, PTL
=============================================================================
