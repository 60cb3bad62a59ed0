------------------------------- MODULE PowerOn -------------------------------
(***************************************************************************)
(* The clock and reset generators (_CRG) of the boards: how a SoC comes    *)
(* out of reset after power-on, after a button and after a reset the SoC   *)
(* asks for.  A step is an edge of the board's own clock, which never      *)
(* stops; the clock of the SoC (sys) is made from it.                      *)
(***************************************************************************)
EXTENDS Integers, ClockControl

CONSTANTS
  PorCycles,       \* por_count: 2^16 - 1, or 4095 on the HPS
  HoldCycles       \* reset_timer: 48e6

ASSUME PowerOnAssumption == {PorCycles, HoldCycles} \subseteq Nat \ {0}

Boards == {"orangecrab", "orangecrab_sdram", "arty", "hps"}
Orangecrabs == {"orangecrab", "orangecrab_sdram"}

VARIABLES
  board,
  pressed,         \* ~rst_n: the button
  rst,             \* the SoC asks for a reset
  por_count,
  timer,           \* reset_timer: ticks still to wait
  locked,          \* of the PLL
  ddr,             \* stop and reset of the initialisation of the DDR PHY
  sync,            \* edges until the synchronizer lets sys out of reset
  cleared,         \* history: sys had a clock edge in this reset
  held             \* history: edges for which the button has been down

powerVars == <<board, pressed, rst, por_count, timer, locked, ddr, sync,
               cleared, held, enabled>>

HasPor == board # "arty"
por_done == por_count = 0

pll_reset == ~por_done \/ pressed \/ rst

(* What puts sys in reset at once. *)
Cause ==
  CASE board = "hps" -> ~por_done
    [] board = "orangecrab_sdram" -> ~locked \/ ddr.reset
    [] OTHER -> ~locked

InReset == Cause \/ sync > 0

(* The FPGA falls back to its bootloader. *)
bootloader == board \in Orangecrabs /\ timer = 0

(* sys has an edge: the PLL's, the divider's of the edge clock, or the     *)
(* oscillator's through a gate.                                            *)
SysEdge(cmd) ==
  CASE board = "hps" -> cpu_cen(cmd.valid, cmd.ready, cmd.rsp)
    [] board = "orangecrab_sdram" -> locked /\ ~ddr.stop /\ ~ddr.reset
    [] OTHER -> locked

Init ==
  /\ board \in Boards
  /\ pressed = FALSE
  /\ rst = FALSE
  /\ por_count = (IF HasPor THEN PorCycles ELSE 0)
  /\ timer = HoldCycles
  /\ locked = FALSE
  /\ ddr = [stop |-> FALSE, reset |-> FALSE]
  /\ sync = 2
  /\ cleared = FALSE
  /\ held = 0
  /\ ClockInit

(* Fault: the timer is in the clock domain of the SoC. *)
TimerInSys ==
  timer' = IF ~pressed THEN HoldCycles
           ELSE IF timer > 0 /\ locked THEN timer - 1 ELSE timer

(* Fault: a press that is interrupted goes on where it was. *)
TimerKeeps ==
  timer' = IF pressed /\ timer > 0 THEN timer - 1 ELSE timer

(* WaitTimer in the domain of the board's clock *)
Timer ==
  timer' = IF ~pressed THEN HoldCycles
           ELSE IF timer > 0 THEN timer - 1 ELSE timer

(* Fault: the synchronizer is on the clock of the board. *)
SynchronizerOfBoard(cmd) ==
  sync' = IF Cause THEN 2 ELSE IF sync > 0 THEN sync - 1 ELSE sync

(* AsyncResetSynchronizer: in at once, out two edges of the domain later.  *)
Synchronizer(cmd) ==
  sync' = IF Cause THEN 2
          ELSE IF sync > 0 /\ (board = "hps" \/ SysEdge(cmd)) THEN sync - 1
          ELSE sync

(* Fault: the counter is in the clock domain of the SoC. *)
PorInSys == por_count' = IF por_done \/ ~(locked \/ board = "hps") THEN por_count
                         ELSE por_count - 1

Por == por_count' = IF por_done THEN 0 ELSE por_count - 1

(* A PLL in reset is unlocked; one that is not locks at some time.  (The   *)
(* one for USB is in no other reset than the power-on delay, and nothing   *)
(* here depends on it.)                                                    *)
Locks(l, reset) == IF reset THEN {FALSE} ELSE {l, TRUE}

(* The signals of the CPU and the CFU are any once they are out of reset;  *)
(* the DDR PHY starts its initialisation once the PLL is locked.           *)
Edge ==
  \E cmd \in [valid : BOOLEAN, ready : BOOLEAN, rsp : BOOLEAN] :
    /\ ~bootloader
    /\ (cmd.valid \/ cmd.ready \/ cmd.rsp) => board = "hps" /\ ~InReset
    /\ UNCHANGED board
    /\ pressed' \in IF board = "hps" THEN {FALSE} ELSE BOOLEAN
    /\ rst' \in IF board = "hps" \/ InReset THEN {rst, FALSE} ELSE BOOLEAN
    /\ Por
    /\ Timer
    /\ locked' \in IF board = "hps" THEN {FALSE} ELSE Locks(locked, pll_reset)
    /\ ddr' \in IF board = "orangecrab_sdram" /\ locked
                THEN [stop : BOOLEAN, reset : BOOLEAN] ELSE {ddr}
    /\ Synchronizer(cmd)
    /\ IF InReset THEN enabled' = "CPU_ENABLED"
       ELSE ClockEdge(cmd.valid, cmd.ready, cmd.rsp)
    /\ held' = IF pressed THEN (IF held < HoldCycles THEN held + 1 ELSE held)
               ELSE 0
    /\ cleared' = IF InReset THEN cleared \/ SysEdge(cmd)
                  ELSE cleared /\ ~Cause'

(* The bootloader starts the SoC anew. *)
Reload ==
  /\ bootloader
  /\ UNCHANGED board
  /\ pressed' = FALSE /\ rst' = FALSE
  /\ por_count' = PorCycles /\ timer' = HoldCycles
  /\ locked' = FALSE
  /\ ddr' = [stop |-> FALSE, reset |-> FALSE]
  /\ sync' = 2 /\ cleared' = FALSE /\ held' = 0
  /\ enabled' = "CPU_ENABLED"

Next == Edge \/ Reload

(* The board's own clock does not stop; nobody has to touch the button.    *)
Spec == Init /\ [][Next]_powerVars
        /\ WF_powerVars(Edge /\ UNCHANGED <<pressed, rst>>)

-----------------------------------------------------------------------------
(* The generators are in states of their own (types). *)
TypeOK ==
  /\ board \in Boards
  /\ {pressed, rst, locked, cleared} \subseteq BOOLEAN
  /\ por_count \in 0 .. PorCycles
  /\ timer \in 0 .. HoldCycles
  /\ ddr \in [stop : BOOLEAN, reset : BOOLEAN]
  /\ sync \in 0 .. 2
  /\ held \in 0 .. HoldCycles
  /\ ClockTypeOK

(* The registers of the SoC have seen a clock edge in this reset before    *)
(* they are let out of it, also when the clock of the SoC is divided and   *)
(* stopped by the DDR PHY, or gated by the controller that the same reset  *)
(* resets; and the power-on delay is over.                                 *)
SysStartsClean == ~InReset => cleared /\ por_done

(* "press usr_btn for 1 second to fallback to bootloader": never for a     *)
(* shorter press, however often it is repeated.                            *)
BootloaderNeedsHold == bootloader => held = HoldCycles

(* The way back to the bootloader does not need the SoC: a button that     *)
(* stays down gets there, with or without a PLL that locks.                *)
BootloaderReachable ==
  board \in Orangecrabs => []<>(~pressed \/ bootloader)

(* Left alone, with a PLL that locks and a DDR PHY that gets through its   *)
(* initialisation, the SoC runs.                                           *)
SocStarts ==
  <>[](/\ ~pressed /\ ~rst
       /\ board = "hps" \/ pll_reset \/ locked
       /\ ~ddr.stop /\ ~ddr.reset)
    => <>[]~InReset
=============================================================================
