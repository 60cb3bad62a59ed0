------------------------------ MODULE HpsMemory ------------------------------
(***************************************************************************)
(* The data memory of the HPS SoC (soc/hps_soc.py) at work: an NXLRAM, the *)
(* CPU that reads and writes it over the bus, a CFU with ports of its own  *)
(* into it (--cfu-mport), and the clock controller that stops CPU or CFU   *)
(* (--dynamic-clock-control).  A step is one edge of the oscillator.       *)
(***************************************************************************)
EXTENDS NxLram, ClockControl

VARIABLES
  bus,             \* bus signals the CPU drives; stb stands for stb & cyc
  cmd_valid,       \* the CPU offers a command
  cfu,             \* what the CFU is doing
  b_addr,          \* addresses the CFU gives to its ports
  image            \* history: memory as the program has left it, by address

memoryVars == <<lramVars, enabled, bus, cmd_valid, cfu, b_addr, image>>

Idle == [stb |-> FALSE, we |-> FALSE, adr |-> 0,
         dat |-> [l \in Lanes |-> CHOOSE v \in Values : TRUE], sel |-> {}]

Request == {[stb |-> TRUE, we |-> FALSE, adr |-> a, dat |-> Idle.dat,
             sel |-> Lanes] : a \in Adr}
           \cup [stb : {TRUE}, we : {TRUE}, adr : Adr, dat : Word,
                 sel : (SUBSET Lanes) \ {{}}]

cmd_ready == cfu = "idle"
rsp_valid == cfu = "answer"

(* Connect clock enable signals to RAM and Arena. *)
cpuClock == cpu_cen(cmd_valid, cmd_ready, rsp_valid)
cfuClock == cfu_cen(cmd_valid)

Init ==
  /\ LramInit
  /\ ClockInit
  /\ bus = Idle
  /\ cmd_valid = FALSE
  /\ cfu = "idle"
  /\ b_addr = [b \in Block |-> 0]
  /\ image = [a \in Adr |-> At(a)]

(* The transfer on the bus is over at this edge of the CPU's clock. *)
Completes == bus.stb /\ ack

(* The CPU keeps a transfer until it is acknowledged, and a command until  *)
(* it is accepted.                                                         *)
Cpu ==
  /\ bus' \in IF bus.stb /\ ~ack THEN {bus} ELSE {Idle} \cup Request
  /\ cmd_valid' \in IF cmd_valid /\ ~cmd_ready THEN {TRUE} ELSE BOOLEAN
  /\ image' = IF Completes /\ bus.we
              THEN [image EXCEPT ![bus.adr] = Merge(@, bus.dat, bus.sel)]
              ELSE image

(* Any time may pass before the answer, and before the CPU takes it. *)
Cfu ==
  /\ cfu' \in CASE cfu = "idle" -> IF cmd_valid THEN {"busy", "answer"}
                                   ELSE {"idle"}
                [] cfu = "busy" -> {"busy", "answer"}
                [] cfu = "answer" -> IF cpuClock THEN {"idle", "answer"}
                                     ELSE {"answer"}
  /\ IF DualPort THEN b_addr' \in [Block -> Row] ELSE UNCHANGED b_addr

(* connect_cfu_to_lram *)
Ports == PortB(b_addr, cfuClock)

Tick ==
  /\ ClockEdge(cmd_valid, cmd_ready, rsp_valid)
  /\ PortA(bus, cpuClock)
  /\ Ports
  /\ Ack(bus)
  /\ IF cpuClock THEN Cpu ELSE UNCHANGED <<bus, cmd_valid, image>>
  /\ IF cfuClock THEN Cfu ELSE UNCHANGED <<cfu, b_addr>>

Next == Tick

Spec == Init /\ [][Next]_memoryVars

-----------------------------------------------------------------------------
(* The CPU, the CFU and the memory are in states of their own (types). *)
TypeOK ==
  /\ LramTypeOK
  /\ ClockTypeOK
  /\ bus \in {Idle} \cup Request
  /\ cmd_valid \in BOOLEAN
  /\ cfu \in {"idle", "busy", "answer"}
  /\ b_addr \in [Block -> Row]
  /\ image \in [Adr -> Word]

(* The word the CPU takes from the bus is the one its program last wrote   *)
(* to that address, whatever the striping, the acknowledge and the clocks  *)
(* do in between.                                                          *)
ReadsExact ==
  cpuClock /\ Completes /\ ~bus.we => dat_r(bus.adr) = image[bus.adr]

(* A write that is acknowledged to the CPU is in the memory, with the      *)
(* bytes that were not enabled as they were; no other word has changed.    *)
WritesLand ==
  \A a \in Adr :
    LET written == Merge(image[a], bus.dat, bus.sel)
        pending == bus.stb /\ bus.we /\ bus.adr = a
    IN IF pending /\ cpuClock /\ ack THEN At(a) = written
       ELSE At(a) = image[a] \/ (pending /\ At(a) = written)

(* "Thus, "arena" offset 4 from the Wishbone bus can also be accessed at   *)
(* address 0x1 from the LRAM-0 port connected to the CFU": with the clock  *)
(* it has at that edge, a port of block b gives the CFU word               *)
(* Blocks * address + b of the program's memory, or what a write under way *)
(* to that very word is making of it.                                      *)
PortsExact ==
  [][DualPort /\ cfuClock => \A b \in Block :
       LET a == Blocks * b_addr[b] + b
       IN \/ bout'[b] = image[a]
          \/ /\ bus.stb /\ bus.we /\ bus.adr = a
             /\ bout'[b] = Merge(image[a], bus.dat, bus.sel)]_memoryVars
=============================================================================
