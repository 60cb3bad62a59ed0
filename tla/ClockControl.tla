---------------------------- MODULE ClockControl -----------------------------
(***************************************************************************)
(* soc/clock_control.py: which of CPU and CFU gets a clock edge, decided   *)
(* from the handshake signals between them.  The controller itself runs on *)
(* the oscillator clock, which never stops.  hps_soc.py puts it in only    *)
(* with --dynamic-clock-control; otherwise both clocks always run.         *)
(***************************************************************************)
CONSTANT DynamicClock

ASSUME DynamicClockAssumption == DynamicClock \in BOOLEAN

VARIABLE enabled        \* state of the controller's FSM

ClockInit == enabled = "CPU_ENABLED"

(* Disable CPU if CFU is calculating response. *)
Calculating(cmd_valid, rsp_valid) ==
  enabled = "CFU_ENABLED" /\ ~rsp_valid /\ ~cmd_valid

(* Fault: the CPU also waits for commands. *)
cpu_cenNoCommand(cmd_valid, cmd_ready, rsp_valid) ==
  DynamicClock => enabled = "CPU_ENABLED" \/ rsp_valid

cpu_cen(cmd_valid, cmd_ready, rsp_valid) ==
  DynamicClock => (Calculating(cmd_valid, rsp_valid) => cmd_ready)

cfu_cen(cmd_valid) ==
  DynamicClock => (enabled = "CPU_ENABLED" => cmd_valid)

(* Fault: the CFU's clock is taken away while it computes. *)
ClockEdgeEarly(cmd_valid, cmd_ready, rsp_valid) ==
  enabled' = IF cmd_valid THEN "CFU_ENABLED"
             ELSE IF ~rsp_valid THEN "CPU_ENABLED" ELSE enabled

ClockEdge(cmd_valid, cmd_ready, rsp_valid) ==
  enabled' = IF enabled = "CPU_ENABLED"
             THEN IF cmd_valid THEN "CFU_ENABLED" ELSE "CPU_ENABLED"
             ELSE IF Calculating(cmd_valid, rsp_valid) /\ cmd_ready
                  THEN "CPU_ENABLED" ELSE "CFU_ENABLED"

ClockTypeOK == enabled \in {"CPU_ENABLED", "CFU_ENABLED"}
=============================================================================
