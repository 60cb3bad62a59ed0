------------------------------ MODULE CfuMaster ------------------------------
(***************************************************************************)
(* What a program may rely on when it gives commands to the convolution    *)
(* CFU, seen from the wires between CPU and CFU: a command stays as it is  *)
(* until its response comes, a response is taken on the rising edge on     *)
(* which it is valid, and it is given to the command that was there, and   *)
(* to no other.  No pipeline, no speculation and no buffer is in it;       *)
(* ConvLayer drives the CFU this way.                                      *)
(***************************************************************************)
EXTENDS Integers

CONSTANTS
  Names,           \* names of commands
  Operands         \* operand values

VARIABLES
  clk,             \* the level the clock is at
  rsp_valid,       \* wires driven by the CFU
  rsp_payload,
  cmd_ready,
  offer,           \* the command on the wires
  answer           \* the response that the program has not used yet

vars == <<clk, rsp_valid, rsp_payload, cmd_ready, offer, answer>>

Offers == [valid : BOOLEAN, name : Names, funct7 : 0 .. 127,
           in0 : Operands, in1 : Operands]

Nothing == [pending |-> FALSE]

Answer(name, value) == [pending |-> TRUE, name |-> name, value |-> value]

Init ==
  /\ clk = "low"
  /\ offer \in Offers
  /\ answer = Nothing

(* The program has used the response before the next one comes. *)
TakeResponse ==
  /\ rsp_valid
  /\ offer.valid /\ cmd_ready /\ answer = Nothing
  /\ answer' = Answer(offer.name, rsp_payload)
  /\ offer' \in Offers

(* A command given is not changed or taken back. *)
Wait ==
  /\ ~rsp_valid
  /\ offer' \in (IF offer.valid THEN {offer} ELSE Offers)
  /\ answer' \in {answer, Nothing}

RisingEdge ==
  /\ clk = "low"
  /\ clk' = "high"
  /\ TakeResponse \/ Wait

FallingEdge ==
  /\ clk = "high"
  /\ clk' = "low"
  /\ UNCHANGED <<offer, answer>>

Reset ==
  /\ offer' \in {o \in Offers : ~o.valid}
  /\ answer' = Nothing
  /\ UNCHANGED clk

Next == RisingEdge \/ FallingEdge \/ Reset

Spec == Init /\ [][Next]_vars
=============================================================================
