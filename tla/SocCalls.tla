------------------------------ MODULE SocCalls -------------------------------
(***************************************************************************)
(* How a SoC is put together.  The constructors and main functions of the  *)
(* repository are sequences of calls into LiteX.  A call needs things that *)
(* earlier calls have made (attributes of the SoC and of its CPU, files),  *)
(* asks the platform for pads, and makes things: attributes, constants,    *)
(* configuration, clock enables, files, and windows of the address space.  *)
(* A thing is a pair <<kind, name>>.  Addresses are in units of 64 KB.     *)
(***************************************************************************)
EXTENDS Integers, Sequences, FiniteSets

(* ok is what the call asserts of its arguments, blocks the LRAM it takes. *)
Call(ok, needs, pads, makes, maps, blocks) ==
  [ok |-> ok, needs |-> needs, pads |-> pads, makes |-> makes,
   maps |-> maps, blocks |-> blocks]

Makes(things) == Call(TRUE, {}, {}, things, {}, 0)
From(needed, things) == Call(TRUE, needed, {}, things, {}, 0)
Requests(pads, things) == Call(TRUE, {}, pads, things, {}, 0)
Asserts(b) == Call(b, {}, {}, {}, {}, 0)

(* A window of the address space and the memory or bus behind it: "none"   *)
(* when only the linker script knows of it.                                *)
Window(slave, origin, size) ==
  [slave |-> slave, origin |-> origin, size |-> size]

Maps(needed, window) == Call(TRUE, needed, {}, {}, {window}, 0)

Units(w) == w.origin .. w.origin + w.size - 1

When(cond, calls) == IF cond THEN calls ELSE <<>>

Attr(n) == <<"attr", n>>
=============================================================================
