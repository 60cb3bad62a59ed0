------------------------------- MODULE MemReader -------------------------------
(***************************************************************************)
(* SequentialMemoryReader of python/amaranth_cfu/util.py over a            *)
(* DualPortMemory of the same file, written to by somebody else.  A read   *)
(* takes a cycle, so the reader keeps the address of the item after the    *)
(* one it shows on the read port, and decides from what it was asked a     *)
(* cycle ago whether the port or its own register has the item to show.    *)
(* One step is one clock cycle.  Shown to implement SequenceReader.        *)
(***************************************************************************)
EXTENDS Integers

CONSTANTS
  Depth,           \* max_depth
  Words            \* memory words

ASSUME ReaderAssumption == Depth \in Nat \ {0} /\ 0 \in Words

VARIABLES
  mem,             \* DualPortMemory: its words
  mem_data,        \* DualPortMemory: r_data
  limit,           \* input limit, constant between restarts
  was_restart,
  was_next,
  last_mem_addr,
  last_data

readerVars ==
  <<mem, mem_data, limit, was_restart, was_next, last_mem_addr, last_data>>

Index == 0 .. Depth - 1

ReaderInit ==
  /\ mem \in [Index -> Words]
  /\ mem_data = 0
  /\ limit \in 1 .. Depth
  /\ was_restart = FALSE
  /\ was_next = FALSE
  /\ last_mem_addr = 0
  /\ last_data = 0

-----------------------------------------------------------------------------
(* Fault: one item too many. *)
incremented_addrLate == IF last_mem_addr = limit THEN 0 ELSE last_mem_addr + 1

incremented_addr == IF last_mem_addr = limit - 1 THEN 0 ELSE last_mem_addr + 1

(* Fault: after a restart the address does not move on. *)
mem_addrStays(restart) ==
  IF restart THEN 0
  ELSE IF was_next THEN incremented_addr
  ELSE last_mem_addr

mem_addr(restart) ==
  IF restart THEN 0
  ELSE IF was_next \/ was_restart THEN incremented_addr
  ELSE last_mem_addr

data == IF was_restart \/ was_next THEN mem_data ELSE last_data

(* The read port gives the word from before a write to the same address    *)
(* (transparent=False).                                                    *)
Cycle(restart, next) ==
  /\ was_restart' = restart
  /\ was_next' = next
  /\ last_mem_addr' = mem_addr(restart)
  /\ last_data' = data
  /\ mem_data' = mem[mem_addr(restart)]

Restart(next) ==
  /\ Cycle(TRUE, next)
  /\ limit' \in 1 .. Depth

Read(next) ==
  /\ Cycle(FALSE, next)
  /\ UNCHANGED limit

Write(w_en, w_addr, w_data) ==
  mem' = IF w_en THEN [mem EXCEPT ![w_addr] = w_data] ELSE mem

ReaderNext ==
  /\ \E next \in BOOLEAN : Restart(next) \/ Read(next)
  /\ \E w_en \in BOOLEAN, w_addr \in Index, w_data \in Words :
       Write(w_en, w_addr, w_data)

ReaderSpec == ReaderInit /\ [][ReaderNext]_readerVars

-----------------------------------------------------------------------------
(* The address on the read port is always one of the items to be read. *)
ReaderTypeOK ==
  /\ mem \in [Index -> Words]
  /\ mem_data \in Words
  /\ limit \in 1 .. Depth
  /\ was_restart \in BOOLEAN
  /\ was_next \in BOOLEAN
  /\ last_mem_addr \in 0 .. limit - 1
  /\ last_data \in Words

Reader == INSTANCE SequenceReader WITH
            Values <- Words, items <- mem, upcoming <- mem_addr(FALSE)

(* Whatever the gaps between requests, back-to-back requests, restarts at  *)
(* any time (even together with next) and writes, to the very word being   *)
(* read as well: the items come in order, none skipped, repeated or newer  *)
(* than its request, "obtained next cycle" as util.py says.                *)
ItemsInOrder == Reader!Spec
=============================================================================
