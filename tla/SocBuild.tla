------------------------------ MODULE SocBuild -------------------------------
(***************************************************************************)
(* The main functions of hps_soc.py, sim.py, litex_sim.py and of the two   *)
(* boards with a CFU that reads memory, run on any of their options.  A    *)
(* step is a call; a call that cannot be made raises and ends the build.   *)
(***************************************************************************)
EXTENDS HpsSoC, SimSoC, BoardSoC

VARIABLES
  target, opt,     \* the program and its options
  todo,            \* calls to come
  soc              \* what the calls have made

socVars == <<target, opt, todo, soc>>

Options(t) ==
  CASE t = "hps" -> HpsOptions
    [] t = "sim" -> SimOptions
    [] t = "litex_sim" -> LitexSimOptions
    [] t = "arty" -> ArtyOptions
    [] t = "orangecrab" -> OrangecrabOptions

Calls(t, o) ==
  CASE t = "hps" -> HpsMain(o)
    [] t = "sim" -> SimMain(o)
    [] t = "litex_sim" -> LitexSimMain(o)
    [] t = "arty" -> ArtyMain(o)
    [] t = "orangecrab" -> OrangecrabMain(o)

PadsOf(t) ==
  CASE t = "hps" -> HpsPads
    [] t = "sim" -> SimPads
    [] t = "litex_sim" -> SimPads
    [] t = "arty" -> ArtyPads
    [] t = "orangecrab" -> OrangecrabPads

Targets == {"hps", "sim", "litex_sim", "arty", "orangecrab"}

Init ==
  /\ target \in Targets
  /\ opt \in Options(target)
  /\ todo = Calls(target, opt)
  /\ soc = [status |-> "building", has |-> {}, used |-> {}, windows |-> {},
            blocks |-> 0]

(* Pads of the platform, or of an extension of it, can be asked for once.  *)
CanCall(c) ==
  /\ c.ok /\ c.needs \subseteq soc.has
  /\ \A p \in c.pads :
       (p \in PadsOf(target) \/ <<"extension", p>> \in soc.has) /\ p \notin soc.used

Make ==
  /\ soc.status = "building" /\ todo # <<>> /\ CanCall(Head(todo))
  /\ LET c == Head(todo)
     IN soc' = [soc EXCEPT !.has = @ \cup c.makes, !.used = @ \cup c.pads,
                           !.windows = @ \cup c.maps, !.blocks = @ + c.blocks]
  /\ todo' = Tail(todo)
  /\ UNCHANGED <<target, opt>>

Raise ==
  /\ soc.status = "building" /\ todo # <<>> /\ ~CanCall(Head(todo))
  /\ soc' = [soc EXCEPT !.status = "raised"]
  /\ UNCHANGED <<target, opt, todo>>

Finish ==
  /\ soc.status = "building" /\ todo = <<>>
  /\ soc' = [soc EXCEPT !.status = "built"]
  /\ UNCHANGED <<target, opt, todo>>

Next == Make \/ Raise \/ Finish

Spec == Init /\ [][Next]_socVars

-----------------------------------------------------------------------------
Built == soc.status = "built"

(* The combinations of options that cannot be built.  --debug of the HPS   *)
(* is one of them, by itself: the platform has no second UART.             *)
Unbuildable ==
  CASE target = "hps" ->
         \/ opt.debug
         \/ opt.dynamic_clock_control /\ ~opt.cpu_cfu
         \/ opt.cfu_mport /\ ~(opt.cpu_cfu /\ opt.separate_arena)
         \/ /\ opt.execute_from_lram
            /\ \/ opt.integrated_rom_init > RomWords
               \/ opt.integrated_rom_init = 0 /\ opt.build_bios
                  /\ opt.bios > RomWords
    [] target = "sim" -> opt.cfu_mport /\ ~opt.cpu_cfu
    [] target = "litex_sim" ->
         \/ (opt.with_ethernet \/ opt.with_etherbone) /\ opt.phy = "rgmii"
         \/ opt.with_sdram /\ ~opt.main_ram /\ opt.ram_init # "none"
    [] target = "arty" ->
         \/ opt.ethernet = "etherbone" /\ opt.eth_dynamic_ip
         \/ opt.load /\ ~opt.build /\ ~opt.left
    [] target = "orangecrab" ->
         \/ ~opt.main_ram /\ opt.sdram_device = "unknown"
         \/ opt.load /\ ~opt.build /\ ~opt.left

(* A build raises exactly for those options: whatever the other options,   *)
(* every attribute, file and pad a call needs is there when it is made,    *)
(* and no pad is asked for twice.                                          *)
RaisesOnlyWhenUnbuildable ==
  /\ soc.status = "raised" => Unbuildable
  /\ Built => ~Unbuildable

(* Two memories never answer the same address.  LiteX does not look at the *)
(* regions the linker script uses, which are all the memories of the HPS.  *)
WindowsDisjoint ==
  \A v, w \in soc.windows :
    v # w /\ v.slave # "none" /\ w.slave # "none" => Units(v) \cap Units(w) = {}

(* The CPU of the HPS starts in memory that is there. *)
ResetIsMapped ==
  Built /\ target = "hps" =>
    \E w \in soc.windows : w.slave # "none" /\ reset_address(opt) \in Units(w)

(* RAM_SIZE = 320 * KB, and "Leave one LRAM free for ROM": the memories of *)
(* the HPS, with the ROM if it is in LRAM, are all the LRAM there is.      *)
LramIsSpent == Built /\ target = "hps" => soc.blocks = RAM_SIZE

(* So they are unless the arena and the ROM both ask for room, in which    *)
(* case nothing is left free for the ROM (LramIsSpent does not hold).      *)
LramSharedOut ==
  Built /\ target = "hps" /\ ~(opt.separate_arena /\ opt.execute_from_lram) =>
    soc.blocks = RAM_SIZE

(* The program is compiled for a separate arena exactly when there is one, *)
(* on the HPS and in simulation; the linker finds the region anyhow.       *)
ArenaAsConfigured ==
  Built /\ target \in {"hps", "sim"} =>
    LET arena == {w \in soc.windows : w.origin = arena_origin}
        there == {w \in arena : w.slave = "arena" /\ w.size = 4}
    IN /\ arena # {}
       /\ (<<"config", "SOC_SEPARATE_ARENA">> \in soc.has) = (there # {})
       /\ <<"cfu_ports", "4">> \in soc.has => there # {}

(* The side of the memories the CPU uses is clocked with the CPU, the side *)
(* the CFU uses with the CFU, and every side in use is clocked: all but    *)
(* that of the ROM, whose clock enable nothing drives (setup_rom_in_lram). *)
MemoriesClocked ==
  Built /\ target = "hps" =>
    LET cpu == IF opt.dynamic_clock_control THEN "cpu_cen" ELSE "1"
        cfu == IF opt.dynamic_clock_control THEN "cfu_cen" ELSE "1"
        sources(port) == {s \in {"cpu_cen", "cfu_cen", "1"} :
                            <<port, s>> \in soc.has}
    IN /\ sources("lram.a") = {cpu}
       /\ opt.separate_arena => sources("arena.a") = {cpu}
       /\ opt.cfu_mport => sources("arena.b") = {cfu}
       /\ opt.dynamic_clock_control => sources("cfu") = {cfu}

(* The BIOS of LiteX tests the SDRAM it has initialised, and no other      *)
(* memory, unless a constant keeps it from that.  The test overwrites what *)
(* the memory holds.                                                       *)
MemoryIsTested ==
  /\ Attr("sdrphy") \in soc.has
  /\ <<"const", "SDRAM_TEST_DISABLE">> \notin soc.has

(* The simulated BIOS boots from memory that holds an image, does not test *)
(* memory that holds one, and tests SDRAM that holds none; only sim.py     *)
(* without --bin boots from nothing.                                       *)
BootsAnImage ==
  Built /\ target \in {"sim", "litex_sim"} =>
    LET loaded == <<"contents", "main_ram">> \in soc.has
        boots == <<"const", "ROM_BOOT_ADDRESS">> \in soc.has
    IN /\ boots => loaded \/ (target = "sim" /\ ~(opt.run /\ opt.bin))
       /\ loaded => /\ boots
                    /\ \E w \in soc.windows : w.slave = "main_ram"
                    /\ ~MemoryIsTested
       /\ Attr("sdrphy") \in soc.has /\ ~loaded => MemoryIsTested
=============================================================================
