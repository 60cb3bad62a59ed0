------------------------------- MODULE HpsSoC --------------------------------
(***************************************************************************)
(* soc/hps_soc.py, with soc/hps_proto2_platform.py and the memories of     *)
(* soc/hps_lattice_nx.py: the calls that put the HPS SoC together, for the *)
(* options of its command line that change what is put together.           *)
(***************************************************************************)
EXTENDS SocCalls

CONSTANT FileWords              \* sizes of files, in words

ASSUME FilesAssumption == FileWords \subseteq Nat

RAM_SIZE == 5                   \* 320 KB
RomWords == 16384               \* words of a block of LRAM

sram_origin == 16384            \* 0x40000000
arena_origin == 24576           \* 0x60000000
csr_origin == 61440             \* 0xf0000000
spiflash_region == Window("spiflash", 8192, 256)        \* 0x20000000, 16 MB
rom_offset == 32                                        \* 2 MB
vexriscv_region == Window("vexriscv_debug", 61455, 1)   \* 0xf00f0000

(* Words in the --integrated-rom-init file, 0 without it, and in the BIOS; *)
(* uartbone is the argument of add_uartbone that LiteX takes for the name  *)
(* of the pads.                                                            *)
HpsOptions ==
  [debug : BOOLEAN, cpu_cfu : BOOLEAN,
   cpu_variant : {"none", "full", "slim+cfu"},
   execute_from_lram : BOOLEAN, separate_arena : BOOLEAN,
   integrated_rom_init : {0} \cup FileWords,
   build_bios : BOOLEAN, bios : FileWords,
   cfu_mport : BOOLEAN, dynamic_clock_control : BOOLEAN,
   uartbone : {"serial", "serial2"}]

HpsPads == {"done", "programn", "jtag", "spiflash", "spiflash4x", "serial",
            "user_led"}

(* What the CPU has, by the variant that main chooses. *)
HpsVariant(o) ==
  CASE o.cpu_variant = "full" -> {}
    [] o.cpu_variant = "slim+cfu" -> {"cfu"}
    [] OTHER -> (IF o.cpu_cfu THEN {"cfu"} ELSE {})
                \cup (IF o.debug THEN {"debug"} ELSE {})

create_crg == Makes({Attr("crg"), Attr("crg.sys_clk_enable"), <<"clock", "osc">>})

(* Fault: the CPU starts at the bottom of memory. *)
reset_addressZero(o) == 0

(* Fault: the CPU starts in the flash, whatever it executes from. *)
reset_addressFlash(o) == spiflash_region.origin + rom_offset

reset_address(o) ==
  IF o.execute_from_lram THEN 0 ELSE spiflash_region.origin + rom_offset

(* Adding a CFU gives the CPU its bus and the parameters of the instance. *)
add_cpu(o) ==
  From({Attr("crg")},
       {Attr("cpu")}
       \cup (IF o.cpu_cfu THEN {Attr("cpu.cfu_bus"), Attr("cpu.cfu_params")}
             ELSE {})
       \cup (IF "debug" \in HpsVariant(o) THEN {Attr("cpu.debug_bus")} ELSE {}))

(* A memory of that many blocks of LRAM. *)
NXLRAM(name, size, dual_port) ==
  Call(size \in 1 .. 5 /\ (dual_port => size \in {1, 2, 4}), {}, {},
       {Attr(name)} \cup (IF dual_port THEN {<<"b_clkens", name>>} ELSE {}),
       {}, size)

(* The data is padded to the size of the memory, never cut. *)
add_init(name, words) ==
  Call(words <= RomWords, {Attr(name)}, {}, {<<"contents", name>>}, {}, 0)

(* Fault: the ROM's block is not left free. *)
ram_sizeAll(o) == IF o.separate_arena THEN 1 ELSE RAM_SIZE

ram_size(o) ==
  IF o.separate_arena THEN 1
  ELSE IF o.execute_from_lram THEN RAM_SIZE - 1 ELSE RAM_SIZE

arena_size(o) == IF o.separate_arena THEN RAM_SIZE - ram_size(o) ELSE 0

setup_ram(size) ==
  << NXLRAM("lram", size, FALSE),
     Maps({Attr("lram")}, Window("lram", sram_origin, size)) >>

(* Fault: the configuration is set with the region, before the size is     *)
(* looked at.                                                              *)
setup_arenaAlways(size) ==
  << Maps({}, Window("none", arena_origin, size)),
     Makes({<<"config", "SOC_SEPARATE_ARENA">>}) >>
  \o When(size > 0,
       << NXLRAM("arena", size, TRUE),
          Maps({Attr("arena")}, Window("arena", arena_origin, size)) >>)

(* The region of the arena is there with length zero, too. *)
setup_arena(size) ==
  << Maps({}, Window("none", arena_origin, size)) >>
  \o When(size > 0,
       << NXLRAM("arena", size, TRUE),
          Maps({Attr("arena")}, Window("arena", arena_origin, size)),
          Makes({<<"config", "SOC_SEPARATE_ARENA">>}) >>)

Drive(port, clken, source) == From({clken}, {<<port, source>>})

(* Fault: the arena is given the clock of the CFU as a whole. *)
ClockEnablesArena(o, cpu, cfu) ==
  << Drive("lram.a", Attr("lram"), cpu) >>
  \o When(o.separate_arena, << Drive("arena.a", Attr("arena"), cfu) >>)
  \o When(o.separate_arena /\ o.cfu_mport,
          << Drive("arena.b", <<"b_clkens", "arena">>, cfu) >>)

(* The clock enables of the memories: cpu_cen and cfu_cen, or always on. *)
ClockEnables(o, cpu, cfu) ==
  << Drive("lram.a", Attr("lram"), cpu) >>
  \o When(o.separate_arena, << Drive("arena.a", Attr("arena"), cpu) >>)
  \o When(o.separate_arena /\ o.cfu_mport,
          << Drive("arena.b", <<"b_clkens", "arena">>, cfu) >>)

(* With dynamic clock control the CFU gets a clock of its own. *)
HpsClockControl(o) ==
  IF o.dynamic_clock_control
  THEN << From({Attr("cpu.cfu_bus")}, {}),
          From({Attr("crg.sys_clk_enable")}, {<<"sys", "cpu_cen">>}),
          From({Attr("cpu.cfu_params")}, {<<"cfu", "cfu_cen">>}) >>
       \o ClockEnables(o, "cpu_cen", "cfu_cen")
  ELSE ClockEnables(o, "1", "1")

connect_cfu_to_lram ==
  << From({Attr("cpu.cfu_params")}, {<<"cfu_ports", "4">>}),
     From({<<"b_clkens", "arena">>}, {}) >>

setup_litespi_flash ==
  << Requests({"spiflash4x"}, {Attr("spiflash_mmap")}),
     Maps({Attr("spiflash_mmap")}, spiflash_region) >>

setup_rom_in_lram(o) ==
  << NXLRAM("rom", 1, FALSE),
     Maps({Attr("rom"), Attr("cpu")}, Window("rom", reset_address(o), 1)) >>

setup_rom_in_flash ==
  << Maps({}, Window("none", spiflash_region.origin + rom_offset,
                     spiflash_region.size - rom_offset)) >>

(* The file's size is checked before the memory checks it. *)
HpsRom(o) ==
  IF ~o.execute_from_lram THEN setup_rom_in_flash
  ELSE setup_rom_in_lram(o)
       \o When(o.integrated_rom_init > 0,
            << Asserts(o.integrated_rom_init <= RomWords),
               add_init("rom", o.integrated_rom_init),
               Makes({<<"initialized", "rom">>}) >>)

HpsDebug(o) ==
  When(o.debug,
    << Requests({o.uartbone}, {}),
       Maps({Attr("cpu.debug_bus")}, vexriscv_region) >>)

HpsSoC(o) ==
  << create_crg, Maps({}, Window("csr", csr_origin, 1)), add_cpu(o) >>
  \o setup_ram(ram_size(o)) \o setup_arena(arena_size(o))
  \o HpsClockControl(o)
  \o When(o.cfu_mport, connect_cfu_to_lram)
  \o setup_litespi_flash \o HpsRom(o)
  \o << Requests({"serial"}, {}) >> \o HpsDebug(o)
  \o When(o.build_bios, << Makes({Attr("timer0")}) >>)

(* The builder writes the BIOS into a ROM that has not been initialized;   *)
(* main says it has been when there is no BIOS to write.                   *)
initialize_rom(o) ==
  LET initialized == ~o.build_bios
                     \/ (o.execute_from_lram /\ o.integrated_rom_init > 0)
  IN When(~initialized /\ o.execute_from_lram, << add_init("rom", o.bios) >>)

HpsMain(o) == HpsSoC(o) \o initialize_rom(o)
=============================================================================
