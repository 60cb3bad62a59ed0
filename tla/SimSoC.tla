------------------------------- MODULE SimSoC --------------------------------
(***************************************************************************)
(* custom_boards/targets/litex_sim.py, the SoC for Verilator and its own   *)
(* command line, and soc/sim.py, which builds that SoC for a project: the  *)
(* calls that put the SoC and the configuration of the simulator together. *)
(***************************************************************************)
EXTENDS SocCalls

main_ram_origin == 16384        \* 0x40000000
sim_arena == Window("arena", 24576, 4)                  \* 0x60000000, 256 KB
integrated_main_ram_size == 512                         \* 32 MB

(* What the SoC does not tell apart is left out; the image of a memory may *)
(* name its own boot address ("json") or not ("bin").                      *)
LitexSimOptions ==
  [main_ram : BOOLEAN, ram_init : {"none", "bin", "json"}, with_sdram : BOOLEAN,
   sdram_init : {"none", "bin", "json"}, with_ethernet : BOOLEAN,
   with_etherbone : BOOLEAN, phy : {"sim", "xgmii", "gmii", "rgmii"},
   devices : SUBSET {"i2c", "gpio", "spi_flash", "analyzer"}]

SimOptions ==
  [run : BOOLEAN, bin : BOOLEAN, separate_arena : BOOLEAN,
   cfu_mport : BOOLEAN, cpu_cfu : BOOLEAN]

(* _io *)
SimPads == {"sys_clk", "sys_rst", "serial", "eth_clocks", "eth", "xgmii_eth",
            "gmii_eth", "i2c", "spiflash", "spiflash4x", "gpio"}

EthPads(phy) == CASE phy = "sim" -> {"eth"}
                  [] phy = "xgmii" -> {"xgmii_eth"}
                  [] phy = "gmii" -> {"gmii_eth"}
                  [] OTHER -> {}

(* SoCCore of LiteX, with the CPU class that is registered at that time.   *)
SoCCore(uart, cpu_cfu, windows) ==
  Call(TRUE, {Attr("crg"), <<"CPUS", "VexRiscvCFURAM">>}, uart,
       {Attr("cpu")} \cup (IF cpu_cfu THEN {Attr("cpu.cfu_params")} ELSE {}),
       {Window("rom", 0, 2), Window("csr", 61440, 1)} \cup windows, 0)

main_ram(size) == Window("main_ram", main_ram_origin, size)

(* Fault: a preloaded SDRAM is tested like any other. *)
SdramAlwaysTested(preloaded) ==
  << Makes({Attr("sdrphy")}), Maps({Attr("sdrphy")}, main_ram(2048)),
     Makes(IF preloaded THEN {<<"contents", "main_ram">>}
           ELSE {<<"const", "MEMTEST_DATA_SIZE">>,
                 <<"const", "MEMTEST_ADDR_SIZE">>}) >>

(* A preloaded SDRAM must not be tested; the test of any other is shorter. *)
Sdram(preloaded) ==
  << Makes({Attr("sdrphy")}), Maps({Attr("sdrphy")}, main_ram(2048)),
     Makes(IF preloaded THEN {<<"const", "SDRAM_TEST_DISABLE">>,
                              <<"contents", "main_ram">>}
           ELSE {<<"const", "MEMTEST_DATA_SIZE">>,
                 <<"const", "MEMTEST_ADDR_SIZE">>}) >>

(* With both, one MAC is shared by the CPU and Etherbone. *)
Ethernet(o) ==
  LET cpuMac == From({Attr("ethphy"), Attr("cpu")}, {Attr("ethmac")})
      slave == Maps({Attr("ethmac")}, Window("ethmac", 32768, 1))
      master == From({Attr(IF o.with_ethernet THEN "ethmac" ELSE "ethphy")},
                     {Attr("etherbone")})
  IN When(o.with_ethernet \/ o.with_etherbone,
       << Call(EthPads(o.phy) # {}, {}, EthPads(o.phy), {Attr("ethphy")}, {}, 0) >>)
     \o When(o.with_ethernet, << cpuMac, slave >>)
     \o When(o.with_etherbone, << master >>)

(* Devices on the pads of the simulator; the flash is a model in the SoC.  *)
Devices(o) ==
  When("i2c" \in o.devices, << Requests({"i2c"}, {Attr("i2c")}) >>)
  \o When("spi_flash" \in o.devices, << Makes({Attr("spiflash_phy")}) >>)
  \o When("gpio" \in o.devices, << Requests({"gpio"}, {Attr("gpio")}) >>)
  \o When("analyzer" \in o.devices, << From({Attr("cpu")}, {Attr("analyzer")}) >>)

SimSoC(o, cpu_cfu) ==
  << Makes({<<"CPUS", "VexRiscvCFURAM">>}),
     Requests({"sys_clk"}, {Attr("crg")}),
     SoCCore({"serial"}, cpu_cfu,
             IF o.main_ram THEN {main_ram(integrated_main_ram_size)} ELSE {}) >>
  \o When(~o.main_ram /\ o.with_sdram, Sdram(o.sdram_init # "none"))
  \o Ethernet(o) \o Devices(o)

SimModule(pads) == Call(pads # {}, {}, {}, {<<"module", p>> : p \in pads}, {}, 0)

(* The image main loads: of the integrated memory if there is one, else of *)
(* the SDRAM, else none.                                                   *)
SimImage(o) ==
  IF o.main_ram THEN o.ram_init ELSE IF o.with_sdram THEN o.sdram_init ELSE "none"

(* Devices outside the SoC, and the address the BIOS boots from. *)
LitexSimMain(o) ==
  << SimModule({"serial"}) >>
  \o When(o.main_ram /\ o.ram_init # "none", << Makes({<<"contents", "main_ram">>}) >>)
  \o When(~o.main_ram /\ o.with_sdram, << Asserts(o.ram_init = "none") >>)
  \o When(o.with_ethernet \/ o.with_etherbone,
       << SimModule(EthPads(o.phy)) >>)
  \o When("i2c" \in o.devices, << SimModule({"i2c"}) >>)
  \o SimSoC(o, FALSE)
  \o When(SimImage(o) # "none", << Makes({<<"const", "ROM_BOOT_ADDRESS">>}) >>)
  \o When(o.with_ethernet,
       << Makes({<<"const", "LOCALIP">>, <<"const", "REMOTEIP">>}) >>)

-----------------------------------------------------------------------------
(* soc/sim.py *)

(* What sim.py asks of SimSoC. *)
SimArgs(o) ==
  [main_ram |-> TRUE, ram_init |-> IF o.run /\ o.bin THEN "bin" ELSE "none",
   with_sdram |-> FALSE, sdram_init |-> "none", with_ethernet |-> FALSE,
   with_etherbone |-> FALSE, phy |-> "sim", devices |-> {}]

(* cfu_mport implies separate_arena *)
SimSeparateArena(o) == o.separate_arena \/ o.cfu_mport

SimArena(o) ==
  IF SimSeparateArena(o)
  THEN << Makes({<<"config", "SOC_SEPARATE_ARENA">>}),
          Call(TRUE, {}, {}, {Attr("arena")}, {sim_arena}, 0) >>
  ELSE << Maps({}, Window("none", sim_arena.origin, 0)) >>

SimMain(o) ==
  When(o.run /\ o.bin, << Makes({<<"contents", "main_ram">>}) >>)
  \o SimSoC(SimArgs(o), o.cpu_cfu)
  \o SimArena(o)
  \o When(o.cfu_mport,
       << From({Attr("arena"), Attr("cpu.cfu_params")}, {<<"cfu_ports", "4">>}) >>)
  \o << SimModule({"serial"}),
        Makes({<<"const", "ROM_BOOT_ADDRESS">>}) >>
  \o When(o.run, << Makes({<<"file", "run">>}) >>)
=============================================================================
