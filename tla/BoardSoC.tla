------------------------------ MODULE BoardSoC -------------------------------
(***************************************************************************)
(* custom_boards/targets: digilent_arty_cfu_ram.py and                     *)
(* gsd_orangecrab_cfu_ram.py.  The calls that put the SoC of a board       *)
(* together, build its bitstream and load it.                              *)
(***************************************************************************)
EXTENDS SocCalls

bitstream == <<"file", "bitstream">>

(* What building and programming have in common; an earlier build may have *)
(* left a bitstream behind.                                                *)
BuildOptions ==
  [main_ram : BOOLEAN, build : BOOLEAN, load : BOOLEAN, left : BOOLEAN]

BuildAndLoad(o) ==
  When(o.left, << Makes({bitstream}) >>)
  \o When(o.build, << Makes({bitstream, <<"file", "fresh">>}) >>)
  \o When(o.load, << From({bitstream}, {<<"board", "loaded">>}) >>)

(* Fault: the CPU class is registered after the SoC has made its CPU.      *)
CfuRamSoCCoreLate(uart, needed, windows) ==
  << Call(TRUE, needed \cup {<<"CPUS", "VexRiscvCFURAM">>}, uart,
          {Attr("cpu"), Attr("cfu_mem")},
          {Window("rom", 0, 2), Window("csr", 61440, 1)} \cup windows, 0),
     Makes({<<"CPUS", "VexRiscvCFURAM">>}) >>

(* The CPU with a port into the memory replaces LiteX's own CPU. *)
CfuRamSoCCore(uart, needed, windows) ==
  << Makes({<<"CPUS", "VexRiscvCFURAM">>}),
     Call(TRUE, needed \cup {<<"CPUS", "VexRiscvCFURAM">>}, uart,
          {Attr("cpu"), Attr("cfu_mem")},
          {Window("rom", 0, 2), Window("csr", 61440, 1)} \cup windows, 0) >>

MainRam(o) == IF o.main_ram THEN {Window("main_ram", 16384, 1)} ELSE {}

DramWindow == Window("main_ram", 16384, 4096)

-----------------------------------------------------------------------------
(* digilent_arty_cfu_ram.py *)

ArtyOptions ==
  {[main_ram |-> b.main_ram, build |-> b.build, load |-> b.load,
    left |-> b.left, ethernet |-> e, eth_dynamic_ip |-> d, devices |-> s] :
     b \in BuildOptions, e \in {"none", "ethernet", "etherbone"}, d \in BOOLEAN,
     s \in SUBSET {"spi_flash", "pmod_gpio", "spi_sdcard"}}

ArtyPads == {"clk100", "cpu_reset", "eth_ref_clk", "serial", "ddram",
             "eth_clocks", "eth", "user_led", "spiflash4x"}

ArtyCRG(with_dram) ==
  Requests({"clk100", "cpu_reset", "eth_ref_clk"},
           {Attr("crg")} \cup IF with_dram THEN {Attr("crg.idelay")} ELSE {})

ArtyDram(o) ==
  When(~o.main_ram,
    << Call(TRUE, {Attr("crg.idelay")}, {"ddram"}, {Attr("ddrphy")}, {}, 0),
       Maps({Attr("ddrphy")}, DramWindow) >>)

ArtyEthernet(o) ==
  When(o.ethernet # "none",
    << Requests({"eth_clocks", "eth"}, {Attr("ethphy")}),
       From({Attr("ethphy")}, {<<"attr", o.ethernet>>}) >>)

(* Pads of an extension are added to the platform before they are asked for. *)
ArtyDevices(o) ==
  When("spi_flash" \in o.devices, << Requests({"spiflash4x"}, {}) >>)
  \o << Requests({"user_led"}, {Attr("leds")}) >>
  \o When("pmod_gpio" \in o.devices,
       << Makes({<<"extension", "pmoda">>}), Requests({"pmoda"}, {Attr("gpio")}) >>)

ArtyBaseSoC(o) ==
  << ArtyCRG(~o.main_ram) >>
  \o CfuRamSoCCore({"serial"}, {Attr("crg")}, MainRam(o))
  \o ArtyDram(o) \o ArtyEthernet(o) \o ArtyDevices(o)

ArtyMain(o) ==
  << Asserts(~(o.ethernet = "etherbone" /\ o.eth_dynamic_ip)) >>
  \o ArtyBaseSoC(o)
  \o << Makes({<<"extension", "spisdcard">>}) >>
  \o When("spi_sdcard" \in o.devices, << Requests({"spisdcard"}, {Attr("sdcard")}) >>)
  \o BuildAndLoad(o)

-----------------------------------------------------------------------------
(* gsd_orangecrab_cfu_ram.py *)

OrangecrabOptions ==
  {[main_ram |-> b.main_ram, build |-> b.build, load |-> b.load,
    left |-> b.left, sdram_device |-> d, with_spi_sdcard |-> s] :
     b \in BuildOptions, d \in {"MT41K64M16", "unknown"}, s \in BOOLEAN}

OrangecrabPads == {"clk48", "usr_btn", "rst_n", "usb", "ddram", "user_led",
                   "spisdcard"}

(* _CRGSDRAM or _CRG, both with the PLL for USB. *)
OrangecrabCRG(with_dram) ==
  Requests({"clk48", "usr_btn", "rst_n"},
           {Attr("crg"), <<"clock", "usb_12">>, <<"clock", "usb_48">>}
           \cup IF with_dram THEN {Attr("crg.stop"), Attr("crg.reset")} ELSE {})

(* An unknown device is noticed only when its module is made. *)
OrangecrabDram(o) ==
  When(~o.main_ram,
    << Requests({"ddram"}, {Attr("ddrphy")}),
       From({Attr("ddrphy"), Attr("crg.stop"), Attr("crg.reset")}, {}),
       Call(o.sdram_device = "MT41K64M16", {Attr("ddrphy")}, {}, {},
            {DramWindow}, 0) >>)

(* The UART is USB ACM, whatever was asked for. *)
OrangecrabBaseSoC(o) ==
  << OrangecrabCRG(~o.main_ram) >>
  \o CfuRamSoCCore({"usb"}, {Attr("crg"), <<"clock", "usb_12">>,
                             <<"clock", "usb_48">>}, MainRam(o))
  \o OrangecrabDram(o)
  \o << Requests({"user_led"}, {Attr("leds")}) >>

OrangecrabMain(o) ==
  OrangecrabBaseSoC(o)
  \o When(o.with_spi_sdcard, << Requests({"spisdcard"}, {Attr("sdcard")}) >>)
  \o BuildAndLoad(o)
=============================================================================
