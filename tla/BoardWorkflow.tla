---------------------------- MODULE BoardWorkflow ----------------------------
(***************************************************************************)
(* common_soc.py, run over and over for one board and one output           *)
(* directory: it makes a SoC and perhaps the core of its CPU, builds       *)
(* software and gateware, loads them, or loads the software of the user.   *)
(* Files and flash outlive a run; a run may be killed at any step.  Sizes  *)
(* and addresses in flash are in units of 64 KB.                           *)
(***************************************************************************)
EXTENDS CpuVariants, FiniteSets

CONSTANTS
  Targets,         \* boards
  Variants,        \* what --cpu-variant may say
  Sizes            \* of gateware for a board: what the toolchain may make of it

ASSUME WorkflowAssumption ==
  /\ Targets \subseteq {"general", "digilent_arty", "icebreaker",
                        "kosagi_fomu", "unsupported"}
  /\ Sizes \in [Targets -> SUBSET (1 .. 4)]
  /\ Variants \subseteq
       [name : STRING, cfu : BOOLEAN, params : SUBSET (STRING \X STRING)]
  (* A variant says a parameter once, cfu as a word of its own, and writes *)
  (* a value in one way: true or false, and numbers without leading zeros. *)
  /\ \A v \in Variants : \A p, q \in v.params :
       /\ p[1] = q[1] => p = q
       /\ p[1] # "cfu"
       /\ p[1] \in {"mulDiv", "hardwareDiv"} => p[2] \in {"true", "false"}

VARIABLES
  target,
  cores,           \* soc/vexriscv/: what is in the file of a core
  vdir,            \* the files of cores where LiteX looks for them
  out,             \* the output directory: gateware and bios
  flash,           \* of the board: a unit's content
  run              \* the process

vars == <<target, cores, vdir, out, flash, run>>

None == [what |-> "none"]
Garbage == [what |-> "garbage"]
Empty == [what |-> "empty"]

Ice40 == target \in {"icebreaker", "kosagi_fomu"}
FlashUnits == 0 .. 7

Fomu(cfu) == Variant("fomu", cfu, {})
Supported == Variants \cup {Fomu(TRUE), Fomu(FALSE)}
Files == {CoreFile(v) : v \in Supported}

(* Cores that come with the repository, and those that come with LiteX. *)
InRepository(v) ==
  /\ Known(v)
  /\ v.name \in LitexNames => v = Variant("minimal", TRUE, {})
Shipped == {CoreFile(v) : v \in {w \in Supported : InRepository(w)}}
Litex == {CoreFile(v) : v \in {w \in Variants : Known(w) /\ ~InRepository(w)}}

(* The contents of a core's file: what the core has, and whether it is the *)
(* first of its name; half of a file; a core of LiteX, of which nothing is *)
(* known here.                                                             *)
NoCore == [rev |-> "none"]
PartOfCore == [rev |-> "part"]
LitexCore == [rev |-> "litex"]
NewCore(options) == [rev |-> "v1", has |-> GenCoreDefault(options)]

Idle == [pc |-> "idle", status |-> "none"]

Init ==
  /\ target \in Targets
  /\ cores = [f \in Files |-> IF f \in Shipped THEN NewCore(MakefileOptions(f.name))
                              ELSE NoCore]
  /\ vdir = [f \in Files |-> IF f \in Litex THEN LitexCore ELSE NoCore]
  /\ out = [gateware |-> None, bios |-> None]
  /\ flash = [u \in FlashUnits |-> None]
  /\ run = Idle

-----------------------------------------------------------------------------
(* The arguments of a run, as the Makefile combines them: what is built is *)
(* compiled for too.                                                       *)
Arguments ==
  {a \in [software : BOOLEAN, build : BOOLEAN, load : BOOLEAN, compile : BOOLEAN,
          network : SUBSET {"ethernet", "etherbone"}, variant : Variants,
          toolchain : {"", "symbiflow"}] :
     /\ a.software => ~a.build /\ ~a.load /\ a.compile
     /\ a.toolchain # "" => target = "digilent_arty" /\ a.build
     /\ a.build => a.compile
     /\ a.network = {} \/ (Cardinality(a.network) = 2 /\ a.build)}

(* common_soc.main reads its arguments. *)
Start ==
  /\ run.pc = "idle"
  /\ \E a \in Arguments :
       run' = [pc |-> "parsed", status |-> "running", args |-> a,
               offset |-> 0, soc |-> None, image |-> None, failed |-> FALSE]
  /\ UNCHANGED <<target, cores, vdir, out, flash>>

(* The process ends: "ok" is a status of zero. *)
Ends(status) ==
  run' = IF status = "ok" THEN [run EXCEPT !.pc = "idle", !.status = "ok", !.image = None]
         ELSE [pc |-> "idle", status |-> status]

(* The boards of LiteX, then those of the repository; a board of neither,  *)
(* and Ethernet with Etherbone, raise.                                     *)
CannotConstruct ==
  \/ target = "unsupported"
  \/ run.args.network = {"ethernet", "etherbone"}

ConstructRaises ==
  /\ run.pc = "parsed" /\ CannotConstruct
  /\ Ends("raised")
  /\ UNCHANGED <<target, cores, vdir, out, flash>>

(* allowed_variants: "fonu+cfu" is what the source says. *)
Allowed ==
  {Variant("minimal", FALSE, {}), Variant("minimal", TRUE, {}), Fomu(FALSE)}
  \cup (IF target = "kosagi_fomu" THEN {Variant("fonu", TRUE, {})}
        ELSE {Fomu(TRUE), Variant("breaker", FALSE, {}),
              Variant("breaker", TRUE, {})})

(* Boards with an iCE40UP5K take fomu for a variant they do not support. *)
VariantFor(v) == IF Ice40 /\ v \notin Allowed THEN Fomu(v.cfu) ELSE v

BiosFlashOffset ==
  CASE target = "kosagi_fomu" -> 6
    [] target = "icebreaker" -> 3
    [] OTHER -> 0

(* The workflow of the board is constructed. *)
Construct ==
  /\ run.pc = "parsed" /\ ~CannotConstruct
  /\ run' = [run EXCEPT !.pc = IF run.args.software THEN "software" ELSE "make",
                        !.args.variant = VariantFor(@),
                        !.offset = BiosFlashOffset]
  /\ UNCHANGED <<target, cores, vdir, out, flash>>

-----------------------------------------------------------------------------
(* make_soc *)

File == CoreFile(run.args.variant)

SysClkFreq == IF run.args.toolchain = "symbiflow" THEN "75MHz" ELSE "100MHz"

(* Fault: the SoC is made with the offset of the base class. *)
ResetOffsetOfBase == IF Ice40 THEN 3 ELSE 0

ResetOffset == run.offset

(* The SoC is constructed: the CPU starts at the offset of the BIOS. *)
Made ==
  run' = [run EXCEPT !.pc = "copy",
                     !.soc = [what |-> "soc", variant |-> run.args.variant,
                              reset |-> ResetOffset, freq |-> SysClkFreq]]

MakeKnown ==
  /\ run.pc = "make" /\ Known(run.args.variant)
  /\ Made
  /\ UNCHANGED <<target, cores, vdir, out, flash>>

(* A variant that is neither known nor to be generated: exit(). *)
MakeExits ==
  /\ run.pc = "make" /\ ~Known(run.args.variant) /\ ~Generated(run.args.variant)
  /\ Ends("ok")
  /\ UNCHANGED <<target, cores, vdir, out, flash>>

MakeRaises ==
  /\ run.pc = "make" /\ Generated(run.args.variant) /\ ~Recognized(run.args.variant)
  /\ Ends("raised")
  /\ UNCHANGED <<target, cores, vdir, out, flash>>

(* The core has been generated before, or is now; it is copied to LiteX,   *)
(* and the variant is known from here on.                                  *)
MakeGenerated ==
  /\ run.pc = "make" /\ Generated(run.args.variant) /\ Recognized(run.args.variant)
  /\ cores' = [cores EXCEPT ![File] = IF @ # NoCore THEN @
                                     ELSE NewCore(CpuParams(run.args.variant))]
  /\ vdir' = [vdir EXCEPT ![File] = cores'[File]]
  /\ Made
  /\ UNCHANGED <<target, out, flash>>

(* Fault: the status of sbt is not looked at. *)
GenerateFailsOn ==
  /\ run.pc = "make" /\ Generated(run.args.variant) /\ Recognized(run.args.variant)
  /\ cores[File] = NoCore
  /\ cores' = [cores EXCEPT ![File] = PartOfCore]
  /\ vdir' = [vdir EXCEPT ![File] = cores'[File]]
  /\ run' = [run EXCEPT !.pc = "copy", !.failed = TRUE,
                        !.soc = [what |-> "soc", variant |-> run.args.variant,
                                 reset |-> ResetOffset, freq |-> SysClkFreq]]
  /\ UNCHANGED <<target, out, flash>>

(* sbt fails, or is killed half way through the file. *)
GenerateFails ==
  /\ run.pc = "make" /\ Generated(run.args.variant) /\ Recognized(run.args.variant)
  /\ cores[File] = NoCore
  /\ \E left \in {NoCore, PartOfCore} : cores' = [cores EXCEPT ![File] = left]
  /\ Ends("raised")
  /\ UNCHANGED <<target, vdir, out, flash>>

-----------------------------------------------------------------------------
(* build_soc *)

(* Fault: a core LiteX has is not copied again. *)
CopyCoreOnce ==
  /\ run.pc = "copy"
  /\ vdir' = [vdir EXCEPT ![File] = IF @ = NoCore THEN cores[File] ELSE @]
  /\ run' = [run EXCEPT !.pc = "compile"]
  /\ UNCHANGED <<target, cores, out, flash>>

CopyCore ==
  /\ run.pc = "copy"
  /\ vdir' = [vdir EXCEPT ![File] = IF cores[File] # NoCore THEN cores[File] ELSE @]
  /\ run' = [run EXCEPT !.pc = "compile"]
  /\ UNCHANGED <<target, cores, out, flash>>

(* The Builder compiles the BIOS, for the SoC, ... *)
Compile ==
  /\ run.pc = "compile"
  /\ out' = IF run.args.compile THEN [out EXCEPT !.bios =
              [what |-> "bios", variant |-> run.soc.variant, reset |-> run.soc.reset]]
            ELSE out
  /\ run' = [run EXCEPT !.pc = IF run.args.build THEN "synthesize" ELSE "load"]
  /\ UNCHANGED <<target, cores, vdir, flash>>

(* ... and the toolchain puts its bitstream in place when all went well.   *)
Synthesize ==
  /\ run.pc = "synthesize"
  /\ \E size \in Sizes[target] :
       out' = [out EXCEPT !.gateware =
                 [what |-> "gateware", variant |-> run.soc.variant,
                  reset |-> run.soc.reset, freq |-> run.soc.freq,
                  core |-> vdir[File], size |-> size]]
  /\ run' = [run EXCEPT !.pc = "load"]
  /\ UNCHANGED <<target, cores, vdir, flash>>

SynthesisFails ==
  /\ run.pc = "synthesize"
  /\ Ends("raised")
  /\ UNCHANGED <<target, cores, vdir, out, flash>>

-----------------------------------------------------------------------------
(* load and software_load *)

SoftwareUnit(s) == [what |-> "software", of |-> s]

(* The contents of an image: gateware, then perhaps software behind it. *)
GatewareImage(g) == [k \in 0 .. g.size - 1 |-> [what |-> "part", of |-> g, k |-> k]]

(* Units from an address on are overwritten. *)
Flashed(at, image) ==
  [u \in FlashUnits |-> IF u - at \in DOMAIN image THEN image[u - at] ELSE flash[u]]

Loads == run.pc = "load" /\ run.args.load

(* Nothing to load: no --load, or a Fomu. *)
LoadNothing ==
  /\ run.pc = "load" /\ (~run.args.load \/ target = "kosagi_fomu")
  /\ Ends("ok")
  /\ UNCHANGED <<target, cores, vdir, out, flash>>

LoadRaises ==
  /\ Loads /\ target # "kosagi_fomu" /\ out.gateware = None
  /\ Ends("raised")
  /\ UNCHANGED <<target, cores, vdir, out, flash>>

LoadGateware ==
  /\ Loads /\ target # "kosagi_fomu" /\ out.gateware # None
  /\ flash' = Flashed(0, GatewareImage(out.gateware))
  /\ IF target = "icebreaker" THEN run' = [run EXCEPT !.pc = "load_bios"]
     ELSE Ends("ok")
  /\ UNCHANGED <<target, cores, vdir, out>>

(* The iCEbreaker gets the BIOS after the gateware. *)
LoadBios ==
  /\ run.pc = "load_bios"
  /\ IF out.bios = None THEN Ends("raised") /\ UNCHANGED flash
     ELSE /\ flash' = Flashed(run.offset, [k \in {0} |-> SoftwareUnit(out.bios)])
          /\ Ends("ok")
  /\ UNCHANGED <<target, cores, vdir, out>>

(* The user's software, compiled for the SoC of the output directory. *)
App == [out.bios EXCEPT !.what = "app"]

(* Boards with a serial boot have nothing to do; files may be missing. *)
SoftwareNothing ==
  /\ run.pc = "software" /\ ~Ice40
  /\ Ends("ok")
  /\ UNCHANGED <<target, cores, vdir, out, flash>>

SoftwareRaises ==
  /\ run.pc = "software" /\ Ice40
  /\ out.bios = None \/ (target = "kosagi_fomu" /\ out.gateware = None)
  /\ Ends("raised")
  /\ UNCHANGED <<target, cores, vdir, out, flash>>

SoftwareIcebreaker ==
  /\ run.pc = "software" /\ target = "icebreaker" /\ out.bios # None
  /\ flash' = Flashed(run.offset, [k \in {0} |-> SoftwareUnit(App)])
  /\ Ends("ok")
  /\ UNCHANGED <<target, cores, vdir, out>>

(* fomu_image_builder opens its three files and empties the image: what an *)
(* earlier run has left in it is gone.                                     *)
OpenImage ==
  /\ run.pc = "software" /\ target = "kosagi_fomu"
  /\ out.bios # None /\ out.gateware # None
  /\ run' = [run EXCEPT !.pc = "create_image", !.image = Empty]
  /\ UNCHANGED <<target, cores, vdir, out, flash>>

(* Fault: gateware that is too large is cut short by the software. *)
TooLargeNever == FALSE

(* Where the software starts in the image: the first units of the flash    *)
(* are reserved.                                                           *)
Reserved == 4
TooLarge == out.gateware.size > run.offset - Reserved

CreateImageRaises ==
  /\ run.pc = "create_image" /\ TooLarge
  /\ Ends("raised")
  /\ UNCHANGED <<target, cores, vdir, out, flash>>

CreateImage ==
  /\ run.pc = "create_image" /\ ~TooLarge
  /\ LET at == run.offset - Reserved
         part == GatewareImage(out.gateware)
         filled == [k \in 0 .. at |-> IF k \in DOMAIN part THEN part[k] ELSE Empty]
     IN run' = [run EXCEPT !.pc = "program_image",
                           !.image = [filled EXCEPT ![at] = SoftwareUnit(App)]]
  /\ UNCHANGED <<target, cores, vdir, out, flash>>

(* DFU puts the image behind the reserved units. *)
ProgramImage ==
  /\ run.pc = "program_image"
  /\ flash' = Flashed(Reserved, run.image)
  /\ Ends("ok")
  /\ UNCHANGED <<target, cores, vdir, out>>

(* The process is killed; if it was programming the board, the flash is    *)
(* left with part of what was to be written.                               *)
Killed ==
  /\ run.pc # "idle"
  /\ Ends("killed")
  /\ \/ UNCHANGED flash
     \/ /\ Loads /\ target # "kosagi_fomu" /\ out.gateware # None
        /\ flash' = Flashed(0, [GatewareImage(out.gateware) EXCEPT
                                  ![out.gateware.size - 1] = Garbage])
     \/ /\ \/ run.pc = "load_bios"
           \/ run.pc = "software" /\ target = "icebreaker"
        /\ out.bios # None
        /\ flash' = Flashed(run.offset, [k \in {0} |-> Garbage])
     \/ /\ run.pc = "program_image"
        /\ flash' = Flashed(Reserved, [k \in {0} |-> Garbage])
  /\ UNCHANGED <<target, cores, vdir, out>>

(* Someone makes a core of the repository anew: one core, once. *)
CoreChanges ==
  /\ run.pc = "idle" /\ \A f \in Files : cores[f].rev # "v2"
  /\ \E f \in Shipped \cap {CoreFile(VariantFor(v)) : v \in Variants} :
       cores' = [cores EXCEPT ![f].rev = "v2"]
  /\ UNCHANGED <<target, vdir, out, flash, run>>

Make == MakeKnown \/ MakeExits \/ MakeRaises \/ MakeGenerated \/ GenerateFails
Build == CopyCore \/ Compile \/ Synthesize \/ SynthesisFails
Load == LoadNothing \/ LoadRaises \/ LoadGateware \/ LoadBios
SoftwareLoad ==
  \/ SoftwareNothing \/ SoftwareRaises \/ SoftwareIcebreaker
  \/ OpenImage \/ CreateImageRaises \/ CreateImage \/ ProgramImage

Next ==
  Start \/ ConstructRaises \/ Construct \/ Make \/ Build \/ Load \/ SoftwareLoad
  \/ Killed \/ CoreChanges

Spec == Init /\ [][Next]_vars

-----------------------------------------------------------------------------
Ok == run.pc = "idle" /\ run.status = "ok"

(* Software that was loaded is where the CPU of the SoC it was compiled    *)
(* for starts; on the Fomu, with the gateware of the output directory, all *)
(* of it, before it.                                                       *)
SoftwareAtReset ==
  Ok /\ run.args.software /\ Ice40 =>
    /\ out.bios.reset \in FlashUnits
    /\ flash[out.bios.reset] = SoftwareUnit(App)
    /\ target = "kosagi_fomu" =>
         /\ out.gateware.reset = out.bios.reset
         /\ \A k \in DOMAIN GatewareImage(out.gateware) :
              flash[Reserved + k] = GatewareImage(out.gateware)[k]

(* Gateware on a board is whole, unless programming it was cut, whatever   *)
(* is loaded after it, and wherever that is cut: on the iCEbreaker as long *)
(* as it ends before the software starts, which nothing but the comment on *)
(* the offset says.                                                        *)
GatewareWhole ==
  \A u \in FlashUnits :
    /\ flash[u].what = "part" /\ flash[u].k = 0
    /\ \A k \in DOMAIN GatewareImage(flash[u].of) : flash[u + k] # Garbage
    /\ target = "icebreaker" => flash[u].of.size <= BiosFlashOffset
    => \A k \in DOMAIN GatewareImage(flash[u].of) :
         flash[u + k] = GatewareImage(flash[u].of)[k]

(* A run that was to build and ends with a status of zero did: no step of  *)
(* it failed and the gateware is of the SoC it was asked for.  The variant *)
(* that exits with zero and builds nothing is the exception.               *)
OkMeansBuilt ==
  Ok /\ run.args.build =>
    \/ ~Known(run.args.variant) /\ ~Generated(run.args.variant)
    \/ /\ ~run.failed
       /\ out.gateware.variant = run.args.variant
       /\ out.gateware.reset = run.offset
       /\ run.args.toolchain = "symbiflow" => out.gateware.freq # "100MHz"
       /\ run.args.load /\ target # "kosagi_fomu" =>
            flash[0] = GatewareImage(out.gateware)[0]

(* "always copy to ensure the most up-to-date version is used": a core of  *)
(* the repository is built as it is now.                                   *)
UsesLatestCore ==
  [][out'.gateware # out.gateware /\ cores[File] # NoCore
       => out'.gateware.core = cores[File]]_vars

(* Software runs on the gateware beside it: what the compiler was told of  *)
(* a variant is what the core has that the gateware was built with,        *)
(* whichever run made that core.  Of LiteX's cores nothing is known here,  *)
(* and half of a core is no core.                                          *)
IsCore(c) == c.rev \in {"v1", "v2"}

RunsOnItsCore ==
  /\ out.bios # None /\ out.gateware # None
  /\ out.gateware.variant = out.bios.variant /\ IsCore(out.gateware.core)
  => LET flags == GccFlags(out.bios.variant)
         core == out.gateware.core.has
     IN /\ flags.mul => core.mul
        /\ flags.div => core.div
        /\ HasDcacheConfig(out.bios.variant) <=> core.dcache

-----------------------------------------------------------------------------
(* What the theorems need. *)

(* Where the flash of the board has the gateware.                          *)
GatewareUnit == IF target = "kosagi_fomu" THEN Reserved ELSE 0

(* The output directory of a board has software and gateware whose CPU     *)
(* starts where the board has the software.                                *)
OutInv ==
  /\ target \in Targets
  /\ out = [gateware |-> out.gateware, bios |-> out.bios]
  /\ out.bios # None =>
       out.bios = [what |-> "bios", variant |-> out.bios.variant,
                   reset |-> BiosFlashOffset]
  /\ out.gateware # None => /\ out.gateware.reset = BiosFlashOffset
                            /\ out.gateware.size \in 1 .. 4

(* What a process knows after each of its steps.                           *)
RunInv ==
  /\ run.pc \in {"idle", "parsed", "make", "copy", "compile", "synthesize",
                 "load", "load_bios", "software", "create_image",
                 "program_image"}
  /\ run.pc # "idle" \/ run.status = "ok" =>
       /\ run = [pc |-> run.pc, status |-> run.status, args |-> run.args,
                 offset |-> run.offset, soc |-> run.soc, image |-> run.image,
                 failed |-> FALSE]
       /\ run.args = [software |-> run.args.software, build |-> run.args.build,
                      load |-> run.args.load, compile |-> run.args.compile,
                      network |-> run.args.network, variant |-> run.args.variant,
                      toolchain |-> run.args.toolchain]
       /\ File \in Files
       /\ run.args.build => run.args.compile /\ ~run.args.software
       /\ run.pc = "parsed" => run.args.variant \in Variants
       /\ run.pc # "parsed" => run.offset = BiosFlashOffset
  /\ run.pc = "make" => ~run.args.software
  /\ run.pc \in {"copy", "compile", "synthesize", "load", "load_bios"} =>
       /\ ~run.args.software
       /\ run.soc = [what |-> "soc", variant |-> run.args.variant,
                     reset |-> run.offset, freq |-> SysClkFreq]
  /\ run.pc \in {"software", "create_image", "program_image"} =>
       run.args.software
  /\ run.pc = "load_bios" => target = "icebreaker"
  /\ run.pc \in {"create_image", "program_image"} =>
       target = "kosagi_fomu" /\ out.bios # None /\ out.gateware # None

(* Once the core has been copied, LiteX has it as the repository has it.   *)
CoreInv ==
  /\ DOMAIN cores = Files /\ DOMAIN vdir = Files
  /\ vdir = [f \in Files |-> vdir[f]]
  /\ run.pc \in {"compile", "synthesize"} /\ cores[File] # NoCore =>
       vdir[File] = cores[File]

(* What the run has synthesized is in the output directory; what it loads  *)
(* is what the directory has.                                              *)
BuildInv ==
  /\ run.pc \in {"load", "load_bios"} /\ run.args.build =>
       /\ out.gateware # None
       /\ out.gateware.variant = run.args.variant
       /\ out.gateware.freq = SysClkFreq
  /\ run.pc = "load_bios" =>
       /\ out.gateware # None
       /\ flash[0] = GatewareImage(out.gateware)[0]

ImageInv ==
  run.pc = "program_image" =>
    /\ out.gateware.size <= run.offset - Reserved
    /\ DOMAIN run.image = 0 .. run.offset - Reserved
    /\ run.image[run.offset - Reserved] = SoftwareUnit(App)
    /\ \A k \in 0 .. out.gateware.size - 1 :
         run.image[k] = GatewareImage(out.gateware)[k]
    /\ \A k \in out.gateware.size .. run.offset - Reserved - 1 : run.image[k] = Empty

(* Gateware in flash starts at one place only, and is whole, or has been   *)
(* cut short or overwritten by the software behind it.                     *)
FlashInv ==
  /\ flash = [u \in FlashUnits |-> flash[u]]
  /\ \A u \in FlashUnits : flash[u].what = "part" /\ flash[u].k = 0 =>
       /\ u = GatewareUnit
       /\ flash[u].of.size \in 1 .. 4
       /\ \/ \A k \in 0 .. flash[u].of.size - 1 :
               flash[u + k] = GatewareImage(flash[u].of)[k]
          \/ \E k \in 0 .. flash[u].of.size - 1 : flash[u + k] = Garbage
          \/ target = "icebreaker" /\ flash[u].of.size > BiosFlashOffset

IInv == /\ OutInv
        /\ RunInv
        /\ CoreInv
        /\ BuildInv
        /\ ImageInv
        /\ FlashInv
        /\ SoftwareAtReset
        /\ OkMeansBuilt

(* Wherever there is a core, it has what the name of its file says.        *)
CoreOf(f) ==
  GenCoreDefault(IF f.of = "generate" THEN f.options ELSE MakefileOptions(f.name))

IsCoreOf(f, c) == IsCore(c) => c = [rev |-> c.rev, has |-> CoreOf(f)]

CoreContents ==
  /\ \A f \in Files : /\ IsCoreOf(f, cores[f]) /\ IsCoreOf(f, vdir[f])
                      /\ f \in Shipped => IsCore(cores[f])
  /\ run.pc # "idle" => run.args.variant \in Supported
  /\ out.bios # None => out.bios.variant \in Supported
  /\ out.gateware # None =>
       IsCoreOf(CoreFile(out.gateware.variant), out.gateware.core)
=============================================================================
