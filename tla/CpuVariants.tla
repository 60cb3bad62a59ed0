----------------------------- MODULE CpuVariants -----------------------------
(***************************************************************************)
(* The variants of the VexRiscv core.  A variant is a string of words      *)
(* joined by +: a name, perhaps "cfu", and parameters "name:value".  The   *)
(* known ones have their core in soc/vexriscv/ or in LiteX; "generate"     *)
(* has its core made from the parameters, in soc/vexriscv/ too.            *)
(***************************************************************************)
EXTENDS Integers

Variant(name, cfu, params) == [name |-> name, cfu |-> cfu, params |-> params]

HasDivNot(v) == v.name \in {"fomu", "breaker"}

(* The tables that patch_cpu_variant extends. *)
PatchedNames ==
  [plain |-> {"fomu", "breaker", "custom", "fpu"},
   cfu |-> {"fomu", "breaker", "custom", "fpu", "hps", "hpsdelta", "dbpl8",
            "minimal", "slim", "slimopt", "perf", "slimperf"}]

(* What LiteX knows by itself. *)
LitexNames == {"minimal", "standard", "full"}

Known(v) ==
  /\ v.params = {}
  /\ \/ v.name \in LitexNames
     \/ v.name \in (IF v.cfu THEN PatchedNames.cfu ELSE PatchedNames.plain)

Generated(v) == v.name = "generate"

DefaultParams ==
  [hardwareDiv |-> "false", mulDiv |-> "true",
   iCacheSize |-> "4096", dCacheSize |-> "4096", cfu |-> "false"]

(* A parameter that is none of these raises a ValueError. *)
Recognized(v) == \A p \in v.params : p[1] \in DOMAIN DefaultParams

CpuParams(v) ==
  [p \in DOMAIN DefaultParams |->
     CASE \E given \in v.params : given[1] = p ->
            (CHOOSE given \in v.params : given[1] = p)[2]
       [] p = "cfu" /\ v.cfu -> "true"
       [] OTHER -> DefaultParams[p]]

(* Fault: the name of the file leaves the size of the data cache out. *)
CoreFileNoCache(v) ==
  IF Generated(v)
  THEN [of |-> "generate",
        options |-> [p \in DOMAIN DefaultParams \ {"dCacheSize"} |-> CpuParams(v)[p]]]
  ELSE [of |-> "repository", name |-> v.name, cfu |-> v.cfu]

(* The file of the core: all parameters are in its name. *)
CoreFile(v) ==
  IF Generated(v) THEN [of |-> "generate", options |-> CpuParams(v)]
  ELSE [of |-> "repository", name |-> v.name, cfu |-> v.cfu]

-----------------------------------------------------------------------------
(* The cores *)

(* The recipes for the cores of the repository, as far as they tell        *)
(* instructions and caches apart; 4096 stands for any size of a cache, and *)
(* a core is made with a divider when its recipe does not say.             *)
MakefileOptions(name) ==
  CASE name = "minimal" ->
         [mulDiv |-> "false", hardwareDiv |-> "true", dCacheSize |-> "0"]
    [] name \in {"fomu", "breaker"} ->
         [mulDiv |-> "true", hardwareDiv |-> "false", dCacheSize |-> "0"]
    [] OTHER ->
         [mulDiv |-> "true", hardwareDiv |-> "true", dCacheSize |-> "4096"]

(* What a core has, made with the options o: the plugins it consists of.   *)
GenCoreDefault(o) ==
  [mul |-> o.mulDiv = "true",
   div |-> o.mulDiv = "true" /\ o.hardwareDiv = "true",
   dcache |-> o.dCacheSize # "0"]

-----------------------------------------------------------------------------
(* What the compiler is told *)

(* -march=rv32im or rv32i, with or without -mno-div *)
GccFlags(v) ==
  [mul |-> IF Generated(v) THEN CpuParams(v).mulDiv # "false"
           ELSE v.name # "minimal",
   div |-> IF Generated(v)
           THEN CpuParams(v).mulDiv # "false" /\ CpuParams(v).hardwareDiv # "false"
           ELSE v.name # "minimal" /\ ~HasDivNot(v)]

(* CONFIG_CPU_HAS_DCACHE: the software flushes the cache.  For a core that *)
(* is generated, the words of the variant are searched for dCacheSize:0.   *)
HasDcacheConfig(v) ==
  /\ ~HasDivNot(v) /\ v.name # "minimal"
  /\ Generated(v) => <<"dCacheSize", "0">> \notin v.params
=============================================================================
