--------------------------- MODULE MCBoardWorkflow ---------------------------
EXTENDS BoardWorkflow

(* The default of workflow_args.py, which boards with an iCE40 replace by  *)
(* a core of the repository; a variant that is misspelt; those that are    *)
(* generated: two whose cores differ in one parameter, and one with a      *)
(* parameter that does not exist.                                          *)
MCVariants ==
  {Variant("full", TRUE, {}), Variant("fonu", TRUE, {}),
   Variant("generate", FALSE, {}),
   Variant("generate", FALSE, {<<"dCacheSize", "0">>}),
   Variant("generate", FALSE, {<<"multiplier", "false">>})}

(* Gateware that just fits, and gateware that does not. *)
MCSizes ==
  [t \in Targets |-> CASE t = "icebreaker" -> {3, 4}
                      [] t = "kosagi_fomu" -> {2, 3}
                      [] OTHER -> {1}]
=============================================================================
