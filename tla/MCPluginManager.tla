-------------------------- MODULE MCPluginManager --------------------------
(* PluginManager for TLC: two plugins of which each can fail or hang while   *)
(* the other does not, the main thread, one of the flow graph's and two      *)
(* workers, of which one may be left behind.                                 *)
EXTENDS PluginManager

CONSTANTS s1, w1, w2
=============================================================================
