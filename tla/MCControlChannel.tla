-------------------------- MODULE MCControlChannel --------------------------
(***************************************************************************)
(* A system with up to four control channels for TLC.  Source 1 reaches f1  *)
(* and f2, source 2 reaches f2 and f3, and nothing reaches f4.              *)
(***************************************************************************)
EXTENDS ControlChannel

CONSTANTS f1, f2, f3, f4

TwoSources == <<{f1, f2}, {f2, f3}>>

Option(type, defined, autotune, limit) ==
  [type |-> type, defined |-> defined, reach |-> TwoSources,
   autotune |-> autotune, limit |-> limit]

\* Two channels that the system adds to; three of which one is out of reach;
\* a single one.  With a limit of 0 the search goes on for ever.
Options ==
  {Option("p25", <<f1, f3>>, {}, 4), Option("p25", <<f3, f1>>, {1}, 0),
   Option("smartnet", <<f2, f3, f4>>, {1}, 3), Option("p25", <<f1>>, {2}, 1),
   Option("smartnet", <<f2, f3, f4>>, {1}, 0)}

Secondary == {<<f2, f4>>}
=============================================================================
