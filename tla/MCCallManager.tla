--------------------------- MODULE MCCallManager ---------------------------
(***************************************************************************)
(* Two sites of one P25 network for TLC.  Talkgroup t1 is digital and       *)
(* prefers site B, whose channel is TDMA.  Talkgroup t2 is not in the file  *)
(* of A, where it is analog, and is disabled on B.  Recorders 1 and 2 are    *)
(* digital, recorder 3 is analog.                                          *)
(***************************************************************************)
EXTENDS CallManager, TLC

CONSTANTS A, B, t1, t2, a1, a2, b1, far

TwoSites ==
  LET site(nac, id) == [multi_site |-> TRUE, wacn |-> 1, name |-> NoName, number |-> 0,
                        nac |-> nac, site |-> id]
  IN  A :> site(11, 101) @@ B :> site(12, 102)

Preferring(nac) == [priority |-> 1, mode |-> "D", preferredNAC |-> nac]
Disabled == [priority |-> -1, mode |-> "A", preferredNAC |-> 0]

TwoFiles == A :> (t1 :> Preferring(12)) @@ B :> (t1 :> Preferring(12) @@ t2 :> Disabled)

TwoChannels == A :> {a1, a2} @@ B :> {b1}
\* far is out of the range of every source.
TwoAndFar == A :> {a1, a2} @@ B :> {b1, far}

OneSource == <<{a1, a2, b1}>>
ThreeRecorders == <<[digital |-> {1, 2}, analog |-> {3}]>>

\* Everything is recorded, or only the clear calls of known talkgroups.
Options ==
  {[record_unknown |-> {A}, monitor_encrypted |-> {A, B}, default_analog |-> {A}],
   [record_unknown |-> {}, monitor_encrypted |-> {}, default_analog |-> {A}]}
=============================================================================
