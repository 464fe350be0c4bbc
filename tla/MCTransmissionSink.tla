------------------------ MODULE MCTransmissionSink ------------------------
(***************************************************************************)
(* TransmissionSink for TLC.  Unit ids and talkgroups are only compared     *)
(* with each other, so both sets are symmetric.                             *)
(***************************************************************************)
EXTENDS TransmissionSink, TLC

Symmetry == Permutations(Units) \cup Permutations(Groups)
=============================================================================
