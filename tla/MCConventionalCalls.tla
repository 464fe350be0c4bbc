------------------------ MODULE MCConventionalCalls ------------------------
(* Instances of ConventionalCalls for TLC. *)
EXTENDS ConventionalCalls

Channel(t, d, l) == [type |-> t, detection |-> d, limit |-> l]

\* Every type of recorder, with and without detection and maxDuration.
AllChannels ==
  [type : {"conventional", "conventionalP25"}, detection : BOOLEAN, limit : {0, 1}]
    \cup {Channel("conventionalDMR", FALSE, 1), Channel("conventionalDMR", TRUE, 0)}

\* A channel with one slot is filled beyond maxDuration; two slots interleave.
FewSeconds == [t \in Types |-> IF t = "conventionalDMR" THEN 3 ELSE 5]
=============================================================================
