---------------------------- MODULE MCPatchTable ----------------------------
(* PatchTable for TLC: a patch with a number of its own and patch 0; one of  *)
(* the groups is in the file.                                                *)
EXTENDS PatchTable

CONSTANTS zero, sg, g1, g2
=============================================================================
