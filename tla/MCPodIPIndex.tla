---------------------------- MODULE MCPodIPIndex ----------------------------
(***************************************************************************)
(* Small instances of PodIPIndex.                                          *)
(***************************************************************************)
EXTENDS PodIPIndex

CONSTANTS a, b, x, y
=============================================================================
