------------------------------- MODULE MCVgtp -------------------------------
(***************************************************************************)
(* The VGT-P task with the small source products of MCMapping.             *)
(***************************************************************************)
EXTENDS Vgtp, MCMapping

\* Products that reach the map.
MCNearRows == {-60, -22, -10, 10, 24}

\* The windows of these products are long enough for the theorems, and each
\* product is mapped.
ASSUME WindowsAreLong == LongWindows
ASSUME AllIsMapped == AllAreMapped
=============================================================================
