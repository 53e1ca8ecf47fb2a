------------------------------- MODULE MCVgts -------------------------------
(***************************************************************************)
(* The VGT-S task with the small source products of MCMapping.             *)
(***************************************************************************)
EXTENDS Vgts, MCMapping

\* The windows of these products are long enough for the theorems.
ASSUME WindowsAreLong == LongWindows
=============================================================================
