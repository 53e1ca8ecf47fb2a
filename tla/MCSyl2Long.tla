----------------------------- MODULE MCSyl2Long -----------------------------
(***************************************************************************)
(* The instance of Syl2 with windows so long that the modules do not wait  *)
(* for each other, as the theorems of Syl2Proofs assume.                   *)
(***************************************************************************)
EXTENDS MCSyl2

\* The hypotheses of the theorems hold of this instance.
ASSUME WindowsAreLong == LongWindows
ASSUME CollocationIsOrdered == OrderedCollocation
=============================================================================
