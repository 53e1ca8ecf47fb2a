---------------------------- MODULE MCVgtPixel ----------------------------
(***************************************************************************)
(* Values on every side of the thresholds: cloudy, uncertain and clear     *)
(* reflectances, NDVIs below, within and beyond what the map can store.    *)
(***************************************************************************)
EXTENDS VgtPixel

MCReflectance ==
  [b \in Band |-> CASE b = "B0" -> {2400, 3000, 3700}
                    [] b = "MIR" -> {800, 1700}
                    [] OTHER -> {1000}]

MCNdvi == {-101, -99, 300, 302, 930, 950}
=============================================================================
