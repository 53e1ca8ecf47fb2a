----------------------------- MODULE MCStorage ------------------------------
(* Shapes of segments for TLC: two swaths of several cameras, one without   *)
(* cameras, one that is in memory as a whole, a single line and two maps.   *)
EXTENDS Storage

MCShape ==
  {[sizeK |-> 2, sizeL |-> 3, sizeM |-> 2, maxL |-> 6, dims |-> 3, isMap |-> FALSE],
   [sizeK |-> 2, sizeL |-> 2, sizeM |-> 2, maxL |-> 4, dims |-> 3, isMap |-> FALSE],
   [sizeK |-> 1, sizeL |-> 3, sizeM |-> 2, maxL |-> 4, dims |-> 2, isMap |-> FALSE],
   [sizeK |-> 3, sizeL |-> 2, sizeM |-> 1, maxL |-> 1, dims |-> 3, isMap |-> FALSE],
   [sizeK |-> 1, sizeL |-> 1, sizeM |-> 3, maxL |-> 0, dims |-> 1, isMap |-> FALSE],
   [sizeK |-> 1, sizeL |-> 3, sizeM |-> 2, maxL |-> 2, dims |-> 2, isMap |-> TRUE],
   [sizeK |-> 1, sizeL |-> 2, sizeM |-> 2, maxL |-> 1, dims |-> 3, isMap |-> TRUE]}
=============================================================================
