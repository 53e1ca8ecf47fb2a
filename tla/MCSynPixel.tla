----------------------------- MODULE MCSynPixel -----------------------------
(***************************************************************************)
(* Five rows of three pixels, averaged to three rows of two: the blocks of *)
(* the last row and column are not complete.  At most one pixel is not     *)
(* clear land with all radiances, and one retrieval fails or only one      *)
(* succeeds.                                                               *)
(***************************************************************************)
EXTENDS SynPixel

Clear == [land |-> TRUE, cloud |-> {}, radiance |-> Channel, outside |-> {}]

Unclear ==
  {[Clear EXCEPT !.land = FALSE], [Clear EXCEPT !.cloud = {"SLN"}],
   [Clear EXCEPT !.cloud = {"SLO"}], [Clear EXCEPT !.radiance = {}],
   [Clear EXCEPT !.radiance = {"OLC"}], [Clear EXCEPT !.radiance = {"SLN"}],
   [Clear EXCEPT !.radiance = {"SLN", "SLO"}],
   [Clear EXCEPT !.outside = {"OLC"}], [Clear EXCEPT !.outside = {"SLN", "SLO"}]}

AllClear == [p \in (0..4) \X (0..2) |-> Clear]

MCScenes ==
  {AllClear} \cup {[AllClear EXCEPT ![p] = u] : p \in DOMAIN AllClear, u \in Unclear}

AllGood == [a \in (0..2) \X (0..1) |-> "good"]

MCOutcomes ==
  {AllGood}
  \cup {[AllGood EXCEPT ![a] = o] : a \in DOMAIN AllGood, o \in Outcome}
  \cup {[a \in DOMAIN AllGood |-> IF a = b THEN "good" ELSE o] :
          b \in DOMAIN AllGood, o \in {"none", "negative"}}
=============================================================================
