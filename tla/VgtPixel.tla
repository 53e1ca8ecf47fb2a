------------------------------ MODULE VgtPixel ------------------------------
(***************************************************************************)
(* One pixel of the VGT-S map and the observations it is composed from,    *)
(* one after the other: band mapping (Vbm), flagging (Vfl), correction     *)
(* (Vac) and composition (Vco).  While the row of an observation stays in  *)
(* memory and the row of the map is unfinished, further passes of the main *)
(* loop flag the observation again, from what the correction has left of   *)
(* it, and compare it again.                                               *)
(*                                                                         *)
(* Reflectances are integers in units of 0.0001 and NDVIs in units of      *)
(* 0.001.  The radiative transfer is a choice among the values below.  The *)
(* flag for snow and ice is left out: nothing depends on it.               *)
(***************************************************************************)
EXTENDS Integers, FiniteSets

CONSTANTS
  Observations,  \* how many observations of the map pixel there are
  MaxPasses,     \* how many passes an observation stays in memory
  Reflectance,   \* band -> the reflectances it may have
  Ndvi           \* the values the NDVI of an observation may have

ASSUME ObservationsAssumption == Observations \in Nat \ {0}
ASSUME MaxPassesAssumption == MaxPasses \in Nat \ {0}

Band == {"B0", "B2", "B3", "MIR"}

\* -numeric_limits<double>::max(), smaller than every value and threshold.
Fill == -1000000
ASSUME ReflectanceAssumption ==
  \A b \in Band : Reflectance[b] # {} /\ Reflectance[b] \subseteq Nat
ASSUME NdviAssumption == Ndvi \subseteq (-1000)..1000

\* What Vco copies: the samples that may be missing and those that never are.
Sample == Band \cup {"NDVI", "SM", "Angles", "TG"}

\* The two lowest bits of the status map.
CLEAR     == 0
UNCERTAIN == 2
CLOUD     == 3

VARIABLES
  step,     \* the module that comes next
  obs,      \* the number of the observation
  pass,     \* how often it has been flagged
  observed, \* its samples in the segment SYN_COLLOCATED
  map,      \* the samples of the map: the observation they come from, 0: none
  mapNdvi,  \* the stored byte of the NDVI of the map
  mapSm,    \* the cloud flags in the status map
  measured, \* the cloud flags Vac found for the observation; not in the code
  source,   \* [ndvi, cloud] of the observation in the map; not in the code
  best      \* the greatest NDVI compared so far; not in the code

history == <<measured, source, best>>
compositeVars ==
  <<step, obs, pass, observed, map, mapNdvi, mapSm, measured, source, best>>

-----------------------------------------------------------------------------
(* Vbm: a sample per band, and which bands are good. *)

\* Without the land flag nothing is mapped.
Mapped(land) ==
  {r \in [Band -> (UNION {Reflectance[b] : b \in Band}) \cup {Fill}] :
     \A b \in Band : r[b] \in (IF land THEN Reflectance[b] \cup {Fill} ELSE {Fill})}

\* A band without a value is never good; one with a value is not if a radiance
\* it comes from is missing.  Only B0 and MIR are asked for afterwards.
Good(r) == SUBSET {b \in {"B0", "MIR"} : r[b] # Fill}

Vbm ==
  /\ step = "VBM"
  /\ \E land \in BOOLEAN : \E r \in Mapped(land) :
       \E good \in Good(r) :
         observed' = [refl |-> r, good |-> good, land |-> land, cloud |-> CLEAR, ndvi |-> Fill]
  /\ step' = "VFL"
  /\ pass' = 1
  /\ UNCHANGED <<obs, map, mapNdvi, mapSm, history>>

-----------------------------------------------------------------------------
(* Vfl. *)

\* The thresholds tcl of the VPCP template, in the units of the reflectances.
Tcl == <<2465, 900, 3600, 1600>>

IsClear(p) ==
  \/ "B0" \in p.good /\ p.refl["B0"] < Tcl[1]
  \/ "MIR" \in p.good /\ p.refl["MIR"] < Tcl[2]

IsCloud(p) ==
  /\ "B0" \in p.good /\ p.refl["B0"] > Tcl[3]
  /\ "MIR" \in p.good /\ p.refl["MIR"] > Tcl[4]

CloudFlags(p) == IF IsClear(p) THEN CLEAR ELSE IF IsCloud(p) THEN CLOUD ELSE UNCERTAIN

\* Rows that are corrected already are flagged again, but not corrected again.
Vfl ==
  /\ step = "VFL"
  /\ observed' = [observed EXCEPT !.cloud = CloudFlags(observed)]
  /\ step' = IF pass = 1 THEN "VAC" ELSE "VCO"
  /\ UNCHANGED <<obs, pass, map, mapNdvi, mapSm, history>>

-----------------------------------------------------------------------------
(* Vac. *)

\* A corrected reflectance lies in [0, 1] or is not stored.
CorrectedSamples(p) ==
  LET isCorrected == p.land /\ p.cloud # CLOUD
  IN {r \in [Band -> (UNION {Reflectance[b] : b \in Band}) \cup {Fill}] :
        \A b \in Band :
          r[b] \in (IF isCorrected /\ p.refl[b] # Fill THEN Reflectance[b] \cup {Fill} ELSE {Fill})}

\* Mutant: an NDVI of whatever is there.
VacNdviOfAnyLand(p, r) == IF p.land THEN Ndvi ELSE {Fill}

\* The NDVI of a land pixel for which both bands have been corrected.
VacNdvi(p, r) == IF p.land /\ r["B2"] # Fill /\ r["B3"] # Fill THEN Ndvi ELSE {Fill}

Vac ==
  /\ step = "VAC"
  /\ \E r \in CorrectedSamples(observed) : \E n \in VacNdvi(observed, r) :
       observed' = [refl |-> r, good |-> observed.good, land |-> observed.land, cloud |-> observed.cloud, ndvi |-> n]
  /\ measured' = observed.cloud
  /\ step' = "VCO"
  /\ UNCHANGED <<obs, pass, map, mapNdvi, mapSm, source, best>>

-----------------------------------------------------------------------------
(* Vco, for an observation within the time range. *)

\* Mutants: the value is not limited, or wraps around.
QuantisedWithoutLimit(n) == (n + 100) \div 4
QuantisedModulo(n) == ((n + 100) \div 4) % 256

\* The NDVI of the map is a byte with scale 0.004 and offset -0.1, and 0 where
\* nothing has been composed.  setDouble saturates and truncates.
Quantised(n) ==
  IF (n + 100) \div 4 > 255 THEN 255
  ELSE IF n < -100 THEN 0
  ELSE (n + 100) \div 4

MapNdvi == 4 * mapNdvi - 100

\* Mutant: flags that have been copied are kept.
CopiedFlagsOfFirst(p) ==
  {b \in Band : p.refl[b] # Fill} \cup {"NDVI", "Angles", "TG"}
    \cup (IF map["SM"] = 0 THEN {"SM"} ELSE {})

\* A sample that is a fill value is not copied: the map keeps what it has.
CopiedSamples(p) ==
  {b \in Band : p.refl[b] # Fill} \cup {"NDVI", "SM", "Angles", "TG"}

IsBetter(p) == p.ndvi > MapNdvi

Compare ==
  /\ step = "VCO"
  /\ IF IsBetter(observed)
     THEN /\ map' = [s \in Sample |-> IF s \in CopiedSamples(observed) THEN obs ELSE map[s]]
          /\ mapNdvi' = Quantised(observed.ndvi)
          /\ mapSm' = observed.cloud
          /\ source' = [ndvi |-> observed.ndvi, cloud |-> measured]
     ELSE UNCHANGED <<map, mapNdvi, mapSm, source>>
  /\ best' = IF observed.ndvi > best THEN observed.ndvi ELSE best
  /\ step' = "NEXT"
  /\ UNCHANGED <<obs, pass, observed, measured>>

\* The observation lies outside of the time range of the job order.
OutOfTime ==
  /\ step = "VCO" /\ pass = 1
  /\ step' = "LEAVE"
  /\ UNCHANGED <<obs, pass, observed, map, mapNdvi, mapSm, history>>

-----------------------------------------------------------------------------
(* The main loop: the window stays or slides on. *)

StayInMemory ==
  /\ step = "NEXT" /\ pass < MaxPasses
  /\ pass' = pass + 1
  /\ step' = "VFL"
  /\ UNCHANGED <<obs, observed, map, mapNdvi, mapSm, history>>

NoPixel ==
  [refl |-> [b \in Band |-> Fill], good |-> {}, land |-> FALSE,
   cloud |-> CLEAR, ndvi |-> Fill]

NextObservation ==
  /\ step \in {"NEXT", "LEAVE"} /\ obs < Observations
  /\ obs' = obs + 1
  /\ pass' = 0
  /\ observed' = NoPixel
  /\ measured' = CLEAR
  /\ step' = "VBM"
  /\ UNCHANGED <<map, mapNdvi, mapSm, source, best>>

-----------------------------------------------------------------------------
CompositeInit ==
  /\ step = "VBM"
  /\ obs = 1
  /\ pass = 0
  /\ observed = NoPixel
  /\ map = [s \in Sample |-> 0]
  /\ mapNdvi = 0
  /\ mapSm = CLEAR
  /\ measured = CLEAR
  /\ source = [ndvi |-> Fill, cloud |-> CLEAR]
  /\ best = Fill

CompositeNext ==
  Vbm \/ Vfl \/ Vac \/ Compare \/ OutOfTime \/ StayInMemory \/ NextObservation

CompositeSpec == CompositeInit /\ [][CompositeNext]_compositeVars

-----------------------------------------------------------------------------
(* Properties. *)

\* The pixel and the map have samples of their types, whatever the NDVI.
CompositeTypeOK ==
  /\ step \in {"VBM", "VFL", "VAC", "VCO", "NEXT", "LEAVE"}
  /\ obs \in 1..Observations /\ pass \in 0..MaxPasses
  /\ observed.cloud \in {CLEAR, UNCERTAIN, CLOUD} /\ observed.good \subseteq Band
  /\ map \in [Sample -> 0..obs]
  /\ mapNdvi \in 0..255
  /\ mapSm \in {CLEAR, UNCERTAIN, CLOUD}

\* What the map says of a pixel belongs together: NDVI, the two bands it is
\* computed from, status map, angles and time come from one observation,
\* although fill values are not copied.  B0 and MIR are not among them: when
\* the better observation has none, the map keeps those of an older one.
CompositeIsOneObservation ==
  \A s \in {"B2", "B3", "SM", "Angles", "TG"} : map[s] = map["NDVI"]

\* The map shows the observation with the greatest NDVI up to one step of the
\* stored byte, and up to its greatest value of 0.92: comparing with the
\* rounded value must not let the map drift away from the best observation.
WithinOneStepOfTheBest ==
  LET limit == IF best > 920 THEN 920 ELSE best
  IN limit > -100 => map["NDVI"] # 0 /\ source.ndvi > limit - 4

\* No observation that was flagged as cloud when it was corrected comes into
\* the map, although it is flagged as clear in the next pass, when its
\* reflectances are fill values, which are smaller than every threshold.
NoCloudIsComposed ==
  map["NDVI"] # 0 => source.cloud # CLOUD

\* The status map says of a pixel what was found for the observation it comes
\* from when its rows were flagged: Module.h demands of process() that it
\* tells the context up to which row the processing has been completed, so
\* that no row is flagged again from corrected reflectances.
FlagsAreThoseOfTheMeasurement ==
  map["SM"] # 0 => mapSm = source.cloud
=============================================================================
