--------------------------- MODULE ContextProofs ---------------------------
(***************************************************************************)
(* What the operators of Context return, for any segments, any pipeline    *)
(* and any registered rows: the lemmas that the proofs about the tasks     *)
(* rest on.                                                                *)
(***************************************************************************)
EXTENDS Context, WellFoundedInduction, TLAPS

\* The minimum of a set of rows is its least row.
LEMMA MinIs ==
  ASSUME NEW S \in SUBSET Nat, S # {}
  PROVE  Min(S) \in S /\ \A y \in S : Min(S) <= y
<1>1. PICK x \in S : \A y \in S : ~ (<<y, x>> \in OpToRel(<, Nat))
  BY NatLessThanWellFounded, WFMin
<1>2. \A y \in S : ~ (y < x)
  BY <1>1 DEF OpToRel
<1>3. \A y \in S : x <= y
  BY <1>2
<1>. QED
  BY <1>3 DEF Min

\* The numbers that describe a window.
LEMMA WindowType ==
  ASSUME ContextTypeOK, NEW s \in DOMAIN grid
  PROVE  /\ s \in Segment
         /\ grid[s] \in Grid
         /\ grid[s].sizeL \in Nat \ {0}
         /\ grid[s].maxL \in Nat
         /\ grid[s].minInMemoryL \in Nat
         /\ MaxInMemoryL(s) \in Nat
         /\ MaxInMemoryL(s) = grid[s].minInMemoryL + grid[s].sizeL - 1
<1>1. s \in Segment /\ grid[s] \in Grid
  BY DEF ContextTypeOK
<1>2. grid[s].sizeL \in Nat \ {0} /\ grid[s].maxL \in Nat /\ grid[s].minInMemoryL \in Nat
  BY <1>1 DEF Grid
<1>. QED
  BY <1>1, <1>2 DEF MaxInMemoryL

\* What getLastComputableL returns is the largest row that is in memory and
\* not beyond the row of a predecessor that has registered one.
LEMMA LastComputable ==
  ASSUME ContextTypeOK, NEW s \in DOMAIN grid, NEW m \in Module
  PROVE  /\ GetLastComputableL(s, m) \in Nat
         /\ GetLastComputableL(s, m) <= MaxInMemoryL(s)
         /\ GetLastComputableL(s, m) <= grid[s].maxL
         /\ \A p \in Predecessors(m) :
              lastComputedL[s][p] > 0 => GetLastComputableL(s, m) <= lastComputedL[s][p]
         /\ \A x \in Int :
              /\ x <= MaxInMemoryL(s) /\ x <= grid[s].maxL
              /\ \A p \in Predecessors(m) : lastComputedL[s][p] > 0 => x <= lastComputedL[s][p]
              => x <= GetLastComputableL(s, m)
<1> DEFINE bound == Smaller(MaxInMemoryL(s), grid[s].maxL)
           rows  == {bound} \cup
                    {lastComputedL[s][p] : p \in {q \in Predecessors(m) : HasLastComputedL(s, q)}}
<1>1. bound \in Nat /\ bound <= MaxInMemoryL(s) /\ bound <= grid[s].maxL
  BY WindowType DEF Smaller
<1>2. \A p \in Predecessors(m) : lastComputedL[s][p] \in Entry
  <2>1. \A p \in Module : lastComputedL[s][p] \in Entry
    BY WindowType DEF ContextTypeOK
  <2>2. Predecessors(m) \subseteq Module
    BY DEF Predecessors, Module, Range
  <2>. QED
    BY <2>1, <2>2
<1>3. rows \in SUBSET Nat /\ rows # {}
  BY <1>1, <1>2 DEF HasLastComputedL, Entry, None
<1>4. Min(rows) \in rows /\ \A y \in rows : Min(rows) <= y
  BY <1>3, MinIs
<1>5. Min(rows) = GetLastComputableL(s, m)
  BY DEF GetLastComputableL
<1>6. \A p \in Predecessors(m) : lastComputedL[s][p] > 0 => lastComputedL[s][p] \in rows
  BY DEF HasLastComputedL
<1>7. \A y \in rows : y = bound \/ \E p \in Predecessors(m) : lastComputedL[s][p] > 0 /\ y = lastComputedL[s][p]
  BY DEF HasLastComputedL
<1>8. bound = MaxInMemoryL(s) \/ bound = grid[s].maxL
  BY DEF Smaller
<1>9. Min(rows) <= bound /\ Min(rows) \in Nat
  BY <1>3, <1>4
<1> HIDE DEF rows, bound
<1>10. Min(rows) <= MaxInMemoryL(s) /\ Min(rows) <= grid[s].maxL
  BY <1>1, <1>9, WindowType
<1>. QED
  BY <1>4, <1>5, <1>6, <1>7, <1>8, <1>9, <1>10

\* The maps after a module has registered rows.
LEMMA Registration ==
  ASSUME NEW map \in [Segment -> [Module -> Entry]], NEW m \in Module, NEW rows,
         \A s \in DOMAIN rows : rows[s] \in Int
  PROVE  /\ Registered(map, m, rows) \in [Segment -> [Module -> Entry]]
         /\ \A s \in Segment : \A p \in Module :
              Registered(map, m, rows)[s][p] =
                IF p = m /\ s \in DOMAIN rows THEN EntryOf(rows[s]) ELSE map[s][p]
<1>1. \A s \in DOMAIN rows : EntryOf(rows[s]) \in Entry
  BY DEF EntryOf, Entry, None
<1>2. \A s \in DOMAIN rows \cap Segment : [map[s] EXCEPT ![m] = EntryOf(rows[s])] \in [Module -> Entry]
  BY <1>1
<1>3. Registered(map, m, rows) \in [Segment -> [Module -> Entry]]
  BY <1>2 DEF Registered
<1>4. ASSUME NEW s \in Segment, NEW p \in Module
      PROVE  Registered(map, m, rows)[s][p] =
               IF p = m /\ s \in DOMAIN rows THEN EntryOf(rows[s]) ELSE map[s][p]
  <2>1. CASE s \in DOMAIN rows
    <3>1. Registered(map, m, rows)[s] = [map[s] EXCEPT ![m] = EntryOf(rows[s])]
      BY <2>1 DEF Registered
    <3>2. map[s] \in [Module -> Entry]
      OBVIOUS
    <3>. QED
      BY <2>1, <3>1, <3>2
  <2>2. CASE s \notin DOMAIN rows
    BY <2>2 DEF Registered
  <2>. QED
    BY <2>1, <2>2
<1>. QED
  BY <1>3, <1>4

\* The rows that decide how far a window slides.
LEMMA ForwardRows ==
  ASSUME ContextTypeOK, NEW s \in DOMAIN grid
  PROVE  /\ CommonlyComputedL(s) \in Nat
         /\ CommonlyComputedL(s) <= MaxInMemoryL(s)
         /\ \A m \in Module : lastComputedL[s][m] # None => CommonlyComputedL(s) <= lastComputedL[s][m]
         /\ \/ CommonlyComputedL(s) = MaxInMemoryL(s)
            \/ \E m \in Module : lastComputedL[s][m] # None /\ CommonlyComputedL(s) = lastComputedL[s][m]
         /\ GetFirstRequiredL(s) \in Nat
         /\ GetFirstRequiredL(s) <= Smaller(MaxInMemoryL(s) + 1, grid[s].maxL)
         /\ \A m \in Module : firstRequiredL[s][m] > 0 => GetFirstRequiredL(s) <= firstRequiredL[s][m]
         /\ \/ GetFirstRequiredL(s) = Smaller(MaxInMemoryL(s) + 1, grid[s].maxL)
            \/ \E m \in Module : firstRequiredL[s][m] > 0 /\ GetFirstRequiredL(s) = firstRequiredL[s][m]
<1> DEFINE bound == Smaller(MaxInMemoryL(s) + 1, grid[s].maxL)
           computed == {MaxInMemoryL(s)} \cup
                       {lastComputedL[s][m] : m \in {q \in Module : lastComputedL[s][q] # None}}
           required == {bound} \cup
                       {firstRequiredL[s][m] : m \in {q \in Module : HasFirstRequiredL(s, q)}}
<1>1. /\ \A m \in Module : lastComputedL[s][m] \in Entry
      /\ \A m \in Module : firstRequiredL[s][m] \in Entry
      /\ MaxInMemoryL(s) \in Nat /\ grid[s].maxL \in Nat
  BY WindowType DEF ContextTypeOK
<1>2. bound \in Nat
  BY <1>1 DEF Smaller
<1>3. computed \in SUBSET Nat /\ computed # {}
  BY <1>1 DEF Entry, None
<1>4. required \in SUBSET Nat /\ required # {}
  BY <1>1, <1>2 DEF HasFirstRequiredL, Entry, None
<1>5. Min(computed) \in computed /\ \A y \in computed : Min(computed) <= y
  BY <1>3, MinIs
<1>6. Min(required) \in required /\ \A y \in required : Min(required) <= y
  BY <1>4, MinIs
<1>7. CommonlyComputedL(s) = Min(computed) /\ GetFirstRequiredL(s) = Min(required)
  BY DEF CommonlyComputedL, GetFirstRequiredL
<1>8. /\ \A m \in Module : lastComputedL[s][m] # None => lastComputedL[s][m] \in computed
      /\ MaxInMemoryL(s) \in computed
      /\ \A y \in computed : \/ y = MaxInMemoryL(s)
                             \/ \E m \in Module : lastComputedL[s][m] # None /\ y = lastComputedL[s][m]
  OBVIOUS
<1>9. /\ \A m \in Module : firstRequiredL[s][m] > 0 => firstRequiredL[s][m] \in required
      /\ bound \in required
      /\ \A y \in required : \/ y = bound
                             \/ \E m \in Module : firstRequiredL[s][m] > 0 /\ y = firstRequiredL[s][m]
  BY DEF HasFirstRequiredL
<1> HIDE DEF computed, required
<1>10. CommonlyComputedL(s) \in Nat /\ GetFirstRequiredL(s) \in Nat
  BY <1>3, <1>4, <1>5, <1>6, <1>7
<1>. QED
  BY <1>5, <1>6, <1>7, <1>8, <1>9, <1>10

\* The window that slides.
LEMMA MovedWindow ==
  ASSUME ContextTypeOK, NEW s \in DOMAIN grid
  PROVE  /\ MovedGrid(s).sizeL = grid[s].sizeL
         /\ MovedGrid(s).maxL = grid[s].maxL
         /\ MovedGrid(s).minInMemoryL = Larger(grid[s].minInMemoryL, ForwardL(s))
         /\ ForwardL(s) \in Int
         /\ ForwardL(s) <= CommonlyComputedL(s) + 1
         /\ ForwardL(s) <= GetFirstRequiredL(s)
         /\ ForwardL(s) <= grid[s].maxL - grid[s].sizeL + 1
         /\ MovedGrid(s).minInMemoryL \in Nat
         /\ MovedGrid(s).minInMemoryL >= grid[s].minInMemoryL
         /\ MovedGrid(s).minInMemoryL \in {grid[s].minInMemoryL, ForwardL(s)}
<1>1. grid[s] \in Grid /\ grid[s].minInMemoryL \in Nat /\ grid[s].sizeL \in Nat /\ grid[s].maxL \in Nat
  BY WindowType
<1>2. CommonlyComputedL(s) \in Nat /\ GetFirstRequiredL(s) \in Nat
  BY ForwardRows
<1>3. /\ ForwardL(s) \in Int
      /\ ForwardL(s) <= CommonlyComputedL(s) + 1
      /\ ForwardL(s) <= GetFirstRequiredL(s)
      /\ ForwardL(s) <= grid[s].maxL - grid[s].sizeL + 1
  BY <1>1, <1>2 DEF ForwardL, Smaller
<1>4. /\ MovedGrid(s).sizeL = grid[s].sizeL
      /\ MovedGrid(s).maxL = grid[s].maxL
      /\ MovedGrid(s).minInMemoryL = Larger(grid[s].minInMemoryL, ForwardL(s))
  BY <1>1 DEF MovedGrid, Grid
<1>. QED
  BY <1>1, <1>3, <1>4 DEF Larger
=============================================================================
