------------------------------ MODULE RowStore ------------------------------
(***************************************************************************)
(* What a segment promises to the modules: an array over all positions     *)
(* <<camera, row, column>> of a product of which only some rows are in     *)
(* memory.  What has been read or put stays where it is until its row      *)
(* leaves the memory; from then on the position holds the fill value.      *)
(* Storage shows how a window of a flat array keeps that promise.          *)
(***************************************************************************)
EXTENDS Integers

CONSTANTS
  Fill,              \* the value of a sample nobody has put
  SourceValue(_),    \* what the source product holds at a position
  Result(_)          \* what a module computes from a sample

VARIABLES
  window,    \* the rows in memory
  content,   \* variable -> position -> value
  target     \* position -> value in the target file

storeVars == <<window, content, target>>

Row(p) == p[2]

IsHeld(p) == Row(p) \in window

AddTo(n, positions) ==
  /\ n \notin DOMAIN content
  /\ content' = [v \in DOMAIN content \cup {n} |->
                   IF v = n THEN [p \in positions |-> Fill] ELSE content[v]]
  /\ UNCHANGED <<window, target>>

ReadAll(n) ==
  /\ content' = [content EXCEPT ![n] =
                   [p \in DOMAIN @ |-> IF IsHeld(p) THEN SourceValue(p) ELSE @[p]]]
  /\ UNCHANGED <<window, target>>

PutRow(n, l, from) ==
  /\ l \in window
  /\ content' = [content EXCEPT ![n] =
                   [p \in DOMAIN @ |-> IF Row(p) = l THEN Result(content[from][p]) ELSE @[p]]]
  /\ UNCHANGED <<window, target>>

WriteAll(n) ==
  /\ target' = [p \in DOMAIN target |->
                  IF IsHeld(p) THEN content[n][p] ELSE target[p]]
  /\ UNCHANGED <<window, content>>

\* Rows enter at the end of the window and leave at its start.
Slide(rows) ==
  /\ \A old \in window \ rows, kept \in rows : old < kept
  /\ window' = rows
  /\ content' = [n \in DOMAIN content |->
                   [p \in DOMAIN content[n] |->
                      IF Row(p) \in rows \cap window THEN content[n][p] ELSE Fill]]
  /\ UNCHANGED target

Init ==
  /\ content = [n \in {} |-> [p \in {} |-> Fill]]
  /\ target = [p \in DOMAIN target |-> Fill]

Next ==
  \/ \E n \in {"source", "result"} : AddTo(n, DOMAIN target)
  \/ "source" \in DOMAIN content /\ ReadAll("source")
  \/ {"source", "result"} \subseteq DOMAIN content
     /\ \E l \in window : PutRow("result", l, "source")
  \/ "result" \in DOMAIN content /\ WriteAll("result")
  \/ \E first \in window \cup {r + 1 : r \in window} :
       Slide({first + r - (CHOOSE f \in window : \A w \in window : f <= w) : r \in window})

Spec == Init /\ [][Next]_storeVars
=============================================================================
