--------------------------- MODULE MCServingReads ---------------------------
(***************************************************************************)
(* Small instances of ServingReads: one detection, the replays e1 and e2   *)
(* of one run, which m1 and m2 hold, and the original e3 between them,     *)
(* which m3 and m4 hold.                                                   *)
(***************************************************************************)
EXTENDS ServingReads

CONSTANTS m1, m2, m3, m4, e1, e2, e3, h1, h2

ReadRows  == [m \in Manifests |-> IF m \in {m1, m2} THEN {e1, e2} ELSE {e3}]

\* m2 contradicts m1 on e2.
ReadHash  == [m \in Manifests |->
                [e \in Events |-> IF m = m2 /\ e = e2 THEN h2 ELSE h1]]

\* The part of m4 is a row short of what its manifest declares.
ReadCount == [m \in Manifests |-> IF m = m4 THEN 2 ELSE Cardinality(ReadRows[m])]

Places     == [e \in Events |-> IF e = e1 THEN 1 ELSE IF e = e3 THEN 2 ELSE 3]
Detections == [e \in Events |-> "d"]
Iterations == [e \in Events |-> IF e = e1 THEN 1 ELSE IF e = e2 THEN 2 ELSE 0]
Sequences  == [e \in Events |-> IF e = e2 THEN 1 ELSE 0]
=============================================================================
