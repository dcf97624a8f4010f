------------------------- MODULE MCPostgresLoader -------------------------
(***************************************************************************)
(* Small instances of PostgresLoader.                                      *)
(***************************************************************************)
EXTENDS PostgresLoader

CONSTANTS m1, m2, m3, e1, e2, e3, h1, h2

\* m1 and m2 share their events, so that two transactions meet on the same rows
\* in either order; m3 has one row of its own.
SharedRows == [m \in Manifests |-> IF m \in {m1, m2} THEN {e1, e2} ELSE {e3}]
RowCount   == [m \in Manifests |-> Cardinality(SharedRows[m])]

\* m2 contradicts m1 on e2 ...
OtherHash == [m \in Manifests |->
                [e \in Events |-> IF m = m2 /\ e = e2 THEN h2 ELSE h1]]
\* ... or agrees with it.
SameHash == [m \in Manifests |-> [e \in Events |-> h1]]
=============================================================================
