---------------------------- MODULE MCApiCache ----------------------------
(***************************************************************************)
(* Small instances of ApiCache.                                            *)
(***************************************************************************)
EXTENDS ApiCache

CONSTANTS k1, k2, k3

\* Payloads grow with the tables: two entries fit by count, and not by bytes once
\* both have grown; the payload of k3 becomes too large for an entry.
Growing     == (k1 :> <<1, 2>>) @@ (k2 :> <<1, 2>>) @@ (k3 :> <<2, 4>>)
GrowingSize == [k \in Keys |-> [v \in Versions |-> Growing[k][v + 1]]]

\* Threads are interchangeable, and so are k1 and k2.
Interchangeable == Permutations(Workers) \union Permutations({k1, k2})
=============================================================================
