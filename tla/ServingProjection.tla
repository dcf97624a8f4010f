------------------------- MODULE ServingProjection -------------------------
(***************************************************************************)
(* What the PostgreSQL serving projection promises to its readers: a Gold  *)
(* manifest is admitted as a whole or not at all, and an event already     *)
(* served keeps the content it was first served with                       *)
(* (contracts/gold/GOLD_SERVING_CONTRACT.md:80-88).                        *)
(***************************************************************************)
EXTENDS FiniteSets

CONSTANTS
  Events,     \* event identities (event_id)
  Hashes,     \* governed content hashes
  Manifests,  \* Gold manifests, one per Gold run
  Rows,       \* Rows[m]: the events of the load artifacts of manifest m
  Hash,       \* Hash[m][e]: the governed content hash of e in manifest m
  NoContent   \* the content of an event that is not served

VARIABLES
  served,     \* served[e]: the content readers see for event e
  admitted    \* the manifests whose load is recorded as successful

projectionVars == <<served, admitted>>

ProjectionInit ==
  /\ served = [e \in Events |-> NoContent]
  /\ admitted = {}

\* Admitting m serves every event of m at once; events served before keep
\* their content.
Admit(m) ==
  /\ m \notin admitted
  /\ admitted' = admitted \union {m}
  /\ served' = [e \in Events |->
                  IF e \in Rows[m] /\ served[e] = NoContent
                    THEN Hash[m][e] ELSE served[e]]

\* The content of m agrees with what is served already.
Agrees(m) == \A e \in Rows[m] : served[e] \in {NoContent, Hash[m][e]}

AtomicNext   == \E m \in Manifests : Admit(m)
ContractNext == \E m \in Manifests : Agrees(m) /\ Admit(m)

\* Serving changes and load-control success are one atomic step.
AtomicSpec   == ProjectionInit /\ [][AtomicNext]_projectionVars

\* Moreover a differing content hash for a served event is never admitted.
ContractSpec == ProjectionInit /\ [][ContractNext]_projectionVars
=============================================================================
