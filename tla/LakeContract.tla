---------------------------- MODULE LakeContract ----------------------------
(***************************************************************************)
(* What the batch stages promise, as a ledger of successful results. An    *)
(* entry names its stage, the input and the output. Entries are added one  *)
(* by one and never withdrawn; each output is what the contracts say of    *)
(* its input, and each input that a stage must take from another stage is  *)
(* an output that stage has entered. Where the Silver job departs from     *)
(* its contract, the exception has a name of its own.                      *)
(***************************************************************************)
EXTENDS Integers, Sequences, FiniteSets

CONSTANTS
  Factor, Target, GateSize,
  NULL,
  Invalid(_),    \* a row of the raw object breaks the canonical contract
  IdOf(_),       \* the identity of a detection
  Inadmissible(_) \* an event breaks the admission rules of Silver

VARIABLE ledger

RowNumbers(s) == {s[k].raw_row_number : k \in DOMAIN s}
Ids(s)        == {s[k].event_id : k \in DOMAIN s}
Firsts(s, Eligible(_), Id(_)) ==
  {k \in DOMAIN s : Eligible(s[k]) /\ \A l \in 1..(k - 1) :
                      Eligible(s[l]) => Id(s[l]) # Id(s[k])}

\* Every row of the raw object has one outcome: rejected when it breaks the
\* contract, accepted when it is the first valid one of its detection.
IsCanonical(rows, out) ==
  LET valid(row) == ~ Invalid(row)
      first      == Firsts(rows, valid, IdOf)
      bad        == {k \in DOMAIN rows : Invalid(rows[k])}
      numbers(S) == {k + 1 : k \in S}
  IN  /\ RowNumbers(out["events"]) = numbers(first)
      /\ RowNumbers(out["rejected"]) = numbers(bad)
      /\ RowNumbers(out["duplicates"]) = numbers(DOMAIN rows \ (first \union bad))
      /\ Len(out["events"]) + Len(out["rejected"]) + Len(out["duplicates"]) = Len(rows)
      /\ \A k \in DOMAIN out["events"] :
           out["events"][k].event_id = IdOf(rows[out["events"][k].raw_row_number - 1])

\* The Target smallest ids of the events, in order.
IsSelection(events, selected) ==
  /\ Len(selected) = Target
  /\ Ids(selected) \subseteq Ids(events)
  /\ \A k \in 2..Target : selected[k - 1].event_id[1] < selected[k].event_id[1]
  /\ \A id \in Ids(events) \ Ids(selected) : selected[Target].event_id[1] < id[1]

\* Factor events for each original, numbered by iteration and then by id.
IsReplay(originals, events) ==
  /\ Len(events) = Len(originals) * Factor
  /\ Cardinality(Ids(events)) = Len(events)
  /\ \A k \in DOMAIN events :
       /\ events[k].replay_sequence_number = k - 1
       /\ events[k].parent \in Ids(originals)
       /\ events[k].detection_id = events[k].parent
       /\ events[k].replay_iteration \in 1..Factor
       /\ \A l \in 1..(k - 1) :
            \/ events[l].replay_iteration < events[k].replay_iteration
            \/ /\ events[l].replay_iteration = events[k].replay_iteration
               /\ events[l].parent[1] < events[k].parent[1]

\* Rules of admission the Silver job has no condition for: a schema version that is
\* missing, a replay without its parent, an original with the id of another run.
\* Mended is the event with them kept, Overlooked one that breaks no other rule.
Mended(e) ==
  [e EXCEPT !.schema_version = IF @ = NULL THEN "1.0.0" ELSE @,
            !.parent         = IF e.source_type = "NASA_REPLAY" THEN e.event_id ELSE @,
            !.origin_run     = IF e.source_type = "NASA_ORIGINAL" THEN NULL ELSE @]

Overlooked(e) == Inadmissible(e) /\ ~ Inadmissible(Mended(e))

\* The stable order of the occurrences of an event.
NotLater(a, b) ==
  b.raw_row_number = NULL \/ (a.raw_row_number # NULL /\ a.raw_row_number <= b.raw_row_number)

Repeats(e, s) == \E k \in DOMAIN s : s[k].event_id = e.event_id /\ NotLater(s[k], e)

\* What the Silver job makes a duplicate although nothing of its id is accepted: a
\* valid occurrence that a rejected one comes before.
Preempted(e, out) == e.event_id \notin Ids(out["silver"]) /\ Repeats(e, out["rejected"])

\* Every line has one outcome: invalid events are rejected, later valid occurrences
\* of an accepted event are duplicates, and no event is admitted twice. Overlooked
\* and Preempted are the exceptions.
IsSilver(lines, out) ==
  LET count(e, s) == Cardinality({k \in DOMAIN s : s[k] = e}) IN
  /\ \A k \in DOMAIN lines :
       count(lines[k], lines) = count(lines[k], out["silver"])
         + count(lines[k], out["rejected"]) + count(lines[k], out["duplicates"])
  /\ \A k \in DOMAIN out["rejected"] : Inadmissible(out["rejected"][k])
  /\ \A p \in {"silver", "duplicates"} : \A k \in DOMAIN out[p] :
       ~ Inadmissible(out[p][k]) \/ Overlooked(out[p][k])
  /\ Cardinality(Ids(out["silver"])) = Len(out["silver"])
  /\ \A k \in DOMAIN out["duplicates"] :
       \/ Repeats(out["duplicates"][k], out["silver"])
       \/ Preempted(out["duplicates"][k], out)

\* Both artifacts hold the Silver rows, GateSize different events.
IsGold(rows, out) ==
  /\ out["event_detail"] = rows
  /\ out["load_artifact"] = rows
  /\ Cardinality(Ids(rows)) = GateSize
  /\ Len(rows) = GateSize

Holds(e) ==
  CASE e.stage = "extraction"       -> e.output["raw"] = e.input
    [] e.stage = "canonicalization" -> IsCanonical(e.input, e.output)
    [] e.stage = "selection"        -> IsSelection(e.input, e.output["events"])
    [] e.stage = "replay"           -> IsReplay(e.input, e.output["events"])
    [] e.stage = "silver"           -> IsSilver(e.input, e.output)
    [] e.stage = "gold"             -> IsGold(e.input, e.output)

\* Where the input must come from. Silver and Gold take any file.
Upstream(stage) ==
  CASE stage = "canonicalization" -> {<<"extraction", "raw">>}
    [] stage = "selection"        -> {<<"canonicalization", "events">>}
    [] stage = "replay"           -> {<<"canonicalization", "events">>,
                                      <<"selection", "events">>}
    [] OTHER                      -> {}

Traceable(e) ==
  \/ Upstream(e.stage) = {}
  \/ \E f \in ledger : \E p \in DOMAIN f.output :
       <<f.stage, p>> \in Upstream(e.stage) /\ f.output[p] = e.input

Init == ledger = {}

Enter(e) ==
  /\ Holds(e)
  /\ Traceable(e)
  /\ ledger' = ledger \union {e}

Next == \E e \in ledger' \ ledger : Enter(e)

Spec == Init /\ [][Next]_ledger
=============================================================================
