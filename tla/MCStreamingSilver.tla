------------------------- MODULE MCStreamingSilver -------------------------
(***************************************************************************)
(* A small instance of StreamingSilver.                                    *)
(***************************************************************************)
EXTENDS StreamingSilver

Good(id) == [id |-> id, ok |-> TRUE]
Bad(id)  == [id |-> id, ok |-> FALSE]

\* Events 1 and 2 lie within the delay, event 3 does not.
Times == [id \in 1..3 |-> <<1, 2, 6>>[id]]

\* A topic with a message before the range: a clean range, one with a duplicate,
\* and one that is spread in time.
ProducerRanges ==
  {[log |-> <<<<Good(1), Good(1), Bad(3)>>, <<Good(2)>>>>, starts |-> <<1, 0>>, ends |-> <<3, 1>>],
   [log |-> <<<<Good(1), Good(1), Good(1)>>, <<Good(2)>>>>, starts |-> <<1, 0>>, ends |-> <<3, 1>>],
   [log |-> <<<<Good(3), Good(3), Good(1)>>, <<Good(2)>>>>, starts |-> <<0, 0>>, ends |-> <<3, 1>>]}
=============================================================================
