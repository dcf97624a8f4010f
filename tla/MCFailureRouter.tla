-------------------------- MODULE MCFailureRouter --------------------------
(***************************************************************************)
(* Small instances of FailureRouter.                                       *)
(***************************************************************************)
EXTENDS FailureRouter

Msg(class, part) == [class |-> class, part |-> part]

\* All three classes; more envelopes than the queue holds; nothing to route.
FixtureRanges ==
  {<< <<Msg("invalid", 1), Msg("valid", 1)>>, <<Msg("fault", 2)>> >>,
   << <<Msg("invalid", 1), Msg("invalid", 1), Msg("fault", 1)>>, <<>> >>,
   << <<Msg("valid", 1)>>, <<>> >>}
=============================================================================
