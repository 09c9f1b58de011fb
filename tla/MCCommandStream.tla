-------------------------- MODULE MCCommandStream --------------------------
(***************************************************************************)
(* Instance of CommandStream: two mode commands, the two halves of a plain *)
(* drive command, two composites that hide one, and the two of the LED.    *)
(***************************************************************************)
EXTENDS CommandStream

MCVocabulary ==
  { <<"AUTO">>, <<"MENU">>, <<"UP", "START">>, <<"UP", "STOP">>,
    <<"LEFT", "STOP">>, <<"LEFT", "UP", "START">>, <<"RIGHT", "BACK", "STOP">>,
    <<"open">>, <<"close">> }
============================================================================
