----------------------------- MODULE MCIlvmPair -----------------------------
(***************************************************************************)
(* Instances of IlvmPair for TLC.                                          *)
(***************************************************************************)
EXTENDS IlvmPair

NoArguments == {<<>>}


(* Argument vectors whose strings end at every place in a word, one of     *)
(* them with a NUL inside.                                                 *)
Strings ==
  {<<>>, << <<1>> >>, << <<>>, <<1, 1>> >>, << <<1, 1, 1>>, <<1>> >>,
   << <<1, 1, 1, 1>>, <<1>> >>, << <<1, 0, 1>> >>, << <<1, 1, 1, 1, 1>> >>,
   << <<>>, <<>>, <<>>, <<>> >>}

PairImm == {-8, -1}
SmallImm == {-1, 2}
=============================================================================
