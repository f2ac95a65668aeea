----------------------------- MODULE MCIlvmRust -----------------------------
(***************************************************************************)
(* Instances of IlvmRust for TLC.                                          *)
(***************************************************************************)
EXTENDS IlvmRust

NoArguments == {<<>>}

AllocImm == {-1, 1, 2}
=============================================================================
