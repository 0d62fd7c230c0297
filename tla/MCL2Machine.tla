---------------------------- MODULE MCL2Machine ----------------------------
(* L2Machine on the programs of L2Programs. *)
EXTENDS L2Machine

P == INSTANCE L2Programs

MCPrograms == P!Executable
MCNewInArguments == P!NewInArguments
=============================================================================
