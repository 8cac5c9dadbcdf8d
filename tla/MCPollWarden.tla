---------------------------- MODULE MCPollWarden ----------------------------
(***************************************************************************)
(* Small instances of PollWarden for TLC.                                  *)
(***************************************************************************)
EXTENDS PollWarden, TLC

(* Completions are interchangeable until they are used. *)
IopSymmetry == Permutations(Iop)
=============================================================================
