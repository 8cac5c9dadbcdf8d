--------------------------- MODULE MCUringWarden ---------------------------
(***************************************************************************)
(* Small instances of UringWarden for TLC.                                 *)
(***************************************************************************)
EXTENDS UringWarden, TLC

(* Completions are interchangeable until they are used. *)
IopSymmetry == Permutations(Iop)
=============================================================================
