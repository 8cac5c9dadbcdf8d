------------------------------ MODULE MCStream ------------------------------
(***************************************************************************)
(* A small instance of Stream for TLC.                                     *)
(***************************************************************************)
EXTENDS Stream

(* Lines with either ending, which write_some may split, and nothing at all. *)
Chunks == {<<>>, <<"x", "lf">>, <<"cr", "lf">>}
=============================================================================
