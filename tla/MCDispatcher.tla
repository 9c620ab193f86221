----------------------------- MODULE MCDispatcher -----------------------------
(***************************************************************************)
(* Dispatcher on a small instance for TLC.                                 *)
(***************************************************************************)
EXTENDS Dispatcher

CONSTANTS l1, l2, o1, o2

MCLibrary == {l1, l2}
MCObject  == {o1, o2}
===============================================================================
