----------------------------- MODULE MCHookEngine -----------------------------
(***************************************************************************)
(* HookEngine on a small instance for TLC.                                 *)
(***************************************************************************)
EXTENDS HookEngine, TLC

CONSTANTS a1, a2

MCName   == {1, 2}
MCAddr   == {a1, a2}
MCResult == {0, 1}

\* It does not matter which address malloc gives to which event.
Interchangeable == Permutations(MCAddr)
===============================================================================
