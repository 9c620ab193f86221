---------------------------- MODULE MCJvmScheduler ----------------------------
(***************************************************************************)
(* JvmScheduler on small instances for TLC.                                *)
(***************************************************************************)
EXTENDS JvmScheduler

CONSTANTS w1, o1, o2

MCWorker == {w1}
MCObj    == {o1, o2}

\* Only the game's thread assigns, and not in assigned blocks; nothing throws.
Careful  == [disciplined |-> TRUE, throws |-> FALSE, spurious |-> FALSE, assigner |-> {Game}]
Throwing == [Careful EXCEPT !.throws = TRUE]
Nesting  == [Careful EXCEPT !.disciplined = FALSE]
Anything == [disciplined |-> FALSE, throws |-> TRUE, spurious |-> TRUE,
             assigner |-> {Game, w1}]

MCAll     == {Careful, Throwing, Anything}
MCCareful == {Careful}
MCNesting == {Nesting}
===============================================================================
