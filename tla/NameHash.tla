------------------------------- MODULE NameHash -------------------------------
(***************************************************************************)
(* NameHashFunction of modules.c: the 32-bit number a service is known by. *)
(* A number is the set of its bits that are 1, a name the sequence of its  *)
(* (7-bit) character codes.                                                *)
(***************************************************************************)
EXTENDS Naturals, Sequences, FiniteSetsExt

\* The bits of a character.
Bits(c) == {b \in 0..6 : (c \div 2^b) % 2 = 1}

ShiftLeft(bits, n)  == {b + n : b \in bits} \cap 0..31
ShiftRight(bits, n) == {b - n : b \in {x \in bits : x >= n}}

\* Mutant of Spill: only the largest shift is taken to drop bits.
SpillLate(c, s) == IF s > 30 THEN ShiftRight(Bits(c), 32 - s) ELSE {}

\* What the shift to the left drops, brought in on the right.
Spill(c, s) == IF s > 24 THEN ShiftRight(Bits(c), 32 - s) ELSE {}

\* A turn of the loop, for character c.
Turn(h, c) ==
  [hash  |-> SymDiff(SymDiff(h.hash, ShiftLeft(Bits(c), h.shift)), Spill(c, h.shift)),
   shift |-> (h.shift + 5) % 32]

\* What the loop has when it comes to the end, and to each character before.
Loop(szStr) ==
  LET loop[i \in 0..Len(szStr)] ==
        IF i = 0 THEN [hash |-> {}, shift |-> 0] ELSE Turn(loop[i - 1], szStr[i])
  IN  loop

NameHashFunction(szStr) == Loop(szStr)[Len(szStr)].hash

\* The hash as a number.  TLC's integers end at 2^31 - 1, so it cannot compute
\* those with bit 31.
Weight == [b \in 0..31 |-> 2^b]
NumberOf(bits) == MapThenSumSet(LAMBDA b : Weight[b], bits)

HashNumber(szStr) == NumberOf(NameHashFunction(szStr))
-------------------------------------------------------------------------------
\* What it is meant to be: each character is rotated by five bits more than the
\* one before, and all are xor-ed: the bits that land an odd number of times.
Rotated(b, k) == (b + 5 * (k - 1)) % 32

XorOfRotated(szStr) ==
  {bit \in 0..31 :
     Cardinality({k \in DOMAIN szStr : \E b \in Bits(szStr[k]) : Rotated(b, k) = bit}) % 2 = 1}
===============================================================================
