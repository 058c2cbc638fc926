--------------------------- MODULE MCInterrupts ---------------------------
EXTENDS Interrupts, TLC

Perms == Permutations(Task)
===========================================================================
