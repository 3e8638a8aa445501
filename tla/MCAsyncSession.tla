---------------------------- MODULE MCAsyncSession ----------------------------
(* Small instances of AsyncSession for TLC.                                 *)
EXTENDS AsyncSession, TLC

CONSTANTS t1, t2, t3, s1, r1, f1, f2

\* All calls share a fact; t1 has one of its own.
MCTouches == [c \in Call |-> IF c = t1 THEN {f1, f2} ELSE {f1}]

\* t1 and s1 are equal calls.
MCRequest == [c \in Call |-> IF c = s1 THEN t1 ELSE c]
==============================================================================
