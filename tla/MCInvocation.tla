---------------------------- MODULE MCInvocation ----------------------------
(* Invocation for TLC: one caller invokes twice, the others once.          *)
EXTENDS Invocation

MCMaxCalls ==
  LET twice == CHOOSE c \in Callers : TRUE
  IN [c \in Callers |-> IF c = twice THEN 2 ELSE 1]
=============================================================================
