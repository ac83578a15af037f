------------------------------ MODULE MCMemory ------------------------------
(* The memory budget on small instances.                                   *)
EXTENDS Memory

\* Bound: one run explores two kinds of sandbox.  One that does not stream
\* spends its memory on everything, one byte of output out of two included,
\* under a stack of up to five frames.  One that streams spends four bytes of
\* it on output alone, and its callback calls back in under up to eight.
Focus ==
  IF out.mode = "Callback"
    THEN /\ policy.memory = 4
         /\ \A b \in Blocks : blocks[b] = 0
         /\ \A h \in Handles : charges[h] = 0
         /\ \A i \in 1 .. Depth : Bill(stack[i]) = 0
    ELSE Depth <= 5 /\ out.emitted <= 1 /\ out.limit = 2
=============================================================================
