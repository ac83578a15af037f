---- MODULE MCSandbox ----
(* The parts of a sandbox that share no state here, side by side: each behaviour *)
(* moves one of them, so the states are the sum of theirs and not the product.   *)
EXTENDS Calls, Lifecycle, Proxies, TLC

VARIABLE part

Parts == {"calls", "lifecycle", "proxies"}

Init ==
    /\ part \in Parts
    /\ CallsInit /\ LifecycleInit /\ ProxiesInit

Next ==
    /\ UNCHANGED part
    /\ \/ /\ part = "calls" /\ CallsNext
          /\ UNCHANGED <<lifecycleVars, proxyVars>>
       \/ /\ part = "lifecycle" /\ LifecycleNext
          /\ UNCHANGED <<callsVars, proxyVars>>
       \/ /\ part = "proxies" /\ ProxiesNext
          /\ UNCHANGED <<callsVars, lifecycleVars>>

Spec == Init /\ [][Next]_<<part, callsVars, lifecycleVars, proxyVars>>

(* Two members of each of these sets exchanged, those of different parts at once: *)
(* a part that does not move is unchanged by it.                                 *)
Exchange(S, exchanged) ==
    LET pair == CHOOSE P \in SUBSET S : Cardinality(P) = 2
    IN  CHOOSE f \in Permutations(pair) : (\A x \in pair : f[x] # x) = exchanged

Symmetry ==
    {   Exchange(Threads, a) @@ Exchange(Boxes, a)
     @@ Exchange(Items, b) @@ Exchange(Records, b)
     @@ Exchange(Handles, c) @@ Exchange(Proxies, c) : a, b, c \in BOOLEAN}

MCLineage == [k \in Kinds |-> IF k = "Base" THEN <<"Base">> ELSE <<"Derived", "Base">>]

(* Every variable of every part has its type.                                    *)
TypesOK == CallsTypeOK /\ LifecycleTypeOK /\ ProxiesTypeOK
====
