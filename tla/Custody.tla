---- MODULE Custody ----
(* What a sandbox promises about the host's objects and its own interpreter.    *)
(* An object handed to Lua is given back at most once, and never while the      *)
(* interpreter that held it is executing: giving it back runs a destructor, and *)
(* a destructor may call into the sandbox (luaext_defer.h).  An interpreter is  *)
(* destroyed only when nothing executes in it; one whose frames were jumped     *)
(* over is abandoned instead (luaext_sandbox.c, luaext_sandbox_close).          *)
EXTENDS Naturals

CONSTANTS Boxes, Items, Nothing

VARIABLES
    interp,      \* each sandbox's interpreter
    exec,        \* whether it executes, or was jumped out of
    keeper,      \* the sandbox whose Lua took each object
    custody      \* where each object is

custodyVars == <<interp, exec, keeper, custody>>

CustodyTypeOK ==
    /\ interp  \in [Boxes -> {"none", "up", "destroyed", "abandoned"}]
    /\ exec    \in [Boxes -> {"idle", "busy", "wrecked"}]
    /\ keeper  \in [Items -> Boxes \cup {Nothing}]
    /\ custody \in [Items -> {"host", "lua", "returned", "lost"}]

Init ==
    /\ interp  = [b \in Boxes |-> "none"]
    /\ exec    = [b \in Boxes |-> "idle"]
    /\ keeper  = [i \in Items |-> Nothing]
    /\ custody = [i \in Items |-> "host"]

Build(b) ==
    /\ interp[b] = "none"
    /\ interp' = [interp EXCEPT ![b] = "up"]
    /\ UNCHANGED <<exec, keeper, custody>>

Take(i, b) ==
    /\ interp[b] = "up"
    /\ custody[i] = "host"
    /\ keeper' = [keeper EXCEPT ![i] = b]
    /\ custody' = [custody EXCEPT ![i] = "lua"]
    /\ UNCHANGED <<interp, exec>>

GiveBack(i) ==
    /\ custody[i] = "lua"
    /\ exec[keeper[i]] = "idle" \/ interp[keeper[i]] = "abandoned"
    /\ custody' = [custody EXCEPT ![i] = "returned"]
    /\ UNCHANGED <<interp, exec, keeper>>

Enter(b) ==
    /\ interp[b] = "up"
    /\ exec[b] = "idle"
    /\ exec' = [exec EXCEPT ![b] = "busy"]
    /\ UNCHANGED <<interp, keeper, custody>>

Leave(b) ==
    /\ exec[b] = "busy"
    /\ exec' = [exec EXCEPT ![b] = "idle"]
    /\ UNCHANGED <<interp, keeper, custody>>

(* The request is jumped out of: every frame on the stack goes with it.         *)
Crash(also) ==
    /\ exec' = [b \in Boxes |-> IF exec[b] = "busy" \/ b \in also THEN "wrecked" ELSE exec[b]]
    /\ \E gone \in SUBSET {i \in Items : custody[i] = "lua"} :
        custody' = [i \in Items |-> IF i \in gone THEN "lost" ELSE custody[i]]
    /\ UNCHANGED <<interp, keeper>>

Destroy(b) ==
    /\ interp[b] = "up"
    /\ exec[b] = "idle"
    /\ interp' = [interp EXCEPT ![b] = "destroyed"]
    /\ UNCHANGED <<exec, keeper, custody>>

Abandon(b) ==
    /\ interp[b] = "up"
    /\ exec[b] = "wrecked"
    /\ interp' = [interp EXCEPT ![b] = "abandoned"]
    /\ \E gone \in SUBSET {i \in Items : custody[i] = "lua" /\ keeper[i] = b} :
        custody' = [i \in Items |-> IF i \in gone THEN "lost" ELSE custody[i]]
    /\ UNCHANGED <<exec, keeper>>

Next ==
    \/ \E b \in Boxes : Build(b) \/ Enter(b) \/ Leave(b) \/ Destroy(b) \/ Abandon(b)
    \/ \E i \in Items : GiveBack(i) \/ \E b \in Boxes : Take(i, b)
    \/ \E also \in SUBSET Boxes : Crash(also)

Spec == Init /\ [][Next]_custodyVars
====
