---- MODULE Proxies ----
(* Classes registered with a sandbox, the proxies of their instances that       *)
(* scripts hold, and the tokens through which what a script saved of a class    *)
(* finds its record, or finds that it went (luaext_proxy.c, and the names       *)
(* registered in luaext_sandbox.c).                                             *)
(*                                                                              *)
(* `acts` is the C stack: "call" is a call of the host's into the interpreter,  *)
(* "host" a call of the interpreter's into PHP, "class" and "library" a         *)
(* registration whose attributes and callables are being evaluated (PHP code),  *)
(* "new" a constructor whose object is being initialised (PHP code again).      *)
(* Left out: which methods and operators of a class may be exposed, each being  *)
(* one way to be refused; a finaliser of a script's that unregisters a class    *)
(* during the collection that allocating that class's proxy provokes; and a     *)
(* close() made by the callables of a library that is being registered.         *)
EXTENDS Naturals, FiniteSets, SequencesExt, FiniteSetsExt

CONSTANTS
    Kinds,      \* PHP classes
    Lineage,    \* of each, itself and its ancestors, nearest first
    Names,      \* Lua names
    Records,    \* addresses a class record may be allocated at
    Proxies,    \* userdata
    Nobody,
    MaxTokens,  \* bound on the registrations of classes
    MaxActs     \* bound on the C stack

ASSUME ProxiesAssumption == IsFiniteSet(Proxies) /\ Lineage \in [Kinds -> Seq(Kinds)]

VARIABLES
    records,    \* the registry, and the retired chain
    tokens,     \* of each registration: the record it names, and its two anchors
    proxies,    \* userdata: what it is, the record it names and the metatable it wears
    claimed,    \* claimed_globals
    acts,       \* the C stack, innermost last
    gone,       \* the sandbox is closed
    doubled     \* history: names a registration claimed over another's claim

proxyVars == <<records, tokens, proxies, claimed, acts, gone, doubled>>

NoRecord == [gen |-> 0, kind |-> Nobody, name |-> Nobody, retired |-> FALSE, live |-> 0]
NoProxy  == [st |-> "none", cls |-> Nobody, worn |-> 0]

ProxiesInit ==
    /\ records = [r \in Records |-> NoRecord]
    /\ tokens = <<>>
    /\ proxies = [p \in Proxies |-> NoProxy]
    /\ claimed = [n \in Names |-> "no"]
    /\ acts = <<>>
    /\ gone = FALSE
    /\ doubled = {}

Act(k, what, name, held) == [k |-> k, what |-> what, name |-> name, held |-> held]

Doing(k)   == acts # <<>> /\ Last(acts).k = k
LuaActs    == ~gone /\ Doing("call")
PhpActs    == ~gone /\ ~Doing("call")
MayNest    == Len(acts) < MaxActs
Held       == UNION {acts[n].held : n \in DOMAIN acts}

Exist      == {r \in Records : records[r].gen > 0}
Registered == {r \in Exist : ~records[r].retired}
LiveOnes   == {p \in Proxies : proxies[p].st = "live"}

(* The record linked last, of those in R: the chain is walked newest first.     *)
Newest(R)  == CHOOSE r \in R : \A s \in R : records[s].gen <= records[r].gen

(* The nearest registered ancestor of an instance's class.                      *)
Candidates(kind) == {i \in DOMAIN Lineage[kind] :
                        \E r \in Registered : records[r].kind = Lineage[kind][i]}
Nearest(kind)    == Newest({r \in Registered :
                        records[r].kind = Lineage[kind][Min(Candidates(kind))]})

--------------------------------------------------------------------------------
(* The C stack.                                                                 *)

HostEnters ==
    /\ PhpActs /\ MayNest
    /\ acts' = Append(acts, Act("call", 0, Nobody, {}))
    /\ UNCHANGED <<records, tokens, proxies, claimed, gone, doubled>>

HostComesBack ==
    /\ LuaActs \/ (~gone /\ Doing("host"))
    /\ acts' = Front(acts)
    /\ UNCHANGED <<records, tokens, proxies, claimed, gone, doubled>>

--------------------------------------------------------------------------------
(* Registrations.                                                               *)

(* The name and the class are looked at, and then PHP code runs.                *)
BeginsClass(kind, name) ==
    /\ PhpActs /\ MayNest
    /\ \A r \in Registered : records[r].kind # kind
    /\ claimed[name] = "no"
    /\ acts' = Append(acts, Act("class", kind, name, {}))
    /\ UNCHANGED <<records, tokens, proxies, claimed, gone, doubled>>

BeginsLibrary(name) ==
    /\ PhpActs /\ MayNest
    /\ claimed[name] = "no"
    /\ acts' = Append(acts, Act("library", Nobody, name, {}))
    /\ UNCHANGED <<records, tokens, proxies, claimed, gone, doubled>>

Claims(name, as) ==
    /\ claimed' = [claimed EXCEPT ![name] = IF @ = "no" THEN as ELSE @]
    /\ doubled' = IF claimed[name] = "no" THEN doubled ELSE doubled \cup {name}

(* Anything refused, the sandbox closed meanwhile, or no memory for the table:  *)
(* the anchor is dropped with the record and nothing was published.             *)
RegistrationFails ==
    /\ Doing("class") \/ Doing("library")
    /\ acts' = Front(acts)
    /\ UNCHANGED <<records, tokens, proxies, claimed, gone, doubled>>

(* A class that exposes instances only plants no table and has no anchor yet.   *)
ClassPlanted(planted) ==
    /\ Doing("class") /\ ~gone
    /\ Len(tokens) < MaxTokens
    /\ \E r \in Records \ Exist :
        LET gen == Len(tokens) + 1 IN
        /\ records' = [records EXCEPT ![r] = [gen |-> gen, kind |-> Last(acts).what,
                             name |-> Last(acts).name, retired |-> FALSE, live |-> 0]]
        /\ tokens' = Append(tokens, [names |-> r, class |-> planted, dispatch |-> FALSE])
    /\ Claims(Last(acts).name, "class")
    /\ acts' = Front(acts)
    /\ UNCHANGED <<proxies, gone>>

LibraryPlanted ==
    /\ Doing("library") /\ ~gone
    /\ Claims(Last(acts).name, "library")
    /\ acts' = Front(acts)
    /\ UNCHANGED <<records, tokens, proxies, gone>>

(* unregister(), its global cleared: the claim goes, the class's own alias is   *)
(* revoked, and the record goes too unless a proxy still wears it.              *)
Unregister(name) ==
    /\ PhpActs /\ claimed[name] # "no"
    /\ claimed' = [claimed EXCEPT ![name] = "no"]
    /\ LET named == {r \in Registered : records[r].name = name}
           r     == Newest(named)
           g     == records[r].gen
       IN  IF named = {} THEN UNCHANGED <<records, tokens>>
           ELSE /\ records' = [records EXCEPT ![r] =
                        IF @.live = 0 THEN NoRecord ELSE [@ EXCEPT !.retired = TRUE]]
                /\ tokens' = [tokens EXCEPT ![g] = [@ EXCEPT !.class = FALSE,
                        !.dispatch = tokens[g].dispatch /\ records[r].live > 0]]
    /\ UNCHANGED <<proxies, acts, gone, doubled>>

--------------------------------------------------------------------------------
(* Proxies.                                                                     *)

(* The shell: a userdata without magic.  Building a class's metatable makes its *)
(* dispatch anchor, which stays when memory runs out after it.                  *)
Shell(p, r) == [st |-> "shell", cls |-> Nobody, worn |-> records[r].gen]
Anchored(r) == [tokens EXCEPT ![records[r].gen].dispatch = TRUE]

Bind(p, r, worn) ==
    /\ proxies' = [proxies EXCEPT ![p] = [st |-> "live", cls |-> r, worn |-> worn]]
    /\ records' = [records EXCEPT ![r].live = @ + 1]

(* An instance crosses: a value converted for a script.                         *)
Pushed(kind, p) ==
    /\ PhpActs /\ Candidates(kind) # {} /\ proxies[p].st = "none"
    /\ tokens' = Anchored(Nearest(kind))
    /\ \/ Bind(p, Nearest(kind), records[Nearest(kind)].gen)
       \/ UNCHANGED <<proxies, records>>
    /\ UNCHANGED <<claimed, acts, gone, doubled>>

(* A class's constructor, called through an alias that was not revoked.         *)
NewBegins(gen, p) ==
    /\ LuaActs /\ MayNest
    /\ tokens[gen].class /\ proxies[p].st = "none"
    /\ LET r == tokens[gen].names IN
        /\ tokens' = Anchored(r)
        /\ proxies' = [proxies EXCEPT ![p] = Shell(p, r)]
    /\ acts' = Append(acts, Act("new", gen, Nobody, {p}))
    /\ UNCHANGED <<records, claimed, gone, doubled>>

NewFails ==
    /\ ~gone /\ Doing("new")
    /\ acts' = Front(acts)
    /\ UNCHANGED <<records, tokens, proxies, claimed, gone, doubled>>

\* Mutant: the anchor is not asked again after the object was initialised.
NewBindsTrusting ==
    /\ ~gone /\ Doing("new")
    /\ \E p \in Last(acts).held :
        Bind(p, tokens[Last(acts).what].names, proxies[p].worn)
    /\ acts' = Append(Front(acts), Act("host", 0, Nobody, Last(acts).held))
    /\ UNCHANGED <<tokens, claimed, gone, doubled>>

(* The anchor is asked again: initialising the object ran PHP code.             *)
NewBinds ==
    /\ ~gone /\ Doing("new") /\ tokens[Last(acts).what].class
    /\ \E p \in Last(acts).held :
        Bind(p, tokens[Last(acts).what].names, proxies[p].worn)
    /\ acts' = Append(Front(acts), Act("host", 0, Nobody, Last(acts).held))
    /\ UNCHANGED <<tokens, claimed, gone, doubled>>

(* A method, an operator or tostring, through a token that still stands and on  *)
(* proxies of its own class; == asks the proxies alone; a static has no self.   *)
Dispatches(held) ==
    /\ LuaActs /\ MayNest
    /\ acts' = Append(acts, Act("host", 0, Nobody, held))
    /\ UNCHANGED <<records, tokens, proxies, claimed, gone, doubled>>

MethodCalled(gen, held) ==
    /\ tokens[gen].dispatch
    /\ held \subseteq LiveOnes /\ held # {}
    /\ \A p \in held : proxies[p].cls = tokens[gen].names
    /\ Dispatches(held)

EqualityCalled(p, q) ==
    /\ {p, q} \subseteq LiveOnes /\ p # q
    /\ proxies[p].cls = proxies[q].cls
    /\ Dispatches({p, q})

StaticCalled(gen) == tokens[gen].class /\ Dispatches({})

\* Mutant: any proxy of a retired record takes them along.
SettlesEagerly(p, left) ==
    LET r    == proxies[p].cls
        last == records[r].retired
    IN  /\ proxies' = [proxies EXCEPT ![p] = left]
        /\ records' = [records EXCEPT ![r] = IF last THEN NoRecord ELSE [@ EXCEPT !.live = records[r].live - 1]]
        /\ tokens' = [tokens EXCEPT ![records[r].gen].dispatch = @ /\ ~last]

(* The last proxy of a retired record takes the record and its token along.     *)
Settles(p, left) ==
    LET r    == proxies[p].cls
        last == records[r].retired /\ records[r].live = 1
    IN  /\ proxies' = [proxies EXCEPT ![p] = left]
        /\ records' = [records EXCEPT ![r] = IF last THEN NoRecord ELSE [@ EXCEPT !.live = records[r].live - 1]]
        /\ tokens' = [tokens EXCEPT ![records[r].gen].dispatch = @ /\ ~last]

(* The collector finalises what no frame holds; a shell's finaliser finds no    *)
(* magic.                                                                       *)
Collected(p) ==
    /\ ~gone /\ p \notin Held
    /\ \/ proxies[p].st = "live" /\ Settles(p, NoProxy)
       \/ /\ proxies[p].st = "shell"
          /\ proxies' = [proxies EXCEPT ![p] = NoProxy]
          /\ UNCHANGED <<records, tokens>>
    /\ UNCHANGED <<claimed, acts, gone, doubled>>

(* debug.setmetatable detaches the metatable, of a proxy in use as well.        *)
Stripped(p) ==
    /\ LuaActs /\ proxies[p].st = "live"
    /\ Settles(p, [NoProxy EXCEPT !.st = "shell"])
    /\ UNCHANGED <<claimed, acts, gone, doubled>>

--------------------------------------------------------------------------------
(* The end.                                                                     *)

Gone ==
    /\ gone' = TRUE
    /\ records' = [r \in Records |-> NoRecord]
    /\ tokens' = [g \in DOMAIN tokens |-> [tokens[g] EXCEPT !.class = FALSE, !.dispatch = FALSE]]
    /\ proxies' = [p \in Proxies |-> NoProxy]
    /\ claimed' = [n \in Names |-> "no"]
    /\ UNCHANGED doubled

(* close() is refused inside a call, but not inside a registration.             *)
Closes ==
    /\ ~gone /\ \A n \in DOMAIN acts : acts[n].k = "class"
    /\ Gone
    /\ UNCHANGED acts

(* A fatal error of PHP's took the stack: the state is abandoned.               *)
Abandoned ==
    /\ ~gone /\ acts # <<>>
    /\ Gone
    /\ acts' = <<>>

ProxiesNext ==
    \/ HostEnters \/ HostComesBack
    \/ \E n \in Names : \/ BeginsLibrary(n) \/ Unregister(n)
                        \/ \E k \in Kinds : BeginsClass(k, n)
    \/ RegistrationFails \/ LibraryPlanted
    \/ \E planted \in BOOLEAN : ClassPlanted(planted)
    \/ \E k \in Kinds, p \in Proxies : Pushed(k, p)
    \/ \E g \in DOMAIN tokens : \/ StaticCalled(g)
                                \/ \E p \in Proxies : NewBegins(g, p)
                                \/ \E held \in SUBSET Proxies : MethodCalled(g, held)
    \/ NewFails \/ NewBinds
    \/ \E p, q \in Proxies : EqualityCalled(p, q)
    \/ \E p \in Proxies : Collected(p) \/ Stripped(p)
    \/ Closes \/ Abandoned

ProxiesSpec == ProxiesInit /\ [][ProxiesNext]_proxyVars

--------------------------------------------------------------------------------

ProxiesTypeOK ==
    /\ \A r \in Records : /\ records[r].gen \in 0 .. Len(tokens)
                          /\ records[r].live \in 0 .. Cardinality(Proxies)
    /\ \A g \in DOMAIN tokens : tokens[g] \in [names : Records, class : BOOLEAN, dispatch : BOOLEAN]
    /\ \A p \in Proxies : proxies[p].st \in {"none", "shell", "live"}
    /\ claimed \in [Names -> {"no", "class", "library"}]
    /\ gone \in BOOLEAN /\ doubled \subseteq Names

(* A class's alias, or a method saved from one of its proxies, that a script    *)
(* may still call names the record of its own registration, and never one       *)
(* retired under it, freed, or allocated again at the same place.               *)
TokensNameTheirOwn ==
    \A g \in DOMAIN tokens :
        /\ tokens[g].class => records[tokens[g].names].gen = g /\ ~records[tokens[g].names].retired
        /\ tokens[g].dispatch => records[tokens[g].names].gen = g

(* Every proxy wears the metatable of the record it names, every record counts  *)
(* its own proxies, and a retired one lives exactly as long as the last.        *)
RecordsCountTheirProxies ==
    /\ \A p \in LiveOnes :
        /\ proxies[p].cls \in Exist
        /\ records[proxies[p].cls].gen = proxies[p].worn
        /\ tokens[proxies[p].worn].dispatch
    /\ \A r \in Exist :
        /\ records[r].live = Cardinality({p \in LiveOnes : proxies[p].cls = r})
        /\ records[r].retired => records[r].live > 0

(* A name is claimed while, and only while, something is registered under it:   *)
(* a refused registration burns no name and a withdrawn one leaves none behind, *)
(* unless a registration nested in another's evaluation took the same name.     *)
ClaimsNameARegistration ==
    \A n \in Names \ doubled :
        Cardinality({r \in Registered : records[r].name = n})
            = IF claimed[n] = "class" THEN 1 ELSE 0

DispatchReadsALiveRecord ==
    /\ TokensNameTheirOwn
    /\ RecordsCountTheirProxies
    /\ ClaimsNameARegistration
====
