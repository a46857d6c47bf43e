-------------------------------- MODULE Types --------------------------------
(***************************************************************************)
(* The classes the client adds to the type system of the game              *)
(* (code/client/Red/TypeInfo): they are discovered when the library is     *)
(* loaded, in whatever order the linker chose, registered and described    *)
(* when the game asks for it, and checked against the scripts.  A game     *)
(* system is created as soon as the game has a framework.                  *)
(*                                                                         *)
(* And the calls between the game and these classes: what one side puts    *)
(* on the stack frame the other takes from it.                             *)
(***************************************************************************)
EXTENDS Naturals, Sequences, FiniteSets

CONSTANTS
    NativeClass,  \* the classes of RTTI_DEFINE_CLASS
    GameSystem,   \* those derived from IGameSystem
    Expansion,    \* the expansions of classes of the game
    Base,         \* Base[c]: the parent RTTI_PARENT names, or NoClass
    Returns,      \* Returns[c]: own classes that its functions return
    Holds,        \* Holds[c]: own classes of its properties
    MaxParams,    \* bound on the parameters of a function
    NoClass

EngineClass == {"IScriptable", "IGameSystem", "redEvent"}
AnyClass    == NativeClass \cup EngineClass

ASSUME TypesAssumption ==
    /\ IsFiniteSet(NativeClass) /\ IsFiniteSet(Expansion)
    /\ NoClass \notin AnyClass
    /\ GameSystem \subseteq NativeClass
    /\ NativeClass \cap EngineClass = {}
    /\ Expansion \cap NativeClass = {}
    /\ Base \in [NativeClass -> EngineClass \cup {NoClass}]
    /\ Returns \in [NativeClass -> SUBSET NativeClass]
    /\ Holds \in [NativeClass -> SUBSET NativeClass]
    /\ MaxParams \in Nat

VARIABLES
    registers,  \* TypeInfoRegistrar::s_registerCallbacks
    describes,  \* TypeInfoRegistrar::s_describeCallbacks
    running,    \* which callback of the registrar the game is running
    batch,      \* the vector that callback has taken
    queued,     \* the callbacks the game has been given
    rtti,       \* own classes of CRTTISystem
    parent,     \* parent[c]: CClass::parent
    nulls,      \* types that were named before they existed
    located,    \* located[n]: TypeLocator<n>::s_resolved and s_type
    getters,    \* getters[c]: the functions Get<c> of ScriptGameInstance
    expanded,   \* expansions described
    framework,  \* CGameEngine::framework
    instances,  \* instances[c]: entries of GameInstance::systemInstances
    validated,  \* the game has checked its scripts
    frame       \* the last call: its arguments and its stack frame

registrar == <<registers, describes, running, batch, queued>>
system    == <<rtti, parent, nulls, located, getters, expanded>>
typesVars == <<registrar, system, framework, instances, validated, frame>>

Callback == ({"register", "describe", "system"} \X NativeClass)
                \cup ({"expand"} \X Expansion)

TypesTypeOK ==
    /\ registers \in Seq(Callback)
    /\ describes \in Seq(Callback)
    /\ running \in {"none", "register", "describe"}
    /\ batch \in Seq(Callback)
    /\ queued \subseteq {"register", "describe"}
    /\ rtti \subseteq AnyClass
    /\ parent \in [NativeClass -> EngineClass \cup {NoClass}]
    /\ nulls \subseteq NativeClass
    /\ located \in [AnyClass -> {"unasked", "missing", "found"}]
    /\ getters \in [NativeClass -> Nat]
    /\ expanded \subseteq Expansion
    /\ framework \in BOOLEAN
    /\ instances \in [NativeClass -> Nat]
    /\ validated \in BOOLEAN

-----------------------------------------------------------------------------
(* Loading.  The static registrars run in the order of the linker, each     *)
(* of a class with two callbacks and of an expansion with one.              *)
Definition == NativeClass \cup Expansion
LinkOrder  == {o \in [1 .. Cardinality(Definition) -> Definition] :
                   \A i, j \in DOMAIN o : o[i] = o[j] => i = j}

Registrars(o) ==
    LET added[i \in 0 .. Len(o)] ==
            IF i = 0 THEN <<>>
            ELSE IF o[i] \in NativeClass THEN Append(added[i - 1], <<"register", o[i]>>)
            ELSE added[i - 1]
    IN  added[Len(o)]

Describers(o) == [i \in DOMAIN o |-> IF o[i] \in NativeClass THEN <<"describe", o[i]>>
                                                             ELSE <<"expand", o[i]>>]

TypesInit ==
    /\ registers = <<>>
    /\ describes = <<>>
    /\ running = "none"
    /\ batch = <<>>
    /\ queued = {}
    /\ rtti = {}
    /\ parent = [c \in NativeClass |-> NoClass]
    /\ nulls = {}
    /\ located = [n \in AnyClass |-> "unasked"]
    /\ getters = [c \in NativeClass |-> 0]
    /\ expanded = {}
    /\ framework = FALSE
    /\ instances = [c \in NativeClass |-> 0]
    /\ validated = FALSE
    /\ frame = <<>>

LoadLibrary ==
    /\ registers = <<>>
    /\ rtti = {}
    /\ running = "none"
    /\ \E o \in LinkOrder :
           /\ registers' = Registrars(o)
           /\ describes' = Describers(o)
    /\ UNCHANGED <<running, batch, queued, system, framework, instances, validated, frame>>

(* RedLibProvider::OnBootstrap.                                             *)
RegisterDiscovered ==
    /\ queued = {}
    /\ registers # <<>>
    /\ ~validated
    /\ queued' = {"register"} \cup (IF describes # <<>> THEN {"describe"} ELSE {})
    /\ UNCHANGED <<registers, describes, running, batch, system, framework, instances,
                   validated, frame>>

(* The game runs what it was given, all that registers first; the vector    *)
(* is moved from before its callbacks are called.                           *)
OnRegister ==
    /\ running = "none"
    /\ "register" \in queued
    /\ running' = "register"
    /\ batch' = registers
    /\ registers' = <<>>
    /\ queued' = queued \ {"register"}
    /\ UNCHANGED <<describes, system, framework, instances, validated, frame>>

OnDescribe ==
    /\ running = "none"
    /\ queued = {"describe"}
    /\ running' = "describe"
    /\ batch' = describes
    /\ describes' = <<>>
    /\ queued' = {}
    /\ UNCHANGED <<registers, system, framework, instances, validated, frame>>

(* A slip: the vector is cleared after its callbacks, not before.           *)
EndBatchAndClear ==
    /\ running # "none"
    /\ batch = <<>>
    /\ running' = "none"
    /\ describes' = IF running = "describe" THEN <<>> ELSE describes
    /\ queued' = queued \cup (IF running = "register" /\ registers # <<>> THEN {"register"} ELSE {})
    /\ UNCHANGED <<registers, batch, system, framework, instances, validated, frame>>

(* Callbacks that were added meanwhile are given to the game again.         *)
EndBatch ==
    /\ running # "none"
    /\ batch = <<>>
    /\ running' = "none"
    /\ queued' = queued
           \cup (IF running = "register" /\ registers # <<>> THEN {"register"} ELSE {})
           \cup (IF running = "describe" /\ describes # <<>> THEN {"describe"} ELSE {})
    /\ UNCHANGED <<registers, describes, batch, system, framework, instances, validated,
                   frame>>

TakesCallback(k, d) ==
    /\ batch # <<>>
    /\ Head(batch) = <<k, d>>
    /\ batch' = Tail(batch)
    /\ UNCHANGED <<registers, running, queued, framework, validated, frame>>

-----------------------------------------------------------------------------
(* The callbacks of one class.  RTTI_DEFINE_CLASS declares its name; the    *)
(* base of the SDK has one as well, which the class inherits.               *)
InheritedName(c) == IF Base[c] # NoClass THEN Base[c]
                    ELSE IF c \in GameSystem THEN "IGameSystem" ELSE c

(* A slip: the name that the class inherits comes before the declared one.  *)
TypeNameOfBase(c) == InheritedName(c)

GetTypeName(c) == IF c \in NativeClass THEN c ELSE InheritedName(c)

RegisterType(c) ==
    /\ TakesCallback("register", c)
    /\ rtti' = rtti \cup {GetTypeName(c)}
    /\ UNCHANGED <<describes, parent, nulls, located, getters, expanded, instances>>

Known(n) == n \in rtti \cup EngineClass

(* TypeLocator asks once, and remembers that there was nothing.             *)
Asked(names) ==
    [n \in AnyClass |-> IF n \in names /\ located[n] = "unasked"
                        THEN IF Known(n) THEN "found" ELSE "missing"
                        ELSE located[n]]

Default(c) == IF c \in GameSystem THEN "IGameSystem" ELSE "IScriptable"

(* BuildSystem and OnInitialize, at most once: systemMap is asked first.    *)
Created(c) == IF instances[c] = 0 THEN [instances EXCEPT ![c] = 1] ELSE instances

(* Without an engine the registration of the system is described later.     *)
RegisterSystem(c) ==
    \/ /\ framework
       /\ instances' = Created(c)
       /\ UNCHANGED describes
    \/ /\ ~framework
       /\ describes' = Append(describes, <<"system", c>>)
       /\ UNCHANGED instances

(* The parent is the default one or that of RTTI_PARENT.                    *)
SetParent(c, found) ==
    LET named == IF Base[c] # NoClass THEN Base[c] ELSE Default(c)
    IN parent' = [parent EXCEPT ![c] = IF found[named] = "found" THEN named ELSE NoClass]

(* Both resolve a type at once: MakeNativeFunction that of the result,      *)
(* AddProperty that of the property.                                        *)
AddFunction(c) == Returns[c] \ rtti
AddProperty(c) == Holds[c] \ rtti

RegisterGetter(c) == getters' = [getters EXCEPT ![c] = @ + 1]

(* What has no class yet is passed over; it would lack all of this.        *)
DescribeType(c) ==
    /\ TakesCallback("describe", c)
    /\ GetTypeName(c) \in rtti
    /\ LET found == Asked({Default(c), Base[c]} \ {NoClass})
       IN /\ located' = found
          /\ SetParent(c, found)
    /\ nulls' = nulls \cup AddFunction(c) \cup AddProperty(c)
    /\ \/ /\ c \in GameSystem
          /\ RegisterGetter(c)
          /\ RegisterSystem(c)
       \/ /\ c \notin GameSystem
          /\ UNCHANGED <<getters, describes, instances>>
    /\ UNCHANGED <<rtti, expanded>>

RegisterSystemLater(c) ==
    /\ TakesCallback("system", c)
    /\ located' = IF framework THEN Asked({c}) ELSE located
    /\ RegisterSystem(c)
    /\ UNCHANGED <<rtti, parent, nulls, getters, expanded>>

(* ClassExpansion::DescribeType.                                            *)
ExpandType(x) ==
    /\ TakesCallback("expand", x)
    /\ expanded' = expanded \cup {x}
    /\ UNCHANGED <<describes, rtti, parent, nulls, located, getters, instances>>

-----------------------------------------------------------------------------
(* The game: it checks its scripts once the types are there, and starts.    *)
ValidateScripts ==
    /\ ~validated
    /\ registers = <<>>
    /\ running = "none"
    /\ rtti # {}
    /\ \A i \in DOMAIN describes : describes[i][1] = "system"
    /\ validated' = TRUE
    /\ UNCHANGED <<registrar, system, framework, instances, frame>>

StartFramework ==
    /\ validated
    /\ ~framework
    /\ framework' = TRUE
    /\ UNCHANGED <<registrar, system, instances, validated, frame>>

(* Red::GetClass<c>() anywhere in the client.                               *)
GetClass(c) ==
    /\ validated
    /\ located[c] = "unasked"
    /\ located' = Asked({c})
    /\ UNCHANGED <<registrar, rtti, parent, nulls, getters, expanded, framework,
                   instances, validated, frame>>

(* What GameInstance.Get<c>() gives to a script.                            *)
ScriptGetter(c) == IF framework /\ instances[c] > 0 THEN c ELSE NoClass

-----------------------------------------------------------------------------
(* Calls.  A native function has the signature sig: values, optional ones,  *)
(* and the stack frame itself, which takes no parameter.  Its context is    *)
(* that of a scriptable class, a plain struct, or none.                     *)
Signature == UNION {[1 .. n -> {"value", "optional", "frame"}] : n \in 0 .. MaxParams}
Context   == {"none", "scriptable", "plain"}

(* DescribeNativeFunction.                                                  *)
Params(ctx, sig) ==
    LET params[i \in 0 .. Len(sig)] ==
            IF i = 0 THEN IF ctx = "plain" THEN <<"self">> ELSE <<>>
            ELSE IF sig[i] = "frame" THEN params[i - 1]
            ELSE Append(params[i - 1], sig[i])
    IN  params[Len(sig)]

(* An argument is the position it belongs to, or 0 if it is left out.       *)
Arguments(params) ==
    {a \in [DOMAIN params -> 0 .. Len(params)] :
         \A i \in DOMAIN params : a[i] \in {0, i}}

(* CallFunctionWithArgs: only what is optional may be left out.             *)
Accepted(params, args) ==
    \A i \in DOMAIN params : args[i] = 0 => params[i] = "optional"

(* CallFunctionWithStack: one operation for a parameter, and the end.       *)
Code(params, args) ==
    [i \in DOMAIN params |-> IF args[i] = 0 THEN <<"nop">> ELSE <<"param", args[i]>>]
        \o << <<"end">> >>

(* ExtractArg: the value an operation leaves in the argument.               *)
Value(op) == IF op[1] = "param" THEN op[2] ELSE 0

(* ExtractArgs: how many operations the arguments before i have taken.      *)
Taken(ctx, sig, i) ==
    (IF ctx = "plain" THEN 1 ELSE 0) + Cardinality({j \in 1 .. i - 1 : sig[j] # "frame"})

Extracted(ctx, sig, code) ==
    [i \in DOMAIN sig |-> IF sig[i] = "frame" THEN "frame"
                          ELSE Value(code[Taken(ctx, sig, i) + 1])]

(* MakeNativeFunction: after the arguments, the end is stepped over.        *)
CodeLeft(ctx, sig, code) == Len(code) - (Taken(ctx, sig, Len(sig) + 1) + 1)

CallFunction(ctx, sig) ==
    /\ validated
    /\ framework
    /\ \E args \in Arguments(Params(ctx, sig)) :
           /\ Accepted(Params(ctx, sig), args)
           /\ frame' = <<ctx, sig, args, Code(Params(ctx, sig), args)>>
    /\ UNCHANGED <<registrar, system, framework, instances, validated>>

Return ==
    /\ frame # <<>>
    /\ frame' = <<>>
    /\ UNCHANGED <<registrar, system, framework, instances, validated>>

TypesNext ==
    \/ LoadLibrary
    \/ RegisterDiscovered
    \/ OnRegister
    \/ OnDescribe
    \/ EndBatch
    \/ \E c \in NativeClass : \/ RegisterType(c)
                              \/ DescribeType(c)
                              \/ RegisterSystemLater(c)
                              \/ GetClass(c)
    \/ \E x \in Expansion : ExpandType(x)
    \/ ValidateScripts
    \/ StartFramework
    \/ frame = <<>> /\ \E ctx \in Context, sig \in Signature : CallFunction(ctx, sig)
    \/ Return

TypesSpec == TypesInit /\ [][TypesNext]_typesVars

-----------------------------------------------------------------------------
(* Whatever order the linker chose, when the game checks its scripts each   *)
(* class is there with its parent, each system with one getter, and no      *)
(* function or property names a type that did not exist when it was         *)
(* described.  (TypeInfoRegistrar, ClassDefinition::DescribeType.)          *)
DescribedWhole ==
    validated =>
        /\ rtti = NativeClass
        /\ nulls = {}
        /\ expanded = Expansion
        /\ \A c \in NativeClass :
               /\ parent[c] = IF Base[c] # NoClass THEN Base[c] ELSE Default(c)
               /\ getters[c] = IF c \in GameSystem THEN 1 ELSE 0

(* No locator has remembered that a class does not exist which does.        *)
(* (TypeLocator::Resolve.)                                                  *)
NeverMissed == \A c \in rtti \cup EngineClass : located[c] # "missing"

(* A system that could not be created yet is created exactly once, when     *)
(* there is an engine: its callback is never lost between two rounds.       *)
(* (SystemBuilder::RegisterSystem, ProcessPendingDescriberCallbacks.)       *)
Waiting(c) == \E s \in {describes, batch} : \E i \in DOMAIN s :
                  s[i] \in {<<"describe", c>>, <<"system", c>>}
SystemsAreKept ==
    /\ \A c \in GameSystem \cap rtti : instances[c] = 1 \/ (instances[c] = 0 /\ Waiting(c))
    /\ (validated /\ describes # <<>>) => (running = "describe" \/ "describe" \in queued)

(* A native function gets each argument at its own place, and leaves the    *)
(* frame behind the last operation.  (DescribeNativeFunction, ExtractArgs,  *)
(* CallFunctionWithStack.)                                                  *)
ArgumentsInPlace ==
    frame # <<>> =>
        LET ctx == frame[1]  sig == frame[2]  args == frame[3]  code == frame[4]
        IN /\ CodeLeft(ctx, sig, code) = 0
           /\ \A i \in DOMAIN sig : sig[i] # "frame" =>
                  Extracted(ctx, sig, code)[i] = args[Taken(ctx, sig, i) + 1]

(* The classes of the client are whole when the game uses them.             *)
TypesAreWhole == DescribedWhole /\ NeverMissed /\ SystemsAreKept /\ ArgumentsInPlace
=============================================================================
