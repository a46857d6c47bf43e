-------------------------------- MODULE Csharp --------------------------------
(***************************************************************************)
(* The C# that the client writes when the game has initialized, for the    *)
(* plugins of the server to be compiled with (RpcCsharp, RpcValidator and  *)
(* RpcGenerator): RedTypes.cs declares the classes and enums that the      *)
(* parameters of the remote functions need, and a library for each class   *)
(* of functions mentions them by name.  The types are those of the game    *)
(* and its scripts, as the mods at hand have them.                         *)
(***************************************************************************)
EXTENDS Rpcs

CONSTANTS
    Scripted,   \* classes of the type system
    ShortName,  \* names without the first part of their module
    Parentless

ASSUME CsharpAssumption ==
    /\ IsFiniteSet(Scripted)
    /\ Scripted \cap {Parentless, "int", "enum", "handle", "array"} = {}

VARIABLES
    graph,    \* the types, and the parameter of a remote function
    dump,     \* "before", "validated", "handled", "written" or "overflow"
    reported, \* InternalValidate has logged an error
    redTypes  \* RedTypes.cs: the declarations, with what each mentions

csharpVars == <<graph, dump, reported, redTypes>>

(* Of the types without parts: int stands for what C# has a keyword for.    *)
Named      == {"int", "enum", "handle"} \cup Scripted
AnyType    == {<<n>> : n \in Named} \cup {<<"array", n>> : n \in Named}
IsArray(t) == t[1] = "array"
Inner(t)   == <<t[2]>>

(* Classes have one property of their own, and one level of parents.        *)
Graph == [name   : [Scripted -> ShortName],
          parent : {p \in [Scripted -> Scripted \cup {Parentless}] :
                      \A c \in Scripted : p[c] # Parentless => p[p[c]] = Parentless},
          member : [Scripted -> AnyType],
          param  : AnyType]

(* GetProperties: those of the parent, too.                                *)
Members(c) == {graph.member[c]} \cup
    IF graph.parent[c] = Parentless THEN {} ELSE {graph.member[graph.parent[c]]}

CsharpTypeOK ==
    /\ graph \in Graph
    /\ dump \in {"before", "validated", "handled", "written", "overflow"}
    /\ reported \in BOOLEAN
    /\ \A d \in redTypes : d.of \in Scripted \cup {"enum"}

CsharpInit ==
    /\ graph \in Graph
    /\ dump = "before"
    /\ reported = FALSE
    /\ redTypes = {}

-----------------------------------------------------------------------------
(* What the types of S are made of.  A class is met again at each use.      *)
Within(c)   == Members(c) \cup {<<p>> : p \in {graph.parent[c]} \ {Parentless}}
PartsOf(S)  == {Inner(t) : t \in {u \in S : IsArray(u)}}
                 \cup UNION {Within(c) : c \in {d \in Scripted : <<d>> \in S}}

(* The calls of CollectTypes, or of ValidateType, by their depth.           *)
MaxDepth == 2 * Cardinality(Scripted) + 2
CallsAt[n \in 0 .. MaxDepth] == IF n = 0 THEN {graph.param} ELSE PartsOf(CallsAt[n - 1])
Met      == UNION {CallsAt[n] : n \in 0 .. MaxDepth}
Found(N) == {n \in N : <<n>> \in Met}
Endless  == CallsAt[MaxDepth] # {}

(* ValidateType of a type that the game knows, for the record only: neither *)
(* enums nor handles pass.                                                 *)
InternalValidate ==
    /\ dump = "before"
    /\ reported' = (~Endless /\ Found({"enum", "handle"}) # {})
    /\ dump' = IF Endless THEN "overflow" ELSE "validated"
    /\ UNCHANGED <<graph, redTypes>>

(* A slip: classes are looked for in the parameters alone.                  *)
CollectShallow(classes, enums) ==
    /\ classes = {c \in Scripted : <<c>> \in CallsAt[0]}
    /\ enums = Found({"enum"})

CollectTypes(classes, enums) ==
    /\ classes = Found(Scripted)
    /\ enums = Found({"enum"})

(* GenerateHandlers collects them as well, and uses none.                   *)
GenerateHandlers ==
    /\ dump = "validated"
    /\ dump' = "handled"
    /\ UNCHANGED <<graph, reported, redTypes>>

(* GetTypeName.  The inner type of an array goes by the name the game has   *)
(* for it, keyword or not; a handle has none.                              *)
RpcName(n) == <<"Rpc", IF n \in Scripted THEN graph.name[n] ELSE n>>
NameOf(t) ==
    CASE t = <<"int">>    -> <<"int">>
      [] t = <<"handle">> -> <<>>
      [] OTHER            -> RpcName(t[Len(t)])

(* EmitRead and EmitWrite name the inner type itself, too.                  *)
Mentioned(t) == {NameOf(t)} \cup IF IsArray(t) THEN {NameOf(Inner(t))} ELSE {}

(* An enum, or a class with its properties and its parent.                  *)
DeclarationOf(n) ==
    [of |-> n, name |-> RpcName(n),
     mentions |-> IF n \in Scripted
                  THEN {RpcName(p) : p \in {graph.parent[n]} \ {Parentless}}
                       \cup UNION {Mentioned(m) : m \in Members(n)}
                  ELSE {}]

(* RedTypes.cs.                                                            *)
DumpCsharp ==
    /\ dump = "handled"
    /\ \E classes \in SUBSET Scripted, enums \in SUBSET {"enum"} :
         /\ CollectTypes(classes, enums)
         /\ redTypes' = {DeclarationOf(n) : n \in classes \cup enums}
    /\ dump' = "written"
    /\ UNCHANGED <<graph, reported>>

CsharpNext == InternalValidate \/ GenerateHandlers \/ DumpCsharp

CsharpSpec == CsharpInit /\ [][CsharpNext]_csharpVars

-----------------------------------------------------------------------------
(* What the libraries and the declarations mention.                        *)
AllMentioned == Mentioned(graph.param) \cup UNION {d.mentions : d \in redTypes}
Keyword      == {<<"int">>}
Declared     == {d.name : d \in redTypes}

(* What is written compiles, every name that is mentioned declared once:    *)
(* unless two types share a name without their modules, an array is one of  *)
(* a type with a keyword, or there is a handle, of which InternalValidate   *)
(* has complained.                                                         *)
LibrariesCompile ==
    dump = "written" =>
        \/ Found({"handle"}) # {} /\ reported
        \/ <<"array", "int">> \in Met
        \/ \E c, d \in Found(Scripted \cup {"enum"}) : c # d /\ RpcName(c) = RpcName(d)
        \/ /\ AllMentioned \subseteq Declared \cup Keyword
           /\ \A d, e \in redTypes : d.name = e.name => d = e

(* A remote call finds its function, and the library through which the      *)
(* server makes it is one that compiles.                                   *)
CallsAreWritten == CallsReachTheirFunction /\ LibrariesCompile
=============================================================================
