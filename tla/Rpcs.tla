--------------------------------- MODULE Rpcs ---------------------------------
(***************************************************************************)
(* How a remote call finds its function.  The client makes the functions   *)
(* of the scripts callable when the game starts (RpcValidator,             *)
(* RpcGenerator), and writes the C# libraries that the plugins of the      *)
(* server are compiled with.  The server numbers the functions of its      *)
(* plugins anew at every start (Rpc.cs, RpcScriptInstance), in the order   *)
(* in which they load; a client is sent the numbers when it joins, and     *)
(* calls are told by number alone.  When the queues of a client forget     *)
(* their messages is left to Session.                                      *)
(***************************************************************************)
EXTENDS Integers, SequencesExt

CONSTANTS
    Class,        \* children of ServerRpc and of ClientRpc
    Function,
    Unset,        \* an attribute that was left out
    MaxLibraries, \* bound on the functions of a plugin
    MaxFlight,    \* bound on the calls on their way in one direction
    MaxRuns       \* bound on the starts of the server

ASSUME RpcsAssumption == /\ IsFiniteSet(Class) /\ IsFiniteSet(Function)
                         /\ MaxLibraries \in Nat
                         /\ MaxFlight \in Nat
                         /\ MaxRuns \in Nat

VARIABLES
    boot,       \* the client: "scripts" are compiled, then "playing"
    known,      \* the children of ServerRpc the game knows
    codegen,    \* s_codegen: the functions that call the server
    handlers,   \* s_clientContext: the functions the server may call
    clientIds,  \* m_clientRpcs of the server; place i has number i - 1
    serverIds,  \* m_serverRpcs of the server
    methods,    \* RpcManager.serverRpcs: the method of each number
    host,       \* the server: "down", "loading" or "up"
    joined,     \* the client's connection is authenticated
    clientRpcs, \* m_clientRpcs of the client, by number
    serverRpcs, \* m_serverRpcs of the client, by function
    toClient, toServer, \* messages on their way
    inbox,      \* m_calls: the calls that wait for the server's tick
    runs

serverVars == <<clientIds, serverIds, methods, host, runs>>
tableVars  == <<clientRpcs, serverRpcs>>
clientVars == <<boot, known, codegen, handlers>>
rpcsVars == <<clientVars, serverVars, tableVars, joined, toClient, toServer, inbox>>

Rpc == Class \X Function
Call == [id : Nat, of : Rpc]  \* `of` is what the caller meant: not sent

RpcsTypeOK ==
    /\ boot \in {"scripts", "playing", "ended"}
    /\ known \subseteq Class
    /\ \A c \in codegen : c.rpc \in Rpc /\ c.ready \in BOOLEAN
    /\ handlers \subseteq Rpc
    /\ clientIds \in Seq(Rpc)
    /\ serverIds \in Seq(Rpc)
    /\ methods \in Seq(Rpc)
    /\ clientRpcs \in Seq(Rpc)
    /\ DOMAIN serverRpcs \subseteq Rpc
    /\ inbox \in Seq(Call) /\ toServer \in Seq(Call)
    /\ host \in {"down", "loading", "up"} /\ joined \in BOOLEAN
    /\ runs \in 0 .. MaxRuns

RpcsInit ==
    /\ boot = "scripts"
    /\ known = {} /\ codegen = {} /\ handlers = {}
    /\ clientIds = <<>> /\ serverIds = <<>> /\ methods = <<>>
    /\ host = "down"
    /\ joined = FALSE
    /\ clientRpcs = <<>> /\ serverRpcs = <<>>
    /\ toClient = <<>> /\ toServer = <<>> /\ inbox = <<>>
    /\ runs = 0

-----------------------------------------------------------------------------
(* The client starts.                                                      *)

(* Types of parameters.  A class may be known to the game (RTTI) already,  *)
(* and of its properties only the primitive ones pass there.               *)
Leaf == [kind : {"primitive", "enum", "handle"}]
ParamType == Leaf \cup [kind : {"array"}, inner : Leaf]
             \cup [kind : {"class"}, inRtti : BOOLEAN, native : BOOLEAN, prop : Leaf]

ValidateProp(t) == t.kind = "primitive"

ValidateLeaf(t) == t.kind # "handle"

ValidateType(t) ==
    \/ t.kind \in {"primitive", "enum"}
    \/ t.kind = "array" /\ ValidateLeaf(t.inner)
    \/ /\ t.kind = "class"
       /\ IF t.inRtti THEN ValidateProp(t.prop) ELSE ~t.native

(* A declaration of a script: whether it is native, and its parameters.    *)
Declaration == [native : BOOLEAN, out : BOOLEAN, type : ParamType]

ValidateFunction(d) == d.native /\ ~d.out /\ ValidateType(d.type)

(* HookScriptValidator_Validate: a child of ServerRpc that the game does   *)
(* not know becomes a class, with those of its functions that pass, each   *)
(* with a piece of code of its own (CreateFunction).                       *)
Validate ==
    /\ boot = "scripts"
    /\ \E k \in Class \ known, declared \in [Function -> Declaration] :
         /\ known' = known \cup {k}
         /\ codegen' = codegen \cup
                {[rpc |-> <<k, f>>, ready |-> FALSE] :
                    f \in {g \in Function : ValidateFunction(declared[g])}}
    /\ UNCHANGED <<boot, handlers, serverVars, tableVars, joined, toClient, toServer, inbox>>

(* The packs for the arguments are added to each piece of code.            *)
GenerateServerWriters == {[c EXCEPT !.ready = TRUE] : c \in codegen}

(* PrepareRpc, when the game has initialized: a reader for every function  *)
(* of the children of ClientRpc, the writers for the functions that call   *)
(* the server.  With RpcOnly the game ends there.                          *)
PrepareRpc ==
    /\ boot = "scripts"
    /\ \E fs \in SUBSET Rpc : handlers' = fs
    /\ codegen' = GenerateServerWriters
    /\ boot' \in {"playing", "ended"}
    /\ UNCHANGED <<known, serverVars, tableVars, joined, toClient, toServer, inbox>>

-----------------------------------------------------------------------------
(* The server starts.                                                      *)

(* GenerateFunctionLibraries: the libraries of DumpCsharp hold a method    *)
(* for each function, with its class and name in its attribute.            *)
Method(attribute, rpc) == [attribute |-> attribute, class |-> rpc[1], function |-> rpc[2],
                           player |-> TRUE]
Library(attribute, rpcs) == [i \in DOMAIN rpcs |-> Method(attribute, rpcs[i])]

(* A type of a plugin: methods of a library, of this or of an earlier      *)
(* dump, in any order; one more may be written by hand, without its class, *)
(* its name, or the player.                                                *)
PluginOrders == UNION {SetToSeqs(S) : S \in {R \in SUBSET Rpc : Cardinality(R) <= MaxLibraries}}
ByHand == {<<>>} \cup
    {<<m>> : m \in [attribute : {"ClientRpc", "ServerRpc"}, class : {Unset},
                    function : Function \cup {Unset}, player : BOOLEAN]}
PluginType == {Library(a, rpcs) \o h :
                 a \in {"ClientRpc", "ServerRpc"}, rpcs \in PluginOrders, h \in ByHand}

(* ParseAssembly, over the methods of a type.  `class` stays from the      *)
(* method before; a method without an attribute value ends the scan.       *)
Scan == [class : Class \cup {Unset}, stopped : BOOLEAN, client : Seq(Rpc), server : Seq(Rpc)]

ParseMethod(m, scan) ==
    LET class == IF m.class # Unset THEN m.class ELSE scan.class
        rpc == <<class, m.function>>
    IN  IF scan.stopped \/ ~m.player THEN scan
        ELSE IF class = Unset \/ m.function = Unset THEN [scan EXCEPT !.stopped = TRUE]
        ELSE IF m.attribute = "ClientRpc"
             THEN [scan EXCEPT !.class = class, !.client = Append(@, rpc)]
             ELSE [scan EXCEPT !.class = class, !.server = Append(@, rpc)]

ParseType(type) ==
    LET scan[i \in 0 .. Len(type)] ==
            IF i = 0 THEN [class |-> Unset, stopped |-> FALSE, client |-> <<>>, server |-> <<>>]
            ELSE ParseMethod(type[i], scan[i - 1])
    IN  scan[Len(type)]

Start ==
    /\ host = "down"
    /\ runs < MaxRuns
    /\ host' = "loading"
    /\ runs' = runs + 1
    /\ clientIds' = <<>> /\ serverIds' = <<>> /\ methods' = <<>>
    /\ UNCHANGED <<clientVars, tableVars, joined, toClient, toServer, inbox>>

(* RegisterClient, RegisterServer: the next number; the method is found by *)
(* the number that RegisterServer returned.                                *)
LoadPlugin ==
    /\ host = "loading"
    /\ \E scan \in {ParseType(t) : t \in PluginType} :
         /\ Len(clientIds) + Len(serverIds) + Len(scan.client) + Len(scan.server)
              <= MaxLibraries
         /\ clientIds' = clientIds \o scan.client
         /\ serverIds' = serverIds \o scan.server
         /\ methods' = methods \o scan.server
    /\ UNCHANGED <<clientVars, tableVars, joined, toClient, toServer, inbox,
                   host, runs>>

Listens ==
    /\ host = "loading"
    /\ host' = "up"
    /\ UNCHANGED <<clientVars, tableVars, joined, toClient, toServer, inbox,
                   clientIds, serverIds, methods, runs>>

-----------------------------------------------------------------------------
(* A session.                                                              *)

(* RpcScriptInstance::Serialize.                                           *)
Numbered(rpcs) == [i \in DOMAIN rpcs |-> [id |-> i - 1, rpc |-> rpcs[i]]]
Serialize == [client |-> Numbered(clientIds), server |-> Numbered(serverIds)]

(* The client is authenticated, and told the numbers.                      *)
Join ==
    /\ boot = "playing" /\ host = "up" /\ ~joined
    /\ joined' = TRUE
    /\ toClient' = <<Serialize>>
    /\ toServer' = <<>>
    /\ UNCHANGED <<clientVars, serverVars, tableVars, inbox>>

(* HandleRpcDefinitions, with the handler of each function or none.        *)
HandleRpcDefinitions ==
    /\ joined
    /\ toClient # <<>>
    /\ "client" \in DOMAIN Head(toClient)
    /\ LET m == Head(toClient) IN
         /\ clientRpcs' = [i \in DOMAIN m.client |->
                (CHOOSE d \in ToSet(m.client) : d.id = i - 1).rpc]
         /\ serverRpcs' = [r \in DOMAIN serverRpcs \cup {d.rpc : d \in ToSet(m.server)} |->
                IF \E d \in ToSet(m.server) : d.rpc = r
                THEN (CHOOSE d \in ToSet(m.server) :
                        d.rpc = r /\ \A e \in ToSet(m.server) : e.rpc = r => e.id <= d.id).id
                ELSE serverRpcs[r]]
    /\ toClient' = Tail(toClient)
    /\ UNCHANGED <<clientVars, serverVars, joined, toServer, inbox>>

(* RunRpcFunction: a script calls the server.                              *)
RunRpcFunction(rpc) ==
    /\ boot = "playing"
    /\ [rpc |-> rpc, ready |-> TRUE] \in codegen
    /\ rpc \in DOMAIN serverRpcs
    /\ joined
    /\ Len(toServer) + Len(inbox) < MaxFlight
    /\ toServer' = Append(toServer, [id |-> serverRpcs[rpc], of |-> rpc])
    /\ UNCHANGED <<clientVars, serverVars, tableVars, joined, toClient, inbox>>

(* HandleRpcCall, and RpcManager.Poll at the next tick.                    *)
QueueCall ==
    /\ joined
    /\ toServer # <<>>
    /\ inbox' = Append(inbox, Head(toServer))
    /\ toServer' = Tail(toServer)
    /\ UNCHANGED <<clientVars, serverVars, tableVars, joined, toClient>>

Poll ==
    /\ inbox # <<>>
    /\ host = "up"
    /\ inbox' = <<>>
    /\ UNCHANGED <<clientVars, serverVars, tableVars, joined, toClient, toServer>>

(* RpcScriptInstance::Call: a plugin calls the client.  Of two numbers of  *)
(* one function the last is used.                                          *)
CallClient(rpc) ==
    /\ host = "up" /\ joined
    /\ rpc \in ToSet(clientIds)
    /\ Len(toClient) < MaxFlight
    /\ toClient' = Append(toClient, [id |-> SelectLastInSeq(clientIds, LAMBDA r : r = rpc) - 1,
                                     of |-> rpc])
    /\ UNCHANGED <<clientVars, serverVars, tableVars, joined, toServer, inbox>>

(* RpcService::Call: a number out of the table, or a function the client   *)
(* does not have, fails.                                                   *)
HandleRpc ==
    /\ joined
    /\ toClient # <<>>
    /\ "of" \in DOMAIN Head(toClient)
    /\ toClient' = Tail(toClient)
    /\ UNCHANGED <<clientVars, serverVars, tableVars, joined, toServer, inbox>>

(* A slip: the numbers of the session stay.                                *)
TablesKept == UNCHANGED tableVars

(* RpcService::OnDisconnected.                                             *)
OnDisconnected ==
    /\ clientRpcs' = <<>>
    /\ serverRpcs' = <<>>

Disconnect ==
    /\ joined
    /\ joined' = FALSE
    /\ toClient' = <<>>
    /\ toServer' = <<>>
    /\ OnDisconnected
    /\ UNCHANGED <<clientVars, serverVars, inbox>>

(* The process of the server ends.                                         *)
Stop ==
    /\ host = "up" /\ ~joined
    /\ host' = "down"
    /\ inbox' = <<>>
    /\ UNCHANGED <<clientVars, tableVars, joined, toClient, toServer,
                   clientIds, serverIds, methods, runs>>

RpcsNext ==
    \/ Validate \/ PrepareRpc
    \/ Start \/ LoadPlugin \/ Listens
    \/ Join \/ HandleRpcDefinitions
    \/ \E rpc \in Rpc : RunRpcFunction(rpc) \/ CallClient(rpc)
    \/ QueueCall \/ Poll \/ HandleRpc
    \/ Disconnect \/ Stop

RpcsSpec == RpcsInit /\ [][RpcsNext]_rpcsVars

-----------------------------------------------------------------------------
(* Whatever the plugins are, and however often the server starts with      *)
(* others: the method or the handler that a number stands for, where the   *)
(* call is dispatched, is the one the caller meant.                        *)
CallsReachTheirFunction ==
    /\ \A c \in ToSet(toServer \o inbox) : c.id < Len(methods) /\ methods[c.id + 1] = c.of
    /\ toClient # <<>> /\ "of" \in DOMAIN Head(toClient) =>
         LET c == Head(toClient)
         IN  c.id < Len(clientRpcs) /\ clientRpcs[c.id + 1] = c.of
===============================================================================
