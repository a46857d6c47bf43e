------------------------------- MODULE MCHost -------------------------------
(* Small instances, for TLC, of what surrounds the shared world: the       *)
(* server's process, and the programs as they are built and started.  A    *)
(* behaviour runs one of the parts, `focus`.                               *)
EXTENDS Mods, Host, Schema, Transport, Csharp, Overlay, Hooks, Types

CONSTANTS m1, m2, p1, p2, t1, c1, c2, f1, g1, g2, n1, n2, x1, k1, k2, d1, d2, d3

(* An event, and a system with a function that gives it away.              *)
TwoBases == [c \in {n1, n2} |-> IF c = n1 THEN "redEvent" ELSE NoClass]
Returned == [c \in {n1, n2} |-> IF c = n2 THEN {n1} ELSE {}]
NoneHeld == [c \in {n1, n2} |-> {}]

(* Which of two names comes first is all the same.                         *)
SomeGraph == [name   |-> [c \in Scripted |-> CHOOSE n \in ShortName : TRUE],
              parent |-> [c \in Scripted |-> Parentless],
              member |-> [c \in Scripted |-> <<"int">>],
              param  |-> <<"int">>]

VARIABLE focus

Focus == {"mods", "host", "schema", "transport", "rpcs", "overlay", "hooks", "types", "csharp"}

vars == <<focus, modsVars, hostVars, schemaVars, transportVars, rpcsVars, overlayVars, hooksVars,
          typesVars, csharpVars>>

(* The parts but one stay as they are.                                      *)
OnlyMods == /\ focus = "mods"
            /\ UNCHANGED <<focus, hostVars, schemaVars, transportVars, rpcsVars, overlayVars,
                           hooksVars, typesVars, csharpVars>>

OnlyHost == /\ focus = "host"
            /\ UNCHANGED <<focus, modsVars, schemaVars, transportVars, rpcsVars, overlayVars,
                           hooksVars, typesVars, csharpVars>>

OnlySchema == /\ focus = "schema"
              /\ UNCHANGED <<focus, modsVars, hostVars, transportVars, rpcsVars, overlayVars,
                             hooksVars, typesVars, csharpVars>>

OnlyTransport == /\ focus = "transport"
                 /\ UNCHANGED <<focus, modsVars, hostVars, schemaVars, rpcsVars, overlayVars,
                                hooksVars, typesVars, csharpVars>>

OnlyRpcs == /\ focus = "rpcs"
            /\ UNCHANGED <<focus, modsVars, hostVars, schemaVars, transportVars, overlayVars,
                           hooksVars, typesVars, csharpVars>>

OnlyOverlay == /\ focus = "overlay"
               /\ UNCHANGED <<focus, modsVars, hostVars, schemaVars, transportVars, rpcsVars,
                              hooksVars, typesVars, csharpVars>>

OnlyHooks == /\ focus = "hooks"
             /\ UNCHANGED <<focus, modsVars, hostVars, schemaVars, transportVars, rpcsVars,
                            overlayVars, typesVars, csharpVars>>

OnlyTypes == /\ focus = "types"
             /\ UNCHANGED <<focus, modsVars, hostVars, schemaVars, transportVars, rpcsVars,
                            overlayVars, hooksVars, csharpVars>>

OnlyCsharp == /\ focus = "csharp"
              /\ UNCHANGED <<focus, modsVars, hostVars, schemaVars, transportVars, rpcsVars,
                             overlayVars, hooksVars, typesVars>>

Init == /\ focus \in Focus
        /\ ModsInit
        /\ HostInit
        /\ SchemaInit
        /\ TransportInit
        /\ RpcsInit
        /\ OverlayInit
        /\ HooksInit
        /\ focus # "hooks" => manner.flow = "Original" /\ manner.returns /\ ~manner.once
        /\ TypesInit
        /\ CsharpInit
        /\ IF focus = "csharp" THEN graph.name[k1] = "X" ELSE graph = SomeGraph

Next == \/ OnlyMods /\ ModsNext
        \/ OnlyHost /\ HostNext
        \/ OnlySchema /\ SchemaNext
        \/ OnlyTransport /\ TransportNext
        \/ OnlyRpcs /\ RpcsNext
        \/ OnlyOverlay /\ OverlayNext
        \/ OnlyHooks /\ HooksNext
        \/ OnlyCsharp /\ CsharpNext
        \/ OnlyTypes /\ TypesNext

(* The loop turns, and a process whose main thread is through ends.         *)
Fairness == /\ WF_vars(OnlyHost /\ Loop)
            /\ WF_vars(OnlyHost /\ pc = "gone" /\ ProcessEnds)
            /\ WF_vars(OnlyTransport /\ ServerUpdate)

FairSpec == Init /\ [][Next]_vars /\ Fairness

TypeOK == /\ ModsTypeOK
          /\ HostTypeOK
          /\ SchemaTypeOK
          /\ TransportTypeOK
          /\ RpcsTypeOK
          /\ OverlayTypeOK
          /\ HooksTypeOK
          /\ TypesTypeOK
          /\ CsharpTypeOK
=============================================================================
