---------------------------- MODULE SessionProofs ----------------------------
(***************************************************************************)
(* The connection of a client is one, the tables it dispatches calls       *)
(* against are those of its server, and who is shown as connected has been *)
(* admitted: for any number of attempts, servers and deferred callbacks.   *)
(***************************************************************************)
EXTENDS AutoConnect, SequenceTheorems, TLAPS

(* The steps that touch the session, menus aside.                          *)
SessionNext ==
    \/ \E a \in Attempt, s \in Server : Connect(a, s)
    \/ Close
    \/ CallServer
    \/ Frame
    \/ World

LEMMA StepOfSession ==
    ASSUME TypeOK, [Next]_vars
    PROVE  SessionNext \/ UNCHANGED sessionVars
<1>1. ASSUME NEW k \in Timer, Call(k)
      PROVE  SessionNext \/ UNCHANGED sessionVars
  BY <1>1 DEF Call, CallAtMenu, CallWaits, CallConnects, SessionNext, TypeOK
<1>2. OnLeave => SessionNext
  BY DEF OnLeave, SessionNext
<1> QED
  BY <1>1, <1>2 DEF Next, vars, SessionNext, OnNcmpJoin, Attach, AttachArmed,
                    ExitToMenu

-----------------------------------------------------------------------------
(* The types.  A stage of a connection is none of a resolution.            *)
LEMMA StagesApart ==
    /\ Resolution \cap Connection = {}
    /\ \A s \in Resolution : s \notin {"connecting", "connected", "lost"}
BY DEF Resolution, Connection

LEMMA ClosedType ==
    ASSUME SessionTypeOK
    PROVE  /\ LinkClosed \in [Attempt -> Resolution \cup Connection]
           /\ \A a \in Attempt : LinkClosed[a] = IF a = link THEN "closed" ELSE stage[a]
BY SessionAssumption DEF SessionTypeOK, LinkClosed, Connection

(* The stages a new attempt or a Close may leave: the connection is closed *)
(* and the resolution of m_pHandle perhaps cancelled.                      *)
LEMMA CancelledStages ==
    ASSUME SessionTypeOK, NEW s \in Cancelled(LinkClosed)
    PROVE  /\ s \in [Attempt -> Resolution \cup Connection]
           /\ \A a \in Attempt : s[a] = IF a = link THEN "closed" ELSE
                                 IF s[a] = stage[a] THEN stage[a] ELSE "cancelled"
           /\ \A a \in Attempt : s[a] # stage[a] => a = link \/ a = handle
           /\ handle # None => s[handle] \in {"running", "cancelled"}
<1>1. /\ LinkClosed \in [Attempt -> Resolution \cup Connection]
      /\ \A a \in Attempt : LinkClosed[a] = IF a = link THEN "closed" ELSE stage[a]
  BY ClosedType
<1>2. handle # None => handle \in Attempt /\ handle # link
  BY DEF SessionTypeOK
<1>3. CASE s = LinkClosed
  BY <1>1, <1>2, <1>3 DEF SessionTypeOK
<1>4. CASE handle # None /\ s = [LinkClosed EXCEPT ![handle] = "cancelled"]
  BY <1>1, <1>2, <1>4 DEF Resolution
<1> QED
  BY <1>3, <1>4 DEF Cancelled

LEMMA SessionTypeStep ==
    ASSUME SessionTypeOK, SessionNext
    PROVE  SessionTypeOK'
<1> USE SessionAssumption DEF SessionTypeOK
<1>1. ASSUME NEW a \in Attempt, NEW s \in Server, Connect(a, s)
      PROVE  SessionTypeOK'
  <2>1. PICK rest \in Cancelled(LinkClosed) : stage' = [rest EXCEPT ![a] = "running"]
    BY <1>1 DEF Connect
  <2>2. /\ rest \in [Attempt -> Resolution \cup Connection]
        /\ \A b \in Attempt : rest[b] # stage[b] => b = link \/ b = handle
    BY CancelledStages
  <2>3. /\ link' = None /\ handle' = a /\ stage'[a] = "running"
        /\ stage' \in [Attempt -> Resolution \cup Connection]
    BY <1>1, <2>1, <2>2 DEF Connect, Resolution
  <2>4. /\ peer' \in [Attempt -> Server \cup {None}]
        /\ \A b \in Attempt : stage'[b] # "unused" => peer'[b] # None
    <3>1. \A b \in Attempt : peer'[b] = IF b = a THEN s ELSE peer[b]
      BY <1>1 DEF Connect
    <3>2. \A b \in Attempt : b # a /\ stage'[b] # "unused" => stage[b] # "unused"
      BY <2>1, <2>2
    <3> QED
      BY <1>1, <3>1, <3>2 DEF Connect
  <2>5. /\ synced' \in BOOLEAN /\ online' \in BOOLEAN
        /\ clientRpcs' \in Server \cup {None} /\ serverRpcs' \in Server \cup {None}
    BY <1>1 DEF Connect, Leaving, OnDisconnected, tables
  <2> QED
    BY <1>1, <2>3, <2>4, <2>5 DEF Connect, wires
<1>2. CASE Close
  <2>1. stage' \in Cancelled(LinkClosed)
    BY <1>2 DEF Close
  <2>2. /\ stage' \in [Attempt -> Resolution \cup Connection]
        /\ \A b \in Attempt : stage'[b] # stage[b] => b = link \/ b = handle
        /\ handle # None => stage'[handle] \in {"running", "cancelled"}
    BY <2>1, CancelledStages
  <2>3. /\ online' \in BOOLEAN
        /\ clientRpcs' \in Server \cup {None} /\ serverRpcs' \in Server \cup {None}
    BY <1>2 DEF Close, Leaving, OnDisconnected, tables
  <2>4. \A b \in Attempt : stage'[b] # "unused" => peer[b] # None
    BY <2>2
  <2> QED
    BY <1>2, <2>2, <2>3, <2>4 DEF Close, wires
<1>3. CASE CallServer
  <2>1. [type |-> "call", table |-> serverRpcs] \in UpMsg
    BY <1>3 DEF CallServer, UpMsg
  <2>2. up' \in [Attempt -> Seq(UpMsg)] /\ calls' \in [Attempt -> 0 .. MaxCalls]
    BY <1>3, <2>1 DEF CallServer
  <2> QED
    BY <1>3, <2>2 DEF CallServer, tables
<1>4. CASE Turn
  BY <1>4 DEF Turn, Following, tables, wires
<1>5. ASSUME NEW a \in Attempt, OnUp(a)
      PROVE  SessionTypeOK'
  <2>1. [type |-> "handshake"] \in UpMsg
    BY DEF UpMsg
  <2>2. up' \in [Attempt -> Seq(UpMsg)]
    BY <1>5, <2>1 DEF OnUp
  <2> QED
    BY <1>5, <2>2 DEF OnUp, tables
<1>6. ASSUME NEW a \in Attempt, OnDown(a)
      PROVE  SessionTypeOK'
  <2>1. /\ stage' \in [Attempt -> Resolution \cup Connection]
        /\ \A b \in Attempt : stage'[b] = IF b = link THEN "closed" ELSE stage[b]
    BY <1>6, ClosedType DEF OnDown
  <2>2. /\ UNCHANGED <<phase, handle, peer, wires, inbox>>
        /\ news' \in [Attempt -> SUBSET {"up", "down"}]
        /\ link' = None /\ synced' = FALSE
    BY <1>6 DEF OnDown
  <2>3. /\ online' \in BOOLEAN
        /\ clientRpcs' \in Server \cup {None} /\ serverRpcs' \in Server \cup {None}
    BY <1>6 DEF OnDown, OnDisconnected
  <2>4. handle' # None => stage'[handle'] \in {"running", "cancelled"}
    BY <1>6, <2>1, <2>2
  <2>5. \A b \in Attempt : stage'[b] # "unused" => peer'[b] # None
    BY <2>1, <2>2
  <2> QED
    BY <2>1, <2>2, <2>3, <2>4, <2>5 DEF wires
<1>7. ASSUME NEW a \in Attempt, OnUnresolved(a)
      PROVE  SessionTypeOK'
  BY <1>7 DEF OnUnresolved, OnDisconnected, wires, Resolution
<1>8. ASSUME NEW a \in Attempt, OnResolved(a)
      PROVE  SessionTypeOK'
  <2>1. /\ LinkClosed \in [Attempt -> Resolution \cup Connection]
        /\ \A b \in Attempt : LinkClosed[b] = IF b = link THEN "closed" ELSE stage[b]
    BY ClosedType
  <2>2. /\ stage' \in [Attempt -> Resolution \cup Connection]
        /\ \A b \in Attempt : stage'[b] # "unused" => stage[b] # "unused"
        /\ stage'[a] = "connecting" /\ link' = a /\ handle' = None
    BY <1>8, <2>1 DEF OnResolved, Connection
  <2>3. /\ online' \in BOOLEAN
        /\ clientRpcs' \in Server \cup {None} /\ serverRpcs' \in Server \cup {None}
    BY <1>8 DEF OnResolved, Leaving, OnDisconnected, tables
  <2>4. UNCHANGED <<phase, peer, wires, inbox>>
    BY <1>8 DEF OnResolved
  <2>5. news' \in [Attempt -> SUBSET {"up", "down"}] /\ synced' \in BOOLEAN
    BY <1>8 DEF OnResolved
  <2> QED
    BY <2>2, <2>3, <2>4, <2>5 DEF wires
<1>9. CASE Read
  <2>1. /\ down[link] \in Seq(DownMsg) /\ down[link] # <<>> /\ link \in Attempt
        /\ Head(down[link]) \in DownMsg
    <3>1. link \in Attempt /\ down[link] # <<>>
      BY <1>9 DEF Read
    <3> QED
      BY <3>1
  <2>2. down' \in [Attempt -> Seq(DownMsg)]
    BY <1>9, <2>1 DEF Read
  <2>3. [type |-> "auth"] \in UpMsg
    BY DEF UpMsg
  <2>4. up' \in [Attempt -> Seq(UpMsg)] /\ synced' \in BOOLEAN
    <3>1. \/ up' = up
          \/ up' = [up EXCEPT ![link] = Append(@, [type |-> "auth"])]
      BY <1>9 DEF Read
    <3>2. synced' = TRUE \/ synced' = synced
      BY <1>9 DEF Read
    <3>3. Append(up[link], [type |-> "auth"]) \in Seq(UpMsg)
      BY <2>1, <2>3
    <3>4. up' \in [Attempt -> Seq(UpMsg)]
      <4>1. CASE up' = up
        BY <4>1
      <4>2. CASE up' = [up EXCEPT ![link] = Append(@, [type |-> "auth"])]
        <5> DEFINE longer == Append(up[link], [type |-> "auth"])
        <5>1. longer \in Seq(UpMsg) /\ up' = [up EXCEPT ![link] = longer]
          BY <3>3, <4>2
        <5> HIDE DEF longer
        <5> QED
          BY <5>1
      <4> QED
        BY <3>1, <4>1, <4>2
    <3> QED
      BY <3>2, <3>4
  <2>5. inbox' \in [Queues -> Seq(DownMsg)]
    <3>1. \/ inbox' = inbox
          \/ /\ Head(down[link]).type # "time"
             /\ inbox' = [inbox EXCEPT ![Head(down[link]).type] =
                             Append(@, Head(down[link]))]
      BY <1>9 DEF Read
    <3>2. /\ Head(down[link]).type \in Queues \cup {"time"}
          /\ \A t \in Queues : Append(inbox[t], Head(down[link])) \in Seq(DownMsg)
      BY <2>1 DEF DownMsg
    <3>3. CASE inbox' = inbox
      BY <3>3
    <3>4. CASE /\ Head(down[link]).type \in Queues
               /\ inbox' = [inbox EXCEPT ![Head(down[link]).type] =
                               Append(@, Head(down[link]))]
      BY <3>2, <3>4
    <3> QED
      BY <3>1, <3>2, <3>3, <3>4
  <2> QED
    BY <1>9, <2>2, <2>4, <2>5 DEF Read, tables
<1>10. ASSUME NEW t \in Queues, Publish(t)
       PROVE  inbox' \in [Queues -> Seq(DownMsg)]
  BY <1>10 DEF Publish
<1>11. CASE HandleAuthentication
  BY <1>10, <1>11 DEF HandleAuthentication, Publish, tables, wires, Queues
<1>12. CASE HandleRpcDefinitions
  <2>1. Head(inbox["definitions"]).from \in Server
    <3>1. /\ inbox["definitions"] \in Seq(DownMsg)
          /\ inbox["definitions"] # <<>>
      BY <1>12 DEF HandleRpcDefinitions, Publish, Queues
    <3>2. Head(inbox["definitions"]) \in DownMsg
      BY <3>1
    <3> QED
      BY <3>2 DEF DownMsg
  <2> QED
    <3>1. clientRpcs' \in Server \cup {None} /\ serverRpcs' \in Server \cup {None}
      BY <1>12, <2>1 DEF HandleRpcDefinitions
    <3>2. inbox' \in [Queues -> Seq(DownMsg)]
      BY <1>10, <1>12 DEF HandleRpcDefinitions, Queues
    <3>3. UNCHANGED <<phase, stage, handle, link, peer, news, synced, online, wires>>
      BY <1>12 DEF HandleRpcDefinitions, Publish
    <3> QED
      BY <3>1, <3>2, <3>3 DEF wires
<1>13. CASE HandleRpc
  BY <1>10, <1>13 DEF HandleRpc, Publish, tables, wires, Queues
<1>14. ASSUME NEW a \in Attempt, Reach(a) \/ Lose(a)
       PROVE  SessionTypeOK'
  <2>1. /\ \/ stage' = [stage EXCEPT ![a] = "connected"]
           \/ stage' = [stage EXCEPT ![a] = "lost"]
        /\ stage[a] \in {"connecting", "connected"}
    BY <1>14 DEF Reach, Lose
  <2>2. /\ stage' \in [Attempt -> Resolution \cup Connection]
        /\ \A b \in Attempt : stage'[b] # stage[b] =>
              /\ stage[b] \in {"connecting", "connected"}
              /\ stage'[b] \in {"connected", "lost"}
    <3>1. CASE stage' = [stage EXCEPT ![a] = "connected"]
      BY <2>1, <3>1 DEF Connection
    <3>2. CASE stage' = [stage EXCEPT ![a] = "lost"]
      BY <2>1, <3>2 DEF Connection
    <3> QED
      BY <2>1, <3>1, <3>2
  <2>3. news' \in [Attempt -> SUBSET {"up", "down"}]
    <3>1. \/ news' = [news EXCEPT ![a] = @ \cup {"up"}]
          \/ news' = [news EXCEPT ![a] = @ \cup {"down"}]
      BY <1>14 DEF Reach, Lose
    <3>2. /\ news[a] \cup {"up"} \in SUBSET {"up", "down"}
          /\ news[a] \cup {"down"} \in SUBSET {"up", "down"}
      OBVIOUS
    <3>3. PICK S \in SUBSET {"up", "down"} : news' = [news EXCEPT ![a] = S]
      BY <3>1, <3>2
    <3>4. news \in [Attempt -> SUBSET {"up", "down"}]
      OBVIOUS
    <3> HIDE DEF SessionTypeOK
    <3> QED
      BY <3>3, <3>4
  <2>4. /\ link # None => stage'[link] \in {"connecting", "connected", "lost"}
        /\ handle # None => stage'[handle] \in {"running", "cancelled"}
        /\ \A b \in Attempt : stage'[b] # "unused" => peer[b] # None
    BY <2>2
  <2> QED
    BY <1>14, <2>2, <2>3, <2>4 DEF Reach, Lose, tables, wires
<1>15. ASSUME NEW a \in Attempt, Serve(a)
       PROVE  SessionTypeOK'
  <2>1. peer[a] \in Server
    BY <1>15 DEF Serve
  <2>2. Answer(Head(up[a]).type, peer[a]) \in Seq(DownMsg)
    <3>1. Head(up[a]) \in UpMsg
      BY <1>15 DEF Serve
    <3>2. Head(up[a]).type \in {"handshake", "auth", "call"}
      BY <3>1 DEF UpMsg
    <3>3. \A t \in Queues \cup {"time"} : Message(t, peer[a]) \in DownMsg
      BY <2>1 DEF Message, DownMsg
    <3> QED
      BY <3>2, <3>3 DEF Answer, Queues
  <2>3. up' \in [Attempt -> Seq(UpMsg)] /\ down' \in [Attempt -> Seq(DownMsg)]
    BY <1>15, <2>2 DEF Serve
  <2> QED
    BY <1>15, <2>3 DEF Serve, tables
<1>16. ASSUME NEW a \in Attempt, CallClient(a)
       PROVE  SessionTypeOK'
  <2>1. Message("call", peer[a]) \in DownMsg
    BY <1>16 DEF CallClient, Message, DownMsg, Queues
  <2>2. down' \in [Attempt -> Seq(DownMsg)] /\ calls' \in [Attempt -> 0 .. MaxCalls]
    BY <1>16, <2>1 DEF CallClient
  <2> QED
    BY <1>16, <2>2 DEF CallClient, tables
<1> QED
  BY <1>1, <1>2, <1>3, <1>4, <1>5, <1>6, <1>7, <1>8, <1>9, <1>11, <1>12, <1>13,
     <1>14, <1>15, <1>16 DEF SessionNext, Frame, World

(* The menus, the timers and the session have the types their comments say, *)
(* however often a session is armed, deferred, begun, lost or left.        *)
THEOREM JoinTypeCorrect == Spec => []TypeOK
<1> USE AutoConnectAssumption DEF TypeOK
<1>1. Init => TypeOK
  <2> SUFFICES ASSUME Init
               PROVE  TypeOK
    OBVIOUS
  <2>1. SessionTypeOK
    <3>1. "unused" \in Resolution /\ 0 \in 0 .. MaxCalls
      BY SessionAssumption DEF Resolution
    <3>2. news \in [Attempt -> SUBSET {"up", "down"}]
      BY DEF Init, SessionInit
    <3>3. /\ stage \in [Attempt -> Resolution \cup Connection]
          /\ calls \in [Attempt -> 0 .. MaxCalls]
      BY <3>1 DEF Init, SessionInit
    <3>4. /\ up \in [Attempt -> Seq(UpMsg)] /\ down \in [Attempt -> Seq(DownMsg)]
          /\ inbox \in [Queues -> Seq(DownMsg)]
      BY DEF Init, SessionInit
    <3>5. /\ phase = "game" /\ link = None /\ handle = None
          /\ \A a \in Attempt : stage[a] = "unused"
          /\ peer \in [Attempt -> Server \cup {None}]
          /\ synced \in BOOLEAN /\ online \in BOOLEAN
          /\ clientRpcs = None /\ serverRpcs = None /\ admitted = {}
      BY DEF Init, SessionInit
    <3> QED
      BY <3>2, <3>3, <3>4, <3>5 DEF SessionTypeOK
  <2>2. arms \in 0 .. MaxArms
    <3>1. arms = 0 \/ arms = 1
      BY DEF Init
    <3> QED
      BY <3>1
  <2> QED
    BY <2>1, <2>2 DEF Init
<1>2. TypeOK /\ [Next]_vars => TypeOK'
  <2> SUFFICES ASSUME TypeOK, [Next]_vars
               PROVE  TypeOK'
    OBVIOUS
  <2>1. SessionTypeOK'
    <3>1. CASE SessionNext
      BY <3>1, SessionTypeStep
    <3>2. CASE UNCHANGED sessionVars
      BY <3>2 DEF SessionTypeOK, sessionVars, tables, wires
    <3> QED
      BY <3>1, <3>2, StepOfSession
  <2> DEFINE MenusOK == /\ inWorld \in BOOLEAN /\ pending \in BOOLEAN
                        /\ endpoint \in Server /\ arms \in 0 .. MaxArms
             TimersOK == deferred \in [Timer -> Wait \cup {None}]
  <2>2. ASSUME UNCHANGED <<menus, deferred>>
        PROVE  MenusOK' /\ TimersOK'
    BY <2>2 DEF menus
  <2>3. ASSUME NEW s \in Server, OnNcmpJoin(s)
        PROVE  MenusOK' /\ TimersOK'
    BY <2>3 DEF OnNcmpJoin
  <2>4. ASSUME Attach \/ ExitToMenu \/ OnLeave
        PROVE  MenusOK' /\ TimersOK'
    BY <2>4 DEF Attach, ExitToMenu, OnLeave
  <2>5. ASSUME NEW k \in Timer, AttachArmed(k)
        PROVE  MenusOK' /\ TimersOK'
    <3>1. [left |-> MaxLeft, streak |-> 0] \in Wait
      BY DEF Wait
    <3> QED
      BY <2>5, <3>1 DEF AttachArmed
  <2>6. ASSUME NEW k \in Timer, Call(k)
        PROVE  MenusOK' /\ TimersOK'
    <3>1. CASE CallAtMenu(k)
      BY <3>1 DEF CallAtMenu, menus
    <3>2. ASSUME NEW ready \in BOOLEAN, NEW a \in Attempt, CallConnects(k, ready, a)
          PROVE  MenusOK' /\ TimersOK'
      BY <3>2 DEF CallConnects, menus
    <3>3. ASSUME NEW ready \in BOOLEAN, CallWaits(k, ready)
          PROVE  MenusOK' /\ TimersOK'
      <4>1. deferred[k] \in Wait /\ deferred[k].left # 0
        BY <3>3 DEF CallWaits, Due
      <4>2. [left |-> deferred[k].left - 1, streak |-> IF ready THEN 1 ELSE 0] \in Wait
        BY <4>1 DEF Wait
      <4> QED
        BY <3>3, <4>2 DEF CallWaits, menus
    <3> QED
      BY <2>6, <3>1, <3>2, <3>3 DEF Call
  <2>7. MenusOK' /\ TimersOK'
    BY <2>2, <2>3, <2>4, <2>5, <2>6 DEF Next, vars
  <2> QED
    BY <2>1, <2>7
<1> QED
  BY <1>1, <1>2, PTL DEF Spec

-----------------------------------------------------------------------------
(* What a channel or a queue holds.                                        *)
Holds(s, t) == \E i \in DOMAIN s : s[i].type = t

FromServer(s, p) == \A i \in DOMAIN s : s[i].from = p

(* Every call comes after definitions.                                     *)
DefsFirst(s) ==
    \A i \in DOMAIN s : s[i].type = "call" =>
        \E j \in DOMAIN s : j < i /\ s[j].type = "definitions"

(* An attempt that has never had a connection has nothing of one.          *)
Untouched ==
    \A a \in Attempt : stage[a] \in Resolution =>
        up[a] = <<>> /\ down[a] = <<>> /\ a \notin admitted

OneLink ==
    \A a \in Attempt : stage[a] \in {"connecting", "connected", "lost"} => a = link

(* Messages wait for the dispatcher within a frame only.                   *)
QueuesEmpty ==
    phase \notin {"reading", "dispatching"} => \A t \in Queues : inbox[t] = <<>>

FromPeer == link # None => FromServer(down[link], peer[link])

Defined == clientRpcs # None \/ inbox["definitions"] # <<>>

NoneFailed == \A a \in Attempt : stage[a] # "failed"

(* While the definitions have not come, no call is ahead of them, and an   *)
(* admitted connection has them on the way.                                *)
DefinitionsFirst ==
    link # None /\ ~Defined /\ NoneFailed =>
        /\ inbox["call"] = <<>>
        /\ DefsFirst(down[link])
        /\ link \in admitted => Holds(down[link], "definitions")

(* The clock is synchronized before the client asks to be admitted, and    *)
(* the server admits it before it says so.                                 *)
AuthFirst ==
    /\ link # None =>
         /\ Holds(down[link], "auth") => link \in admitted
         /\ link \in admitted \/ Holds(up[link], "auth") => synced
    /\ inbox["auth"] # <<>> => link # None /\ link \in admitted

SessionInv ==
    /\ Untouched
    /\ OneLink
    /\ QueuesEmpty
    /\ FromPeer
    /\ NoStaleTable
    /\ DefinitionsFirst
    /\ AuthFirst
    /\ OnlineIsAdmitted

-----------------------------------------------------------------------------
LEMMA NothingHeld ==
    \A t, p : ~Holds(<<>>, t) /\ FromServer(<<>>, p) /\ DefsFirst(<<>>)
BY DEF Holds, FromServer, DefsFirst

LEMMA AppendHeld ==
    ASSUME NEW S, NEW s \in Seq(S), NEW x \in S
    PROVE  /\ \A t : Holds(Append(s, x), t) <=> Holds(s, t) \/ x.type = t
           /\ \A p : FromServer(s, p) /\ x.from = p => FromServer(Append(s, x), p)
           /\ /\ DefsFirst(s)
              /\ x.type = "call" => Holds(s, "definitions")
              => DefsFirst(Append(s, x))
<1>1. /\ DOMAIN Append(s, x) = 1 .. Len(s) + 1 /\ DOMAIN s = 1 .. Len(s)
      /\ Len(s) \in Nat
      /\ Append(s, x)[Len(s) + 1] = x
      /\ \A i \in 1 .. Len(s) : Append(s, x)[i] = s[i]
  BY AppendProperties
<1>2. \A i \in 1 .. Len(s) + 1 : i \in 1 .. Len(s) \/ i = Len(s) + 1
  BY <1>1
<1>3. \A i \in 1 .. Len(s) : i \in 1 .. Len(s) + 1 /\ i < Len(s) + 1
  BY <1>1
<1>4. Len(s) + 1 \in 1 .. Len(s) + 1
  BY <1>1
<1>5. \A t : Holds(Append(s, x), t) <=> Holds(s, t) \/ x.type = t
  BY <1>1, <1>2, <1>3, <1>4 DEF Holds
<1>6. \A p : FromServer(s, p) /\ x.from = p => FromServer(Append(s, x), p)
  BY <1>1, <1>2 DEF FromServer
<1>7. ASSUME DefsFirst(s), x.type = "call" => Holds(s, "definitions"),
             NEW i \in DOMAIN Append(s, x), Append(s, x)[i].type = "call"
      PROVE  \E j \in DOMAIN Append(s, x) :
                j < i /\ Append(s, x)[j].type = "definitions"
  <2>1. CASE i \in 1 .. Len(s)
    <3>1. PICK j \in 1 .. Len(s) : j < i /\ s[j].type = "definitions"
      BY <1>1, <1>7, <2>1 DEF DefsFirst
    <3> QED
      BY <1>1, <1>3, <3>1
  <2>2. CASE i = Len(s) + 1
    <3>1. PICK j \in 1 .. Len(s) : s[j].type = "definitions"
      BY <1>1, <1>7, <2>2 DEF Holds
    <3> QED
      BY <1>1, <1>3, <2>2, <3>1
  <2> QED
    BY <1>1, <1>2, <1>7, <2>1, <2>2
<1> QED
  BY <1>5, <1>6, <1>7 DEF DefsFirst

LEMMA TailHeld ==
    ASSUME NEW S, NEW s \in Seq(S), s # <<>>
    PROVE  /\ \A t : Holds(s, t) <=> Head(s).type = t \/ Holds(Tail(s), t)
           /\ \A p : FromServer(s, p) =>
                        Head(s).from = p /\ FromServer(Tail(s), p)
           /\ DefsFirst(s) => Head(s).type # "call"
           /\ DefsFirst(s) /\ Head(s).type # "definitions" => DefsFirst(Tail(s))
<1>1. /\ Tail(s) \in Seq(S)
      /\ Len(Tail(s)) = Len(s) - 1
      /\ \A i \in 1 .. Len(Tail(s)) : Tail(s)[i] = s[i + 1]
      /\ Len(s) \in Nat \ {0}
      /\ Head(s) = s[1]
  BY HeadTailProperties
<1>2. DOMAIN s = 1 .. Len(s) /\ DOMAIN Tail(s) = 1 .. Len(s) - 1
  BY <1>1
<1>3. \A i \in DOMAIN Tail(s) : i \in Nat /\ i + 1 \in DOMAIN s /\ Tail(s)[i] = s[i + 1]
  BY <1>1, <1>2
<1>4. \A i \in DOMAIN s : i # 1 =>
         /\ i \in Nat /\ i - 1 \in DOMAIN Tail(s) /\ Tail(s)[i - 1] = s[i]
  <2> TAKE i \in DOMAIN s
  <2>1. i # 1 => i \in Nat /\ i - 1 \in 1 .. Len(s) - 1 /\ (i - 1) + 1 = i
    BY <1>1, <1>2
  <2> QED
    BY <1>1, <1>2, <2>1
<1>5. 1 \in DOMAIN s
  BY <1>1, <1>2
<1>6. \A t : Holds(s, t) <=> Head(s).type = t \/ Holds(Tail(s), t)
  <2> TAKE t
  <2>1. ASSUME NEW i \in DOMAIN s, s[i].type = t
        PROVE  Head(s).type = t \/ Holds(Tail(s), t)
    <3>1. CASE i = 1
      BY <1>1, <2>1, <3>1
    <3>2. CASE i # 1
      BY <1>4, <2>1, <3>2 DEF Holds
    <3> QED
      BY <3>1, <3>2
  <2>2. ASSUME NEW i \in DOMAIN Tail(s), Tail(s)[i].type = t
        PROVE  Holds(s, t)
    BY <1>3, <2>2 DEF Holds
  <2>3. Head(s).type = t => Holds(s, t)
    BY <1>1, <1>5 DEF Holds
  <2> QED
    BY <2>1, <2>2, <2>3 DEF Holds
<1>7. \A p : FromServer(s, p) => Head(s).from = p /\ FromServer(Tail(s), p)
  BY <1>1, <1>3, <1>5 DEF FromServer
<1>8. DefsFirst(s) => Head(s).type # "call"
  <2>1. \A j \in DOMAIN s : ~(j < 1)
    BY <1>2
  <2> QED
    BY <1>1, <1>5, <2>1 DEF DefsFirst
<1>9. ASSUME DefsFirst(s), Head(s).type # "definitions",
             NEW i \in DOMAIN Tail(s), Tail(s)[i].type = "call"
      PROVE  \E j \in DOMAIN Tail(s) : j < i /\ Tail(s)[j].type = "definitions"
  <2>1. PICK j \in DOMAIN s : j < i + 1 /\ s[j].type = "definitions"
    BY <1>3, <1>9 DEF DefsFirst
  <2>2. j # 1
    BY <1>1, <1>9, <2>1
  <2>3. j - 1 \in DOMAIN Tail(s) /\ Tail(s)[j - 1].type = "definitions" /\ j - 1 < i
    BY <1>3, <1>4, <2>1, <2>2
  <2> QED
    BY <2>3
<1> QED
  BY <1>6, <1>7, <1>8, <1>9 DEF DefsFirst

-----------------------------------------------------------------------------
(* The connection ends, or another begins: nothing of a session is left.   *)
LEMMA FreshLink ==
    ASSUME \A t \in Queues : inbox'[t] = <<>>,
           clientRpcs' = None, online' = FALSE,
           Untouched', OneLink',
           link' # None => /\ up'[link'] = <<>> /\ down'[link'] = <<>>
                           /\ link' \notin admitted'
    PROVE  SessionInv'
<1>1. QueuesEmpty' /\ NoStaleTable' /\ OnlineIsAdmitted'
  BY DEF QueuesEmpty, NoStaleTable, OnlineIsAdmitted
<1>2. inbox'["call"] = <<>> /\ inbox'["auth"] = <<>>
  BY DEF Queues
<1>3. FromPeer' /\ DefinitionsFirst' /\ AuthFirst'
  <2>1. CASE link' = None
    BY <1>2, <2>1 DEF FromPeer, DefinitionsFirst, AuthFirst
  <2>2. CASE link' # None
    BY <1>2, <2>2, NothingHeld DEF FromPeer, DefinitionsFirst, AuthFirst
  <2> QED
    BY <2>1, <2>2
<1> QED
  BY <1>1, <1>3 DEF SessionInv

(* After Leaving there is neither a table nor the mark of being online.    *)
LEMMA LeavingLeaves ==
    ASSUME SessionInv, Leaving
    PROVE  clientRpcs' = None /\ online' = FALSE
BY DEF SessionInv, NoStaleTable, OnlineIsAdmitted, Leaving, OnDisconnected, tables

(* The scripts' steps between two frames.                                  *)
LEMMA ConnectKeeps ==
    ASSUME SessionTypeOK, SessionInv, NEW a \in Attempt, NEW s \in Server,
           Connect(a, s)
    PROVE  SessionInv'
<1>1. PICK rest \in Cancelled(LinkClosed) : stage' = [rest EXCEPT ![a] = "running"]
  BY DEF Connect
<1>2. /\ rest \in [Attempt -> Resolution \cup Connection]
      /\ \A b \in Attempt : rest[b] = IF b = link THEN "closed" ELSE
                                      IF rest[b] = stage[b] THEN stage[b]
                                      ELSE "cancelled"
      /\ \A b \in Attempt : rest[b] # stage[b] => b = link \/ b = handle
  BY CancelledStages
<1>3. /\ phase = "game" /\ inbox' = inbox /\ link' = None
      /\ up' = up /\ down' = down /\ admitted' = admitted
      /\ stage[a] = "unused"
  BY DEF Connect, wires
<1>4. clientRpcs' = None /\ online' = FALSE
  BY LeavingLeaves DEF Connect
<1>5. \A t \in Queues : inbox'[t] = <<>>
  BY <1>3 DEF SessionInv, QueuesEmpty
<1>6. Untouched'
  <2>1. \A b \in Attempt : stage'[b] \in Resolution => stage[b] \in Resolution
    <3>1. "closed" \notin Resolution /\ "unused" \in Resolution
      BY DEF Resolution
    <3>2. handle # None => stage[handle] \in Resolution
      BY DEF SessionTypeOK, Resolution
    <3> QED
      BY <1>1, <1>2, <1>3, <3>1, <3>2, SessionAssumption
  <2> QED
    BY <1>3, <2>1 DEF SessionInv, Untouched
<1>7. OneLink'
  BY <1>1, <1>2 DEF SessionInv, OneLink
<1> QED
  BY <1>3, <1>4, <1>5, <1>6, <1>7, FreshLink

LEMMA CloseKeeps ==
    ASSUME SessionTypeOK, SessionInv, Close
    PROVE  SessionInv'
<1>1. /\ stage' \in [Attempt -> Resolution \cup Connection]
      /\ \A b \in Attempt : stage'[b] = IF b = link THEN "closed" ELSE
                                        IF stage'[b] = stage[b] THEN stage[b]
                                        ELSE "cancelled"
      /\ \A b \in Attempt : stage'[b] # stage[b] => b = link \/ b = handle
  <2>1. stage' \in Cancelled(LinkClosed)
    BY DEF Close
  <2> QED
    BY <2>1, CancelledStages
<1>2. /\ phase = "game" /\ inbox' = inbox /\ link' = None
      /\ up' = up /\ down' = down /\ admitted' = admitted
  BY DEF Close, wires
<1>3. clientRpcs' = None /\ online' = FALSE
  BY LeavingLeaves DEF Close
<1>4. \A t \in Queues : inbox'[t] = <<>>
  BY <1>2 DEF SessionInv, QueuesEmpty
<1>5. Untouched'
  <2>1. \A b \in Attempt : stage'[b] \in Resolution => stage[b] \in Resolution
    <3>1. "closed" \notin Resolution
      BY DEF Resolution
    <3>2. handle # None => stage[handle] \in Resolution
      BY DEF SessionTypeOK, Resolution
    <3> QED
      BY <1>1, <3>1, <3>2, SessionAssumption
  <2> QED
    BY <1>2, <2>1 DEF SessionInv, Untouched
<1>6. OneLink'
  BY <1>1 DEF SessionInv, OneLink
<1> QED
  BY <1>2, <1>3, <1>4, <1>5, <1>6, FreshLink

(* The callbacks that end a connection, or begin one.                      *)
LEMMA DownKeeps ==
    ASSUME SessionTypeOK, SessionInv, NEW a \in Attempt, OnDown(a)
    PROVE  SessionInv'
<1>1. \A b \in Attempt : stage'[b] = IF b = link THEN "closed" ELSE stage[b]
  BY ClosedType DEF OnDown
<1>2. /\ phase = "callbacks" /\ inbox' = inbox /\ link' = None
      /\ up' = up /\ down' = down /\ admitted' = admitted
      /\ clientRpcs' = None /\ online' = FALSE
  BY DEF OnDown, OnDisconnected, wires
<1>3. \A t \in Queues : inbox'[t] = <<>>
  BY <1>2 DEF SessionInv, QueuesEmpty
<1>4. Untouched'
  <2>1. "closed" \notin Resolution
    BY DEF Resolution
  <2> QED
    BY <1>1, <1>2, <2>1 DEF SessionInv, Untouched
<1>5. OneLink'
  BY <1>1 DEF SessionInv, OneLink
<1> QED
  BY <1>2, <1>3, <1>4, <1>5, FreshLink

LEMMA ResolvedKeeps ==
    ASSUME SessionTypeOK, SessionInv, NEW a \in Attempt, OnResolved(a)
    PROVE  SessionInv'
<1>1. \A b \in Attempt : stage'[b] = IF b = a THEN "connecting" ELSE
                                    IF b = link THEN "closed" ELSE stage[b]
  BY ClosedType DEF OnResolved
<1>2. /\ phase = "lookups" /\ inbox' = inbox /\ link' = a
      /\ up' = up /\ down' = down /\ admitted' = admitted
      /\ stage[a] = "running"
  BY DEF OnResolved, wires
<1>3. clientRpcs' = None /\ online' = FALSE
  BY LeavingLeaves DEF OnResolved
<1>4. \A t \in Queues : inbox'[t] = <<>>
  BY <1>2 DEF SessionInv, QueuesEmpty
<1>5. /\ "closed" \notin Resolution /\ "connecting" \notin Resolution
      /\ "running" \in Resolution
  BY DEF Resolution
<1>6. Untouched' /\ up[a] = <<>> /\ down[a] = <<>> /\ a \notin admitted
  BY <1>1, <1>2, <1>5 DEF SessionInv, Untouched
<1>7. OneLink'
  BY <1>1, <1>2 DEF SessionInv, OneLink
<1> QED
  BY <1>2, <1>3, <1>4, <1>6, <1>7, FreshLink

LEMMA UnresolvedKeeps ==
    ASSUME SessionTypeOK, SessionInv, NEW a \in Attempt, OnUnresolved(a)
    PROVE  SessionInv'
<1>1. /\ \A b \in Attempt : stage'[b] = IF b = a THEN "failed" ELSE stage[b]
      /\ stage[a] \in {"running", "cancelled"}
  BY DEF OnUnresolved, SessionTypeOK
<1>2. /\ phase' = phase /\ phase = "lookups" /\ inbox' = inbox /\ link' = link
      /\ peer' = peer /\ synced' = synced
      /\ up' = up /\ down' = down /\ admitted' = admitted
      /\ clientRpcs' = None /\ online' = FALSE
  BY DEF OnUnresolved, OnDisconnected, wires
<1>3. Untouched'
  <2>1. stage[a] \in Resolution
    BY <1>1 DEF Resolution
  <2> QED
    BY <1>1, <1>2, <2>1 DEF SessionInv, Untouched
<1>4. OneLink'
  BY <1>1, <1>2 DEF SessionInv, OneLink
<1>5. ~NoneFailed'
  BY <1>1 DEF NoneFailed
<1>6. DefinitionsFirst'
  BY <1>5 DEF DefinitionsFirst
<1>7. QueuesEmpty' /\ NoStaleTable' /\ FromPeer' /\ AuthFirst'
  BY <1>2 DEF SessionInv, QueuesEmpty, NoStaleTable, FromPeer, AuthFirst,
              FromServer, Holds
<1> QED
  BY <1>2, <1>3, <1>4, <1>6, <1>7 DEF SessionInv, OnlineIsAdmitted

-----------------------------------------------------------------------------
(* A step that touches nothing of these but news.                          *)
LEMMA IdleKeeps ==
    ASSUME SessionInv,
           UNCHANGED <<phase, link, stage, peer, synced, online, tables, up, down,
                       admitted, inbox>>
    PROVE  SessionInv'
BY DEF SessionInv, Untouched, OneLink, QueuesEmpty, FromPeer, NoStaleTable,
       DefinitionsFirst, AuthFirst, OnlineIsAdmitted, Defined, NoneFailed,
       FromServer, Holds, DefsFirst, tables

(* A message the client sends on its connection other than the request for *)
(* authentication.                                                         *)
LEMMA SendKeeps ==
    ASSUME SessionTypeOK, SessionInv, link # None,
           NEW m \in UpMsg, m.type # "auth",
           up' = [up EXCEPT ![link] = Append(@, m)],
           UNCHANGED <<phase, link, stage, peer, synced, online, tables, down,
                       admitted, inbox>>
    PROVE  SessionInv'
<1>1. /\ link \in Attempt /\ up[link] \in Seq(UpMsg)
      /\ \A b \in Attempt : up'[b] = IF b = link THEN Append(up[link], m) ELSE up[b]
      /\ stage[link] \notin Resolution
  BY StagesApart DEF SessionTypeOK
<1>2. Holds(up'[link], "auth") <=> Holds(up[link], "auth")
  BY <1>1, AppendHeld
<1>3. Untouched'
  BY <1>1 DEF SessionInv, Untouched
<1>4. AuthFirst'
  BY <1>2 DEF SessionInv, AuthFirst
<1>5. OneLink' /\ QueuesEmpty' /\ FromPeer' /\ NoStaleTable' /\ OnlineIsAdmitted'
  BY DEF SessionInv, OneLink, QueuesEmpty, FromPeer, NoStaleTable,
         OnlineIsAdmitted, tables
<1>6. DefinitionsFirst'
  BY DEF SessionInv, DefinitionsFirst, Defined, NoneFailed, tables
<1> QED
  BY <1>3, <1>4, <1>5, <1>6 DEF SessionInv

LEMMA TurnKeeps ==
    ASSUME SessionTypeOK, SessionInv, Turn
    PROVE  SessionInv'
<1>1. UNCHANGED <<link, handle, stage, peer, news, synced, online, tables, wires,
                  inbox>>
  BY DEF Turn
<1>2. QueuesEmpty'
  BY DEF Turn, Done, Following, SessionInv, QueuesEmpty, SessionTypeOK
<1>3. Untouched' /\ OneLink' /\ NoStaleTable' /\ OnlineIsAdmitted'
  BY <1>1 DEF SessionInv, Untouched, OneLink, NoStaleTable, OnlineIsAdmitted,
              tables, wires
<1>4. FromPeer' /\ DefinitionsFirst' /\ AuthFirst'
  BY <1>1 DEF SessionInv, FromPeer, DefinitionsFirst, AuthFirst, Defined,
              NoneFailed, FromServer, Holds, DefsFirst, tables, wires
<1> QED
  BY <1>2, <1>3, <1>4 DEF SessionInv

(* A connection comes up or is lost: only its stage changes.               *)
LEMMA StageKeeps ==
    ASSUME SessionTypeOK, SessionInv, NEW a \in Attempt, Reach(a) \/ Lose(a)
    PROVE  SessionInv'
<1>1. /\ \A b \in Attempt : stage'[b] # stage[b] =>
            b = a /\ stage'[b] \in {"connected", "lost"}
      /\ stage[a] \in {"connecting", "connected"}
  BY DEF Reach, Lose, SessionTypeOK
<1>2. UNCHANGED <<phase, link, handle, peer, synced, online, tables, wires, inbox>>
  BY DEF Reach, Lose
<1>3. Untouched'
  <2>1. \A b \in Attempt : stage'[b] \in Resolution => stage[b] \in Resolution
    BY <1>1 DEF Resolution
  <2> QED
    BY <1>2, <2>1 DEF SessionInv, Untouched, wires
<1>4. OneLink'
  BY <1>1, <1>2 DEF SessionInv, OneLink
<1>5. QueuesEmpty' /\ NoStaleTable' /\ OnlineIsAdmitted'
  BY <1>2 DEF SessionInv, QueuesEmpty, NoStaleTable, OnlineIsAdmitted, tables, wires
<1>6. NoneFailed' => NoneFailed
  BY <1>1 DEF NoneFailed
<1>7. FromPeer' /\ DefinitionsFirst' /\ AuthFirst'
  <2>1. FromPeer'
    BY <1>2 DEF SessionInv, FromPeer, FromServer, tables, wires
  <2>2. DefinitionsFirst'
    BY <1>2, <1>6 DEF SessionInv, DefinitionsFirst, Defined, Holds, DefsFirst, tables, wires
  <2>3. AuthFirst'
    BY <1>2, <1>6 DEF SessionInv, AuthFirst, Holds, tables, wires
  <2> QED
    BY <2>1, <2>2, <2>3
<1> QED
  BY <1>3, <1>4, <1>5, <1>7 DEF SessionInv

(* A message is read: the time, or one for the dispatcher.                 *)
LEMMA ReadKeeps ==
    ASSUME SessionTypeOK, SessionInv, Read
    PROVE  SessionInv'
<1> DEFINE m == Head(down[link])
<1>1. /\ link \in Attempt /\ link # None
      /\ down[link] \in Seq(DownMsg) /\ down[link] # <<>> /\ m \in DownMsg
      /\ down'[link] = Tail(down[link])
      /\ \A b \in Attempt : b # link => down'[b] = down[b]
      /\ stage[link] \notin Resolution
      /\ phase = "reading"
  <2>1. /\ phase = "reading" /\ link \in Attempt /\ link # None /\ down[link] # <<>>
        /\ down' = [down EXCEPT ![link] = Tail(@)]
    BY DEF Read, SessionTypeOK
  <2>2. down[link] \in Seq(DownMsg) /\ m \in DownMsg
    BY <2>1 DEF SessionTypeOK
  <2>3. stage[link] \notin Resolution
    BY <2>1, StagesApart DEF SessionTypeOK
  <2> QED
    BY <2>1, <2>2, <2>3 DEF SessionTypeOK
<1>2. UNCHANGED <<phase, link, handle, stage, peer, news, online, tables, admitted,
                  calls>>
  BY DEF Read
<1>3. /\ \A t : Holds(down[link], t) <=> m.type = t \/ Holds(down'[link], t)
      /\ FromServer(down[link], peer[link]) =>
            m.from = peer[link] /\ FromServer(down'[link], peer[link])
      /\ DefsFirst(down[link]) => m.type # "call"
      /\ DefsFirst(down[link]) /\ m.type # "definitions" => DefsFirst(down'[link])
  BY <1>1, TailHeld
<1>4. OneLink' /\ QueuesEmpty'
  BY <1>1, <1>2 DEF SessionInv, OneLink, QueuesEmpty
<1>5. FromPeer' /\ m.from = peer[link]
  BY <1>1, <1>2, <1>3 DEF SessionInv, FromPeer
<1>6. CASE /\ m.type = "time"
           /\ synced' = TRUE
           /\ up' = IF synced THEN up
                    ELSE [up EXCEPT ![link] = Append(@, [type |-> "auth"])]
           /\ inbox' = inbox
  <2>1. \A b \in Attempt : b # link => up'[b] = up[b]
    BY <1>1, <1>6 DEF SessionTypeOK
  <2>2. Untouched'
    BY <1>1, <1>2, <2>1 DEF SessionInv, Untouched
  <2>3. NoStaleTable' /\ OnlineIsAdmitted'
    BY <1>2, <1>6 DEF SessionInv, NoStaleTable, OnlineIsAdmitted, tables
  <2>4. AuthFirst'
    BY <1>2, <1>3, <1>6 DEF SessionInv, AuthFirst
  <2>5. DefinitionsFirst'
    BY <1>2, <1>3, <1>6 DEF SessionInv, DefinitionsFirst, Defined, NoneFailed, tables
  <2> QED
    BY <1>4, <1>5, <2>2, <2>3, <2>4, <2>5 DEF SessionInv
<1>7. CASE /\ m.type # "time"
           /\ inbox' = [inbox EXCEPT ![m.type] = Append(@, m)]
           /\ synced' = synced /\ up' = up
  <2>1. /\ m.type \in Queues
        /\ inbox[m.type] \in Seq(DownMsg)
        /\ \A t \in Queues : inbox'[t] = IF t = m.type THEN Append(inbox[t], m)
                                                       ELSE inbox[t]
    BY <1>1, <1>7 DEF DownMsg, SessionTypeOK
  <2> HIDE DEF m
  <2>2. Untouched' /\ OnlineIsAdmitted'
    BY <1>1, <1>2, <1>7 DEF SessionInv, Untouched, OnlineIsAdmitted
  <2>3. \A t \in Queues : FromServer(inbox'[t], peer[link])
    <3>1. \A t \in Queues : FromServer(inbox[t], peer[link])
      <4>1. \A t \in Queues : inbox[t] = <<>> => FromServer(inbox[t], peer[link])
        BY NothingHeld
      <4> QED
        BY <4>1 DEF SessionInv, NoStaleTable, FromServer
    <3>2. FromServer(Append(inbox[m.type], m), peer[link])
      BY <1>1, <1>5, <2>1, <3>1, AppendHeld
    <3> QED
      BY <2>1, <3>1, <3>2
  <2>4. NoStaleTable'
    BY <1>1, <1>2, <2>3 DEF SessionInv, NoStaleTable, FromServer, tables
  <2>5. Append(inbox[m.type], m) # <<>>
    BY <1>1, <2>1
  <2>6. AuthFirst'
    <3>1. m.type = "auth" => link \in admitted
      BY <1>1, <1>3 DEF SessionInv, AuthFirst
    <3>2. inbox'["auth"] # <<>> => m.type = "auth" \/ inbox["auth"] # <<>>
      BY <2>1 DEF Queues
    <3> QED
      BY <1>1, <1>2, <1>3, <1>7, <3>1, <3>2 DEF SessionInv, AuthFirst
  <2>7. DefinitionsFirst'
    <3> SUFFICES ASSUME ~Defined', NoneFailed'
                 PROVE  /\ inbox'["call"] = <<>>
                        /\ DefsFirst(down'[link])
                        /\ link \in admitted => Holds(down'[link], "definitions")
      BY <1>2 DEF DefinitionsFirst
    <3>1. clientRpcs = None /\ inbox'["definitions"] = <<>>
      BY <1>2 DEF Defined, tables
    <3>2. m.type # "definitions" /\ inbox["definitions"] = <<>>
      BY <2>1, <2>5, <3>1 DEF Queues
    <3>3. ~Defined /\ NoneFailed
      BY <1>2, <3>1, <3>2 DEF Defined, NoneFailed
    <3>4. /\ inbox["call"] = <<>> /\ DefsFirst(down[link])
          /\ link \in admitted => Holds(down[link], "definitions")
      BY <1>1, <3>3 DEF SessionInv, DefinitionsFirst
    <3>5. inbox'["call"] = inbox["call"]
      BY <1>3, <2>1, <3>4 DEF Queues
    <3> QED
      BY <1>3, <3>2, <3>4, <3>5
  <2> QED
    BY <1>4, <1>5, <2>2, <2>4, <2>6, <2>7 DEF SessionInv
<1> QED
  BY <1>6, <1>7 DEF Read

-----------------------------------------------------------------------------
(* The dispatcher hands a message to its handler.                          *)
LEMMA PublishTakes ==
    ASSUME SessionTypeOK, SessionInv, NEW t \in Queues, Publish(t)
    PROVE  /\ phase = "dispatching" /\ link # None
           /\ Head(inbox[t]) \in DownMsg /\ Head(inbox[t]).from = peer[link]
           /\ UNCHANGED <<phase, link, stage, peer, synced, up, down, admitted>>
           /\ \A u \in Queues : inbox'[u] = IF u = t THEN Tail(inbox[t]) ELSE inbox[u]
           /\ \A u \in Queues : inbox'[u] # <<>> => inbox[u] # <<>>
           /\ \A u \in Queues : \A i \in DOMAIN inbox'[u] :
                 inbox'[u][i].from = peer[link]
<1>1. /\ inbox[t] \in Seq(DownMsg) /\ inbox[t] # <<>>
      /\ \A u \in Queues : inbox'[u] = IF u = t THEN Tail(inbox[t]) ELSE inbox[u]
  BY DEF Publish, SessionTypeOK
<1>2. link # None /\ FromServer(inbox[t], peer[link])
  BY <1>1 DEF SessionInv, NoStaleTable, FromServer
<1>3. Head(inbox[t]).from = peer[link] /\ FromServer(Tail(inbox[t]), peer[link])
  BY <1>1, <1>2, TailHeld
<1>4. \A u \in Queues : inbox'[u] # <<>> => inbox[u] # <<>>
  BY <1>1
<1>5. \A u \in Queues : \A i \in DOMAIN inbox'[u] : inbox'[u][i].from = peer[link]
  <2> SUFFICES ASSUME NEW u \in Queues, NEW i \in DOMAIN inbox'[u]
               PROVE  inbox'[u][i].from = peer[link]
    OBVIOUS
  <2>1. CASE u = t
    BY <1>1, <1>3, <2>1 DEF FromServer
  <2>2. CASE u # t
    <3>1. inbox'[u] = inbox[u]
      BY <1>1, <2>2
    <3>2. inbox[u] # <<>>
      BY <3>1
    <3> QED
      BY <3>1, <3>2 DEF SessionInv, NoStaleTable
  <2> QED
    BY <2>1, <2>2
<1>6. phase = "dispatching" /\ UNCHANGED <<phase, link, stage, peer, synced, up, down, admitted>>
  BY DEF Publish, wires
<1> QED
  BY <1>1, <1>2, <1>3, <1>4, <1>5, <1>6

LEMMA HandlerKeeps ==
    ASSUME SessionTypeOK, SessionInv,
           HandleAuthentication \/ HandleRpcDefinitions \/ HandleRpc
    PROVE  SessionInv'
<1>1. PICK t \in Queues :
         /\ Publish(t)
         /\ \/ t = "auth" /\ online' = TRUE /\ UNCHANGED tables
            \/ /\ t = "definitions" /\ online' = online
               /\ clientRpcs' = Head(inbox["definitions"]).from
            \/ t = "call" /\ online' = online /\ UNCHANGED tables
  BY DEF HandleAuthentication, HandleRpcDefinitions, HandleRpc, Queues
<1>2. /\ phase = "dispatching" /\ link # None
      /\ Head(inbox[t]) \in DownMsg /\ Head(inbox[t]).from = peer[link]
      /\ UNCHANGED <<phase, link, stage, peer, synced, up, down, admitted>>
      /\ \A u \in Queues : inbox'[u] = IF u = t THEN Tail(inbox[t]) ELSE inbox[u]
      /\ \A u \in Queues : inbox'[u] # <<>> => inbox[u] # <<>>
      /\ \A u \in Queues : \A i \in DOMAIN inbox'[u] : inbox'[u][i].from = peer[link]
  BY <1>1, PublishTakes
<1>3. Untouched' /\ OneLink' /\ QueuesEmpty' /\ FromPeer'
  BY <1>2 DEF SessionInv, Untouched, OneLink, QueuesEmpty, FromPeer, FromServer
<1>4. NoStaleTable'
  <2>1. clientRpcs' # None => clientRpcs' = peer[link]
    BY <1>1, <1>2 DEF SessionInv, NoStaleTable, tables
  <2> QED
    BY <1>2, <2>1 DEF NoStaleTable
<1>5. inbox["auth"] # <<>> => link \in admitted
  BY DEF SessionInv, AuthFirst
<1>6. AuthFirst'
  <2>1. inbox'["auth"] # <<>> => link \in admitted
    BY <1>2, <1>5 DEF Queues
  <2> QED
    BY <1>2, <2>1 DEF SessionInv, AuthFirst, Holds
<1>7. OnlineIsAdmitted'
  <2>1. online' => online \/ t = "auth"
    BY <1>1
  <2>2. t = "auth" => inbox["auth"] # <<>>
    BY <1>1 DEF Publish
  <2>3. link \in admitted => synced
    BY <1>2 DEF SessionInv, AuthFirst
  <2> QED
    BY <1>2, <1>5, <2>1, <2>2, <2>3 DEF SessionInv, OnlineIsAdmitted
<1>8. DefinitionsFirst'
  <2> SUFFICES ASSUME ~Defined', NoneFailed'
               PROVE  /\ inbox'["call"] = <<>>
                      /\ DefsFirst(down[link])
                      /\ link \in admitted => Holds(down[link], "definitions")
    BY <1>2 DEF DefinitionsFirst
  <2>1. t # "definitions"
    BY <1>1, <1>2, SessionAssumption DEF Defined, DownMsg
  <2>2. ~Defined /\ NoneFailed
    BY <1>1, <1>2, <2>1 DEF Defined, NoneFailed, tables, Queues
  <2> QED
    BY <1>2, <2>2 DEF SessionInv, DefinitionsFirst, Queues
<1> QED
  BY <1>3, <1>4, <1>6, <1>7, <1>8 DEF SessionInv

LEMMA PairConcat ==
    ASSUME NEW S, NEW x \in S, NEW y \in S
    PROVE  /\ <<x>> \in Seq(S) /\ <<y>> \in Seq(S) /\ <<x, y>> \in Seq(S)
           /\ <<x>> \o <<y>> = <<x, y>>
<1>1. <<x>> \in Seq(S) /\ <<y>> \in Seq(S) /\ <<x, y>> \in Seq(S)
  OBVIOUS
<1>2. Len(<<x>>) = 1 /\ Len(<<y>>) = 1 /\ Len(<<x, y>>) = 2
  OBVIOUS
<1>3. /\ <<x>> \o <<y>> \in Seq(S)
      /\ Len(<<x>> \o <<y>>) = 2
      /\ \A i \in 1 .. 2 : (<<x>> \o <<y>>)[i] = IF i <= 1 THEN <<x>>[i] ELSE <<y>>[i - 1]
  BY <1>1, <1>2, ConcatProperties
<1>4. \A i \in 1 .. 2 : (<<x>> \o <<y>>)[i] = <<x, y>>[i]
  BY <1>3
<1> QED
  BY <1>1, <1>2, <1>3, <1>4, SeqEqual

LEMMA ConcatAppends ==
    ASSUME NEW S, NEW s \in Seq(S), NEW x \in S, NEW y \in S
    PROVE  /\ s \o <<>> = s
           /\ s \o <<x>> = Append(s, x)
           /\ s \o <<x, y>> = Append(Append(s, x), y)
           /\ Append(s, x) \in Seq(S)
<1>1. s \o <<>> = s
  BY ConcatEmptySeq
<1>2. ASSUME NEW q \in Seq(S), NEW z \in S
      PROVE  q \o <<z>> = Append(q, z)
  BY <1>2, AppendIsConcat
<1>3. Append(s, x) \in Seq(S)
  BY AppendProperties
<1>4. (s \o <<x>>) \o <<y>> = s \o (<<x>> \o <<y>>)
  BY PairConcat, ConcatAssociative
<1>5. s \o <<x>> = Append(s, x) /\ Append(s, x) \o <<y>> = Append(Append(s, x), y)
  BY <1>2, <1>3
<1>6. <<x>> \o <<y>> = <<x, y>>
  BY PairConcat
<1> QED
  BY <1>1, <1>3, <1>4, <1>5, <1>6

(* The server answers, or calls: on the one connection there is.           *)
LEMMA ServeKeeps ==
    ASSUME SessionTypeOK, SessionInv, NEW a \in Attempt, Serve(a)
    PROVE  SessionInv'
<1>1. /\ a = link /\ link # None /\ link \in Attempt
      /\ up[link] \in Seq(UpMsg) /\ up[link] # <<>>
      /\ down[link] \in Seq(DownMsg)
      /\ peer[link] \in Server
      /\ stage[link] \notin Resolution
  BY StagesApart, SessionAssumption DEF Serve, SessionInv, OneLink, SessionTypeOK
<1>2. /\ \A b \in Attempt : b # link => up'[b] = up[b] /\ down'[b] = down[b]
      /\ up'[link] = Tail(up[link])
      /\ down'[link] = down[link] \o Answer(Head(up[link]).type, peer[link])
      /\ admitted' = IF Head(up[link]).type = "auth" THEN admitted \cup {link}
                                                    ELSE admitted
      /\ UNCHANGED <<phase, link, stage, peer, synced, online, tables, inbox>>
  BY <1>1 DEF Serve, SessionTypeOK
<1>3. \A t : Holds(up[link], t) <=> Head(up[link]).type = t \/ Holds(up'[link], t)
  BY <1>1, <1>2, TailHeld
<1>4. Untouched'
  BY <1>1, <1>2 DEF SessionInv, Untouched
<1>5. OneLink' /\ QueuesEmpty' /\ NoStaleTable' /\ OnlineIsAdmitted'
  BY <1>2 DEF SessionInv, OneLink, QueuesEmpty, NoStaleTable, OnlineIsAdmitted, tables
<1>a. /\ \A t \in Queues \cup {"time"} :
            /\ Message(t, peer[link]) \in DownMsg
            /\ Message(t, peer[link]).type = t
            /\ Message(t, peer[link]).from = peer[link]
      /\ Head(up[link]).type \in {"handshake", "auth", "call"}
  <2>1. Head(up[link]) \in UpMsg
    BY <1>1
  <2> QED
    BY <1>1, <2>1 DEF Message, DownMsg, UpMsg
<1>b. (NoneFailed' <=> NoneFailed) /\ (Defined' <=> Defined)
  BY <1>2 DEF NoneFailed, Defined, tables
<1>6. CASE Head(up[link]).type = "handshake"
  <2>1. down'[link] = Append(down[link], Message("time", peer[link]))
    <3>1. Message("time", peer[link]) \in DownMsg
      BY <1>a
    <3>2. down[link] \o <<Message("time", peer[link])>>
             = Append(down[link], Message("time", peer[link]))
      BY <1>1, <3>1, ConcatAppends
    <3> QED
      BY <1>2, <1>6, <3>2 DEF Answer
  <2>2. /\ \A t : Holds(down'[link], t) <=> Holds(down[link], t) \/ t = "time"
        /\ FromServer(down[link], peer[link]) => FromServer(down'[link], peer[link])
        /\ DefsFirst(down[link]) => DefsFirst(down'[link])
    BY <1>1, <1>a, <2>1, AppendHeld
  <2>3. admitted' = admitted
    BY <1>2, <1>6
  <2>4. FromPeer' /\ AuthFirst'
    BY <1>2, <1>3, <2>2, <2>3 DEF SessionInv, FromPeer, AuthFirst
  <2>5. DefinitionsFirst'
    BY <1>2, <1>b, <2>2, <2>3 DEF SessionInv, DefinitionsFirst
  <2> QED
    BY <1>4, <1>5, <2>4, <2>5 DEF SessionInv
<1>7. CASE Head(up[link]).type = "auth"
  <2> DEFINE s == Append(down[link], Message("definitions", peer[link]))
  <2>1. /\ down'[link] = Append(s, Message("auth", peer[link]))
        /\ s \in Seq(DownMsg)
    <3>1. /\ Message("definitions", peer[link]) \in DownMsg
          /\ Message("auth", peer[link]) \in DownMsg
      BY <1>a DEF Queues
    <3> DEFINE x == Message("definitions", peer[link])
               y == Message("auth", peer[link])
    <3>2. Answer("auth", peer[link]) = <<x, y>>
      BY DEF Answer
    <3> HIDE DEF x, y
    <3>3. down[link] \o <<x, y>> = Append(Append(down[link], x), y)
      BY <1>1, <3>1, ConcatAppends DEF x, y
    <3>4. Append(down[link], x) \in Seq(DownMsg)
      BY <1>1, <3>1, ConcatAppends DEF x, y
    <3> QED
      BY <1>2, <1>7, <3>2, <3>3, <3>4 DEF x, y
  <2>2. /\ \A t : Holds(s, t) <=> Holds(down[link], t) \/ t = "definitions"
        /\ FromServer(down[link], peer[link]) => FromServer(s, peer[link])
        /\ DefsFirst(down[link]) => DefsFirst(s)
    BY <1>1, <1>a, AppendHeld DEF Queues
  <2> HIDE DEF s
  <2>3. /\ \A t : Holds(down'[link], t) <=> Holds(s, t) \/ t = "auth"
        /\ FromServer(s, peer[link]) => FromServer(down'[link], peer[link])
        /\ DefsFirst(s) => DefsFirst(down'[link])
    BY <1>1, <1>a, <2>1, AppendHeld DEF Queues
  <2>4. admitted' = admitted \cup {link}
    BY <1>2, <1>7
  <2>5. FromPeer' /\ AuthFirst'
    BY <1>2, <1>3, <1>7, <2>2, <2>3, <2>4 DEF SessionInv, FromPeer, AuthFirst
  <2>6. DefinitionsFirst'
    BY <1>2, <1>b, <2>2, <2>3 DEF SessionInv, DefinitionsFirst
  <2> QED
    BY <1>4, <1>5, <2>5, <2>6 DEF SessionInv
<1>8. CASE Head(up[link]).type = "call"
  <2>1. down'[link] = down[link] /\ admitted' = admitted
    <3>1. Answer("call", peer[link]) = <<>>
      BY DEF Answer
    <3>2. down[link] \o <<>> = down[link]
      BY <1>1, ConcatEmptySeq
    <3> QED
      BY <1>2, <1>8, <3>1, <3>2
  <2>2. FromPeer' /\ AuthFirst'
    BY <1>2, <1>3, <2>1 DEF SessionInv, FromPeer, AuthFirst
  <2>3. DefinitionsFirst'
    BY <1>2, <1>b, <2>1 DEF SessionInv, DefinitionsFirst
  <2> QED
    BY <1>4, <1>5, <2>2, <2>3 DEF SessionInv
<1> QED
  BY <1>6, <1>7, <1>8, <1>a

LEMMA CallKeeps ==
    ASSUME SessionTypeOK, SessionInv, NEW a \in Attempt, CallClient(a)
    PROVE  SessionInv'
<1>1. /\ a = link /\ link # None /\ link \in Attempt /\ link \in admitted
      /\ down[link] \in Seq(DownMsg)
      /\ stage[link] \notin Resolution
  BY StagesApart, SessionAssumption DEF CallClient, SessionInv, OneLink, SessionTypeOK
<1>2. /\ \A b \in Attempt : b # link => down'[b] = down[b]
      /\ down'[link] = Append(down[link], Message("call", peer[link]))
      /\ UNCHANGED <<phase, link, stage, peer, synced, online, tables, up, admitted,
                     inbox>>
  BY <1>1 DEF CallClient, SessionTypeOK
<1>3. /\ Message("call", peer[link]) \in DownMsg
      /\ Message("call", peer[link]).type = "call"
      /\ Message("call", peer[link]).from = peer[link]
  BY <1>1, StagesApart DEF Message, DownMsg, Queues, SessionTypeOK, CallClient
<1>4. /\ \A t : Holds(down'[link], t) <=> Holds(down[link], t) \/ t = "call"
      /\ FromServer(down[link], peer[link]) => FromServer(down'[link], peer[link])
      /\ DefsFirst(down[link]) /\ Holds(down[link], "definitions")
            => DefsFirst(down'[link])
  BY <1>1, <1>2, <1>3, AppendHeld
<1>5. Untouched'
  BY <1>1, <1>2 DEF SessionInv, Untouched
<1>6. OneLink' /\ QueuesEmpty' /\ NoStaleTable' /\ OnlineIsAdmitted'
  BY <1>2 DEF SessionInv, OneLink, QueuesEmpty, NoStaleTable, OnlineIsAdmitted, tables
<1>7. (NoneFailed' <=> NoneFailed) /\ (Defined' <=> Defined)
  BY <1>2 DEF NoneFailed, Defined, tables
<1>8. FromPeer' /\ AuthFirst' /\ DefinitionsFirst'
  BY <1>1, <1>2, <1>4, <1>7 DEF SessionInv, FromPeer, AuthFirst, DefinitionsFirst
<1> QED
  BY <1>5, <1>6, <1>8 DEF SessionInv

-----------------------------------------------------------------------------
LEMMA SessionStep ==
    ASSUME SessionTypeOK, SessionInv, SessionNext
    PROVE  SessionInv'
<1>1. ASSUME NEW a \in Attempt, NEW s \in Server, Connect(a, s)
      PROVE  SessionInv'
  BY <1>1, ConnectKeeps
<1>2. CASE Close
  BY <1>2, CloseKeeps
<1>3. CASE CallServer
  <2> DEFINE m == [type |-> "call", table |-> serverRpcs]
  <2>1. m \in UpMsg /\ m.type # "auth"
    BY <1>3 DEF CallServer, UpMsg, SessionTypeOK
  <2> QED
    BY <1>3, <2>1, SendKeeps DEF CallServer, tables
<1>4. CASE Turn
  BY <1>4, TurnKeeps
<1>5. ASSUME NEW a \in Attempt, OnUp(a)
      PROVE  SessionInv'
  <2>1. CASE link = None
    BY <1>5, <2>1, IdleKeeps DEF OnUp
  <2>2. CASE link # None
    <3>1. [type |-> "handshake"] \in UpMsg
      BY DEF UpMsg
    <3> QED
      BY <1>5, <2>2, <3>1, SendKeeps DEF OnUp
  <2> QED
    BY <2>1, <2>2
<1>6. ASSUME NEW a \in Attempt, OnDown(a) \/ OnUnresolved(a) \/ OnResolved(a)
      PROVE  SessionInv'
  BY <1>6, DownKeeps, UnresolvedKeeps, ResolvedKeeps
<1>7. CASE Read
  BY <1>7, ReadKeeps
<1>8. CASE HandleAuthentication \/ HandleRpcDefinitions \/ HandleRpc
  BY <1>8, HandlerKeeps
<1>9. ASSUME NEW a \in Attempt, Reach(a) \/ Lose(a)
      PROVE  SessionInv'
  BY <1>9, StageKeeps
<1>10. ASSUME NEW a \in Attempt, Serve(a) \/ CallClient(a)
       PROVE  SessionInv'
  BY <1>10, ServeKeeps, CallKeeps
<1> QED
  BY <1>1, <1>2, <1>3, <1>4, <1>5, <1>6, <1>7, <1>8, <1>9, <1>10
     DEF SessionNext, Frame, World
LEMMA SessionStarts ==
    ASSUME SessionInit
    PROVE  SessionInv
<1>1. /\ link = None /\ online = FALSE /\ clientRpcs = None
      /\ \A a \in Attempt : /\ stage[a] = "unused"
                            /\ up[a] = <<>> /\ down[a] = <<>> /\ a \notin admitted
      /\ \A t \in Queues : inbox[t] = <<>>
  BY DEF SessionInit
<1> QED
  BY <1>1 DEF SessionInv, Untouched, OneLink, QueuesEmpty, FromPeer, NoStaleTable,
              DefinitionsFirst, AuthFirst, OnlineIsAdmitted, Queues

(* Whatever callbacks of closed connections and ended resolutions come     *)
(* late: SessionInv holds.                                                 *)
THEOREM SessionInvariant == Spec => [](SessionTypeOK /\ SessionInv)
<1>1. Init => SessionInv
  BY SessionStarts DEF Init
<1>2. TypeOK /\ SessionInv /\ [Next]_vars => SessionInv'
  <2> SUFFICES ASSUME TypeOK, SessionInv, [Next]_vars
               PROVE  SessionInv'
    OBVIOUS
  <2>1. CASE SessionNext
    BY <2>1, SessionStep DEF TypeOK
  <2>2. CASE UNCHANGED sessionVars
    BY <2>2, IdleKeeps DEF sessionVars, wires
  <2> QED
    BY <2>1, <2>2, StepOfSession
<1>3. TypeOK => SessionTypeOK
  BY DEF TypeOK
<1> QED
  BY <1>1, <1>2, <1>3, JoinTypeCorrect, PTL DEF Spec

(* The client never holds two connections, nor one it has forgotten, and   *)
(* m_pHandle is never that of a resolution that has ended.                 *)
(* (Client::Connect, Close, OnSteamNetConnectionStatusChanged.)            *)
THEOREM OneConnectionOnly == Spec => []OneConnection
<1>1. SessionTypeOK /\ SessionInv => OneConnection
  BY DEF SessionTypeOK, SessionInv, OneLink, OneConnection
<1> QED
  BY <1>1, SessionInvariant, PTL

(* "Clear per-session RPC tables" (RpcService.cpp:43) and "definitions are *)
(* applied before any calls" (RpcService.cpp:31): no call is dispatched    *)
(* against the table of an earlier session, or before the table has come.  *)
THEOREM TablesNeverStale == Spec => []TablesAreCurrent
<1>1. SessionTypeOK /\ SessionInv => CallsFindTable
  <2> SUFFICES ASSUME SessionTypeOK, SessionInv, NoneFailed,
                      inbox["call"] # <<>>,
                      \A t \in Before("call") : inbox[t] = <<>>
               PROVE  clientRpcs = Head(inbox["call"]).from
    BY DEF CallsFindTable, NoneFailed
  <2>1. inbox["call"] \in Seq(DownMsg) /\ 1 \in DOMAIN inbox["call"]
    BY DEF SessionTypeOK, Queues
  <2>2. link # None /\ Head(inbox["call"]).from = peer[link]
    BY <2>1 DEF SessionInv, NoStaleTable, Queues
  <2>3. clientRpcs # None
    BY <2>2 DEF SessionInv, DefinitionsFirst, Defined, Before
  <2> QED
    BY <2>2, <2>3 DEF SessionInv, NoStaleTable
<1>2. SessionTypeOK /\ SessionInv => TablesAreCurrent
  BY <1>1 DEF TablesAreCurrent, SessionInv
<1> QED
  BY <1>2, SessionInvariant, PTL

(* Who is shown as connected has a synchronized connection that the server *)
(* has authorized.  (UIMultiplayerConnectedToServer, m_authenticated.)     *)
THEOREM OnlineOnlyAdmitted == Spec => []OnlineIsAdmitted
<1>1. SessionInv => OnlineIsAdmitted
  BY DEF SessionInv
<1> QED
  BY <1>1, SessionInvariant, PTL
=============================================================================
