----------------------------- MODULE HostProofs -----------------------------
(***************************************************************************)
(* The server's process, for any players, mods, protocols, periods and     *)
(* bounds: the world clock, the mods it serves, whom it admits and, from    *)
(* the transport, which connections it serves.                              *)
(***************************************************************************)
EXTENDS Mods, Host, Schema, Transport, FiniteSetTheorems, TLAPS

-----------------------------------------------------------------------------
(* The world clock.  Since it was last saved, the clock has gone on by what *)
(* has elapsed of the period and by at most one turn of the loop; and the  *)
(* same is true of what a player was told.                                 *)
Kept(told0) == total <= told0 + elapsed + MaxDelta

ClockInv ==
    /\ HostTypeOK
    /\ elapsed < Period
    /\ Kept(Restored)
    /\ \A p \in players : Kept(told[p])

LEMMA HostTypes == HostTypeOK /\ [HostNext]_hostVars => HostTypeOK'
<1> SUFFICES ASSUME HostTypeOK, [HostNext]_hostVars
             PROVE  HostTypeOK'
  OBVIOUS
<1> USE HostAssumption DEF HostTypeOK, hostFlags, hostClock
<1>1. ASSUME NEW parsed \in BOOLEAN, Initialize(parsed)
      PROVE  HostTypeOK'
  <2>1. total' \in Nat \ {0} /\ boots' \in Nat /\ elapsed' \in Nat
    BY <1>1 DEF Initialize, Restored
  <2>2. /\ pc' \in {"top", "gone"} /\ players' = {}
        /\ run' \in BOOLEAN /\ listening' \in BOOLEAN
        /\ asked' \in BOOLEAN /\ due' \in BOOLEAN
        /\ UNCHANGED <<file, told, thread>>
    BY <1>1 DEF Initialize
  <2> QED
    BY <2>1, <2>2
<1>2. CASE HandleShutdownSignal
  BY <1>2 DEF HandleShutdownSignal
<1>3. CASE Update \/ ReceiveMessages
  BY <1>3 DEF Update, ReceiveMessages
<1>4. ASSUME NEW d \in 1 .. MaxDelta, Tick(d)
      PROVE  HostTypeOK'
  <2>1. elapsed' \in Nat /\ total' \in Nat \ {0}
    BY <1>4 DEF Tick, Advance
  <2>2. file' \in Nat /\ told' \in [Player -> Nat]
    BY <1>4 DEF Tick, Broadcast, Send
  <2>3. due' \in BOOLEAN /\ thread' \in [Thread -> {"none", "counting", "posting"}]
    BY <1>4 DEF Tick
  <2> QED
    BY <1>4, <2>1, <2>2, <2>3 DEF Tick
<1>5. CASE Kill \/ Exit
  BY <1>5 DEF Kill, Exit
<1>6. ASSUME NEW p \in Player, OnDisconnection(p) \/ PlayerJoin(p)
      PROVE  HostTypeOK'
  BY <1>6 DEF OnDisconnection, PlayerJoin, Send
<1>7. CASE MinutePasses
  BY <1>7 DEF MinutePasses
<1>8. ASSUME NEW t \in Thread, CountPlayers(t)
      PROVE  HostTypeOK'
  BY <1>8 DEF CountPlayers
<1>9. ASSUME NEW t \in Thread, NEW banned \in BOOLEAN, PostAnnouncement(t, banned)
      PROVE  HostTypeOK'
  BY <1>9 DEF PostAnnouncement
<1>10. CASE ProcessEnds
  BY <1>10 DEF ProcessEnds, Interrupted
<1>11. CASE UNCHANGED hostVars
  BY <1>11 DEF hostVars
<1> QED
  BY <1>1, <1>2, <1>3, <1>4, <1>5, <1>6, <1>7, <1>8, <1>9, <1>10, <1>11
     DEF HostNext, Loop

(* A turn of the loop, with a broadcast or without.                        *)
LEMMA TickKeeps ==
    ASSUME ClockInv, NEW d \in 1 .. MaxDelta, Tick(d)
    PROVE  ClockInv'
<1> USE HostAssumption DEF ClockInv, HostTypeOK, Kept
<1>1. /\ total \in Nat \ {0} /\ elapsed \in Nat /\ d \in Nat /\ d <= MaxDelta
      /\ Period \in Nat /\ 0 < Period /\ MaxDelta \in Nat /\ Restored \in Nat
      /\ \A p \in players : told[p] \in Nat
  BY DEF Restored
<1>2. players' = players /\ total' = total + d
  BY DEF Tick, hostFlags, Advance
<1>3. CASE Fires(d)
  <2>1. elapsed' = 0 /\ file' = total /\ \A p \in players : told'[p] = total
    BY <1>3 DEF Tick, Broadcast, Send
  <2>2. Restored' = total
    BY <1>1, <2>1 DEF Restored
  <2> QED
    BY <1>1, <1>2, <2>1, <2>2, HostTypes DEF HostNext, Loop
<1>4. CASE ~Fires(d)
  <2>1. elapsed' = elapsed + d /\ elapsed + d < Period
    BY <1>1, <1>4 DEF Tick, Fires
  <2>2. Restored' = Restored /\ told' = told
    BY <1>4 DEF Tick, Restored
  <2> QED
    BY <1>1, <1>2, <2>1, <2>2, HostTypes DEF HostNext, Loop
<1> QED
  BY <1>3, <1>4

LEMMA ClockStep == ClockInv /\ [HostNext]_hostVars => ClockInv'
<1> SUFFICES ASSUME ClockInv, HostTypeOK', [HostNext]_hostVars
             PROVE  ClockInv'
  BY HostTypes DEF ClockInv
<1>1. ASSUME NEW d \in 1 .. MaxDelta, Tick(d)
      PROVE  ClockInv'
  BY <1>1, TickKeeps
<1> USE HostAssumption DEF ClockInv, Kept, hostFlags, hostClock
<1>2. ASSUME NEW parsed \in BOOLEAN, Initialize(parsed)
      PROVE  ClockInv'
  BY <1>2 DEF Initialize, Restored, HostTypeOK
<1>3. ASSUME NEW p \in Player, PlayerJoin(p)
      PROVE  ClockInv'
  BY <1>3 DEF PlayerJoin, Send, Restored, HostTypeOK
<1>4. ASSUME UNCHANGED <<elapsed, total, file, told>>, players' \subseteq players
      PROVE  ClockInv'
  BY <1>4 DEF Restored
<1>5. ASSUME \/ HandleShutdownSignal \/ Update \/ ReceiveMessages \/ Kill \/ Exit
             \/ (\E p \in Player : OnDisconnection(p)) \/ MinutePasses
             \/ (\E t \in Thread : CountPlayers(t)
                     \/ \E banned \in BOOLEAN : PostAnnouncement(t, banned))
             \/ ProcessEnds \/ UNCHANGED hostVars
      PROVE  UNCHANGED <<elapsed, total, file, told>> /\ players' \subseteq players
  BY <1>5 DEF HandleShutdownSignal, Update, ReceiveMessages, Kill, Exit,
              OnDisconnection, MinutePasses, CountPlayers, PostAnnouncement,
              ProcessEnds, Interrupted, hostVars
<1> QED
  BY <1>1, <1>2, <1>3, <1>4, <1>5 DEF HostNext, Loop

(* A kill at any moment costs less than one broadcast period and one turn   *)
(* of the loop, and no player's sky is older than that: whenever players   *)
(* join and leave and however often the server is started or killed.       *)
(* (WorldClock.Save, OnPlayerJoin, Broadcast.)                             *)
THEOREM ClockIsKept == HostSpec => []ClockKept
<1>1. HostInit => ClockInv
  <2> SUFFICES ASSUME HostInit PROVE ClockInv
    OBVIOUS
  <2>1. HostTypeOK
    BY HostAssumption DEF HostInit, HostTypeOK
  <2>2. elapsed = 0 /\ total = Noon /\ Restored = Noon /\ players = {}
    BY DEF HostInit, Restored
  <2> QED
    BY <2>1, <2>2, HostAssumption DEF ClockInv, Kept
<1>2. ClockInv => ClockKept
  <2> SUFFICES ASSUME ClockInv PROVE ClockKept
    OBVIOUS
  <2>1. /\ total \in Nat /\ elapsed \in Nat /\ Restored \in Nat
        /\ \A p \in players : told[p] \in Nat
    BY HostAssumption DEF ClockInv, HostTypeOK, Restored
  <2> QED
    BY <2>1, HostAssumption DEF ClockInv, Kept, ClockKept, LossBounded, SkyInStep
<1> QED
  BY <1>1, <1>2, ClockStep, PTL DEF HostSpec

-----------------------------------------------------------------------------
(* The mods.  A start that writes its cache has every mod in place, for any *)
(* mods, versions and failures.  The cache is not true of what is on the   *)
(* disk: it may name a mod that is deleted, torn or of an older version.   *)
(* What it never does is name the version on offer for one that is not     *)
(* there, and so such a mod is looked at again.                            *)

(* Of the cache in memory and of the one in the file alike.                *)
Honest(c) ==
    \A m \in Mod \ withdrawn :
        /\ c[m].checksum <= offer[m]
        /\ c[m].checksum = offer[m] /\ offer[m] # 0 => Whole(m)

(* The start takes the mods one by one; those it has not come to are in     *)
(* memory as in the file, the one it has deleted is not in the file, and   *)
(* the rest is up to date.                                                 *)
OneByOne ==
    /\ \A m, n \in at : m = n
    /\ at \cap todo = {}
    /\ install = "mods" =>
           /\ \A m \in todo : cache[m] = cacheFile[m]
           /\ \A m \in at : cacheFile[m].checksum # offer[m]
           /\ \A m \in Mod \ (todo \cup at) : UpToDate(m)
    /\ install = "saved" => \A m \in Mod : UpToDate(m)

ModsInv == ModsTypeOK /\ Honest(cache) /\ Honest(cacheFile) /\ OneByOne

LEMMA Later == \A a, b \in Nat : a # b /\ ~(a < b) => b < a
OBVIOUS

-----------------------------------------------------------------------------
(* Types.                                                                  *)
LEMMA ModsTypes == ModsTypeOK /\ [ModsNext]_modsVars => ModsTypeOK'
<1> SUFFICES ASSUME ModsTypeOK, [ModsNext]_modsVars
             PROVE  ModsTypeOK'
  OBVIOUS
<1> USE ModsAssumption DEF ModsTypeOK, modsDisk
<1>1. ASSUME NEW m \in Mod, NEW v \in 0 .. MaxVersion, Publish(m, v)
      PROVE  ModsTypeOK'
  BY <1>1 DEF Publish
<1>2. CASE LoadConfiguration
  BY <1>2 DEF LoadConfiguration
<1>3. ASSUME NEW m \in Mod, UseCache(m)
      PROVE  ModsTypeOK'
  BY <1>3 DEF UseCache
<1>4. ASSUME NEW m \in Mod, DeleteOld(m)
      PROVE  ModsTypeOK'
  BY <1>4 DEF DeleteOld
<1>5. ASSUME NEW m \in Mod, DownloadFile(m)
      PROVE  ModsTypeOK'
  BY <1>5 DEF DownloadFile
<1>6. ASSUME NEW m \in Mod, MoveIn(m)
      PROVE  ModsTypeOK'
  BY <1>6 DEF MoveIn, Artifact
<1>7. CASE DownloadFails
  BY <1>7 DEF DownloadFails
<1>8. CASE SaveCache
  BY <1>8 DEF SaveCache
<1>9. CASE Down
  <2>1. NoCache \in [Mod -> Artifact]
    BY DEF NoCache, Unknown, Artifact
  <2>2. /\ zip' \in [Mod -> 0 .. MaxVersion]
        /\ plugin' \in [Mod -> 0 .. MaxVersion \cup {Torn}]
        /\ cacheFile' \in [Mod -> Artifact]
    BY <1>9, <2>1 DEF Down
  <2> QED
    BY <1>9, <2>2 DEF Down
<1>10. CASE UNCHANGED modsVars
  BY <1>10 DEF modsVars
<1> QED
  BY <1>1, <1>2, <1>3, <1>4, <1>5, <1>6, <1>7, <1>8, <1>9, <1>10 DEF ModsNext

-----------------------------------------------------------------------------
(* What the cache says of a mod on offer stays true: a mod that is deleted, *)
(* torn or moved is never one whose entry names the version on offer.      *)
LEMMA CachesStayHonest ==
    ModsInv /\ [ModsNext]_modsVars => Honest(cache)' /\ Honest(cacheFile)'
<1> SUFFICES ASSUME ModsInv, ModsTypeOK', [ModsNext]_modsVars
             PROVE  Honest(cache)' /\ Honest(cacheFile)'
  BY ModsTypes DEF ModsInv
<1> USE ModsAssumption DEF ModsInv, ModsTypeOK, Honest, Whole, Version, Artifact, modsDisk
<1>1. ASSUME NEW m \in Mod, NEW v \in 0 .. MaxVersion, Publish(m, v)
      PROVE  Honest(cache)' /\ Honest(cacheFile)'
  <2> SUFFICES ASSUME NEW n \in Mod \ withdrawn'
               PROVE  \A c \in {cache, cacheFile} :
                          /\ c[n].checksum <= offer'[n]
                          /\ c[n].checksum = offer'[n] /\ offer'[n] # 0 =>
                                 plugin[n] \in 1 .. MaxVersion
    BY <1>1 DEF Publish
  <2>1. n \in Mod \ withdrawn /\ offer[n] \in Nat /\ offer'[n] \in Nat
    BY <1>1 DEF Publish
  <2>2. cache[n].checksum \in Nat /\ cacheFile[n].checksum \in Nat
    OBVIOUS
  <2>3. offer'[n] = offer[n] \/ offer[n] < offer'[n]
    <3>1. CASE n = m
      <4>1. offer'[n] = v /\ v # offer[n] /\ v \in Nat
        BY <1>1, <3>1 DEF Publish
      <4>2. ~(v < offer[n])
        BY <1>1, <3>1 DEF Publish
      <4> QED
        BY <2>1, <4>1, <4>2, Later
    <3>2. CASE n # m
      BY <1>1, <2>1, <3>2 DEF Publish
    <3> QED
      BY <3>1, <3>2
  <2> QED
    BY <2>1, <2>2, <2>3
<1>2. CASE LoadConfiguration
  BY <1>2 DEF LoadConfiguration
<1>3. ASSUME NEW m \in Mod, UseCache(m)
      PROVE  Honest(cache)' /\ Honest(cacheFile)'
  BY <1>3 DEF UseCache
<1>4. ASSUME NEW m \in Mod, DeleteOld(m)
      PROVE  Honest(cache)' /\ Honest(cacheFile)'
  <2>1. cache[m].checksum # offer[m] /\ cacheFile[m].checksum # offer[m]
    BY <1>4 DEF DeleteOld, UpToDate, OneByOne
  <2> QED
    BY <1>4, <2>1 DEF DeleteOld
<1>5. ASSUME NEW m \in Mod, DownloadFile(m)
      PROVE  Honest(cache)' /\ Honest(cacheFile)'
  BY <1>5 DEF DownloadFile
<1>6. ASSUME NEW m \in Mod, MoveIn(m)
      PROVE  Honest(cache)' /\ Honest(cacheFile)'
  <2>1. Whole(m)' /\ cache'[m].checksum = offer[m] /\ offer[m] \in Nat
    BY <1>6 DEF MoveIn
  <2>2. \A n \in Mod \ {m} : plugin'[n] = plugin[n] /\ cache'[n] = cache[n]
    BY <1>6 DEF MoveIn
  <2>3. UNCHANGED <<offer, withdrawn, cacheFile>>
    BY <1>6 DEF MoveIn
  <2>4. cacheFile[m].checksum # offer[m]
    BY <1>6 DEF MoveIn, OneByOne
  <2>5. Honest(cache)'
    BY <2>1, <2>2, <2>3
  <2>6. Honest(cacheFile)'
    BY <2>1, <2>2, <2>3, <2>4
  <2> QED
    BY <2>5, <2>6
<1>7. CASE DownloadFails
  BY <1>7 DEF DownloadFails
<1>8. CASE SaveCache
  BY <1>8 DEF SaveCache
<1>9. CASE Down
  <2>1. UNCHANGED <<offer, withdrawn, cache>>
    BY <1>9 DEF Down
  <2>2. CASE UNCHANGED <<plugin, cacheFile>>
    BY <2>1, <2>2
  <2>3. CASE plugin' = plugin /\ cacheFile' = NoCache
    BY <2>1, <2>3 DEF NoCache, Unknown
  <2>4. ASSUME NEW m \in todo, install = "mods", ~UpToDate(m),
               plugin' = [plugin EXCEPT ![m] = Torn], cacheFile' = cacheFile
        PROVE  Honest(cache)' /\ Honest(cacheFile)'
    <3>1. cache[m].checksum # offer[m] /\ cacheFile[m].checksum # offer[m]
      BY <2>4 DEF UpToDate, OneByOne
    <3> QED
      BY <2>1, <2>4, <3>1
  <2> QED
    BY <1>9, <2>2, <2>3, <2>4 DEF Down
<1>10. CASE UNCHANGED modsVars
  BY <1>10 DEF modsVars
<1> QED
  BY <1>1, <1>2, <1>3, <1>4, <1>5, <1>6, <1>7, <1>8, <1>9, <1>10 DEF ModsNext

LEMMA StaysOneByOne == ModsInv /\ [ModsNext]_modsVars => OneByOne'
<1> SUFFICES ASSUME ModsInv, ModsTypeOK', [ModsNext]_modsVars
             PROVE  OneByOne'
  BY ModsTypes DEF ModsInv
<1> USE DEF ModsInv, ModsTypeOK, OneByOne, UpToDate, Artifact, modsDisk
<1>1. ASSUME NEW m \in Mod, NEW v \in 0 .. MaxVersion, Publish(m, v)
      PROVE  OneByOne'
  BY <1>1 DEF Publish
<1>2. CASE LoadConfiguration
  BY <1>2 DEF LoadConfiguration
<1>3. ASSUME NEW m \in Mod, UseCache(m)
      PROVE  OneByOne'
  BY <1>3 DEF UseCache
<1>4. ASSUME NEW m \in Mod, DeleteOld(m)
      PROVE  OneByOne'
  BY <1>4 DEF DeleteOld
<1>5. ASSUME NEW m \in Mod, DownloadFile(m)
      PROVE  OneByOne'
  BY <1>5 DEF DownloadFile
<1>6. ASSUME NEW m \in Mod, MoveIn(m)
      PROVE  OneByOne'
  <2>1. /\ cache'[m].checksum = offer[m]
        /\ \A n \in Mod \ {m} : cache'[n] = cache[n]
    BY <1>6 DEF MoveIn
  <2>2. at' = {} /\ m \notin todo /\ \A n \in at : n = m
    BY <1>6 DEF MoveIn
  <2>3. install = "mods" /\ UNCHANGED <<offer, cacheFile, todo, install>>
    BY <1>6 DEF MoveIn
  <2> QED
    BY <2>1, <2>2, <2>3
<1>7. CASE DownloadFails
  BY <1>7 DEF DownloadFails
<1>8. CASE SaveCache
  BY <1>8 DEF SaveCache
<1>9. CASE Down
  BY <1>9 DEF Down
<1>10. CASE UNCHANGED modsVars
  BY <1>10 DEF modsVars
<1> QED
  BY <1>1, <1>2, <1>3, <1>4, <1>5, <1>6, <1>7, <1>8, <1>9, <1>10 DEF ModsNext

-----------------------------------------------------------------------------
(* The inductive invariant holds of every behaviour of a server that is     *)
(* started, killed and offered new versions again and again.               *)
THEOREM ModsInvariant == ModsSpec => []ModsInv
<1>1. ModsInit => ModsInv
  <2> SUFFICES ASSUME ModsInit
               PROVE  ModsInv
    OBVIOUS
  <2>1. NoCache \in [Mod -> Artifact]
    BY ModsAssumption DEF NoCache, Unknown, Artifact
  <2>2. ModsTypeOK
    BY <2>1, ModsAssumption DEF ModsInit, ModsTypeOK
  <2>3. Honest(cache) /\ Honest(cacheFile) /\ OneByOne
    BY DEF ModsInit, NoCache, Unknown, Honest, OneByOne
  <2> QED
    BY <2>2, <2>3 DEF ModsInv
<1>2. ModsInv /\ [ModsNext]_modsVars => ModsInv'
  BY ModsTypes, CachesStayHonest, StaysOneByOne DEF ModsInv
<1> QED
  BY <1>1, <1>2, PTL DEF ModsSpec

(* A start that writes its cache has every mod whole that the site offers   *)
(* and has not taken back (Plugins.DownloadServerMods).                    *)
THEOREM SavedModsAreWhole == ModsSpec => []SavedIsWhole
<1>1. ModsInv => SavedIsWhole
  BY DEF ModsInv, Honest, OneByOne, UpToDate, SavedIsWhole
<1> QED
  BY <1>1, ModsInvariant, PTL

-----------------------------------------------------------------------------
(* The protocol.  The identifier tells two protocols apart by the fields of *)
(* every message of the file, as the generated classes have them.          *)
Tree == [proto : [File -> Proto], common : Nat]

SchemaInv ==
    /\ tree \in Tree
    /\ edits \in Nat
    /\ built \in [Side -> Tree \cup {NotBuilt}]
    /\ admission = "admitted" =>
          /\ \A s \in Side : built[s] \in Tree
          /\ \A f \in File : Identifier(built["client"], f) = Identifier(built["server"], f)

(* From equal hashes to equal fields.                                       *)
LEMMA FieldsAreHashed ==
    ASSUME NEW m, NEW n, NEW k \in FieldList, NEW l \in FieldList,
           StructHash(m, k) = StructHash(n, l)
    PROVE  m = n /\ Shape(k) = Shape(l)
<1> DEFINE Member(f) == [f EXCEPT !.type = CppType(@)]
<1>1. m = n /\ [i \in DOMAIN k |-> FieldHash(k[i])] = [i \in DOMAIN l |-> FieldHash(l[i])]
  BY DEF StructHash
<1>2. PICK a \in 0 .. MaxFields : k \in [1 .. a -> Field]
  BY DEF FieldList
<1>3. PICK b \in 0 .. MaxFields : l \in [1 .. b -> Field]
  BY DEF FieldList
<1>4. DOMAIN k = DOMAIN l
  BY <1>1
<1>5. ASSUME NEW i \in DOMAIN k PROVE Member(k[i]) = Member(l[i])
  <2>1. FieldHash(k[i]) = FieldHash(l[i])
    BY <1>1, <1>4
  <2>2. k[i] \in Field /\ l[i] \in Field
    BY <1>2, <1>3, <1>4
  <2>3. CppType(k[i].type) = CppType(l[i].type) /\ k[i].repeated = l[i].repeated /\ k[i].name = l[i].name
    BY <2>1 DEF FieldHash
  <2> QED
    BY <2>2, <2>3 DEF Field
<1> HIDE DEF Member
<1>6. [i \in DOMAIN k |-> Member(k[i])] = [i \in DOMAIN l |-> Member(l[i])]
  BY <1>4, <1>5
<1> QED
  BY <1>1, <1>6 DEF Shape, Member

LEMMA ProtocolIsHashed ==
    ASSUME NEW c \in Proto, NEW s \in Proto, HashProtocol(c) = HashProtocol(s)
    PROVE  c.protocol = s.protocol /\ \A m \in Message : Shape(c.fields[m]) = Shape(s.fields[m])
<1>1. /\ [i \in DOMAIN c.order |-> StructHash(c.order[i], c.fields[c.order[i]])]
           = [i \in DOMAIN s.order |-> StructHash(s.order[i], s.fields[s.order[i]])]
      /\ [i \in DOMAIN c.protocol |-> <<i - 1, c.protocol[i]>>]
           = [i \in DOMAIN s.protocol |-> <<i - 1, s.protocol[i]>>]
  BY DEF HashProtocol
<1>2. c.protocol = s.protocol
  <2>1. DOMAIN c.protocol = DOMAIN s.protocol
    BY <1>1
  <2>2. ASSUME NEW i \in DOMAIN c.protocol PROVE c.protocol[i] = s.protocol[i]
    <3>1. <<i - 1, c.protocol[i]>> = <<i - 1, s.protocol[i]>>
      BY <1>1, <2>1
    <3> QED
      BY <3>1
  <2>3. c.protocol \in UNION {[1 .. n -> Message] : n \in 1 .. Cardinality(Message)}
        /\ s.protocol \in UNION {[1 .. n -> Message] : n \in 1 .. Cardinality(Message)}
    BY DEF Proto, Sent
  <2> QED
    BY <2>1, <2>2, <2>3
<1>3. ASSUME NEW m \in Message PROVE Shape(c.fields[m]) = Shape(s.fields[m])
  <2>1. c.order \in Orders /\ s.order \in Orders
        /\ c.fields \in [Message -> FieldList] /\ s.fields \in [Message -> FieldList]
    BY DEF Proto
  <2>2. PICK i \in DOMAIN c.order : c.order[i] = m
    BY <2>1 DEF Orders
  <2>3. i \in DOMAIN s.order /\ s.order[i] \in Message
    BY <1>1, <2>1, <2>2 DEF Orders
  <2>4. StructHash(c.order[i], c.fields[c.order[i]]) = StructHash(s.order[i], s.fields[s.order[i]])
    BY <1>1, <2>2, <2>3
  <2>5. c.order[i] = s.order[i] /\ Shape(c.fields[c.order[i]]) = Shape(s.fields[s.order[i]])
    BY <2>1, <2>2, <2>3, <2>4, FieldsAreHashed
  <2> QED
    BY <2>2, <2>5
<1> QED
  BY <1>2, <1>3

LEMMA SchemaStart == SchemaInit => SchemaInv
<1> SUFFICES ASSUME SchemaInit PROVE SchemaInv
  OBVIOUS
<1> DEFINE o == CHOOSE q \in Orders : TRUE
           x == CHOOSE q \in FieldName : TRUE
           start == [order    |-> o,
                     fields   |-> [m \in Message |->
                           <<[name |-> x, repeated |-> FALSE,
                              type |-> IF m = o[1] THEN "uint64" ELSE o[1]]>>],
                     protocol |-> o]
<1>1. Cardinality(Message) \in Nat \ {0}
  BY SchemaAssumption, FS_CardinalityType, FS_EmptySet
<1>2. o \in Orders
  <2>1. \E q : ExistsBijection(1 .. Cardinality(Message), Message)
    BY SchemaAssumption, FS_CardinalityType
  <2>2. PICK q : q \in Bijection(1 .. Cardinality(Message), Message)
    BY <2>1 DEF ExistsBijection
  <2>3. q \in Orders
    BY <2>2 DEF Orders, Bijection, Surjection
  <2> QED
    BY <2>3
<1>3. x \in FieldName
  BY SchemaAssumption
<1> HIDE DEF o, x
<1>4. o[1] \in Message
  BY <1>1, <1>2 DEF Orders
<1>5. o \in Sent
  <2>1. o \in [1 .. Cardinality(Message) -> Message]
        /\ \A m \in Message : \E i \in DOMAIN o : o[i] = m
    BY <1>2 DEF Orders
  <2>2. o \in Surjection(1 .. Cardinality(Message), Message)
    BY <2>1 DEF Surjection
  <2>3. IsFiniteSet(1 .. Cardinality(Message))
        /\ Cardinality(1 .. Cardinality(Message)) = Cardinality(Message)
    BY <1>1, FS_Interval
  <2>4. o \in Injection(1 .. Cardinality(Message), Message)
    BY <2>2, <2>3, SchemaAssumption, FS_SurjSameCardinalityImpliesInj
  <2>5. NoRepeat(o)
    BY <2>1, <2>4 DEF NoRepeat, Injection, IsInjective
  <2> QED
    BY <2>1, <2>5, <1>1 DEF Sent
<1>6. ASSUME NEW t \in {"uint64"} \cup Message
      PROVE  <<[name |-> x, repeated |-> FALSE, type |-> t]>> \in FieldList
  <2> DEFINE e == [name |-> x, repeated |-> FALSE, type |-> t]
  <2>1. e \in Field
    BY <1>3 DEF Field, Type
  <2> HIDE DEF e
  <2>2. <<e>> \in [1 .. 1 -> Field] /\ 1 \in 0 .. MaxFields
    BY <2>1, SchemaAssumption
  <2>3. \A i, j \in DOMAIN <<e>> : <<e>>[i].name = <<e>>[j].name => i = j
    OBVIOUS
  <2> QED
    BY <2>2, <2>3 DEF FieldList, e
<1>7. start \in Proto
  <2>1. ASSUME NEW m \in Message
        PROVE  <<[name |-> x, repeated |-> FALSE,
                  type |-> IF m = o[1] THEN "uint64" ELSE o[1]]>> \in FieldList
    BY <1>4, <1>6
  <2> QED
    BY <2>1, <1>2, <1>5 DEF Proto
<1>8. tree = [proto |-> [f \in File |-> start], common |-> 0]
  BY DEF SchemaInit, o, x
<1> HIDE DEF start
<1>9. tree \in Tree
  BY <1>7, <1>8 DEF Tree
<1>10. edits = 0 /\ admission = "none" /\ built = [s \in Side |-> NotBuilt]
  BY DEF SchemaInit
<1> QED
  BY <1>9, <1>10 DEF SchemaInv

LEMMA SchemaStep == SchemaInv /\ [SchemaNext]_schemaVars => SchemaInv'
<1> SUFFICES ASSUME SchemaInv, [SchemaNext]_schemaVars
             PROVE  SchemaInv'
  OBVIOUS
<1>change. ASSUME NEW t \in Tree, Change(t) PROVE SchemaInv'
  BY <1>change DEF Change, SchemaInv
<1>tree. tree.proto \in [File -> Proto] /\ tree.common \in Nat
         /\ tree = [proto |-> tree.proto, common |-> tree.common]
  BY DEF SchemaInv, Tree
<1>1. ASSUME NEW f \in File, NEW m \in Message, NEW l \in FieldList,
             Change([tree EXCEPT !.proto[f].fields[m] = l])
      PROVE  SchemaInv'
  <2> DEFINE p == [tree.proto[f] EXCEPT !.fields[m] = l]
  <2>1. p \in Proto
    BY <1>tree DEF Proto
  <2>2. [tree EXCEPT !.proto[f].fields[m] = l]
          = [proto |-> [tree.proto EXCEPT ![f] = p], common |-> tree.common]
    BY <1>tree
  <2> HIDE DEF p
  <2>3. [tree EXCEPT !.proto[f].fields[m] = l] \in Tree
    BY <2>1, <2>2, <1>tree DEF Tree
  <2> QED
    BY <2>3, <1>1, <1>change
<1>2. ASSUME NEW f \in File, NEW o \in Orders, Change([tree EXCEPT !.proto[f].order = o])
      PROVE  SchemaInv'
  <2> DEFINE p == [tree.proto[f] EXCEPT !.order = o]
  <2>1. p \in Proto
    BY <1>tree DEF Proto
  <2>2. [tree EXCEPT !.proto[f].order = o]
          = [proto |-> [tree.proto EXCEPT ![f] = p], common |-> tree.common]
    BY <1>tree
  <2> HIDE DEF p
  <2>3. [tree EXCEPT !.proto[f].order = o] \in Tree
    BY <2>1, <2>2, <1>tree DEF Tree
  <2> QED
    BY <2>3, <1>2, <1>change
<1>3. ASSUME NEW f \in File, NEW o \in Sent, Change([tree EXCEPT !.proto[f].protocol = o])
      PROVE  SchemaInv'
  <2> DEFINE p == [tree.proto[f] EXCEPT !.protocol = o]
  <2>1. p \in Proto
    BY <1>tree DEF Proto
  <2>2. [tree EXCEPT !.proto[f].protocol = o]
          = [proto |-> [tree.proto EXCEPT ![f] = p], common |-> tree.common]
    BY <1>tree
  <2> HIDE DEF p
  <2>3. [tree EXCEPT !.proto[f].protocol = o] \in Tree
    BY <2>1, <2>2, <1>tree DEF Tree
  <2> QED
    BY <2>3, <1>3, <1>change
<1>4. CASE EditCommon
  <2>1. [tree EXCEPT !.common = @ + 1] \in Tree
    BY <1>tree DEF Tree
  <2> QED
    BY <2>1, <1>4, <1>change DEF EditCommon
<1>5. ASSUME NEW s \in Side, Build(s) PROVE SchemaInv'
  BY <1>5 DEF Build, SchemaInv
<1>6. CASE Handshake
  <2>1. \A s \in Side : built[s] \in Tree
    BY <1>6 DEF Handshake, SchemaInv
  <2>2. admission' = "admitted" =>
           \A f \in File : Identifier(built["client"], f) = Identifier(built["server"], f)
    BY <1>6 DEF Handshake
  <2>3. UNCHANGED <<tree, built, edits>>
    BY <1>6 DEF Handshake
  <2>4. admission' = "admitted" =>
           \A f \in File : Identifier(built'["client"], f) = Identifier(built'["server"], f)
    BY <2>2, <2>3
  <2> QED
    BY <2>1, <2>3, <2>4 DEF SchemaInv
<1>7. CASE UNCHANGED schemaVars
  <2>1. UNCHANGED <<tree, built, edits, admission>>
    BY <1>7 DEF schemaVars
  <2> QED
    BY <2>1 DEF SchemaInv
<1> QED
  BY <1>1, <1>2, <1>3, <1>4, <1>5, <1>6, <1>7 DEF SchemaNext, EditMessage, EditOrder, EditProtocol

LEMMA EqualFieldsAgree == SchemaInv => AdmittedAgree
<1> SUFFICES ASSUME SchemaInv, admission = "admitted", NEW f \in File
             PROVE  LET c == built["client"].proto[f]
                        s == built["server"].proto[f]
                    IN  /\ c.protocol = s.protocol
                        /\ \A i \in DOMAIN s.protocol : \A n \in Parts(s, s.protocol[i]) :
                              Shape(c.fields[n]) = Shape(s.fields[n])
  BY DEF AdmittedAgree, Admitted
<1> DEFINE c == built["client"].proto[f]
           s == built["server"].proto[f]
<1>1. c \in Proto /\ s \in Proto
  BY DEF SchemaInv, Tree, Side
<1>2. HashProtocol(c) = HashProtocol(s)
  BY DEF SchemaInv, Identifier
<1> HIDE DEF c, s
<1>3. c.protocol = s.protocol /\ \A m \in Message : Shape(c.fields[m]) = Shape(s.fields[m])
  BY <1>1, <1>2, ProtocolIsHashed
<1>4. \A m : Parts(s, m) \subseteq Message
  BY DEF Parts
<1> QED
  BY <1>3, <1>4 DEF c, s

(* AdmittedAgree for any files, messages, fields and edits: a client that   *)
(* passes HandleHandshake was built from files that mean the same by every *)
(* number and have the same members in the same places, although the       *)
(* identifier is a hash of the order, the names and the C++ types alone    *)
(* (HashProtocol, netpack/main.cpp).                                       *)
THEOREM AdmittedSpeakTheSame == SchemaSpec => []AdmittedAgree
  BY SchemaStart, SchemaStep, EqualFieldsAgree, PTL DEF SchemaSpec

-----------------------------------------------------------------------------
(* The transport of the server.                                             *)

(* A connection is announced before anything else, and until then the       *)
(* server knows nothing of it.                                              *)
Unannounced ==
    \A c \in Conn :
        link[c] \in {"unused", "connecting"} \/ "new" \in news[c]
        => /\ c \notin queue
           /\ served[c] = 0 /\ shakes[c] = 0
           /\ link[c] \notin {"connected", "closed"}
           /\ link[c] = "lost" => was[c] = "connecting"

(* The callback of the end is due exactly while the connection is lost.     *)
EndIsDue ==
    \A c \in Conn :
        /\ link[c] = "lost" => "gone" \in news[c] /\ was[c] # "none"
        /\ link[c] \notin {"lost", "closed"} => "gone" \notin news[c]
        /\ link[c] = "unused" => news[c] = {}

(* The handshakes that were sent are unread, or were read; of those that    *)
(* were read each has put its connection in the list at most once.          *)
Counted == \A c \in Conn : unread[c] + served[c] <= shakes[c]

(* A connection that came up and of which the server has not been told that *)
(* it ended.                                                                *)
Open(c) == \/ link[c] = "connected"
           \/ link[c] = "lost" /\ was[c] = "connected"

Unread == \A c \in Conn : unread[c] > 0 => Open(c)

(* As long as no erase has missed, a connection of which no handshake has   *)
(* been read is in the queue.                                               *)
Waiting == ~undefined => \A c \in Conn : Open(c) /\ unread[c] = shakes[c] => c \in queue

TransportInv == /\ TransportTypeOK
                /\ Unannounced
                /\ EndIsDue
                /\ Counted
                /\ Unread
                /\ Waiting
                /\ HandshakeFindsQueue
                /\ ServedIsAlive

LEMMA TransportStart == TransportInit => TransportInv
<1> SUFFICES ASSUME TransportInit PROVE TransportInv
  OBVIOUS
<1> USE TransportAssumption DEF TransportInit
<1>1. TransportTypeOK
  <2>1. 0 \in 0 .. MaxShakes
    OBVIOUS
  <2> QED
    BY <2>1 DEF TransportTypeOK, Count
<1>2. Unannounced /\ EndIsDue /\ Counted
  BY DEF Unannounced, EndIsDue, Counted
<1>3. Unread /\ Waiting /\ HandshakeFindsQueue /\ ServedIsAlive
  BY DEF Unread, Waiting, Open, HandshakeFindsQueue, ServedIsAlive
<1> QED
  BY <1>1, <1>2, <1>3 DEF TransportInv

-----------------------------------------------------------------------------
(* One lemma per action; those that touch a connection are alike.           *)

LEMMA ArriveKeeps == ASSUME TransportInv, NEW c \in Conn, Arrive(c)
                     PROVE  TransportInv'
<1> USE TransportAssumption DEF TransportInv, Arrive
<1>1. TransportTypeOK'
  BY DEF TransportTypeOK
<1>2. Unannounced' /\ EndIsDue' /\ Counted'
  BY DEF TransportTypeOK, Unannounced, EndIsDue, Counted
<1>3. Unread' /\ Waiting'
  BY DEF TransportTypeOK, Count, Unannounced, Unread, Waiting, Open
<1>4. HandshakeFindsQueue' /\ ServedIsAlive'
  BY DEF TransportTypeOK, HandshakeFindsQueue, ServedIsAlive, Unannounced
<1> QED
  BY <1>1, <1>2, <1>3, <1>4

LEMMA SendHandshakeKeeps == ASSUME TransportInv, NEW c \in Conn, SendHandshake(c)
                            PROVE  TransportInv'
<1> USE TransportAssumption DEF TransportInv, SendHandshake
<1>1. unread[c] \in Nat /\ served[c] \in Nat /\ shakes[c] \in Nat /\ unread[c] <= shakes[c]
  BY DEF TransportTypeOK, Count, Counted
<1>2. TransportTypeOK'
  BY <1>1 DEF TransportTypeOK, Count
<1>3. Unannounced' /\ EndIsDue'
  BY DEF TransportTypeOK, Count, Unannounced, EndIsDue
<1>4. Counted' /\ Unread'
  BY <1>1 DEF TransportTypeOK, Count, Counted, Unread, Open
<1>5. Waiting'
  BY <1>1 DEF TransportTypeOK, Count, Waiting, Open
<1>6. HandshakeFindsQueue'
  BY <1>1 DEF TransportTypeOK, Count, HandshakeFindsQueue
<1>7. ServedIsAlive'
  BY <1>1 DEF TransportTypeOK, Count, ServedIsAlive
<1> QED
  BY <1>2, <1>3, <1>4, <1>5, <1>6, <1>7

LEMMA LoseKeeps == ASSUME TransportInv, NEW c \in Conn, Lose(c)
                   PROVE  TransportInv'
<1> USE TransportAssumption DEF TransportInv, Lose
<1>1. TransportTypeOK'
  BY DEF TransportTypeOK
<1>2. Unannounced' /\ EndIsDue' /\ Counted'
  BY DEF TransportTypeOK, Unannounced, EndIsDue, Counted
<1>3. Unread' /\ Waiting'
  BY DEF TransportTypeOK, Count, Unread, Waiting, Open
<1>4. HandshakeFindsQueue'
  BY DEF HandshakeFindsQueue
<1>5. ServedIsAlive'
  BY DEF TransportTypeOK, Unannounced, ServedIsAlive
<1> QED
  BY <1>1, <1>2, <1>3, <1>4, <1>5

LEMMA OnConnectingKeeps == ASSUME TransportInv, NEW c \in Conn, OnConnecting(c)
                           PROVE  TransportInv'
<1> USE TransportAssumption DEF TransportInv, OnConnecting, CloseConnection
<1>1. served[c] = 0 /\ shakes[c] = 0 /\ (link[c] # "connecting" => link[c] = "lost")
  BY DEF TransportTypeOK, Unannounced, EndIsDue
<1>2. /\ served[c] = 0 /\ shakes[c] = 0 /\ unread[c] = 0
      /\ link[c] # "connecting" => link[c] = "lost"
  <2>1. unread[c] \in Nat /\ unread[c] + served[c] <= shakes[c]
    BY DEF TransportTypeOK, Count, Counted
  <2> QED
    BY <1>1, <2>1
<1>3. unread' = unread
  BY <1>2 DEF TransportTypeOK, Count
<1>4. TransportTypeOK'
  BY <1>3 DEF TransportTypeOK
<1>5. Unannounced' /\ EndIsDue' /\ Counted'
  BY <1>2, <1>3 DEF TransportTypeOK, Unannounced, EndIsDue, Counted
<1>6. Unread' /\ Waiting'
  BY <1>2, <1>3 DEF TransportTypeOK, Unread, Waiting, Open
<1>7. HandshakeFindsQueue' /\ ServedIsAlive'
  BY <1>2 DEF TransportTypeOK, HandshakeFindsQueue, ServedIsAlive
<1> QED
  BY <1>4, <1>5, <1>6, <1>7

(* What leaves the list leaves the others alone.                            *)
LEMMA RemovedOnce ==
    ASSUME TransportTypeOK, Counted, NEW c \in Conn
    PROVE  /\ Removed(c) \in Count
           /\ \A d \in Conn : Removed(c)[d] <= served[d]
           /\ \A d \in Conn \ {c} : Removed(c)[d] = served[d]
           /\ shakes[c] <= 1 => Removed(c)[c] = 0
<1>1. /\ \A d \in Conn : served[d] \in 0 .. MaxShakes
      /\ served[c] \in Nat /\ unread[c] \in Nat /\ shakes[c] \in Nat
      /\ unread[c] + served[c] <= shakes[c]
  BY TransportAssumption DEF TransportTypeOK, Count, Counted
<1> DEFINE less == IF served[c] = 0 THEN 0 ELSE served[c] - 1
<1>2. less \in 0 .. MaxShakes /\ less <= served[c] /\ (shakes[c] <= 1 => less = 0)
  BY <1>1, TransportAssumption
<1>3. Removed(c) = [served EXCEPT ![c] = less] /\ served \in [Conn -> 0 .. MaxShakes]
  BY DEF Removed, TransportTypeOK, Count
<1> HIDE DEF less
<1>4. Removed(c) \in [Conn -> 0 .. MaxShakes]
  BY <1>2, <1>3
<1> QED
  BY <1>1, <1>2, <1>3, <1>4 DEF Count

LEMMA OnGoneKeeps == ASSUME TransportInv, NEW c \in Conn, OnGone(c)
                     PROVE  TransportInv'
<1> USE TransportAssumption DEF TransportInv, OnGone, CloseConnection, WasConnected
<1>1. /\ served' \in Count
      /\ \A d \in Conn : served'[d] <= served[d]
      /\ \A d \in Conn \ {c} : served'[d] = served[d]
      /\ was[c] = "connected" /\ shakes[c] <= 1 => served'[c] = 0
  BY RemovedOnce DEF TransportTypeOK, Count
<1>2. TransportTypeOK'
  BY <1>1 DEF TransportTypeOK, Count
<1>3. link[c] \in {"lost", "closed"}
  BY DEF EndIsDue, TransportTypeOK
<1>4. Unannounced' /\ EndIsDue'
  BY <1>1, <1>3 DEF TransportTypeOK, Unannounced, EndIsDue
<1>5. Counted'
  BY <1>1, <1>2 DEF TransportTypeOK, Count, Counted
<1>6. Unread' /\ Waiting'
  BY DEF TransportTypeOK, Count, Unread, Waiting, Open
<1>7. HandshakeFindsQueue'
  BY DEF HandshakeFindsQueue
<1>8. ServedIsAlive'
  <2>1. shakes[c] = 1 => served'[c] = 0
    BY <1>1, <1>3 DEF TransportTypeOK, Count, ServedIsAlive
  <2> QED
    BY <1>1, <2>1 DEF TransportTypeOK, Count, ServedIsAlive
<1> QED
  BY <1>2, <1>4, <1>5, <1>6, <1>7, <1>8

(* Reading a handshake: the erase misses only after a second one.           *)
LEMMA DequeueKeeps ==
    ASSUME TransportInv, NEW c \in Conn, Dequeue(c), shakes' = shakes
    PROVE  /\ HandshakeFindsQueue'
           /\ queue' \subseteq queue
           /\ undefined' \in BOOLEAN
           /\ ~undefined' => ~undefined /\ queue' = queue \ {c}
<1> USE DEF TransportInv, Dequeue
<1>1. unread[c] \in Nat \ {0} /\ shakes[c] \in Nat /\ served[c] \in Nat
      /\ unread[c] + served[c] <= shakes[c]
  BY TransportAssumption DEF TransportTypeOK, Count, Counted
<1>2. ~undefined /\ c \notin queue => unread[c] # shakes[c]
  BY DEF Unread, Waiting
<1>3. ~undefined /\ c \notin queue => shakes[c] > 1
  BY <1>1, <1>2
<1>4. HandshakeFindsQueue'
  BY <1>3 DEF HandshakeFindsQueue
<1>5. queue' \subseteq queue /\ undefined' \in BOOLEAN
  BY DEF TransportTypeOK
<1> QED
  BY <1>4, <1>5 DEF TransportTypeOK

LEMMA HandleHandshakeKeeps ==
    ASSUME TransportInv, NEW c \in Conn, HandleHandshake(c)
    PROVE  TransportInv'
<1> USE TransportAssumption DEF TransportInv, HandleHandshake
<1>1. /\ unread[c] \in 1 .. MaxShakes /\ served[c] \in Nat /\ shakes[c] \in 0 .. MaxShakes
      /\ unread[c] + served[c] <= shakes[c] /\ Open(c)
  BY DEF TransportTypeOK, Count, Counted, Unread, Dequeue
<1>2. /\ HandshakeFindsQueue' /\ queue' \subseteq queue /\ undefined' \in BOOLEAN
      /\ ~undefined' => ~undefined /\ queue' = queue \ {c}
  BY DequeueKeeps
<1>3. TransportTypeOK'
  BY <1>1, <1>2 DEF TransportTypeOK, Count
<1>4. Unannounced' /\ EndIsDue'
  BY <1>1, <1>2 DEF TransportTypeOK, Count, Unannounced, EndIsDue, Open
<1>5. Counted' /\ Unread'
  BY <1>1 DEF TransportTypeOK, Count, Counted, Unread, Open
<1>6. Waiting'
  BY <1>1, <1>2 DEF TransportTypeOK, Count, Waiting, Open
<1>7. ServedIsAlive'
  BY <1>1 DEF TransportTypeOK, Count, ServedIsAlive, Open, EndIsDue
<1> QED
  BY <1>2, <1>3, <1>4, <1>5, <1>6, <1>7

LEMMA RefuseHandshakeKeeps ==
    ASSUME TransportInv, NEW c \in Conn, RefuseHandshake(c)
    PROVE  TransportInv'
<1> USE TransportAssumption DEF TransportInv, RefuseHandshake, CloseConnection
<1>1. /\ HandshakeFindsQueue' /\ queue' \subseteq queue /\ undefined' \in BOOLEAN
      /\ ~undefined' => ~undefined /\ queue' = queue \ {c}
  BY DequeueKeeps
<1>2. /\ served' \in Count
      /\ \A d \in Conn : served'[d] <= served[d]
      /\ \A d \in Conn \ {c} : served'[d] = served[d]
      /\ shakes[c] <= 1 => served'[c] = 0
  BY RemovedOnce
<1>3. Open(c) /\ "new" \notin news[c]
  BY DEF TransportTypeOK, Unread, Unannounced, Dequeue, Open
<1>4. TransportTypeOK'
  <2>1. unread' \in Count
    <3>1. 0 \in 0 .. MaxShakes
      OBVIOUS
    <3> QED
      BY <3>1 DEF TransportTypeOK, Count
  <2> QED
    BY <1>1, <1>2, <2>1 DEF TransportTypeOK
<1>5. Unannounced' /\ EndIsDue'
  BY <1>1, <1>2, <1>3 DEF TransportTypeOK, Unannounced, EndIsDue
<1>6. Counted'
  BY <1>2, <1>4 DEF TransportTypeOK, Count, Counted
<1>7. Unread' /\ Waiting'
  BY <1>1 DEF TransportTypeOK, Count, Unread, Waiting, Open
<1>8. ServedIsAlive'
  BY <1>2 DEF TransportTypeOK, Count, ServedIsAlive
<1> QED
  BY <1>1, <1>4, <1>5, <1>6, <1>7, <1>8

LEMMA EraseStopsKeeps ==
    ASSUME TransportInv, NEW c \in Conn, EraseStops(c)
    PROVE  TransportInv'
<1> USE DEF TransportInv, EraseStops
<1>1. /\ HandshakeFindsQueue' /\ queue' \subseteq queue /\ undefined' = TRUE
  BY DequeueKeeps DEF Dequeue
<1>2. TransportTypeOK' /\ Unannounced' /\ EndIsDue'
  BY <1>1 DEF TransportTypeOK, Unannounced, EndIsDue
<1>3. Counted' /\ Unread' /\ Waiting' /\ ServedIsAlive'
  BY <1>1 DEF Counted, Unread, Waiting, Open, ServedIsAlive
<1> QED
  BY <1>1, <1>2, <1>3

LEMMA TransportStep == ASSUME TransportInv, [TransportNext]_transportVars PROVE TransportInv'
<1>1. ASSUME NEW c \in Conn, Arrive(c) \/ SendHandshake(c) \/ Lose(c) PROVE TransportInv'
  BY <1>1, ArriveKeeps, SendHandshakeKeeps, LoseKeeps
<1>2. ASSUME NEW c \in Conn, StatusChanged(c) PROVE TransportInv'
  BY <1>2, OnConnectingKeeps, OnGoneKeeps DEF StatusChanged
<1>3. ASSUME NEW c \in Conn, Handle(c) PROVE TransportInv'
  BY <1>3, HandleHandshakeKeeps, RefuseHandshakeKeeps, EraseStopsKeeps DEF Handle
<1>4. ASSUME EndCallbacks \/ EndUpdate \/ UNCHANGED transportVars PROVE TransportInv'
  <2>1. /\ phase' \in {"callbacks", "reading", "stopped"}
        /\ UNCHANGED <<link, news, was, shakes, unread, queue, served, undefined>>
    BY <1>4 DEF EndCallbacks, EndUpdate, transportVars, TransportInv, TransportTypeOK
  <2> QED
    BY <2>1 DEF TransportInv, TransportTypeOK, Unannounced, EndIsDue, Counted, Unread, Waiting,
       Open, HandshakeFindsQueue, ServedIsAlive
<1> QED
  BY <1>1, <1>2, <1>3, <1>4 DEF TransportNext, ServerUpdate

LEMMA TransportAlways == TransportSpec => []TransportInv
  BY TransportStart, TransportStep, PTL DEF TransportSpec

-----------------------------------------------------------------------------
(* Every reachable state has the declared types.                            *)
THEOREM TransportTypeCorrect == TransportSpec => []TransportTypeOK
<1>1. TransportInv => TransportTypeOK
  BY DEF TransportInv
<1> QED
  BY <1>1, TransportAlways, PTL

(* The erase in HandleHandshake misses only after a second handshake on     *)
(* some connection: losses, refusals and the order of the callbacks alone   *)
(* never bring it about, for any connections, builds and bounds.            *)
THEOREM HandshakesAreQueued == TransportSpec => []HandshakeFindsQueue
<1>1. TransportInv => HandshakeFindsQueue
  BY DEF TransportInv
<1> QED
  BY <1>1, TransportAlways, PTL

(* The server serves no connection that has ended, but for one whose end it *)
(* is about to be told of and for one that two handshakes have listed.      *)
THEOREM ServedAreAlive == TransportSpec => []ServedIsAlive
<1>1. TransportInv => ServedIsAlive
  BY DEF TransportInv
<1> QED
  BY <1>1, TransportAlways, PTL
=============================================================================
