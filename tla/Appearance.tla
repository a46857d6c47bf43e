----------------------------- MODULE Appearance -----------------------------
(***************************************************************************)
(* What a player wears, from its own game to the puppet on another screen: *)
(* the deferred connection waits for the equipment to be restored          *)
(* (NetworkAutoConnect.reds), the request to spawn waits for the character *)
(* creator (NetworkService.cpp), the level passes on what it was given     *)
(* once, and the other client dresses the body when the game has made it   *)
(* (AppearanceSystem.cpp).  Garments are members of a set; the decimal     *)
(* numbers that stand for them on the wire give back the same garments.    *)
(***************************************************************************)
EXTENDS Integers, Sequences, FiniteSets

CONSTANTS
    Wearer,      \* players that others see
    Garment,     \* what an equipment area or an attachment slot holds
    Modded,      \* garments that the other game has no record or slot of
    MaxPolls,    \* attemptsLeft at first; 20 in the code
    MaxLooks     \* bound on the bodies asked for

ASSUME AppearanceAssumption == /\ Modded \subseteq Garment
                               /\ MaxPolls \in Nat
                               /\ MaxLooks \in Nat

VARIABLES
    outfit,   \* what the save of each wearer has it wear
    loadout,  \* what of it EquipmentSystem has restored
    glimpsed, \* a poll has found it restored in part
    creator,  \* the character creator has a state
    poll,     \* the NcmpDeferredConnect to come: [left, streak], or none
    forced,   \* it connected because no attempt was left
    link,     \* "off", "waiting" (m_pendingSpawn) or "spawned"
    wire,     \* notifications for the other screen, in their order
    bodyOf,   \* the body of each wearer there: its number, 0 if none
    made,     \* how many were asked for
    there,    \* bodies that the game has attached
    looks,    \* m_playerEquipment and m_playerCcstate, by body
    worn,     \* what each body wears
    meant     \* for each body: whose it is and what its player wore

wearing == <<outfit, loadout, glimpsed, creator, poll, forced, link>>
screenLooks == <<bodyOf, made, there, looks, worn, meant>>
looksVars == <<wearing, wire, screenLooks>>

NoPoll == [left |-> -1, streak |-> 0]
Look == [items : SUBSET Garment, ccstate : BOOLEAN]
Bodies == 1 .. MaxLooks

AppearanceTypeOK ==
    /\ outfit \in [Wearer -> SUBSET Garment]
    /\ loadout \in [Wearer -> SUBSET Garment]
    /\ glimpsed \in [Wearer -> BOOLEAN]
    /\ creator \in [Wearer -> BOOLEAN]
    /\ poll \in [Wearer -> [left : -1 .. MaxPolls, streak : 0 .. 1]]
    /\ forced \in [Wearer -> BOOLEAN]
    /\ link \in [Wearer -> {"off", "waiting", "spawned"}]
    /\ bodyOf \in [Wearer -> 0 .. MaxLooks]
    /\ made \in 0 .. MaxLooks
    /\ there \in SUBSET Bodies
    /\ looks \in [Bodies -> Look]
    /\ worn \in [Bodies -> SUBSET Garment]

Bare == [items |-> {}, ccstate |-> FALSE]

AppearanceInit ==
    /\ outfit \in [Wearer -> SUBSET Garment]
    /\ loadout = [p \in Wearer |-> {}]
    /\ glimpsed = [p \in Wearer |-> FALSE]
    /\ creator = [p \in Wearer |-> FALSE]
    /\ poll = [p \in Wearer |-> [left |-> MaxPolls, streak |-> 0]]
    /\ forced = [p \in Wearer |-> FALSE]
    /\ link = [p \in Wearer |-> "off"]
    /\ wire = <<>>
    /\ bodyOf = [p \in Wearer |-> 0]
    /\ made = 0
    /\ there = {}
    /\ looks = [b \in Bodies |-> Bare]
    /\ worn = [b \in Bodies |-> {}]
    /\ meant = [b \in Bodies |-> [items |-> {}, whole |-> FALSE]]

-----------------------------------------------------------------------------
(* The game of a wearer.                                                   *)

(* Areas are restored one by one, quickly: a poll may find some of them,   *)
(* and by the next one all are there.                                      *)
RestoreArea(p) ==
    /\ \E g \in outfit[p] \ loadout[p] : loadout' = [loadout EXCEPT ![p] = @ \cup {g}]
    /\ UNCHANGED <<outfit, glimpsed, creator, poll, forced, link, wire, screenLooks>>

RestoreCreator(p) ==
    /\ ~creator[p]
    /\ creator' = [creator EXCEPT ![p] = TRUE]
    /\ UNCHANGED <<outfit, loadout, glimpsed, poll, forced, link, wire, screenLooks>>

IsEquipmentReady(p) == loadout[p] # {}

(* A slip: one good look is enough.                                        *)
ConvincedAtOnce(p) == IsEquipmentReady(p) \/ poll[p].left = 0

Convinced(p) == \/ IsEquipmentReady(p) /\ poll[p].streak = 1
                \/ poll[p].left = 0

(* NcmpDeferredConnect.Call, and the authentication that follows.          *)
PollEquipment(p) ==
    /\ poll[p] # NoPoll
    /\ glimpsed[p] => loadout[p] = outfit[p]
    /\ IF Convinced(p)
       THEN /\ poll' = [poll EXCEPT ![p] = NoPoll]
            /\ link' = [link EXCEPT ![p] = "waiting"]
            /\ forced' = [forced EXCEPT ![p] = (poll[p].left = 0)]
            /\ UNCHANGED glimpsed
       ELSE /\ poll' = [poll EXCEPT ![p] = [left |-> @.left - 1,
                                            streak |-> IF IsEquipmentReady(p) THEN 1 ELSE 0]]
            /\ glimpsed' = [glimpsed EXCEPT ![p] = IsEquipmentReady(p)]
            /\ UNCHANGED <<link, forced>>
    /\ UNCHANGED <<outfit, loadout, creator, wire, screenLooks>>

(* The active items of the areas, then what the slots show, without        *)
(* doubles: the slots fill on their own.                                   *)
GetPlayerItems(p, slots) == loadout[p] \cup slots

Asked == made + Cardinality({i \in DOMAIN wire : wire[i].load})

(* Update: once the creator is there, or the deadline has passed.  The     *)
(* level keeps it as the AppearanceComponent and notifies the others.      *)
TrySendSpawnCharacter(p) ==
    /\ link[p] = "waiting"
    /\ Asked < MaxLooks
    /\ \E timedOut \in BOOLEAN, slots \in SUBSET outfit[p] :
         /\ creator[p] \/ timedOut
         /\ wire' = Append(wire, [load |-> TRUE, who |-> p,
                                  look |-> [items |-> GetPlayerItems(p, slots),
                                            ccstate |-> creator[p]],
                                  meant |-> [items |-> outfit[p], whole |-> ~forced[p]]])
    /\ link' = [link EXCEPT ![p] = "spawned"]
    /\ UNCHANGED <<outfit, loadout, glimpsed, creator, poll, forced, screenLooks>>

(* The player leaves, and loads another save to join again.                *)
LoadSave(p) ==
    /\ Asked < MaxLooks
    /\ wire' = IF link[p] = "spawned"
               THEN Append(wire, [load |-> FALSE, who |-> p, look |-> Bare,
                                  meant |-> [items |-> {}, whole |-> FALSE]])
               ELSE wire
    /\ outfit' \in {[outfit EXCEPT ![p] = new] : new \in SUBSET Garment}
    /\ loadout' = [loadout EXCEPT ![p] = {}]
    /\ glimpsed' = [glimpsed EXCEPT ![p] = FALSE]
    /\ creator' = [creator EXCEPT ![p] = FALSE]
    /\ poll' = [poll EXCEPT ![p] = [left |-> MaxPolls, streak |-> 0]]
    /\ forced' = [forced EXCEPT ![p] = FALSE]
    /\ link' = [link EXCEPT ![p] = "off"]
    /\ UNCHANGED screenLooks

-----------------------------------------------------------------------------
(* The other screen.                                                       *)

AddEntity(body, look) == looks' = [looks EXCEPT ![body] = look]

(* Spawn asks for the body before the appearance is filed under its id.    *)
HandleCharacterLoad ==
    /\ wire # <<>> /\ Head(wire).load
    /\ made < MaxLooks
    /\ made' = made + 1
    /\ bodyOf' = [bodyOf EXCEPT ![Head(wire).who] = made + 1]
    /\ AddEntity(made + 1, Head(wire).look)
    /\ meant' = [meant EXCEPT ![made + 1] = Head(wire).meant]
    /\ wire' = Tail(wire)
    /\ UNCHANGED <<wearing, there, worn>>

(* The body goes; what is filed under its id stays.                        *)
HandleEntityUnload ==
    /\ wire # <<>> /\ ~Head(wire).load
    /\ there' = there \ {bodyOf[Head(wire).who]}
    /\ bodyOf' = [bodyOf EXCEPT ![Head(wire).who] = 0]
    /\ wire' = Tail(wire)
    /\ UNCHANGED <<wearing, made, looks, worn, meant>>

(* Garments without a record, or without a slot, are passed over; and the  *)
(* game may refuse some that it is given.                                  *)
AddItems(body, refused) ==
    worn' = [worn EXCEPT ![body] = looks[body].items \ (Modded \cup refused)]

(* One without a state is not dressed at all.                              *)
ApplyAppearance(body, refused) ==
    IF looks[body].ccstate THEN AddItems(body, refused) ELSE UNCHANGED worn

(* OnEntityAttached, for the tag of the puppets: all that are dressed have *)
(* been asked for by Spawn.                                                *)
AttachBody(body) ==
    /\ \E p \in Wearer : bodyOf[p] = body
    /\ body \notin there
    /\ there' = there \cup {body}
    /\ \E refused \in SUBSET Garment : ApplyAppearance(body, refused)
    /\ UNCHANGED <<wearing, wire, bodyOf, made, looks, meant>>

AppearanceNext ==
    \/ \E p \in Wearer : \/ RestoreArea(p) \/ RestoreCreator(p)
                         \/ PollEquipment(p) \/ TrySendSpawnCharacter(p)
                         \/ LoadSave(p)
    \/ HandleCharacterLoad \/ HandleEntityUnload
    \/ \E body \in Bodies : AttachBody(body)

AppearanceSpec == AppearanceInit /\ [][AppearanceNext]_looksVars

-----------------------------------------------------------------------------
(* What is filed for a body is its player's outfit, in full unless the     *)
(* connection was forced; the body wears none but its player's garments,   *)
(* and nothing at all if the character creator came too late.  (The two    *)
(* looks of NcmpDeferredConnect, AddEntity before Entity/Attached.)        *)
DressedAsThemselves ==
    \A body \in 1 .. made :
        /\ worn[body] \subseteq meant[body].items
        /\ meant[body].whole => looks[body].items = meant[body].items
        /\ ~looks[body].ccstate => worn[body] = {}
=============================================================================
