---------------------------- MODULE ClientProofs ----------------------------
(***************************************************************************)
(* What the client does beside its session and the shared world, for any   *)
(* values of its constants, one part after the other: the chat, the        *)
(* puppets, the mounts, the saves, the screen, the looks and the motion,   *)
(* and the bits of messages and calls, for bytes and lengths of any width. *)
(***************************************************************************)
EXTENDS Screen, Chat, Puppets, Saves, Motion, Mounts, Appearance, Codec, FiniteSetTheorems,
        SequenceTheorems, Inductions

-----------------------------------------------------------------------------
(* The chat.  What the player looks for in it is on the screen, whatever    *)
(* was woken, hidden, opened and closed before, and however often.         *)

(* An out of date timer never fades a panel that is typed in, and a lost    *)
(* connection closes the input.                                            *)
LEMMA TypingStep == TypingIsVisible /\ [ChatNext]_chatVars => TypingIsVisible'
<1> SUFFICES ASSUME TypingIsVisible, [ChatNext]_chatVars
             PROVE  TypingIsVisible'
  OBVIOUS
<1> USE DEF TypingIsVisible
<1>1. CASE OnInitialize
  BY <1>1 DEF OnInitialize
<1>2. CASE OnUninitialize
  BY <1>2 DEF OnUninitialize
<1>3. ASSUME NEW value \in BOOLEAN, SetConnected(value)
      PROVE  TypingIsVisible'
  <2>1. CASE panel /\ value
    BY <1>3, <2>1 DEF SetConnected, OnConnectionStateChanged, WakeChat
  <2>2. CASE panel /\ ~value
    BY <1>3, <2>2 DEF SetConnected, OnConnectionStateChanged, ShowChatInput, WakeChat
  <2>3. CASE ~panel
    BY <1>3, <2>3 DEF SetConnected
  <2> QED
    BY <2>1, <2>2, <2>3
<1>4. CASE OnChatMessageUIEvent
  BY <1>4 DEF OnChatMessageUIEvent, WakeChat
<1>5. CASE OnAction
  BY <1>5 DEF OnAction, ShowChatInput, WakeChat
<1>6. ASSUME NEW g \in fadeTimers, OnFadeTimeout(g)
      PROVE  TypingIsVisible'
  BY <1>6 DEF OnFadeTimeout
<1>7. ASSUME NEW g \in GamePopup, Toggle(g)
      PROVE  TypingIsVisible'
  BY <1>7 DEF Toggle
<1>8. CASE InitializeHotkey \/ UninitializeHotkey
  BY <1>8 DEF InitializeHotkey, UninitializeHotkey
<1>9. CASE UNCHANGED chatVars
  BY <1>9 DEF chatVars
<1> QED
  BY <1>1, <1>2, <1>3, <1>4, <1>5, <1>6, <1>7, <1>8, <1>9 DEF ChatNext

(* The popup that is the last to go brings the icon back, and so does the   *)
(* end of typing, whatever panel it was in.                                *)
LEMMA ChatIconStep == IconReturns /\ [ChatNext]_chatVars => IconReturns'
<1> SUFFICES ASSUME IconReturns, [ChatNext]_chatVars
             PROVE  IconReturns'
  OBVIOUS
<1> USE DEF IconReturns, hotkeyVars
<1>1. CASE OnInitialize \/ OnUninitialize \/ OnChatMessageUIEvent
  BY <1>1 DEF OnInitialize, OnUninitialize, OnChatMessageUIEvent
<1>2. ASSUME NEW value \in BOOLEAN, SetConnected(value)
      PROVE  IconReturns'
  BY <1>2 DEF SetConnected, OnConnectionStateChanged, ShowChatInput, IconFor
<1>3. CASE OnAction
  BY <1>3 DEF OnAction, ShowChatInput, IconFor
<1>4. ASSUME NEW g \in fadeTimers, OnFadeTimeout(g)
      PROVE  IconReturns'
  BY <1>4 DEF OnFadeTimeout
<1>5. ASSUME NEW g \in GamePopup, Toggle(g)
      PROVE  IconReturns'
  BY <1>5 DEF Toggle
<1>6. CASE InitializeHotkey \/ UninitializeHotkey
  BY <1>6 DEF InitializeHotkey, UninitializeHotkey
<1>7. CASE UNCHANGED chatVars
  BY <1>7 DEF chatVars
<1> QED
  BY <1>1, <1>2, <1>3, <1>4, <1>5, <1>6, <1>7 DEF ChatNext

(* Whoever types sees the panel, and the icon comes back when nothing is    *)
(* displayed in its place, however often the panel is woken.               *)
THEOREM ChatStaysVisible == ChatSpec => []ChatIsVisible
<1>1. ChatInit => ChatIsVisible
  BY DEF ChatInit, ChatIsVisible, TypingIsVisible, IconReturns
<1>2. ChatIsVisible /\ [ChatNext]_chatVars => ChatIsVisible'
  BY TypingStep, ChatIconStep DEF ChatIsVisible
<1> QED
  BY <1>1, <1>2, PTL DEF ChatSpec

-----------------------------------------------------------------------------
(* The puppets.  Every puppet on the screen is moved by the controller of   *)
(* its body, and every animation entity that met no other one will be      *)
(* removed: for any puppets, queued hooks and emotes.                      *)

(* A body that nobody asked for has no puppet, and one that is not there no *)
(* controller; a puppet that outlived its world keeps one that is stale,   *)
(* and is never given another body.                                        *)
BodiesMatch ==
    \A p \in Puppet :
        /\ stage[p] = "none" => body[p] = "none" /\ controller[p] = 0
        /\ body[p] # "there" => attached[p] = 0
        /\ body[p] = "new" => controller[p] = 0
        /\ body[p] = "there" => controller[p] = attached[p]

(* The entity of an emote that is alone is for the puppet that was selected,*)
(* and that puppet plays nothing else by then.                             *)
AloneIsNext ==
    creating > 0 /\ ~crossed =>
        creating = 1 /\ (selected # Nobody => anim[selected] = 0)

PuppetsInv == PuppetsTypeOK /\ BodiesMatch /\ AloneIsNext /\ EmotesEnd

-----------------------------------------------------------------------------
(* Types; bodies and emotes apart, since each step changes one or both.     *)
LEMMA FreshController ==
    ASSUME NEW a \in Controller, NEW b \in Controller
    PROVE  (CHOOSE c \in Controller : c \notin {0, a, b}) \in Controller
<1>1. \E c \in Controller : c \notin {0, a, b}
  BY DEF Controller
<1> QED
  BY <1>1

LEMMA PlayedEmotes ==
    ASSUME PuppetsTypeOK, NEW p \in Puppet
    PROVE  {anim[p]} \ {0} \subseteq Emote
<1>1. anim[p] \in 0 .. MaxEmotes
  BY DEF PuppetsTypeOK
<1> QED
  BY <1>1, PuppetsAssumption DEF Emote

LEMMA PuppetsTypes == PuppetsTypeOK /\ [PuppetsNext]_puppetVars => PuppetsTypeOK'
<1> SUFFICES ASSUME PuppetsTypeOK, [PuppetsNext]_puppetVars
             PROVE  PuppetsTypeOK'
  OBVIOUS
<1> USE PuppetsAssumption DEF PuppetsTypeOK, puppetBodies, puppetEmotes
<1>1. ASSUME NEW p \in Puppet, SpawnPuppet(p)
      PROVE  PuppetsTypeOK'
  BY <1>1 DEF SpawnPuppet
<1>2. ASSUME NEW p \in Puppet, NEW ccstate \in BOOLEAN, OnEntityAttached(p, ccstate)
      PROVE  PuppetsTypeOK'
  BY <1>2 DEF OnEntityAttached
<1>3. ASSUME NEW p \in Puppet, SetAnimation(p)
      PROVE  PuppetsTypeOK'
  BY <1>3 DEF SetAnimation
<1>4. ASSUME NEW p \in Puppet, AttachController(p)
      PROVE  PuppetsTypeOK'
  <2> DEFINE new == CHOOSE c \in Controller : c \notin {0, attached[p], controller[p]}
  <2>1. new \in Controller
    BY FreshController
  <2> HIDE DEF new
  <2>2. /\ attached' \in [Puppet -> Controller]
        /\ controller' \in [Puppet -> Controller]
        /\ hooked' \in [Puppet -> Nat]
    BY <1>4, <2>1 DEF AttachController, new
  <2> QED
    BY <1>4, <2>2 DEF AttachController
<1>5. ASSUME NEW p \in Puppet, Promote(p)
      PROVE  PuppetsTypeOK'
  BY <1>5 DEF Promote
<1>6. ASSUME NEW p \in Puppet, DeSpawn(p)
      PROVE  PuppetsTypeOK'
  <2>1. attached' \in [Puppet -> Controller] /\ controller' \in [Puppet -> Controller]
    BY <1>6 DEF DeSpawn, Controller
  <2>2. anim' \in [Puppet -> 0 .. MaxEmotes] /\ last' \in [Puppet -> 0 .. MaxEmotes]
    BY <1>6 DEF DeSpawn
  <2>3. adrift' \in SUBSET Emote /\ timers' \in SUBSET (Puppet \X Emote)
    BY <1>6, PlayedEmotes DEF DeSpawn
  <2>4. /\ stage' \in [Puppet -> {"none", "spawning", "entity"}]
        /\ body' \in [Puppet -> {"none", "new", "there"}]
        /\ clothed' \in SUBSET Puppet
    BY <1>6 DEF DeSpawn
  <2>5. UNCHANGED <<hooked, selected, creating, crossed, alive>>
    BY <1>6 DEF DeSpawn
  <2> QED
    BY <2>1, <2>2, <2>3, <2>4, <2>5
<1>7. CASE OnWorldDetach
  <2>1. /\ body' \in [Puppet -> {"none", "new", "there"}]
        /\ attached' \in [Puppet -> Controller]
        /\ clothed' \in SUBSET Puppet
    BY <1>7 DEF OnWorldDetach, Controller
  <2>2. /\ creating' \in 0 .. MaxEmotes
        /\ anim' \in [Puppet -> 0 .. MaxEmotes]
        /\ last' \in [Puppet -> 0 .. MaxEmotes]
        /\ timers' = {} /\ alive' = {} /\ adrift' = {}
    BY <1>7 DEF OnWorldDetach
  <2>3. crossed' = FALSE /\ UNCHANGED <<stage, hooked, controller, selected>>
    BY <1>7 DEF OnWorldDetach
  <2> QED
    BY <2>1, <2>2, <2>3
<1>8. ASSUME NEW p \in Puppet, HandleEmote(p)
      PROVE  PuppetsTypeOK'
  <2>1. creating' \in 0 .. MaxEmotes /\ anim' \in [Puppet -> 0 .. MaxEmotes]
    BY <1>8 DEF HandleEmote
  <2>2. /\ selected' \in Puppet \cup {Nobody}
        /\ crossed' \in BOOLEAN
        /\ timers' \in SUBSET (Puppet \X Emote)
        /\ alive' \in SUBSET Emote /\ adrift' \in SUBSET Emote
    BY <1>8 DEF HandleEmote
  <2> QED
    BY <1>8, <2>1, <2>2 DEF HandleEmote
<1>9. CASE OnAnimationEntityAttached
  <2>1. creating' \in 0 .. MaxEmotes /\ crossed' \in BOOLEAN
    BY <1>9 DEF OnAnimationEntityAttached
  <2>2. PICK e \in Emote :
            /\ alive' = alive \cup {e}
            /\ IF selected # Nobody /\ body[selected] = "there"
               THEN /\ anim' = [anim EXCEPT ![selected] = e]
                    /\ last' = [last EXCEPT ![selected] = e]
                    /\ timers' = timers \cup {<<selected, e>>}
                    /\ adrift' = adrift \cup (IF crossed THEN {e, anim[selected]} \ {0} ELSE {})
               ELSE adrift' = adrift \cup {e} /\ UNCHANGED <<anim, last, timers>>
    BY <1>9 DEF OnAnimationEntityAttached
  <2>3. anim' \in [Puppet -> 0 .. MaxEmotes] /\ last' \in [Puppet -> 0 .. MaxEmotes]
    BY <2>2 DEF Emote
  <2>4. /\ timers' \in SUBSET (Puppet \X Emote)
        /\ alive' \in SUBSET Emote
        /\ adrift' \in SUBSET Emote
    <3>1. selected # Nobody => {anim[selected]} \ {0} \subseteq Emote
      BY PlayedEmotes
    <3> QED
      BY <2>2, <3>1
  <2>5. UNCHANGED <<puppetBodies, selected>>
    BY <1>9 DEF OnAnimationEntityAttached
  <2> QED
    BY <2>1, <2>3, <2>4, <2>5
<1>10. ASSUME NEW p \in Puppet, NEW e \in Emote, AnimationHackCallback(p, e)
       PROVE  PuppetsTypeOK'
  BY <1>10 DEF AnimationHackCallback
<1>11. CASE UNCHANGED puppetVars
  BY <1>11 DEF puppetVars
<1> QED
  BY <1>1, <1>2, <1>3, <1>4, <1>5, <1>6, <1>7, <1>8, <1>9, <1>10, <1>11 DEF PuppetsNext

-----------------------------------------------------------------------------
(* Hook, promotion and unload in any order.                                 *)
LEMMA BodiesStayMatched == PuppetsInv /\ [PuppetsNext]_puppetVars => BodiesMatch'
<1> SUFFICES ASSUME PuppetsTypeOK, BodiesMatch, [PuppetsNext]_puppetVars
             PROVE  BodiesMatch'
  BY DEF PuppetsInv
<1> USE DEF PuppetsTypeOK, BodiesMatch, puppetBodies, puppetEmotes
<1>1. ASSUME NEW p \in Puppet, SpawnPuppet(p)
      PROVE  BodiesMatch'
  BY <1>1 DEF SpawnPuppet
<1>2. ASSUME NEW p \in Puppet, NEW ccstate \in BOOLEAN, OnEntityAttached(p, ccstate)
      PROVE  BodiesMatch'
  BY <1>2 DEF OnEntityAttached
<1>3. ASSUME NEW p \in Puppet, SetAnimation(p)
      PROVE  BodiesMatch'
  BY <1>3 DEF SetAnimation
<1>4. ASSUME NEW p \in Puppet, AttachController(p)
      PROVE  BodiesMatch'
  <2> DEFINE new == CHOOSE c \in Controller : c \notin {0, attached[p], controller[p]}
  <2>1. UNCHANGED <<stage, body>>
    BY <1>4 DEF AttachController
  <2> HIDE DEF new
  <2>2. CASE body[p] = "there"
    <3>1. attached' = [attached EXCEPT ![p] = new] /\ controller' = [controller EXCEPT ![p] = new]
      BY <1>4, <2>2 DEF AttachController, new
    <3> QED
      BY <2>1, <2>2, <3>1
  <2>3. CASE body[p] # "there"
    BY <1>4, <2>1, <2>3 DEF AttachController
  <2> QED
    BY <2>2, <2>3
<1>5. ASSUME NEW p \in Puppet, Promote(p)
      PROVE  BodiesMatch'
  BY <1>5 DEF Promote
<1>6. ASSUME NEW p \in Puppet, DeSpawn(p)
      PROVE  BodiesMatch'
  BY <1>6 DEF DeSpawn
<1>7. CASE OnWorldDetach
  BY <1>7 DEF OnWorldDetach
<1>8. ASSUME NEW p \in Puppet, HandleEmote(p)
      PROVE  BodiesMatch'
  BY <1>8 DEF HandleEmote
<1>9. CASE OnAnimationEntityAttached
  BY <1>9 DEF OnAnimationEntityAttached
<1>10. ASSUME NEW p \in Puppet, NEW e \in Emote, AnimationHackCallback(p, e)
       PROVE  BodiesMatch'
  BY <1>10 DEF AnimationHackCallback
<1>11. CASE UNCHANGED puppetVars
  BY <1>11 DEF puppetVars
<1> QED
  BY <1>1, <1>2, <1>3, <1>4, <1>5, <1>6, <1>7, <1>8, <1>9, <1>10, <1>11 DEF PuppetsNext

(* A timer, an unload or the end of an emote never takes the entity of      *)
(* another puppet along.                                                   *)
LEMMA EmotesStep ==
    PuppetsInv /\ [PuppetsNext]_puppetVars => AloneIsNext' /\ EmotesEnd'
<1> SUFFICES ASSUME PuppetsTypeOK, BodiesMatch, AloneIsNext, EmotesEnd, [PuppetsNext]_puppetVars
             PROVE  AloneIsNext' /\ EmotesEnd'
  BY DEF PuppetsInv
<1> USE PuppetsAssumption DEF PuppetsTypeOK, puppetBodies, puppetEmotes, AloneIsNext, EmotesEnd
<1>1. CASE UNCHANGED puppetEmotes
  BY <1>1
<1>2. ASSUME NEW p \in Puppet, DeSpawn(p)
      PROVE  AloneIsNext' /\ EmotesEnd'
  <2>1. UNCHANGED <<selected, creating, crossed, alive>>
    BY <1>2 DEF DeSpawn
  <2>2. /\ anim' = [anim EXCEPT ![p] = 0]
        /\ adrift' = adrift \cup ({anim[p]} \ {0})
        /\ timers' = {t \in timers : t[1] # p}
    BY <1>2 DEF DeSpawn
  <2>3. ASSUME NEW e \in alive' \ adrift'
        PROVE  \E q \in Puppet : anim'[q] = e /\ <<q, e>> \in timers'
    <3>1. PICK q \in Puppet : anim[q] = e /\ <<q, e>> \in timers
      BY <2>1, <2>2
    <3>2. e # 0
      BY <2>1 DEF Emote
    <3>3. q # p
      BY <2>2, <3>1, <3>2
    <3> QED
      BY <2>2, <3>1, <3>3
  <2> QED
    BY <2>1, <2>2, <2>3
<1>3. CASE OnWorldDetach
  BY <1>3 DEF OnWorldDetach
<1>4. ASSUME NEW p \in Puppet, HandleEmote(p)
      PROVE  AloneIsNext' /\ EmotesEnd'
  <2>1. CASE ~Present(p)
    <3>1. /\ UNCHANGED <<creating, timers, alive, adrift, anim>>
          /\ crossed' = (crossed \/ creating > 0)
      BY <1>4, <2>1 DEF HandleEmote
    <3>2. EmotesEnd'
      BY <3>1
    <3>3. AloneIsNext'
      <4>1. ~crossed' => ~crossed /\ ~(creating > 0)
        BY <3>1
      <4>2. ~(creating > 0)' => ~(creating > 0)
        BY <3>1
      <4> QED
        BY <3>1, <4>1, <4>2
    <3> QED
      BY <3>2, <3>3
  <2>2. CASE Present(p)
    <3>1. /\ selected' = p
          /\ crossed' = (crossed \/ creating > 0)
          /\ creating' = creating + 1
          /\ alive' = alive \ {anim[p]}
          /\ adrift' = adrift \ {anim[p]}
          /\ anim' = [anim EXCEPT ![p] = 0]
      BY <1>4, <2>2 DEF HandleEmote, Present
    <3>2. timers \ {<<p, last[p]>>} \subseteq timers'
      BY <1>4, <2>2 DEF HandleEmote
    <3>3. AloneIsNext'
      <4>1. anim'[p] = 0
        BY <3>1
      <4>2. ~crossed' => ~(creating > 0)
        BY <3>1
      <4>3. ~(creating > 0) => creating' = 1
        BY <3>1
      <4> QED
        BY <3>1, <4>1, <4>2, <4>3
    <3>4. ASSUME NEW e \in alive' \ adrift'
          PROVE  \E q \in Puppet : anim'[q] = e /\ <<q, e>> \in timers'
      <4>1. PICK q \in Puppet : anim[q] = e /\ <<q, e>> \in timers
        BY <3>1
      <4>2. q # p
        BY <3>1, <4>1
      <4> QED
        BY <3>1, <3>2, <4>1, <4>2
    <3> QED
      BY <3>3, <3>4
  <2> QED
    BY <2>1, <2>2
<1>5. CASE OnAnimationEntityAttached
  <2>1. /\ creating > 0 /\ creating' = creating - 1
        /\ crossed' = (crossed /\ creating > 1)
        /\ UNCHANGED selected
    BY <1>5 DEF OnAnimationEntityAttached
  <2>2. AloneIsNext'
    BY <2>1
  <2>3. PICK e \in Emote \ alive :
            /\ alive' = alive \cup {e}
            /\ IF selected # Nobody /\ body[selected] = "there"
               THEN /\ anim' = [anim EXCEPT ![selected] = e]
                    /\ timers' = timers \cup {<<selected, e>>}
                    /\ adrift' = adrift \cup (IF crossed THEN {e, anim[selected]} \ {0} ELSE {})
               ELSE adrift' = adrift \cup {e} /\ UNCHANGED <<anim, timers>>
    BY <1>5 DEF OnAnimationEntityAttached
  <2>4. CASE selected # Nobody /\ body[selected] = "there"
    <3>1. ASSUME NEW f \in alive' \ adrift'
          PROVE  \E q \in Puppet : anim'[q] = f /\ <<q, f>> \in timers'
      <4>1. CASE f = e
        BY <2>3, <2>4, <4>1
      <4>2. CASE f # e
        <5>1. PICK q \in Puppet : anim[q] = f /\ <<q, f>> \in timers
          BY <2>3, <2>4, <4>2
        <5>2. f # 0
          BY <2>3, <4>2 DEF Emote
        <5>3. q # selected
          BY <2>1, <2>3, <2>4, <5>1, <5>2
        <5> QED
          BY <2>3, <2>4, <5>1, <5>3
      <4> QED
        BY <4>1, <4>2
    <3> QED
      BY <2>2, <3>1
  <2>5. CASE ~(selected # Nobody /\ body[selected] = "there")
    <3>1. alive' \ adrift' \subseteq alive \ adrift /\ UNCHANGED <<anim, timers>>
      BY <2>3, <2>5
    <3> QED
      BY <2>2, <3>1
  <2> QED
    BY <2>4, <2>5
<1>6. ASSUME NEW p \in Puppet, NEW e \in Emote, AnimationHackCallback(p, e)
      PROVE  AloneIsNext' /\ EmotesEnd'
  <2>1. /\ alive' = alive \ {anim[p]}
        /\ adrift' = adrift \ {anim[p]}
        /\ anim' = [anim EXCEPT ![p] = 0]
        /\ timers' = timers \ {<<p, e>>}
        /\ UNCHANGED <<selected, creating, crossed>>
    BY <1>6 DEF AnimationHackCallback
  <2>2. ASSUME NEW f \in alive' \ adrift'
        PROVE  \E q \in Puppet : anim'[q] = f /\ <<q, f>> \in timers'
    <3>1. PICK q \in Puppet : anim[q] = f /\ <<q, f>> \in timers
      BY <2>1
    <3>2. q # p
      BY <2>1, <3>1
    <3> QED
      BY <2>1, <3>1, <3>2
  <2> QED
    BY <2>1, <2>2
<1> QED
  BY <1>1, <1>2, <1>3, <1>4, <1>5, <1>6
  DEF PuppetsNext, puppetVars, SpawnPuppet, OnEntityAttached, SetAnimation, AttachController, Promote

-----------------------------------------------------------------------------
(* The inductive invariant holds of every behaviour of the puppets.         *)
THEOREM PuppetsInvariant == PuppetsSpec => []PuppetsInv
<1>1. PuppetsInit => PuppetsInv
  <2> SUFFICES ASSUME PuppetsInit
               PROVE  PuppetsInv
    OBVIOUS
  <2>1. /\ 0 \in Controller /\ 0 \in 0 .. MaxEmotes
        /\ {} \in SUBSET Emote /\ {} \in SUBSET (Puppet \X Emote) /\ {} \in SUBSET Puppet
    BY PuppetsAssumption DEF Controller
  <2>2. PuppetsTypeOK
    <3>1. /\ stage \in [Puppet -> {"none", "spawning", "entity"}]
          /\ body \in [Puppet -> {"none", "new", "there"}]
          /\ hooked \in [Puppet -> Nat]
          /\ attached \in [Puppet -> Controller]
          /\ controller \in [Puppet -> Controller]
          /\ anim \in [Puppet -> 0 .. MaxEmotes]
          /\ last \in [Puppet -> 0 .. MaxEmotes]
      BY <2>1 DEF PuppetsInit
    <3>2. /\ clothed \in SUBSET Puppet /\ creating \in 0 .. MaxEmotes
          /\ timers \in SUBSET (Puppet \X Emote)
          /\ alive \in SUBSET Emote /\ adrift \in SUBSET Emote
      BY <2>1 DEF PuppetsInit
    <3>3. selected \in Puppet \cup {Nobody} /\ crossed \in BOOLEAN
      BY DEF PuppetsInit
    <3> QED
      BY <3>1, <3>2, <3>3 DEF PuppetsTypeOK
  <2>3. BodiesMatch /\ AloneIsNext /\ EmotesEnd
    BY DEF PuppetsInit, BodiesMatch, AloneIsNext, EmotesEnd
  <2> QED
    BY <2>2, <2>3 DEF PuppetsInv
<1>2. PuppetsInv /\ [PuppetsNext]_puppetVars => PuppetsInv'
  BY PuppetsTypes, BodiesStayMatched, EmotesStep DEF PuppetsInv
<1> QED
  BY <1>1, <1>2, PTL DEF PuppetsSpec

(* The controller that is known is the one of the body                      *)
(* (HookIdleController_SetAnimation, "Spawning entity process").           *)
THEOREM ControllersAreKnown == PuppetsSpec => []ControllersKnown
<1>1. PuppetsInv => ControllersKnown
  BY DEF PuppetsInv, BodiesMatch, ControllersKnown, Present
<1> QED
  BY <1>1, PuppetsInvariant, PTL

(* An animation entity that met no other one has its puppet and its timer   *)
(* (HandleEmote, OnAnimationEntityAttached, AnimationHackCallback).        *)
THEOREM EmotesAreEnded == PuppetsSpec => []EmotesEnd
BY PuppetsInvariant, PTL DEF PuppetsInv

-----------------------------------------------------------------------------
(* The mounts.  RidersShown says nothing of who waits; the invariant does:  *)
(* a rider who waits rides the vehicle waited for, and every rider of a    *)
(* vehicle that is asked for waits, so nobody is missed when it is there.  *)

(* A vehicle asked for of the game is one of the server that nobody drives. *)
NewIsSpawning ==
    \A v \in Vehicle : metal[v] = "new" =>
        vehicle[v] = "spawning" /\ v \notin mine /\ v \notin answers /\ control # v

(* Control is answered of vehicles the client knows or the player made.     *)
AnswersAreKnown ==
    \A v \in Vehicle : v \in answers \/ control = v => v \in mine \/ vehicle[v] # "none"

(* An entity of the server is one of the game, unless the world went.       *)
EntitiesAreThere ==
    ~reloaded => \A v \in Vehicle : vehicle[v] = "entity" => metal[v] = "there"

(* Who controls a vehicle sits in a car of its game.                        *)
DriversHaveCars ==
    /\ control # OnFoot /\ ~stray /\ ~reloaded => ownCar
    /\ ownCar /\ ~reloaded => seat # OnFoot

WaitersRide ==
    \A c \in Rider, v \in Vehicle : c \notin hasty /\ c \in waiting[v] => rides[c] = v

RidersWait ==
    \A c \in Rider, v \in Vehicle :
        c \notin hasty /\ rides[c] = v /\ metal[v] = "new" => c \in waiting[v]

MountsInv ==
    /\ MountsTypeOK
    /\ NewIsSpawning /\ AnswersAreKnown /\ EntitiesAreThere /\ DriversHaveCars
    /\ ~broken => WaitersRide /\ RidersWait /\ NoGhostMount
    /\ CarsAreThere

USE MountsAssumption DEF MountsAssumption

LEMMA MountsInitial == MountsInit => MountsInv
BY DEF MountsInit, MountsInv, MountsTypeOK, NewIsSpawning, AnswersAreKnown,
       EntitiesAreThere, DriversHaveCars, WaitersRide, RidersWait, NoGhostMount, CarsAreThere

-----------------------------------------------------------------------------
(* A vehicle is loaded of which nothing is known: no rider rides it.        *)
LEMMA LoadStep ==
    ASSUME MountsInv, NEW v \in Vehicle, HandleVehicleLoadMessage(v)
    PROVE  MountsInv'
<1> USE DEF MountsInv, HandleVehicleLoadMessage, mountsShown, mountsPlayer
<1>1. MountsTypeOK'
  BY DEF MountsTypeOK
<1>2. NewIsSpawning' /\ AnswersAreKnown' /\ EntitiesAreThere' /\ DriversHaveCars'
  BY DEF MountsTypeOK, NewIsSpawning, AnswersAreKnown, EntitiesAreThere, DriversHaveCars
<1>3. WaitersRide' /\ RidersWait' /\ NoGhostMount' /\ CarsAreThere'
  BY DEF MountsTypeOK, WaitersRide, RidersWait, NoGhostMount, CarsAreThere
<1> QED BY <1>1, <1>2, <1>3

(* Who gets in is shown, or waits, or rides what will not be there.         *)
LEMMA EnterStep ==
    ASSUME MountsInv, NEW v \in Vehicle, NEW c \in Rider, HandleVehicleEnterMessage(v, c)
    PROVE  MountsInv'
<1> USE DEF MountsInv, HandleVehicleEnterMessage, DoMount, mountsPlayer
<1>1. MountsTypeOK'
  <2>1. broken' \in BOOLEAN
    <3>1. CASE control = v
      BY <3>1
    <3>2. CASE control # v
      BY <3>2 DEF MountsTypeOK
    <3> QED BY <3>1, <3>2
  <2>2. shownIn' \in [Rider -> Vehicle \cup {OwnCar, OnFoot}]
    BY DEF MountsTypeOK
  <2>3. waiting' \in [Vehicle -> SUBSET Rider] /\ hasty' \in SUBSET Rider
    BY DEF MountsTypeOK
  <2> QED BY <2>1, <2>2, <2>3 DEF MountsTypeOK
<1>2. NewIsSpawning' /\ AnswersAreKnown' /\ EntitiesAreThere' /\ DriversHaveCars'
  BY DEF NewIsSpawning, AnswersAreKnown, EntitiesAreThere, DriversHaveCars
<1>3. CarsAreThere'
  <2>1. CASE control = v
    BY <2>1 DEF CarsAreThere, DriversHaveCars
  <2>2. CASE control # v
    BY <2>2 DEF CarsAreThere, EntitiesAreThere
  <2> QED BY <2>1, <2>2
<1>4. ASSUME ~broken' PROVE WaitersRide' /\ RidersWait' /\ NoGhostMount'
  <2>1. WaitersRide'
    BY DEF MountsTypeOK, WaitersRide, Waits
  <2>2. RidersWait'
    BY <1>4 DEF MountsTypeOK, RidersWait, NewIsSpawning, Waits
  <2>3. NoGhostMount'
    <3>1. CASE control = v
      <4>1. ownCar /\ shownIn' = [shownIn EXCEPT ![c] = OwnCar]
        BY <1>4, <3>1
      <4>2. \A d \in Rider : d # c => rides'[d] = rides[d] /\ shownIn'[d] = shownIn[d]
        BY <4>1 DEF MountsTypeOK
      <4>3. rides'[c] = v /\ shownIn'[c] = OwnCar /\ v # OnFoot
        BY <4>1, MountsAssumption DEF MountsTypeOK
      <4>4. hasty \subseteq hasty' /\ vehicle' = vehicle /\ NoGhostMount
        OBVIOUS
      <4> QED BY <4>2, <4>3, <4>4 DEF NoGhostMount
    <3>2. CASE control # v /\ vehicle[v] = "entity"
      <4>1. metal[v] = "there" /\ shownIn' = [shownIn EXCEPT ![c] = v]
        BY <1>4, <3>2
      <4>2. \A d \in Rider : d # c => rides'[d] = rides[d] /\ shownIn'[d] = shownIn[d]
        BY <4>1 DEF MountsTypeOK
      <4>3. rides'[c] = v /\ shownIn'[c] = v /\ v # OnFoot
        BY <4>1, MountsAssumption DEF MountsTypeOK
      <4>4. hasty \subseteq hasty' /\ vehicle' = vehicle /\ NoGhostMount
        OBVIOUS
      <4> QED BY <4>2, <4>3, <4>4 DEF NoGhostMount
    <3>3. CASE control # v /\ vehicle[v] # "entity"
      BY <1>4, <3>3 DEF MountsTypeOK, NoGhostMount
    <3> QED BY <3>1, <3>2, <3>3
  <2> QED BY <2>1, <2>2, <2>3
<1> QED BY <1>1, <1>2, <1>3, <1>4

(* The vehicle is there: all who ride it waited, and are mounted now.       *)
LEMMA ReadyStep ==
    ASSUME MountsInv, NEW v \in Vehicle, OnVehicleReady(v)
    PROVE  MountsInv'
<1> USE DEF MountsInv, OnVehicleReady, mountsPlayer
<1>1. MountsTypeOK'
  BY DEF MountsTypeOK
<1>2. NewIsSpawning' /\ AnswersAreKnown' /\ EntitiesAreThere' /\ DriversHaveCars'
  BY DEF MountsTypeOK, NewIsSpawning, AnswersAreKnown, EntitiesAreThere, DriversHaveCars
<1>3. CarsAreThere'
  BY DEF CarsAreThere
<1>4. WaitersRide' /\ RidersWait'
  BY DEF MountsTypeOK, WaitersRide, RidersWait
<1>5. NoGhostMount'
  BY DEF MountsTypeOK, NoGhostMount, WaitersRide, RidersWait
<1> QED BY <1>1, <1>2, <1>3, <1>4, <1>5

LEMMA ExitStep ==
    ASSUME MountsInv, NEW c \in Rider, HandleVehicleExitMessage(c)
    PROVE  MountsInv'
<1> USE DEF MountsInv, HandleVehicleExitMessage, mountsPlayer
<1>1. MountsTypeOK'
  BY DEF MountsTypeOK
<1>2. NewIsSpawning' /\ AnswersAreKnown' /\ EntitiesAreThere' /\ DriversHaveCars' /\ CarsAreThere'
  BY DEF NewIsSpawning, AnswersAreKnown, EntitiesAreThere, DriversHaveCars, CarsAreThere
<1>3. WaitersRide' /\ RidersWait' /\ NoGhostMount'
  BY DEF MountsTypeOK, WaitersRide, RidersWait, NoGhostMount, Waits
<1> QED BY <1>1, <1>2, <1>3

-----------------------------------------------------------------------------
(* What the player itself does shows no rider anywhere else.                *)
LEMMA PlayerStep ==
    ASSUME MountsInv,
           \/ \E v \in Vehicle : HandleVehicleControlMessage(v)
           \/ \E v \in Vehicle, driver \in BOOLEAN : OnVehicleEnter(v, driver)
           \/ OnVehicleExit
    PROVE  MountsInv'
<1> USE DEF MountsInv
<1>1. CASE \E v \in Vehicle : HandleVehicleControlMessage(v)
  <2> PICK v \in Vehicle : HandleVehicleControlMessage(v)
    BY <1>1
  <2> USE DEF HandleVehicleControlMessage, mountsShown
  <2>1. MountsTypeOK'
    <3>1. ownCar \in BOOLEAN /\ stray \in BOOLEAN /\ stray' \in BOOLEAN
      BY DEF MountsTypeOK
    <3> QED BY <3>1 DEF MountsTypeOK
  <2>2. NewIsSpawning' /\ AnswersAreKnown' /\ EntitiesAreThere'
    BY DEF NewIsSpawning, AnswersAreKnown, EntitiesAreThere
  <2>3. DriversHaveCars' /\ CarsAreThere'
    BY DEF DriversHaveCars, CarsAreThere
  <2>4. WaitersRide' /\ RidersWait' /\ NoGhostMount'
    BY DEF WaitersRide, RidersWait, NoGhostMount
  <2> QED BY <2>1, <2>2, <2>3, <2>4
<1>2. CASE \E v \in Vehicle, driver \in BOOLEAN : OnVehicleEnter(v, driver)
  <2> PICK v \in Vehicle, driver \in BOOLEAN : OnVehicleEnter(v, driver)
    BY <1>2
  <2> USE DEF OnVehicleEnter, mountsShown
  <2>1. MountsTypeOK'
    BY DEF MountsTypeOK
  <2>2. NewIsSpawning' /\ AnswersAreKnown' /\ EntitiesAreThere'
    BY DEF MountsTypeOK, NewIsSpawning, AnswersAreKnown, EntitiesAreThere
  <2>3. DriversHaveCars' /\ CarsAreThere'
    BY DEF DriversHaveCars, CarsAreThere
  <2>4. WaitersRide' /\ RidersWait' /\ NoGhostMount'
    BY DEF WaitersRide, RidersWait, NoGhostMount
  <2> QED BY <2>1, <2>2, <2>3, <2>4
<1>3. CASE OnVehicleExit
  BY <1>3 DEF OnVehicleExit, mountsShown, MountsTypeOK, NewIsSpawning, AnswersAreKnown,
     EntitiesAreThere, DriversHaveCars, WaitersRide, RidersWait, NoGhostMount, CarsAreThere
<1> QED BY <1>1, <1>2, <1>3

(* The game's entities go, and with them every promise of the world.        *)
LEMMA DetachStep == ASSUME MountsInv, OnAfterWorldDetach PROVE MountsInv'
<1> USE DEF MountsInv, OnAfterWorldDetach, mountsShown
<1>1. MountsTypeOK'
  BY DEF MountsTypeOK
<1>2. NewIsSpawning' /\ AnswersAreKnown' /\ EntitiesAreThere' /\ DriversHaveCars' /\ CarsAreThere'
  BY DEF NewIsSpawning, AnswersAreKnown, EntitiesAreThere, DriversHaveCars, CarsAreThere
<1>3. WaitersRide' /\ RidersWait' /\ NoGhostMount'
  BY DEF WaitersRide, RidersWait, NoGhostMount
<1> QED BY <1>1, <1>2, <1>3

(* A session leaves nobody in a vehicle and nobody waiting.                 *)
LEMMA DisconnectStep == ASSUME MountsInv, OnDisconnected PROVE MountsInv'
<1> USE DEF MountsInv, OnDisconnected
<1>1. MountsTypeOK'
  BY DEF MountsTypeOK
<1>2. NewIsSpawning' /\ AnswersAreKnown' /\ EntitiesAreThere' /\ DriversHaveCars' /\ CarsAreThere'
  BY DEF NewIsSpawning, AnswersAreKnown, EntitiesAreThere, DriversHaveCars, CarsAreThere
<1>3. WaitersRide' /\ RidersWait' /\ NoGhostMount'
  BY DEF WaitersRide, RidersWait, NoGhostMount
<1> QED BY <1>1, <1>2, <1>3

-----------------------------------------------------------------------------
(* The invariant holds in every state: each handler keeps it.               *)
THEOREM MountsInvariant == MountsSpec => []MountsInv
<1>1. MountsInit => MountsInv
  BY MountsInitial
<1>2. MountsInv /\ [MountsNext]_mountsVars => MountsInv'
  <2> SUFFICES ASSUME MountsInv, [MountsNext]_mountsVars PROVE MountsInv'
    OBVIOUS
  <2>1. CASE \E v \in Vehicle : HandleVehicleLoadMessage(v)
    BY <2>1, LoadStep
  <2>2. CASE \E v \in Vehicle : OnVehicleReady(v)
    BY <2>2, ReadyStep
  <2>3. CASE \E v \in Vehicle, c \in Rider : HandleVehicleEnterMessage(v, c)
    BY <2>3, EnterStep
  <2>4. CASE \E c \in Rider : HandleVehicleExitMessage(c)
    BY <2>4, ExitStep
  <2>5. CASE \/ \E v \in Vehicle : HandleVehicleControlMessage(v)
             \/ \E v \in Vehicle, driver \in BOOLEAN : OnVehicleEnter(v, driver)
             \/ OnVehicleExit
    BY <2>5, PlayerStep
  <2>6. CASE OnAfterWorldDetach \/ OnDisconnected
    BY <2>6, DetachStep, DisconnectStep
  <2>7. CASE UNCHANGED mountsVars
    BY <2>7 DEF mountsVars, mountsShown, mountsPlayer, MountsInv, MountsTypeOK, NewIsSpawning,
       AnswersAreKnown, EntitiesAreThere, DriversHaveCars, WaitersRide, RidersWait,
       NoGhostMount, CarsAreThere
  <2> QED BY <2>1, <2>2, <2>3, <2>4, <2>5, <2>6, <2>7 DEF MountsNext
<1> QED BY <1>1, <1>2, PTL DEF MountsSpec

(* Riders are shown where they ride, in cars that are there: RidersShown,   *)
(* in whatever order VehicleSystem hears of vehicles, riders and answers.   *)
THEOREM RidersAreShown == MountsSpec => []RidersShown
<1>1. MountsInv => RidersShown
  BY DEF MountsInv, RidersShown
<1> QED BY <1>1, MountsInvariant, PTL

-----------------------------------------------------------------------------
(* The saves.  A character that was reported as created is what was         *)
(* promised, or what has been played of it, for any templates, names and   *)
(* copies that fail.                                                       *)

(* The folder of a template that was never spoiled is missing or whole but  *)
(* for its metadata, and no character was created under its name; what is  *)
(* there has metadata unless it is half there.                             *)
Straight ==
    /\ \A t \in Template \ spoiled : folder[t].files \in {Missing, t} /\ promised[t] = Missing
    /\ \A n \in SaveName : folder[n].files \notin {Missing, Half} => folder[n].metadata # "none"

SavesInv == SavesTypeOK /\ Straight /\ CharacterKept

LEMMA Names ==
    /\ \A t \in Template : t \notin {Missing, Half, Played}
    /\ Missing # Half /\ Missing # Played /\ Half # Played
    /\ \A n \in Character : n \notin Template
BY SavesAssumption

LEMMA FoldersTyped ==
    /\ Nothing \in Folder
    /\ \A t \in Template : Seed(t) \in Folder
    /\ \A f \in Folder : CutCopies(f) \subseteq Folder /\ Rewritten(f) \subseteq Folder
BY DEF Nothing, Seed, CutCopies, Rewritten, Folder, Content

-----------------------------------------------------------------------------
(* Installing the templates writes template folders alone, those that were  *)
(* missing, and leaves one whole, half or missing.                         *)
LEMMA Installing ==
    ASSUME SavesTypeOK, NEW f \in Ensured
    PROVE  /\ f \in [SaveName -> Folder]
           /\ \A n \in SaveName : f[n] # folder[n] =>
                  /\ n \in Template
                  /\ Free(folder, n)
                  /\ f[n] \in {Nothing, Seed(n)} \/ f[n].files = Half
<1>1. PICK g \in [Template -> UNION {Installed(t) : t \in Template}] :
          /\ \A t \in Template : g[t] \in Installed(t)
          /\ f = [n \in SaveName |-> IF n \in Template THEN g[n] ELSE folder[n]]
  BY DEF Ensured
<1>typed. \A t \in Template : g[t] \in Folder
  <2>1. \A t \in Template : Installed(t) \subseteq Folder
    BY FoldersTyped DEF Installed, SavesTypeOK, SaveName
  <2> QED
    BY <1>1, <2>1
<1>2. ASSUME NEW t \in Template, g[t] # folder[t]
      PROVE  Free(folder, t) /\ (g[t] \in {Nothing, Seed(t)} \/ g[t].files = Half)
  <2>1. Free(folder, t) /\ g[t] \in {Nothing, Seed(t)} \cup CutCopies(Seed(t))
    BY <1>1, <1>2 DEF Installed
  <2>2. \A h \in CutCopies(Seed(t)) : h.files = Half
    BY DEF CutCopies
  <2> QED
    BY <2>1, <2>2
<1> QED
  BY <1>1, <1>2, <1>typed DEF SavesTypeOK, SaveName

(* That keeps the invariant, whatever becomes of the rest.                  *)
LEMMA InstallingKeeps ==
    ASSUME SavesInv, NEW f \in [SaveName -> Folder], NEW s \in SUBSET Template,
           \A n \in SaveName : f[n] # folder[n] =>
               /\ n \in Template
               /\ Free(folder, n)
               /\ f[n] \in {Nothing, Seed(n)} \/ f[n].files = Half,
           s = spoiled \cup SpoiledBy(f)
    PROVE  /\ \A t \in Template \ s : f[t].files \in {Missing, t}
           /\ \A n \in SaveName : f[n].files \notin {Missing, Half} => f[n].metadata # "none"
           /\ \A n \in SaveName : promised[n] # Missing /\ promised[n] \notin s =>
                  f[n].files \in {promised[n], Played} /\ f[n].metadata # "none"
<1>1. \A n \in SaveName : f[n] # folder[n] =>
          /\ n \in Template
          /\ Free(folder, n)
          /\ f[n].files \in {Missing, n, Half}
          /\ f[n].files \notin {Missing, Half} => f[n].metadata # "none"
  BY Names DEF Nothing, Seed
<1>2. \A t \in Template \ s : f[t].files # Half /\ t \notin spoiled
  BY DEF SpoiledBy
<1>3. \A t \in Template \ s : f[t].files \in {Missing, t}
  BY <1>1, <1>2 DEF SavesInv, Straight, SaveName
<1>4. \A n \in SaveName : f[n].files \notin {Missing, Half} => f[n].metadata # "none"
  BY <1>1 DEF SavesInv, Straight
<1>5. ASSUME NEW n \in SaveName, promised[n] # Missing, promised[n] \notin s
      PROVE  f[n].files \in {promised[n], Played} /\ f[n].metadata # "none"
  <2>1. /\ promised[n] \notin spoiled
        /\ folder[n].files \in {promised[n], Played}
        /\ folder[n].metadata # "none"
    BY <1>5 DEF SavesInv, CharacterKept
  <2>2. promised[n] \in Template
    BY <1>5 DEF SavesInv, SavesTypeOK
  <2>3. folder[n].files # Missing
    BY <2>1, <2>2, Names
  <2>4. f[n] = folder[n]
    BY <2>3, <1>1 DEF Free
  <2> QED
    BY <2>1, <2>4
<1> QED
  BY <1>3, <1>4, <1>5

(* What a creation puts there, and what it reports.                         *)
LEMMA CreatingKeeps ==
    ASSUME SavesInv, NEW t \in Template, NEW n \in SaveName, CreateSaveFromTemplate(t, n)
    PROVE  SavesInv'
<1>1. PICK f \in Before(t) :
        /\ \/ folder' = f /\ UNCHANGED promised
           \/ /\ MayCreate(f, t, n)
              /\ \E c \in CutCopies(f[t]) \cup Rewritten(f[t]) : folder' = [f EXCEPT ![n] = c]
              /\ UNCHANGED promised
           \/ /\ MayCreate(f, t, n)
              /\ \E c \in Rewritten(f[t]) : folder' = [f EXCEPT ![n] = c]
              /\ promised' = [promised EXCEPT ![n] = t]
        /\ spoiled' = spoiled \cup SpoiledBy(f)
                              \cup (IF MayCreate(f, t, n) THEN {n} \cap Template ELSE {})
        /\ UNCHANGED seeds
  BY DEF CreateSaveFromTemplate
<1>2. /\ f \in [SaveName -> Folder]
      /\ \A m \in SaveName : f[m] # folder[m] =>
             /\ m \in Template
             /\ Free(folder, m)
             /\ f[m] \in {Nothing, Seed(m)} \/ f[m].files = Half
  BY <1>1, Installing DEF Before, SavesInv, SavesTypeOK
<1> DEFINE s == spoiled \cup SpoiledBy(f)
<1>3. s \in SUBSET Template /\ s \subseteq spoiled' /\ spoiled' \in SUBSET Template
  BY <1>1 DEF SavesInv, SavesTypeOK, SpoiledBy
<1>4. /\ \A u \in Template \ s : f[u].files \in {Missing, u}
      /\ \A m \in SaveName : f[m].files \notin {Missing, Half} => f[m].metadata # "none"
      /\ \A m \in SaveName : promised[m] # Missing /\ promised[m] \notin s =>
             f[m].files \in {promised[m], Played} /\ f[m].metadata # "none"
  BY <1>2, <1>3, InstallingKeeps
<1>5. \A u \in Template \ s : promised[u] = Missing
  BY DEF SavesInv, Straight
<1>6. promised \in [SaveName -> Template \cup {Missing}] /\ seeds' \in SUBSET Template
  BY <1>1 DEF SavesInv, SavesTypeOK
<1> HIDE DEF s
<1>7. CASE folder' = f /\ promised' = promised
  <2>1. SavesTypeOK'
    BY <1>2, <1>3, <1>6, <1>7 DEF SavesTypeOK
  <2>2. Straight'
    BY <1>3, <1>4, <1>5, <1>7 DEF Straight
  <2>3. CharacterKept'
    BY <1>3, <1>4, <1>7 DEF CharacterKept
  <2> QED
    BY <2>1, <2>2, <2>3 DEF SavesInv
<1>8. ASSUME MayCreate(f, t, n),
             NEW c \in CutCopies(f[t]) \cup Rewritten(f[t]), folder' = [f EXCEPT ![n] = c],
             \/ promised' = promised
             \/ promised' = [promised EXCEPT ![n] = t] /\ c \in Rewritten(f[t])
      PROVE  SavesInv'
  <2>1. f[t] \in Folder /\ c \in Folder /\ t \in SaveName
    BY <1>2, FoldersTyped DEF SaveName
  <2>2. /\ f[t].files # Missing
        /\ f[n].files = Missing
    BY <1>8 DEF MayCreate, Free
  <2>3. \/ c.files = Half
        \/ c.files = f[t].files /\ (c.metadata = "none" => f[t].metadata = "none")
    BY <2>1 DEF CutCopies, Rewritten, Folder
  <2>4. c \in Rewritten(f[t]) => c.files = f[t].files /\ (c.metadata = "none" => f[t].metadata = "none")
    BY <2>1 DEF Rewritten, Folder
  <2>5. \A m \in SaveName : folder'[m] = IF m = n THEN c ELSE f[m]
    BY <1>2, <1>8
  <2>6. \A m \in SaveName : m # n => promised'[m] = promised[m]
    BY <1>6, <1>8
  <2>7. SavesTypeOK'
    BY <1>2, <1>3, <1>6, <1>8, <2>1 DEF SavesTypeOK
  <2>8. n \in Template => n \in spoiled'
    BY <1>1, <1>8
  <2>9. Straight'
    <3>1. \A u \in Template \ spoiled' : u # n /\ u \in Template \ s /\ u \in SaveName
      BY <1>3, <2>8 DEF SaveName
    <3>2. \A u \in Template \ spoiled' : folder'[u].files \in {Missing, u} /\ promised'[u] = Missing
      BY <3>1, <1>4, <1>5, <2>5, <2>6
    <3>3. \A m \in SaveName : folder'[m].files \notin {Missing, Half} => folder'[m].metadata # "none"
      BY <1>4, <2>1, <2>3, <2>5
    <3> QED
      BY <3>2, <3>3 DEF Straight
  <2>10. CharacterKept'
    <3>1. SUFFICES ASSUME NEW m \in SaveName, promised'[m] # Missing, promised'[m] \notin spoiled'
                   PROVE  folder'[m].files \in {promised'[m], Played} /\ folder'[m].metadata # "none"
      BY DEF CharacterKept
    <3>2. CASE m # n
      <4>1. promised'[m] = promised[m] /\ folder'[m] = f[m]
        BY <3>2, <2>5, <2>6
      <4> QED
        BY <4>1, <3>1, <1>3, <1>4
    <3>3. CASE m = n /\ promised' = promised
      <4>1. promised[n] # Missing /\ promised[n] \notin s
        BY <3>1, <3>3, <1>3
      <4>2. f[n].files \in {promised[n], Played} /\ promised[n] \in Template
        BY <4>1, <1>4, <1>6
      <4> QED
        BY <4>2, <2>2, Names
    <3>4. CASE m = n /\ promised' = [promised EXCEPT ![n] = t] /\ c \in Rewritten(f[t])
      <4>1. promised'[n] = t
        BY <3>4, <1>6
      <4>2. t \notin s
        BY <4>1, <3>1, <3>4, <1>3
      <4>3. f[t].files = t
        BY <4>2, <1>4, <2>2
      <4>4. f[t].metadata # "none"
        BY <4>3, <1>4, <2>1, Names
      <4> QED
        BY <3>4, <4>1, <4>3, <4>4, <2>4, <2>5
    <3> QED
      BY <1>8, <3>2, <3>3, <3>4
  <2> QED
    BY <2>7, <2>9, <2>10 DEF SavesInv
<1> QED
  BY <1>1, <1>7, <1>8

-----------------------------------------------------------------------------
(* The inductive invariant holds whatever arrives, is installed, created,   *)
(* played and deleted.                                                     *)
THEOREM SavesInvariant == SavesSpec => []SavesInv
<1>1. SavesInit => SavesInv
  <2> SUFFICES ASSUME SavesInit PROVE SavesInv
    OBVIOUS
  <2>1. SavesTypeOK
    BY FoldersTyped DEF SavesInit, SavesTypeOK
  <2>2. \A n \in SaveName : folder[n].files = Missing /\ promised[n] = Missing
    BY DEF SavesInit, Nothing
  <2> QED
    BY <2>1, <2>2 DEF SavesInv, Straight, CharacterKept, SaveName
<1>2. SavesInv /\ [SavesNext]_savesVars => SavesInv'
  <2> SUFFICES ASSUME SavesInv, [SavesNext]_savesVars
               PROVE  SavesInv'
    OBVIOUS
  <2>1. ASSUME NEW t \in Template, SeedArrives(t)
        PROVE  SavesInv'
    BY <2>1 DEF SeedArrives, SavesInv, SavesTypeOK, Straight, CharacterKept
  <2>2. CASE EnsureTemplatesInstalled
    <3>1. /\ folder' \in [SaveName -> Folder]
          /\ \A m \in SaveName : folder'[m] # folder[m] =>
                 /\ m \in Template
                 /\ Free(folder, m)
                 /\ folder'[m] \in {Nothing, Seed(m)} \/ folder'[m].files = Half
      BY <2>2, Installing DEF EnsureTemplatesInstalled, SavesInv
    <3>2. /\ promised' = promised /\ seeds' = seeds
          /\ spoiled' = spoiled \cup SpoiledBy(folder')
      BY <2>2 DEF EnsureTemplatesInstalled
    <3>3. spoiled' \in SUBSET Template
      BY <3>2 DEF SavesInv, SavesTypeOK, SpoiledBy
    <3>4. /\ \A t \in Template \ spoiled' : folder'[t].files \in {Missing, t}
          /\ \A n \in SaveName : folder'[n].files \notin {Missing, Half} => folder'[n].metadata # "none"
          /\ \A n \in SaveName : promised[n] # Missing /\ promised[n] \notin spoiled' =>
                 folder'[n].files \in {promised[n], Played} /\ folder'[n].metadata # "none"
      BY <3>1, <3>2, <3>3, InstallingKeeps
    <3>5. Straight'
      BY <3>2, <3>4 DEF SavesInv, Straight
    <3>6. CharacterKept'
      BY <3>2, <3>4 DEF CharacterKept
    <3>7. SavesTypeOK'
      BY <3>1, <3>2, <3>3 DEF SavesInv, SavesTypeOK
    <3> QED
      BY <3>5, <3>6, <3>7 DEF SavesInv
  <2>3. ASSUME NEW t \in Template, NEW n \in SaveName, CreateSaveFromTemplate(t, n)
        PROVE  SavesInv'
    BY <2>3, CreatingKeeps
  <2>4. ASSUME NEW n \in SaveName, Play(n)
        PROVE  SavesInv'
    <3> DEFINE game == [files |-> Played, metadata |-> "whole"]
    <3>1. game \in Folder /\ game.files = Played /\ game.metadata = "whole"
      BY DEF Folder, Content
    <3>2. folder' = [folder EXCEPT ![n] = game] /\ n \notin Template
          /\ UNCHANGED <<seeds, promised, spoiled>>
      BY <2>4, Names DEF Play
    <3> HIDE DEF game
    <3>3. SavesTypeOK'
      BY <3>1, <3>2 DEF SavesInv, SavesTypeOK
    <3>4. \A m \in SaveName : folder'[m] = IF m = n THEN game ELSE folder[m]
      BY <3>2 DEF SavesInv, SavesTypeOK
    <3>5. Straight'
      BY <3>1, <3>2, <3>4 DEF SavesInv, Straight, SaveName
    <3>6. CharacterKept'
      BY <3>1, <3>2, <3>4 DEF SavesInv, CharacterKept
    <3> QED
      BY <3>3, <3>5, <3>6 DEF SavesInv
  <2>5. ASSUME NEW n \in SaveName, DeleteSave(n)
        PROVE  SavesInv'
    <3>1. /\ folder' = [folder EXCEPT ![n] = Nothing]
          /\ promised' = [promised EXCEPT ![n] = Missing]
          /\ UNCHANGED <<seeds, spoiled>>
      BY <2>5 DEF DeleteSave
    <3>2. SavesTypeOK'
      BY <3>1, FoldersTyped DEF SavesInv, SavesTypeOK
    <3>3. \A m \in SaveName : /\ folder'[m] = IF m = n THEN Nothing ELSE folder[m]
                              /\ promised'[m] = IF m = n THEN Missing ELSE promised[m]
      BY <3>1 DEF SavesInv, SavesTypeOK
    <3>4. Nothing.files = Missing
      BY DEF Nothing
    <3>5. Straight'
      BY <3>1, <3>3, <3>4 DEF SavesInv, Straight, SaveName
    <3>6. CharacterKept'
      BY <3>1, <3>3 DEF SavesInv, CharacterKept
    <3> QED
      BY <3>2, <3>5, <3>6 DEF SavesInv
  <2>6. CASE UNCHANGED savesVars
    BY <2>6 DEF savesVars, SavesInv, SavesTypeOK, Straight, CharacterKept
  <2> QED
    BY <2>1, <2>2, <2>3, <2>4, <2>5, <2>6 DEF SavesNext
<1> QED
  BY <1>1, <1>2, PTL DEF SavesSpec

(* What was reported as created stays what it is                           *)
(* (CreateSaveFromTemplate, InstallSeedIfAbsent).                          *)
THEOREM CharactersAreKept == SavesSpec => []CharacterKept
BY SavesInvariant, PTL DEF SavesInv

-----------------------------------------------------------------------------
(* The screen.  Popups and contexts: what is displayed is one of them.      *)
PopupsInv ==
    /\ widgets \in [Popup -> Nat]
    /\ contexts = InAll(widgets)
    /\ shown \subseteq Popup
    /\ \A p \in shown : widgets[p] > 0

LEMMA ClosesKeeps ==
    ASSUME PopupsInv, NEW p \in Popup, Closes(p)
    PROVE  PopupsInv'
<1>1. CASE p \in shown
  <2>1. widgets[p] - 1 \in Nat /\ contexts' = contexts - 1
        /\ widgets' = [widgets EXCEPT ![p] = @ - 1] /\ shown' = shown \ {p}
    BY <1>1 DEF PopupsInv, Closes
  <2>2. widgets' \in [Popup -> Nat]
        /\ \A q \in Popup : widgets'[q] = IF q = p THEN widgets[p] - 1 ELSE widgets[q]
    BY <2>1 DEF PopupsInv
  <2>3. contexts' = InAll(widgets')
    BY <2>1, <2>2 DEF PopupsInv, InAll, Popup
  <2> QED
    BY <2>1, <2>2, <2>3 DEF PopupsInv
<1>2. CASE p \notin shown
  <2>1. contexts' = contexts /\ widgets' = widgets /\ shown' = shown
    BY <1>2 DEF PopupsInv, Closes
  <2> QED
    BY <2>1 DEF PopupsInv, InAll
<1> QED
  BY <1>1, <1>2

LEMMA DisplaysKeeps ==
    ASSUME PopupsInv, NEW p \in Popup, Displays(p)
    PROVE  PopupsInv'
<1>1. /\ widgets' = [widgets EXCEPT ![p] = @ + 1]
      /\ contexts' = contexts + 1
      /\ shown' = shown \cup {p}
  BY DEF Displays
<1>2. /\ widgets' \in [Popup -> Nat]
      /\ \A q \in Popup : widgets'[q] = IF q = p THEN widgets[p] + 1 ELSE widgets[q]
  BY <1>1 DEF PopupsInv
<1>3. contexts' = InAll(widgets')
  BY <1>1, <1>2 DEF PopupsInv, InAll, Popup
<1> QED
  BY <1>1, <1>2, <1>3 DEF PopupsInv

LEMMA PopupsStep == PopupsInv /\ [ScreenNext]_screenVars => PopupsInv'
<1> SUFFICES ASSUME PopupsInv, [ScreenNext]_screenVars
             PROVE  PopupsInv'
  OBVIOUS
<1>0. "emotes" \in Popup /\ "jobs" \in Popup /\ "deliveries" \in Popup
  BY DEF Popup
<1>same. ASSUME UNCHANGED <<shown, widgets, contexts>> PROVE PopupsInv'
  BY <1>same DEF PopupsInv, InAll
<1>1. ASSUME NEW c \in BOOLEAN, OnConnectedToServer(c) PROVE PopupsInv'
  BY <1>1, <1>same DEF OnConnectedToServer, screenWindows
<1>2. CASE PressEmote
  BY <1>2, <1>same DEF PressEmote, Spawn
<1>3. CASE ReleaseEmote
  BY <1>3, <1>0, ClosesKeeps DEF ReleaseEmote
<1>4. CASE PressJob
  BY <1>4, <1>same DEF PressJob, Spawn, screenWindows
<1>5. ASSUME NEW p \in Popup, OnSpawned(p) PROVE PopupsInv'
  BY <1>5, <1>same, DisplaysKeeps DEF OnSpawned
<1>6. ASSUME NEW name \in JobName, SelectJob(name) PROVE PopupsInv'
  BY <1>6, <1>0, ClosesKeeps DEF SelectJob, CloseList
<1>7. ASSUME NEW p \in {"jobs", "deliveries"}, CancelList(p) PROVE PopupsInv'
  BY <1>7, <1>0, ClosesKeeps DEF CancelList, CloseList
<1>8. CASE AcceptDelivery
  BY <1>8, <1>0, ClosesKeeps DEF AcceptDelivery, CloseList
<1>9. CASE QuitJob
  BY <1>9, <1>0, ClosesKeeps DEF QuitJob, CloseList
<1>10. CASE RiderReady \/ EndTask \/ FinalizeTask
  BY <1>10, <1>same DEF RiderReady, EndTask, FinalizeTask, screenWindows
<1>11. ASSUME NEW name \in Driver, ShowDeliveryListCallback(name) PROVE PopupsInv'
  BY <1>11, <1>same DEF ShowDeliveryListCallback, Spawn
<1>12. ASSUME NEW name \in Driver, SetActiveJob(name) \/ StartDelivery(name) PROVE PopupsInv'
  BY <1>12, <1>same DEF SetActiveJob, StartDelivery, RegisterMappin, screenWindows
<1>15. CASE StartTrip \/ OnDeliveryComplete
  BY <1>15, <1>same DEF StartTrip, RegisterMappin, OnDeliveryComplete, screenWindows
<1>13. CASE OnHotKeySpawn \/ OnActivatePhoneElements
  BY <1>13, <1>same DEF OnHotKeySpawn, OnActivatePhoneElements, screenWindows
<1>14. CASE UNCHANGED screenVars
  BY <1>14, <1>same DEF screenVars, screenWindows
<1> QED
  BY <1>1, <1>2, <1>3, <1>4, <1>5, <1>6, <1>7, <1>8, <1>9, <1>10, <1>11, <1>12, <1>13,
     <1>14, <1>15 DEF ScreenNext

(* PopupsHaveTheirContext for any bounds on what is in flight: whatever     *)
(* order keys, answered spawns, calls of the server and connections come   *)
(* in, each popup on the screen pushed one modal context, and no other is  *)
(* left (MultiplayerGameController.reds).                                  *)
THEOREM ContextsArePaired == ScreenSpec => []PopupsHaveTheirContext
<1>1. ScreenInit => PopupsInv
  BY DEF ScreenInit, PopupsInv, InAll, Popup
<1>2. PopupsInv => PopupsHaveTheirContext
  BY DEF PopupsInv, PopupsHaveTheirContext
<1> QED
  BY <1>1, <1>2, PopupsStep, PTL DEF ScreenSpec

-----------------------------------------------------------------------------
(* What the screen listens to, whatever the hints say.                      *)
Listens ==
    /\ connected => "UIEmote" \in keys
    /\ connected /\ ~activeDelivery => "UIJob" \in keys
    /\ activeDelivery => "UIShop" \in keys

LEMMA HintsAreRight ==
    ASSUME UpdateInputHints, Listens', activeDelivery' \in BOOLEAN
    PROVE  HintsWork'
<1> SUFFICES ASSUME NEW k \in hints' PROVE k \in keys'
  BY DEF HintsWork
<1>1. /\ k \in {"UIEmote", "UIShop", "UIJob"}
      /\ connected'
      /\ k # "UIEmote" => activeDelivery' = (k = "UIShop")
  BY DEF UpdateInputHints
<1> QED
  BY <1>1 DEF Listens

(* A popup that is closed takes no key of the screen away.                  *)
LEMMA KeysStay ==
    ASSUME NEW p \in Popup, NEW k \in {"UIEmote", "UIShop", "UIJob"}, k \in keys
    PROVE  k \in KeysWithout(p)
BY DEF KeysWithout, Own

HintsInv == activeDelivery \in BOOLEAN /\ Listens /\ HintsWork

LEMMA HintsStep == HintsInv /\ [ScreenNext]_screenVars => HintsInv'
<1> SUFFICES ASSUME HintsInv, [ScreenNext]_screenVars
             PROVE  HintsInv'
  OBVIOUS
<1>0. "emotes" \in Popup /\ "jobs" \in Popup /\ "deliveries" \in Popup
  BY DEF Popup
<1>upd. ASSUME UpdateInputHints, Listens', activeDelivery' \in BOOLEAN PROVE HintsInv'
  BY <1>upd, HintsAreRight DEF HintsInv
<1>kept. ASSUME UNCHANGED <<connected, activeDelivery>>,
                \A k \in {"UIEmote", "UIShop", "UIJob"} : k \in keys => k \in keys'
         PROVE  Listens' /\ activeDelivery' \in BOOLEAN
  BY <1>kept DEF HintsInv, Listens
<1>same. ASSUME UNCHANGED <<connected, activeDelivery, hints>>, keys \subseteq keys'
         PROVE  HintsInv'
  BY <1>same DEF HintsInv, Listens, HintsWork
<1>without. ASSUME NEW p \in Popup, keys' = KeysWithout(p)
            PROVE  \A k \in {"UIEmote", "UIShop", "UIJob"} : k \in keys => k \in keys'
  BY <1>without, KeysStay
<1>1. ASSUME NEW c \in BOOLEAN, OnConnectedToServer(c) PROVE HintsInv'
  <2>1. connected' = c /\ activeDelivery' = activeDelivery /\ UpdateInputHints
        /\ keys' = IF c THEN keys \cup {"UIEmote", "UIJob"} ELSE keys \ {"UIEmote", "UIJob"}
    BY <1>1 DEF OnConnectedToServer, screenJobs
  <2>2. Listens' /\ activeDelivery' \in BOOLEAN
    BY <2>1 DEF HintsInv, Listens
  <2> QED
    BY <2>1, <2>2, <1>upd
<1>2. CASE PressEmote
  BY <1>2, <1>upd, <1>kept DEF PressEmote, screenWork, screenJobs
<1>3. CASE ReleaseEmote
  BY <1>3, <1>0, <1>upd, <1>kept, <1>without DEF ReleaseEmote, screenWork, screenJobs
<1>4. CASE PressJob
  BY <1>4, <1>upd, <1>kept DEF PressJob, screenJobs
<1>5. ASSUME NEW p \in Popup, OnSpawned(p) PROVE HintsInv'
  <2>1. keys \subseteq keys'
    BY <1>5 DEF OnSpawned, Displays
  <2> QED
    BY <1>5, <2>1, <1>same DEF OnSpawned
<1>6. ASSUME NEW name \in JobName, SelectJob(name) PROVE HintsInv'
  <2>1. connected' = connected /\ activeDelivery' = activeDelivery
        /\ keys' = KeysWithout("jobs") /\ UpdateInputHints
    BY <1>6 DEF SelectJob, CloseList
  <2> QED
    BY <2>1, <1>0, <1>upd, <1>kept, <1>without
<1>7. ASSUME NEW p \in {"jobs", "deliveries"}, CancelList(p) PROVE HintsInv'
  <2>1. connected' = connected /\ activeDelivery' = activeDelivery
        /\ keys' = KeysWithout(p) /\ UpdateInputHints
    BY <1>7 DEF CancelList, CloseList
  <2> QED
    BY <2>1, <1>0, <1>upd, <1>kept, <1>without
<1>8. CASE AcceptDelivery
  <2>1. connected' = connected /\ activeDelivery' = TRUE
        /\ keys' = DriverKeys(KeysWithout("deliveries")) /\ UpdateInputHints
    BY <1>8 DEF AcceptDelivery, CloseList
  <2>2. Listens' /\ activeDelivery' \in BOOLEAN
    BY <2>1, <1>0, KeysStay DEF HintsInv, Listens, DriverKeys
  <2> QED
    BY <2>1, <2>2, <1>upd
<1>9. CASE QuitJob
  <2>1. connected' = connected /\ activeDelivery' = activeDelivery
        /\ keys' = KeysWithout("deliveries") /\ UpdateInputHints
    BY <1>9 DEF QuitJob, CloseList
  <2> QED
    BY <2>1, <1>0, <1>upd, <1>kept, <1>without
<1>10. CASE RiderReady \/ EndTask \/ FinalizeTask
  BY <1>10, <1>same DEF RiderReady, EndTask, FinalizeTask, screenJobs
<1>11. ASSUME NEW name \in Driver, ShowDeliveryListCallback(name) PROVE HintsInv'
  BY <1>11, <1>upd, <1>kept DEF ShowDeliveryListCallback
<1>12. ASSUME NEW name \in Driver, SetActiveJob(name) \/ StartDelivery(name) PROVE HintsInv'
  BY <1>12, <1>same DEF SetActiveJob, StartDelivery, RegisterMappin, screenJobs
<1>16. CASE StartTrip
  BY <1>16, <1>same DEF StartTrip, RegisterMappin, screenJobs
<1>13. CASE OnDeliveryComplete
  <2>1. connected' = connected /\ activeDelivery' = FALSE /\ keys' = SeekerKeys(keys)
        /\ UpdateInputHints
    BY <1>13 DEF OnDeliveryComplete
  <2>2. Listens' /\ activeDelivery' \in BOOLEAN
    BY <2>1 DEF HintsInv, Listens, SeekerKeys
  <2> QED
    BY <2>1, <2>2, <1>upd
<1>14. CASE OnHotKeySpawn \/ OnActivatePhoneElements
  BY <1>14, <1>same DEF OnHotKeySpawn, OnActivatePhoneElements, screenWork, screenJobs
<1>15. CASE UNCHANGED screenVars
  BY <1>15, <1>same DEF screenVars, screenWork, screenJobs
<1> QED
  BY <1>1, <1>2, <1>3, <1>4, <1>5, <1>6, <1>7, <1>8, <1>9, <1>10, <1>11, <1>12, <1>13,
     <1>14, <1>15, <1>16 DEF ScreenNext

-----------------------------------------------------------------------------
(* The icon: what the screen was told last is where the player is; and the  *)
(* icon is in the place of a list only under one that is open or coming.   *)
IconInv ==
    /\ inVehicle # 2 => inVehicle = IF riding THEN 1 ELSE 0
    /\ icon = "list" => open \cap {"jobs", "deliveries"} # {}
    /\ inVehicle # 2 /\ icon # "list" => icon = IF riding THEN "vehicle" ELSE "phone"

LEMMA IconStep == IconInv /\ [ScreenNext]_screenVars => IconInv'
<1> SUFFICES ASSUME IconInv, [ScreenNext]_screenVars
             PROVE  IconInv'
  OBVIOUS
<1>same. ASSUME UNCHANGED <<riding, inVehicle, icon>>,
                open \cap {"jobs", "deliveries"} \subseteq open'
         PROVE  IconInv'
  BY <1>same DEF IconInv
<1>list. ASSUME UNCHANGED <<riding, inVehicle>>, icon' = "list",
                open' \cap {"jobs", "deliveries"} # {}
         PROVE  IconInv'
  BY <1>list DEF IconInv
<1>close. ASSUME NEW p \in Popup, CloseList(p) PROVE IconInv'
  BY <1>close DEF IconInv, CloseList, IconHome
<1>0. "jobs" \in Popup /\ "deliveries" \in Popup
  BY DEF Popup
<1>1. ASSUME NEW c \in BOOLEAN, OnConnectedToServer(c) PROVE IconInv'
  BY <1>1, <1>same DEF OnConnectedToServer, screenWindows, screenIcon
<1>2. CASE PressEmote
  BY <1>2, <1>same DEF PressEmote, Spawn, screenIcon
<1>3. CASE ReleaseEmote
  BY <1>3, <1>same DEF ReleaseEmote, Closes, screenIcon
<1>4. CASE PressJob
  <2>1. CASE activeJob
    BY <1>4, <2>1, <1>same DEF PressJob, screenWindows
  <2>2. CASE ~activeJob
    BY <1>4, <2>2, <1>list DEF PressJob, Spawn
  <2> QED
    BY <2>1, <2>2
<1>5. ASSUME NEW p \in Popup, OnSpawned(p) PROVE IconInv'
  BY <1>5, <1>same DEF OnSpawned, screenIcon
<1>6. ASSUME NEW name \in JobName, SelectJob(name) PROVE IconInv'
  BY <1>6, <1>0, <1>close DEF SelectJob
<1>7. ASSUME NEW p \in {"jobs", "deliveries"}, CancelList(p) PROVE IconInv'
  BY <1>7, <1>0, <1>close DEF CancelList
<1>8. CASE AcceptDelivery
  BY <1>8, <1>0, <1>close DEF AcceptDelivery
<1>9. CASE QuitJob
  BY <1>9, <1>0, <1>close DEF QuitJob
<1>10. CASE RiderReady \/ EndTask \/ FinalizeTask \/ StartTrip \/ OnDeliveryComplete
  BY <1>10, <1>same DEF RiderReady, EndTask, FinalizeTask, StartTrip, RegisterMappin,
     OnDeliveryComplete, screenWindows, screenIcon
<1>15. ASSUME NEW name \in Driver, SetActiveJob(name) \/ StartDelivery(name) PROVE IconInv'
  BY <1>15, <1>same DEF SetActiveJob, StartDelivery, RegisterMappin, screenWindows, screenIcon
<1>11. ASSUME NEW name \in Driver, ShowDeliveryListCallback(name) PROVE IconInv'
  BY <1>11, <1>list DEF ShowDeliveryListCallback, Spawn
<1>12. CASE OnHotKeySpawn
  BY <1>12 DEF OnHotKeySpawn, IconInv, screenWindows
<1>13. CASE OnActivatePhoneElements
  <2>1. /\ riding' \in BOOLEAN
        /\ inVehicle' = IF riding' THEN 1 ELSE 0
        /\ icon' = IF inVehicle' = inVehicle THEN icon
                   ELSE IF riding' THEN "vehicle" ELSE "phone"
        /\ open' = open
    BY <1>13 DEF OnActivatePhoneElements, screenWindows
  <2>2. CASE inVehicle' = inVehicle
    BY <2>1, <2>2 DEF IconInv
  <2>3. CASE inVehicle' # inVehicle
    BY <2>1, <2>3 DEF IconInv
  <2> QED
    BY <2>2, <2>3
<1>14. CASE UNCHANGED screenVars
  BY <1>14, <1>same DEF screenVars, screenWindows, screenIcon
<1> QED
  BY <1>1, <1>2, <1>3, <1>4, <1>5, <1>6, <1>7, <1>8, <1>9, <1>10, <1>11, <1>12, <1>13,
     <1>14, <1>15 DEF ScreenNext

-----------------------------------------------------------------------------
(* A popup that is displayed asks for its input, one that is closed gives   *)
(* it back; the two lists share theirs.                                    *)
LEMMA RequestsStep == InputHasItsPopup /\ [ScreenNext]_screenVars => InputHasItsPopup'
<1> SUFFICES ASSUME InputHasItsPopup, [ScreenNext]_screenVars
             PROVE  InputHasItsPopup'
  OBVIOUS
<1>same. ASSUME UNCHANGED <<shown, requests>> PROVE InputHasItsPopup'
  BY <1>same DEF InputHasItsPopup
<1>close. ASSUME NEW p \in Popup, Closes(p) PROVE InputHasItsPopup'
  <2>1. CASE p \in shown
    <3>1. shown' = shown \ {p} /\ requests' = requests \ {Request(p)}
      BY <1>close, <2>1 DEF Closes
    <3>2. ASSUME NEW r \in requests' PROVE r \in {Request(q) : q \in shown'}
      <4>1. r \in requests /\ r # Request(p)
        BY <3>1, <3>2
      <4>2. PICK q \in shown : r = Request(q)
        BY <4>1 DEF InputHasItsPopup
      <4> QED
        BY <3>1, <4>1, <4>2
    <3> QED
      BY <3>2 DEF InputHasItsPopup
  <2>2. CASE p \notin shown
    <3>1. shown' = shown /\ requests' = requests
      BY <1>close, <2>2 DEF Closes
    <3> QED
      BY <3>1, <1>same
  <2> QED
    BY <2>1, <2>2
<1>0. "emotes" \in Popup /\ "jobs" \in Popup /\ "deliveries" \in Popup
  BY DEF Popup
<1>1. ASSUME NEW c \in BOOLEAN, OnConnectedToServer(c) PROVE InputHasItsPopup'
  BY <1>1, <1>same DEF OnConnectedToServer, screenWindows
<1>2. CASE PressEmote
  BY <1>2, <1>same DEF PressEmote, Spawn
<1>12. ASSUME NEW name \in Driver, ShowDeliveryListCallback(name) PROVE InputHasItsPopup'
  BY <1>12, <1>same DEF ShowDeliveryListCallback, Spawn
<1>13. ASSUME NEW name \in Driver, SetActiveJob(name) \/ StartDelivery(name)
       PROVE  InputHasItsPopup'
  BY <1>13, <1>same DEF SetActiveJob, StartDelivery, RegisterMappin, screenWindows
<1>3. CASE ReleaseEmote
  BY <1>3, <1>0, <1>close DEF ReleaseEmote
<1>4. CASE PressJob
  BY <1>4, <1>same DEF PressJob, Spawn, screenWindows
<1>5. ASSUME NEW p \in Popup, OnSpawned(p) PROVE InputHasItsPopup'
  <2>1. CASE p \in open
    <3>1. shown' = shown \cup {p} /\ requests' = requests \cup {Request(p)}
      BY <1>5, <2>1 DEF OnSpawned, Displays
    <3> QED
      BY <3>1 DEF InputHasItsPopup
  <2>2. CASE p \notin open
    BY <1>5, <2>2, <1>same DEF OnSpawned
  <2> QED
    BY <2>1, <2>2
<1>6. ASSUME NEW name \in JobName, SelectJob(name) PROVE InputHasItsPopup'
  BY <1>6, <1>0, <1>close DEF SelectJob, CloseList
<1>7. ASSUME NEW p \in {"jobs", "deliveries"}, CancelList(p) PROVE InputHasItsPopup'
  BY <1>7, <1>0, <1>close DEF CancelList, CloseList
<1>8. CASE AcceptDelivery \/ QuitJob
  BY <1>8, <1>0, <1>close DEF AcceptDelivery, QuitJob, CloseList
<1>9. CASE RiderReady \/ EndTask \/ FinalizeTask \/ StartTrip \/ OnDeliveryComplete
  BY <1>9, <1>same DEF RiderReady, EndTask, FinalizeTask, StartTrip, RegisterMappin,
     OnDeliveryComplete, screenWindows
<1>10. CASE OnHotKeySpawn \/ OnActivatePhoneElements
  BY <1>10, <1>same DEF OnHotKeySpawn, OnActivatePhoneElements, screenWindows
<1>11. CASE UNCHANGED screenVars
  BY <1>11, <1>same DEF screenVars, screenWindows
<1> QED
  BY <1>1, <1>2, <1>3, <1>4, <1>5, <1>6, <1>7, <1>8, <1>9, <1>10, <1>11, <1>12,
     <1>13 DEF ScreenNext

-----------------------------------------------------------------------------
(* The marker.  f[i] says where it is once the first i of the calls on      *)
(* their way have been received: one that starts a task finds none, a trip  *)
(* finds that of the pick-up, an end finds one, and no other call moves it. *)
Moves(c, place) ==
    IF c \in {"delivery", "trip"} THEN "goal"
    ELSE IF c = "pickup" THEN "pickup"
    ELSE IF c = "end" THEN "none"
    ELSE place

Fitting(c, place) ==
    /\ c \in {"delivery", "pickup"} => place = "none"
    /\ c = "trip" => place = "pickup"
    /\ c = "end" => place # "none"

Course(f, cs) ==
    /\ f \in [0 .. Len(cs) -> Place]
    /\ \A i \in 1 .. Len(cs) : Fitting(cs[i], f[i - 1]) /\ f[i] = Moves(cs[i], f[i - 1])
    /\ \A i, j \in 0 .. Len(cs) : i <= j /\ f[i] # f[j] => \E k \in (i + 1) .. j : cs[k] \in Sign

MarkersInv ==
    /\ calls \in Seq(Call)
    /\ {mappin, task} \subseteq Place
    /\ job \in Driver \cup {"none"}
    /\ ~abandoned =>
          /\ ~former
          /\ markers = IF mappin = "none" THEN 0 ELSE 1
          /\ \E f : Course(f, calls) /\ f[0] = mappin /\ f[Len(calls)] = task

(* One more call, and what it leaves behind.                                *)
LEMMA CourseGrows ==
    ASSUME NEW cs \in Seq(Call), NEW c \in Call, NEW f, Course(f, cs),
           Fitting(c, f[Len(cs)])
    PROVE  \E g : /\ Course(g, Append(cs, c))
                  /\ g[0] = f[0]
                  /\ g[Len(Append(cs, c))] = Moves(c, f[Len(cs)])
<1> DEFINE n == Len(cs)
           onward == Moves(c, f[n])
           g == [i \in 0 .. n + 1 |-> IF i = n + 1 THEN onward ELSE f[i]]
           ds == Append(cs, c)
<1>1. n \in Nat /\ Len(ds) = n + 1 /\ ds[n + 1] = c /\ \A i \in 1 .. n : ds[i] = cs[i]
  OBVIOUS
<1>2. f \in [0 .. n -> Place] /\ n \in 0 .. n /\ onward \in Place
  <2>1. f \in [0 .. n -> Place] /\ n \in 0 .. n
    BY <1>1 DEF Course
  <2>2. f[n] \in Place
    BY <2>1
  <2> QED
    BY <2>1, <2>2 DEF Moves, Place
<1>3. /\ \A i \in 0 .. n : g[i] = f[i]
      /\ g[n + 1] = onward
      /\ g \in [0 .. n + 1 -> Place]
  <2> HIDE DEF onward
  <2> QED
    BY <1>1, <1>2
<1>4. onward = Moves(c, f[n])
  OBVIOUS
<1> HIDE DEF n, onward, g, ds
<1>5. ASSUME NEW i \in 1 .. n + 1
      PROVE  Fitting(ds[i], g[i - 1]) /\ g[i] = Moves(ds[i], g[i - 1])
  <2>1. CASE i \in 1 .. n
    <3>1. i - 1 \in 0 .. n /\ i \in 0 .. n
      BY <2>1, <1>1
    <3>2. ds[i] = cs[i] /\ g[i] = f[i] /\ g[i - 1] = f[i - 1]
      BY <2>1, <3>1, <1>1, <1>3
    <3> QED
      BY <2>1, <3>2 DEF Course, n
  <2>2. CASE i = n + 1
    <3>1. i - 1 = n /\ g[i - 1] = f[n] /\ g[i] = onward /\ ds[i] = c
      BY <2>2, <1>1, <1>2, <1>3
    <3> QED
      BY <3>1, <1>4 DEF n
  <2> QED
    BY <2>1, <2>2, <1>1
<1>6. ASSUME NEW i \in 0 .. n + 1, NEW j \in 0 .. n + 1, i <= j, g[i] # g[j]
      PROVE  \E k \in (i + 1) .. j : ds[k] \in Sign
  <2>1. CASE j \in 0 .. n
    <3>1. i \in 0 .. n
      BY <2>1, <1>1, <1>6
    <3>2. PICK k \in (i + 1) .. j : cs[k] \in Sign
      BY <2>1, <3>1, <1>3, <1>6 DEF Course, n
    <3>3. k \in 1 .. n
      BY <2>1, <3>1, <3>2, <1>1
    <3> QED
      BY <3>2, <3>3, <1>1
  <2>2. CASE j = n + 1 /\ c \in Sign
    <3>1. i # j
      BY <1>6
    <3>2. j \in (i + 1) .. j
      BY <3>1, <1>6, <1>1
    <3> QED
      BY <2>2, <3>2, <1>1
  <2>3. CASE j = n + 1 /\ c \notin Sign
    <3>1. onward = f[n]
      BY <2>3, <1>4 DEF Moves, Sign
    <3>2. i \in 0 .. n /\ n \in 0 .. n /\ i <= n
      BY <2>3, <1>6, <1>1
    <3>3. f[i] # f[n]
      BY <3>1, <3>2, <2>3, <1>3, <1>6
    <3>4. PICK k \in (i + 1) .. n : cs[k] \in Sign
      BY <3>2, <3>3 DEF Course, n
    <3>5. k \in 1 .. n /\ k \in (i + 1) .. j
      BY <3>2, <3>4, <2>3, <1>1
    <3> QED
      BY <3>4, <3>5, <1>1
  <2> QED
    BY <2>1, <2>2, <2>3, <1>1
<1>7. Course(g, ds)
  BY <1>1, <1>3, <1>5, <1>6 DEF Course
<1>8. g[0] = f[0] /\ g[Len(ds)] = onward
  BY <1>1, <1>3
<1> QED
  BY <1>4, <1>7, <1>8 DEF ds, n

(* The first call is received.                                              *)
LEMMA CourseGoesOn ==
    ASSUME NEW cs \in Seq(Call), cs # <<>>, NEW f, Course(f, cs)
    PROVE  \E g : /\ Course(g, Tail(cs))
                  /\ g[0] = f[1]
                  /\ g[Len(Tail(cs))] = f[Len(cs)]
<1> DEFINE n == Len(cs)
           g == [i \in 0 .. n - 1 |-> f[i + 1]]
           ds == Tail(cs)
<1>1. n \in Nat /\ n > 0 /\ Len(ds) = n - 1 /\ \A i \in 1 .. n - 1 : ds[i] = cs[i + 1]
  OBVIOUS
<1>2. /\ f \in [0 .. n -> Place]
      /\ \A i \in 0 .. n - 1 : g[i] = f[i + 1]
      /\ g \in [0 .. n - 1 -> Place]
  BY <1>1 DEF Course
<1> HIDE DEF n, g, ds
<1>3. ASSUME NEW i \in 1 .. n - 1
      PROVE  Fitting(ds[i], g[i - 1]) /\ g[i] = Moves(ds[i], g[i - 1])
  <2>1. i + 1 \in 1 .. n /\ i - 1 \in 0 .. n - 1 /\ i \in 0 .. n - 1 /\ (i + 1) - 1 = i
        /\ (i - 1) + 1 = i
    BY <1>1
  <2>2. ds[i] = cs[i + 1] /\ g[i - 1] = f[i] /\ g[i] = f[i + 1]
    BY <2>1, <1>1, <1>2
  <2>3. Fitting(cs[i + 1], f[(i + 1) - 1]) /\ f[i + 1] = Moves(cs[i + 1], f[(i + 1) - 1])
    BY <2>1 DEF Course, n
  <2> QED
    BY <2>1, <2>2, <2>3
<1>4. ASSUME NEW i \in 0 .. n - 1, NEW j \in 0 .. n - 1, i <= j, g[i] # g[j]
      PROVE  \E k \in (i + 1) .. j : ds[k] \in Sign
  <2>1. i + 1 \in 0 .. n /\ j + 1 \in 0 .. n /\ i + 1 <= j + 1 /\ f[i + 1] # f[j + 1]
    BY <1>1, <1>2, <1>4
  <2>2. PICK k \in ((i + 1) + 1) .. (j + 1) : cs[k] \in Sign
    BY <2>1 DEF Course, n
  <2>3. k - 1 \in (i + 1) .. j /\ k - 1 \in 1 .. n - 1 /\ (k - 1) + 1 = k
    BY <2>2, <1>1
  <2> QED
    BY <2>2, <2>3, <1>1
<1>5. Course(g, ds)
  BY <1>1, <1>2, <1>3, <1>4 DEF Course
<1>6. g[0] = f[1] /\ g[Len(ds)] = f[n]
  BY <1>1, <1>2
<1> QED
  BY <1>5, <1>6 DEF ds, n

(* One more call, or none, that no marker moves for.                        *)
LEMMA ListsAreNoSigns ==
    ASSUME NEW name \in Driver, NEW cs \in Seq(Call),
           NEW p, \E f : Course(f, cs) /\ f[0] = p /\ f[Len(cs)] = task
    PROVE  /\ cs \o ServerLists(name) \in Seq(Call)
           /\ \E f : /\ Course(f, cs \o ServerLists(name))
                     /\ f[0] = p
                     /\ f[Len(cs \o ServerLists(name))] = task
<1>1. CASE job # name
  <2>1. cs \o ServerLists(name) = cs
    BY <1>1 DEF ServerLists
  <2> QED
    BY <2>1
<1>2. CASE job = name
  <2> DEFINE c == ListOf(name)
  <2>1. c \in Call /\ c \notin Sign
    BY DEF ListOf, Call, Sign
  <2>2. cs \o ServerLists(name) = Append(cs, c) /\ Append(cs, c) \in Seq(Call)
    BY <1>2, <2>1 DEF ServerLists
  <2> HIDE DEF c
  <2>3. PICK f : Course(f, cs) /\ f[0] = p /\ f[Len(cs)] = task
    OBVIOUS
  <2>4. Fitting(c, f[Len(cs)]) /\ Moves(c, f[Len(cs)]) = f[Len(cs)]
    BY <2>1 DEF Fitting, Moves, Sign
  <2> QED
    BY <2>1, <2>2, <2>3, <2>4, CourseGrows
<1> QED
  BY <1>1, <1>2

LEMMA MarkersStep == MarkersInv /\ [ScreenNext]_screenVars => MarkersInv'
<1> SUFFICES ASSUME MarkersInv, [ScreenNext]_screenVars
             PROVE  MarkersInv'
  OBVIOUS
<1>same. ASSUME UNCHANGED <<calls, former, markers, mappin, task>>, abandoned => abandoned',
                job' \in Driver \cup {"none"}
         PROVE  MarkersInv'
  BY <1>same DEF MarkersInv
<1>job. job \in Driver \cup {"none"}
  BY DEF MarkersInv
<1>send. ASSUME NEW c \in Call, Send(c), UNCHANGED <<former, markers, mappin, abandoned>>,
                job' \in Driver \cup {"none"},
                Fitting(c, task), task' = Moves(c, task)
         PROVE  MarkersInv'
  <2>1. calls' = Append(calls, c) /\ calls' \in Seq(Call)
    BY <1>send DEF Send, MarkersInv
  <2>2. ASSUME ~abandoned PROVE \E f : Course(f, calls') /\ f[0] = mappin /\ f[Len(calls')] = task'
    <3>1. PICK f : Course(f, calls) /\ f[0] = mappin /\ f[Len(calls)] = task
      BY <2>2 DEF MarkersInv
    <3>2. \E g : /\ Course(g, Append(calls, c))
                 /\ g[0] = f[0]
                 /\ g[Len(Append(calls, c))] = Moves(c, f[Len(calls)])
      BY <3>1, <1>send, CourseGrows DEF MarkersInv
    <3> QED
      BY <3>1, <3>2, <2>1, <1>send
  <2>3. task' \in Place
    BY <1>send DEF MarkersInv, Moves, Place
  <2> QED
    BY <2>1, <2>2, <2>3, <1>send DEF MarkersInv
<1>recv. ASSUME NEW c \in Call, Receive(c), UNCHANGED <<former, job, task, abandoned>>,
                mappin' = Moves(c, mappin),
                ~abandoned /\ Fitting(c, mappin) => markers' = IF mappin' = "none" THEN 0 ELSE 1
         PROVE  MarkersInv'
  <2>1. calls # <<>> /\ calls' = Tail(calls) /\ calls' \in Seq(Call) /\ calls[1] = c
    BY <1>recv DEF Receive, MarkersInv
  <2>2. ASSUME ~abandoned
        PROVE  /\ markers' = IF mappin' = "none" THEN 0 ELSE 1
               /\ \E f : Course(f, calls') /\ f[0] = mappin' /\ f[Len(calls')] = task
    <3>1. PICK f : Course(f, calls) /\ f[0] = mappin /\ f[Len(calls)] = task
      BY <2>2 DEF MarkersInv
    <3>2. 1 \in 1 .. Len(calls) /\ 1 - 1 = 0
      BY <2>1 DEF MarkersInv
    <3>3. Fitting(c, mappin) /\ f[1] = mappin'
      BY <3>1, <3>2, <2>1, <1>recv DEF Course
    <3>4. \E g : Course(g, Tail(calls)) /\ g[0] = f[1] /\ g[Len(Tail(calls))] = f[Len(calls)]
      BY <3>1, <2>1, CourseGoesOn DEF MarkersInv
    <3> QED
      BY <3>1, <3>3, <3>4, <2>1, <2>2, <1>recv
  <2>3. mappin' \in Place
    BY <1>recv DEF MarkersInv, Moves, Place
  <2> QED
    BY <2>1, <2>2, <2>3, <1>recv DEF MarkersInv
<1>1. ASSUME NEW c \in BOOLEAN, OnConnectedToServer(c) PROVE MarkersInv'
  <2>1. /\ calls' = <<>> /\ task' = "none" /\ former' = FALSE /\ job' = "none"
        /\ markers' = markers /\ mappin' = mappin
        /\ abandoned' = (abandoned \/ markers > 0)
    BY <1>1 DEF OnConnectedToServer, screenMap
  <2>2. calls' \in Seq(Call) /\ Len(calls') = 0
    BY <2>1
  <2>3. ASSUME ~abandoned' PROVE \E f : Course(f, calls') /\ f[0] = mappin' /\ f[Len(calls')] = task'
    <3>1. mappin = "none"
      <4>1. ~abandoned /\ ~(markers > 0)
        BY <2>1, <2>3
      <4>2. markers = IF mappin = "none" THEN 0 ELSE 1
        BY <4>1 DEF MarkersInv
      <4> QED
        BY <4>1, <4>2
    <3>2. Course([i \in 0 .. 0 |-> "none"], calls')
      BY <2>2 DEF Course, Place
    <3> QED
      BY <3>1, <3>2, <2>1, <2>2
  <2>4. {mappin', task'} \subseteq Place
    BY <2>1 DEF MarkersInv, Place
  <2> QED
    BY <2>1, <2>2, <2>3, <2>4 DEF MarkersInv
<1>2. CASE PressEmote \/ ReleaseEmote
  BY <1>2, <1>job, <1>same DEF PressEmote, ReleaseEmote, screenWork, screenMap, screenServer
<1>lists. ASSUME NEW name \in Driver, NEW cs \in Seq(Call), calls' = cs \o ServerLists(name),
                 ~abandoned => \E f : Course(f, cs) /\ f[0] = mappin /\ f[Len(cs)] = task,
                 UNCHANGED <<former, markers, mappin, abandoned, job, task>>
          PROVE  MarkersInv'
  <2>1. calls' \in Seq(Call)
    <3>1. CASE job = name
      <4>1. PICK c \in Call : c = ListOf(name)
        BY DEF ListOf, Call
      <4>2. ServerLists(name) = <<c>>
        BY <3>1, <4>1 DEF ServerLists
      <4> QED
        BY <4>2, <1>lists
    <3>2. CASE job # name
      BY <3>2, <1>lists DEF ServerLists
    <3> QED
      BY <3>1, <3>2
  <2>2. ASSUME ~abandoned
        PROVE  \E f : Course(f, calls') /\ f[0] = mappin /\ f[Len(calls')] = task
    <3>1. \E f : Course(f, cs) /\ f[0] = mappin /\ f[Len(cs)] = task
      BY <1>lists, <2>2
    <3>2. \E f : /\ Course(f, cs \o ServerLists(name))
                 /\ f[0] = mappin
                 /\ f[Len(cs \o ServerLists(name))] = task
      BY <3>1, <1>lists, ListsAreNoSigns
    <3> QED
      BY <3>2, <1>lists
  <2> QED
    BY <2>1, <2>2, <1>lists DEF MarkersInv
<1>3. CASE PressJob
  <2>1. UNCHANGED <<former, markers, mappin, abandoned, task, job>>
    BY <1>3 DEF PressJob, screenMap
  <2>2. CASE activeJob
    <3>1. calls' = calls \o ServerLists("Delivery Driver")
      BY <1>3, <2>2 DEF PressJob
    <3> QED
      BY <2>1, <3>1, <1>lists DEF MarkersInv, Driver
  <2>3. CASE ~activeJob
    BY <1>3, <2>1, <2>3, <1>job, <1>same DEF PressJob
  <2> QED
    BY <2>2, <2>3
<1>4. ASSUME NEW p \in Popup, OnSpawned(p) PROVE MarkersInv'
  BY <1>4, <1>job, <1>same DEF OnSpawned, screenMap, screenServer
<1>5. ASSUME NEW name \in JobName, SelectJob(name) PROVE MarkersInv'
  <2>1. UNCHANGED <<former, markers, mappin, abandoned, task>>
    BY <1>5 DEF SelectJob, screenMap
  <2>2. job' \in Driver \cup {"none"}
    BY <1>5, <1>job DEF SelectJob, JobName, Driver
  <2>3. UNCHANGED calls \/ (job' \in Driver /\ Send(job'))
    BY <1>5 DEF SelectJob
  <2>4. ASSUME job' \in Driver, Send(job') PROVE MarkersInv'
    <3>1. job' \in Call /\ Fitting(job', task) /\ Moves(job', task) = task
      BY <2>4 DEF Call, Fitting, Moves, Driver
    <3>2. PICK c \in Call : c = job'
      BY <3>1
    <3> QED
      BY <2>1, <2>2, <2>4, <3>1, <3>2, <1>send
  <2> QED
    BY <2>1, <2>2, <2>3, <2>4, <1>same
<1>6. ASSUME NEW p \in {"jobs", "deliveries"}, CancelList(p) PROVE MarkersInv'
  BY <1>6, <1>job, <1>same DEF CancelList, screenMap, screenServer
<1>7. CASE AcceptDelivery
  <2>1. UNCHANGED <<former, markers, mappin, abandoned, job>>
    BY <1>7 DEF AcceptDelivery, screenMap
  <2>2. \/ UNCHANGED <<task, calls>>
        \/ /\ task = "none"
           /\ task' = FirstPlace(listed)
           /\ Send(StartCall(listed))
    BY <1>7 DEF AcceptDelivery
  <2>3. CASE task = "none" /\ task' = FirstPlace(listed) /\ Send(StartCall(listed))
    <3>1. /\ StartCall(listed) \in Call
          /\ Fitting(StartCall(listed), task)
          /\ task' = Moves(StartCall(listed), task)
      BY <2>3 DEF StartCall, FirstPlace, Call, Fitting, Moves
    <3> QED
      BY <2>1, <2>3, <3>1, <1>job, <1>send
  <2> QED
    BY <2>1, <2>2, <2>3, <1>job, <1>same
<1>8. CASE QuitJob
  <2>1. /\ UNCHANGED <<markers, mappin, calls>>
        /\ task' = "none"
        /\ job' = "none"
        /\ former' = (former \/ task # "none")
        /\ abandoned' = (abandoned \/ task # "none")
    BY <1>8 DEF QuitJob, screenMap
  <2>2. "none" \in Place
    BY DEF Place
  <2> QED
    BY <2>1, <2>2 DEF MarkersInv
<1>9. CASE EndTask
  BY <1>9, <1>job, <1>send DEF EndTask, screenMap, Call, Fitting, Moves
<1>16. CASE RiderReady
  BY <1>16, <1>job, <1>send DEF RiderReady, screenMap, Call, Fitting, Moves
<1>10. CASE FinalizeTask
  <2>1. abandoned
    BY <1>10 DEF FinalizeTask, MarkersInv
  <2>2. abandoned' /\ calls' \in Seq(Call) /\ UNCHANGED <<mappin, task, job>>
    BY <1>10, <2>1 DEF FinalizeTask, Send, MarkersInv, Call, screenMap
  <2> QED
    BY <2>2 DEF MarkersInv
<1>17. ASSUME NEW name \in Driver, SetActiveJob(name) PROVE MarkersInv'
  <2>1. /\ calls # <<>> /\ calls[1] = name /\ Tail(calls) \in Seq(Call)
        /\ calls' = Tail(calls) \o ServerLists(name)
        /\ UNCHANGED <<former, markers, mappin, abandoned, job, task>>
    BY <1>17 DEF SetActiveJob, screenMap, MarkersInv
  <2>2. ASSUME ~abandoned
        PROVE  \E f : Course(f, Tail(calls)) /\ f[0] = mappin /\ f[Len(Tail(calls))] = task
    <3>1. PICK f : Course(f, calls) /\ f[0] = mappin /\ f[Len(calls)] = task
      BY <2>2 DEF MarkersInv
    <3>2. 1 \in 1 .. Len(calls) /\ 1 - 1 = 0
      BY <2>1 DEF MarkersInv
    <3>3. f[1] = f[0]
      BY <3>1, <3>2, <2>1 DEF Course, Moves, Driver
    <3> QED
      BY <3>1, <3>3, <2>1, CourseGoesOn DEF MarkersInv
  <2> QED
    BY <2>1, <2>2, <1>lists
<1>11. ASSUME NEW name \in Driver, ShowDeliveryListCallback(name) PROVE MarkersInv'
  <2>1. ListOf(name) \in Call /\ Moves(ListOf(name), mappin) = mappin
    BY DEF ListOf, Call, Moves
  <2>2. /\ Receive(ListOf(name))
        /\ UNCHANGED <<former, job, task, abandoned, markers, mappin>>
    BY <1>11 DEF ShowDeliveryListCallback, screenMap
  <2> QED
    BY <2>1, <2>2, <1>recv DEF MarkersInv
<1>12. ASSUME NEW name \in Driver, StartDelivery(name) PROVE MarkersInv'
  <2>1. /\ Receive(StartCall(name)) /\ markers' = markers + 1 /\ mappin' = FirstPlace(name)
        /\ UNCHANGED <<former, job, task, abandoned>>
    BY <1>12 DEF StartDelivery, RegisterMappin
  <2>2. StartCall(name) \in Call /\ FirstPlace(name) = Moves(StartCall(name), mappin)
    BY DEF StartCall, FirstPlace, Call, Moves
  <2>3. ASSUME ~abandoned, Fitting(StartCall(name), mappin)
        PROVE  markers' = IF mappin' = "none" THEN 0 ELSE 1
    <3>1. mappin = "none"
      BY <2>3 DEF Fitting, StartCall
    <3>2. markers = 0
      BY <2>3, <3>1 DEF MarkersInv
    <3>3. mappin' # "none"
      BY <2>1 DEF FirstPlace
    <3> QED
      BY <2>1, <3>2, <3>3
  <2> QED
    BY <2>1, <2>2, <2>3, <1>recv
<1>18. CASE StartTrip
  <2>1. /\ Receive("trip") /\ markers' = Unregistered + 1 /\ mappin' = "goal"
        /\ UNCHANGED <<former, job, task, abandoned>>
    BY <1>18 DEF StartTrip, RegisterMappin
  <2>2. "trip" \in Call /\ "goal" = Moves("trip", mappin)
    BY DEF Call, Moves
  <2>3. ~abandoned /\ Fitting("trip", mappin) => markers' = IF mappin' = "none" THEN 0 ELSE 1
    BY <2>1 DEF MarkersInv, Fitting, Unregistered
  <2> QED
    BY <2>1, <2>2, <2>3, <1>recv
<1>13. CASE OnDeliveryComplete
  <2>1. /\ Receive("end") /\ markers' = Unregistered /\ mappin' = "none"
        /\ UNCHANGED <<former, job, task, abandoned>>
    BY <1>13 DEF OnDeliveryComplete
  <2>2. "end" \in Call /\ "none" = Moves("end", mappin)
    BY DEF Call, Moves
  <2>3. ~abandoned /\ Fitting("end", mappin) => markers' = IF mappin' = "none" THEN 0 ELSE 1
    BY <2>1 DEF MarkersInv, Fitting, Unregistered
  <2> QED
    BY <2>1, <2>2, <2>3, <1>recv
<1>14. CASE OnHotKeySpawn \/ OnActivatePhoneElements
  BY <1>14, <1>job, <1>same DEF OnHotKeySpawn, OnActivatePhoneElements, screenWork, screenMap,
     screenServer
<1>15. CASE UNCHANGED screenVars
  BY <1>15, <1>job, <1>same DEF screenVars, screenWork, screenMap, screenServer
<1> QED
  BY <1>1, <1>2, <1>3, <1>4, <1>5, <1>6, <1>7, <1>8, <1>9, <1>10, <1>11, <1>12, <1>13,
     <1>14, <1>15, <1>16, <1>17, <1>18 DEF ScreenNext

LEMMA MarkersRight == MarkersInv => MarkersFollowTasks
<1> SUFFICES ASSUME MarkersInv, ~abandoned, ToSet(calls) \cap Sign = {}
             PROVE  mappin = task
  BY DEF MarkersFollowTasks, MarkersInv
<1>1. PICK f : Course(f, calls) /\ f[0] = mappin /\ f[Len(calls)] = task
  BY DEF MarkersInv
<1>2. Len(calls) \in Nat /\ 0 \in 0 .. Len(calls) /\ Len(calls) \in 0 .. Len(calls)
  BY DEF MarkersInv
<1>3. \A k \in (0 + 1) .. Len(calls) : calls[k] \notin Sign
  BY <1>2 DEF ToSet, MarkersInv
<1> QED
  BY <1>1, <1>2, <1>3 DEF Course

(* ScreenIsTrue for any bounds on what is in flight: a hint is displayed    *)
(* for keys that do something, the marker is there while the delivery is,  *)
(* the icon is where the player is and no input context outlives its       *)
(* popups (MultiplayerGameController.reds).                                *)
THEOREM ScreenStaysTrue == ScreenSpec => []ScreenIsTrue
<1>1. ScreenInit => HintsInv /\ IconInv /\ InputHasItsPopup
  BY DEF ScreenInit, HintsInv, Listens, HintsWork, IconInv, InputHasItsPopup
<1>2. ScreenInit => MarkersInv
  <2> SUFFICES ASSUME ScreenInit PROVE MarkersInv
    OBVIOUS
  <2>1. /\ calls = <<>> /\ mappin = "none" /\ task = "none" /\ markers = 0 /\ former = FALSE
        /\ job = "none"
    BY DEF ScreenInit
  <2>2. Course([i \in 0 .. 0 |-> "none"], calls)
    BY <2>1 DEF Course, Place
  <2> QED
    BY <2>1, <2>2 DEF MarkersInv, Place
<1>3. HintsInv /\ IconInv /\ InputHasItsPopup /\ MarkersFollowTasks => ScreenIsTrue
  BY DEF HintsInv, IconInv, IconInPlace, ScreenIsTrue
<1> QED
  BY <1>1, <1>2, <1>3, HintsStep, IconStep, RequestsStep, MarkersStep, MarkersRight,
     PTL DEF ScreenSpec

-----------------------------------------------------------------------------
(* Appearances.  What is sent, and later filed, of a player: none but its   *)
(* garments, and all of them unless the connection was forced.             *)
Fits(look, whose) ==
    /\ look.items \subseteq whose.items
    /\ whose.whole => look.items = whose.items

Whose == [items : SUBSET Garment, whole : BOOLEAN]
Notice == {n \in [load : BOOLEAN, who : Wearer, look : Look, meant : Whose] : Fits(n.look, n.meant)}

(* Two good looks in a row are of an equipment that is complete.            *)
InTime ==
    \A p \in Wearer :
        /\ loadout[p] \subseteq outfit[p]
        /\ poll[p] = NoPoll \/ poll[p].left \in Nat
        /\ poll[p].streak = 1 => glimpsed[p]
        /\ link[p] = "waiting" /\ ~forced[p] => loadout[p] = outfit[p]

(* Nobody is dressed before its body is asked for.                          *)
Dressed ==
    /\ \A p \in Wearer : bodyOf[p] <= made
    /\ \A b \in Bodies :
          /\ Fits(looks[b], meant[b])
          /\ worn[b] \subseteq looks[b].items
          /\ ~looks[b].ccstate => worn[b] = {}
          /\ b > made => worn[b] = {}

LooksInv ==
    /\ AppearanceTypeOK
    /\ meant \in [Bodies -> Whose]
    /\ wire \in Seq(Notice)
    /\ InTime
    /\ Dressed

LEMMA LooksStart == AppearanceInit => LooksInv
<1> SUFFICES ASSUME AppearanceInit PROVE LooksInv
  OBVIOUS
<1> USE AppearanceAssumption DEF AppearanceInit
<1>1. AppearanceTypeOK
  BY DEF AppearanceTypeOK, Look, Bare
<1>2. meant \in [Bodies -> Whose]
  BY DEF Whose
<1>3. wire \in Seq(Notice)
  OBVIOUS
<1>4. InTime
  BY DEF InTime
<1>5. Dressed
  BY DEF Dressed, Fits, Bare, Bodies
<1> QED
  BY <1>1, <1>2, <1>3, <1>4, <1>5 DEF LooksInv

(* What happens in the game of a player, as long as it sends nothing.       *)
LEMMA OwnGame ==
    ASSUME LooksInv, NEW p \in Wearer,
           RestoreArea(p) \/ RestoreCreator(p) \/ PollEquipment(p)
    PROVE  LooksInv'
<1> USE AppearanceAssumption
<1>0. /\ outfit \in [Wearer -> SUBSET Garment]
      /\ loadout \in [Wearer -> SUBSET Garment]
      /\ glimpsed \in [Wearer -> BOOLEAN]
      /\ creator \in [Wearer -> BOOLEAN]
      /\ poll \in [Wearer -> [left : -1 .. MaxPolls, streak : 0 .. 1]]
      /\ forced \in [Wearer -> BOOLEAN]
      /\ link \in [Wearer -> {"off", "waiting", "spawned"}]
  BY DEF LooksInv, AppearanceTypeOK
<1>1. UNCHANGED <<outfit, wire, bodyOf, made, there, looks, worn, meant>>
  BY DEF RestoreArea, RestoreCreator, PollEquipment, screenLooks
<1>2. ASSUME /\ loadout' \in [Wearer -> SUBSET Garment]
             /\ glimpsed' \in [Wearer -> BOOLEAN]
             /\ creator' \in [Wearer -> BOOLEAN]
             /\ poll' \in [Wearer -> [left : -1 .. MaxPolls, streak : 0 .. 1]]
             /\ forced' \in [Wearer -> BOOLEAN]
             /\ link' \in [Wearer -> {"off", "waiting", "spawned"}]
             /\ InTime'
      PROVE  LooksInv'
  <2>1. AppearanceTypeOK'
    BY <1>1, <1>2 DEF LooksInv, AppearanceTypeOK
  <2>2. Dressed'
    BY <1>1 DEF LooksInv, Dressed
  <2> QED
    BY <1>1, <1>2, <2>1, <2>2 DEF LooksInv
<1>3. InTime
  BY DEF LooksInv
<1>4. CASE RestoreArea(p)
  <2>1. PICK g \in outfit[p] \ loadout[p] : loadout' = [loadout EXCEPT ![p] = @ \cup {g}]
    BY <1>4 DEF RestoreArea
  <2>2. UNCHANGED <<glimpsed, creator, poll, forced, link>>
    BY <1>4 DEF RestoreArea
  <2>3. loadout' \in [Wearer -> SUBSET Garment]
    BY <2>1, <1>0
  <2>4. InTime'
    BY <2>1, <2>2, <1>0, <1>1, <1>3 DEF InTime
  <2> QED
    BY <2>2, <2>3, <2>4, <1>0, <1>2
<1>5. CASE RestoreCreator(p)
  <2>1. creator' = [creator EXCEPT ![p] = TRUE]
        /\ UNCHANGED <<loadout, glimpsed, poll, forced, link>>
    BY <1>5 DEF RestoreCreator
  <2>2. InTime'
    BY <2>1, <1>1, <1>3 DEF InTime
  <2> QED
    BY <2>1, <2>2, <1>0, <1>2
<1>6. CASE PollEquipment(p) /\ Convinced(p)
  <2>1. /\ poll[p] # NoPoll
        /\ glimpsed[p] => loadout[p] = outfit[p]
        /\ poll' = [poll EXCEPT ![p] = NoPoll]
        /\ link' = [link EXCEPT ![p] = "waiting"]
        /\ forced' = [forced EXCEPT ![p] = (poll[p].left = 0)]
        /\ UNCHANGED <<glimpsed, loadout, creator>>
    BY <1>6 DEF PollEquipment
  <2>2. poll[p].left # 0 => poll[p].streak = 1
    BY <1>6 DEF Convinced
  <2>3. NoPoll \in [left : -1 .. MaxPolls, streak : 0 .. 1] /\ NoPoll.streak = 0
    BY DEF NoPoll
  <2>4. poll[p].left # 0 => loadout[p] = outfit[p]
    BY <2>1, <2>2, <1>3 DEF InTime
  <2>5. InTime'
    <3> SUFFICES ASSUME NEW q \in Wearer
                 PROVE  /\ loadout'[q] \subseteq outfit'[q]
                        /\ poll'[q] = NoPoll \/ poll'[q].left \in Nat
                        /\ poll'[q].streak = 1 => glimpsed'[q]
                        /\ link'[q] = "waiting" /\ ~forced'[q] => loadout'[q] = outfit'[q]
      BY DEF InTime
    <3>1. CASE q = p
      <4>1. poll'[p] = NoPoll /\ link'[p] = "waiting" /\ forced'[p] = (poll[p].left = 0)
        BY <2>1, <1>0
      <4>2. loadout[p] \subseteq outfit[p]
        BY <1>3 DEF InTime
      <4>3. ~forced'[p] => loadout[p] = outfit[p]
        BY <4>1, <2>4
      <4>4. loadout' = loadout /\ outfit' = outfit
        BY <2>1, <1>1
      <4> QED
        BY <3>1, <4>1, <4>2, <4>3, <4>4, <2>3
    <3>2. CASE q # p
      BY <3>2, <2>1, <1>0, <1>1, <1>3 DEF InTime
    <3> QED
      BY <3>1, <3>2
  <2> QED
    BY <2>1, <2>3, <2>5, <1>0, <1>2
<1>7. CASE PollEquipment(p) /\ ~Convinced(p)
  <2> DEFINE good == IF IsEquipmentReady(p) THEN 1 ELSE 0
             next == [left |-> poll[p].left - 1, streak |-> good]
  <2>1. /\ poll[p] # NoPoll
        /\ poll' = [poll EXCEPT ![p] = next]
        /\ glimpsed' = [glimpsed EXCEPT ![p] = IsEquipmentReady(p)]
        /\ UNCHANGED <<link, forced, loadout, creator>>
    BY <1>7 DEF PollEquipment
  <2>2. poll[p].left # 0 /\ poll[p].left \in Nat /\ poll[p].left <= MaxPolls
    BY <1>7, <2>1, <1>0, <1>3 DEF Convinced, InTime
  <2>3. next \in [left : -1 .. MaxPolls, streak : 0 .. 1] /\ next.left \in Nat
        /\ (next.streak = 1 => IsEquipmentReady(p))
    BY <2>2
  <2>4. IsEquipmentReady(p) \in BOOLEAN
    BY DEF IsEquipmentReady
  <2> HIDE DEF next, good
  <2>5. InTime'
    <3> SUFFICES ASSUME NEW q \in Wearer
                 PROVE  /\ loadout'[q] \subseteq outfit'[q]
                        /\ poll'[q] = NoPoll \/ poll'[q].left \in Nat
                        /\ poll'[q].streak = 1 => glimpsed'[q]
                        /\ link'[q] = "waiting" /\ ~forced'[q] => loadout'[q] = outfit'[q]
      BY DEF InTime
    <3>1. CASE q = p
      <4>1. poll'[p] = next /\ glimpsed'[p] = IsEquipmentReady(p)
        BY <2>1, <1>0
      <4> QED
        BY <3>1, <4>1, <2>1, <2>3, <1>1, <1>3 DEF InTime
    <3>2. CASE q # p
      <4>1. poll'[q] = poll[q] /\ glimpsed'[q] = glimpsed[q]
        BY <3>2, <2>1, <1>0
      <4> QED
        BY <4>1, <2>1, <1>1, <1>3 DEF InTime
    <3> QED
      BY <3>1, <3>2
  <2> QED
    BY <2>1, <2>3, <2>4, <2>5, <1>0, <1>2
<1> QED
  BY <1>4, <1>5, <1>6, <1>7

(* The appearance that is sent fits the player that sends it.               *)
LEMMA SendKeeps ==
    ASSUME LooksInv, NEW p \in Wearer, TrySendSpawnCharacter(p)
    PROVE  LooksInv'
<1>0. /\ outfit \in [Wearer -> SUBSET Garment]
      /\ loadout \in [Wearer -> SUBSET Garment]
      /\ creator \in [Wearer -> BOOLEAN]
      /\ forced \in [Wearer -> BOOLEAN]
      /\ link \in [Wearer -> {"off", "waiting", "spawned"}]
  BY DEF LooksInv, AppearanceTypeOK
<1>1. /\ link[p] = "waiting"
      /\ link' = [link EXCEPT ![p] = "spawned"]
      /\ UNCHANGED <<outfit, loadout, glimpsed, creator, poll, forced>>
      /\ UNCHANGED <<bodyOf, made, there, looks, worn, meant>>
  BY DEF TrySendSpawnCharacter, screenLooks
<1>2. PICK slots \in SUBSET outfit[p] :
         wire' = Append(wire, [load |-> TRUE, who |-> p,
                               look |-> [items |-> GetPlayerItems(p, slots), ccstate |-> creator[p]],
                               meant |-> [items |-> outfit[p], whole |-> ~forced[p]]])
  BY DEF TrySendSpawnCharacter
<1> DEFINE look == [items |-> GetPlayerItems(p, slots), ccstate |-> creator[p]]
           whose == [items |-> outfit[p], whole |-> ~forced[p]]
           notice == [load |-> TRUE, who |-> p, look |-> look, meant |-> whose]
<1>3. look \in Look /\ whose \in Whose /\ Fits(look, whose)
  <2>1. loadout[p] \subseteq outfit[p] /\ (~forced[p] => loadout[p] = outfit[p])
    BY <1>1 DEF LooksInv, InTime
  <2>2. GetPlayerItems(p, slots) \subseteq outfit[p]
        /\ (~forced[p] => GetPlayerItems(p, slots) = outfit[p])
    BY <2>1 DEF GetPlayerItems
  <2> QED
    BY <2>2, <1>0 DEF Look, Whose, Fits
<1> HIDE DEF look, whose
<1>4. notice \in Notice
  BY <1>3 DEF Notice
<1>5. wire' \in Seq(Notice)
  BY <1>2, <1>4 DEF LooksInv, look, whose
<1>6. AppearanceTypeOK'
  BY <1>0, <1>1 DEF LooksInv, AppearanceTypeOK
<1>7. InTime'
  BY <1>0, <1>1 DEF LooksInv, InTime
<1>8. Dressed'
  BY <1>1 DEF LooksInv, Dressed
<1> QED
  BY <1>1, <1>5, <1>6, <1>7, <1>8 DEF LooksInv

LEMMA LoadSaveKeeps ==
    ASSUME LooksInv, NEW p \in Wearer, LoadSave(p)
    PROVE  LooksInv'
<1> USE AppearanceAssumption
<1>0. /\ outfit \in [Wearer -> SUBSET Garment]
      /\ loadout \in [Wearer -> SUBSET Garment]
      /\ glimpsed \in [Wearer -> BOOLEAN]
      /\ creator \in [Wearer -> BOOLEAN]
      /\ poll \in [Wearer -> [left : -1 .. MaxPolls, streak : 0 .. 1]]
      /\ forced \in [Wearer -> BOOLEAN]
      /\ link \in [Wearer -> {"off", "waiting", "spawned"}]
  BY DEF LooksInv, AppearanceTypeOK
<1>1. PICK new \in SUBSET Garment : outfit' = [outfit EXCEPT ![p] = new]
  BY DEF LoadSave
<1>2. /\ loadout' = [loadout EXCEPT ![p] = {}]
      /\ glimpsed' = [glimpsed EXCEPT ![p] = FALSE]
      /\ creator' = [creator EXCEPT ![p] = FALSE]
      /\ poll' = [poll EXCEPT ![p] = [left |-> MaxPolls, streak |-> 0]]
      /\ forced' = [forced EXCEPT ![p] = FALSE]
      /\ link' = [link EXCEPT ![p] = "off"]
      /\ UNCHANGED <<bodyOf, made, there, looks, worn, meant>>
  BY DEF LoadSave, screenLooks
<1>3. [load |-> FALSE, who |-> p, look |-> Bare, meant |-> [items |-> {}, whole |-> FALSE]] \in Notice
  BY DEF Notice, Look, Whose, Fits, Bare
<1>4. wire' \in Seq(Notice)
  BY <1>3 DEF LoadSave, LooksInv
<1>5. AppearanceTypeOK'
  <2>1. [left |-> MaxPolls, streak |-> 0] \in [left : -1 .. MaxPolls, streak : 0 .. 1]
    OBVIOUS
  <2> QED
    BY <2>1, <1>0, <1>1, <1>2 DEF LooksInv, AppearanceTypeOK
<1>6. InTime'
  <2> SUFFICES ASSUME NEW q \in Wearer
               PROVE  /\ loadout'[q] \subseteq outfit'[q]
                      /\ poll'[q] = NoPoll \/ poll'[q].left \in Nat
                      /\ poll'[q].streak = 1 => glimpsed'[q]
                      /\ link'[q] = "waiting" /\ ~forced'[q] => loadout'[q] = outfit'[q]
    BY DEF InTime
  <2>1. CASE q = p
    BY <2>1, <1>0, <1>1, <1>2
  <2>2. CASE q # p
    BY <2>2, <1>0, <1>1, <1>2 DEF LooksInv, InTime
  <2> QED
    BY <2>1, <2>2
<1>7. Dressed'
  BY <1>2 DEF LooksInv, Dressed
<1> QED
  BY <1>2, <1>4, <1>5, <1>6, <1>7 DEF LooksInv

(* The other screen.                                                       *)
LEMMA ScreenKeeps ==
    ASSUME LooksInv,
           \/ HandleCharacterLoad \/ HandleEntityUnload
           \/ \E b1 \in Bodies : AttachBody(b1)
    PROVE  LooksInv'
<1> USE AppearanceAssumption
<1>0. /\ bodyOf \in [Wearer -> 0 .. MaxLooks]
      /\ made \in 0 .. MaxLooks
      /\ there \in SUBSET Bodies
      /\ looks \in [Bodies -> Look]
      /\ worn \in [Bodies -> SUBSET Garment]
      /\ meant \in [Bodies -> Whose]
      /\ wire \in Seq(Notice)
  BY DEF LooksInv, AppearanceTypeOK
<1>1. UNCHANGED <<outfit, loadout, glimpsed, creator, poll, forced, link>>
  BY DEF HandleCharacterLoad, HandleEntityUnload, AttachBody, wearing
<1>2. ASSUME /\ bodyOf' \in [Wearer -> 0 .. MaxLooks]
             /\ made' \in 0 .. MaxLooks
             /\ there' \in SUBSET Bodies
             /\ looks' \in [Bodies -> Look]
             /\ worn' \in [Bodies -> SUBSET Garment]
             /\ meant' \in [Bodies -> Whose]
             /\ wire' \in Seq(Notice)
             /\ Dressed'
      PROVE  LooksInv'
  <2>1. AppearanceTypeOK'
    BY <1>1, <1>2 DEF LooksInv, AppearanceTypeOK
  <2>2. InTime'
    BY <1>1 DEF LooksInv, InTime
  <2> QED
    BY <1>2, <2>1, <2>2 DEF LooksInv
<1>3. Dressed
  BY DEF LooksInv
<1>4. CASE HandleCharacterLoad
  <2> DEFINE n == Head(wire)
  <2>1. wire # <<>> /\ wire' = Tail(wire) /\ made < MaxLooks /\ made' = made + 1
        /\ bodyOf' = [bodyOf EXCEPT ![n.who] = made + 1]
        /\ looks' = [looks EXCEPT ![made + 1] = n.look]
        /\ meant' = [meant EXCEPT ![made + 1] = n.meant]
        /\ UNCHANGED <<there, worn>>
    BY <1>4 DEF HandleCharacterLoad, AddEntity
  <2>2. n \in Notice /\ wire' \in Seq(Notice)
    BY <2>1, <1>0
  <2>3. n.who \in Wearer /\ n.look \in Look /\ n.meant \in Whose /\ Fits(n.look, n.meant)
    BY <2>2 DEF Notice
  <2> HIDE DEF n
  <2>4. made + 1 \in Bodies /\ made + 1 \in 0 .. MaxLooks /\ made + 1 > made /\ made \in Int
    BY <2>1, <1>0 DEF Bodies
  <2>5. Dressed'
    <3>1. ASSUME NEW q \in Wearer PROVE bodyOf'[q] <= made'
      <4>1. bodyOf[q] <= made /\ bodyOf[q] \in Int
        BY <1>0, <1>3 DEF Dressed
      <4>2. bodyOf'[q] = made + 1 \/ bodyOf'[q] = bodyOf[q]
        BY <2>1, <2>3, <1>0
      <4> QED
        BY <4>1, <4>2, <2>1, <2>4
    <3>2. ASSUME NEW b \in Bodies
          PROVE  /\ Fits(looks'[b], meant'[b])
                 /\ worn'[b] \subseteq looks'[b].items
                 /\ ~looks'[b].ccstate => worn'[b] = {}
                 /\ b > made' => worn'[b] = {}
      <4>1. CASE b = made + 1
        <5>1. looks'[b] = n.look /\ meant'[b] = n.meant
          BY <4>1, <2>1, <2>4, <1>0
        <5>2. worn'[b] = {}
          BY <4>1, <2>1, <2>4, <1>3 DEF Dressed
        <5> QED
          BY <5>1, <5>2, <2>3
      <4>2. CASE b # made + 1
        <5>1. looks'[b] = looks[b] /\ meant'[b] = meant[b] /\ worn'[b] = worn[b]
          BY <4>2, <2>1, <1>0
        <5>2. b > made' => b > made
          BY <2>1, <2>4 DEF Bodies
        <5> QED
          BY <5>1, <5>2, <1>3 DEF Dressed
      <4> QED
        BY <4>1, <4>2
    <3> QED
      BY <3>1, <3>2 DEF Dressed
  <2> QED
    BY <2>1, <2>2, <2>3, <2>4, <2>5, <1>0, <1>2
<1>5. CASE HandleEntityUnload
  <2>1. wire # <<>> /\ wire' = Tail(wire)
        /\ there' = there \ {bodyOf[Head(wire).who]}
        /\ bodyOf' = [bodyOf EXCEPT ![Head(wire).who] = 0]
        /\ UNCHANGED <<made, looks, worn, meant>>
    BY <1>5 DEF HandleEntityUnload
  <2>2. wire' \in Seq(Notice)
    BY <2>1, <1>0
  <2>3. Dressed'
    BY <2>1, <1>0, <1>3 DEF Dressed
  <2>4. bodyOf' \in [Wearer -> 0 .. MaxLooks]
    <3>1. 0 \in 0 .. MaxLooks
      OBVIOUS
    <3> QED
      BY <3>1, <2>1, <1>0
  <2>5. there' \in SUBSET Bodies
    BY <2>1, <1>0
  <2> QED
    BY <2>1, <2>2, <2>3, <2>4, <2>5, <1>0, <1>2
<1>6. ASSUME NEW b1 \in Bodies, AttachBody(b1) PROVE LooksInv'
  <2>1. PICK p \in Wearer : bodyOf[p] = b1
    BY <1>6 DEF AttachBody
  <2>2. there' = there \cup {b1} /\ UNCHANGED <<wire, bodyOf, made, looks, meant>>
    BY <1>6 DEF AttachBody
  <2>3. PICK refused \in SUBSET Garment : ApplyAppearance(b1, refused)
    BY <1>6 DEF AttachBody
  <2>4. ~(b1 > made)
    BY <2>1, <1>0, <1>3 DEF Dressed, Bodies
  <2>5. CASE looks[b1].ccstate
    <3>1. worn' = [worn EXCEPT ![b1] = looks[b1].items \ (Modded \cup refused)]
      BY <2>3, <2>5 DEF ApplyAppearance, AddItems
    <3>2. looks[b1].items \subseteq Garment
      BY <1>0 DEF Look
    <3>3. worn' \in [Bodies -> SUBSET Garment]
      BY <3>1, <3>2, <1>0
    <3>4. \A b \in Bodies : worn'[b] = IF b = b1 THEN looks[b1].items \ (Modded \cup refused)
                                       ELSE worn[b]
      BY <3>1, <1>0
    <3>5. Dressed'
      BY <3>4, <2>2, <2>4, <2>5, <1>3 DEF Dressed
    <3> QED
      BY <3>3, <3>5, <2>2, <1>0, <1>2
  <2>6. CASE ~looks[b1].ccstate
    <3>1. worn' = worn
      BY <2>3, <2>6 DEF ApplyAppearance
    <3>2. Dressed'
      BY <3>1, <2>2, <1>3 DEF Dressed
    <3> QED
      BY <3>1, <3>2, <2>2, <1>0, <1>2
  <2> QED
    BY <2>5, <2>6
<1> QED
  BY <1>4, <1>5, <1>6

LEMMA LooksStep == LooksInv /\ [AppearanceNext]_looksVars => LooksInv'
<1> SUFFICES ASSUME LooksInv, [AppearanceNext]_looksVars
             PROVE  LooksInv'
  OBVIOUS
<1>1. CASE AppearanceNext
  BY <1>1, OwnGame, SendKeeps, LoadSaveKeeps, ScreenKeeps DEF AppearanceNext
<1>2. CASE UNCHANGED looksVars
  BY <1>2 DEF looksVars, wearing, screenLooks, LooksInv, AppearanceTypeOK, InTime, Dressed
<1> QED
  BY <1>1, <1>2

LEMMA LooksAreRight == LooksInv => DressedAsThemselves
<1> SUFFICES ASSUME LooksInv, NEW b1 \in 1 .. made
             PROVE  /\ worn[b1] \subseteq meant[b1].items
                    /\ meant[b1].whole => looks[b1].items = meant[b1].items
                    /\ ~looks[b1].ccstate => worn[b1] = {}
  BY DEF DressedAsThemselves
<1>1. b1 \in Bodies
  BY AppearanceAssumption DEF LooksInv, AppearanceTypeOK, Bodies
<1> QED
  BY <1>1 DEF LooksInv, Dressed, Fits

(* DressedAsThemselves for any players, garments and polls: two looks that  *)
(* find equipment, a second apart, are taken for a complete one, the body  *)
(* is filed under its id before the game attaches it, and a save that is   *)
(* loaded in between does not mix with the one before (NetworkAutoConnect. *)
(* reds, NetworkService.cpp, AppearanceSystem.cpp).                        *)
THEOREM PuppetsAreThemselves == AppearanceSpec => []DressedAsThemselves
  BY LooksStart, LooksStep, LooksAreRight, PTL DEF AppearanceSpec

-----------------------------------------------------------------------------
(* Motion.  As long as no server time was more than a second behind the     *)
(* clock, the clock does not run backwards: what a frame adds is at least   *)
(* what the correction takes away.  So a clock that had passed the delay   *)
(* when the body came stays past it, and no frame has a negative tick.     *)
Spent(t) == IF t > Second THEN Second ELSE t
At(t) == base + t + (correction * Spent(t)) \div Second

MotionInv ==
    /\ clock \in Int /\ base \in Int /\ correction \in Int /\ previous \in Int
    /\ server \in Nat /\ since \in Nat
    /\ report \subseteq AnyTick /\ move \subseteq AnyTick
    /\ calm \in BOOLEAN
    /\ points \in Seq(AnyTick)
    /\ IsSynchronized => clock = At(since)
    /\ ~buffered => previous = 0 /\ segment = <<0, 0, 0>>
    /\ calm => /\ buffered => /\ correction >= -Second
                               /\ clock >= Delay
                               /\ 0 <= previous /\ previous <= clock - Delay
               /\ InSegment

(* Division rounds down: less by k * c in the numerator is k less.          *)
LEMMA DivFalls ==
    ASSUME NEW c \in Nat \ {0}, NEW a \in Int, NEW b \in Int, NEW k \in Int, b >= a - c * k
    PROVE  b \div c >= (a \div c) - k
<1> DEFINE q == a \div c
           r == b \div c
<1>1. q \in Int /\ r \in Int /\ c * q <= a /\ b < c * r + c
  OBVIOUS
<1> HIDE DEF q, r
<1>2. SUFFICES ASSUME r <= (q - k) - 1 PROVE FALSE
  BY <1>1 DEF q, r
<1>3. c * r <= c * ((q - k) - 1)
  BY <1>1, <1>2
<1>4. c * ((q - k) - 1) = (c * q - c * k) - c
  BY <1>1
<1>5. c * k \in Int /\ c * q \in Int /\ c * r \in Int
  BY <1>1
<1> QED
  BY <1>1, <1>3, <1>4, <1>5

LEMMA ClockGoesOn ==
    ASSUME base \in Int, correction \in Int, correction >= -Second,
           NEW t \in Nat, NEW u \in Nat, t <= u
    PROVE  At(t) <= At(u)
<1> USE MotionAssumption
<1> DEFINE s == Spent(t)
           z == Spent(u)
           a == correction * s
           b == correction * z
<1>1. s \in Nat /\ z \in Nat /\ s <= z /\ z - s <= u - t
  BY DEF Spent
<1> HIDE DEF s, z
<1>2. a \in Int /\ b \in Int
  BY <1>1
<1>3. b - a = correction * (z - s)
  BY <1>1
<1>4. correction * (z - s) >= (-Second) * (z - s)
  BY <1>1
<1>5. (-Second) * (z - s) = -(Second * (z - s))
  BY <1>1
<1>6. b >= a - Second * (z - s)
  BY <1>1, <1>2, <1>3, <1>4, <1>5
<1> HIDE DEF a, b
<1>7. b \div Second >= (a \div Second) - (z - s)
  BY <1>1, <1>2, <1>6, DivFalls
<1>8. a \div Second \in Int /\ b \div Second \in Int
  BY <1>2
<1>9. At(t) = base + t + a \div Second /\ At(u) = base + u + b \div Second
  BY DEF At, a, b, s, z
<1> QED
  BY <1>1, <1>7, <1>8, <1>9

LEMMA MotionTypes ==
    ASSUME MotionInv, NEW t \in Nat
    PROVE  At(t) \in Int
<1>1. Spent(t) \in Int /\ correction \in Int
  BY MotionAssumption DEF Spent, MotionInv
<1>2. correction * Spent(t) \in Int
  BY <1>1
<1>3. (correction * Spent(t)) \div Second \in Int
  BY <1>2, MotionAssumption
<1> QED
  BY <1>3 DEF At, MotionInv

LEMMA NothingDue == \A x \in Int : (x * 0) \div Second = 0
<1> USE MotionAssumption
<1> TAKE x \in Int
<1>1. x * 0 = 0
  OBVIOUS
<1> QED
  BY <1>1

LEMMA SynchronizeKeeps ==
    ASSUME MotionInv, NEW tick \in AnyTick, NEW trip \in 0 .. MaxTrip, Synchronize(tick, trip)
    PROVE  MotionInv'
<1> USE MotionAssumption
<1>1. /\ tick > server /\ server' = tick /\ since' = 0
      /\ clock' = IF IsSynchronized THEN clock ELSE tick + trip
      /\ base' = clock'
      /\ correction' = tick + trip - base'
      /\ calm' = (calm /\ correction' >= -Second)
      /\ UNCHANGED <<report, move, buffered, points, previous, segment>>
  BY DEF Synchronize, motionWire
<1>2. tick \in Nat /\ trip \in Nat /\ clock \in Int /\ previous \in Int
  BY DEF AnyTick, MotionInv
<1>3. clock' \in Int /\ correction' \in Int /\ base' \in Int
  BY <1>1, <1>2
<1>4. (correction' * 0) \div Second = 0
  BY <1>3, NothingDue
<1>5. clock' = (At(since))'
  BY <1>1, <1>3, <1>4 DEF At, Spent
<1>6. calm' => calm /\ correction' >= -Second
  BY <1>1
<1>7. calm' \in BOOLEAN
  BY <1>1
<1>8. calm' /\ buffered => clock' >= Delay /\ 0 <= previous /\ previous <= clock' - Delay
  <2>1. CASE IsSynchronized
    BY <2>1, <1>1, <1>6 DEF MotionInv
  <2>2. CASE ~IsSynchronized
    BY <2>2, <1>1, <1>2, <1>6 DEF MotionInv, IsSynchronized
  <2> QED
    BY <2>1, <2>2
<1>9. calm' => InSegment'
  BY <1>1, <1>6 DEF MotionInv, InSegment
<1> QED
  BY <1>1, <1>2, <1>3, <1>5, <1>6, <1>7, <1>8, <1>9 DEF MotionInv

(* What is drawn lies behind the last frame and before the next point.      *)
LEMMA FrameKeeps ==
    ASSUME MotionInv, NEW d \in 0 .. MaxStep, NEW moved \in BOOLEAN, Frame(d, moved)
    PROVE  MotionInv'
<1> USE MotionAssumption
<1> DEFINE now == IF IsSynchronized THEN Simulated(d) ELSE 0
           tick == now - Delay
<1>1. PICK n \in 0 .. Len(points) :
         /\ Passed(n, tick)
         /\ points' = IF buffered THEN SubSeq(points, n + 1, Len(points)) ELSE points
         /\ IF buffered /\ moved /\ n < Len(points)
            THEN /\ segment' = <<previous, tick, points[n + 1]>>
                 /\ previous' \in Cast(tick)
            ELSE UNCHANGED <<segment, previous>>
  BY DEF Frame
<1>2. /\ clock' = now
      /\ since' = IF IsSynchronized THEN since + d ELSE 0
      /\ UNCHANGED <<server, base, correction, report, move, buffered, calm>>
  BY DEF Frame, motionWire
<1>3. d \in Nat /\ since \in Nat /\ since + d \in Nat /\ since <= since + d
  BY DEF MotionInv
<1>4. Simulated(d) = At(since + d) /\ Simulated(d) \in Int
  <2>1. Simulated(d) = At(since + d)
    BY <1>3 DEF Simulated, At, Spent, MotionInv
  <2> QED
    BY <2>1, <1>3, MotionTypes
<1>5. now \in Int /\ tick \in Int /\ clock \in Int /\ since' \in Nat
  BY <1>2, <1>3, <1>4 DEF MotionInv
<1>6. clock' # 0 => clock' = (At(since))'
  <2>1. CASE IsSynchronized
    BY <2>1, <1>2, <1>4 DEF At, Spent
  <2>2. CASE ~IsSynchronized
    BY <2>2, <1>2
  <2> QED
    BY <2>1, <2>2
<1>7. calm /\ buffered /\ IsSynchronized => clock <= now
  <2>1. ASSUME calm, buffered, IsSynchronized PROVE clock <= now
    <3>1. correction >= -Second /\ clock = At(since)
      BY <2>1 DEF MotionInv
    <3>2. At(since) <= At(since + d)
      BY <3>1, <1>3, ClockGoesOn DEF MotionInv
    <3> QED
      BY <2>1, <3>1, <3>2, <1>4
  <2> QED
    BY <2>1
<1>8. calm /\ buffered => /\ now >= Delay /\ tick >= 0
                         /\ 0 <= previous /\ previous <= tick
  <2>1. CASE IsSynchronized
    BY <2>1, <1>5, <1>7 DEF MotionInv
  <2>2. CASE ~IsSynchronized
    BY <2>2, <1>5 DEF MotionInv, IsSynchronized
  <2> QED
    BY <2>1, <2>2
<1>9. now = tick + Delay
  BY <1>5
<1> HIDE DEF now, tick
<1>10. points' \in Seq(AnyTick)
  BY <1>1 DEF MotionInv
<1>11. CASE buffered /\ moved /\ n < Len(points)
  <2>1. segment' = <<previous, tick, points[n + 1]>> /\ previous' \in Cast(tick)
    BY <1>1, <1>11
  <2>2. tick <= points[n + 1]
    BY <1>1, <1>11 DEF Passed
  <2>3. calm' => InSegment'
    BY <2>1, <2>2, <1>2, <1>8, <1>11 DEF InSegment
  <2>4. previous' \in Int
    BY <2>1, <1>5 DEF Cast
  <2>5. calm' => clock' >= Delay /\ 0 <= previous' /\ previous' <= clock' - Delay
    BY <2>1, <1>2, <1>5, <1>8, <1>9, <1>11 DEF Cast
  <2> QED
    BY <2>3, <2>4, <2>5, <1>2, <1>5, <1>6, <1>10, <1>11 DEF MotionInv, IsSynchronized
<1>12. CASE ~(buffered /\ moved /\ n < Len(points))
  <2>1. UNCHANGED <<segment, previous>>
    BY <1>1, <1>12
  <2>2. calm' => InSegment'
    BY <2>1, <1>2 DEF InSegment, MotionInv
  <2>3. calm' /\ buffered => clock' >= Delay /\ 0 <= previous' /\ previous' <= clock' - Delay
    BY <2>1, <1>2, <1>5, <1>8, <1>9
  <2> QED
    BY <2>1, <2>2, <2>3, <1>2, <1>5, <1>6, <1>10 DEF MotionInv, IsSynchronized
<1> QED
  BY <1>11, <1>12

LEMMA MoveKeepsMotion ==
    ASSUME MotionInv, NEW tick \in AnyTick, HandleNotifyEntityMove(tick)
    PROVE  MotionInv'
<1>1. /\ move' = {} /\ points' \in Seq(AnyTick)
      /\ UNCHANGED <<clock, server, base, since, correction, report, buffered, previous, segment,
                     calm>>
  BY DEF HandleNotifyEntityMove, motionClock, MotionInv
<1> QED
  BY <1>1 DEF MotionInv, InSegment, IsSynchronized, At, Spent

LEMMA MotionStep == MotionInv /\ [MotionNext]_motionVars => MotionInv'
<1> SUFFICES ASSUME MotionInv, [MotionNext]_motionVars
             PROVE  MotionInv'
  OBVIOUS
<1>1. ASSUME NEW tick \in AnyTick, UpdatePlayerLocation(tick) PROVE MotionInv'
  BY <1>1 DEF UpdatePlayerLocation, motionClock, motionView, MotionInv, InSegment, IsSynchronized,
     At, Spent
<1>2. ASSUME NEW owner \in BOOLEAN, HandleMoveEntityRequest(owner) PROVE MotionInv'
  BY <1>2 DEF HandleMoveEntityRequest, motionClock, motionView, MotionInv, InSegment,
     IsSynchronized, At, Spent
<1>3. CASE LoseMove
  BY <1>3 DEF LoseMove, motionClock, motionView, MotionInv, InSegment, IsSynchronized, At, Spent
<1>4. CASE Reset
  BY <1>4, MotionAssumption DEF Reset, MotionInv, InSegment, IsSynchronized, AnyTick
<1>5. CASE GainBuffer
  <2>1. /\ calm' = (correction >= -Second /\ clock >= Delay) /\ buffered' = TRUE
        /\ UNCHANGED <<clock, server, base, since, correction, report, move, points, previous,
                       segment>>
        /\ previous = 0 /\ segment = <<0, 0, 0>>
    BY <1>5 DEF GainBuffer, motionClock, motionWire, MotionInv
  <2>2. InSegment' /\ calm' \in BOOLEAN
    BY <2>1 DEF InSegment
  <2>3. (IsSynchronized => clock = At(since))'
    BY <2>1 DEF MotionInv, IsSynchronized, At, Spent
  <2>4. ASSUME calm' PROVE correction >= -Second /\ clock >= Delay
    BY <2>1, <2>4, Zenon
  <2>5. calm' => correction' >= -Second /\ clock' >= Delay /\ 0 <= previous' /\ previous' <= clock' - Delay
    <3>1. previous = 0 /\ UNCHANGED <<clock, correction, previous>>
      BY <2>1
    <3> QED
      BY <2>4, <3>1, MotionAssumption DEF MotionInv
  <2> QED
    BY <2>1, <2>2, <2>3, <2>5 DEF MotionInv
<1>6. CASE UNCHANGED motionVars
  BY <1>6 DEF motionVars, motionClock, motionWire, motionView, MotionInv, InSegment,
     IsSynchronized, At, Spent
<1> QED
  BY <1>1, <1>2, <1>3, <1>4, <1>5, <1>6, SynchronizeKeeps, FrameKeeps, MoveKeepsMotion
     DEF MotionNext

(* InSegment for any delays, frames, trip times and server times, whatever  *)
(* the network loses or overtakes: a puppet whose body came when the clock *)
(* had passed the delay is drawn between the last frame and the next point,*)
(* never at a negative tick, and never jumps back, as long as no server    *)
(* time was more than a second behind the clock (InterpolateEntity,        *)
(* SynchronizedClock::Update).                                             *)
THEOREM DrawnInSegment == MotionSpec => []InSegment
<1>1. MotionInit => MotionInv
  BY MotionAssumption DEF MotionInit, MotionInv, InSegment, IsSynchronized, AnyTick
<1>2. MotionInv => InSegment
  BY DEF MotionInv, InSegment
<1> QED
  BY <1>1, <1>2, MotionStep, PTL DEF MotionSpec

-----------------------------------------------------------------------------
(* Messages and the arguments of calls.  What each writer appends, its      *)
(* reader takes from any buffer that goes on like that; so as long as the   *)
(* buffer begins with what every field in turn has made of it, and the      *)
(* reader stands where the writer stood before a field, it reads that field.*)

Bit == {0, 1}

(* Powers of two double.                                                   *)
LEMMA Powers ==
    /\ Power \in [Nat -> Nat \ {0}]
    /\ Power[0] = 1
    /\ \A n \in Nat : Power[n + 1] = 2 * Power[n]
<1> DEFINE T == Nat \ {0}
           G == [x \in (Nat \ {0}) \X T |-> 2 * x[2]]
           Doubles(f) == f = [n \in Nat |-> IF n = 0 THEN 1 ELSE 2 * f[n - 1]]
<1>1. G \in StepOf(T) /\ 1 \in T
  BY DEF StepOf
<1>2. PICK f \in [Nat -> T] : f[0] = 1 /\ \A i \in Nat \ {0} : f[i] = G[<<i, f[i - 1]>>]
  <2> HIDE DEF G, T
  <2>1. \E f : Unfolds(f, T, 1, G)
    BY <1>1, EndlessRecursion
  <2> QED
    BY <2>1 DEF Unfolds
<1>3. \A i \in Nat \ {0} : f[i] = 2 * f[i - 1]
  <2> TAKE i \in Nat \ {0}
  <2>1. i - 1 \in Nat
    OBVIOUS
  <2> QED
    BY <1>2, <2>1
<1>4. Doubles(f)
  BY <1>2, <1>3
<1>5. Doubles(Power)
  BY <1>4 DEF Power
<1> HIDE DEF Doubles
<1>6. Power = f
  <2>1. Power \in [Nat -> {Power[n] : n \in Nat}]
    BY <1>5 DEF Doubles
  <2> DEFINE S == {n \in Nat : Power[n] = f[n]}
  <2>2. 0 \in S
    BY <1>2, <1>5 DEF Doubles
  <2>3. ASSUME NEW n \in Nat, n \in S PROVE n + 1 \in S
    <3>1. n + 1 \in Nat \ {0} /\ (n + 1) - 1 = n
      OBVIOUS
    <3>2. Power[n + 1] = 2 * Power[n]
      BY <1>5, <3>1 DEF Doubles
    <3>3. f[n + 1] = 2 * f[n]
      BY <1>3, <3>1
    <3> QED
      BY <2>3, <3>2, <3>3
  <2>4. \A n \in Nat : Power[n] = f[n]
    <3>1. Nat \subseteq S
      <4> HIDE DEF S
      <4> QED
        BY <2>2, <2>3, SetInduction
    <3> QED
      BY <3>1
  <2> QED
    BY <1>2, <2>1, <2>4
<1>7. \A n \in Nat : n + 1 \in Nat \ {0} /\ (n + 1) - 1 = n
  OBVIOUS
<1> QED
  BY <1>2, <1>3, <1>6, <1>7

(* A sum shifts by both.                                                   *)
LEMMA PowersAdd ==
    ASSUME NEW a \in Nat, NEW b \in Nat
    PROVE  /\ Power[a + b] = Power[a] * Power[b]
           /\ Power[a] <= Power[a + b]
<1> DEFINE S == {n \in Nat : Power[a + n] = Power[a] * Power[n]}
<1>1. 0 \in S
  BY Powers
<1>2. ASSUME NEW n \in Nat, n \in S PROVE n + 1 \in S
  <2>1. Power[a + (n + 1)] = 2 * Power[a + n] /\ Power[n + 1] = 2 * Power[n]
    <3>1. a + (n + 1) = (a + n) + 1 /\ a + n \in Nat
      OBVIOUS
    <3> QED
      BY <3>1, Powers
  <2>2. Power[a] \in Nat /\ Power[n] \in Nat /\ Power[a + n] \in Nat
    BY Powers
  <2>3. \A x, y \in Nat : 2 * (x * y) = x * (2 * y)
    OBVIOUS
  <2> QED
    BY <1>2, <2>1, <2>2, <2>3
<1>3. Power[a + b] = Power[a] * Power[b]
  <2>1. Nat \subseteq S
    <3> HIDE DEF S
    <3> QED
      BY <1>1, <1>2, SetInduction
  <2> QED
    BY <2>1
<1>4. Power[a] \in Nat /\ Power[b] \in Nat \ {0}
  BY Powers
<1>5. \A x \in Nat, y \in Nat \ {0} : x <= x * y
  OBVIOUS
<1> QED
  BY <1>3, <1>4, <1>5

(* Shifting by one more halves what is left.                               *)
LEMMA ShiftsHalve ==
    ASSUME NEW v \in Nat
    PROVE  /\ \A n \in Nat : Shifted(v, n) \in Nat
           /\ Shifted(v, 0) = v
           /\ \A n \in Nat : Shifted(v, n + 1) = Shifted(v, n) \div 2
<1> DEFINE T == Nat
           G == [x \in (Nat \ {0}) \X T |-> x[2] \div 2]
           Halves(f) == f = [i \in Nat |-> IF i = 0 THEN v ELSE f[i - 1] \div 2]
           rest == CHOOSE f : Halves(f)
<1>1. G \in StepOf(T) /\ v \in T
  BY DEF StepOf
<1>2. PICK f \in [Nat -> T] : f[0] = v /\ \A i \in Nat \ {0} : f[i] = G[<<i, f[i - 1]>>]
  <2> HIDE DEF G, T
  <2>1. \E f : Unfolds(f, T, v, G)
    BY <1>1, EndlessRecursion
  <2> QED
    BY <2>1 DEF Unfolds
<1>3. \A i \in Nat \ {0} : f[i] = f[i - 1] \div 2
  <2> TAKE i \in Nat \ {0}
  <2>1. i - 1 \in Nat
    OBVIOUS
  <2> QED
    BY <1>2, <2>1
<1>4. Halves(f)
  BY <1>2, <1>3
<1>5. Halves(rest)
  <2> HIDE DEF Halves
  <2> QED
    BY <1>4
<1>6. \A n : Shifted(v, n) = rest[n]
  BY DEF Shifted
<1> HIDE DEF rest
<1>7. rest[0] = v /\ \A n \in Nat : rest[n + 1] = rest[n] \div 2
  <2>1. \A n \in Nat : n + 1 \in Nat \ {0} /\ (n + 1) - 1 = n
    OBVIOUS
  <2> QED
    BY <1>5, <2>1
<1>8. \A n \in Nat : rest[n] \in Nat
  <2> DEFINE S == {n \in Nat : rest[n] \in Nat}
  <2>1. 0 \in S /\ \A n \in Nat : n \in S => n + 1 \in S
    BY <1>7
  <2>2. Nat \subseteq S
    <3> HIDE DEF S
    <3> QED
      BY <2>1, SetInduction
  <2> QED
    BY <2>2
<1> QED
  BY <1>6, <1>7, <1>8

(* Shifting twice shifts by the sum.                                       *)
LEMMA ShiftsAdd ==
    ASSUME NEW v \in Nat, NEW a \in Nat, NEW b \in Nat
    PROVE  Shifted(Shifted(v, a), b) = Shifted(v, a + b)
<1> DEFINE w == Shifted(v, a)
           S == {n \in Nat : Shifted(w, n) = Shifted(v, a + n)}
<1>1. w \in Nat
  BY ShiftsHalve
<1>2. 0 \in S
  BY <1>1, ShiftsHalve
<1>3. ASSUME NEW n \in Nat, n \in S PROVE n + 1 \in S
  <2>1. a + (n + 1) = (a + n) + 1 /\ a + n \in Nat
    OBVIOUS
  <2>2. Shifted(v, (a + n) + 1) = Shifted(v, a + n) \div 2
    BY <2>1, ShiftsHalve
  <2> HIDE DEF w
  <2>3. Shifted(w, n + 1) = Shifted(w, n) \div 2
    BY <1>1, ShiftsHalve
  <2> QED
    BY <1>3, <2>1, <2>2, <2>3
<1>4. Nat \subseteq S
  <2> HIDE DEF S
  <2> QED
    BY <1>2, <1>3, SetInduction
<1> QED
  BY <1>4

(* A number is the sum of its bits.                                        *)
LEMMA NumberSums ==
    ASSUME NEW b \in Seq(Bit)
    PROVE  \E sum \in [0 .. Len(b) -> Nat] :
              /\ sum[0] = 0
              /\ \A i \in 1 .. Len(b) : sum[i] = sum[i - 1] + Power[i - 1] * b[i]
              /\ Number(b) = sum[Len(b)]
<1> DEFINE n == Len(b)
           G == [x \in (1 .. n) \X Nat |-> x[2] + Power[x[1] - 1] * b[x[1]]]
           Sums(f) == f = [i \in 0 .. n |-> IF i = 0 THEN 0 ELSE f[i - 1] + Power[i - 1] * b[i]]
           sum == CHOOSE f : Sums(f)
<1>1. n \in Nat /\ \A i \in 1 .. n : b[i] \in Bit
  BY LenProperties, ElementOfSeq
<1> HIDE DEF n
<1>2. \A i \in 1 .. n : i - 1 \in Nat /\ i - 1 \in 0 .. n /\ i \in 0 .. n /\ i # 0
  BY <1>1
<1>3. \A i \in 1 .. n : Power[i - 1] * b[i] \in Nat
  <2>1. \A i \in 1 .. n : Power[i - 1] \in Nat
    BY <1>2, Powers
  <2>2. \A i \in 1 .. n : b[i] \in Nat
    BY <1>1 DEF Bit
  <2> QED
    BY <2>1, <2>2
<1>4. G \in [(1 .. n) \X Nat -> Nat]
  BY <1>3
<1>5. PICK f : Iterates(f, n, Nat, 0, G)
  <2> HIDE DEF G
  <2> QED
    BY <1>1, <1>4, Recursion DEF StepOver
<1>6. f \in [0 .. n -> Nat] /\ f[0] = 0 /\ \A i \in 1 .. n : f[i] = f[i - 1] + Power[i - 1] * b[i]
  <2>1. f \in [0 .. n -> Nat] /\ f[0] = 0
    BY <1>5 DEF Iterates
  <2>2. \A i \in 1 .. n : <<i, f[i - 1]>> \in (1 .. n) \X Nat
    BY <1>2, <2>1
  <2>3. \A i \in 1 .. n : f[i] = f[i - 1] + Power[i - 1] * b[i]
    BY <1>5, <2>2 DEF Iterates
  <2> QED
    BY <2>1, <2>3
<1>7. Sums(f)
  <2>1. \A i \in 0 .. n : i # 0 => i \in 1 .. n
    BY <1>1
  <2> QED
    BY <1>6, <2>1
<1>8. Sums(sum)
  <2> HIDE DEF Sums
  <2> QED
    BY <1>7
<1>9. Number(b) = sum[n]
  BY DEF Number, n
<1> HIDE DEF sum
<1>10. 0 \in 0 .. n
  BY <1>1
<1>11. sum[0] = 0 /\ \A i \in 1 .. n : sum[i] = sum[i - 1] + Power[i - 1] * b[i]
  BY <1>2, <1>8, <1>10
<1>12. \A i \in 0 .. n : sum[i] \in Nat
  <2>1. \A i \in 1 .. n : sum[i - 1] \in Nat => sum[i] \in Nat
    BY <1>3, <1>11
  <2> DEFINE T == Nat
  <2>2. sum[0] \in T /\ \A i \in 1 .. n : sum[i - 1] \in T => sum[i] \in T
    BY <1>11, <2>1
  <2>3. \A i \in 0 .. n : sum[i] \in T
    <3> HIDE DEF T
    <3> QED
      BY <1>1, <2>2, AlongInterval
  <2> QED
    BY <2>3
<1>13. sum \in [0 .. n -> Nat]
  <2>1. sum = [i \in 0 .. n |-> sum[i]]
    BY <1>8
  <2> QED
    BY <1>12, <2>1
<1> QED
  BY <1>9, <1>11, <1>13 DEF n

(* A number is its lowest bits and what is left when they are shifted out. *)
LEMMA NumberOfBits ==
    ASSUME NEW v \in Nat, NEW n \in Nat
    PROVE  /\ Bits(v, n) \in Seq(Bit) /\ Len(Bits(v, n)) = n
           /\ Number(Bits(v, n)) \in Nat
           /\ v = Number(Bits(v, n)) + Power[n] * Shifted(v, n)
<1> DEFINE b == Bits(v, n)
<1>1. /\ b \in Seq(Bit) /\ Len(b) = n
      /\ \A i \in 1 .. n : b[i] = Shifted(v, i - 1) % 2 /\ b[i] \in Bit
  <2>1. \A i \in 1 .. n : i - 1 \in Nat
    OBVIOUS
  <2>2. \A i \in 1 .. n : Shifted(v, i - 1) \in Nat
    BY <2>1, ShiftsHalve
  <2>3. \A i \in 1 .. n : Shifted(v, i - 1) % 2 \in Bit
    BY <2>2 DEF Bit
  <2>4. b \in [1 .. n -> Bit]
    BY <2>3 DEF Bits
  <2>5. b \in Seq(Bit) /\ DOMAIN b = 1 .. n
    BY <2>4, SeqDef
  <2>6. Len(b) = n
    BY <2>5, LenProperties
  <2> QED
    BY <2>3, <2>5, <2>6 DEF Bits
<1> HIDE DEF b
<1>2. PICK sum \in [0 .. n -> Nat] :
          /\ sum[0] = 0
          /\ \A i \in 1 .. n : sum[i] = sum[i - 1] + Power[i - 1] * b[i]
          /\ Number(b) = sum[n]
  BY <1>1, NumberSums
<1> DEFINE S == {i \in Nat : i <= n => v = sum[i] + Power[i] * Shifted(v, i)}
<1>3. 0 \in S
  <2>1. sum[0] = 0 /\ Power[0] = 1 /\ Shifted(v, 0) = v
    BY <1>2, Powers, ShiftsHalve
  <2> QED
    BY <2>1
<1>4. ASSUME NEW i \in Nat, i \in S PROVE i + 1 \in S
  <2> SUFFICES ASSUME i + 1 <= n
               PROVE  v = sum[i + 1] + Power[i + 1] * Shifted(v, i + 1)
    OBVIOUS
  <2>1. v = sum[i] + Power[i] * Shifted(v, i)
    BY <1>4
  <2>2. i + 1 \in 1 .. n /\ (i + 1) - 1 = i /\ i \in 0 .. n /\ sum[i] \in Nat
    OBVIOUS
  <2>3. sum[i + 1] = sum[i] + Power[i] * b[i + 1]
    BY <1>2, <2>2
  <2>4. b[i + 1] = Shifted(v, i) % 2 /\ b[i + 1] \in Nat
    <3>1. b[i + 1] = Shifted(v, (i + 1) - 1) % 2 /\ b[i + 1] \in Bit
      BY <1>1, <2>2
    <3> QED
      BY <2>2, <3>1 DEF Bit
  <2>5. Power[i + 1] = 2 * Power[i] /\ Power[i] \in Nat
    BY Powers
  <2>6. Shifted(v, i + 1) = Shifted(v, i) \div 2 /\ Shifted(v, i) \in Nat
    BY ShiftsHalve
  <2>7. \A p \in Nat, s \in Nat : p * s = (2 * p) * (s \div 2) + p * (s % 2)
    <3> TAKE p \in Nat, s \in Nat
    <3>1. s = 2 * (s \div 2) + (s % 2) /\ s \div 2 \in Nat /\ s % 2 \in Nat
      OBVIOUS
    <3>2. \A x, y \in Nat : p * (2 * x + y) = (2 * p) * x + p * y
      OBVIOUS
    <3> QED
      BY <3>1, <3>2
  <2>8. Power[i] * Shifted(v, i) = Power[i + 1] * Shifted(v, i + 1) + Power[i] * b[i + 1]
    BY <2>4, <2>5, <2>6, <2>7
  <2>9. Power[i] * b[i + 1] \in Nat /\ Power[i + 1] * Shifted(v, i + 1) \in Nat
    <3>1. \A x, y \in Nat : x * y \in Nat
      OBVIOUS
    <3>2. Power[i + 1] \in Nat /\ Shifted(v, i + 1) \in Nat
      <4>1. i + 1 \in Nat
        OBVIOUS
      <4> QED
        BY <4>1, Powers, ShiftsHalve
    <3> QED
      BY <2>4, <2>5, <3>1, <3>2
  <2> QED
    BY <2>1, <2>2, <2>3, <2>8, <2>9
<1>5. n \in S
  <2> HIDE DEF S
  <2> QED
    BY <1>3, <1>4, SetInduction
<1>6. v = sum[n] + Power[n] * Shifted(v, n) /\ sum[n] \in Nat
  BY <1>5
<1> QED
  BY <1>1, <1>2, <1>6 DEF b

(* A number of n bits at most is that of its lowest n bits.                *)
LEMMA ShortNumber ==
    ASSUME NEW v \in Nat, NEW n \in Nat, v < Power[n]
    PROVE  Shifted(v, n) = 0 /\ Number(Bits(v, n)) = v
<1>1. /\ Number(Bits(v, n)) \in Nat /\ Shifted(v, n) \in Nat /\ Power[n] \in Nat
      /\ v = Number(Bits(v, n)) + Power[n] * Shifted(v, n)
  BY NumberOfBits, ShiftsHalve, Powers
<1>2. \A x, p, s \in Nat : v = x + p * s /\ v < p => s = 0 /\ x = v
  <2> TAKE x, p, s \in Nat
  <2>1. s # 0 => p <= p * s
    OBVIOUS
  <2>2. s = 0 => p * s = 0
    OBVIOUS
  <2>3. p * s \in Nat
    OBVIOUS
  <2> QED
    BY <2>1, <2>2, <2>3
<1> QED
  BY <1>1, <1>2

-----------------------------------------------------------------------------
(* The bits that follow the position p, and the buffer begins with b.       *)
Follows(p, x) == /\ p + Len(x) <= Len(bits)
                 /\ \A i \in 1 .. Len(x) : bits[p + i] = x[i]
Begins(b) == Follows(0, b)

(* Two sequences, one after the other.                                     *)
LEMMA Joined ==
    ASSUME NEW T, NEW x \in Seq(T), NEW y \in Seq(T)
    PROVE  /\ x \o y \in Seq(T) /\ Len(x \o y) = Len(x) + Len(y)
           /\ Len(x) \in Nat /\ Len(y) \in Nat
           /\ \A i \in 1 .. Len(x) : (x \o y)[i] = x[i]
           /\ \A i \in 1 .. Len(y) : (x \o y)[Len(x) + i] = y[i]
<1>1. /\ x \o y \in Seq(T) /\ Len(x \o y) = Len(x) + Len(y)
      /\ \A i \in 1 .. Len(x) + Len(y) :
             (x \o y)[i] = IF i <= Len(x) THEN x[i] ELSE y[i - Len(x)]
  BY ConcatProperties
<1>2. Len(x) \in Nat /\ Len(y) \in Nat
  BY LenProperties
<1>3. \A i \in 1 .. Len(x) : i \in 1 .. Len(x) + Len(y) /\ i <= Len(x)
  BY <1>2
<1>4. \A i \in 1 .. Len(y) : /\ Len(x) + i \in 1 .. Len(x) + Len(y)
                             /\ ~(Len(x) + i <= Len(x)) /\ (Len(x) + i) - Len(x) = i
  BY <1>2
<1> QED
  BY <1>1, <1>2, <1>3, <1>4

(* What follows, follows in parts.                                          *)
LEMMA FollowsInParts ==
    ASSUME NEW p \in Nat, NEW T, NEW x \in Seq(T), NEW y \in Seq(T),
           bits \in Seq(Bit), Follows(p, x \o y)
    PROVE  Follows(p, x) /\ Follows(p + Len(x), y)
<1>1. /\ Len(x \o y) = Len(x) + Len(y) /\ Len(x) \in Nat /\ Len(y) \in Nat
      /\ \A i \in 1 .. Len(x) : (x \o y)[i] = x[i]
      /\ \A i \in 1 .. Len(y) : (x \o y)[Len(x) + i] = y[i]
  BY Joined
<1>2. /\ p + Len(x \o y) <= Len(bits) /\ Len(bits) \in Nat
      /\ \A i \in 1 .. Len(x \o y) : bits[p + i] = (x \o y)[i]
  BY LenProperties DEF Follows
<1>3. p + Len(x) <= Len(bits) /\ (p + Len(x)) + Len(y) <= Len(bits)
  BY <1>1, <1>2
<1>4. ASSUME NEW i \in 1 .. Len(x) PROVE bits[p + i] = x[i]
  <2>1. i \in 1 .. Len(x \o y)
    BY <1>1
  <2> QED
    BY <1>1, <1>2, <2>1
<1>5. ASSUME NEW i \in 1 .. Len(y) PROVE bits[(p + Len(x)) + i] = y[i]
  <2>1. Len(x) + i \in 1 .. Len(x \o y) /\ (p + Len(x)) + i = p + (Len(x) + i)
    BY <1>1
  <2>2. bits[p + (Len(x) + i)] = (x \o y)[Len(x) + i]
    BY <1>2, <2>1
  <2> QED
    BY <1>1, <2>1, <2>2
<1> QED
  BY <1>3, <1>4, <1>5 DEF Follows

(* ReadBits takes the number that the bits which follow are.                *)
LEMMA BitsTaken ==
    ASSUME NEW p \in Nat, NEW x \in Seq(Bit), bits \in Seq(Bit), Follows(p, x)
    PROVE  ReadBits(p, Len(x)) = [value |-> Number(x), to |-> p + Len(x)]
<1>1. Len(x) \in Nat /\ Len(bits) \in Nat /\ p + Len(x) <= Len(bits)
  BY LenProperties DEF Follows
<1> DEFINE y == SubSeq(bits, p + 1, p + Len(x))
<1>2. y = x
  <2>1. /\ y \in Seq(Bit)
        /\ Len(y) = IF p + 1 <= p + Len(x) THEN p + Len(x) - (p + 1) + 1 ELSE 0
        /\ \A i \in 1 .. p + Len(x) - (p + 1) + 1 : y[i] = bits[p + 1 + i - 1]
    <3>1. p + 1 \in 1 .. Len(bits) + 1 /\ p + Len(x) \in 0 .. Len(bits)
      BY <1>1
    <3> QED
      BY <1>1, <3>1, SubSeqProperties
  <2>2. Len(y) = Len(x)
    BY <1>1, <2>1
  <2>3. \A i \in 1 .. Len(x) : y[i] = x[i]
    <3> TAKE i \in 1 .. Len(x)
    <3>1. i \in 1 .. p + Len(x) - (p + 1) + 1 /\ p + 1 + i - 1 = p + i
      BY <1>1
    <3> QED
      BY <2>1, <3>1 DEF Follows
  <2> QED
    BY <2>1, <2>2, <2>3, SeqEqual
<1> QED
  BY <1>1, <1>2 DEF ReadBits

(* What ReadBits returns, and one bit.                                      *)
LEMMA ReadBitsType ==
    ASSUME NEW p \in Nat, NEW n \in Nat, bits \in Seq(Bit)
    PROVE  /\ ReadBits(p, n) \in [value : Nat, to : Nat]
           /\ ReadBits(p, 1).value \in Bit
<1>1. Len(bits) \in Nat /\ \A i \in 1 .. Len(bits) : bits[i] \in Bit
  BY LenProperties, ElementOfSeq
<1>2. ASSUME NEW m \in Nat, p + m <= Len(bits)
      PROVE  Follows(p, SubSeq(bits, p + 1, p + m)) /\ SubSeq(bits, p + 1, p + m) \in Seq(Bit)
             /\ Len(SubSeq(bits, p + 1, p + m)) = m
             /\ Number(SubSeq(bits, p + 1, p + m)) \in Nat
  <2> DEFINE y == SubSeq(bits, p + 1, p + m)
  <2>1. /\ y \in Seq(Bit)
        /\ Len(y) = IF p + 1 <= p + m THEN p + m - (p + 1) + 1 ELSE 0
        /\ \A i \in 1 .. p + m - (p + 1) + 1 : y[i] = bits[p + 1 + i - 1]
    <3>1. \A i \in p + 1 .. p + m : bits[i] \in Bit
      BY <1>1, <1>2
    <3>2. p + 1 \in Int /\ p + m \in Int
      OBVIOUS
    <3> HIDE DEF y
    <3> QED
      BY <3>1, <3>2, SubSeqProperties DEF y
  <2>2. Len(y) = m
    BY <2>1
  <2>3. \A i \in 1 .. m : bits[p + i] = y[i]
    <3> TAKE i \in 1 .. m
    <3>1. i \in 1 .. p + m - (p + 1) + 1 /\ p + 1 + i - 1 = p + i
      OBVIOUS
    <3> QED
      BY <2>1, <3>1
  <2>4. Number(y) \in Nat
    <3>1. PICK sum \in [0 .. Len(y) -> Nat] : Number(y) = sum[Len(y)]
      BY <2>1, NumberSums
    <3> QED
      BY <2>2, <3>1
  <2> QED
    BY <1>2, <2>1, <2>2, <2>3, <2>4 DEF Follows
<1>3. ReadBits(p, n) \in [value : Nat, to : Nat]
  <2>1. CASE p + n <= Len(bits)
    <3>1. Number(SubSeq(bits, p + 1, p + n)) \in Nat /\ p + n \in Nat
      <4>1. p + n \in Nat
        OBVIOUS
      <4>2. Number(SubSeq(bits, p + 1, p + n)) \in Nat
        BY <1>2, <2>1, Zenon
      <4> QED
        BY <4>1, <4>2
    <3> DEFINE m == Number(SubSeq(bits, p + 1, p + n))
    <3>2. ReadBits(p, n) = [value |-> m, to |-> p + n]
      BY <2>1 DEF ReadBits
    <3> HIDE DEF m
    <3>3. m \in Nat
      BY <3>1 DEF m
    <3> QED
      BY <3>1, <3>2, <3>3
  <2>2. CASE ~(p + n <= Len(bits))
    BY <2>2 DEF ReadBits
  <2> QED
    BY <2>1, <2>2
<1>4. ReadBits(p, 1).value \in Bit
  <2>1. CASE p + 1 <= Len(bits)
    <3> DEFINE y == SubSeq(bits, p + 1, p + 1)
    <3>1. y \in Seq(Bit) /\ Len(y) = 1
      BY <1>2, <2>1
    <3> HIDE DEF y
    <3>2. PICK sum \in [0 .. Len(y) -> Nat] :
              /\ sum[0] = 0
              /\ \A i \in 1 .. Len(y) : sum[i] = sum[i - 1] + Power[i - 1] * y[i]
              /\ Number(y) = sum[Len(y)]
      BY <3>1, NumberSums
    <3>3. y[1] \in Bit
      <4>1. 1 \in 1 .. Len(y)
        BY <3>1
      <4> QED
        BY <3>1, <4>1, ElementOfSeq
    <3>4. sum[1] = 0 + 1 * y[1]
      <4>1. 1 \in 1 .. Len(y) /\ 1 - 1 = 0
        BY <3>1
      <4>2. sum[1] = sum[0] + Power[0] * y[1]
        BY <3>2, <4>1
      <4> QED
        BY <3>2, <4>2, Powers
    <3>5. Number(y) = y[1]
      BY <3>1, <3>2, <3>3, <3>4 DEF Bit
    <3> QED
      BY <2>1, <3>3, <3>5 DEF ReadBits, y
  <2>2. CASE ~(p + 1 <= Len(bits))
    BY <2>2 DEF ReadBits, Bit
  <2> QED
    BY <2>1, <2>2
<1> QED
  BY <1>3, <1>4

(* A number of n bits that follows is read.                                *)
LEMMA BitsRead ==
    ASSUME NEW p \in Nat, NEW v \in Nat, NEW n \in Nat, bits \in Seq(Bit),
           v < Power[n], Follows(p, Bits(v, n))
    PROVE  ReadBits(p, n) = [value |-> v, to |-> p + n]
<1>1. Bits(v, n) \in Seq(Bit) /\ Len(Bits(v, n)) = n /\ Number(Bits(v, n)) = v
  BY NumberOfBits, ShortNumber
<1> QED
  BY <1>1, BitsTaken

(* The next bit is read, if there is one.                                  *)
LEMMA BitRead ==
    ASSUME NEW p \in Nat, bits \in Seq(Bit), p + 1 <= Len(bits)
    PROVE  ReadBits(p, 1) = [value |-> bits[p + 1], to |-> p + 1]
<1>1. bits[p + 1] \in Bit
  <2>1. Len(bits) \in Nat /\ p + 1 \in 1 .. Len(bits)
    BY LenProperties
  <2> QED
    BY <2>1, ElementOfSeq
<1> DEFINE v == bits[p + 1]
<1>2. v \in Nat /\ v < Power[1]
  <2>1. Power[0 + 1] = 2 * Power[0] /\ Power[0] = 1
    BY Powers
  <2> QED
    BY <1>1, <2>1 DEF Bit
<1>3. Bits(v, 1) = <<v>>
  <2>1. Bits(v, 1) \in Seq(Bit) /\ Len(Bits(v, 1)) = 1
    BY <1>2, NumberOfBits
  <2>2. Bits(v, 1)[1] = v
    <3>1. Shifted(v, 1 - 1) = v
      <4> HIDE DEF v
      <4>1. Shifted(v, 0) = v
        BY <1>2, ShiftsHalve
      <4>2. 1 - 1 = 0
        OBVIOUS
      <4> QED
        BY <4>1, <4>2
    <3>2. v % 2 = v
      BY <1>1 DEF Bit
    <3> QED
      BY <3>1, <3>2 DEF Bits
  <2>3. <<v>> \in Seq(Bit) /\ Len(<<v>>) = 1 /\ <<v>>[1] = v
    BY <1>1
  <2> HIDE DEF v
  <2>4. \A i \in 1 .. 1 : Bits(v, 1)[i] = <<v>>[i]
    BY <2>2, <2>3
  <2> QED
    BY <2>1, <2>3, <2>4, SeqEqual
<1>4. Follows(p, <<v>>)
  BY DEF Follows
<1> HIDE DEF v
<1>5. ReadBits(p, 1) = [value |-> v, to |-> p + 1]
  BY <1>2, <1>3, <1>4, BitsRead
<1> QED
  BY <1>5 DEF v

(* Elements that follow are read.                                           *)
LEMMA ElementsRead ==
    ASSUME NEW p \in Nat, NEW v \in Seq(Bit), bits \in Seq(Bit), Follows(p, v)
    PROVE  ReadElements(p, Len(v)) = [value |-> v, to |-> p + Len(v)]
<1>1. Len(v) \in Nat /\ Len(bits) \in Nat
  BY LenProperties
<1>2. ASSUME NEW i \in 1 .. Len(v) PROVE ReadBits(p + i - 1, 1).value = v[i]
  <2>1. p + i - 1 \in Nat /\ (p + i - 1) + 1 = p + i
    BY <1>1
  <2>2. (p + i - 1) + 1 <= Len(bits) /\ bits[p + i] = v[i]
    BY <1>1 DEF Follows
  <2>3. ReadBits(p + i - 1, 1) = [value |-> bits[p + i], to |-> p + i]
    BY <2>1, <2>2, BitRead
  <2> QED
    BY <2>2, <2>3
<1>3. v = [i \in 1 .. Len(v) |-> v[i]]
  BY <1>1, LenProperties
<1> DEFINE e == [i \in 1 .. Len(v) |-> ReadBits(p + i - 1, 1).value]
<1>4. e = v
  BY <1>2, <1>3
<1> QED
  BY <1>4 DEF ReadElements

(* The widths are numbers, and a length fits into the longest number.      *)
LEMMA Widths == /\ Group \in Nat \ {0} /\ Groups \in Nat \ {0} /\ Group * Groups \in Nat
                /\ Byte \in Nat \ {0} /\ Byte = Group + 1
                /\ LengthBits \in Nat /\ LengthBits <= Group * Groups
<1>1. Group \in Nat \ {0} /\ Groups \in Nat \ {0} /\ LengthBits \in 1 .. Group * Groups
  BY CodecAssumption
<1>2. \A x, y \in Nat : x * y \in Nat
  OBVIOUS
<1>3. Group * Groups \in Nat
  BY <1>1, <1>2
<1> HIDE DEF Byte
<1>4. Byte = Group + 1
  BY DEF Byte
<1>5. LengthBits \in Nat /\ LengthBits <= Group * Groups
  BY <1>1, <1>3
<1> QED
  BY <1>1, <1>3, <1>4, <1>5

(* The place j of the byte k.                                               *)
LEMMA Places ==
    ASSUME NEW B \in Nat \ {0}, NEW k \in Nat, NEW j \in 0 .. B - 1
    PROVE  /\ (k * B + j) \div B = k /\ (k * B + j) % B = j
           /\ k * B \in Nat
           /\ \A n \in Nat : k < n => k * B + j < n * B /\ (k + 1) * B <= n * B
           /\ (k + 1) * B = k * B + B
<1>1. \A x, y \in Nat : x * y \in Nat
  OBVIOUS
<1>2. k * B \in Nat
  BY <1>1
<1>3. (k * B + j) \div B = k /\ (k * B + j) % B = j
  OBVIOUS
<1>4. (k + 1) * B = k * B + B
  OBVIOUS
<1>5. ASSUME NEW n \in Nat, k < n PROVE (k + 1) * B <= n * B
  <2> DEFINE m == k + 1
  <2>1. m \in Nat /\ m <= n
    BY <1>5
  <2> HIDE DEF m
  <2>2. m * B <= n * B
    BY <2>1
  <2> QED
    BY <2>2 DEF m
<1>6. ASSUME NEW n \in Nat, k < n PROVE k * B + j < n * B
  <2>1. n * B \in Nat
    BY <1>1
  <2> QED
    BY <1>2, <1>4, <1>5, <1>6, <2>1
<1> QED
  BY <1>2, <1>3, <1>4, <1>5, <1>6

(* And the byte and the place of the position i.                           *)
LEMMA BytesOfPlaces ==
    ASSUME NEW B \in Nat \ {0}, NEW n \in Nat, NEW i \in 1 .. n * B
    PROVE  (i - 1) \div B \in 0 .. n - 1 /\ (i - 1) % B \in 0 .. B - 1
           /\ n * B \in Nat
<1>1. \A x, y \in Nat : x * y \in Nat
  OBVIOUS
<1>2. n * B \in Nat
  BY <1>1
<1>3. i - 1 \in Nat /\ i - 1 < n * B
  BY <1>2
<1> DEFINE q == (i - 1) \div B
           r == (i - 1) % B
<1>4. q \in Nat /\ r \in 0 .. B - 1 /\ i - 1 = q * B + r
  BY <1>3
<1> HIDE DEF q, r
<1>5. q < n
  <2> SUFFICES ASSUME n <= q PROVE FALSE
    BY <1>4
  <2>1. n * B <= q * B
    BY <1>4
  <2>2. q * B \in Nat
    BY <1>1, <1>4
  <2> QED
    BY <1>2, <1>3, <1>4, <2>1, <2>2
<1>6. q \in 0 .. n - 1
  BY <1>4, <1>5
<1> QED
  BY <1>2, <1>4, <1>6 DEF q, r

(* WriteVarInt stops at a group after which nothing is left.               *)
LEMMA SizeOf ==
    ASSUME NEW v \in 0 .. Power[Group * Groups] - 1
    PROVE  /\ Size(v) \in 1 .. Groups
           /\ Shifted(v, Group * Size(v)) = 0
           /\ v \in Nat
<1> DEFINE R == OpToRel(<, Nat)
           T == {k \in 1 .. Groups : Shifted(v, Group * k) = 0}
           Sized(k) == /\ Shifted(v, Group * k) = 0
                       /\ k = 1 \/ Shifted(v, Group * (k - 1)) # 0
<1>1. v \in Nat /\ v < Power[Group * Groups]
  BY Widths, Powers
<1>2. Groups \in T
  <2>1. Shifted(v, Group * Groups) = 0
    BY <1>1, Widths, ShortNumber
  <2>2. Groups \in 1 .. Groups
    BY Widths
  <2> QED
    BY <2>1, <2>2
<1>3. PICK m \in T : \A k \in T : <<k, m>> \notin R
  <2>1. IsWellFoundedOn(R, Nat)
    BY NatLessThanWellFounded
  <2>2. T \subseteq Nat /\ T # {}
    BY <1>2
  <2> HIDE DEF R, T
  <2> QED
    BY <2>1, <2>2, WFMin
<1>4. m \in 1 .. Groups /\ Groups \in Nat
  BY Widths
<1>5. m = 1 \/ Shifted(v, Group * (m - 1)) # 0
  <2> SUFFICES ASSUME m # 1, Shifted(v, Group * (m - 1)) = 0 PROVE FALSE
    OBVIOUS
  <2>1. m - 1 \in 1 .. Groups /\ m - 1 \in Nat /\ m \in Nat /\ m - 1 < m
    BY <1>4
  <2>2. m - 1 \in T
    BY <2>1
  <2>3. <<m - 1, m>> \in R
    BY <2>1 DEF OpToRel
  <2> QED
    BY <1>3, <2>2, <2>3
<1>6. Sized(m)
  BY <1>5
<1> HIDE DEF Sized
<1>7. (CHOOSE k \in 1 .. Groups : Sized(k)) \in 1 .. Groups
      /\ Sized(CHOOSE k \in 1 .. Groups : Sized(k))
  BY <1>4, <1>6
<1>8. Size(v) \in 1 .. Groups /\ Sized(Size(v))
  BY <1>7 DEF Size, Sized
<1> QED
  BY <1>1, <1>8 DEF Sized

(* The groups of a number, and the bits between them.                       *)
LEMMA GroupsOf ==
    ASSUME NEW v \in 0 .. Power[Group * Groups] - 1
    PROVE  /\ VarInt(v) \in Seq(Bit)
           /\ Len(VarInt(v)) = Size(v) * Byte /\ Size(v) * Byte \in Nat
           /\ \A k \in 0 .. Size(v) - 1 :
                 /\ \A j \in 1 .. Group :
                       VarInt(v)[k * Byte + j] = Bits(Shifted(v, Group * k), Group)[j]
                 /\ VarInt(v)[k * Byte + Byte] = IF k + 1 < Size(v) THEN 1 ELSE 0
<1> DEFINE n == Size(v)
           e(i) == LET k == (i - 1) \div Byte
                       j == (i - 1) % Byte
                   IN  IF j < Group THEN Shifted(v, Group * k + j) % 2
                       ELSE IF k + 1 < n THEN 1 ELSE 0
<1>1. n \in Nat /\ n \in 1 .. Groups /\ v \in Nat
  BY SizeOf, Widths
<1>2. VarInt(v) = [i \in 1 .. n * Byte |-> e(i)]
  BY DEF VarInt
<1> HIDE DEF n
<1>3. n * Byte \in Nat
  <2>1. \A x, y \in Nat : x * y \in Nat
    OBVIOUS
  <2> QED
    BY <1>1, <2>1, Widths
<1>4. \A x \in Nat : Group * x \in Nat
  <2>1. \A x, y \in Nat : x * y \in Nat
    OBVIOUS
  <2> QED
    BY <2>1, Widths
<1>5. ASSUME NEW i \in 1 .. n * Byte PROVE e(i) \in Bit
  <2>1. (i - 1) \div Byte \in 0 .. n - 1 /\ (i - 1) % Byte \in 0 .. Byte - 1
    BY <1>1, Widths, BytesOfPlaces
  <2> DEFINE k == (i - 1) \div Byte
             j == (i - 1) % Byte
  <2>2. k \in Nat /\ j \in Nat
    BY <1>1, <2>1, Widths
  <2> HIDE DEF k, j
  <2>3. Shifted(v, Group * k + j) \in Nat
    <3>1. Group * k + j \in Nat
      BY <1>4, <2>2
    <3> QED
      BY <1>1, <3>1, ShiftsHalve
  <2>4. Shifted(v, Group * k + j) % 2 \in Bit
    BY <2>3 DEF Bit
  <2> QED
    BY <2>4 DEF k, j, Bit
<1> HIDE DEF e
<1>6. VarInt(v) \in [1 .. n * Byte -> Bit]
  BY <1>2, <1>5
<1>7. VarInt(v) \in Seq(Bit) /\ Len(VarInt(v)) = n * Byte
  <2>1. VarInt(v) \in Seq(Bit) /\ DOMAIN VarInt(v) = 1 .. n * Byte
    BY <1>3, <1>6, SeqDef
  <2> QED
    BY <1>3, <2>1, LenProperties
<1>8. ASSUME NEW k \in 0 .. n - 1, NEW j \in 0 .. Group
      PROVE  VarInt(v)[k * Byte + j + 1] =
                 IF j < Group THEN Shifted(v, Group * k + j) % 2
                 ELSE IF k + 1 < n THEN 1 ELSE 0
  <2>1. k \in Nat /\ k < n /\ j \in 0 .. Byte - 1 /\ j \in Nat
    BY <1>1, Widths
  <2>2. /\ (k * Byte + j) \div Byte = k /\ (k * Byte + j) % Byte = j
        /\ k * Byte \in Nat /\ k * Byte + j < n * Byte
    BY <1>1, <2>1, Places, Widths
  <2> DEFINE i == k * Byte + j + 1
  <2>3. i \in 1 .. n * Byte /\ i - 1 = k * Byte + j
    BY <1>3, <2>1, <2>2
  <2> HIDE DEF i
  <2>4. e(i) = IF j < Group THEN Shifted(v, Group * k + j) % 2
               ELSE IF k + 1 < n THEN 1 ELSE 0
    BY <2>2, <2>3 DEF e
  <2>5. VarInt(v)[i] = e(i)
    BY <1>2, <2>3
  <2> QED
    BY <2>4, <2>5 DEF i
<1>9. ASSUME NEW k \in 0 .. n - 1, NEW j \in 1 .. Group
      PROVE  VarInt(v)[k * Byte + j] = Bits(Shifted(v, Group * k), Group)[j]
  <2>1. k \in Nat /\ j - 1 \in 0 .. Group /\ j - 1 < Group /\ j - 1 \in Nat
    BY <1>1, Widths
  <2>2. k * Byte \in Nat /\ Group * k \in Nat
    <3>1. \A x, y \in Nat : x * y \in Nat
      OBVIOUS
    <3> QED
      BY <2>1, <3>1, Widths
  <2>3. k * Byte + (j - 1) + 1 = k * Byte + j
    BY <2>2, Widths
  <2>4. VarInt(v)[k * Byte + (j - 1) + 1] = Shifted(v, Group * k + (j - 1)) % 2
    BY <1>8, <2>1
  <2>5. Shifted(v, Group * k + (j - 1)) = Shifted(Shifted(v, Group * k), j - 1)
    BY <1>1, <2>1, <2>2, ShiftsAdd
  <2>6. Bits(Shifted(v, Group * k), Group)[j] = Shifted(Shifted(v, Group * k), j - 1) % 2
    BY DEF Bits
  <2> QED
    BY <2>3, <2>4, <2>5, <2>6
<1>10. ASSUME NEW k \in 0 .. n - 1
       PROVE  VarInt(v)[k * Byte + Byte] = IF k + 1 < n THEN 1 ELSE 0
  <2>1. k * Byte + Group + 1 = k * Byte + Byte
    <3>1. \A x, y \in Nat : x * y \in Nat
      OBVIOUS
    <3>2. k \in Nat
      BY <1>1
    <3>3. k * Byte \in Nat
      BY <3>1, <3>2, Widths
    <3> QED
      BY <3>3, Widths
  <2>2. Group \in 0 .. Group /\ ~(Group < Group)
    BY Widths
  <2>3. VarInt(v)[k * Byte + Group + 1] = IF k + 1 < n THEN 1 ELSE 0
    BY <1>8, <2>2
  <2> QED
    BY <2>1, <2>3
<1> QED
  BY <1>3, <1>7, <1>9, <1>10 DEF n

(* One more group of a number is read.                                      *)
Groupwise == [value : Nat, to : Nat, more : Bit]
OneGroup(k, r) ==
    LET group == ReadBits(r.to, Group)
        more  == ReadBits(group.to, 1)
    IN  [value |-> r.value + Power[Group * (k - 1)] * group.value,
         to |-> more.to, more |-> more.value]

(* What a group adds to a number is a number again.                        *)
LEMMA OneGroupType ==
    ASSUME bits \in Seq(Bit), NEW k \in Nat \ {0}, NEW r \in Groupwise
    PROVE  OneGroup(k, r) \in Groupwise
<1> DEFINE group == ReadBits(r.to, Group)
           more  == ReadBits(group.to, 1)
<1>1. \A x, y \in Nat : x * y \in Nat /\ x + y \in Nat
  OBVIOUS
<1>2. r.to \in Nat /\ r.value \in Nat
  BY DEF Groupwise
<1>3. group \in [value : Nat, to : Nat]
  BY <1>2, Widths, ReadBitsType
<1> HIDE DEF group
<1>4. group.to \in Nat /\ group.value \in Nat
  BY <1>3
<1>5. more \in [value : Nat, to : Nat] /\ more.value \in Bit
  <2>1. 1 \in Nat
    OBVIOUS
  <2> QED
    BY <1>4, <2>1, ReadBitsType
<1> HIDE DEF more
<1>6. Power[Group * (k - 1)] \in Nat
  <2>1. k - 1 \in Nat /\ Group \in Nat
    BY Widths
  <2>2. Group * (k - 1) \in Nat
    BY <1>1, <2>1
  <2> QED
    BY <2>2, Powers
<1>7. r.value + Power[Group * (k - 1)] * group.value \in Nat
  BY <1>1, <1>2, <1>4, <1>6
<1>8. more.to \in Nat
  BY <1>5
<1>9. OneGroup(k, r) = [value |-> r.value + Power[Group * (k - 1)] * group.value,
                        to |-> more.to, more |-> more.value]
  BY DEF OneGroup, more, group
<1> QED
  BY <1>5, <1>7, <1>8, <1>9 DEF Groupwise

(* ReadVarInt takes group after group, until one says that it is the last.  *)
LEMMA GroupsTaken ==
    ASSUME bits \in Seq(Bit), NEW p \in Nat
    PROVE  \E read :
              /\ read[0] = [value |-> 0, to |-> p, more |-> 1]
              /\ \A k \in Nat : /\ read[k] \in Groupwise
                                /\ read[k + 1] = OneGroup(k + 1, read[k])
              /\ \A n \in 1 .. Len(bits) + 1 :
                    read[n].more = 0 /\ (\A j \in 1 .. n - 1 : read[j].more # 0)
                        => ReadVarInt(p) = [value |-> read[n].value, to |-> read[n].to]
<1> DEFINE T == Groupwise
           b == [value |-> 0, to |-> p, more |-> 1]
           G == [x \in (Nat \ {0}) \X T |-> OneGroup(x[1], x[2])]
           Reads(f) == f = [k \in Nat |-> IF k = 0 THEN b ELSE OneGroup(k, f[k - 1])]
           read == CHOOSE f : Reads(f)
           Ends(k) == read[k].more = 0 /\ \A j \in 1 .. k - 1 : read[j].more # 0
           all == CHOOSE k \in 1 .. Len(bits) + 1 : Ends(k)
<1>1. b \in T
  BY DEF Groupwise, Bit
<1>2. G \in StepOf(T)
  BY OneGroupType DEF StepOf
<1>3. PICK f \in [Nat -> T] : f[0] = b /\ \A i \in Nat \ {0} : f[i] = G[<<i, f[i - 1]>>]
  <2> HIDE DEF G, T, b
  <2>1. \E f : Unfolds(f, T, b, G)
    BY <1>1, <1>2, EndlessRecursion
  <2> QED
    BY <2>1 DEF Unfolds
<1>4. \A i \in Nat \ {0} : f[i] = OneGroup(i, f[i - 1])
  <2> TAKE i \in Nat \ {0}
  <2>1. i - 1 \in Nat
    OBVIOUS
  <2>2. <<i, f[i - 1]>> \in (Nat \ {0}) \X T
    BY <1>3, <2>1
  <2> HIDE DEF T
  <2> QED
    BY <1>3, <2>2
<1>5. Reads(f)
  <2> HIDE DEF b, T
  <2> QED
    BY <1>3, <1>4
<1>6. Reads(read)
  <2> HIDE DEF Reads
  <2> QED
    BY <1>5
<1>7. ReadVarInt(p) = [value |-> read[all].value, to |-> read[all].to]
  BY DEF ReadVarInt, OneGroup
<1> HIDE DEF read, b
<1>8. read[0] = b
  BY <1>6
<1>9. \A k \in Nat : read[k + 1] = OneGroup(k + 1, read[k])
  <2> TAKE k \in Nat
  <2>1. k + 1 \in Nat /\ k + 1 # 0 /\ (k + 1) - 1 = k
    OBVIOUS
  <2> QED
    BY <1>6, <2>1
<1>10. \A k \in Nat : read[k] \in Groupwise
  <2> DEFINE S == {k \in Nat : read[k] \in Groupwise}
  <2>1. 0 \in S
    BY <1>1, <1>8
  <2>2. ASSUME NEW k \in Nat, k \in S PROVE k + 1 \in S
    <3>1. read[k] \in Groupwise /\ k + 1 \in Nat \ {0}
      BY <2>2
    <3>2. OneGroup(k + 1, read[k]) \in Groupwise
      BY <3>1, OneGroupType
    <3> QED
      BY <1>9, <3>1, <3>2
  <2>3. Nat \subseteq S
    <3> HIDE DEF S
    <3> QED
      BY <2>1, <2>2, SetInduction
  <2> QED
    BY <2>3
<1>11. ASSUME NEW n \in 1 .. Len(bits) + 1, Ends(n) PROVE all = n
  <2>1. Len(bits) \in Nat
    BY LenProperties
  <2>2. Ends(all) /\ all \in 1 .. Len(bits) + 1
    <3> HIDE DEF Ends
    <3> QED
      BY <1>11
  <2> HIDE DEF all
  <2>3. ~(all < n)
    <3> SUFFICES ASSUME all < n PROVE FALSE
      OBVIOUS
    <3>1. all \in 1 .. n - 1
      BY <2>1, <2>2
    <3> QED
      BY <1>11, <2>2, <3>1
  <2>4. ~(n < all)
    <3> SUFFICES ASSUME n < all PROVE FALSE
      OBVIOUS
    <3>1. n \in 1 .. all - 1
      BY <2>1, <2>2
    <3> QED
      BY <1>11, <2>2, <3>1
  <2> QED
    BY <2>1, <2>2, <2>3, <2>4
<1>12. \A n \in 1 .. Len(bits) + 1 :
          Ends(n) => ReadVarInt(p) = [value |-> read[n].value, to |-> read[n].to]
  <2> HIDE DEF all, Ends
  <2> QED
    BY <1>7, <1>11
<1> HIDE DEF all
<1> QED
  BY <1>8, <1>9, <1>10, <1>12 DEF b

(* A number that follows is read.                                           *)
LEMMA NumberRead ==
    ASSUME NEW p \in Nat, NEW v \in 0 .. Power[Group * Groups] - 1,
           bits \in Seq(Bit), Follows(p, VarInt(v))
    PROVE  ReadVarInt(p) = [value |-> v, to |-> p + Len(VarInt(v))]
<1> DEFINE n == Size(v)
           x == VarInt(v)
<1>1. /\ n \in Nat \ {0} /\ n * Byte \in Nat /\ Len(x) = n * Byte /\ v \in Nat
      /\ Shifted(v, Group * n) = 0
      /\ \A k \in 0 .. n - 1 :
            /\ \A j \in 1 .. Group : x[k * Byte + j] = Bits(Shifted(v, Group * k), Group)[j]
            /\ x[k * Byte + Byte] = IF k + 1 < n THEN 1 ELSE 0
  BY SizeOf, GroupsOf, Widths
<1>2. p + n * Byte <= Len(bits) /\ \A i \in 1 .. n * Byte : bits[p + i] = x[i]
  BY <1>1 DEF Follows
<1>3. Len(bits) \in Nat
  BY LenProperties
<1>4. PICK read :
              /\ read[0] = [value |-> 0, to |-> p, more |-> 1]
              /\ \A k \in Nat : /\ read[k] \in Groupwise
                                /\ read[k + 1] = OneGroup(k + 1, read[k])
              /\ \A m \in 1 .. Len(bits) + 1 :
                    read[m].more = 0 /\ (\A j \in 1 .. m - 1 : read[j].more # 0)
                        => ReadVarInt(p) = [value |-> read[m].value, to |-> read[m].to]
  BY GroupsTaken
<1> HIDE DEF n, x
<1>5. \A a, c \in Nat : a * c \in Nat
  OBVIOUS
<1> DEFINE Good(k) == /\ read[k].to = p + k * Byte
                      /\ v = read[k].value + Power[Group * k] * Shifted(v, Group * k)
                      /\ read[k].more = IF k < n THEN 1 ELSE 0
           S == {k \in Nat : k <= n => Good(k)}
<1>6. 0 \in S
  <2>1. Group * 0 = 0 /\ 0 * Byte = 0 /\ p + 0 = p
    BY Widths
  <2>2. Power[0] = 1 /\ Shifted(v, 0) = v
    BY <1>1, Powers, ShiftsHalve
  <2>3. v = 0 + 1 * v
    BY <1>1
  <2>4. 0 < n
    BY <1>1
  <2>5. read[0].to = p /\ read[0].value = 0 /\ read[0].more = 1
    BY <1>4
  <2>6. Power[Group * 0] = 1 /\ Shifted(v, Group * 0) = v
    BY <2>1, <2>2
  <2>7. Good(0)
    BY <2>1, <2>3, <2>4, <2>5, <2>6
  <2> QED
    BY <2>7
<1>7. ASSUME NEW k \in Nat, k \in S PROVE k + 1 \in S
  <2> SUFFICES ASSUME k + 1 <= n PROVE Good(k + 1)
    OBVIOUS
  <2>1. k \in 0 .. n - 1 /\ k < n /\ k <= n /\ k + 1 \in Nat
    BY <1>1
  <2>2. Good(k)
    BY <1>7, <2>1
  <2> DEFINE w == Shifted(v, Group * k)
             q == p + k * Byte
             g == Number(Bits(w, Group))
  <2>3. Group * k \in Nat /\ k * Byte \in Nat /\ (k + 1) * Byte = k * Byte + Byte
        /\ (k + 1) * Byte <= n * Byte /\ (k + 1) * Byte \in Nat
    <3>1. 0 \in 0 .. Byte - 1
      BY Widths
    <3>2. Group * k \in Nat /\ (k + 1) * Byte \in Nat
      BY <1>5, <2>1, Widths
    <3> QED
      BY <1>1, <2>1, <3>1, <3>2, Places, Widths
  <2>4. w \in Nat /\ q \in Nat
    <3>1. w \in Nat
      BY <1>1, <2>3, ShiftsHalve
    <3>2. \A a, c \in Nat : a + c \in Nat
      OBVIOUS
    <3>3. q \in Nat
      BY <2>3, <3>2
    <3> QED
      BY <3>1, <3>3
  <2>5. /\ Bits(w, Group) \in Seq(Bit) /\ Len(Bits(w, Group)) = Group
        /\ g \in Nat /\ w = g + Power[Group] * Shifted(w, Group)
    BY <2>4, Widths, NumberOfBits
  <2>6. Follows(q, Bits(w, Group))
    <3>1. q + Group <= Len(bits)
      BY <1>1, <1>2, <1>3, <2>3, Widths
    <3>2. ASSUME NEW j \in 1 .. Group PROVE bits[q + j] = Bits(w, Group)[j]
      <4>1. k * Byte + j \in 1 .. n * Byte /\ q + j = p + (k * Byte + j)
        <5>1. \A y, m \in Nat : y + Byte <= m =>
                  y + j \in 1 .. m /\ (p + y) + j = p + (y + j)
          BY Widths
        <5> QED
          BY <1>1, <2>3, <5>1
      <4>2. x[k * Byte + j] = Bits(w, Group)[j]
        BY <1>1, <2>1
      <4> QED
        BY <1>2, <4>1, <4>2
    <3> HIDE DEF q, w
    <3> QED
      BY <2>5, <3>1, <3>2 DEF Follows
  <2>7. ReadBits(q, Group) = [value |-> g, to |-> q + Group]
    <3> HIDE DEF q, w
    <3> QED
      BY <2>4, <2>5, <2>6, BitsTaken DEF g
  <2>8. ReadBits(q + Group, 1) = [value |-> IF k + 1 < n THEN 1 ELSE 0, to |-> p + (k + 1) * Byte]
    <3>1. (q + Group) + 1 = p + (k + 1) * Byte /\ q + Group \in Nat
          /\ (k + 1) * Byte \in 1 .. n * Byte
      BY <1>1, <2>3, <2>4, Widths
    <3>2. bits[p + (k + 1) * Byte] = IF k + 1 < n THEN 1 ELSE 0
      BY <1>1, <1>2, <2>1, <2>3, <3>1
    <3>3. (q + Group) + 1 <= Len(bits)
      BY <1>1, <1>2, <1>3, <2>3, <3>1
    <3> HIDE DEF q
    <3>4. ReadBits(q + Group, 1) = [value |-> bits[(q + Group) + 1], to |-> (q + Group) + 1]
      BY <3>1, <3>3, BitRead
    <3> QED
      BY <3>1, <3>2, <3>4
  <2> HIDE DEF q, w, g
  <2>9. read[k + 1] = [value |-> read[k].value + Power[Group * k] * g,
                       to |-> p + (k + 1) * Byte, more |-> IF k + 1 < n THEN 1 ELSE 0]
    <3>1. read[k].to = q
      BY <2>2 DEF q
    <3>2. (k + 1) - 1 = k
      OBVIOUS
    <3>3. read[k + 1] = OneGroup(k + 1, read[k])
      BY <1>4
    <3> QED
      BY <2>7, <2>8, <3>1, <3>2, <3>3 DEF OneGroup
  <2>10. /\ Shifted(w, Group) = Shifted(v, Group * (k + 1))
         /\ Power[Group * (k + 1)] = Power[Group * k] * Power[Group]
    <3>1. Group * (k + 1) = Group * k + Group
      BY Widths
    <3>2. Shifted(w, Group) = Shifted(v, Group * k + Group)
      BY <1>1, <2>3, Widths, ShiftsAdd DEF w
    <3>3. Power[Group * k + Group] = Power[Group * k] * Power[Group]
      BY <2>3, Widths, PowersAdd
    <3> QED
      BY <3>1, <3>2, <3>3
  <2>11. v = (read[k].value + Power[Group * k] * g) + Power[Group * (k + 1)] * Shifted(v, Group * (k + 1))
    <3>1. v = read[k].value + Power[Group * k] * w
      BY <2>2 DEF w
    <3>2. \A a, c, d, s, y \in Nat : y = c + d * s => a * y = a * c + (a * d) * s
      <4>1. \A a, c, d, s \in Nat : a * (c + d * s) = a * c + (a * d) * s
        OBVIOUS
      <4> QED
        BY <4>1
    <3>3. Power[Group * k] \in Nat /\ Power[Group] \in Nat /\ Shifted(w, Group) \in Nat /\ read[k].value \in Nat
      <4>1. Power[Group * k] \in Nat /\ Power[Group] \in Nat /\ Shifted(w, Group) \in Nat
        BY <2>3, <2>4, Widths, Powers, ShiftsHalve
      <4>2. read[k].value \in Nat
        BY <1>4 DEF Groupwise
      <4> QED
        BY <4>1, <4>2
    <3>4. Power[Group * k] * w = Power[Group * k] * g + (Power[Group * k] * Power[Group]) * Shifted(w, Group)
      <4> DEFINE a == Power[Group * k]
                 d == Power[Group]
                 s == Shifted(w, Group)
      <4>1. /\ a \in Nat /\ g \in Nat /\ d \in Nat /\ s \in Nat /\ w \in Nat
            /\ w = g + d * s
        BY <2>4, <2>5, <3>3
      <4> HIDE DEF a, d, s
      <4>2. a * w = a * g + (a * d) * s
        BY <3>2, <4>1
      <4> QED
        BY <4>2 DEF a, d, s
    <3>5. Power[Group * k] * g \in Nat /\ (Power[Group * k] * Power[Group]) * Shifted(w, Group) \in Nat
      BY <1>5, <2>5, <3>3
    <3> QED
      BY <2>10, <3>1, <3>3, <3>4, <3>5
  <2> QED
    BY <2>9, <2>11
<1>8. Nat \subseteq S
  <2> HIDE DEF S
  <2> QED
    BY <1>6, <1>7, SetInduction
<1>9. \A k \in 0 .. n : Good(k)
  BY <1>1, <1>8
<1> HIDE DEF S
<1>10. read[n].to = p + n * Byte /\ read[n].value = v /\ read[n].more = 0
  <2>1. Good(n)
    BY <1>1, <1>9
  <2>2. Power[Group * n] * 0 = 0 /\ read[n].value \in Nat
    <3>1. Group * n \in Nat
      BY <1>1, <1>5, Widths
    <3>2. Power[Group * n] \in Nat
      BY <3>1, Powers
    <3>3. read[n].value \in Nat
      BY <1>1, <1>4 DEF Groupwise
    <3> QED
      BY <3>2, <3>3
  <2> QED
    BY <1>1, <2>1, <2>2
<1>11. \A j \in 1 .. n - 1 : read[j].more # 0
  <2> TAKE j \in 1 .. n - 1
  <2>1. j \in 0 .. n /\ j < n
    BY <1>1
  <2> QED
    BY <1>9, <2>1
<1>12. n \in 1 .. Len(bits) + 1
  <2>1. n <= n * Byte
    BY <1>1, Widths
  <2> QED
    BY <1>1, <1>2, <1>3, <2>1
<1> HIDE DEF Good
<1> QED
  BY <1>1, <1>4, <1>10, <1>11, <1>12 DEF x

(* What each kind of field holds.                                           *)
LEMMA ValuesAre ==
    /\ Limit \in Nat \ {0} /\ Power[Byte] \in Nat \ {0}
    /\ \A v \in Value("bool") : v \in Bit
    /\ Value("varint") = 0 .. Power[Group * Groups] - 1
    /\ \A v \in Value("string") : v \in Seq(Octet)
    /\ \A kind \in {"array", "repeated", "set"} : \A v \in Value(kind) : v \in Seq(Bit)
    /\ \A kind \in {"fixed", "int", "float"} : Value(kind) = Octet
<1>1. Power[Byte] \in Nat \ {0} /\ Limit \in Nat \ {0}
  BY Widths, Powers DEF Limit
<1>2. \A v \in Value("bool") : v \in Bit
  BY DEF Value, Bit
<1>3. Value("varint") = 0 .. Power[Group * Groups] - 1
  BY DEF Value
<1>4. ASSUME NEW v \in Value("string") PROVE v \in Seq(Octet)
  <2> DEFINE P == Power[Byte]
  <2>1. Value("string") = {[i \in 1 .. n |-> (i + 3) % P] : n \in 0 .. Limit}
    BY DEF Value
  <2>2. PICK n \in 0 .. Limit : v = [i \in 1 .. n |-> (i + 3) % P]
    BY <1>4, <2>1
  <2>3. Octet = 0 .. P - 1
    BY DEF Octet
  <2>4. P \in Nat \ {0}
    BY <1>1
  <2> HIDE DEF P
  <2>5. \A i \in 1 .. n : (i + 3) % P \in 0 .. P - 1
    BY <2>4
  <2>6. v \in [1 .. n -> Octet] /\ n \in Nat
    BY <1>1, <2>2, <2>3, <2>5
  <2> QED
    BY <2>6, SeqDef
<1>5. ASSUME NEW kind \in {"array", "repeated"}, NEW v \in Value(kind) PROVE v \in Seq(Bit)
  <2>1. PICK n \in 0 .. Limit : v = [i \in 1 .. n |-> i % 2]
    BY <1>5 DEF Value
  <2>2. \A i \in 1 .. n : i % 2 \in Bit
    BY DEF Bit
  <2>3. v \in [1 .. n -> Bit] /\ n \in Nat
    BY <1>1, <2>1, <2>2
  <2> QED
    BY <2>3, SeqDef
<1>6. ASSUME NEW v \in Value("set") PROVE v \in Seq(Bit)
  <2>1. v = <<>> \/ v \in [{1} -> Bit] \/ v \in [{1, 2} -> Bit]
    BY <1>6 DEF Value, Bit
  <2>2. {1} = 1 .. 1 /\ {1, 2} = 1 .. 2 /\ 1 \in Nat /\ 2 \in Nat
    OBVIOUS
  <2>3. \A n \in Nat : \A w \in [1 .. n -> Bit] : w \in Seq(Bit)
    BY SeqDef
  <2>4. v \in [{1} -> Bit] => v \in Seq(Bit)
    BY <2>2, <2>3
  <2>5. v \in [{1, 2} -> Bit] => v \in Seq(Bit)
    BY <2>2, <2>3
  <2>6. <<>> \in Seq(Bit)
    OBVIOUS
  <2> QED
    BY <2>1, <2>4, <2>5, <2>6
<1>7. \A kind \in {"fixed", "int", "float"} : Value(kind) = Octet
  BY DEF Value
<1> QED
  BY <1>1, <1>2, <1>3, <1>4, <1>5, <1>6, <1>7

(* The buffer begins with b, and x follows.                                 *)
LEMMA BeginsInParts ==
    ASSUME NEW b \in Seq(Bit), NEW x \in Seq(Bit)
    PROVE  /\ b \o x \in Seq(Bit) /\ Len(b \o x) = Len(b) + Len(x)
           /\ Len(b) \in Nat /\ Len(x) \in Nat
           /\ bits \in Seq(Bit) /\ Begins(b \o x) => Begins(b) /\ Follows(Len(b), x)
<1>1. /\ b \o x \in Seq(Bit) /\ Len(b \o x) = Len(b) + Len(x)
      /\ Len(b) \in Nat /\ Len(x) \in Nat
  BY Joined
<1>2. bits \in Seq(Bit) /\ Begins(b \o x) => Begins(b) /\ Follows(Len(b), x)
  <2> SUFFICES ASSUME bits \in Seq(Bit), Begins(b \o x) PROVE Begins(b) /\ Follows(Len(b), x)
    OBVIOUS
  <2>1. Follows(0, b \o x)
    BY DEF Begins
  <2>2. Follows(0, b) /\ Follows(0 + Len(b), x)
    <3>1. 0 \in Nat
      OBVIOUS
    <3> QED
      BY <2>1, <3>1, FollowsInParts
  <2>3. 0 + Len(b) = Len(b)
    BY <1>1
  <2> QED
    BY <2>2, <2>3 DEF Begins
<1> QED
  BY <1>1, <1>2

(* The next byte is at a multiple of a byte, and not before.                *)
LEMMA NextBytes ==
    ASSUME NEW p \in Nat
    PROVE  /\ NextByte(p) \in Nat /\ NextByte(p) >= p
           /\ \E k \in Nat : NextByte(p) = k * Byte
<1> DEFINE q == (-p) \div Byte
           r == (-p) % Byte
<1>1. q \in Int /\ r \in 0 .. Byte - 1 /\ -p = Byte * q + r
  <2>1. \A m \in Int : \A d \in Nat \ {0} :
            m \div d \in Int /\ m % d \in 0 .. d - 1 /\ m = d * (m \div d) + (m % d)
    OBVIOUS
  <2>2. -p \in Int
    OBVIOUS
  <2> QED
    BY <2>1, <2>2, Widths
<1>2. NextByte(p) = p + r
  BY DEF NextByte
<1> HIDE DEF q, r
<1>3. p + r = (-q) * Byte
  BY <1>1, Widths
<1>4. -q \in Nat
  <2> SUFFICES ASSUME q > 0 PROVE FALSE
    BY <1>1
  <2>1. Byte * q >= 1
    BY <1>1, Widths
  <2>2. Byte * q \in Int
    BY <1>1, Widths
  <2> QED
    BY <1>1, <2>1, <2>2, Widths
<1>5. p + r \in Nat /\ p + r >= p
  BY <1>1, Widths
<1> QED
  BY <1>2, <1>3, <1>4, <1>5

(* Padding fills the last byte, and leaves what is before it.              *)
LEMMA PaddedTo ==
    ASSUME NEW b \in Seq(Bit)
    PROVE  /\ Padded(b) \in Seq(Bit) /\ Len(Padded(b)) = NextByte(Len(b))
           /\ Len(b) \in Nat /\ NextByte(Len(b)) \in Nat
           /\ bits \in Seq(Bit) /\ Begins(Padded(b)) => Begins(b)
<1> DEFINE n == NextByte(Len(b)) - Len(b)
           z == [i \in 1 .. n |-> 0]
<1>1. Len(b) \in Nat /\ n \in Nat /\ NextByte(Len(b)) \in Nat
  <2>1. Len(b) \in Nat
    BY LenProperties
  <2>2. NextByte(Len(b)) \in Nat /\ NextByte(Len(b)) >= Len(b)
    BY <2>1, NextBytes
  <2> QED
    BY <2>1, <2>2
<1>2. Padded(b) = b \o z
  BY DEF Padded
<1>3. NextByte(Len(b)) = Len(b) + n
  BY <1>1
<1> HIDE DEF n
<1>4. z \in [1 .. n -> Bit]
  BY DEF Bit
<1>5. z \in Seq(Bit) /\ Len(z) = n
  <2>1. z \in Seq(Bit) /\ DOMAIN z = 1 .. n
    BY <1>1, <1>4, SeqDef
  <2> HIDE DEF z
  <2> QED
    BY <1>1, <2>1, LenProperties
<1> HIDE DEF z
<1>6. b \o z \in Seq(Bit) /\ Len(b \o z) = Len(b) + n
  BY <1>5, BeginsInParts
<1>7. bits \in Seq(Bit) /\ Begins(b \o z) => Begins(b)
  BY <1>5, BeginsInParts
<1> QED
  BY <1>1, <1>2, <1>3, <1>6, <1>7

(* Bytes that follow, at a byte, are read.                                  *)
LEMMA BytesRead ==
    ASSUME NEW b \in Seq(Bit), NEW s \in Seq(Octet)
    PROVE  /\ WriteBytes(b, s) \in Seq(Bit)
           /\ bits \in Seq(Bit) /\ Begins(WriteBytes(b, s))
                  => /\ Begins(b)
                     /\ ReadBytes(Len(b), Len(s)) = [value |-> s, to |-> Len(WriteBytes(b, s))]
<1> DEFINE n == Len(s)
           e(i) == Bits(s[(i - 1) \div Byte + 1], Byte)[((i - 1) % Byte) + 1]
           x == [i \in 1 .. n * Byte |-> e(i)]
<1>1. n \in Nat /\ s \in [1 .. n -> Octet] /\ n * Byte \in Nat
  <2>1. n \in Nat /\ s \in [1 .. n -> Octet]
    BY LenProperties
  <2>2. \A a, c \in Nat : a * c \in Nat
    OBVIOUS
  <2> QED
    BY <2>1, <2>2, Widths
<1>2. WriteBytes(b, s) = Padded(b) \o x
  BY DEF WriteBytes
<1> HIDE DEF n
<1>3. ASSUME NEW i \in 1 .. n
      PROVE  /\ Bits(s[i], Byte) \in Seq(Bit) /\ Len(Bits(s[i], Byte)) = Byte
             /\ Number(Bits(s[i], Byte)) = s[i]
             /\ \A j \in 1 .. Byte : Bits(s[i], Byte)[j] \in Bit
  <2>1. s[i] \in Nat /\ s[i] < Power[Byte] /\ Byte \in Nat
    <3>1. s[i] \in Octet
      BY <1>1
    <3>2. Byte \in Nat
      BY Widths
    <3>3. Power[Byte] \in Nat
      BY <3>2, Powers
    <3> QED
      BY <3>1, <3>2, <3>3 DEF Octet
  <2>2. /\ Bits(s[i], Byte) \in Seq(Bit) /\ Len(Bits(s[i], Byte)) = Byte
        /\ Number(Bits(s[i], Byte)) = s[i]
    BY <2>1, NumberOfBits, ShortNumber
  <2> QED
    BY <2>2, ElementOfSeq
<1>4. x \in Seq(Bit) /\ Len(x) = n * Byte
  <2>1. ASSUME NEW i \in 1 .. n * Byte PROVE e(i) \in Bit
    <3>1. (i - 1) \div Byte \in 0 .. n - 1 /\ (i - 1) % Byte \in 0 .. Byte - 1
      BY <1>1, Widths, BytesOfPlaces
    <3>2. ((i - 1) \div Byte) + 1 \in 1 .. n /\ ((i - 1) % Byte) + 1 \in 1 .. Byte
      BY <1>1, <3>1, Widths
    <3> QED
      BY <1>3, <3>2
  <2> HIDE DEF e
  <2>2. x \in [1 .. n * Byte -> Bit]
    BY <2>1
  <2>3. x \in Seq(Bit) /\ DOMAIN x = 1 .. n * Byte
    BY <1>1, <2>2, SeqDef
  <2> HIDE DEF x
  <2> QED
    BY <1>1, <2>3, LenProperties
<1>5. ASSUME NEW i \in 1 .. n, NEW j \in 1 .. Byte
      PROVE  /\ (i - 1) * Byte + j \in 1 .. n * Byte
             /\ x[(i - 1) * Byte + j] = Bits(s[i], Byte)[j]
  <2>1. i - 1 \in Nat /\ j - 1 \in 0 .. Byte - 1 /\ i - 1 < n /\ (i - 1) + 1 = i /\ (j - 1) + 1 = j
    BY <1>1, Widths
  <2>2. /\ ((i - 1) * Byte + (j - 1)) \div Byte = i - 1
        /\ ((i - 1) * Byte + (j - 1)) % Byte = j - 1
        /\ (i - 1) * Byte \in Nat /\ (i - 1) * Byte + (j - 1) < n * Byte
    <3> DEFINE k == i - 1
               l == j - 1
    <3>1. k \in Nat /\ l \in 0 .. Byte - 1 /\ k < n
      BY <2>1
    <3> HIDE DEF k, l
    <3>2. /\ (k * Byte + l) \div Byte = k /\ (k * Byte + l) % Byte = l
          /\ k * Byte \in Nat /\ k * Byte + l < n * Byte
      BY <1>1, <3>1, Widths, Places
    <3> QED
      BY <3>2 DEF k, l
  <2> DEFINE y == (i - 1) * Byte + j
  <2>3. y \in 1 .. n * Byte /\ y - 1 = (i - 1) * Byte + (j - 1)
    BY <1>1, <2>2, Widths
  <2> HIDE DEF y
  <2>4. e(y) = Bits(s[i], Byte)[j]
    BY <2>1, <2>2, <2>3
  <2> HIDE DEF e
  <2>5. x[y] = e(y)
    BY <2>3
  <2> QED
    BY <2>3, <2>4, <2>5 DEF y
<1>6. /\ Padded(b) \in Seq(Bit) /\ Len(Padded(b)) = NextByte(Len(b))
      /\ Len(b) \in Nat /\ NextByte(Len(b)) \in Nat
  BY PaddedTo
<1> HIDE DEF x
<1>7. /\ WriteBytes(b, s) \in Seq(Bit)
      /\ Len(WriteBytes(b, s)) = NextByte(Len(b)) + n * Byte
  <2> DEFINE w == Padded(b)
  <2>1. w \in Seq(Bit)
    BY <1>6
  <2> HIDE DEF w
  <2>2. w \o x \in Seq(Bit) /\ Len(w \o x) = Len(w) + Len(x)
    BY <1>4, <2>1, BeginsInParts
  <2> QED
    BY <1>2, <1>4, <1>6, <2>2 DEF w
<1>8. ASSUME bits \in Seq(Bit), Begins(WriteBytes(b, s))
      PROVE  /\ Begins(b)
             /\ ReadBytes(Len(b), n) = [value |-> s, to |-> Len(WriteBytes(b, s))]
  <2> DEFINE q == NextByte(Len(b))
  <2>1. Begins(Padded(b)) /\ Follows(q, x)
    BY <1>2, <1>4, <1>6, <1>8, BeginsInParts
  <2>2. Begins(b)
    BY <1>8, <2>1, PaddedTo
  <2>3. q \in Nat /\ Len(bits) \in Nat
    BY <1>6, <1>8, LenProperties
  <2> HIDE DEF q
  <2>4. q + n * Byte <= Len(bits) /\ \A i \in 1 .. n * Byte : bits[q + i] = x[i]
    BY <1>4, <2>1 DEF Follows
  <2>5. ASSUME NEW i \in 1 .. n
        PROVE  Number(SubSeq(bits, q + (i - 1) * Byte + 1, q + i * Byte)) = s[i]
    <3> DEFINE p == q + (i - 1) * Byte
    <3>1. (i - 1) * Byte \in Nat /\ i * Byte = (i - 1) * Byte + Byte /\ i * Byte <= n * Byte
          /\ i * Byte \in Nat
      <4>1. i - 1 \in Nat /\ i - 1 < n /\ (i - 1) + 1 = i /\ 0 \in 0 .. Byte - 1
        BY <1>1, Widths
      <4>2. /\ (i - 1) * Byte \in Nat /\ ((i - 1) + 1) * Byte = (i - 1) * Byte + Byte
            /\ ((i - 1) + 1) * Byte <= n * Byte
        BY <1>1, <4>1, Widths, Places
      <4> QED
        BY <4>1, <4>2, Widths
    <3>2. p \in Nat /\ p + Byte = q + i * Byte /\ p + Byte <= Len(bits)
      BY <1>1, <2>3, <2>4, <3>1, Widths
    <3>3. ASSUME NEW j \in 1 .. Byte PROVE bits[p + j] = Bits(s[i], Byte)[j]
      <4>1. p + j = q + ((i - 1) * Byte + j)
        BY <2>3, <3>1
      <4>2. bits[q + ((i - 1) * Byte + j)] = x[(i - 1) * Byte + j]
        BY <1>5, <2>4
      <4> QED
        BY <1>5, <4>1, <4>2
    <3> HIDE DEF p
    <3>4. Follows(p, Bits(s[i], Byte))
      BY <1>3, <3>2, <3>3 DEF Follows
    <3>5. ReadBits(p, Byte) = [value |-> s[i], to |-> p + Byte]
      BY <1>3, <1>8, <3>2, <3>4, BitsTaken
    <3>6. Number(SubSeq(bits, p + 1, p + Byte)) = s[i]
      BY <3>2, <3>5 DEF ReadBits
    <3> QED
      BY <3>2, <3>6 DEF p
  <2>6. Bytes(bits, q, n) = s
    <3>1. Bytes(bits, q, n) = [i \in 1 .. n |-> s[i]]
      BY <2>5 DEF Bytes
    <3>2. s = [i \in 1 .. n |-> s[i]]
      BY <1>1
    <3> QED
      BY <3>1, <3>2
  <2>7. ReadBytes(Len(b), n) = [value |-> s, to |-> q + n * Byte]
    BY <2>4, <2>6 DEF ReadBytes, q
  <2> QED
    BY <1>7, <2>2, <2>7 DEF q
<1> QED
  BY <1>7, <1>8 DEF n

(* The zigzag of a number turns back into it, and is a number of a byte.    *)
LEMMA ZigZagBack ==
    ASSUME NEW v \in Octet
    PROVE  ZigZag(v) \in Octet /\ UnZigZag(ZigZag(v) % Power[Byte]) = v
<1> DEFINE h == Power[Group]
           w == Power[Byte]
           z == ZigZag(v)
<1>1. h \in Nat \ {0} /\ w = 2 * h
  BY Widths, Powers
<1>2. v \in 0 .. w - 1
  BY DEF Octet
<1>3. z = IF v >= h THEN w - 1 - ((2 * v) % w) ELSE (2 * v) % w
  BY DEF ZigZag
<1>4. UnZigZag(z % w) = IF (z % w) % 2 = 1 THEN (w - 1 - (z % w)) \div 2 + h ELSE (z % w) \div 2
  BY DEF UnZigZag
<1>5. Octet = 0 .. w - 1
  BY DEF Octet
<1> HIDE DEF h, w, z
<1>6. \A x \in Nat : x < w => x % w = x
  BY <1>1
<1>7. CASE v < h
  <2>1. 2 * v \in Nat /\ 2 * v < w
    BY <1>1, <1>2, <1>7
  <2>2. z = 2 * v
    BY <1>1, <1>2, <1>3, <1>6, <1>7, <2>1
  <2>3. z % w = 2 * v
    BY <1>6, <2>1, <2>2
  <2>4. (2 * v) % 2 # 1 /\ (2 * v) \div 2 = v
    BY <1>1, <1>2
  <2> QED
    BY <1>1, <1>4, <1>5, <2>1, <2>2, <2>3, <2>4 DEF w, z
<1>8. CASE v >= h
  <2> DEFINE d == v - h
  <2>1. d \in Nat /\ v = h + d /\ 2 * d < w /\ 2 * v = w + 2 * d
    BY <1>1, <1>2, <1>8
  <2> HIDE DEF d
  <2>2. (2 * v) % w = 2 * d
    <3>1. (w + 2 * d) % w = 2 * d
      BY <1>1, <2>1
    <3> QED
      BY <2>1, <3>1
  <2>3. z = w - 1 - 2 * d
    BY <1>3, <1>8, <2>2
  <2>4. z \in Nat /\ z < w
    BY <1>1, <2>1, <2>3
  <2>5. z % w = w - 1 - 2 * d
    BY <1>6, <2>3, <2>4
  <2>6. (w - 1 - 2 * d) % 2 = 1
    BY <1>1, <2>1
  <2>7. (w - 1 - (w - 1 - 2 * d)) \div 2 + h = v
    BY <1>1, <2>1
  <2> QED
    BY <1>1, <1>4, <1>5, <2>4, <2>5, <2>6, <2>7 DEF w, z
<1> QED
  BY <1>1, <1>2, <1>7, <1>8

(* Zigzags and lengths fit into the longest number; a length below Limit is not cut. *)
LEMMA LengthsFit ==
    /\ Octet \subseteq 0 .. Power[Group * Groups] - 1
    /\ \A n \in Nat : n < Limit => n \in 0 .. Power[Group * Groups] - 1 /\ n % Limit = n
    /\ Limit \in Nat \ {0}
<1>1. \A a, c \in Nat : a <= c => Power[a] <= Power[c]
  <2> TAKE a, c \in Nat
  <2> SUFFICES ASSUME a <= c PROVE Power[a] <= Power[c]
    OBVIOUS
  <2>1. c - a \in Nat /\ a + (c - a) = c
    OBVIOUS
  <2>2. Power[a] <= Power[a + (c - a)]
    BY <2>1, PowersAdd
  <2> QED
    BY <2>1, <2>2
<1>2. Byte <= Group * Groups
  <2>1. Groups \in Nat /\ Groups >= 2 /\ Group \in Nat \ {0}
    BY CodecAssumption
  <2>2. Group * 2 <= Group * Groups
    BY <2>1
  <2>3. Group * Groups \in Nat
    BY Widths
  <2> QED
    BY <2>1, <2>2, <2>3, Widths
<1>3. Power[Byte] <= Power[Group * Groups] /\ Power[LengthBits] <= Power[Group * Groups]
  BY <1>1, <1>2, Widths
<1>4. Power[Byte] \in Nat /\ Power[LengthBits] \in Nat \ {0} /\ Power[Group * Groups] \in Nat
  BY Widths, Powers
<1>5. \A n \in Nat : n < Limit => n % Limit = n
  <2> DEFINE m == Power[LengthBits]
  <2>1. m \in Nat \ {0}
    BY <1>4
  <2> HIDE DEF m
  <2>2. \A n \in Nat : n < m => n % m = n
    BY <2>1
  <2> QED
    BY <2>2 DEF m, Limit
<1> QED
  BY <1>3, <1>4, <1>5 DEF Octet, Limit

(* A number that was written is read.                                       *)
LEMMA NumberArrives ==
    ASSUME NEW b \in Seq(Bit), NEW v \in 0 .. Power[Group * Groups] - 1
    PROVE  /\ b \o VarInt(v) \in Seq(Bit)
           /\ bits \in Seq(Bit) /\ Begins(b \o VarInt(v))
                  => /\ Begins(b)
                     /\ ReadVarInt(Len(b)) = [value |-> v, to |-> Len(b \o VarInt(v))]
<1>1. VarInt(v) \in Seq(Bit)
  BY GroupsOf
<1>2. /\ b \o VarInt(v) \in Seq(Bit) /\ Len(b \o VarInt(v)) = Len(b) + Len(VarInt(v))
      /\ Len(b) \in Nat
      /\ bits \in Seq(Bit) /\ Begins(b \o VarInt(v)) => Begins(b) /\ Follows(Len(b), VarInt(v))
  BY <1>1, BeginsInParts
<1>3. ASSUME bits \in Seq(Bit), Begins(b \o VarInt(v))
      PROVE  /\ Begins(b)
             /\ ReadVarInt(Len(b)) = [value |-> v, to |-> Len(b \o VarInt(v))]
  <2>1. Begins(b) /\ Follows(Len(b), VarInt(v))
    BY <1>2, <1>3
  <2>2. ReadVarInt(Len(b)) = [value |-> v, to |-> Len(b) + Len(VarInt(v))]
    BY <1>2, <1>3, <2>1, NumberRead
  <2> QED
    BY <1>2, <2>1, <2>2
<1> QED
  BY <1>2, <1>3

(* And so is a number of n bits.                                            *)
LEMMA BitsArrive ==
    ASSUME NEW b \in Seq(Bit), NEW n \in Nat, NEW v \in Nat, v < Power[n]
    PROVE  /\ b \o Bits(v, n) \in Seq(Bit)
           /\ bits \in Seq(Bit) /\ Begins(b \o Bits(v, n))
                  => /\ Begins(b)
                     /\ ReadBits(Len(b), n) = [value |-> v, to |-> Len(b \o Bits(v, n))]
<1>1. Bits(v, n) \in Seq(Bit) /\ Len(Bits(v, n)) = n
  BY NumberOfBits
<1>2. /\ b \o Bits(v, n) \in Seq(Bit) /\ Len(b \o Bits(v, n)) = Len(b) + n
      /\ Len(b) \in Nat
      /\ bits \in Seq(Bit) /\ Begins(b \o Bits(v, n)) => Begins(b) /\ Follows(Len(b), Bits(v, n))
  BY <1>1, BeginsInParts
<1> QED
  BY <1>2, BitsRead

(* And so are elements.                                                    *)
LEMMA ElementsArrive ==
    ASSUME NEW b \in Seq(Bit), NEW v \in Seq(Bit)
    PROVE  /\ b \o v \in Seq(Bit)
           /\ bits \in Seq(Bit) /\ Begins(b \o v)
                  => /\ Begins(b)
                     /\ ReadElements(Len(b), Len(v)) = [value |-> v, to |-> Len(b \o v)]
<1>1. /\ b \o v \in Seq(Bit) /\ Len(b \o v) = Len(b) + Len(v) /\ Len(b) \in Nat
      /\ bits \in Seq(Bit) /\ Begins(b \o v) => Begins(b) /\ Follows(Len(b), v)
  BY BeginsInParts
<1> QED
  BY <1>1, ElementsRead

(* All of a sequence, and the length that is written before it.             *)
LEMMA AllOf ==
    ASSUME NEW T, NEW v \in Seq(T)
    PROVE  SubSeq(v, 1, Len(v)) = v
<1> DEFINE n == Len(v)
           y == SubSeq(v, 1, n)
<1>1. n \in Nat /\ v \in [1 .. n -> T]
  BY LenProperties
<1>2. /\ y \in Seq(T)
      /\ Len(y) = IF 1 <= n THEN n - 1 + 1 ELSE 0
      /\ \A i \in 1 .. n - 1 + 1 : y[i] = v[1 + i - 1]
  <2>1. \A i \in 1 .. n : v[i] \in T
    BY <1>1
  <2>2. 1 \in Int /\ n \in Int
    BY <1>1
  <2> HIDE DEF n
  <2> QED
    BY <2>1, <2>2, SubSeqProperties
<1>3. Len(y) = n
  BY <1>1, <1>2
<1>4. \A i \in 1 .. n : y[i] = v[i]
  <2> TAKE i \in 1 .. n
  <2>1. i \in 1 .. n - 1 + 1 /\ 1 + i - 1 = i
    BY <1>1
  <2> QED
    BY <1>2, <2>1
<1> HIDE DEF y
<1>5. y = v
  BY <1>2, <1>3, <1>4, SeqEqual
<1> QED
  BY <1>5 DEF y

(* A value that is shorter than Limit is counted and written whole.        *)
LEMMA Wholly ==
    ASSUME NEW T, NEW v \in Seq(T), Len(v) < Limit
    PROVE  /\ Counted(v) = Len(v) /\ Len(v) \in Nat
           /\ Len(v) \in 0 .. Power[Group * Groups] - 1
           /\ SubSeq(v, 1, Len(v)) = v
           /\ [i \in 1 .. Len(v) |-> v[i]] = v
<1>1. Len(v) \in Nat /\ v \in [1 .. Len(v) -> T]
  BY LenProperties
<1>2. Counted(v) = Len(v) /\ Len(v) \in 0 .. Power[Group * Groups] - 1
  BY <1>1, LengthsFit DEF Counted
<1>3. SubSeq(v, 1, Len(v)) = v
  BY AllOf
<1>4. [i \in 1 .. Len(v) |-> v[i]] = v
  BY <1>1
<1> QED
  BY <1>1, <1>2, <1>3, <1>4

(* What Serialization writes, it reads, if a text is not too long.          *)
PrimitiveKind == {"bool", "fixed", "varint", "int", "float", "string"}

LEMMA PrimitiveArrives ==
    ASSUME NEW b \in Seq(Bit), NEW kind \in PrimitiveKind, NEW v \in Value(kind),
           kind = "string" => Len(v) < Limit
    PROVE  /\ Primitive(b, kind, v) \in Seq(Bit)
           /\ bits \in Seq(Bit) /\ Begins(Primitive(b, kind, v))
                  => /\ Begins(b)
                     /\ ReadPrimitive(Len(b), kind)
                            = [value |-> v, to |-> Len(Primitive(b, kind, v))]
<1>1. CASE kind = "bool"
  <2>1. v \in Bit
    BY <1>1, ValuesAre
  <2>2. Primitive(b, kind, v) = b \o <<v>>
    BY <1>1 DEF Primitive
  <2>3. ReadPrimitive(Len(b), kind) = ReadBits(Len(b), 1)
    BY <1>1 DEF ReadPrimitive
  <2>4. <<v>> \in Seq(Bit) /\ Len(<<v>>) = 1 /\ <<v>>[1] = v
    BY <2>1
  <2> DEFINE x == <<v>>
  <2> HIDE DEF x
  <2>5. /\ b \o x \in Seq(Bit) /\ Len(b \o x) = Len(b) + 1 /\ Len(b) \in Nat
        /\ bits \in Seq(Bit) /\ Begins(b \o x) => Begins(b) /\ Follows(Len(b), x)
    BY <2>4, BeginsInParts DEF x
  <2>6. ASSUME bits \in Seq(Bit), Follows(Len(b), x)
        PROVE  ReadBits(Len(b), 1) = [value |-> v, to |-> Len(b) + 1]
    <3>1. Len(b) + 1 <= Len(bits) /\ bits[Len(b) + 1] = v
      BY <2>4, <2>6 DEF Follows, x
    <3> QED
      BY <2>5, <2>6, <3>1, BitRead
  <2> QED
    BY <2>2, <2>3, <2>5, <2>6 DEF x
<1>2. CASE kind = "fixed"
  <2>1. v \in Octet
    BY <1>2, ValuesAre
  <2>2. Byte \in Nat /\ v \in Nat /\ v < Power[Byte]
    BY <2>1, Widths, ValuesAre DEF Octet
  <2>3. Primitive(b, kind, v) = b \o Bits(v, Byte)
    BY <1>2 DEF Primitive
  <2>4. ReadPrimitive(Len(b), kind) = ReadBits(Len(b), Byte)
    BY <1>2 DEF ReadPrimitive
  <2> QED
    BY <2>2, <2>3, <2>4, BitsArrive
<1>3. CASE kind = "varint"
  <2>1. v \in 0 .. Power[Group * Groups] - 1
    BY <1>3, ValuesAre
  <2>2. Primitive(b, kind, v) = b \o VarInt(v)
    BY <1>3 DEF Primitive
  <2>3. ReadPrimitive(Len(b), kind) = ReadVarInt(Len(b))
    BY <1>3 DEF ReadPrimitive
  <2> QED
    BY <2>1, <2>2, <2>3, NumberArrives
<1>4. CASE kind = "int"
  <2>1. v \in Octet
    BY <1>4, ValuesAre
  <2> DEFINE z == ZigZag(v)
  <2>2. z \in 0 .. Power[Group * Groups] - 1 /\ UnZigZag(z % Power[Byte]) = v
    BY <2>1, ZigZagBack, LengthsFit
  <2>3. Primitive(b, kind, v) = b \o VarInt(z)
    BY <1>4 DEF Primitive
  <2>4. ReadPrimitive(Len(b), kind) = [ReadVarInt(Len(b)) EXCEPT !.value = UnZigZag(@ % Power[Byte])]
    BY <1>4 DEF ReadPrimitive
  <2> HIDE DEF z
  <2>5. /\ b \o VarInt(z) \in Seq(Bit)
        /\ bits \in Seq(Bit) /\ Begins(b \o VarInt(z))
               => Begins(b) /\ ReadVarInt(Len(b)) = [value |-> z, to |-> Len(b \o VarInt(z))]
    BY <2>2, NumberArrives
  <2> QED
    BY <2>2, <2>3, <2>4, <2>5
<1>5. CASE kind = "float"
  <2>1. v \in Octet
    BY <1>5, ValuesAre
  <2>2. <<v>> \in Seq(Octet) /\ Len(<<v>>) = 1 /\ <<v>>[1] = v
    BY <2>1
  <2> DEFINE x == <<v>>
  <2>3. Primitive(b, kind, v) = WriteBytes(b, x)
    BY <1>5 DEF Primitive
  <2>4. ReadPrimitive(Len(b), kind) = [ReadBytes(Len(b), 1) EXCEPT !.value = @[1]]
    BY <1>5 DEF ReadPrimitive
  <2>5. x \in Seq(Octet) /\ Len(x) = 1 /\ x[1] = v
    BY <2>2
  <2> HIDE DEF x
  <2>6. /\ WriteBytes(b, x) \in Seq(Bit)
        /\ bits \in Seq(Bit) /\ Begins(WriteBytes(b, x))
               => Begins(b) /\ ReadBytes(Len(b), 1) = [value |-> x, to |-> Len(WriteBytes(b, x))]
    BY <2>5, BytesRead
  <2> QED
    BY <2>3, <2>4, <2>5, <2>6
<1>6. CASE kind = "string"
  <2>1. v \in Seq(Octet) /\ Len(v) < Limit
    BY <1>6, ValuesAre
  <2>2. /\ Counted(v) = Len(v) /\ Len(v) \in Nat
        /\ Len(v) \in 0 .. Power[Group * Groups] - 1 /\ SubSeq(v, 1, Len(v)) = v
    BY <2>1, Wholly
  <2> DEFINE n == Len(v)
             c == b \o VarInt(n)
  <2>3. n % Limit = n
    BY <2>1, <2>2, LengthsFit
  <2>4. Primitive(b, kind, v) = WriteBytes(c, v)
    BY <1>6, <2>2 DEF Primitive, WriteString
  <2>5. ReadPrimitive(Len(b), kind) = ReadBytes(ReadVarInt(Len(b)).to, ReadVarInt(Len(b)).value % Limit)
    BY <1>6 DEF ReadPrimitive
  <2>6. /\ c \in Seq(Bit)
        /\ bits \in Seq(Bit) /\ Begins(c)
               => Begins(b) /\ ReadVarInt(Len(b)) = [value |-> n, to |-> Len(c)]
    BY <2>2, NumberArrives
  <2> HIDE DEF c
  <2>7. /\ WriteBytes(c, v) \in Seq(Bit)
        /\ bits \in Seq(Bit) /\ Begins(WriteBytes(c, v))
               => Begins(c) /\ ReadBytes(Len(c), n) = [value |-> v, to |-> Len(WriteBytes(c, v))]
    BY <2>1, <2>6, BytesRead
  <2> QED
    BY <2>3, <2>4, <2>5, <2>6, <2>7
<1> QED
  BY <1>1, <1>2, <1>3, <1>4, <1>5, <1>6 DEF PrimitiveKind

(* The server's scripts read the elements of an array one after another.    *)
OneElement(r) == LET element == ReadBits(r.to, 1)
                 IN  [value |-> Append(r.value, element.value), to |-> element.to]

Emitted == [value : Seq(Bit), to : Nat]

(* What an element adds to an array is an array again.                     *)
LEMMA OneElementType ==
    ASSUME bits \in Seq(Bit), NEW r \in Emitted
    PROVE  OneElement(r) \in Emitted
<1> DEFINE e == ReadBits(r.to, 1)
<1>1. r.value \in Seq(Bit) /\ r.to \in Nat /\ 1 \in Nat
  BY DEF Emitted
<1>2. e.to \in Nat /\ e.value \in Bit
  <2>1. e \in [value : Nat, to : Nat] /\ e.value \in Bit
    BY <1>1, ReadBitsType
  <2> HIDE DEF e
  <2> QED
    BY <2>1
<1> HIDE DEF e
<1>3. Append(r.value, e.value) \in Seq(Bit)
  BY <1>1, <1>2, AppendProperties
<1>4. OneElement(r) = [value |-> Append(r.value, e.value), to |-> e.to]
  BY DEF OneElement, e
<1> QED
  BY <1>2, <1>3, <1>4 DEF Emitted

(* EmitRead takes element after element, as many as the length says.       *)
LEMMA ElementsTaken ==
    ASSUME bits \in Seq(Bit), NEW p, NEW q \in Nat, ReadBits(p, LengthBits).to = q
    PROVE  \E read :
              /\ read[0] = [value |-> <<>>, to |-> q]
              /\ \A i \in Nat : read[i] \in Emitted /\ read[i + 1] = OneElement(read[i])
              /\ EmitRead(p, "array") = read[ReadBits(p, LengthBits).value]
<1> DEFINE T == Emitted
           b == [value |-> <<>>, to |-> q]
           G == [x \in (Nat \ {0}) \X T |-> OneElement(x[2])]
           Reads(f) == f = [i \in Nat |-> IF i = 0 THEN b ELSE OneElement(f[i - 1])]
           read == CHOOSE f : Reads(f)
<1>1. b \in T
  BY DEF Emitted
<1>2. G \in StepOf(T)
  BY OneElementType DEF StepOf
<1>3. PICK f \in [Nat -> T] : f[0] = b /\ \A i \in Nat \ {0} : f[i] = G[<<i, f[i - 1]>>]
  <2> HIDE DEF G, T, b
  <2>1. \E f : Unfolds(f, T, b, G)
    BY <1>1, <1>2, EndlessRecursion
  <2> QED
    BY <2>1 DEF Unfolds
<1>4. \A i \in Nat \ {0} : f[i] = OneElement(f[i - 1])
  <2> TAKE i \in Nat \ {0}
  <2>1. i - 1 \in Nat
    OBVIOUS
  <2>2. <<i, f[i - 1]>> \in (Nat \ {0}) \X T
    BY <1>3, <2>1
  <2> HIDE DEF T
  <2> QED
    BY <1>3, <2>2
<1>5. Reads(f)
  <2> HIDE DEF b, T
  <2> QED
    BY <1>3, <1>4
<1>6. Reads(read)
  <2> HIDE DEF Reads
  <2> QED
    BY <1>5
<1>7. EmitRead(p, "array") = read[ReadBits(p, LengthBits).value]
  BY DEF EmitRead, OneElement
<1> HIDE DEF read, b
<1>8. read[0] = b
  BY <1>6
<1>9. \A i \in Nat : read[i + 1] = OneElement(read[i])
  <2> TAKE i \in Nat
  <2>1. i + 1 \in Nat /\ i + 1 # 0 /\ (i + 1) - 1 = i
    OBVIOUS
  <2> QED
    BY <1>6, <2>1
<1>10. \A i \in Nat : read[i] \in Emitted
  <2> DEFINE S == {i \in Nat : read[i] \in Emitted}
  <2>1. 0 \in S
    BY <1>1, <1>8
  <2>2. ASSUME NEW i \in Nat, i \in S PROVE i + 1 \in S
    <3>1. read[i] \in Emitted
      BY <2>2
    <3>2. OneElement(read[i]) \in Emitted
      BY <3>1, OneElementType
    <3>3. read[i + 1] \in Emitted
      BY <1>9, <3>2
    <3>4. i + 1 \in Nat
      OBVIOUS
    <3> QED
      BY <3>3, <3>4
  <2>3. Nat \subseteq S
    <3> HIDE DEF S
    <3> QED
      BY <2>1, <2>2, SetInduction
  <2> QED
    BY <2>3
<1> QED
  BY <1>7, <1>8, <1>9, <1>10 DEF b

(* A sequence and one more.                                                *)
LEMMA Appended ==
    ASSUME NEW s \in Seq(Bit), NEW e \in Bit, NEW i \in Nat, Len(s) = i
    PROVE  /\ Append(s, e) \in Seq(Bit) /\ Len(Append(s, e)) = i + 1
           /\ \A j \in 1 .. i : Append(s, e)[j] = s[j]
           /\ Append(s, e)[i + 1] = e
<1>1. /\ Append(s, e) \in Seq(Bit) /\ Len(Append(s, e)) = Len(s) + 1
      /\ \A j \in 1 .. Len(s) : Append(s, e)[j] = s[j]
      /\ Append(s, e)[Len(s) + 1] = e
  BY AppendProperties
<1> QED
  BY <1>1

(* Elements that follow are read one after another.                        *)
LEMMA EmittedElements ==
    ASSUME bits \in Seq(Bit), NEW p, NEW q \in Nat, NEW v \in Seq(Bit),
           ReadBits(p, LengthBits).value = Len(v), ReadBits(p, LengthBits).to = q,
           Follows(q, v)
    PROVE  EmitRead(p, "array") = [value |-> v, to |-> q + Len(v)]
<1> DEFINE n == Len(v)
<1>1. PICK read :
          /\ read[0] = [value |-> <<>>, to |-> q]
          /\ \A i \in Nat : read[i] \in Emitted /\ read[i + 1] = OneElement(read[i])
          /\ EmitRead(p, "array") = read[n]
  <2>1. PICK read :
            /\ read[0] = [value |-> <<>>, to |-> q]
            /\ \A i \in Nat : read[i] \in Emitted /\ read[i + 1] = OneElement(read[i])
            /\ EmitRead(p, "array") = read[ReadBits(p, LengthBits).value]
    BY ElementsTaken
  <2>2. EmitRead(p, "array") = read[n]
    BY <2>1
  <2> HIDE DEF n
  <2> QED
    BY <2>1, <2>2
<1>2. n \in Nat /\ Len(bits) \in Nat
  BY LenProperties
<1>3. q + n <= Len(bits) /\ \A i \in 1 .. n : bits[q + i] = v[i] /\ v[i] \in Bit
  BY ElementOfSeq DEF Follows
<1> HIDE DEF n
<1> DEFINE Good(i) == /\ Len(read[i].value) = i /\ read[i].to = q + i
                      /\ \A j \in 1 .. i : read[i].value[j] = v[j]
           S == {i \in Nat : i <= n => Good(i)}
<1>4. 0 \in S
  <2>1. read[0].value = <<>> /\ read[0].to = q
    BY <1>1
  <2>2. Good(0)
    BY <2>1
  <2> QED
    BY <2>2
<1>5. ASSUME NEW i \in Nat, i \in S PROVE i + 1 \in S
  <2> SUFFICES ASSUME i + 1 <= n PROVE Good(i + 1)
    BY <1>5
  <2>1. Good(i)
    BY <1>2, <1>5
  <2> DEFINE s == read[i].value
             e == v[i + 1]
  <2>2. s \in Seq(Bit)
    BY <1>1 DEF Emitted
  <2>3. Len(s) = i /\ (\A j \in 1 .. i : s[j] = v[j]) /\ read[i].to = q + i
    BY <2>1
  <2>4. i + 1 \in 1 .. n /\ q + i \in Nat /\ (q + i) + 1 = q + (i + 1) /\ q + (i + 1) <= Len(bits)
    BY <1>2, <1>3
  <2>5. bits[(q + i) + 1] = e /\ e \in Bit
    BY <1>3, <2>4
  <2>6. (q + i) + 1 <= Len(bits)
    BY <2>4
  <2> HIDE DEF s, e
  <2>7. ReadBits(q + i, 1) = [value |-> e, to |-> q + (i + 1)]
    BY <2>4, <2>5, <2>6, BitRead
  <2>8. read[i + 1] = [value |-> Append(s, e), to |-> q + (i + 1)]
    <3>1. read[i + 1] = OneElement(read[i])
      BY <1>1
    <3>2. OneElement(read[i]) = [value |-> Append(s, ReadBits(read[i].to, 1).value),
                                to |-> ReadBits(read[i].to, 1).to]
      BY DEF OneElement, s
    <3>3. read[i].to = q + i
      BY <2>3
    <3>4. ReadBits(read[i].to, 1) = [value |-> e, to |-> q + (i + 1)]
      BY <2>7, <3>3
    <3>5. /\ ReadBits(read[i].to, 1).value = e
          /\ ReadBits(read[i].to, 1).to = q + (i + 1)
      BY <3>4
    <3> QED
      BY <3>1, <3>2, <3>5
  <2>9. /\ Len(Append(s, e)) = i + 1
        /\ \A j \in 1 .. i : Append(s, e)[j] = s[j]
        /\ Append(s, e)[i + 1] = e
    BY <2>2, <2>3, <2>5, Appended
  <2>10. \A j \in 1 .. i + 1 : Append(s, e)[j] = v[j]
    <3> TAKE j \in 1 .. i + 1
    <3>1. CASE j = i + 1
      BY <2>9, <3>1 DEF e
    <3>2. CASE j # i + 1
      <4>1. j \in 1 .. i
        BY <3>2
      <4> QED
        BY <2>3, <2>9, <4>1
    <3> QED
      BY <3>1, <3>2
  <2>11. read[i + 1].value = Append(s, e) /\ read[i + 1].to = q + (i + 1)
    BY <2>8
  <2> QED
    BY <2>9, <2>10, <2>11
<1>6. Nat \subseteq S
  <2> HIDE DEF S
  <2> QED
    BY <1>4, <1>5, SetInduction
<1>7. Good(n) /\ read[n] \in Emitted
  <2>1. n \in S
    BY <1>2, <1>6
  <2>2. n <= n
    BY <1>2
  <2>3. Good(n)
    BY <2>1, <2>2
  <2> QED
    BY <1>1, <1>2, <2>3
<1> DEFINE s == read[n].value
<1>8. s \in Seq(Bit) /\ Len(s) = Len(v) /\ \A j \in 1 .. Len(s) : s[j] = v[j]
  BY <1>7 DEF Emitted, n
<1>9. read[n] = [value |-> s, to |-> q + n]
  BY <1>7 DEF Emitted
<1> HIDE DEF s
<1>10. s = v
  BY <1>8, SeqEqual
<1> QED
  BY <1>1, <1>9, <1>10 DEF n

-----------------------------------------------------------------------------
(* The fields that a form of writing has, what the buffer is after one, and *)
(* what its reader makes of it; whether all of a value is written.          *)
FieldKind(f) == IF f = "message" THEN MessageKind \cup {"set"} ELSE CallKind

After(f, b, kind, v) ==
    CASE f = "message"  -> Serialized(b, kind, v)
      [] f = "toServer" -> Packed(b, kind, v)
      [] f = "toClient" -> EmitWrite(b, kind, v)

Made(f, p, kind, v) ==
    CASE f = "message"  -> Deserialized(p, kind, v)
      [] f = "toServer" -> EmitRead(p, kind)
      [] f = "toClient" -> Unpacked(p, kind)

IsWhole(f, kind, v) == /\ kind \in {"string", "array", "repeated"} => Len(v) < Limit
                       /\ f # "message" /\ kind = "string" => ~HasNul(v)

Form == {"message", "toServer", "toClient"}

(* An array, whoever writes it.                                             *)
LEMMA ArrayArrives ==
    ASSUME NEW b \in Seq(Bit), NEW v \in Value("array"), Len(v) < Limit
    PROVE  /\ EmitWrite(b, "array", v) = Packed(b, "array", v)
           /\ Packed(b, "array", v) \in Seq(Bit)
           /\ bits \in Seq(Bit) /\ Begins(Packed(b, "array", v))
                  => /\ Begins(b)
                     /\ EmitRead(Len(b), "array")
                            = [value |-> v, to |-> Len(Packed(b, "array", v))]
                     /\ Unpacked(Len(b), "array")
                            = [value |-> v, to |-> Len(Packed(b, "array", v))]
<1> DEFINE n == Len(v)
           c == b \o Bits(n, LengthBits)
<1>1. v \in Seq(Bit)
  BY ValuesAre
<1>2. /\ Counted(v) = n /\ n \in Nat /\ SubSeq(v, 1, n) = v
      /\ [i \in 1 .. n |-> v[i]] = v /\ n < Power[LengthBits]
  BY <1>1, Wholly DEF Limit
<1>3. Packed(b, "array", v) = c \o v /\ EmitWrite(b, "array", v) = c \o v
  BY <1>2 DEF Packed, EmitWrite
<1> HIDE DEF n
<1>4. /\ c \in Seq(Bit)
      /\ bits \in Seq(Bit) /\ Begins(c)
             => Begins(b) /\ ReadBits(Len(b), LengthBits) = [value |-> n, to |-> Len(c)]
  BY <1>2, Widths, BitsArrive
<1> HIDE DEF c
<1>5. /\ c \o v \in Seq(Bit) /\ Len(c \o v) = Len(c) + Len(v) /\ Len(c) \in Nat
      /\ bits \in Seq(Bit) /\ Begins(c \o v)
             => /\ Begins(c) /\ Follows(Len(c), v)
                /\ ReadElements(Len(c), Len(v)) = [value |-> v, to |-> Len(c \o v)]
  BY <1>1, <1>4, BeginsInParts, ElementsArrive
<1>6. ASSUME bits \in Seq(Bit), Begins(c \o v)
      PROVE  /\ Begins(b)
             /\ EmitRead(Len(b), "array") = [value |-> v, to |-> Len(c \o v)]
             /\ Unpacked(Len(b), "array") = [value |-> v, to |-> Len(c \o v)]
  <2>1. Begins(c) /\ Follows(Len(c), v)
        /\ ReadElements(Len(c), Len(v)) = [value |-> v, to |-> Len(c \o v)]
    BY <1>5, <1>6
  <2>2. Begins(b) /\ ReadBits(Len(b), LengthBits) = [value |-> n, to |-> Len(c)]
    BY <1>4, <1>6, <2>1
  <2>3. Unpacked(Len(b), "array") = [value |-> v, to |-> Len(c \o v)]
    BY <2>1, <2>2 DEF Unpacked, n
  <2>4. EmitRead(Len(b), "array") = [value |-> v, to |-> Len(c) + Len(v)]
    <3>1. /\ ReadBits(Len(b), LengthBits).value = Len(v)
          /\ ReadBits(Len(b), LengthBits).to = Len(c)
      BY <2>2 DEF n
    <3> QED
      BY <1>1, <1>5, <1>6, <2>1, <3>1, EmittedElements
  <2> QED
    BY <1>5, <2>2, <2>3, <2>4
<1> QED
  BY <1>3, <1>5, <1>6

(* What one side writes of a value, the other makes it of.                  *)
LEMMA FieldArrives ==
    ASSUME NEW f \in Form, NEW b \in Seq(Bit), NEW kind \in FieldKind(f),
           NEW v \in Value(kind), IsWhole(f, kind, v)
    PROVE  /\ After(f, b, kind, v) \in Seq(Bit)
           /\ bits \in Seq(Bit) /\ Begins(After(f, b, kind, v))
                  => /\ Begins(b)
                     /\ Made(f, Len(b), kind, v)
                            = [value |-> v, to |-> Len(After(f, b, kind, v))]
<1> DEFINE Arrives == /\ Primitive(b, kind, v) \in Seq(Bit)
                      /\ bits \in Seq(Bit) /\ Begins(Primitive(b, kind, v))
                             => /\ Begins(b)
                                /\ ReadPrimitive(Len(b), kind)
                                       = [value |-> v, to |-> Len(Primitive(b, kind, v))]
<1>1. kind \in PrimitiveKind => Arrives
  BY PrimitiveArrives DEF IsWhole
<1>2. CASE f = "message" /\ kind \in PrimitiveKind
  <2>1. After(f, b, kind, v) = Primitive(b, kind, v)
    BY <1>2 DEF After, Serialized, PrimitiveKind
  <2>2. Made(f, Len(b), kind, v) = ReadPrimitive(Len(b), kind)
    BY <1>2 DEF Made, Deserialized, PrimitiveKind
  <2> QED
    BY <1>1, <1>2, <2>1, <2>2
<1>3. CASE f = "message" /\ kind = "set"
  <2>1. v \in Seq(Bit)
    BY <1>3, ValuesAre
  <2>2. After(f, b, kind, v) = b \o v
    BY <1>3 DEF After, Serialized
  <2>3. Made(f, Len(b), kind, v) = ReadElements(Len(b), Len(v))
    BY <1>3 DEF Made, Deserialized
  <2> QED
    BY <2>1, <2>2, <2>3, ElementsArrive
<1>4. CASE f = "message" /\ kind = "repeated"
  <2> DEFINE n == Len(v)
             c == b \o VarInt(n)
  <2>1. v \in Seq(Bit) /\ n < Limit
    BY <1>4, ValuesAre DEF IsWhole
  <2>2. Counted(v) = n /\ n \in Nat /\ n \in 0 .. Power[Group * Groups] - 1
    BY <2>1, Wholly
  <2>3. n % Limit = n
    BY <2>1, <2>2, LengthsFit
  <2>4. After(f, b, kind, v) = c \o v
    BY <1>4, <2>2 DEF After, Serialized
  <2>5. Made(f, Len(b), kind, v) = ReadElements(ReadVarInt(Len(b)).to, ReadVarInt(Len(b)).value % Limit)
    BY <1>4 DEF Made, Deserialized
  <2>6. /\ c \in Seq(Bit)
        /\ bits \in Seq(Bit) /\ Begins(c)
               => Begins(b) /\ ReadVarInt(Len(b)) = [value |-> n, to |-> Len(c)]
    BY <2>2, NumberArrives
  <2> HIDE DEF c
  <2>7. /\ c \o v \in Seq(Bit)
        /\ bits \in Seq(Bit) /\ Begins(c \o v)
               => Begins(c) /\ ReadElements(Len(c), n) = [value |-> v, to |-> Len(c \o v)]
    BY <2>1, <2>6, ElementsArrive
  <2> HIDE DEF n
  <2> QED
    BY <2>3, <2>4, <2>5, <2>6, <2>7
<1>5. CASE f # "message" /\ kind = "array"
  <2>1. Len(v) < Limit
    BY <1>5 DEF IsWhole
  <2>2. v \in Value("array")
    BY <1>5
  <2>3. After(f, b, kind, v) = Packed(b, "array", v)
    BY <1>5, <2>1, <2>2, ArrayArrives DEF After, Form
  <2>4. Made(f, Len(b), kind, v) \in {EmitRead(Len(b), "array"), Unpacked(Len(b), "array")}
    BY <1>5 DEF Made, Form
  <2> QED
    BY <2>1, <2>2, <2>3, <2>4, ArrayArrives
<1>6. CASE f # "message" /\ kind \in PrimitiveKind
  <2>1. kind = "string" => CString(v) = v
    BY <1>6 DEF IsWhole, CString
  <2>2. After(f, b, kind, v) = Primitive(b, kind, v)
    BY <1>6, <2>1 DEF After, Form, Packed, EmitWrite, InstanceWrites, PrimitiveKind
  <2>3. Unpacked(Len(b), kind) = ReadPrimitive(Len(b), kind)
    BY <1>6 DEF Unpacked, PrimitiveKind
  <2>4. EmitRead(Len(b), kind) = InstanceReads(Len(b), kind)
    BY <1>6 DEF EmitRead, PrimitiveKind
  <2>5. kind # "string" => InstanceReads(Len(b), kind) = ReadPrimitive(Len(b), kind)
    BY DEF InstanceReads
  <2>6. kind = "string" => InstanceReads(Len(b), kind)
                               = [ReadPrimitive(Len(b), kind) EXCEPT !.value = CString(@)]
    BY DEF InstanceReads
  <2>7. ASSUME NEW t, ReadPrimitive(Len(b), kind) = [value |-> v, to |-> t]
        PROVE  Made(f, Len(b), kind, v) = [value |-> v, to |-> t]
    <3>1. InstanceReads(Len(b), kind) = [value |-> v, to |-> t]
      BY <2>1, <2>5, <2>6, <2>7
    <3> QED
      BY <1>6, <2>3, <2>4, <2>7, <3>1 DEF Made, Form
  <2> QED
    BY <1>1, <1>6, <2>2, <2>7
<1> QED
  BY <1>2, <1>3, <1>4, <1>5, <1>6 DEF FieldKind, MessageKind, CallKind, PrimitiveKind

(* The invariant: all fields are whole, and the buffer is what it is after  *)
(* each of them in turn; the reader is where the writer was.                *)
AnyKind  == MessageKind \cup CallKind \cup {"set"}
AnyValue == UNION {Value(kind) : kind \in AnyKind}
Field    == AnyKind \X AnyValue

WholeField(f, x) == /\ x[1] \in FieldKind(f)
                    /\ x[2] \in Value(x[1])
                    /\ IsWhole(f, x[1], x[2])

Encoded(f, fs, enc) ==
    /\ enc \in [0 .. Len(fs) -> Seq(Bit)]
    /\ enc[0] = <<>>
    /\ \A i \in 1 .. Len(fs) : /\ WholeField(f, fs[i])
                               /\ enc[i] = After(f, enc[i - 1], fs[i][1], fs[i][2])

InStep(f, fs, ph, b, a, n) ==
    \E enc : /\ Encoded(f, fs, enc)
             /\ ph # "reading" => b = enc[Len(fs)]
             /\ ph = "reading" => /\ Len(enc[Len(fs)]) <= Len(b)
                                  /\ \A i \in 1 .. Len(enc[Len(fs)]) : b[i] = enc[Len(fs)][i]
             /\ a = Len(enc[n])

InPhase ==
    /\ phase \in {"idle", "writing", "reading"}
    /\ form \in Form
    /\ fields \in Seq(Field)
    /\ phase = "idle" => fields = <<>>
    /\ got \in Seq(AnyValue)
    /\ phase # "reading" => got = <<>>
    /\ Len(got) <= Len(fields)
    /\ \A i \in 1 .. Len(got) : got[i] = fields[i][2]
    /\ bits \in Seq(Bit)
    /\ inherited = {}

CodecInv == plain => InPhase /\ InStep(form, fields, phase, bits, at, Len(got))

(* Another field.                                                           *)
LEMMA AnotherField ==
    ASSUME NEW f \in Form, NEW fs \in Seq(Field), NEW enc, Encoded(f, fs, enc),
           NEW kind \in FieldKind(f), NEW v \in Value(kind), IsWhole(f, kind, v)
    PROVE  /\ Append(fs, <<kind, v>>) \in Seq(Field)
           /\ Len(Append(fs, <<kind, v>>)) = Len(fs) + 1 /\ Len(fs) \in Nat
           /\ \A i \in 1 .. Len(fs) : Append(fs, <<kind, v>>)[i] = fs[i]
           /\ \E more : /\ Encoded(f, Append(fs, <<kind, v>>), more)
                        /\ more[Len(fs) + 1] = After(f, enc[Len(fs)], kind, v)
                        /\ more[0] = enc[0]
                        /\ more[Len(fs) + 1] \in Seq(Bit)
<1> DEFINE n == Len(fs)
           x == <<kind, v>>
           gs == Append(fs, x)
           e == After(f, enc[n], kind, v)
           more == [i \in 0 .. n + 1 |-> IF i <= n THEN enc[i] ELSE e]
<1>1. n \in Nat
  BY LenProperties
<1>2. x \in Field
  BY DEF Field, AnyKind, AnyValue, FieldKind
<1>3. x[1] = kind /\ x[2] = v
  OBVIOUS
<1> HIDE DEF x, n
<1>4. /\ gs \in Seq(Field) /\ Len(gs) = n + 1
      /\ \A i \in 1 .. n : gs[i] = fs[i]
      /\ gs[n + 1] = x
  BY <1>2, AppendProperties DEF n
<1>5. /\ enc \in [0 .. n -> Seq(Bit)] /\ enc[0] = <<>>
      /\ \A i \in 1 .. n : /\ WholeField(f, fs[i])
                           /\ enc[i] = After(f, enc[i - 1], fs[i][1], fs[i][2])
  BY DEF Encoded, n
<1>6. e \in Seq(Bit)
  <2>1. enc[n] \in Seq(Bit)
    BY <1>1, <1>5
  <2> QED
    BY <2>1, FieldArrives
<1> HIDE DEF gs, e
<1>7. more \in [0 .. n + 1 -> Seq(Bit)] /\ more[0] = enc[0] /\ more[n + 1] = e
  BY <1>1, <1>5, <1>6
<1>8. ASSUME NEW i \in 1 .. n + 1
      PROVE  WholeField(f, gs[i]) /\ more[i] = After(f, more[i - 1], gs[i][1], gs[i][2])
  <2>1. CASE i <= n
    <3>1. i \in 1 .. n /\ i - 1 \in 0 .. n + 1 /\ i \in 0 .. n + 1 /\ i - 1 <= n
      BY <1>1, <2>1
    <3>2. more[i] = enc[i] /\ more[i - 1] = enc[i - 1]
      BY <2>1, <3>1
    <3> HIDE DEF more
    <3> QED
      BY <1>4, <1>5, <3>1, <3>2
  <2>2. CASE i = n + 1
    <3>1. i - 1 = n /\ n \in 0 .. n + 1 /\ n <= n
      BY <1>1, <2>2
    <3>2. more[i - 1] = enc[n] /\ more[i] = e
      BY <1>7, <2>2, <3>1
    <3> HIDE DEF more
    <3>3. WholeField(f, gs[i])
      BY <1>3, <1>4, <2>2 DEF WholeField
    <3> QED
      BY <1>3, <1>4, <2>2, <3>2, <3>3 DEF e
  <2> QED
    BY <1>1, <2>1, <2>2
<1> HIDE DEF more
<1>9. Encoded(f, gs, more)
  BY <1>4, <1>5, <1>7, <1>8 DEF Encoded
<1> QED
  BY <1>1, <1>4, <1>6, <1>7, <1>9 DEF gs, x, n, e

(* What the buffer begins with after all fields, it does after each.        *)
LEMMA EachBegins ==
    ASSUME NEW f \in Form, NEW n \in Nat, NEW fs, Len(fs) = n, NEW enc,
           Encoded(f, fs, enc), bits \in Seq(Bit), Begins(enc[n])
    PROVE  \A i \in 0 .. n : Begins(enc[i])
<1> DEFINE S == {j \in Nat : j <= n => Begins(enc[n - j])}
<1>1. 0 \in S
  <2>1. n - 0 = n
    OBVIOUS
  <2> QED
    BY <2>1
<1>2. ASSUME NEW j \in Nat, j \in S PROVE j + 1 \in S
  <2> SUFFICES ASSUME j + 1 <= n PROVE Begins(enc[n - (j + 1)])
    OBVIOUS
  <2> DEFINE i == n - j
  <2>1. i \in 1 .. n /\ n - (j + 1) = i - 1 /\ i - 1 \in 0 .. n /\ j <= n
    OBVIOUS
  <2>2. Begins(enc[i])
    BY <1>2, <2>1
  <2> HIDE DEF i
  <2>3. /\ WholeField(f, fs[i]) /\ enc[i] = After(f, enc[i - 1], fs[i][1], fs[i][2])
        /\ enc[i - 1] \in Seq(Bit)
    BY <2>1 DEF Encoded
  <2>4. Begins(enc[i - 1])
    BY <2>2, <2>3, FieldArrives DEF WholeField
  <2> QED
    BY <2>1, <2>4
<1>3. Nat \subseteq S
  <2> HIDE DEF S
  <2> QED
    BY <1>1, <1>2, SetInduction
<1>4. ASSUME NEW i \in 0 .. n PROVE Begins(enc[i])
  <2>1. n - i \in Nat /\ n - i <= n /\ n - (n - i) = i
    OBVIOUS
  <2>2. n - i \in S
    BY <1>3, <2>1
  <2> QED
    BY <2>1, <2>2
<1> QED
  BY <1>4

(* Nothing is written yet.                                                 *)
LEMMA CodecInitInv == CodecInit => CodecInv
<1> SUFFICES ASSUME CodecInit PROVE CodecInv
  OBVIOUS
<1> DEFINE enc == [i \in 0 .. 0 |-> <<>>]
<1>1. enc \in [0 .. 0 -> Seq(Bit)] /\ enc[0] = <<>>
  OBVIOUS
<1> HIDE DEF enc
<1>2. Encoded(form, <<>>, enc)
  <2>1. Len(<<>>) = 0
    OBVIOUS
  <2> QED
    BY <1>1, <2>1 DEF Encoded
<1>3. InStep(form, fields, phase, bits, at, Len(got))
  BY <1>1, <1>2 DEF InStep, CodecInit
<1>4. InPhase
  BY DEF InPhase, CodecInit, Form
<1> QED
  BY <1>3, <1>4 DEF CodecInv

(* A message has its opcode and the bits of its singular fields.           *)
LEMMA ProcessInv ==
    ASSUME CodecInv, plain, NEW opcode \in {0, Power[Group]}, NEW set \in Value("set"),
           Process(opcode, set)
    PROVE  CodecInv'
<1> DEFINE f == "message"
<1>1. /\ phase = "idle" /\ phase' = "writing" /\ form' = f
      /\ fields' = <<<<"varint", opcode>>, <<"set", set>>>>
      /\ bits' = Serialized(Serialized(bits, "varint", opcode), "set", set)
      /\ at' = at /\ got' = got /\ plain' = plain /\ inherited' = inherited
  BY DEF Process
<1>2. InPhase /\ fields = <<>> /\ got = <<>>
  BY <1>1 DEF CodecInv, InPhase
<1>3. PICK enc : /\ Encoded(form, fields, enc) /\ bits = enc[Len(fields)] /\ at = Len(enc[Len(got)])
  BY <1>1 DEF CodecInv, InStep
<1>4. enc[0] = <<>> /\ bits = <<>> /\ at = Len(<<>>) /\ Len(<<>>) = 0
  BY <1>2, <1>3 DEF Encoded
<1> DEFINE fs == << >>
           gs == Append(fs, <<"varint", opcode>>)
           hs == Append(gs, <<"set", set>>)
<1>5. fs \in Seq(Field) /\ Len(fs) = 0
  OBVIOUS
<1>6. Encoded(f, fs, [i \in 0 .. 0 |-> <<>>])
  <2> DEFINE en == [i \in 0 .. 0 |-> <<>>]
  <2>1. en \in [0 .. 0 -> Seq(Bit)] /\ en[0] = <<>>
    OBVIOUS
  <2> HIDE DEF en
  <2> QED
    BY <1>5, <2>1 DEF Encoded, en
<1>7. f \in Form /\ "varint" \in FieldKind(f) /\ "set" \in FieldKind(f)
      /\ IsWhole(f, "varint", opcode) /\ IsWhole(f, "set", set)
  BY DEF Form, FieldKind, MessageKind, IsWhole
<1>8. opcode \in Value("varint")
  <2>1. Power[Group] \in Nat \ {0} /\ Power[Byte] = 2 * Power[Group]
    BY Widths, Powers
  <2>2. opcode \in Octet
    BY <2>1 DEF Octet
  <2> QED
    BY <2>2, LengthsFit, ValuesAre
<1> DEFINE e0 == [i \in 0 .. 0 |-> <<>>]
<1>9. e0[0] = <<>>
  OBVIOUS
<1> HIDE DEF f, fs, gs, e0
<1>10. PICK e1 : /\ Encoded(f, gs, e1) /\ e1[1] = After(f, <<>>, "varint", opcode)
                 /\ e1[0] = <<>>
                 /\ gs \in Seq(Field) /\ Len(gs) = 1
  <2>1. Encoded(f, fs, e0)
    BY <1>6 DEF e0
  <2>2. \E more : /\ Encoded(f, gs, more)
                  /\ more[Len(fs) + 1] = After(f, e0[Len(fs)], "varint", opcode)
                  /\ more[0] = e0[0]
                  /\ more[Len(fs) + 1] \in Seq(Bit)
    <3> HIDE DEF hs
    <3>1. \E more : /\ Encoded(f, Append(fs, <<"varint", opcode>>), more)
                    /\ more[Len(fs) + 1] = After(f, e0[Len(fs)], "varint", opcode)
                    /\ more[0] = e0[0]
                    /\ more[Len(fs) + 1] \in Seq(Bit)
      <4>1. /\ f \in Form /\ fs \in Seq(Field) /\ Encoded(f, fs, e0)
            /\ "varint" \in FieldKind(f) /\ opcode \in Value("varint")
            /\ IsWhole(f, "varint", opcode)
        BY <1>5, <1>7, <1>8, <2>1
      <4> HIDE DEF gs
      <4> QED
        BY <4>1, AnotherField
    <3> QED
      BY <3>1 DEF gs
  <2>3. gs \in Seq(Field) /\ Len(gs) = Len(fs) + 1
    BY <1>5, <1>7, <1>8, <2>1, AnotherField DEF gs
  <2>4. Len(fs) + 1 = 1
    BY <1>5
  <2>5. After(f, e0[Len(fs)], "varint", opcode) = After(f, <<>>, "varint", opcode)
    BY <1>5, <1>9
  <2> HIDE DEF gs, hs
  <2> QED
    BY <1>9, <2>2, <2>3, <2>4, <2>5
<1>11. PICK e2 : /\ Encoded(f, hs, e2) /\ e2[2] = After(f, e1[1], "set", set)
                 /\ e2[0] = <<>> /\ e2[2] \in Seq(Bit)
                 /\ hs \in Seq(Field) /\ Len(hs) = 2
  <2>1. /\ f \in Form /\ gs \in Seq(Field) /\ Encoded(f, gs, e1)
        /\ "set" \in FieldKind(f) /\ set \in Value("set") /\ IsWhole(f, "set", set)
    BY <1>7, <1>10
  <2>2. /\ hs \in Seq(Field) /\ Len(hs) = Len(gs) + 1
        /\ \E more : /\ Encoded(f, hs, more)
                     /\ more[Len(gs) + 1] = After(f, e1[Len(gs)], "set", set)
                     /\ more[0] = e1[0]
                     /\ more[Len(gs) + 1] \in Seq(Bit)
    BY <2>1, AnotherField
  <2>3. Len(gs) + 1 = 2
    BY <1>10
  <2> HIDE DEF hs
  <2> QED
    BY <1>10, <2>2, <2>3
<1>12. fields' = hs
  BY <1>1 DEF fs, gs
<1> HIDE DEF hs
<1>13. bits' = e2[2]
  BY <1>1, <1>4, <1>10, <1>11 DEF After, f
<1>14. InStep(f, hs, "writing", bits', at, 0)
  BY <1>4, <1>11, <1>13 DEF InStep
<1>15. InStep(form, fields, phase, bits, at, Len(got))'
  <2>1. Len(got') = 0
    BY <1>1, <1>2, <1>4
  <2> QED
    BY <1>1, <1>12, <1>14, <2>1
<1>16. InPhase'
  <2>1. got' = <<>> /\ Len(got') = 0
    BY <1>1, <1>2, <1>4
  <2>2. got' \in Seq(AnyValue) /\ Len(got') <= Len(fields') /\ 1 .. Len(got') = {}
    BY <1>11, <1>12, <2>1
  <2>3. form' \in Form /\ fields' \in Seq(Field) /\ bits' \in Seq(Bit)
    BY <1>1, <1>7, <1>11, <1>12, <1>13
  <2> QED
    BY <1>1, <1>2, <2>1, <2>2, <2>3 DEF InPhase
<1> QED
  BY <1>15, <1>16 DEF CodecInv

(* The arguments of a call begin with nothing.                             *)
LEMMA BeginCallInv == ASSUME CodecInv, plain, BeginCall PROVE CodecInv'
<1>1. /\ phase = "idle" /\ phase' = "writing" /\ form' \in {"toServer", "toClient"}
      /\ fields' = fields /\ bits' = bits /\ at' = at /\ got' = got
      /\ inherited' = inherited
  BY DEF BeginCall
<1>2. InPhase /\ fields = <<>> /\ got = <<>>
  BY <1>1 DEF CodecInv, InPhase
<1>3. PICK enc : /\ Encoded(form, fields, enc) /\ bits = enc[Len(fields)] /\ at = Len(enc[Len(got)])
  BY <1>1 DEF CodecInv, InStep
<1>4. Encoded(form', fields, enc)
  <2>1. 1 .. Len(fields) = {}
    BY <1>2
  <2> QED
    BY <1>3, <2>1 DEF Encoded
<1>5. InStep(form', fields, "writing", bits, at, Len(got))
  BY <1>3, <1>4 DEF InStep
<1>6. InStep(form, fields, phase, bits, at, Len(got))'
  BY <1>1, <1>5
<1>7. InPhase'
  BY <1>1, <1>2 DEF InPhase, Form
<1> QED
  BY <1>6, <1>7 DEF CodecInv

(* A field is written after the others.                                    *)
LEMMA WriteInv ==
    ASSUME CodecInv, plain, NEW kind \in MessageKind \cup CallKind, NEW v \in Value(kind),
           NEW own \in BOOLEAN, Write(kind, v, own)
    PROVE  CodecInv'
<1> SUFFICES ASSUME plain' PROVE InPhase' /\ InStep(form, fields, phase, bits, at, Len(got))'
  BY DEF CodecInv
<1>1. /\ phase = "writing" /\ phase' = phase /\ form' = form /\ at' = at /\ got' = got
      /\ kind \in IF form = "message" THEN MessageKind ELSE CallKind
      /\ bits' = Written(kind, v, own)
      /\ fields' = Append(fields, <<kind, v>>)
      /\ IsWhole(form, kind, v)
      /\ own /\ inherited' = inherited
  BY DEF Write, IsWhole
<1>2. InPhase /\ got = <<>>
  BY <1>1 DEF CodecInv, InPhase
<1>3. PICK enc : /\ Encoded(form, fields, enc) /\ bits = enc[Len(fields)] /\ at = Len(enc[Len(got)])
  BY <1>1 DEF CodecInv, InStep
<1>4. form \in Form /\ kind \in FieldKind(form) /\ fields \in Seq(Field)
  BY <1>1, <1>2 DEF InPhase, FieldKind
<1>5. bits' = After(form, bits, kind, v)
  BY <1>1, <1>4 DEF Written, PropsPacked, After, Form
<1>6. /\ fields' \in Seq(Field) /\ Len(fields') = Len(fields) + 1 /\ Len(fields) \in Nat
      /\ \E more : /\ Encoded(form, fields', more)
                   /\ more[Len(fields) + 1] = After(form, enc[Len(fields)], kind, v)
                   /\ more[0] = enc[0]
                   /\ more[Len(fields) + 1] \in Seq(Bit)
  BY <1>1, <1>3, <1>4, AnotherField
<1>7. PICK more : /\ Encoded(form, fields', more)
                  /\ more[Len(fields')] = bits' /\ bits' \in Seq(Bit)
                  /\ more[0] = enc[0]
  BY <1>3, <1>5, <1>6
<1>8. Len(got) = 0
  BY <1>2
<1>9. InStep(form, fields', phase, bits', at, Len(got))
  BY <1>1, <1>3, <1>7, <1>8 DEF InStep
<1>10. InStep(form, fields, phase, bits, at, Len(got))'
  BY <1>1, <1>9
<1>11. InPhase'
  <2>1. /\ got' = <<>> /\ Len(got') = 0 /\ 1 .. Len(got') = {}
        /\ got' \in Seq(AnyValue) /\ Len(got') <= Len(fields')
        /\ phase' = "writing" /\ inherited' = {}
    BY <1>1, <1>2, <1>6, <1>8 DEF InPhase
  <2> QED
    BY <1>1, <1>4, <1>6, <1>7, <2>1 DEF InPhase
<1> QED
  BY <1>10, <1>11

(* What is sent begins with what was written: only padding is added, and nothing is cut off. *)
LEMMA SendMessageInv == ASSUME CodecInv, plain, SendMessage PROVE CodecInv'
<1> SUFFICES ASSUME plain' PROVE InPhase' /\ InStep(form, fields, phase, bits, at, Len(got))'
  BY DEF CodecInv
<1> DEFINE whole == Padded(bits)
           size == Len(whole) \div Byte
<1>1. /\ phase = "writing" /\ phase' = "reading"
      /\ form' = form /\ fields' = fields /\ at' = at /\ got' = got
      /\ inherited' = inherited
      /\ \/ bits' = whole
         \/ bits' = SubSeq(whole, 1, (size % Limit) * Byte) /\ size < Limit
  BY DEF SendMessage
<1>2. InPhase /\ got = <<>>
  BY <1>1 DEF CodecInv, InPhase
<1>3. PICK enc : /\ Encoded(form, fields, enc) /\ bits = enc[Len(fields)] /\ at = Len(enc[Len(got)])
  BY <1>1 DEF CodecInv, InStep
<1>4. /\ whole \in Seq(Bit) /\ Len(whole) = NextByte(Len(bits))
      /\ Len(bits) \in Nat /\ NextByte(Len(bits)) \in Nat /\ NextByte(Len(bits)) >= Len(bits)
  BY <1>2, PaddedTo, NextBytes DEF InPhase
<1>5. bits' = whole
  <2>1. PICK k \in Nat : Len(whole) = k * Byte
    BY <1>4, NextBytes
  <2>2. size = k
    <3>1. 0 \in 0 .. Byte - 1
      BY Widths
    <3>2. (k * Byte + 0) \div Byte = k /\ k * Byte \in Nat
      BY <3>1, Widths, Places
    <3>3. k * Byte + 0 = k * Byte
      BY <3>2
    <3> QED
      BY <2>1, <3>2, <3>3
  <2>3. size < Limit => (size % Limit) * Byte = Len(whole)
    BY <2>1, <2>2, LengthsFit
  <2>4. SubSeq(whole, 1, Len(whole)) = whole
    BY <1>4, AllOf
  <2> QED
    BY <1>1, <2>3, <2>4
<1>6. \A i \in 1 .. Len(bits) : whole[i] = bits[i]
  <2> DEFINE z == [i \in 1 .. NextByte(Len(bits)) - Len(bits) |-> 0]
  <2>1. NextByte(Len(bits)) - Len(bits) \in Nat
    BY <1>4
  <2>2. z \in Seq(Bit)
    <3> DEFINE m == NextByte(Len(bits)) - Len(bits)
    <3>1. m \in Nat
      BY <2>1
    <3> HIDE DEF m
    <3>2. [i \in 1 .. m |-> 0] \in [1 .. m -> Bit]
      BY DEF Bit
    <3>3. [i \in 1 .. m |-> 0] \in Seq(Bit)
      BY <3>1, <3>2, SeqDef
    <3> QED
      BY <3>3 DEF m
  <2>3. whole = bits \o z
    BY DEF Padded
  <2> HIDE DEF z
  <2>4. bits \in Seq(Bit)
    BY <1>2 DEF InPhase
  <2> QED
    BY <2>2, <2>3, <2>4, Joined
<1> HIDE DEF whole
<1>7. InStep(form, fields, "reading", whole, at, Len(got))
  BY <1>3, <1>4, <1>6 DEF InStep
<1>8. InStep(form, fields, phase, bits, at, Len(got))'
  BY <1>1, <1>5, <1>7
<1>9. InPhase'
  BY <1>1, <1>2, <1>4, <1>5 DEF InPhase
<1> QED
  BY <1>8, <1>9

(* The reader is where the writer stood before the field, and reads it.    *)
LEMMA ReadNextInv == ASSUME CodecInv, plain, ReadNext PROVE CodecInv'
<1> DEFINE n == Len(fields)
           m == Len(got)
           kind == fields[m + 1][1]
           v == fields[m + 1][2]
           r == Made(form, at, kind, v)
<1>1. InPhase
  BY DEF CodecInv
<1>2. form \in Form
  BY <1>1 DEF InPhase
<1>3. /\ phase = "reading" /\ m < n
      /\ got' = Append(got, r.value) /\ at' = r.to
      /\ phase' = phase /\ form' = form /\ fields' = fields /\ bits' = bits /\ plain' = plain
      /\ inherited' = inherited
  <2>1. inherited = {}
    BY <1>1 DEF InPhase
  <2> QED
    BY <1>2, <2>1 DEF ReadNext, PropsUnpacked, Made, Form
<1>4. /\ n \in Nat /\ m \in Nat /\ bits \in Seq(Bit) /\ got \in Seq(AnyValue)
      /\ m + 1 \in 1 .. n /\ (m + 1) - 1 = m /\ m \in 0 .. n /\ m + 1 \in 0 .. n
      /\ n \in 0 .. n
  <2>1. n \in Nat /\ m \in Nat /\ bits \in Seq(Bit) /\ got \in Seq(AnyValue)
    BY <1>1, LenProperties DEF InPhase
  <2> QED
    BY <1>3, <2>1
<1>5. PICK enc : /\ Encoded(form, fields, enc)
                 /\ Len(enc[n]) <= Len(bits) /\ \A i \in 1 .. Len(enc[n]) : bits[i] = enc[n][i]
                 /\ at = Len(enc[m])
  BY <1>3 DEF CodecInv, InStep
<1>6. Begins(enc[n])
  <2>1. enc[n] \in Seq(Bit)
    <3>1. enc \in [0 .. n -> Seq(Bit)]
      BY <1>5 DEF Encoded
    <3> HIDE DEF n
    <3> QED
      BY <1>4, <3>1
  <2>2. Len(enc[n]) \in Nat /\ 0 + Len(enc[n]) = Len(enc[n])
    BY <2>1, LenProperties
  <2>3. \A i \in 1 .. Len(enc[n]) : 0 + i = i
    BY <2>2
  <2> QED
    BY <1>5, <2>2, <2>3 DEF Begins, Follows
<1>7. Begins(enc[m + 1])
  BY <1>2, <1>4, <1>5, <1>6, EachBegins
<1>8. /\ enc[m] \in Seq(Bit) /\ WholeField(form, fields[m + 1])
      /\ enc[m + 1] = After(form, enc[m], kind, v)
  BY <1>4, <1>5 DEF Encoded
<1>9. kind \in FieldKind(form) /\ v \in Value(kind) /\ IsWhole(form, kind, v)
  BY <1>8 DEF WholeField
<1> HIDE DEF kind, v, m, n
<1>10. Made(form, Len(enc[m]), kind, v) = [value |-> v, to |-> Len(enc[m + 1])]
  BY <1>2, <1>4, <1>7, <1>8, <1>9, FieldArrives
<1>11. r.value = v /\ r.to = Len(enc[m + 1])
  BY <1>5, <1>10
<1> HIDE DEF r
<1>12. v \in AnyValue
  BY <1>9 DEF AnyValue, AnyKind, FieldKind
<1>13. /\ got' \in Seq(AnyValue) /\ Len(got') = m + 1
       /\ \A i \in 1 .. m : got'[i] = got[i]
       /\ got'[m + 1] = v
  BY <1>3, <1>4, <1>11, <1>12, AppendProperties DEF m
<1>14. \A i \in 1 .. Len(got') : got'[i] = fields[i][2]
  <2> TAKE i \in 1 .. Len(got')
  <2>1. CASE i = m + 1
    BY <1>13, <2>1 DEF v
  <2>2. CASE i # m + 1
    <3>1. i \in 1 .. m
      BY <1>4, <1>13, <2>2
    <3> QED
      BY <1>1, <1>13, <3>1 DEF InPhase, m
  <2> QED
    BY <2>1, <2>2
<1>15. InStep(form, fields, phase, bits, at', Len(got'))
  BY <1>3, <1>5, <1>11, <1>13 DEF InStep, n
<1>16. InStep(form, fields, phase, bits, at, Len(got))'
  BY <1>3, <1>15
<1>17. InPhase'
  BY <1>1, <1>3, <1>4, <1>13, <1>14 DEF InPhase, n
<1> QED
  BY <1>16, <1>17 DEF CodecInv

(* No step makes a message whole again.                                     *)
LEMMA CodecStepInv == CodecInv /\ [CodecNext]_codecVars => CodecInv'
<1> SUFFICES ASSUME CodecInv, [CodecNext]_codecVars PROVE CodecInv'
  OBVIOUS
<1>1. CASE UNCHANGED codecVars
  BY <1>1 DEF codecVars, CodecInv, InPhase
<1>2. CASE CodecNext /\ ~plain
  <2>1. ~plain'
    BY <1>2 DEF CodecNext, Process, BeginCall, Write, SendMessage, ReadNext
  <2> QED
    BY <2>1 DEF CodecInv
<1>3. CASE CodecNext /\ plain
  BY <1>3, ProcessInv, BeginCallInv, WriteInv, SendMessageInv, ReadNextInv DEF CodecNext
<1> QED
  BY <1>1, <1>2, <1>3

(* What deserialize, the scripts of the server and RpcService::Call read is *)
(* what serialize, the packs of the client and the libraries wrote, field   *)
(* by field and wherever in a byte each begins, as long as nothing was      *)
(* longer than its length can say, no text had a NUL and no member of a    *)
(* class was inherited: for bytes, numbers and lengths of any width and any *)
(* number of fields.                                                       *)
THEOREM CallsComeWhole == CodecSpec => []CallsArriveWhole
<1>1. CodecInv => CallsArriveWhole
  <2> SUFFICES ASSUME CodecInv, plain, NEW i \in DOMAIN got PROVE got[i] = fields[i][2]
    BY DEF CallsArriveWhole
  <2>1. InPhase
    BY DEF CodecInv
  <2>2. DOMAIN got = 1 .. Len(got)
    BY <2>1, LenProperties DEF InPhase
  <2> QED
    BY <2>1, <2>2 DEF InPhase
<1> QED
  BY <1>1, CodecInitInv, CodecStepInv, PTL DEF CodecSpec
=============================================================================
