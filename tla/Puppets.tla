------------------------------- MODULE Puppets -------------------------------
(***************************************************************************)
(* The puppets of the other players on a screen (NetworkWorldSystem,       *)
(* AppearanceSystem and InterpolationSystem of code/client/App/World, with *)
(* their scripts): the game creates a body long after it was asked for,    *)
(* the hook of the idle controller gives it the controller that moves it,  *)
(* and an emote puts an animation entity beside it that a timer removes.   *)
(***************************************************************************)
EXTENDS Naturals

CONSTANTS
    Puppet,         \* server ids of other players
    Nobody,         \* the entity id 0
    MaxHooks,       \* bound on the calls of a hook that are queued
    MaxEmotes       \* bound on the animation entities, asked for or there

ASSUME PuppetsAssumption == /\ Nobody \notin Puppet
                            /\ MaxHooks \in Nat
                            /\ MaxEmotes \in Nat

VARIABLES
    stage,      \* stage[p]: "none", SpawningComponent or EntityComponent
    body,       \* body[p]: "none", asked for ("new"), or attached: "there"
    clothed,    \* puppets whose appearance was applied: m_entities
    hooked,     \* hooked[p]: calls that RunInMainThread holds
    attached,   \* attached[p]: the controller of the move component
    controller, \* controller[p]: Controller of the flecs component, 0 if null
    selected,   \* selected_entity_id
    creating,   \* animation entities asked for and not attached
    crossed,    \* an emote came while another was being created
    anim,       \* anim[p]: animEntity, 0 if null
    last,       \* last[p]: animCallbackId
    timers,     \* the AnimationHackCallbacks to come, <<puppet, entity>>
    alive,      \* animation entities in the world
    adrift      \* those that met another emote, or whose puppet has gone

puppetBodies == <<stage, body, clothed, hooked, attached, controller>>
puppetEmotes == <<selected, creating, crossed, anim, last, timers, alive, adrift>>
puppetVars   == <<puppetBodies, puppetEmotes>>

Emote      == 1 .. MaxEmotes
Controller == 0 .. 3

PuppetsTypeOK ==
    /\ stage \in [Puppet -> {"none", "spawning", "entity"}]
    /\ body \in [Puppet -> {"none", "new", "there"}]
    /\ clothed \in SUBSET Puppet
    /\ hooked \in [Puppet -> Nat]
    /\ attached \in [Puppet -> Controller]
    /\ controller \in [Puppet -> Controller]
    /\ selected \in Puppet \cup {Nobody}
    /\ creating \in 0 .. MaxEmotes
    /\ crossed \in BOOLEAN
    /\ anim \in [Puppet -> 0 .. MaxEmotes]
    /\ last \in [Puppet -> 0 .. MaxEmotes]
    /\ timers \in SUBSET (Puppet \X Emote)
    /\ alive \in SUBSET Emote
    /\ adrift \in SUBSET Emote

PuppetsInit ==
    /\ stage = [p \in Puppet |-> "none"]
    /\ body = [p \in Puppet |-> "none"]
    /\ clothed = {}
    /\ hooked = [p \in Puppet |-> 0]
    /\ attached = [p \in Puppet |-> 0]
    /\ controller = [p \in Puppet |-> 0]
    /\ selected = Nobody
    /\ creating = 0
    /\ crossed = FALSE
    /\ anim = [p \in Puppet |-> 0]
    /\ last = [p \in Puppet |-> 0]
    /\ timers = {}
    /\ alive = {}
    /\ adrift = {}

-----------------------------------------------------------------------------
SpawnPuppet(p) ==
    /\ stage[p] = "none"
    /\ body[p] = "none"
    /\ stage' = [stage EXCEPT ![p] = "spawning"]
    /\ body' = [body EXCEPT ![p] = "new"]
    /\ UNCHANGED <<clothed, hooked, attached, controller, puppetEmotes>>

(* ApplyAppearance has nothing to put on one whose ccstate is empty, as one *)
(* is that was never ready: neither clothes nor a name.                    *)
OnEntityAttached(p, ccstate) ==
    /\ body[p] = "new"
    /\ body' = [body EXCEPT ![p] = "there"]
    /\ clothed' = IF ccstate THEN clothed \cup {p} ELSE clothed
    /\ UNCHANGED <<stage, hooked, attached, controller, puppetEmotes>>

(* The hook lets a body alone that has its controller, and else has the     *)
(* controller made on the main thread: for each call until then.           *)
SetAnimation(p) ==
    /\ body[p] = "there"
    /\ attached[p] = 0
    /\ hooked[p] < MaxHooks
    /\ hooked' = [hooked EXCEPT ![p] = @ + 1]
    /\ UNCHANGED <<stage, body, clothed, attached, controller, puppetEmotes>>

(* The move component may be gone by now; nothing that lasts is touched then.*)
AttachController(p) ==
    LET new == CHOOSE c \in Controller : c \notin {0, attached[p], controller[p]}
    IN  /\ hooked[p] > 0
        /\ hooked' = [hooked EXCEPT ![p] = @ - 1]
        /\ attached' = IF body[p] = "there" THEN [attached EXCEPT ![p] = new] ELSE attached
        /\ controller' = IF body[p] = "there" /\ stage[p] # "none"
                         THEN [controller EXCEPT ![p] = new] ELSE controller
        /\ UNCHANGED <<stage, body, clothed, puppetEmotes>>

(* A slip: the entity starts without the controller found meanwhile.        *)
PromoteAnew(p) ==
    /\ stage[p] = "spawning"
    /\ body[p] = "there"
    /\ stage' = [stage EXCEPT ![p] = "entity"]
    /\ controller' = [controller EXCEPT ![p] = 0]
    /\ UNCHANGED <<body, clothed, hooked, attached, puppetEmotes>>

(* "Spawning entity process".                                               *)
Promote(p) ==
    /\ stage[p] = "spawning"
    /\ body[p] = "there"
    /\ stage' = [stage EXCEPT ![p] = "entity"]
    /\ UNCHANGED <<body, clothed, hooked, attached, controller, puppetEmotes>>

(* DeletePuppet ends the body; what belonged to it is dead with it, and an  *)
(* animation entity that is left stands beside nobody.                     *)
DeSpawn(p) ==
    /\ stage[p] # "none"
    /\ stage' = [stage EXCEPT ![p] = "none"]
    /\ body' = [body EXCEPT ![p] = "none"]
    /\ clothed' = clothed \ {p}
    /\ attached' = [attached EXCEPT ![p] = 0]
    /\ controller' = [controller EXCEPT ![p] = 0]
    /\ adrift' = adrift \cup ({anim[p]} \ {0})
    /\ anim' = [anim EXCEPT ![p] = 0]
    /\ last' = [last EXCEPT ![p] = 0]
    /\ timers' = {t \in timers : t[1] # p}
    /\ UNCHANGED <<hooked, selected, creating, crossed, alive>>

(* A world that is detached takes what the game made along; the flecs world *)
(* keeps its entities, and they the controllers of bodies that are gone.   *)
OnWorldDetach ==
    /\ body' = [p \in Puppet |-> "none"]
    /\ clothed' = {}
    /\ attached' = [p \in Puppet |-> 0]
    /\ creating' = 0
    /\ crossed' = FALSE
    /\ anim' = [p \in Puppet |-> 0]
    /\ last' = [p \in Puppet |-> 0]
    /\ timers' = {}
    /\ alive' = {}
    /\ adrift' = {}
    /\ UNCHANGED <<stage, hooked, controller, selected>>

-----------------------------------------------------------------------------
Present(p) == stage[p] # "none" /\ body[p] = "there"

(* A slip: an emote that goes on is not ended before the next.              *)
HandleEmoteTwice(p) ==
    /\ selected' = IF stage[p] = "none" THEN Nobody ELSE p
    /\ crossed' = (crossed \/ creating > 0)
    /\ IF Present(p)
       THEN creating < MaxEmotes /\ creating' = creating + 1
       ELSE UNCHANGED creating
    /\ UNCHANGED <<puppetBodies, timers, alive, adrift, anim, last>>

(* TriggerEmote comes for whoever has a puppet on the server: the player    *)
(* itself, too, and others who are not on this screen.                     *)
HandleEmote(p) ==
    /\ selected' = IF stage[p] = "none" THEN Nobody ELSE p
    /\ crossed' = (crossed \/ creating > 0)
    /\ IF Present(p)
       THEN /\ creating < MaxEmotes
            /\ creating' = creating + 1
            /\ timers' = IF anim[p] = 0 THEN timers ELSE timers \ {<<p, last[p]>>}
            /\ alive' = alive \ {anim[p]}
            /\ adrift' = adrift \ {anim[p]}
            /\ anim' = [anim EXCEPT ![p] = 0]
       ELSE UNCHANGED <<creating, timers, alive, adrift, anim>>
    /\ UNCHANGED <<puppetBodies, last>>

(* The entity that is there now goes to whoever was selected last.          *)
OnAnimationEntityAttached ==
    LET p == selected
    IN  /\ creating > 0
        /\ creating' = creating - 1
        /\ crossed' = (crossed /\ creating > 1)
        /\ \E e \in Emote \ alive :
               /\ \A q \in Puppet : <<q, e>> \notin timers
               /\ \A f \in Emote : f < e => f \in alive \/ \E q \in Puppet : <<q, f>> \in timers
               /\ alive' = alive \cup {e}
               /\ IF p # Nobody /\ body[p] = "there"
                  THEN /\ anim' = [anim EXCEPT ![p] = e]
                       /\ last' = [last EXCEPT ![p] = e]
                       /\ timers' = timers \cup {<<p, e>>}
                       /\ adrift' = adrift \cup (IF crossed THEN {e, anim[p]} \ {0} ELSE {})
                  ELSE /\ adrift' = adrift \cup {e}
                       /\ UNCHANGED <<anim, last, timers>>
        /\ UNCHANGED <<puppetBodies, selected>>

(* Two seconds later, whatever the puppet plays by then.                    *)
AnimationHackCallback(p, e) ==
    /\ <<p, e>> \in timers
    /\ timers' = timers \ {<<p, e>>}
    /\ alive' = alive \ {anim[p]}
    /\ adrift' = adrift \ {anim[p]}
    /\ anim' = [anim EXCEPT ![p] = 0]
    /\ UNCHANGED <<puppetBodies, selected, creating, crossed, last>>

PuppetsNext ==
    \/ \E p \in Puppet : \/ SpawnPuppet(p)
                         \/ \E ccstate \in BOOLEAN : OnEntityAttached(p, ccstate)
                         \/ SetAnimation(p)
                         \/ AttachController(p)
                         \/ Promote(p)
                         \/ DeSpawn(p)
                         \/ HandleEmote(p)
                         \/ \E e \in Emote : AnimationHackCallback(p, e)
    \/ OnWorldDetach
    \/ OnAnimationEntityAttached

PuppetsSpec == PuppetsInit /\ [][PuppetsNext]_puppetVars

-----------------------------------------------------------------------------
(* A puppet on the screen is moved by the controller that its body has,     *)
(* whether the hook, the promotion or the unload came first.               *)
(* (HookIdleController_SetAnimation, "Spawning entity process".)           *)
ControllersKnown ==
    \A p \in Puppet : Present(p) => controller[p] = attached[p]

(* Every animation entity that met no other one while it was created, and   *)
(* whose puppet is still there, is played by that puppet and will be        *)
(* removed: none is left standing in the street.  (HandleEmote,             *)
(* OnAnimationEntityAttached, AnimationHackCallback.)                       *)
EmotesEnd ==
    \A e \in alive \ adrift : \E p \in Puppet : anim[p] = e /\ <<p, e>> \in timers
=============================================================================
