-------------------------------- MODULE Chat --------------------------------
(***************************************************************************)
(* The chat panel of the client (ChatController, code/assets/redscript/    *)
(* Ink): it is visible while connected, fades out when nothing has         *)
(* happened for ten seconds, and opens for typing.  Every event that wakes *)
(* it starts a timer of its own; the timers that are out of date still     *)
(* fire.  The server (ChatSystem) sends each message to every player.  An  *)
(* icon with the key that opens it (ChatHotkeyController) makes way for    *)
(* whatever else the game displays.                                        *)
(***************************************************************************)
EXTENDS Naturals

CONSTANT MaxWakes       \* bound on how often the panel is woken

ASSUME ChatAssumption == MaxWakes \in Nat

VARIABLES
    online,         \* UIGameData.UIMultiplayerConnectedToServer
    panel,          \* the ChatController exists
    chatConnected,  \* its m_connected, and the visibility of its root
    typing,         \* m_chatInputOpen
    typingContext,  \* UIGameData.UIChatInputContextRequest
    generation,     \* m_hideGeneration
    fadeTimers,     \* the generations of the callbacks still delayed
    faded,          \* the fade animation was started, and not stopped since
    displayed,      \* what the game displays in place of the icon
    iconShown,      \* the icon is visible
    hintShown,      \* the hint of its key is visible
    iconThere       \* the HUD has the icon

hotkeyVars == <<displayed, iconShown, hintShown, iconThere>>
chatVars   == <<online, panel, chatConnected, typing, typingContext, generation, fadeTimers,
                faded, hotkeyVars>>

(* What the icon makes way for; the scanner, the contacts, the radio and    *)
(* the popups of the multiplayer screen are all treated alike.             *)
GamePopup == {"radial", "other"}

ChatTypeOK ==
    /\ online \in BOOLEAN
    /\ panel \in BOOLEAN
    /\ chatConnected \in BOOLEAN
    /\ typing \in BOOLEAN
    /\ typingContext \in BOOLEAN
    /\ generation \in 0 .. MaxWakes
    /\ fadeTimers \in SUBSET (1 .. MaxWakes)
    /\ faded \in BOOLEAN
    /\ displayed \in SUBSET GamePopup
    /\ iconShown \in BOOLEAN
    /\ hintShown \in BOOLEAN
    /\ iconThere \in BOOLEAN

ChatInit ==
    /\ online = FALSE
    /\ panel = FALSE
    /\ chatConnected = FALSE
    /\ typing = FALSE
    /\ typingContext = FALSE
    /\ generation = 0
    /\ fadeTimers = {}
    /\ faded = FALSE
    /\ displayed = {}
    /\ iconShown = TRUE
    /\ hintShown = FALSE
    /\ iconThere = TRUE

-----------------------------------------------------------------------------
WakeChat ==
    /\ generation < MaxWakes
    /\ generation' = generation + 1
    /\ fadeTimers' = fadeTimers \cup {generation + 1}
    /\ faded' = FALSE

(* OnUIChatInputIsShown of the icon, called when the context is set.        *)
IconFor(context) == iconShown' = IF iconThere THEN ~context ELSE iconShown

(* OnConnectedToServer of the icon: its key does nothing while offline.     *)
HintFor(value) == hintShown' = IF iconThere THEN value ELSE hintShown

(* Opening asks for the focus and the keys; closing gives them back.        *)
ShowChatInput(show) ==
    /\ typing' = show
    /\ typingContext' = show
    /\ IconFor(show)
    /\ WakeChat

OnInitialize ==
    /\ ~panel
    /\ panel' = TRUE
    /\ chatConnected' = online
    /\ typing' = FALSE
    /\ generation' = 0
    /\ fadeTimers' = {}
    /\ faded' = FALSE
    /\ UNCHANGED <<online, typingContext, hotkeyVars>>

(* The delayed callbacks hold the controller weakly.                        *)
OnUninitialize ==
    /\ panel
    /\ panel' = FALSE
    /\ fadeTimers' = {}
    /\ UNCHANGED <<online, chatConnected, typing, typingContext, generation, faded, hotkeyVars>>

OnConnectionStateChanged(value) ==
    /\ chatConnected' = value
    /\ IF value THEN WakeChat /\ UNCHANGED <<typing, typingContext, iconShown>>
       ELSE IF typing THEN ShowChatInput(FALSE)
       ELSE UNCHANGED <<typing, typingContext, generation, fadeTimers, faded, iconShown>>

(* The listener of the blackboard, of a panel that is there.                *)
SetConnected(value) ==
    /\ online # value
    /\ online' = value
    /\ IF panel THEN OnConnectionStateChanged(value)
                ELSE UNCHANGED <<chatConnected, typing, typingContext, generation, fadeTimers,
                                 faded, iconShown>>
    /\ HintFor(value)
    /\ UNCHANGED <<panel, displayed, iconThere>>

(* Also one that was queued before the connection was lost.                 *)
OnChatMessageUIEvent ==
    /\ panel
    /\ WakeChat
    /\ UNCHANGED <<online, panel, chatConnected, typing, typingContext, hotkeyVars>>

(* OnAction: UIEnterChatMessage opens; EnterChat, which sends what there is *)
(* to send, and back close.                                                *)
OnAction ==
    /\ panel
    /\ chatConnected
    /\ ShowChatInput(~typing)
    /\ UNCHANGED <<online, panel, chatConnected, displayed, hintShown, iconThere>>

(* A slip: the ten seconds are over, whatever the player is doing.          *)
FadesWhileTyping(g) ==
    /\ g \in fadeTimers
    /\ fadeTimers' = fadeTimers \ {g}
    /\ faded' = (faded \/ (g = generation /\ chatConnected))
    /\ UNCHANGED <<online, panel, chatConnected, typing, typingContext, generation, hotkeyVars>>

OnFadeTimeout(g) ==
    /\ g \in fadeTimers
    /\ fadeTimers' = fadeTimers \ {g}
    /\ faded' = (faded \/ (g = generation /\ ~typing /\ chatConnected))
    /\ UNCHANGED <<online, panel, chatConnected, typing, typingContext, generation, hotkeyVars>>

(* ToggleVisibility: the last that came or went decides, whatever else is   *)
(* displayed.                                                              *)
Toggle(g) ==
    /\ displayed' = IF g \in displayed THEN displayed \ {g} ELSE displayed \cup {g}
    /\ iconShown' = IF iconThere THEN g \in displayed ELSE iconShown
    /\ UNCHANGED <<online, panel, chatConnected, typing, typingContext, generation, fadeTimers,
                   faded, hintShown, iconThere>>

(* The icon comes with the HUD; it asks about the radial menu alone, and    *)
(* takes itself to be offline.                                             *)
InitializeHotkey ==
    /\ ~iconThere
    /\ iconThere' = TRUE
    /\ iconShown' = ("radial" \notin displayed)
    /\ hintShown' = FALSE
    /\ UNCHANGED <<online, panel, chatConnected, typing, typingContext, generation, fadeTimers,
                   faded, displayed>>

(* The two listeners that it leaves registered find it no more.            *)
UninitializeHotkey ==
    /\ iconThere
    /\ iconThere' = FALSE
    /\ UNCHANGED <<online, panel, chatConnected, typing, typingContext, generation, fadeTimers,
                   faded, displayed, iconShown, hintShown>>

ChatNext ==
    \/ OnInitialize
    \/ OnUninitialize
    \/ \E value \in BOOLEAN : SetConnected(value)
    \/ OnChatMessageUIEvent
    \/ OnAction
    \/ \E g \in fadeTimers : OnFadeTimeout(g)
    \/ \E g \in GamePopup : Toggle(g)
    \/ InitializeHotkey
    \/ UninitializeHotkey

ChatSpec == ChatInit /\ [][ChatNext]_chatVars

-----------------------------------------------------------------------------
(* Who types sees what is typed: the panel is neither hidden by a lost      *)
(* connection nor faded out by a timer that an older event started, and     *)
(* typing never goes on in a panel that takes no keys.                      *)
TypingIsVisible == panel /\ typing => chatConnected /\ ~faded

(* When nothing is displayed in its place the icon is there, in whatever    *)
(* order popups, typing and a new HUD came and went.                       *)
IconReturns == iconThere /\ displayed = {} /\ ~typingContext => iconShown

(* What the player looks for in the chat is on the screen.                  *)
ChatIsVisible == TypingIsVisible /\ IconReturns
=============================================================================
