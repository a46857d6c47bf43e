---------------------------- MODULE ProgramProofs ----------------------------
(***************************************************************************)
(* How the client lives inside the game: the overlay and the hooks, for    *)
(* any threads of the game; its types, for any classes and any order of    *)
(* the linker; the numbers of remote functions, for any plugins, and the   *)
(* C# that is written for them, for any types of the scripts.              *)
(***************************************************************************)
EXTENDS Overlay, Hooks, Types, Csharp, FiniteSetTheorems, SequenceTheorems,
        Inductions

-----------------------------------------------------------------------------
(* The overlay.  What is drawn is in the buffer of the renderer, which the *)
(* game's thread does not touch; no two buffers hold the same lists, and   *)
(* the lists that are allocated are those of the buffers.                  *)
InMemory == \A p \in Place : buffers[p].lists # Blank => buffers[p].lists \in memory
Apart == \A p, q \in Place :
            buffers[p].lists = buffers[q].lists => p = q \/ buffers[p].lists = Blank
Owned == \A l \in memory : \E p \in Place : buffers[p].lists = l

OverlayInv ==
    /\ OverlayTypeOK
    /\ drawing # Blank => renderer = "drawing" /\ drawing = buffers[0].lists
    /\ InMemory
    /\ Apart
    /\ Owned

LEMMA Places == /\ Place = {0, 1, 2}
                /\ 0 # 1 /\ 0 # 2 /\ 1 # 2
                /\ 0 \in Place /\ 1 \in Place /\ 2 \in Place
BY DEF Place

(* The exchange of two buffers takes nothing away from any.                *)
LEMMA ExchangeKeeps ==
    ASSUME OverlayInv, OnPresent
    PROVE  OverlayInv'
<1>1. CASE ~buffers[1].valid
  <2>1. buffers' = buffers /\ UNCHANGED <<memory, driver, device, gameThread, window, crashed>>
    BY <1>1 DEF OnPresent, Exchange
  <2>2. drawing' # Blank => renderer' = "drawing" /\ drawing' = buffers[0].lists
    BY <2>1 DEF OnPresent, OverlayInv
  <2>3. OverlayTypeOK'
    BY <2>1, Places DEF OnPresent, OverlayInv, OverlayTypeOK, Buffer
  <2> QED
    BY <2>1, <2>2, <2>3 DEF OverlayInv, InMemory, Apart, Owned
<1>2. CASE buffers[1].valid
  <2>1. /\ buffers'[0] = buffers[1] /\ buffers'[2] = buffers[2]
        /\ buffers'[1].lists = buffers[0].lists
        /\ buffers' \in [Place -> Buffer]
    <3>1. buffers \in [Place -> Buffer] /\ buffers[0] \in Buffer /\ buffers[1] \in Buffer
      BY Places DEF OverlayInv, OverlayTypeOK
    <3> DEFINE given == [buffers[0] EXCEPT !.valid = FALSE]
    <3>2. given \in Buffer /\ given.lists = buffers[0].lists
      BY <3>1 DEF Buffer
    <3> HIDE DEF given
    <3>3. buffers' = [buffers EXCEPT ![0] = buffers[1], ![1] = given]
      BY <1>2 DEF OnPresent, Exchange, given
    <3> QED
      BY <3>1, <3>2, <3>3, Places
  <2>2. renderer' = "drawing" /\ drawing' = buffers'[0].lists
    BY <1>2, <2>1 DEF OnPresent
  <2>3. UNCHANGED <<memory, driver, device, gameThread, window, crashed>>
    BY DEF OnPresent
  <2>4. OverlayTypeOK'
    BY <2>1, <2>2, <2>3, Places DEF OverlayInv, OverlayTypeOK, Buffer
  <2>5. InMemory' /\ Apart' /\ Owned'
    BY <2>1, <2>3, Places DEF OverlayInv, InMemory, Apart, Owned
  <2> QED
    BY <2>2, <2>4, <2>5 DEF OverlayInv
<1> QED
  BY <1>1, <1>2

(* A new frame takes lists that are free and gives back those of the       *)
(* buffer it was built in.                                                 *)
LEMMA PrepareKeeps ==
    ASSUME OverlayInv, PrepareUpdate
    PROVE  OverlayInv'
<1>1. PICK l \in Draw :
         /\ memory' = (memory \ {buffers[2].lists}) \cup ({l} \ {Blank})
         /\ buffers' = NewList(buffers, l)
  BY DEF PrepareUpdate
<1>2. l = Blank \/ (l \in List /\ l \notin memory)
  BY DEF Draw
<1>3. /\ buffers'[0] = buffers[0] /\ buffers'[1].lists = l /\ buffers'[2] = buffers[1]
      /\ buffers' \in [Place -> Buffer]
  BY <1>1, <1>2, Places DEF NewList, OverlayInv, OverlayTypeOK, Buffer
<1>4. UNCHANGED <<drawing, driver, device, renderer, window, crashed>>
  BY DEF PrepareUpdate
<1>5. OverlayTypeOK'
  BY <1>1, <1>2, <1>3, <1>4 DEF OverlayInv, OverlayTypeOK, PrepareUpdate
<1>6. InMemory' /\ Apart' /\ Owned'
  BY <1>1, <1>2, <1>3, Places, OverlayAssumption
     DEF OverlayInv, InMemory, Apart, Owned
<1> QED
  BY <1>3, <1>4, <1>5, <1>6 DEF OverlayInv

LEMMA OverlayStep == OverlayInv /\ [OverlayNext]_overlayVars => OverlayInv'
<1> SUFFICES ASSUME OverlayInv, [OverlayNext]_overlayVars
             PROVE  OverlayInv'
  OBVIOUS
<1>1. CASE OnPresent
  BY <1>1, ExchangeKeeps
<1>2. CASE PrepareUpdate
  BY <1>2, PrepareKeeps
<1>3. CASE OnReset
  <2>1. /\ \A p \in Place : buffers'[p] = Empty
        /\ buffers' \in [Place -> Buffer]
        /\ renderer' = "resetting" /\ drawing' = drawing /\ renderer = "game"
        /\ UNCHANGED <<driver, device, gameThread, window, crashed>>
    BY <1>3 DEF OnReset, Empty, Buffer
  <2>2. memory' = {}
    BY <1>3 DEF OnReset, OverlayInv, Owned
  <2> QED
    BY <2>1, <2>2, Places DEF OverlayInv, OverlayTypeOK, InMemory, Apart, Owned, Empty
<1>4. ASSUME UNCHANGED <<buffers, memory>>,
             \/ UNCHANGED <<drawing, renderer>>
             \/ drawing' = Blank
             \/ drawing' = drawing /\ renderer # "drawing",
             OverlayTypeOK'
      PROVE  OverlayInv'
  BY <1>4 DEF OverlayInv, InMemory, Apart, Owned
<1>5. CASE \/ FindWindow \/ HookWindow \/ WndProc \/ OnRenderInit \/ Drawn
           \/ Released \/ OnGameUpdate \/ PrepareTooLate \/ UNCHANGED overlayVars
  <2> USE DEF OverlayInv, OverlayTypeOK
  <2>1. /\ UNCHANGED <<buffers, memory>>
        /\ \/ UNCHANGED <<drawing, renderer>>
           \/ drawing' = Blank
           \/ drawing' = drawing /\ renderer # "drawing"
    BY <1>5 DEF FindWindow, HookWindow, WndProc, OnRenderInit, Drawn, Released,
                OnGameUpdate, PrepareTooLate, overlayVars
  <2>2. OverlayTypeOK'
    <3>1. CASE FindWindow \/ HookWindow \/ WndProc
      BY <3>1 DEF FindWindow, HookWindow, WndProc
    <3>2. CASE OnRenderInit \/ Drawn \/ Released
      BY <3>2 DEF OnRenderInit, Drawn, Released
    <3>3. CASE OnGameUpdate \/ PrepareTooLate
      BY <3>3 DEF OnGameUpdate, PrepareTooLate
    <3>4. CASE UNCHANGED overlayVars
      BY <3>4 DEF overlayVars
    <3> QED
      BY <1>5, <3>1, <3>2, <3>3, <3>4
  <2> QED
    BY <1>4, <2>1, <2>2
<1> QED
  BY <1>1, <1>2, <1>3, <1>5 DEF OverlayNext

(* While the renderer reads a frame without the lock, the game's thread     *)
(* neither deletes nor fills it; and what is allocated is in exactly one   *)
(* buffer (ImGuiService.cpp:171-204).                                      *)
THEOREM DrawnStaysWhole == OverlaySpec => []DrawnIsWhole
<1>1. OverlayInit => OverlayInv
  <2> SUFFICES ASSUME OverlayInit PROVE OverlayInv
    OBVIOUS
  <2>1. Empty \in Buffer /\ Empty.lists = Blank
    BY DEF Empty, Buffer
  <2>2. OverlayTypeOK
    BY <2>1 DEF OverlayInit, OverlayTypeOK
  <2>3. /\ \A p \in Place : buffers[p].lists = Blank
        /\ memory = {} /\ drawing = Blank
    BY <2>1 DEF OverlayInit
  <2> QED
    BY <2>2, <2>3 DEF OverlayInv, InMemory, Apart, Owned
<1>2. OverlayInv => DrawnIsWhole
  BY Places DEF OverlayInv, InMemory, Apart, Owned, DrawnIsWhole
<1> QED
  BY <1>1, <1>2, OverlayStep, PTL DEF OverlaySpec

-----------------------------------------------------------------------------
(* Hooks.  The stages of a call, one after the other.                      *)
Stage == {"callback", "function", "detach"}

LEMMA FirstStage ==
    ASSUME NEW x \in Stage, NEW e \in Seq(Stage)
    PROVE  /\ <<x>> \o e \in Seq(Stage) /\ <<x>> \o e # <<>>
           /\ Head(<<x>> \o e) = x
           /\ Tail(<<x>> \o e) = e
<1>1. <<x>> \in Seq(Stage) /\ Len(<<x>>) = 1 /\ <<x>>[1] = x
  OBVIOUS
<1> DEFINE s == <<x>> \o e
<1>2. /\ s \in Seq(Stage) /\ Len(s) = 1 + Len(e) /\ Len(e) \in Nat
      /\ \A i \in 1 .. 1 + Len(e) : s[i] = IF i <= 1 THEN <<x>>[i] ELSE e[i - 1]
  BY <1>1, ConcatProperties
<1> HIDE DEF s
<1>3. s # <<>> /\ s[1] = x
  BY <1>1, <1>2
<1>4. /\ Tail(s) \in Seq(Stage) /\ Len(Tail(s)) = Len(e)
      /\ \A i \in 1 .. Len(e) : Tail(s)[i] = s[i + 1]
  BY <1>2, <1>3, HeadTailProperties
<1>5. \A i \in 1 .. Len(e) : Tail(s)[i] = e[i]
  BY <1>2, <1>4
<1>6. Tail(s) = e
  BY <1>4, <1>5, SeqEqual
<1> QED
  BY <1>2, <1>3, <1>6 DEF s

LEMMA TwoStages ==
    ASSUME NEW x \in Stage, NEW y \in Stage, NEW e \in Seq(Stage)
    PROVE  <<x, y>> \o e = <<x>> \o (<<y>> \o e)
<1>1. <<x>> \in Seq(Stage) /\ <<y>> \in Seq(Stage) /\ <<x, y>> \in Seq(Stage)
  OBVIOUS
<1>2. Len(<<x>>) = 1 /\ Len(<<y>>) = 1 /\ Len(<<x, y>>) = 2
  OBVIOUS
<1>3. /\ <<x>> \o <<y>> \in Seq(Stage)
      /\ Len(<<x>> \o <<y>>) = 2
      /\ \A i \in 1 .. 2 : (<<x>> \o <<y>>)[i] = IF i <= 1 THEN <<x>>[i] ELSE <<y>>[i - 1]
  BY <1>1, <1>2, ConcatProperties
<1>4. \A i \in 1 .. 2 : (<<x>> \o <<y>>)[i] = <<x, y>>[i]
  BY <1>3
<1>5. <<x>> \o <<y>> = <<x, y>>
  BY <1>1, <1>2, <1>3, <1>4, SeqEqual
<1>6. (<<x>> \o <<y>>) \o e = <<x>> \o (<<y>> \o e)
  BY <1>1, ConcatAssociative
<1> QED
  BY <1>5, <1>6

(* What a call ends with, and how far it may have come: a function is       *)
(* never detached but by a call of a manner that is for once.              *)
End(m) == IF m.once THEN <<"detach">> ELSE <<>>

Final(m) == IF m.kind \in {"args", "blind", "tail", "result"} THEN "function"
                                                              ELSE "callback"

OnItsWay(m, c) ==
    \/ /\ c.rest = Stages(m) \o End(m)
       /\ c.value = "none"
    \/ /\ m.flow # "After"
       /\ c.rest = <<"function">> \o End(m)
       /\ m.returns => c.value = IF m.flow = "Before" THEN "none" ELSE "callback"
    \/ /\ m.flow = "After"
       /\ c.rest = <<"callback">> \o End(m)
       /\ m.returns => c.value = "function"
    \/ /\ c.rest \in {End(m), <<>>}
       /\ m.returns => c.value = Final(m)

(* The hook that is being attached.                                        *)
Current(t) == pending = <<t>> /\ step # "create"

HookKinds ==
    /\ manner \in Manner
    /\ registered \in 0 .. Len(Order)
    /\ pending = <<>> \/ \E t \in Target : pending = <<t>>
    /\ pending = <<>> => step = "create"
    /\ attached \in [Target -> BOOLEAN] /\ patched \in [Target -> BOOLEAN]
    /\ callback \in [Target -> BOOLEAN] /\ original \in [Target -> BOOLEAN]
    /\ inside \in [GameThread -> {Idle} \cup
                      [target : Target, value : {"none", "function", "callback"},
                       rest : Seq(Stage)]]

Attachments ==
    \A t \in Target :
        /\ patched[t] => attached[t]
        /\ attached[t] /\ ~Current(t) => callback[t] /\ original[t]
        /\ Current(t) /\ step = "enable" => ~attached[t]
        /\ Current(t) /\ step = "original" /\ attached[t] => callback[t]

Calls ==
    \A g \in GameThread : inside[g] # Idle =>
        /\ OnItsWay(How(inside[g].target), inside[g])
        /\ How(inside[g].target).once \/ attached[inside[g].target]

(* The renderer's hook is on its way, or it is there.                      *)
Rendered ==
    /\ app \in {"constructing", "booted"} /\ registered >= 2 =>
         \/ patched["Present"]
         \/ /\ app = "constructing" /\ pending = <<"Present">>
            /\ step \in {"create", "enable"}
    /\ app = "booted" => registered >= 2

HooksInv == HookKinds /\ Attachments /\ Calls /\ Rendered

LEMMA Alone ==
    /\ \A t : Head(<<t>>) = t /\ Tail(<<t>>) = <<>> /\ <<t>> # <<>>
    /\ \A t, u : <<t>> = <<u>> <=> t = u
<1>1. \A t, u : <<t>> = <<u>> <=> t = u
  OBVIOUS
<1>2. ASSUME NEW t
      PROVE  Head(<<t>>) = t /\ Tail(<<t>>) = <<>> /\ <<t>> # <<>>
  <2>1. <<t>> \in Seq({t}) /\ <<t>> # <<>> /\ Len(<<t>>) = 1 /\ <<t>>[1] = t
    OBVIOUS
  <2>2. Tail(<<t>>) \in Seq({t}) /\ Len(Tail(<<t>>)) = 0
    BY <2>1, HeadTailProperties
  <2>3. Tail(<<t>>) = <<>>
    BY <2>2, EmptySeq
  <2> QED
    BY <2>1, <2>3
<1> QED
  BY <1>1, <1>2

LEMMA Ways ==
    ASSUME NEW m \in Manner
    PROVE  /\ m.flow \in Flow /\ m.once \in BOOLEAN /\ m.returns \in BOOLEAN
           /\ m.flow = "Before" => m.kind \in {"args", "blind"}
           /\ m.flow \in {"Original", "Wrap"} => m.kind \in {"original", "full"}
           /\ m.flow = "After" => m.kind \in {"args", "blind", "tail", "result",
                                              "tailWrapper", "resultWrapper"}
BY DEF Manner, Compatible, Flow

LEMMA HowKinds ==
    ASSUME HookKinds, NEW t \in Target
    PROVE  /\ How(t) \in Manner
           /\ t = "Present" => ~How(t).once
BY DEF How, HookKinds, Manner, Compatible, Flow, Kind, Target

(* The main thread: features are registered, and the game updates.         *)
LEMMA FeaturesKeep ==
    ASSUME HooksInv,
           \/ Register \/ Bootstrap \/ MakeSystems
           \/ RunUpdate \/ RunTask \/ Drained \/ Unload
    PROVE  HooksInv'
<1> USE DEF HooksInv
<1>1. /\ UNCHANGED <<manner, step, attached, callback, original, inside>>
      /\ patched' = patched \/ (patched' = [t \in Target |-> FALSE] /\ app' = "gone")
      /\ \/ pending' = pending
         \/ pending = <<>> /\ (pending' = <<>> \/ \E t \in Target : pending' = <<t>>)
  BY DEF Register, Bootstrap, MakeSystems, RunUpdate, RunTask, Drained, Unload,
         hookVars, Target
<1>2. registered' \in 0 .. Len(Order)
  BY DEF Register, Bootstrap, MakeSystems, RunUpdate, RunTask, Drained, Unload,
         HookKinds, Order
<1>3. HookKinds'
  BY <1>1, <1>2 DEF HookKinds
<1>4. \A t \in Target : Current(t)' <=> Current(t)
  BY <1>1, Alone DEF Current, HookKinds
<1>5. Attachments'
  BY <1>1, <1>4 DEF Attachments
<1>6. Calls'
  BY <1>1 DEF Calls, How
<1>7. Rendered'
  <2>1. CASE Register
    <3>1. app' = app /\ app = "constructing" /\ pending = <<>> /\ patched' = patched
      BY <2>1 DEF Register, hookVars
    <3>2. registered \in 0 .. 3 /\ registered' = registered + 1
      BY <2>1 DEF Register, HookKinds, Order
    <3>3. CASE registered = 1
      <4>1. pending' = <<"Present">>
        BY <2>1, <3>3 DEF Register, Order
      <4> QED
        BY <1>1, <3>1, <4>1 DEF Rendered, HookKinds
    <3>4. CASE registered # 1
      BY <3>1, <3>2, <3>4, Alone DEF Rendered
    <3> QED
      BY <3>3, <3>4
  <2>2. CASE Bootstrap
    BY <2>2, Alone DEF Bootstrap, Rendered, Order, hookVars
  <2>3. CASE MakeSystems \/ RunUpdate \/ RunTask \/ Drained
    BY <2>3, Alone DEF MakeSystems, RunUpdate, RunTask, Drained, Rendered, hookVars
  <2>4. CASE Unload
    BY <2>4 DEF Unload, Rendered
  <2> QED
    BY <2>1, <2>2, <2>3, <2>4
<1> QED
  BY <1>3, <1>5, <1>6, <1>7

(* The main thread: a function is hooked, or it is not.                    *)
LEMMA AttachKeeps ==
    ASSUME HooksInv,
           AttachAgain \/ CreateHook \/ EnableHook \/ SetCallback \/ SetOriginal
    PROVE  HooksInv'
<1> USE DEF HooksInv
<1>1. PICK t \in Target : pending = <<t>>
  BY DEF HookKinds, AttachAgain, CreateHook, EnableHook, SetCallback, SetOriginal
<1>2. Head(pending) = t /\ Tail(pending) = <<>>
  BY <1>1, Alone
<1>3. \A u \in Target : Current(u) <=> u = t /\ step # "create"
  BY <1>1, Alone DEF Current
<1>4. UNCHANGED <<manner, registered, inside>>
  BY DEF AttachAgain, CreateHook, EnableHook, SetCallback, SetOriginal
<1>5. /\ \A u \in Target \ {t} : /\ attached'[u] = attached[u]
                                 /\ patched'[u] = patched[u]
                                 /\ callback'[u] = callback[u]
                                 /\ original'[u] = original[u]
      /\ attached[t] => attached'[t]
      /\ attached' \in [Target -> BOOLEAN] /\ patched' \in [Target -> BOOLEAN]
      /\ callback' \in [Target -> BOOLEAN] /\ original' \in [Target -> BOOLEAN]
  BY <1>2 DEF AttachAgain, CreateHook, EnableHook, SetCallback, SetOriginal,
              HookKinds, Refused, hookVars
<1>6. \/ /\ pending' = <<>> /\ step' = "create"
      \/ /\ pending' = pending /\ step' # "create"
  BY <1>2 DEF AttachAgain, CreateHook, EnableHook, SetCallback, SetOriginal,
              AfterFailure
<1>7. HookKinds'
  BY <1>1, <1>4, <1>5, <1>6, Alone DEF HookKinds
<1>8. \A u \in Target : Current(u)' <=> u = t /\ step' # "create"
  BY <1>1, <1>6, Alone DEF Current
<1>9. Calls'
  BY <1>4, <1>5 DEF Calls, How, HookKinds
<1>10. Attachments'
  <2> SUFFICES
         /\ patched'[t] => attached'[t]
         /\ attached'[t] /\ step' = "create" => callback'[t] /\ original'[t]
         /\ step' = "enable" => ~attached'[t]
         /\ step' = "original" /\ attached'[t] => callback'[t]
    BY <1>3, <1>5, <1>8 DEF Attachments
  <2>1. /\ patched[t] => attached[t]
        /\ attached[t] /\ step = "create" => callback[t] /\ original[t]
        /\ step = "enable" => ~attached[t]
        /\ step = "original" /\ attached[t] => callback[t]
    BY <1>3 DEF Attachments
  <2>2. CASE AttachAgain
    BY <1>2, <2>1, <2>2 DEF AttachAgain, Refused, hookVars, AfterFailure
  <2>3. CASE CreateHook
    BY <1>2, <2>1, <2>3 DEF CreateHook, AfterFailure
  <2>4. CASE EnableHook
    BY <1>2, <2>1, <2>4 DEF EnableHook, AfterFailure, HookKinds
  <2>5. CASE SetCallback \/ SetOriginal
    BY <1>2, <2>1, <2>5 DEF SetCallback, SetOriginal, HookKinds
  <2> QED
    BY <2>2, <2>3, <2>4, <2>5
<1>11. Rendered'
  <2>1. CASE t # "Present"
    BY <1>1, <1>2, <1>4, <1>5, <2>1, Alone
       DEF Rendered, AttachAgain, CreateHook, EnableHook, SetCallback, SetOriginal,
           AfterFailure, Target
  <2>2. CASE t = "Present"
    <3>1. CASE AttachAgain
      BY <1>2, <2>2, <3>1 DEF AttachAgain, AfterFailure, Rendered
    <3>2. CASE CreateHook
      BY <1>2, <1>4, <2>2, <3>2 DEF CreateHook, AfterFailure, Rendered
    <3>3. CASE EnableHook
      BY <1>2, <1>4, <2>2, <3>3 DEF EnableHook, AfterFailure, Rendered, HookKinds
    <3>4. CASE SetCallback \/ SetOriginal
      BY <1>2, <1>4, <2>2, <3>4 DEF SetCallback, SetOriginal, Rendered
    <3> QED
      BY <3>1, <3>2, <3>3, <3>4
  <2> QED
    BY <2>1, <2>2
<1> QED
  BY <1>7, <1>9, <1>10, <1>11

(* A thread comes to another stage of its call.                            *)
CallKind == [target : Target, value : {"none", "function", "callback"},
             rest : Seq(Stage)]

LEMMA MoveKeeps ==
    ASSUME HooksInv, NEW g \in GameThread, NEW c \in {Idle} \cup CallKind,
           c # Idle => OnItsWay(How(c.target), c)
                       /\ (How(c.target).once \/ attached[c.target]),
           inside' = [inside EXCEPT ![g] = c],
           app' \in {app, "terminated"},
           UNCHANGED <<manner, registered, pending, step, hookVars>>
    PROVE  HooksInv'
<1> USE DEF HooksInv, hookVars
<1>1. HookKinds'
  BY DEF HookKinds, CallKind
<1>2. Attachments'
  BY DEF Attachments, Current
<1>3. Rendered'
  BY DEF Rendered
<1>4. \A h \in GameThread : inside'[h] = IF h = g THEN c ELSE inside[h]
  BY DEF HookKinds
<1>5. Calls'
  BY <1>4 DEF Calls, How
<1> QED
  BY <1>1, <1>2, <1>3, <1>5

(* What a thread is at.                                                    *)
LEMMA Stops ==
    ASSUME NEW m \in Manner
    PROVE  /\ End(m) \in Seq(Stage) /\ <<>> \in Seq(Stage)
           /\ End(m) # <<>> => Head(End(m)) = "detach" /\ Tail(End(m)) = <<>> /\ m.once
           /\ Stages(m) = IF m.flow = "Before" THEN <<"callback", "function">>
                          ELSE IF m.flow = "After" THEN <<"function", "callback">>
                          ELSE <<"callback">>
           /\ <<"callback", "function">> \o End(m)
                 = <<"callback">> \o (<<"function">> \o End(m))
           /\ <<"function", "callback">> \o End(m)
                 = <<"function">> \o (<<"callback">> \o End(m))
           /\ \A x \in {"callback", "function"}, e \in Seq(Stage) :
                 /\ <<x>> \o e \in Seq(Stage) /\ <<x>> \o e # <<>>
                 /\ Head(<<x>> \o e) = x /\ Tail(<<x>> \o e) = e
<1>1. End(m) \in Seq(Stage) /\ <<>> \in Seq(Stage)
  <2>1. <<"detach">> \in Seq(Stage) /\ <<>> \in Seq(Stage)
    BY DEF Stage
  <2> QED
    BY <2>1 DEF End
<1>2. End(m) # <<>> => Head(End(m)) = "detach" /\ Tail(End(m)) = <<>> /\ m.once
  BY Alone DEF End
<1>3. Stages(m) = IF m.flow = "Before" THEN <<"callback", "function">>
                  ELSE IF m.flow = "After" THEN <<"function", "callback">>
                  ELSE <<"callback">>
  BY Ways DEF Stages, Flow
<1>4. /\ <<"callback", "function">> \o End(m)
            = <<"callback">> \o (<<"function">> \o End(m))
      /\ <<"function", "callback">> \o End(m)
            = <<"function">> \o (<<"callback">> \o End(m))
  BY <1>1, TwoStages DEF Stage
<1>5. \A x \in {"callback", "function"}, e \in Seq(Stage) :
         /\ <<x>> \o e \in Seq(Stage) /\ <<x>> \o e # <<>>
         /\ Head(<<x>> \o e) = x /\ Tail(<<x>> \o e) = e
  BY FirstStage DEF Stage
<1> QED
  BY <1>1, <1>2, <1>3, <1>4, <1>5

(* A call that is at its callback, at the function, or at the detachment.  *)
LEMMA AtCallback ==
    ASSUME NEW m \in Manner, NEW c \in CallKind, OnItsWay(m, c),
           c.rest # <<>>, Head(c.rest) = "callback"
    PROVE  \/ /\ m.flow = "Before" /\ c.value = "none"
              /\ Tail(c.rest) = <<"function">> \o End(m)
           \/ /\ m.flow \in {"Original", "Wrap"} /\ c.value = "none"
              /\ Tail(c.rest) = End(m)
           \/ /\ m.flow = "After" /\ (m.returns => c.value = "function")
              /\ Tail(c.rest) = End(m)
<1> DEFINE fn == <<"function">> \o End(m)
           cb == <<"callback">> \o End(m)
<1>1. /\ fn \in Seq(Stage) /\ Head(fn) = "function"
      /\ cb \in Seq(Stage) /\ Tail(cb) = End(m) /\ Head(cb) = "callback"
      /\ Tail(<<"callback">> \o fn) = fn
      /\ Head(<<"function">> \o cb) = "function"
  <2>1. fn \in Seq(Stage) /\ cb \in Seq(Stage)
    BY Stops
  <2> QED
    BY <2>1, Stops
<1>2. c.rest \notin {End(m), <<>>} /\ c.rest # fn
  BY <1>1, Stops
<1>3. CASE c.rest = Stages(m) \o End(m) /\ c.value = "none"
  <2>1. m.flow # "After"
    BY <1>1, <1>3, Stops
  <2>2. CASE m.flow = "Before"
    <3>1. Stages(m) = <<"callback", "function">>
      BY <2>2, Stops
    <3>2. c.rest = <<"callback">> \o fn
      BY <1>3, <3>1, Stops
    <3> QED
      BY <1>1, <1>3, <2>2, <3>2
  <2>3. CASE m.flow \in {"Original", "Wrap"}
    <3>1. c.rest = cb
      BY <1>3, <2>3, Stops
    <3> QED
      BY <1>1, <1>3, <2>3, <3>1
  <2> QED
    BY <2>1, <2>2, <2>3, Ways DEF Flow
<1>4. CASE m.flow = "After" /\ c.rest = cb /\ (m.returns => c.value = "function")
  BY <1>1, <1>4
<1> QED
  BY <1>2, <1>3, <1>4 DEF OnItsWay

LEMMA AtFunction ==
    ASSUME NEW m \in Manner, NEW c \in CallKind, OnItsWay(m, c),
           c.rest # <<>>, Head(c.rest) = "function"
    PROVE  \/ /\ m.flow = "Before" /\ (m.returns => c.value = "none")
              /\ Tail(c.rest) = End(m)
           \/ /\ m.flow \in {"Original", "Wrap"} /\ (m.returns => c.value = "callback")
              /\ Tail(c.rest) = End(m)
           \/ /\ m.flow = "After" /\ c.value = "none"
              /\ Tail(c.rest) = <<"callback">> \o End(m)
<1> DEFINE fn == <<"function">> \o End(m)
           cb == <<"callback">> \o End(m)
<1>1. /\ cb \in Seq(Stage) /\ Head(cb) = "callback"
      /\ fn \in Seq(Stage) /\ Tail(fn) = End(m) /\ Head(fn) = "function"
      /\ Tail(<<"function">> \o cb) = cb
      /\ Head(<<"callback">> \o fn) = "callback"
  <2>1. fn \in Seq(Stage) /\ cb \in Seq(Stage)
    BY Stops
  <2> QED
    BY <2>1, Stops
<1>2. c.rest \notin {End(m), <<>>} /\ c.rest # cb
  BY <1>1, Stops
<1>3. CASE c.rest = Stages(m) \o End(m) /\ c.value = "none"
  <2>1. m.flow = "After"
    BY <1>1, <1>3, Stops
  <2>2. c.rest = <<"function">> \o cb
    <3>1. Stages(m) = <<"function", "callback">>
      BY <2>1, Stops
    <3> QED
      BY <1>3, <3>1, Stops
  <2> QED
    BY <1>1, <1>3, <2>1, <2>2
<1>4. CASE /\ m.flow # "After" /\ c.rest = fn
           /\ m.returns => c.value = IF m.flow = "Before" THEN "none" ELSE "callback"
  BY <1>1, <1>4, Ways DEF Flow
<1> QED
  BY <1>2, <1>3, <1>4 DEF OnItsWay

LEMMA AtDetach ==
    ASSUME NEW m \in Manner, NEW c \in CallKind, OnItsWay(m, c),
           c.rest # <<>>, Head(c.rest) = "detach"
    PROVE  /\ m.once /\ Tail(c.rest) = <<>>
           /\ m.returns => c.value = Final(m)
<1> DEFINE fn == <<"function">> \o End(m)
           cb == <<"callback">> \o End(m)
<1>1. /\ fn \in Seq(Stage) /\ Head(fn) = "function"
      /\ cb \in Seq(Stage) /\ Head(cb) = "callback"
      /\ Head(<<"function">> \o cb) = "function"
      /\ Head(<<"callback">> \o fn) = "callback"
  <2>1. fn \in Seq(Stage) /\ cb \in Seq(Stage)
    BY Stops
  <2> QED
    BY <2>1, Stops
<1>2. Stages(m) \o End(m) \in {<<"function">> \o cb, <<"callback">> \o fn, cb}
  BY Stops
<1>3. c.rest # Stages(m) \o End(m) /\ c.rest # fn /\ c.rest # cb
  <2> HIDE DEF fn, cb
  <2> QED
    BY <1>1, <1>2
<1>4. c.rest = End(m) /\ (m.returns => c.value = Final(m))
  BY <1>3 DEF OnItsWay
<1> QED
  BY <1>4, Stops

LEMMA EnterKeeps ==
    ASSUME HooksInv, NEW g \in GameThread, NEW t \in Target, Enter(g, t)
    PROVE  HooksInv'
<1> DEFINE m == How(t)
           c == [target |-> t, value |-> "none", rest |-> Stages(m) \o End(m)]
<1>1. m \in Manner
  BY HowKinds DEF HooksInv
<1>2. Stages(m) \o End(m) \in Seq(Stage)
  <2>1. /\ <<"function">> \o End(m) \in Seq(Stage)
        /\ <<"callback">> \o End(m) \in Seq(Stage)
    BY <1>1, Stops
  <2>2. \/ Stages(m) \o End(m) = <<"callback">> \o (<<"function">> \o End(m))
        \/ Stages(m) \o End(m) = <<"function">> \o (<<"callback">> \o End(m))
        \/ Stages(m) \o End(m) = <<"callback">> \o End(m)
    BY <1>1, Stops
  <2> QED
    BY <1>1, <2>1, <2>2, Stops
<1>3. c \in CallKind /\ OnItsWay(How(c.target), c)
  BY <1>2 DEF CallKind, OnItsWay
<1>4. attached[c.target]
  BY DEF Enter, HooksInv, Attachments
<1>5. inside' = [inside EXCEPT ![g] = c]
  BY DEF Enter, End
<1>6. app' = app /\ UNCHANGED <<manner, registered, pending, step, hookVars>>
  BY DEF Enter
<1> HIDE DEF c, m
<1> QED
  BY <1>3, <1>4, <1>5, <1>6, MoveKeeps

(* What is known of a thread that is in a hook.                            *)
LEMMA Inside ==
    ASSUME HooksInv, NEW g \in GameThread, inside[g] # Idle
    PROVE  /\ inside[g] \in CallKind /\ inside[g].target \in Target
           /\ inside[g].rest \in Seq(Stage)
           /\ How(inside[g].target) \in Manner
           /\ OnItsWay(How(inside[g].target), inside[g])
           /\ How(inside[g].target).once \/ attached[inside[g].target]
           /\ inside' = inside => inside' = [inside EXCEPT ![g] = inside[g]]
<1>1. inside[g] \in CallKind /\ inside[g].target \in Target
      /\ inside[g].rest \in Seq(Stage)
  BY DEF HooksInv, HookKinds, CallKind
<1>2. How(inside[g].target) \in Manner
  BY <1>1, HowKinds DEF HooksInv
<1>3. inside' = inside => inside' = [inside EXCEPT ![g] = inside[g]]
  BY DEF HooksInv, HookKinds
<1> QED
  BY <1>1, <1>2, <1>3 DEF HooksInv, Calls

LEMMA AnswerKeeps ==
    ASSUME HooksInv, NEW g \in GameThread, Answer(g)
    PROVE  HooksInv'
BY MoveKeeps DEF Answer

LEMMA OriginalKeeps ==
    ASSUME HooksInv, NEW g \in GameThread, RunOriginal(g)
    PROVE  HooksInv'
<1> DEFINE old == inside[g]
           m == How(old.target)
           c == [old EXCEPT !.rest = Tail(@),
                            !.value = IF m.returns /\ @ = "none" THEN "function" ELSE @]
<1>1. /\ old # Idle /\ old.rest # <<>> /\ Head(old.rest) = "function"
      /\ UNCHANGED <<manner, registered, pending, step, hookVars>>
  BY DEF RunOriginal, At
<1>2. /\ old \in CallKind /\ m \in Manner /\ OnItsWay(m, old)
      /\ m.once \/ attached[old.target]
      /\ old.rest \in Seq(Stage)
      /\ inside' = inside => inside' = [inside EXCEPT ![g] = old]
  BY <1>1, Inside
<1>3. \/ inside' = inside /\ app' = "terminated"
      \/ inside' = [inside EXCEPT ![g] = c] /\ app' = app
  BY <1>2 DEF RunOriginal, HooksInv, HookKinds
<1>4. CASE inside' = inside /\ app' = "terminated"
  BY <1>1, <1>2, <1>4, MoveKeeps
<1>5. CASE inside' = [inside EXCEPT ![g] = c] /\ app' = app
  <2>1. /\ c \in CallKind /\ c.target = old.target /\ c.rest = Tail(old.rest)
        /\ c.value = IF m.returns /\ old.value = "none" THEN "function" ELSE old.value
    BY <1>1, <1>2, HeadTailProperties DEF CallKind
  <2> HIDE DEF c, old, m
  <2>2. \/ /\ m.flow = "Before" /\ (m.returns => old.value = "none")
           /\ c.rest = End(m)
        \/ /\ m.flow \in {"Original", "Wrap"} /\ (m.returns => old.value = "callback")
           /\ c.rest = End(m)
        \/ /\ m.flow = "After" /\ old.value = "none"
           /\ c.rest = <<"callback">> \o End(m)
    BY <1>1, <1>2, <2>1, AtFunction
  <2>3. /\ m.flow = "Before" => m.kind \in {"args", "blind"}
        /\ m.flow \in {"Original", "Wrap"} => m.kind \in {"original", "full"}
    BY <1>2, Ways
  <2>7. OnItsWay(m, c)
    <3>1. CASE /\ m.flow = "Before" /\ (m.returns => old.value = "none")
               /\ c.rest = End(m)
      BY <2>1, <2>3, <3>1 DEF OnItsWay, Final
    <3>2. CASE /\ m.flow \in {"Original", "Wrap"}
               /\ m.returns => old.value = "callback"
               /\ c.rest = End(m)
      BY <2>1, <2>3, <3>2 DEF OnItsWay, Final
    <3>3. CASE /\ m.flow = "After" /\ old.value = "none"
               /\ c.rest = <<"callback">> \o End(m)
      BY <2>1, <3>3 DEF OnItsWay
    <3> QED
      BY <2>2, <3>1, <3>2, <3>3
  <2>8. How(c.target) = m /\ (m.once \/ attached[c.target])
    BY <1>2, <2>1 DEF m, old
  <2> QED
    BY <1>1, <1>5, <2>1, <2>7, <2>8, MoveKeeps
<1> QED
  BY <1>3, <1>4, <1>5

LEMMA CallbackKeeps ==
    ASSUME HooksInv, NEW g \in GameThread, RunCallback(g)
    PROVE  HooksInv'
<1> DEFINE old == inside[g]
           m == How(old.target)
           after == [old EXCEPT !.rest = Tail(@), !.value = ValueAfter(m, @)]
           again == [after EXCEPT !.rest = <<"function">> \o @]
<1>1. /\ old # Idle /\ old.rest # <<>> /\ Head(old.rest) = "callback"
      /\ UNCHANGED <<manner, registered, pending, step, hookVars>>
  BY DEF RunCallback, At
<1>2. /\ old \in CallKind /\ m \in Manner /\ OnItsWay(m, old)
      /\ m.once \/ attached[old.target]
      /\ old.rest \in Seq(Stage)
      /\ inside' = inside => inside' = [inside EXCEPT ![g] = old]
  BY <1>1, Inside
<1>3. \/ inside' = inside /\ app' = "terminated"
      \/ inside' = [inside EXCEPT ![g] = after] /\ app' = app
      \/ /\ m.flow \in {"Original", "Wrap"}
         /\ inside' = [inside EXCEPT ![g] = again] /\ app' = app
  BY DEF RunCallback
<1>4. /\ old.value \in {"none", "function", "callback"}
      /\ ValueAfter(m, old.value) \in {"none", "function", "callback"}
      /\ Tail(old.rest) \in Seq(Stage)
  BY <1>1, <1>2, HeadTailProperties DEF CallKind, ValueAfter
<1>5. /\ after \in CallKind /\ after.target = old.target
      /\ after.rest = Tail(old.rest) /\ after.value = ValueAfter(m, old.value)
  BY <1>2, <1>4 DEF CallKind
<1>6. /\ again \in CallKind /\ again.target = old.target
      /\ again.rest = <<"function">> \o after.rest /\ again.value = after.value
  <2>1. <<"function">> \o after.rest \in Seq(Stage)
    BY <1>4, <1>5, FirstStage DEF Stage
  <2> HIDE DEF after
  <2> QED
    BY <1>5, <2>1 DEF CallKind
<1> HIDE DEF old, m, after, again
<1>7. \/ /\ m.flow = "Before" /\ old.value = "none"
         /\ after.rest = <<"function">> \o End(m)
      \/ /\ m.flow \in {"Original", "Wrap"} /\ old.value = "none"
         /\ after.rest = End(m)
      \/ /\ m.flow = "After" /\ (m.returns => old.value = "function")
         /\ after.rest = End(m)
  BY <1>1, <1>2, <1>5, AtCallback
<1>8. /\ m.flow = "Before" => m.kind \in {"args", "blind"}
      /\ m.flow \in {"Original", "Wrap"} => m.kind \in {"original", "full"}
      /\ m.flow = "After" => m.kind \in {"args", "blind", "tail", "result",
                                         "tailWrapper", "resultWrapper"}
  BY <1>2, Ways
<1>9. OnItsWay(m, after)
  <2>1. CASE /\ m.flow = "Before" /\ old.value = "none"
             /\ after.rest = <<"function">> \o End(m)
    BY <1>5, <1>8, <2>1 DEF OnItsWay, ValueAfter
  <2>2. CASE /\ m.flow \in {"Original", "Wrap"} /\ old.value = "none"
             /\ after.rest = End(m)
    BY <1>5, <1>8, <2>2 DEF OnItsWay, ValueAfter, Final
  <2>3. CASE /\ m.flow = "After" /\ (m.returns => old.value = "function")
             /\ after.rest = End(m)
    BY <1>5, <1>8, <2>3 DEF OnItsWay, ValueAfter, Final
  <2> QED
    BY <1>7, <2>1, <2>2, <2>3
<1>10. m.flow \in {"Original", "Wrap"} => OnItsWay(m, again)
  BY <1>5, <1>6, <1>7, <1>8 DEF OnItsWay, ValueAfter
<1>11. /\ How(old.target) = m /\ How(after.target) = m /\ How(again.target) = m
       /\ m.once \/ attached[after.target]
       /\ m.once \/ attached[again.target]
  BY <1>2, <1>5, <1>6 DEF m
<1>12. CASE inside' = inside /\ app' = "terminated"
  BY <1>1, <1>2, <1>11, <1>12, MoveKeeps
<1>13. CASE inside' = [inside EXCEPT ![g] = after] /\ app' = app
  BY <1>1, <1>5, <1>9, <1>11, <1>13, MoveKeeps
<1>14. CASE /\ m.flow \in {"Original", "Wrap"}
            /\ inside' = [inside EXCEPT ![g] = again] /\ app' = app
  BY <1>1, <1>6, <1>10, <1>11, <1>14, MoveKeeps
<1> QED
  BY <1>3, <1>12, <1>13, <1>14

(* The call that was the only one wanted detaches its hook.                *)
LEMMA DetachKeeps ==
    ASSUME HooksInv, NEW g \in GameThread, DetachHook(g)
    PROVE  HooksInv'
<1> DEFINE old == inside[g]
           t == old.target
           m == How(t)
           c == [old EXCEPT !.rest = Tail(@)]
<1>1. /\ old # Idle /\ old.rest # <<>> /\ Head(old.rest) = "detach"
      /\ inside' = [inside EXCEPT ![g] = c]
      /\ UNCHANGED <<manner, app, registered, pending, step, original>>
      /\ \/ UNCHANGED <<attached, patched, callback>>
         \/ /\ patched' = [patched EXCEPT ![t] = FALSE]
            /\ UNCHANGED <<attached, callback>>
         \/ /\ patched' = [patched EXCEPT ![t] = FALSE]
            /\ attached' = [attached EXCEPT ![t] = FALSE]
            /\ callback' = [callback EXCEPT ![t] = FALSE]
  BY DEF DetachHook, At
<1>2. /\ old \in CallKind /\ t \in Target /\ m \in Manner /\ OnItsWay(m, old)
      /\ old.rest \in Seq(Stage)
  BY <1>1, Inside
<1>3. m.once /\ Tail(old.rest) = <<>> /\ (m.returns => old.value = Final(m))
  BY <1>1, <1>2, AtDetach
<1>4. /\ c \in CallKind /\ c.target = t /\ c.rest = <<>> /\ c.value = old.value
  BY <1>2, <1>3, Stops DEF CallKind
<1>5. t # "Present"
  BY <1>2, <1>3, HowKinds DEF HooksInv
<1> HIDE DEF old, m, c, t
<1>6. OnItsWay(m, c)
  BY <1>3, <1>4 DEF OnItsWay
<1>7. /\ \A u \in Target \ {t} : /\ patched'[u] = patched[u]
                                 /\ attached'[u] = attached[u]
                                 /\ callback'[u] = callback[u]
      /\ patched'[t] => patched[t] /\ attached'[t] /\ callback'[t] = callback[t]
      /\ attached'[t] => attached[t] /\ callback'[t] = callback[t]
      /\ attached' \in [Target -> BOOLEAN] /\ patched' \in [Target -> BOOLEAN]
      /\ callback' \in [Target -> BOOLEAN]
  <2>1. patched[t] => attached[t]
    BY <1>2 DEF HooksInv, Attachments
  <2> QED
    BY <1>1, <1>2, <2>1 DEF HooksInv, HookKinds
<1>8. HookKinds'
  BY <1>1, <1>4, <1>7 DEF HooksInv, HookKinds, CallKind
<1>9. Attachments'
  BY <1>1, <1>2, <1>7 DEF HooksInv, Attachments, Current
<1>10. Rendered'
  BY <1>1, <1>5, <1>7 DEF HooksInv, Rendered, Target
<1>11. \A h \in GameThread : inside'[h] = IF h = g THEN c ELSE inside[h]
  BY <1>1 DEF HooksInv, HookKinds
<1>12. m = How(c.target)
  BY <1>4 DEF m, t
<1>13. ASSUME NEW h \in GameThread, inside'[h] # Idle
       PROVE  /\ OnItsWay(How(inside'[h].target), inside'[h])
              /\ How(inside'[h].target).once \/ attached'[inside'[h].target]
  <2>1. CASE h = g
    BY <1>3, <1>6, <1>11, <1>12, <2>1
  <2>2. CASE h # g
    <3>1. inside'[h] = inside[h] /\ inside[h] # Idle
      BY <1>11, <1>13, <2>2
    <3>2. /\ inside[h].target \in Target
          /\ OnItsWay(How(inside[h].target), inside[h])
          /\ How(inside[h].target).once \/ attached[inside[h].target]
      BY <3>1, Inside
    <3>3. inside[h].target = t => How(inside[h].target).once
      BY <1>3 DEF m
    <3> QED
      BY <1>7, <3>1, <3>2, <3>3
  <2> QED
    BY <2>1, <2>2
<1>14. Calls'
  BY <1>1, <1>13 DEF Calls, How
<1> QED
  BY <1>8, <1>9, <1>10, <1>14 DEF HooksInv

LEMMA HooksStep == HooksInv /\ [HooksNext]_hooksVars => HooksInv'
<1> SUFFICES ASSUME HooksInv, [HooksNext]_hooksVars
             PROVE  HooksInv'
  OBVIOUS
<1>1. CASE \/ Register \/ Bootstrap \/ MakeSystems
           \/ RunUpdate \/ RunTask \/ Drained \/ Unload
  BY <1>1, FeaturesKeep
<1>2. CASE AttachAgain \/ CreateHook \/ EnableHook \/ SetCallback \/ SetOriginal
  BY <1>2, AttachKeeps
<1>3. ASSUME NEW g \in GameThread, NEW t \in Target, Enter(g, t)
      PROVE  HooksInv'
  BY <1>3, EnterKeeps
<1>4. ASSUME NEW g \in GameThread,
             RunCallback(g) \/ RunOriginal(g) \/ DetachHook(g) \/ Answer(g)
      PROVE  HooksInv'
  BY <1>4, CallbackKeeps, OriginalKeeps, DetachKeeps, AnswerKeeps
<1>5. CASE UNCHANGED hooksVars
  BY <1>5 DEF hooksVars, hookVars, HooksInv, HookKinds, Attachments, Current, Calls,
              How, Rendered
<1> QED
  BY <1>1, <1>2, <1>3, <1>4, <1>5 DEF HooksNext

(* Whatever fails and however often it is tried, in whatever manner a      *)
(* function is hooked and whichever threads are in it: a function of the   *)
(* game that is changed has its callback and its original, who calls it    *)
(* gets the value of its manner, and the client does not start without     *)
(* the renderer's hook.  (HookingAgent, MinHookProvider, Application.)     *)
THEOREM HooksStayWhole == HooksSpec => []HooksAreWhole
<1>1. HooksInit => HooksInv
  <2> SUFFICES ASSUME HooksInit PROVE HooksInv
    OBVIOUS
  <2>1. HookKinds
    BY DEF HooksInit, HookKinds, Order
  <2>2. Attachments /\ Calls /\ Rendered
    BY DEF HooksInit, Attachments, Calls, Rendered
  <2> QED
    BY <2>1, <2>2 DEF HooksInv
<1>2. HooksInv => HooksAreWhole
  <2> SUFFICES ASSUME HooksInv PROVE HooksAreWhole
    OBVIOUS
  <2>1. \A t \in Target :
          patched[t] /\ (pending = <<>> \/ Head(pending) # t \/ step = "create") =>
              attached[t] /\ callback[t] /\ original[t]
    BY Alone DEF HooksInv, HookKinds, Attachments, Current
  <2>2. ASSUME NEW g \in GameThread, inside[g] # Idle
        PROVE  LET m == How(inside[g].target)
               IN  /\ m.once \/ attached[inside[g].target]
                   /\ m.returns /\ inside[g].rest = <<>> =>
                        inside[g].value = Final(m)
    <3> DEFINE m == How(inside[g].target)
    <3>1. m \in Manner /\ OnItsWay(m, inside[g])
      BY <2>2, Inside
    <3>2. inside[g].rest = <<>> =>
            /\ inside[g].rest # <<"function">> \o End(m)
            /\ inside[g].rest # <<"callback">> \o End(m)
            /\ inside[g].rest # Stages(m) \o End(m)
      <4>1. /\ <<"function">> \o End(m) \in Seq(Stage)
            /\ <<"callback">> \o End(m) \in Seq(Stage)
        BY <3>1, Stops
      <4>2. /\ <<"function">> \o End(m) # <<>> /\ <<"callback">> \o End(m) # <<>>
            /\ <<"callback">> \o (<<"function">> \o End(m)) # <<>>
            /\ <<"function">> \o (<<"callback">> \o End(m)) # <<>>
        BY <3>1, <4>1, Stops
      <4>3. Stages(m) \o End(m) \in {<<"callback">> \o (<<"function">> \o End(m)),
                                     <<"function">> \o (<<"callback">> \o End(m)),
                                     <<"callback">> \o End(m)}
        BY <3>1, Stops
      <4> QED
        BY <4>2, <4>3
    <3>3. m.returns /\ inside[g].rest = <<>> => inside[g].value = Final(m)
      BY <3>1, <3>2 DEF OnItsWay
    <3> QED
      BY <2>2, <3>3, Inside
  <2>3. app = "booted" => patched["Present"]
    BY DEF HooksInv, Rendered
  <2> QED
    BY <2>1, <2>2, <2>3 DEF HooksAreWhole, Final
<1> QED
  BY <1>1, <1>2, HooksStep, PTL DEF HooksSpec

-----------------------------------------------------------------------------
NoRepeat(s) == \A i, j \in DOMAIN s : s[i] = s[j] => i = j

(* What is in a sequence, without its first element or with one more.      *)
LEMMA TakeFirst ==
    ASSUME NEW S, NEW s \in Seq(S), s # <<>>
    PROVE  /\ Head(s) \in S
           /\ Tail(s) \in Seq(S)
           /\ Range(s) = {Head(s)} \cup Range(Tail(s))
           /\ NoRepeat(s) => NoRepeat(Tail(s)) /\ Head(s) \notin Range(Tail(s))
<1>1. /\ Len(s) \in Nat \ {0} /\ DOMAIN s = 1 .. Len(s)
      /\ Tail(s) \in Seq(S) /\ Len(Tail(s)) = Len(s) - 1 /\ Head(s) = s[1]
      /\ DOMAIN Tail(s) = 1 .. Len(s) - 1
      /\ Head(s) \in S
  OBVIOUS
<1>2. \A i \in 1 .. Len(s) - 1 : Tail(s)[i] = s[i + 1]
  OBVIOUS
<1>3. Range(s) = {Head(s)} \cup Range(Tail(s))
  <2>1. \A i \in 1 .. Len(s) : i = 1 \/ (i - 1 \in 1 .. Len(s) - 1 /\ (i - 1) + 1 = i)
    BY <1>1
  <2>2. \A i \in 1 .. Len(s) - 1 : i + 1 \in 1 .. Len(s)
    BY <1>1
  <2>3. ASSUME NEW i \in 1 .. Len(s)
        PROVE  s[i] \in {Head(s)} \cup Range(Tail(s))
    <3>1. CASE i = 1
      BY <1>1, <3>1
    <3>2. CASE i # 1
      <4>1. i - 1 \in DOMAIN Tail(s) /\ Tail(s)[i - 1] = s[i]
        BY <1>1, <1>2, <2>1, <3>2
      <4> QED
        BY <4>1 DEF Range
    <3> QED
      BY <3>1, <3>2
  <2>4. {Head(s)} \cup Range(Tail(s)) \subseteq Range(s)
    BY <1>1, <1>2, <2>2 DEF Range
  <2> QED
    BY <1>1, <2>3, <2>4 DEF Range
<1>4. ASSUME NoRepeat(s)
      PROVE  NoRepeat(Tail(s)) /\ Head(s) \notin Range(Tail(s))
  BY <1>1, <1>2, <1>4 DEF NoRepeat, Range
<1> QED
  BY <1>1, <1>3, <1>4

(* What is in a sequence with one more at its end.                         *)
LEMMA AddLast ==
    ASSUME NEW S, NEW s \in Seq(S), NEW e \in S
    PROVE  /\ Append(s, e) \in Seq(S)
           /\ Range(Append(s, e)) = Range(s) \cup {e}
<1>1. /\ Len(s) \in Nat /\ DOMAIN s = 1 .. Len(s)
      /\ Append(s, e) \in Seq(S) /\ Len(Append(s, e)) = Len(s) + 1
      /\ DOMAIN Append(s, e) = 1 .. Len(s) + 1
      /\ Append(s, e)[Len(s) + 1] = e
      /\ \A i \in 1 .. Len(s) : Append(s, e)[i] = s[i]
  OBVIOUS
<1>2. \A i : i \in 1 .. Len(s) + 1 <=> (i \in 1 .. Len(s) \/ i = Len(s) + 1)
  BY <1>1
<1> QED
  BY <1>1, <1>2 DEF Range

LEMMA NothingIn == Range(<<>>) = {}
BY DEF Range

(* Every definition is in the order of the linker.                         *)
LEMMA AllLinked ==
    ASSUME NEW o \in LinkOrder
    PROVE  /\ o \in Seq(Definition)
           /\ Len(o) = Cardinality(Definition)
           /\ NoRepeat(o)
           /\ Range(o) = Definition
<1> DEFINE n == Cardinality(Definition)
<1>1. IsFiniteSet(Definition) /\ n \in Nat
  BY TypesAssumption, FS_Union, FS_CardinalityType DEF Definition
<1>2. o \in [1 .. n -> Definition] /\ NoRepeat(o)
  BY DEF LinkOrder, NoRepeat
<1>3. o \in Injection(1 .. n, Definition)
  BY <1>2 DEF NoRepeat, Injection, IsInjective
<1>4. IsFiniteSet(1 .. n) /\ Cardinality(1 .. n) = n
  BY <1>1, FS_Interval
<1>5. o \in Surjection(1 .. n, Definition)
  BY <1>1, <1>3, <1>4, FS_Injection
<1>6. Range(o) = Definition
  BY <1>2, <1>5 DEF Surjection, Range
<1> QED
  BY <1>1, <1>2, <1>6, SeqDef, LenProperties

(* Each own class registers itself, and each definition describes itself.  *)
LEMMA AllRegister ==
    ASSUME NEW o \in LinkOrder
    PROVE  /\ Registrars(o) \in Seq(Callback)
           /\ Range(Registrars(o)) = {<<"register", c>> : c \in NativeClass}
<1> DEFINE n == Len(o)
           T == Seq(Callback)
           Added(i, s) == IF o[i] \in NativeClass THEN Append(s, <<"register", o[i]>>) ELSE s
           G == [x \in (1 .. n) \X T |-> Added(x[1], x[2])]
           Adds(f) == f = [i \in 0 .. n |-> IF i = 0 THEN <<>> ELSE Added(i, f[i - 1])]
           added == CHOOSE f : Adds(f)
           OfFirst(k) == {<<"register", o[j]>> : j \in {l \in 1 .. k : o[l] \in NativeClass}}
<1>1. /\ o \in Seq(Definition) /\ Range(o) = Definition /\ n \in Nat
      /\ DOMAIN o = 1 .. n /\ \A i \in 1 .. n : o[i] \in Definition
  BY AllLinked, LenProperties, ElementOfSeq
<1>2. ASSUME NEW i \in 1 .. n, NEW s \in T
      PROVE  Added(i, s) \in T
  <2>1. o[i] \in NativeClass => <<"register", o[i]>> \in Callback
    BY DEF Callback
  <2> QED
    BY <2>1, AddLast
<1>3. G \in [(1 .. n) \X T -> T] /\ <<>> \in T
  BY <1>2
<1>4. PICK f : Iterates(f, n, T, <<>>, G)
  <2> HIDE DEF G, T, n
  <2> QED
    BY <1>1, <1>3, Recursion DEF StepOver
<1>5. \A i \in 1 .. n : f[i] = Added(i, f[i - 1])
  <2> TAKE i \in 1 .. n
  <2>0. i - 1 \in 0 .. n
    BY <1>1
  <2>1. <<i, f[i - 1]>> \in (1 .. n) \X T
    <3> HIDE DEF n, T, G
    <3> QED
      BY <1>4, <2>0 DEF Iterates
  <2>2. f[i] = G[<<i, f[i - 1]>>]
    BY <1>4 DEF Iterates
  <2> QED
    BY <2>1, <2>2
<1>6. Adds(f)
  <2>1. \A i \in 0 .. n : i # 0 => i \in 1 .. n
    BY <1>1
  <2> QED
    BY <1>4, <1>5, <2>1 DEF Iterates
<1>7. Adds(added)
  BY <1>6
<1>8. added[0] = <<>> /\ \A i \in 1 .. n : added[i] = Added(i, added[i - 1])
  <2>1. 0 \in 0 .. n /\ \A i \in 1 .. n : i \in 0 .. n /\ i # 0
    BY <1>1
  <2> HIDE DEF added, Added
  <2> QED
    BY <1>7, <2>1
<1> DEFINE Good == {k \in Nat : k <= n => added[k] \in T /\ Range(added[k]) = OfFirst(k)}
<1> HIDE DEF added
<1>9. 0 \in Good
  <2>1. added[0] \in T /\ Range(added[0]) = {}
    BY <1>3, <1>8, NothingIn
  <2>2. OfFirst(0) = {}
    OBVIOUS
  <2> QED
    BY <2>1, <2>2
<1>10. ASSUME NEW k \in Nat, k \in Good PROVE k + 1 \in Good
  <2> HIDE DEF OfFirst, T, n, Added
  <2> SUFFICES ASSUME k + 1 <= n
               PROVE  added[k + 1] \in T /\ Range(added[k + 1]) = OfFirst(k + 1)
    OBVIOUS
  <2>1. added[k] \in T /\ Range(added[k]) = OfFirst(k) /\ k + 1 \in 1 .. n
    <3>1. k <= n /\ k + 1 \in 1 .. n
      BY <1>1
    <3> QED
      BY <1>10, <3>1
  <2>2. added[k + 1] = Added(k + 1, added[k])
    <3>1. (k + 1) - 1 = k
      OBVIOUS
    <3> QED
      BY <1>8, <2>1, <3>1
  <2>3. \A l : l \in 1 .. k + 1 <=> (l \in 1 .. k \/ l = k + 1)
    OBVIOUS
  <2>4. CASE o[k + 1] \in NativeClass
    <3>1. <<"register", o[k + 1]>> \in Callback
      BY <2>4 DEF Callback
    <3>2. added[k + 1] = Append(added[k], <<"register", o[k + 1]>>)
      BY <2>2, <2>4 DEF Added
    <3>3. /\ added[k + 1] \in T
          /\ Range(added[k + 1]) = Range(added[k]) \cup {<<"register", o[k + 1]>>}
      <4> DEFINE e == <<"register", o[k + 1]>>
                 s == added[k]
      <4>1. s \in Seq(Callback) /\ e \in Callback
        BY <2>1, <3>1 DEF T
      <4>2. Append(s, e) \in Seq(Callback) /\ Range(Append(s, e)) = Range(s) \cup {e}
        <5> HIDE DEF e, s
        <5> QED
          BY <4>1, AddLast
      <4> QED
        BY <3>2, <4>2 DEF T
    <3>4. OfFirst(k + 1) = OfFirst(k) \cup {<<"register", o[k + 1]>>}
      BY <2>3, <2>4 DEF OfFirst
    <3> QED
      BY <2>1, <3>3, <3>4
  <2>5. CASE o[k + 1] \notin NativeClass
    <3>1. added[k + 1] = added[k] /\ OfFirst(k + 1) = OfFirst(k)
      BY <2>2, <2>3, <2>5 DEF Added, OfFirst
    <3> QED
      BY <2>1, <3>1
  <2> QED
    BY <2>4, <2>5
<1>11. n \in Good
  <2> HIDE DEF Good
  <2> QED
    BY <1>1, <1>9, <1>10, SetInduction
<1>12. added[n] \in T /\ Range(added[n]) = OfFirst(n)
  <2> HIDE DEF OfFirst, T
  <2>1. n \in Nat /\ n <= n
    BY <1>1
  <2> HIDE DEF n
  <2> QED
    BY <1>11, <2>1
<1>13. OfFirst(n) = {<<"register", c>> : c \in NativeClass}
  BY <1>1 DEF Definition, Range
<1>14. Registrars(o) = added[n]
  BY DEF Registrars, added
<1> QED
  BY <1>12, <1>13, <1>14

Describer(d) == <<IF d \in NativeClass THEN "describe" ELSE "expand", d>>

(* Each definition describes itself, once.                                 *)
LEMMA AllDescribe ==
    ASSUME NEW o \in LinkOrder
    PROVE  /\ Describers(o) \in Seq(Callback)
           /\ Range(Describers(o)) = {Describer(d) : d \in Definition}
           /\ NoRepeat(Describers(o))
<1>1. /\ o \in Seq(Definition) /\ Range(o) = Definition /\ NoRepeat(o) /\ Len(o) \in Nat
      /\ DOMAIN o = 1 .. Len(o) /\ \A i \in 1 .. Len(o) : o[i] \in Definition
  BY AllLinked, LenProperties, ElementOfSeq
<1>2. Describers(o) = [i \in 1 .. Len(o) |-> Describer(o[i])]
  BY <1>1 DEF Describers, Describer
<1>3. \A d \in Definition : Describer(d) \in Callback
  BY DEF Describer, Callback, Definition
<1>4. Describers(o) \in Seq(Callback)
  BY <1>1, <1>2, <1>3, SeqDef
<1>5. \A c, d : Describer(c) = Describer(d) => c = d
  BY DEF Describer
<1>6. NoRepeat(Describers(o))
  <2> HIDE DEF Describer
  <2> QED
    BY <1>1, <1>2, <1>5 DEF NoRepeat
<1>7. Range(Describers(o)) = {Describer(d) : d \in Definition}
  BY <1>1, <1>2 DEF Range
<1> QED
  BY <1>4, <1>6, <1>7

(* The stages.  What is pending describes the definitions of S, and those  *)
(* of S have been described; a system of theirs waits for the framework.   *)
ParentOf(c)   == IF Base[c] # NoClass THEN Base[c] ELSE Default(c)
Pending(s, S) == s \in Seq(Callback) /\ Range(s) = {Describer(d) : d \in S} /\ NoRepeat(s)
Systems(s)    == s \in Seq(Callback) /\ Range(s) \subseteq {<<"system", c>> : c \in NativeClass}

Described(S) ==
    /\ \A c \in NativeClass :
           /\ parent[c] = IF c \in S THEN ParentOf(c) ELSE NoClass
           /\ getters[c] = IF c \in S /\ c \in GameSystem THEN 1 ELSE 0
    /\ expanded = S \cap Expansion
    /\ \A c \in GameSystem : instances[c] = 0 /\ c \in S =>
           <<"system", c>> \in Range(describes) \cup Range(batch)

Loading ==
    /\ running = "none" /\ batch = <<>> /\ rtti = {} /\ ~validated /\ Described({})
    /\ \/ registers = <<>> /\ describes = <<>> /\ queued = {}
       \/ /\ registers \in Seq(Callback)
          /\ Range(registers) = {<<"register", c>> : c \in NativeClass}
          /\ Pending(describes, Definition)
          /\ queued = {} \/ (queued = {"register", "describe"} /\ NativeClass # {})

Registering ==
    /\ running = "register" /\ registers = <<>> /\ queued = {"describe"} /\ ~validated
    /\ Pending(describes, Definition) /\ Described({})
    /\ batch \in Seq(Callback) /\ Range(batch) \subseteq {<<"register", c>> : c \in NativeClass}
    /\ rtti \subseteq NativeClass
    /\ \A c \in NativeClass \ rtti : <<"register", c>> \in Range(batch)

Registered ==
    /\ running = "none" /\ registers = <<>> /\ queued = {"describe"} /\ ~validated
    /\ Pending(describes, Definition) /\ Described({})
    /\ batch = <<>> /\ rtti = NativeClass

Describing(S) ==
    /\ running = "describe" /\ registers = <<>> /\ queued = {} /\ ~validated
    /\ Pending(batch, S) /\ Systems(describes) /\ Described(Definition \ S)
    /\ rtti = NativeClass

Whole ==
    /\ running \in {"none", "describe"} /\ registers = <<>> /\ queued \subseteq {"describe"}
    /\ Systems(batch) /\ Systems(describes) /\ Described(Definition)
    /\ running = "none" => batch = <<>>
    /\ describes # <<>> => running = "describe" \/ "describe" \in queued
    /\ rtti = NativeClass

(* The parts of the invariant that the stages do not tell apart.           *)
TypesFacts ==
    /\ parent \in [NativeClass -> EngineClass \cup {NoClass}]
    /\ located \in [AnyClass -> {"unasked", "found"}]
    /\ getters \in [NativeClass -> Nat]
    /\ instances \in [NativeClass -> {0, 1}]
    /\ framework \in BOOLEAN /\ validated \in BOOLEAN
    /\ framework => validated
    /\ nulls = {}
    /\ ArgumentsInPlace

Staged == \/ Loading
          \/ /\ NativeClass # {}
             /\ Registering \/ Registered \/ Whole \/ \E S \in SUBSET Definition : Describing(S)

TypesInv == TypesFacts /\ Staged

(* Nothing is registered before the library is loaded.                     *)
LEMMA TypesInvInit == TypesInit => TypesInv
<1> SUFFICES ASSUME TypesInit PROVE TypesInv
  OBVIOUS
<1> USE DEF TypesInit
<1>1. GameSystem \subseteq NativeClass /\ Expansion \cap {} = {}
  BY TypesAssumption
<1>2. Described({})
  BY <1>1 DEF Described
<1>3. Loading
  BY <1>2 DEF Loading
<1>4. ArgumentsInPlace
  BY DEF ArgumentsInPlace
<1> QED
  BY <1>3, <1>4 DEF TypesInv, Staged, TypesFacts

(* What has been described whole is so as the properties say.              *)
LEMMA TypesInvIsWhole == TypesInv => TypesAreWhole
<1> SUFFICES ASSUME TypesInv PROVE TypesAreWhole
  OBVIOUS
<1>1. validated => Whole /\ NativeClass # {}
  BY DEF TypesInv, Staged, TypesFacts, Loading, Registering, Registered, Describing
<1>2. DescribedWhole
  <2> SUFFICES ASSUME validated PROVE DescribedWhole
    BY DEF DescribedWhole
  <2>1. Described(Definition) /\ rtti = NativeClass /\ nulls = {}
    BY <1>1 DEF Whole, TypesInv, Staged, TypesFacts
  <2>2. NativeClass \subseteq Definition /\ Definition \cap Expansion = Expansion
    BY DEF Definition
  <2> QED
    BY <2>1, <2>2 DEF DescribedWhole, Described, ParentOf
<1>3. NeverMissed
  <2>1. rtti \subseteq AnyClass
    BY DEF TypesInv, Staged, TypesFacts, Loading, Registering, Registered, Describing, Whole, AnyClass
  <2> QED
    BY <2>1 DEF NeverMissed, TypesInv, Staged, TypesFacts, AnyClass
<1>4. \A c, s : <<"system", c>> \in Range(s) \/ <<"describe", c>> \in Range(s)
          => \E i \in DOMAIN s : s[i] \in {<<"describe", c>>, <<"system", c>>}
  BY DEF Range
<1>5. ASSUME NEW c \in GameSystem \cap rtti, instances[c] = 0
      PROVE  Waiting(c)
  <2>1. c \in NativeClass /\ c \in Definition /\ Describer(c) = <<"describe", c>>
    BY TypesAssumption DEF Definition, Describer
  <2>2. CASE Registering \/ Registered
    <3>1. <<"describe", c>> \in Range(describes)
      BY <2>1, <2>2 DEF Registering, Registered, Pending
    <3> QED
      BY <1>4, <3>1 DEF Waiting
  <2>3. ASSUME NEW S \in SUBSET Definition, Describing(S)
        PROVE  Waiting(c)
    <3>1. CASE c \in S
      <4>1. <<"describe", c>> \in Range(batch)
        BY <2>1, <2>3, <3>1 DEF Describing, Pending
      <4> QED
        BY <1>4, <4>1 DEF Waiting
    <3>2. CASE c \notin S
      <4>1. <<"system", c>> \in Range(describes) \cup Range(batch)
        BY <1>5, <2>1, <2>3, <3>2 DEF Describing, Described
      <4> QED
        BY <1>4, <4>1 DEF Waiting
    <3> QED
      BY <3>1, <3>2
  <2>4. CASE Whole
    <3>1. <<"system", c>> \in Range(describes) \cup Range(batch)
      BY <1>5, <2>1, <2>4 DEF Whole, Described
    <3> QED
      BY <1>4, <3>1 DEF Waiting
  <2>5. ~Loading
    BY DEF Loading
  <2> QED
    BY <2>2, <2>3, <2>4, <2>5 DEF TypesInv, Staged, TypesFacts
<1>6. SystemsAreKept
  <2>1. \A c \in GameSystem : instances[c] = 0 \/ instances[c] = 1
    BY TypesAssumption DEF TypesInv, Staged, TypesFacts
  <2> QED
    BY <1>1, <1>5, <2>1 DEF SystemsAreKept, Whole
<1> QED
  BY <1>2, <1>3, <1>6 DEF TypesAreWhole, TypesInv, Staged, TypesFacts

(* The calls.  A function has a parameter for each argument but the frame. *)
ParamKind == {"value", "optional", "frame", "self"}
Self(ctx) == IF ctx = "plain" THEN 1 ELSE 0
Before(sig, k) == {j \in 1 .. k : sig[j] # "frame"}

LEMMA ParamsTaken ==
    ASSUME NEW ctx \in Context, NEW sig \in Signature
    PROVE  /\ Params(ctx, sig) \in Seq(ParamKind)
           /\ Len(Params(ctx, sig)) = Self(ctx) + Cardinality(Before(sig, Len(sig)))
<1> DEFINE n == Len(sig)
           T == Seq(ParamKind)
           b == IF ctx = "plain" THEN <<"self">> ELSE <<>>
           Added(i, s) == IF sig[i] = "frame" THEN s ELSE Append(s, sig[i])
           G == [x \in (1 .. n) \X T |-> Added(x[1], x[2])]
           Adds(f) == f = [i \in 0 .. n |-> IF i = 0 THEN b ELSE Added(i, f[i - 1])]
           params == CHOOSE f : Adds(f)
<1>1. n \in Nat /\ \A i \in 1 .. n : sig[i] \in ParamKind
  <2>1. PICK m \in 0 .. MaxParams : sig \in [1 .. m -> {"value", "optional", "frame"}]
    BY DEF Signature
  <2>2. m \in Nat
    BY TypesAssumption
  <2>3. sig \in Seq({"value", "optional", "frame"})
    BY <2>1, <2>2, SeqDef
  <2> QED
    BY <2>3, LenProperties, ElementOfSeq DEF ParamKind
<1>2. \A i \in 1 .. n, s \in T : Added(i, s) \in T
  BY <1>1
<1>3. G \in [(1 .. n) \X T -> T]
  BY <1>2
<1>4. b \in T /\ Len(b) = Self(ctx)
  <2>1. /\ "self" \in ParamKind /\ <<"self">> \in Seq({"self"}) /\ Len(<<"self">>) = 1
        /\ <<>> \in T /\ Len(<<>>) = 0
    BY DEF ParamKind
  <2>2. <<"self">> \in T
    BY <2>1, SeqMonotonic
  <2> QED
    BY <2>1, <2>2 DEF Self
<1>5. PICK f : Iterates(f, n, T, b, G)
  <2> HIDE DEF G, T, n, b
  <2> QED
    BY <1>1, <1>3, <1>4, Recursion DEF StepOver
<1>6. \A i \in 1 .. n : f[i] = Added(i, f[i - 1])
  <2> TAKE i \in 1 .. n
  <2>0. i - 1 \in 0 .. n
    BY <1>1
  <2>1. <<i, f[i - 1]>> \in (1 .. n) \X T
    <3> HIDE DEF n, T, G, b
    <3> QED
      BY <1>5, <2>0 DEF Iterates
  <2>2. f[i] = G[<<i, f[i - 1]>>]
    BY <1>5 DEF Iterates
  <2> QED
    BY <2>1, <2>2
<1>7. Adds(f)
  <2>1. \A i \in 0 .. n : i # 0 => i \in 1 .. n
    BY <1>1
  <2> QED
    BY <1>5, <1>6, <2>1 DEF Iterates
<1>8. Adds(params)
  BY <1>7
<1>9. params[0] = b /\ \A i \in 1 .. n : params[i] = Added(i, params[i - 1])
  <2>1. 0 \in 0 .. n /\ \A i \in 1 .. n : i \in 0 .. n /\ i # 0
    BY <1>1
  <2> HIDE DEF params, Added
  <2> QED
    BY <1>8, <2>1
<1> DEFINE Counts(k) == Len(params[k]) = Self(ctx) + Cardinality(Before(sig, k))
           Good == {k \in Nat : k <= n => params[k] \in T /\ Counts(k)}
<1> HIDE DEF params
<1>10. 0 \in Good
  <2>1. Before(sig, 0) = {} /\ Self(ctx) \in Nat
    BY DEF Before, Self
  <2>2. Cardinality({}) = 0
    BY FS_EmptySet
  <2>3. params[0] \in T /\ Len(params[0]) = Self(ctx)
    <3> HIDE DEF b, T
    <3> QED
      BY <1>4, <1>9
  <2>4. Self(ctx) + Cardinality(Before(sig, 0)) = Self(ctx)
    BY <2>1, <2>2
  <2> HIDE DEF T
  <2>5. params[0] \in T /\ Counts(0)
    BY <2>3, <2>4
  <2> HIDE DEF Counts
  <2> QED
    BY <2>5
<1>11. ASSUME NEW k \in Nat, k \in Good PROVE k + 1 \in Good
  <2> SUFFICES ASSUME k + 1 <= n PROVE params[k + 1] \in T /\ Counts(k + 1)
    OBVIOUS
  <2>1. params[k] \in T /\ Counts(k) /\ k + 1 \in 1 .. n
    <3>1. k <= n /\ k + 1 \in 1 .. n
      BY <1>1
    <3> HIDE DEF T, Counts, n
    <3> QED
      BY <1>11, <3>1
  <2>2. params[k + 1] = Added(k + 1, params[k])
    <3>1. (k + 1) - 1 = k
      OBVIOUS
    <3> HIDE DEF Added, n
    <3> QED
      BY <1>9, <2>1, <3>1
  <2>3. \A l : l \in 1 .. k + 1 <=> (l \in 1 .. k \/ l = k + 1)
    OBVIOUS
  <2>4. CASE sig[k + 1] = "frame"
    <3>1. Before(sig, k + 1) = Before(sig, k)
      BY <2>3, <2>4 DEF Before
    <3> QED
      BY <2>1, <2>2, <2>4, <3>1
  <2>5. CASE sig[k + 1] # "frame"
    <3>1. Before(sig, k + 1) = Before(sig, k) \cup {k + 1} /\ k + 1 \notin Before(sig, k)
      BY <2>3, <2>5 DEF Before
    <3>2. IsFiniteSet(Before(sig, k))
      <4>1. IsFiniteSet(1 .. k) /\ Before(sig, k) \in SUBSET (1 .. k)
        BY FS_Interval DEF Before
      <4> QED
        BY <4>1, FS_Subset
    <3>3. /\ Cardinality(Before(sig, k)) \in Nat
          /\ Cardinality(Before(sig, k + 1)) = Cardinality(Before(sig, k)) + 1
      BY <3>1, <3>2, FS_AddElement, FS_CardinalityType
    <3>4. params[k + 1] = Append(params[k], sig[k + 1])
      BY <2>2, <2>5
    <3>5. params[k + 1] \in T /\ Len(params[k + 1]) = Len(params[k]) + 1
      BY <1>1, <2>1, <3>4, AppendProperties
    <3> QED
      BY <2>1, <3>3, <3>5 DEF Self
  <2> QED
    BY <2>4, <2>5
<1>12. n \in Good
  <2> HIDE DEF Good
  <2> QED
    BY <1>1, <1>10, <1>11, SetInduction
<1>13. params[n] \in T /\ Counts(n)
  <2> HIDE DEF T, Counts
  <2>1. n \in Nat /\ n <= n
    BY <1>1
  <2> HIDE DEF n
  <2> QED
    BY <1>12, <2>1
<1>14. Params(ctx, sig) = params[n]
  BY DEF Params, params
<1> QED
  BY <1>13, <1>14

(* What a call puts on the stack frame, the function finds in its place.   *)
LEMMA CallInPlace ==
    ASSUME NEW ctx \in Context, NEW sig \in Signature, CallFunction(ctx, sig)
    PROVE  ArgumentsInPlace'
<1> DEFINE params == Params(ctx, sig)
<1>1. PICK args \in Arguments(params) : frame' = <<ctx, sig, args, Code(params, args)>>
  BY DEF CallFunction
<1> DEFINE code == Code(params, args)
           n == Len(sig)
<1>2. /\ params \in Seq(ParamKind) /\ Len(params) \in Nat /\ DOMAIN params = 1 .. Len(params)
      /\ Len(params) = Self(ctx) + Cardinality(Before(sig, n))
  BY ParamsTaken, LenProperties
<1>3. \A i \in 1 .. Len(params) : args[i] \in {0, i}
  BY <1>2 DEF Arguments
<1>4. n \in Nat /\ DOMAIN sig = 1 .. n
  <2>1. PICK m \in 0 .. MaxParams : sig \in [1 .. m -> {"value", "optional", "frame"}]
    BY DEF Signature
  <2>2. m \in Nat
    BY TypesAssumption
  <2>3. sig \in Seq({"value", "optional", "frame"})
    BY <2>1, <2>2, SeqDef
  <2> QED
    BY <2>3, LenProperties
<1>5. /\ Len(code) = Len(params) + 1
      /\ \A i \in 1 .. Len(params) : Value(code[i]) = args[i]
  <2> DEFINE ops == [i \in DOMAIN params |-> IF args[i] = 0 THEN <<"nop">> ELSE <<"param", args[i]>>]
             Op == {<<"nop">>, <<"end">>} \cup ({"param"} \X Nat)
  <2>1. ops \in Seq(Op) /\ Len(ops) = Len(params)
    <3>1. \A i \in 1 .. Len(params) : ops[i] \in Op
      BY <1>2, <1>3
    <3>2. ops \in [1 .. Len(params) -> Op]
      BY <1>2, <3>1
    <3> HIDE DEF ops, Op
    <3>3. ops \in Seq(Op) /\ DOMAIN ops = 1 .. Len(params)
      BY <1>2, <3>2, SeqDef
    <3> QED
      BY <1>2, <3>3, LenProperties
  <2>2. << <<"end">> >> \in Seq(Op) /\ Len(<< <<"end">> >>) = 1
    OBVIOUS
  <2>3. code = ops \o << <<"end">> >>
    BY DEF Code
  <2>4. Len(code) = Len(params) + 1 /\ \A i \in 1 .. Len(params) : code[i] = ops[i]
    <3> HIDE DEF ops, Op, code
    <3> QED
      BY <1>2, <2>1, <2>2, <2>3, ConcatProperties
  <2>5. \A i \in 1 .. Len(params) : Value(ops[i]) = args[i]
    BY <1>2, <1>3 DEF Value
  <2> HIDE DEF ops, code
  <2> QED
    BY <2>4, <2>5
<1>6. \A k \in Nat : k <= n => /\ IsFiniteSet(Before(sig, k)) /\ Cardinality(Before(sig, k)) \in Nat
  <2> TAKE k \in Nat
  <2>1. IsFiniteSet(1 .. k) /\ Before(sig, k) \in SUBSET (1 .. k)
    BY FS_Interval DEF Before
  <2> QED
    BY <2>1, FS_Subset, FS_CardinalityType
<1>7. \A i \in 1 .. n + 1 : Taken(ctx, sig, i) = Self(ctx) + Cardinality(Before(sig, i - 1))
  BY DEF Taken, Self, Before
<1>8. CodeLeft(ctx, sig, code) = 0
  <2>1. Taken(ctx, sig, n + 1) = Len(params)
    <3>1. n + 1 \in 1 .. n + 1 /\ (n + 1) - 1 = n
      BY <1>4
    <3> HIDE DEF n, params
    <3> QED
      BY <1>2, <1>7, <3>1
  <2> HIDE DEF code, params
  <2> QED
    BY <1>2, <1>5, <2>1 DEF CodeLeft
<1>9. ASSUME NEW i \in DOMAIN sig, sig[i] # "frame"
      PROVE  Extracted(ctx, sig, code)[i] = args[Taken(ctx, sig, i) + 1]
  <2>1. i \in 1 .. n /\ i - 1 \in Nat /\ i - 1 <= n /\ i \in 1 .. n + 1
    BY <1>4
  <2>2. Before(sig, i - 1) \cup {i} \in SUBSET Before(sig, n) /\ i \notin Before(sig, i - 1)
    BY <1>4, <1>9, <2>1 DEF Before
  <2>3. Cardinality(Before(sig, i - 1)) + 1 <= Cardinality(Before(sig, n))
    <3>1. IsFiniteSet(Before(sig, i - 1)) /\ IsFiniteSet(Before(sig, n))
      BY <1>4, <1>6, <2>1
    <3>2. Cardinality(Before(sig, i - 1) \cup {i}) = Cardinality(Before(sig, i - 1)) + 1
      BY <2>2, <3>1, FS_AddElement
    <3>3. Cardinality(Before(sig, i - 1) \cup {i}) <= Cardinality(Before(sig, n))
      BY <2>2, <3>1, FS_Subset
    <3> QED
      BY <3>2, <3>3
  <2>4. Taken(ctx, sig, i) + 1 \in 1 .. Len(params)
    <3>1. Cardinality(Before(sig, i - 1)) \in Nat /\ Cardinality(Before(sig, n)) \in Nat
      BY <1>4, <1>6, <2>1
    <3>2. Taken(ctx, sig, i) = Self(ctx) + Cardinality(Before(sig, i - 1))
      BY <1>7, <2>1
    <3> HIDE DEF params, n
    <3> QED
      BY <1>2, <2>3, <3>1, <3>2 DEF Self
  <2>5. Extracted(ctx, sig, code)[i] = Value(code[Taken(ctx, sig, i) + 1])
    <3> HIDE DEF code
    <3> QED
      BY <1>9 DEF Extracted
  <2> HIDE DEF code, params
  <2> QED
    BY <1>5, <2>4, <2>5
<1>10. /\ frame'[1] = ctx /\ frame'[2] = sig /\ frame'[3] = args /\ frame'[4] = code
  BY <1>1
<1> HIDE DEF code, params
<1> QED
  BY <1>8, <1>9, <1>10 DEF ArgumentsInPlace

(* The registrars of the library fill both vectors.                        *)
LEMMA LoadStep == TypesInv /\ LoadLibrary => TypesInv'
<1> SUFFICES ASSUME TypesInv, LoadLibrary PROVE TypesInv'
  OBVIOUS
<1> USE DEF system
<1>1. Loading /\ TypesFacts
  BY DEF TypesInv, Staged, TypesFacts, LoadLibrary, Registering, Registered, Describing, Whole
<1>2. PICK o \in LinkOrder : registers' = Registrars(o) /\ describes' = Describers(o)
  BY DEF LoadLibrary
<1>3. /\ registers' \in Seq(Callback)
      /\ Range(registers') = {<<"register", c>> : c \in NativeClass}
      /\ Pending(describes', Definition)
  BY <1>2, AllRegister, AllDescribe DEF Pending
<1>4. queued = {}
  <2>1. ASSUME NativeClass # {}, Range(registers) = {<<"register", c>> : c \in NativeClass}
        PROVE  FALSE
    BY <2>1, NothingIn DEF LoadLibrary
  <2> QED
    BY <1>1, <2>1 DEF Loading
<1>5. Described({})' /\ TypesFacts'
  BY <1>1 DEF Loading, Described, TypesFacts, LoadLibrary, ArgumentsInPlace
<1>6. Loading'
  BY <1>1, <1>3, <1>4, <1>5 DEF Loading, LoadLibrary
<1> QED
  BY <1>5, <1>6 DEF TypesInv, Staged

(* Rounds of callbacks begin and end, and none is lost between them.       *)
LEMMA RoundsStep ==
    TypesInv /\ (RegisterDiscovered \/ OnRegister \/ OnDescribe \/ EndBatch) => TypesInv'
<1> SUFFICES ASSUME TypesInv, RegisterDiscovered \/ OnRegister \/ OnDescribe \/ EndBatch
             PROVE  TypesInv'
  OBVIOUS
<1> USE DEF system
<1>1. TypesFacts'
  BY DEF TypesInv, Staged, TypesFacts, RegisterDiscovered, OnRegister, OnDescribe, EndBatch, ArgumentsInPlace
<1>2. CASE RegisterDiscovered
  <2>1. Loading
    BY <1>2 DEF TypesInv, Staged, TypesFacts, RegisterDiscovered, Registering, Registered, Describing, Whole
  <2>2. /\ registers \in Seq(Callback) /\ Range(registers) = {<<"register", c>> : c \in NativeClass}
        /\ Pending(describes, Definition)
    BY <1>2, <2>1 DEF Loading, RegisterDiscovered
  <2>3. NativeClass # {}
    <3>1. Head(registers) \in Range(registers)
      BY <1>2, <2>2, TakeFirst DEF RegisterDiscovered
    <3> QED
      BY <2>2, <3>1
  <2>4. describes # <<>>
    <3>1. Definition # {}
      BY <2>3 DEF Definition
    <3> QED
      BY <2>2, <3>1, NothingIn DEF Pending
  <2>5. Described({})'
    BY <1>2, <2>1 DEF Loading, RegisterDiscovered, Described
  <2>6. Loading'
    BY <1>2, <2>1, <2>2, <2>3, <2>4, <2>5 DEF Loading, RegisterDiscovered
  <2> QED
    BY <1>1, <2>6 DEF TypesInv, Staged
<1>3. CASE OnRegister
  <2>1. Loading
    BY <1>3 DEF TypesInv, Staged, TypesFacts, OnRegister, Registering, Registered, Describing, Whole
  <2>2. /\ registers \in Seq(Callback) /\ Range(registers) = {<<"register", c>> : c \in NativeClass}
        /\ Pending(describes, Definition) /\ queued = {"register", "describe"} /\ NativeClass # {}
    BY <1>3, <2>1 DEF Loading, OnRegister
  <2>3. Described({})'
    <3>1. Described({})
      BY <2>1 DEF Loading
    <3> QED
      BY <1>3, <3>1, TypesAssumption DEF OnRegister, Described
  <2>4. Registering'
    BY <1>3, <2>1, <2>2, <2>3 DEF Loading, Registering, OnRegister
  <2> QED
    BY <1>1, <2>2, <2>4 DEF TypesInv, Staged
<1>4. CASE OnDescribe
  <2>1. ~Loading
    <3>1. queued = {"describe"} /\ "register" \notin queued /\ "describe" \in queued
      BY <1>4 DEF OnDescribe
    <3> QED
      BY <3>1 DEF Loading
  <2>2. ~Registering /\ \A S : ~Describing(S)
    BY <1>4 DEF OnDescribe, Registering, Describing
  <2>3. NativeClass # {} /\ (Registered \/ Whole)
    BY <2>1, <2>2 DEF TypesInv, Staged
  <2>4. CASE Registered
    <3>1. Described(Definition \ Definition)'
      <4>1. Described({})
        BY <2>4 DEF Registered
      <4> QED
        BY <1>4, <4>1 DEF OnDescribe, Described
    <3>2. Systems(<<>>)
      BY NothingIn DEF Systems
    <3>3. Describing(Definition)'
      BY <1>4, <2>4, <3>1, <3>2 DEF Registered, Describing, OnDescribe
    <3> QED
      BY <1>1, <2>3, <3>3 DEF TypesInv, Staged
  <2>5. CASE Whole
    <3>1. Systems(<<>>)
      BY NothingIn DEF Systems
    <3>2. Range(describes) \cup Range(batch) \subseteq Range(describes') \cup Range(batch')
      BY <1>4, <2>5, NothingIn DEF OnDescribe, Whole
    <3>3. Described(Definition)'
      <4>1. Described(Definition)
        BY <2>5 DEF Whole
      <4> QED
        BY <1>4, <3>2, <4>1 DEF OnDescribe, Described
    <3>4. Whole'
      BY <1>4, <2>5, <3>1, <3>3 DEF Whole, OnDescribe
    <3> QED
      BY <1>1, <2>3, <3>4 DEF TypesInv, Staged
  <2> QED
    BY <2>3, <2>4, <2>5
<1>5. CASE EndBatch
  <2>1. \A S : Described(S)' = Described(S)
    BY <1>5 DEF EndBatch, Described
  <2>2. CASE Registering /\ NativeClass # {}
    <3>1. rtti = NativeClass
      BY <1>5, <2>2, NothingIn DEF Registering, EndBatch
    <3>2. describes # <<>>
      BY <2>2, NothingIn DEF Registering, Pending, Definition
    <3>3. Registered'
      BY <1>5, <2>1, <2>2, <3>1, <3>2 DEF Registering, Registered, EndBatch
    <3> QED
      BY <1>1, <2>2, <3>3 DEF TypesInv, Staged
  <2>3. ASSUME NEW S \in SUBSET Definition, Describing(S), NativeClass # {}
        PROVE  TypesInv'
    <3>1. S = {}
      BY <1>5, <2>3, NothingIn DEF Describing, Pending, EndBatch
    <3>2. Described(Definition)'
      BY <2>1, <2>3, <3>1 DEF Describing
    <3>3. Systems(<<>>)
      BY NothingIn DEF Systems
    <3>4. Whole'
      BY <1>5, <2>3, <3>2, <3>3 DEF Describing, Whole, EndBatch
    <3> QED
      BY <1>1, <2>3, <3>4 DEF TypesInv, Staged
  <2>4. CASE Whole /\ NativeClass # {}
    <3>1. Whole'
      BY <1>5, <2>1, <2>4 DEF Whole, EndBatch
    <3> QED
      BY <1>1, <2>4, <3>1 DEF TypesInv, Staged
  <2> QED
    BY <1>5, <2>2, <2>3, <2>4 DEF TypesInv, Staged, TypesFacts, EndBatch, Loading, Registered
<1> QED
  BY <1>2, <1>3, <1>4, <1>5

(* The stage tells what the next callback is.                              *)
LEMMA NextCallback ==
    ASSUME TypesInv, NEW k, NEW d, TakesCallback(k, d)
    PROVE  /\ NativeClass # {}
           /\ batch \in Seq(Callback) /\ batch' \in Seq(Callback)
           /\ Range(batch) = {<<k, d>>} \cup Range(batch')
           /\ NoRepeat(batch) => NoRepeat(batch') /\ <<k, d>> \notin Range(batch')
           /\ \/ k = "register" /\ d \in NativeClass /\ Registering
              \/ \E S \in SUBSET Definition : Describing(S) /\ d \in S /\ <<k, d>> = Describer(d)
              \/ k = "system" /\ d \in NativeClass /\ Whole
<1>1. batch # <<>> /\ Head(batch) = <<k, d>> /\ batch' = Tail(batch)
  BY DEF TakesCallback
<1>2. /\ NativeClass # {}
      /\ Registering \/ Whole \/ \E S \in SUBSET Definition : Describing(S)
  BY <1>1 DEF TypesInv, Staged, Loading, Registered
<1>3. batch \in Seq(Callback)
  BY <1>2 DEF Registering, Whole, Describing, Pending, Systems
<1>4. /\ batch' \in Seq(Callback)
      /\ Range(batch) = {<<k, d>>} \cup Range(batch')
      /\ NoRepeat(batch) => NoRepeat(batch') /\ <<k, d>> \notin Range(batch')
  BY <1>1, <1>3, TakeFirst
<1>5. CASE Registering
  <2>1. <<k, d>> \in {<<"register", c>> : c \in NativeClass}
    BY <1>4, <1>5 DEF Registering
  <2> QED
    BY <1>2, <1>3, <1>4, <1>5, <2>1
<1>6. CASE Whole
  <2>1. <<k, d>> \in {<<"system", c>> : c \in NativeClass}
    BY <1>4, <1>6 DEF Whole, Systems
  <2> QED
    BY <1>2, <1>3, <1>4, <1>6, <2>1
<1>7. ASSUME NEW S \in SUBSET Definition, Describing(S)
      PROVE  d \in S /\ <<k, d>> = Describer(d)
  <2>1. <<k, d>> \in {Describer(e) : e \in S}
    BY <1>4, <1>7 DEF Describing, Pending
  <2> QED
    BY <2>1 DEF Describer
<1> QED
  BY <1>2, <1>3, <1>4, <1>5, <1>6, <1>7

(* A class that registers itself is there.                                 *)
LEMMA RegisterStep ==
    ASSUME TypesInv, NEW c \in NativeClass, RegisterType(c)
    PROVE  TypesInv'
<1>1. TakesCallback("register", c) /\ rtti' = rtti \cup {c}
  BY DEF RegisterType, GetTypeName
<1>2. /\ NativeClass # {} /\ batch' \in Seq(Callback)
      /\ Range(batch) = {<<"register", c>>} \cup Range(batch')
      /\ Registering
  <2>1. <<"register", c>> # Describer(c) /\ "register" # "system"
    BY DEF Describer
  <2> HIDE DEF Describer
  <2> QED
    BY <1>1, <2>1, NextCallback
<1>3. TypesFacts'
  BY DEF TypesInv, TypesFacts, RegisterType, TakesCallback, ArgumentsInPlace
<1>4. Described({})'
  BY <1>2, TypesAssumption DEF Registering, Described, RegisterType
<1>5. Registering'
  <2>1. \A x \in NativeClass \ rtti' : <<"register", x>> \in Range(batch')
    BY <1>1, <1>2 DEF Registering
  <2>2. Range(batch') \subseteq {<<"register", x>> : x \in NativeClass}
    BY <1>2 DEF Registering
  <2>3. rtti' \subseteq NativeClass
    BY <1>1, <1>2 DEF Registering
  <2>4. Pending(describes, Definition)'
    BY <1>2 DEF Registering, Pending, RegisterType
  <2> QED
    BY <1>1, <1>2, <1>4, <2>1, <2>2, <2>3, <2>4 DEF Registering, RegisterType, TakesCallback
<1> QED
  BY <1>2, <1>3, <1>5 DEF TypesInv, Staged

(* What has been described is pending no more.                             *)
LEMMA OneLess ==
    ASSUME NEW S, NEW s, NEW t, NEW d \in S, Pending(s, S), t \in Seq(Callback),
           Range(s) = {Describer(d)} \cup Range(t),
           NoRepeat(s) => NoRepeat(t) /\ Describer(d) \notin Range(t)
    PROVE  Pending(t, S \ {d})
<1>1. \A x, y : Describer(x) = Describer(y) => x = y
  BY DEF Describer
<1>2. NoRepeat(t) /\ Describer(d) \notin Range(t) /\ Range(s) = {Describer(e) : e \in S}
  BY DEF Pending
<1> HIDE DEF Describer
<1>3. Range(t) = {Describer(e) : e \in S \ {d}}
  <2>1. Range(t) = Range(s) \ {Describer(d)}
    BY <1>2
  <2> HIDE DEF NoRepeat
  <2> QED
    BY <1>1, <1>2, <2>1
<1> QED
  BY <1>2, <1>3 DEF Pending

(* What is asked for is there, and so is found.                            *)
LEMMA AskedIsFound ==
    ASSUME located \in [AnyClass -> {"unasked", "found"}], NEW names,
           names \subseteq rtti \cup EngineClass
    PROVE  /\ Asked(names) \in [AnyClass -> {"unasked", "found"}]
           /\ \A n \in names \cap AnyClass : Asked(names)[n] = "found"
<1> DEFINE ask == Asked(names)
<1>1. \A n \in AnyClass : ask[n] \in {"unasked", "found"} /\ (n \in names => ask[n] = "found")
  BY DEF Asked, Known
<1>2. ask = [n \in AnyClass |-> ask[n]]
  BY DEF Asked
<1> HIDE DEF ask
<1>3. ask \in [AnyClass -> {"unasked", "found"}]
  BY <1>1, <1>2
<1>4. \A n \in names \cap AnyClass : ask[n] = "found"
  BY <1>1
<1> QED
  BY <1>3, <1>4 DEF ask

(* A class that is described has its parent, and a system its getter.      *)
LEMMA DescribeStep ==
    ASSUME TypesInv, NEW c \in NativeClass, DescribeType(c)
    PROVE  TypesInv'
<1>1. TakesCallback("describe", c) /\ c \in Definition /\ Describer(c) = <<"describe", c>>
  BY DEF DescribeType, Definition, Describer
<1>2. PICK S \in SUBSET Definition : Describing(S) /\ c \in S
  <2>1. "describe" # "register" /\ "describe" # "system"
    OBVIOUS
  <2> QED
    BY <1>1, <2>1, NextCallback
<1>3. /\ NativeClass # {} /\ batch \in Seq(Callback) /\ batch' \in Seq(Callback)
      /\ Range(batch) = {Describer(c)} \cup Range(batch')
      /\ NoRepeat(batch) => NoRepeat(batch') /\ Describer(c) \notin Range(batch')
  BY <1>1, NextCallback
<1>4. Pending(batch', S \ {c})
  BY <1>2, <1>3, OneLess DEF Describing
<1>5. ~framework /\ rtti = NativeClass
  BY <1>2 DEF TypesInv, TypesFacts, Describing
<1> DEFINE names == {Default(c), Base[c]} \ {NoClass}
<1>6. Default(c) \in EngineClass /\ Base[c] \in EngineClass \cup {NoClass} /\ NoClass \notin EngineClass
  BY TypesAssumption DEF Default, EngineClass, AnyClass
<1>7. located' \in [AnyClass -> {"unasked", "found"}] /\ located'[ParentOf(c)] = "found"
  <2>1. ParentOf(c) \in names \cap AnyClass /\ names \subseteq rtti \cup EngineClass
    BY <1>6 DEF ParentOf, AnyClass
  <2>2. located' = Asked(names)
    BY DEF DescribeType
  <2> HIDE DEF names
  <2> QED
    BY <2>1, <2>2, AskedIsFound DEF TypesInv, TypesFacts
<1>8. parent' = [parent EXCEPT ![c] = ParentOf(c)]
  BY <1>7 DEF DescribeType, SetParent, ParentOf
<1>9. nulls' = {}
  BY <1>5, TypesAssumption DEF DescribeType, AddFunction, AddProperty, TypesInv, TypesFacts
<1>10. /\ instances' = instances
       /\ c \notin GameSystem => getters' = getters /\ describes' = describes
       /\ c \in GameSystem => /\ getters' = [getters EXCEPT ![c] = @ + 1]
                              /\ describes' = Append(describes, <<"system", c>>)
  BY <1>5 DEF DescribeType, RegisterGetter, RegisterSystem
<1>11. TypesFacts'
  <2>1. parent' \in [NativeClass -> EngineClass \cup {NoClass}]
    BY <1>6, <1>8 DEF TypesInv, TypesFacts, ParentOf
  <2>2. getters' \in [NativeClass -> Nat]
    BY <1>10 DEF TypesInv, TypesFacts
  <2> QED
    BY <1>7, <1>9, <1>10, <2>1, <2>2
       DEF TypesInv, TypesFacts, DescribeType, TakesCallback, ArgumentsInPlace
<1>12. /\ describes \in Seq(Callback) /\ Systems(describes')
       /\ Range(describes) \subseteq Range(describes')
       /\ c \in GameSystem => <<"system", c>> \in Range(describes')
  <2>1. Systems(describes)
    BY <1>2 DEF Describing
  <2>2. <<"system", c>> \in Callback
    BY DEF Callback
  <2>3. /\ Append(describes, <<"system", c>>) \in Seq(Callback)
        /\ Range(Append(describes, <<"system", c>>)) = Range(describes) \cup {<<"system", c>>}
    BY <2>1, <2>2, AddLast DEF Systems
  <2> QED
    BY <1>10, <2>1, <2>3 DEF Systems
<1>13. Described(Definition \ (S \ {c}))'
  <2>1. /\ Described(Definition \ S)
        /\ \A x : x \in Definition \ (S \ {c}) <=> (x \in Definition \ S \/ x = c)
    BY <1>1, <1>2 DEF Describing
  <2>2. /\ parent \in [NativeClass -> EngineClass \cup {NoClass}]
        /\ getters \in [NativeClass -> Nat]
    BY DEF TypesInv, TypesFacts
  <2>3. \A x \in NativeClass : parent'[x] = IF x \in Definition \ (S \ {c}) THEN ParentOf(x) ELSE NoClass
    BY <1>8, <2>1, <2>2 DEF Described
  <2>4. \A x \in NativeClass :
            getters'[x] = IF x \in Definition \ (S \ {c}) /\ x \in GameSystem THEN 1 ELSE 0
    BY <1>2, <1>10, <2>1, <2>2 DEF Described
  <2>5. expanded' = (Definition \ (S \ {c})) \cap Expansion
    <3>1. c \notin Expansion /\ expanded' = expanded
      BY TypesAssumption DEF DescribeType
    <3> QED
      BY <2>1, <3>1 DEF Described
  <2>6. ASSUME NEW x \in GameSystem, instances'[x] = 0 /\ x \in Definition \ (S \ {c})
        PROVE  <<"system", x>> \in Range(describes') \cup Range(batch')
    <3>1. CASE x = c
      BY <1>12, <2>6, <3>1
    <3>2. CASE x # c
      <4>1. <<"system", x>> \in Range(describes) \cup Range(batch)
        BY <1>10, <2>1, <2>6, <3>2 DEF Described
      <4>2. <<"system", x>> # Describer(c)
        BY <1>1
      <4> HIDE DEF Describer
      <4> QED
        BY <1>3, <1>12, <4>1, <4>2
    <3> QED
      BY <3>1, <3>2
  <2> QED
    BY <2>3, <2>4, <2>5, <2>6 DEF Described
<1>14. Describing(S \ {c})'
  BY <1>2, <1>4, <1>12, <1>13 DEF Describing, DescribeType, TakesCallback
<1> QED
  BY <1>2, <1>3, <1>11, <1>14 DEF TypesInv, Staged

(* An expansion is described.                                              *)
LEMMA ExpandStep ==
    ASSUME TypesInv, NEW x \in Expansion, ExpandType(x)
    PROVE  TypesInv'
<1>1. TakesCallback("expand", x) /\ x \in Definition /\ Describer(x) = <<"expand", x>>
  BY TypesAssumption DEF ExpandType, Definition, Describer
<1>2. PICK S \in SUBSET Definition : Describing(S) /\ x \in S
  <2>1. "expand" # "register" /\ "expand" # "system"
    OBVIOUS
  <2> QED
    BY <1>1, <2>1, NextCallback
<1>3. /\ NativeClass # {} /\ batch \in Seq(Callback) /\ batch' \in Seq(Callback)
      /\ Range(batch) = {Describer(x)} \cup Range(batch')
      /\ NoRepeat(batch) => NoRepeat(batch') /\ Describer(x) \notin Range(batch')
  BY <1>1, NextCallback
<1>4. Pending(batch', S \ {x})
  BY <1>2, <1>3, OneLess DEF Describing
<1>5. TypesFacts'
  BY DEF TypesInv, TypesFacts, ExpandType, TakesCallback, ArgumentsInPlace
<1>6. Described(Definition \ (S \ {x}))'
  <2>1. /\ Described(Definition \ S)
        /\ \A y : y \in Definition \ (S \ {x}) <=> (y \in Definition \ S \/ y = x)
        /\ x \notin NativeClass /\ GameSystem \subseteq NativeClass
    BY <1>1, <1>2, TypesAssumption DEF Describing
  <2>2. expanded' = (Definition \ (S \ {x})) \cap Expansion
    BY <2>1 DEF Described, ExpandType
  <2>3. ASSUME NEW y \in GameSystem, instances[y] = 0, y \in Definition \ (S \ {x})
        PROVE  <<"system", y>> \in Range(describes) \cup Range(batch')
    <3>1. <<"system", y>> \in Range(describes) \cup Range(batch)
      BY <2>1, <2>3 DEF Described
    <3>2. <<"system", y>> # Describer(x)
      BY <1>1
    <3> HIDE DEF Describer
    <3> QED
      BY <1>3, <3>1, <3>2
  <2> QED
    BY <2>1, <2>2, <2>3 DEF Described, ExpandType
<1>7. Describing(S \ {x})'
  BY <1>2, <1>4, <1>6 DEF Describing, ExpandType, TakesCallback, Systems
<1> QED
  BY <1>2, <1>3, <1>5, <1>7 DEF TypesInv, Staged

(* A system is created when there is a framework, or waits for one.        *)
LEMMA SystemStep ==
    ASSUME TypesInv, NEW c \in NativeClass, RegisterSystemLater(c)
    PROVE  TypesInv'
<1>1. TakesCallback("system", c)
  BY DEF RegisterSystemLater
<1>2. /\ NativeClass # {} /\ batch \in Seq(Callback) /\ batch' \in Seq(Callback)
      /\ Range(batch) = {<<"system", c>>} \cup Range(batch')
      /\ Whole
  <2>1. "system" # "register" /\ <<"system", c>> # Describer(c)
    BY DEF Describer
  <2> HIDE DEF Describer
  <2> QED
    BY <1>1, <2>1, NextCallback
<1>3. located' \in [AnyClass -> {"unasked", "found"}]
  <2>1. {c} \subseteq rtti \cup EngineClass
    BY <1>2 DEF Whole
  <2> QED
    BY <2>1, AskedIsFound DEF TypesInv, TypesFacts, RegisterSystemLater
<1>4. \/ framework /\ instances' = Created(c) /\ describes' = describes
      \/ ~framework /\ instances' = instances /\ describes' = Append(describes, <<"system", c>>)
  BY DEF RegisterSystemLater, RegisterSystem
<1>5. /\ instances' \in [NativeClass -> {0, 1}]
      /\ \A x \in NativeClass : instances'[x] = 0 =>
             instances[x] = 0 /\ (x = c => describes' = Append(describes, <<"system", c>>))
  BY <1>4 DEF Created, TypesInv, TypesFacts
<1>6. TypesFacts'
  BY <1>3, <1>5
     DEF TypesInv, TypesFacts, RegisterSystemLater, TakesCallback, ArgumentsInPlace
<1>7. /\ Systems(describes') /\ Range(describes) \subseteq Range(describes')
      /\ describes' = Append(describes, <<"system", c>>) => <<"system", c>> \in Range(describes')
  <2>1. Systems(describes)
    BY <1>2 DEF Whole
  <2>2. <<"system", c>> \in Callback
    BY DEF Callback
  <2>3. /\ Append(describes, <<"system", c>>) \in Seq(Callback)
        /\ Range(Append(describes, <<"system", c>>)) = Range(describes) \cup {<<"system", c>>}
    BY <2>1, <2>2, AddLast DEF Systems
  <2> QED
    BY <1>4, <2>1, <2>3 DEF Systems
<1>8. Described(Definition)'
  <2>1. Described(Definition) /\ GameSystem \subseteq NativeClass
    BY <1>2, TypesAssumption DEF Whole
  <2>2. ASSUME NEW x \in GameSystem, instances'[x] = 0, x \in Definition
        PROVE  <<"system", x>> \in Range(describes') \cup Range(batch')
    <3>1. CASE x = c
      BY <1>5, <1>7, <2>1, <2>2, <3>1
    <3>2. CASE x # c
      <4>1. <<"system", x>> \in Range(describes) \cup Range(batch)
        BY <1>5, <2>1, <2>2 DEF Described
      <4> QED
        BY <1>2, <1>7, <3>2, <4>1
    <3> QED
      BY <3>1, <3>2
  <2> QED
    BY <2>1, <2>2 DEF Described, RegisterSystemLater
<1>9. Whole'
  <2>1. Systems(batch')
    BY <1>2 DEF Whole, Systems
  <2>2. running = "describe"
    BY <1>1, <1>2 DEF Whole, TakesCallback
  <2> QED
    BY <1>2, <1>7, <1>8, <2>1, <2>2 DEF Whole, RegisterSystemLater, TakesCallback
<1> QED
  BY <1>2, <1>6, <1>9 DEF TypesInv, Staged

(* The game uses the classes when they are whole.                          *)
LEMMA GameStep ==
    ASSUME TypesInv,
           \/ ValidateScripts
           \/ StartFramework
           \/ \E c \in NativeClass : GetClass(c)
           \/ Return
           \/ \E ctx \in Context, sig \in Signature : CallFunction(ctx, sig)
    PROVE  TypesInv'
<1> USE DEF registrar, system
<1>1. CASE ValidateScripts
  <2>1. ~Loading /\ ~Registering /\ \A S : ~Describing(S)
    BY <1>1 DEF ValidateScripts, Loading, Registering, Describing
  <2>2. NativeClass # {} /\ (Registered \/ Whole)
    BY <2>1 DEF TypesInv, Staged
  <2>3. ~Registered
    <3>1. PICK c : c \in NativeClass
      BY <2>2
    <3>2. c \in Definition /\ Describer(c) = <<"describe", c>>
      BY <3>1 DEF Definition, Describer
    <3>3. SUFFICES ASSUME Registered PROVE FALSE
      OBVIOUS
    <3>4. Describer(c) \in Range(describes)
      BY <3>2, <3>3 DEF Registered, Pending
    <3>5. PICK i \in DOMAIN describes : describes[i] = <<"describe", c>>
      BY <3>2, <3>4 DEF Range
    <3> QED
      BY <1>1, <3>5 DEF ValidateScripts
  <2>4. Whole'
    BY <1>1, <2>2, <2>3 DEF ValidateScripts, Whole, Described
  <2>5. TypesFacts'
    BY <1>1 DEF ValidateScripts, TypesInv, TypesFacts, ArgumentsInPlace
  <2> QED
    BY <1>1, <2>2, <2>4, <2>5 DEF TypesInv, Staged, ValidateScripts
<1>2. CASE StartFramework \/ \E c \in NativeClass : GetClass(c)
  <2>1. Whole /\ NativeClass # {}
    <3>1. validated
      BY <1>2 DEF StartFramework, GetClass
    <3> QED
      BY <3>1 DEF TypesInv, Staged, Loading, Registering, Registered, Describing
  <2>2. located' \in [AnyClass -> {"unasked", "found"}]
    <3>1. ASSUME NEW c \in NativeClass, GetClass(c)
          PROVE  located' \in [AnyClass -> {"unasked", "found"}]
      <4>1. {c} \subseteq rtti \cup EngineClass
        BY <2>1 DEF Whole
      <4> QED
        BY <3>1, <4>1, AskedIsFound DEF TypesInv, TypesFacts, GetClass
    <3> QED
      BY <1>2, <3>1 DEF StartFramework, TypesInv, TypesFacts
  <2>3. TypesFacts'
    BY <1>2, <2>2 DEF TypesInv, TypesFacts, StartFramework, GetClass, ArgumentsInPlace
  <2>4. Whole'
    BY <1>2, <2>1 DEF Whole, Described, StartFramework, GetClass
  <2> QED
    BY <2>1, <2>3, <2>4 DEF TypesInv, Staged
<1>3. CASE Return \/ \E ctx \in Context, sig \in Signature : CallFunction(ctx, sig)
  <2>1. UNCHANGED <<registers, describes, running, batch, queued, rtti, parent, nulls, located,
                    getters, expanded, framework, instances, validated>>
    BY <1>3 DEF Return, CallFunction
  <2>2. ArgumentsInPlace'
    BY <1>3, CallInPlace DEF Return, ArgumentsInPlace
  <2>3. TypesFacts'
    BY <2>1, <2>2 DEF TypesInv, TypesFacts
  <2>4. Staged'
    BY <2>1 DEF TypesInv, Staged, Loading, Registering, Registered, Describing, Whole, Described
  <2> QED
    BY <2>3, <2>4 DEF TypesInv
<1> QED
  BY <1>1, <1>2, <1>3

(* No step breaks the invariant.                                           *)
LEMMA TypesInvStep == TypesInv /\ [TypesNext]_typesVars => TypesInv'
<1> SUFFICES ASSUME TypesInv, [TypesNext]_typesVars PROVE TypesInv'
  OBVIOUS
<1>1. CASE UNCHANGED typesVars
  BY <1>1 DEF typesVars, registrar, system, TypesInv, TypesFacts, Staged, Loading, Registering,
              Registered, Describing, Whole, Described, ArgumentsInPlace
<1>2. CASE TypesNext
  BY <1>2, LoadStep, RoundsStep, RegisterStep, DescribeStep, ExpandStep, SystemStep, GameStep
     DEF TypesNext
<1> QED
  BY <1>1, <1>2

(* Whatever the classes, their parents and the order of the linker: when   *)
(* the game uses the classes they are whole, every system is created once,  *)
(* and native functions get their arguments.  (TypeInfoRegistrar,           *)
(* SystemBuilder::RegisterSystem, ExtractArgs.)                             *)
THEOREM TypesWhole == TypesSpec => []TypesAreWhole
<1>1. TypesInv => TypesAreWhole
  BY TypesInvIsWhole
<1> QED
  BY TypesInvInit, TypesInvStep, <1>1, PTL DEF TypesSpec

-----------------------------------------------------------------------------
(* What a plugin registers are functions.                                  *)
Attributed == [attribute : {"ClientRpc", "ServerRpc"}, class : Class \cup {Unset},
               function : Function \cup {Unset}, player : BOOLEAN]

LEMMA MethodsOfTypes ==
    ASSUME NEW type \in PluginType
    PROVE  type \in Seq(Attributed)
<1>1. PICK a \in {"ClientRpc", "ServerRpc"}, rpcs \in PluginOrders, h \in ByHand :
          type = Library(a, rpcs) \o h
  BY DEF PluginType
<1>2. \E n \in Nat : rpcs \in [1 .. n -> Rpc]
  <2>1. PICK S \in SUBSET Rpc : Cardinality(S) <= MaxLibraries /\ rpcs \in SetToSeqs(S)
    BY DEF PluginOrders
  <2>2. rpcs \in [1 .. Cardinality(S) -> S]
    BY <2>1 DEF SetToSeqs
  <2>3. IsFiniteSet(S)
    BY RpcsAssumption, FS_Product, FS_Subset DEF Rpc
  <2>4. Cardinality(S) \in Nat
    BY <2>3, FS_CardinalityType
  <2>5. [1 .. Cardinality(S) -> S] \subseteq [1 .. Cardinality(S) -> Rpc]
    OBVIOUS
  <2> QED
    BY <2>2, <2>4, <2>5
<1>3. Library(a, rpcs) \in Seq(Attributed)
  <2>1. PICK n \in Nat : rpcs \in [1 .. n -> Rpc]
    BY <1>2
  <2>2. \A i \in 1 .. n : Method(a, rpcs[i]) \in Attributed
    BY <2>1 DEF Method, Attributed, Rpc
  <2>3. Library(a, rpcs) \in [1 .. n -> Attributed]
    BY <2>1, <2>2 DEF Library
  <2> QED
    BY <2>3, SeqDef
<1>4. h \in Seq(Attributed)
  <2>1. CASE h = <<>>
    BY <2>1
  <2>2. ASSUME NEW m \in [attribute : {"ClientRpc", "ServerRpc"}, class : {Unset},
                          function : Function \cup {Unset}, player : BOOLEAN],
               h = <<m>>
        PROVE  h \in Seq(Attributed)
    <3>1. m \in Attributed
      BY DEF Attributed
    <3> QED
      BY <2>2, <3>1
  <2> QED
    BY <2>1, <2>2 DEF ByHand
<1> QED
  BY <1>1, <1>3, <1>4, ConcatProperties

(* A method takes the scan of its type on.                                 *)
LEMMA ParsedMethod ==
    ASSUME NEW m \in Attributed, NEW scan \in Scan
    PROVE  ParseMethod(m, scan) \in Scan
<1> DEFINE class == IF m.class # Unset THEN m.class ELSE scan.class
           rpc == <<class, m.function>>
<1> USE DEF Attributed, Scan
<1>1. CASE scan.stopped \/ ~m.player
  BY <1>1 DEF ParseMethod
<1>2. CASE ~(scan.stopped \/ ~m.player) /\ (class = Unset \/ m.function = Unset)
  <2>1. ParseMethod(m, scan) = [scan EXCEPT !.stopped = TRUE]
    BY <1>2 DEF ParseMethod
  <2> QED
    BY <2>1
<1>3. CASE ~(scan.stopped \/ ~m.player) /\ ~(class = Unset \/ m.function = Unset)
  <2>1. rpc \in Rpc /\ class \in Class \cup {Unset}
    BY <1>3 DEF Rpc
  <2>2. Append(scan.client, rpc) \in Seq(Rpc) /\ Append(scan.server, rpc) \in Seq(Rpc)
    BY <2>1, AppendProperties
  <2>3. ParseMethod(m, scan) = IF m.attribute = "ClientRpc"
             THEN [scan EXCEPT !.class = class, !.client = Append(@, rpc)]
             ELSE [scan EXCEPT !.class = class, !.server = Append(@, rpc)]
    BY <1>3 DEF ParseMethod
  <2> QED
    BY <2>1, <2>2, <2>3
<1> QED
  BY <1>1, <1>2, <1>3

(* The functions that the scan of a type finds are remote functions.       *)
LEMMA ParsedType ==
    ASSUME NEW type \in PluginType
    PROVE  ParseType(type) \in Scan
<1> DEFINE n == Len(type)
           b == [class |-> Unset, stopped |-> FALSE, client |-> <<>>, server |-> <<>>]
           G == [x \in (1 .. n) \X Scan |-> ParseMethod(type[x[1]], x[2])]
           Scans(f) == f = [i \in 0 .. n |-> IF i = 0 THEN b ELSE ParseMethod(type[i], f[i - 1])]
           scan == CHOOSE f : Scans(f)
<1>1. n \in Nat /\ \A i \in 1 .. n : type[i] \in Attributed
  BY MethodsOfTypes, LenProperties, ElementOfSeq
<1>2. b \in Scan
  BY EmptySeq DEF Scan
<1>3. G \in [(1 .. n) \X Scan -> Scan]
  BY <1>1, ParsedMethod
<1>4. PICK f : Iterates(f, n, Scan, b, G)
  <2> HIDE DEF G, b, n
  <2> QED
    BY <1>1, <1>2, <1>3, Recursion DEF StepOver
<1>5. \A i \in 1 .. n : f[i] = ParseMethod(type[i], f[i - 1])
  <2> TAKE i \in 1 .. n
  <2>1. <<i, f[i - 1]>> \in (1 .. n) \X Scan
    BY <1>1, <1>4 DEF Iterates
  <2> QED
    BY <1>4, <2>1 DEF Iterates
<1>6. Scans(f)
  <2>1. \A i \in 0 .. n : i # 0 => i \in 1 .. n
    BY <1>1
  <2> QED
    BY <1>4, <1>5, <2>1 DEF Iterates
<1>7. Scans(scan)
  BY <1>6
<1>8. \A i \in 0 .. n : scan[i] \in Scan
  <2>1. 0 \in 0 .. n /\ \A i \in 1 .. n : i \in 0 .. n /\ i # 0
    BY <1>1
  <2>2. scan[0] = b /\ \A i \in 1 .. n : scan[i] = ParseMethod(type[i], scan[i - 1])
    <3> HIDE DEF scan
    <3> QED
      BY <1>7, <2>1
  <2>3. \A i \in 1 .. n : scan[i - 1] \in Scan => scan[i] \in Scan
    BY <1>1, <2>2, ParsedMethod
  <2>4. scan[0] \in Scan
    BY <1>2, <2>2
  <2> HIDE DEF scan, n
  <2> QED
    BY <1>1, <2>3, <2>4, AlongInterval
<1>9. n \in 0 .. n
  BY <1>1
<1> QED
  BY <1>8, <1>9 DEF ParseType

(* The calls of the session are told by the numbers of this start of the   *)
(* server, and so are the tables of the client once the definitions, which *)
(* come first, have been handled.                                          *)
ToldBy(ids) == {c \in Call : c.id < Len(ids) /\ ids[c.id + 1] = c.of}

NoTables   == clientRpcs = <<>> /\ serverRpcs = <<>>
TablesTold == /\ clientRpcs = clientIds
              /\ \A r \in DOMAIN serverRpcs :
                     [id |-> serverRpcs[r], of |-> r] \in ToldBy(serverIds)

RpcsInv ==
    /\ clientIds \in Seq(Rpc) /\ serverIds \in Seq(Rpc)
    /\ methods = serverIds
    /\ toServer \in Seq(ToldBy(serverIds)) /\ inbox \in Seq(ToldBy(serverIds))
    /\ joined \in BOOLEAN
    /\ joined => host = "up"
    /\ inbox # <<>> => host = "up"
    /\ ~joined => toClient = <<>> /\ toServer = <<>> /\ NoTables
    /\ joined =>
         \/ /\ NoTables
            /\ \E calls \in Seq(ToldBy(clientIds)) : toClient = <<Serialize>> \o calls
         \/ /\ TablesTold
            /\ toClient \in Seq(ToldBy(clientIds))

(* The number of a function in a table, of two the last.                   *)
LEMMA LastNumber ==
    ASSUME NEW ids \in Seq(Rpc), NEW r \in ToSet(ids)
    PROVE  /\ SelectLastInSeq(ids, LAMBDA q : q = r) \in 1 .. Len(ids)
           /\ ids[SelectLastInSeq(ids, LAMBDA q : q = r)] = r
<1> DEFINE I == {i \in 1 .. Len(ids) : ids[i] = r}
<1>1. Len(ids) \in Nat /\ DOMAIN ids = 1 .. Len(ids)
  BY LenProperties
<1>2. I # {} /\ I \in SUBSET Nat /\ \A i \in I : i <= Len(ids)
  BY <1>1 DEF ToSet
<1>3. \E m \in I : \A k \in I : k <= m
  <2> HIDE DEF I
  <2> QED
    BY <1>1, <1>2, Greatest
<1>4. \E m \in I : \A k \in I : m >= k
  BY <1>1, <1>3
<1>5. Max(I) \in I
  BY <1>4 DEF Max
<1> QED
  BY <1>2, <1>5 DEF SelectLastInSeq

(* What the client makes of the definitions is what they say.              *)
LEMMA HandledDefinitions ==
    ASSUME RpcsInv, HandleRpcDefinitions
    PROVE  /\ NoTables
           /\ \E calls \in Seq(ToldBy(clientIds)) : toClient = <<Serialize>> \o calls
           /\ toClient' \in Seq(ToldBy(clientIds))
           /\ TablesTold'
<1>1. toClient # <<>> /\ "client" \in DOMAIN Head(toClient) /\ joined
  BY DEF HandleRpcDefinitions
<1>2. toClient \notin Seq(ToldBy(clientIds))
  <2> SUFFICES ASSUME toClient \in Seq(ToldBy(clientIds)) PROVE FALSE
    OBVIOUS
  <2>1. Head(toClient) \in Call
    BY <1>1, HeadTailProperties DEF ToldBy
  <2> QED
    BY <1>1, <2>1 DEF Call
<1>3. NoTables /\ \E calls \in Seq(ToldBy(clientIds)) : toClient = <<Serialize>> \o calls
  BY <1>1, <1>2 DEF RpcsInv
<1>4. PICK calls \in Seq(ToldBy(clientIds)) : toClient = <<Serialize>> \o calls
  BY <1>3
<1>5. Head(toClient) = Serialize /\ Tail(toClient) = calls
  BY <1>4
<1>6. toClient' = calls
  BY <1>5 DEF HandleRpcDefinitions
<1> DEFINE m == Head(toClient)
<1>7. m.client = Numbered(clientIds) /\ m.server = Numbered(serverIds)
  BY <1>5 DEF Serialize
<1>8. UNCHANGED <<clientIds, serverIds>>
  BY DEF HandleRpcDefinitions, serverVars
<1>9. clientRpcs' = clientIds
  <2> DEFINE Table(n) == [i \in DOMAIN n |-> (CHOOSE d \in ToSet(n) : d.id = i - 1).rpc]
  <2>1. clientRpcs' = Table(Numbered(clientIds))
    <3>1. clientRpcs' = Table(m.client)
      BY DEF HandleRpcDefinitions
    <3> HIDE DEF Table, m
    <3> QED
      BY <1>7, <3>1
  <2>2. Len(clientIds) \in Nat /\ DOMAIN clientIds = 1 .. Len(clientIds)
    BY LenProperties DEF RpcsInv
  <2>3. DOMAIN Numbered(clientIds) = 1 .. Len(clientIds)
    BY <2>2 DEF Numbered
  <2>4. ASSUME NEW i \in 1 .. Len(clientIds)
        PROVE  (CHOOSE d \in ToSet(Numbered(clientIds)) : d.id = i - 1).rpc = clientIds[i]
    <3> DEFINE e == [id |-> i - 1, rpc |-> clientIds[i]]
    <3>1. e \in ToSet(Numbered(clientIds)) /\ e.id = i - 1
      BY <2>2 DEF Numbered, ToSet
    <3>2. \A d \in ToSet(Numbered(clientIds)) : d.id = i - 1 => d = e
      <4> SUFFICES ASSUME NEW j \in 1 .. Len(clientIds),
                          [id |-> j - 1, rpc |-> clientIds[j]].id = i - 1
                   PROVE  [id |-> j - 1, rpc |-> clientIds[j]] = e
        BY <2>2 DEF Numbered, ToSet
      <4>1. i = j
        BY <2>2
      <4> QED
        BY <4>1
    <3>3. (CHOOSE d \in ToSet(Numbered(clientIds)) : d.id = i - 1) = e
      <4> HIDE DEF e
      <4> QED
        BY <3>1, <3>2
    <3>4. e.rpc = clientIds[i]
      OBVIOUS
    <3> HIDE DEF e
    <3> QED
      BY <3>3, <3>4
  <2>5. clientRpcs' = [i \in 1 .. Len(clientIds) |-> clientIds[i]]
    BY <2>1, <2>3, <2>4
  <2> QED
    BY <2>2, <2>5 DEF RpcsInv
<1>10. ASSUME NEW r \in DOMAIN serverRpcs'
       PROVE  [id |-> serverRpcs'[r], of |-> r] \in ToldBy(serverIds)
  <2> DEFINE D == ToSet(Numbered(serverIds))
             Latest(d) == d.rpc = r /\ \A e \in D : e.rpc = r => e.id <= d.id
             I == {i \in 0 .. Len(serverIds) - 1 : serverIds[i + 1] = r}
  <2>1. Len(serverIds) \in Nat /\ DOMAIN serverIds = 1 .. Len(serverIds)
        /\ \A i \in 1 .. Len(serverIds) : serverIds[i] \in Rpc
    BY LenProperties, ElementOfSeq DEF RpcsInv
  <2>2. D = {[id |-> i, rpc |-> serverIds[i + 1]] : i \in 0 .. Len(serverIds) - 1}
    <3>1. \A i \in 1 .. Len(serverIds) : i - 1 \in 0 .. Len(serverIds) - 1 /\ (i - 1) + 1 = i
      BY <2>1
    <3>2. \A i \in 0 .. Len(serverIds) - 1 : i + 1 \in 1 .. Len(serverIds) /\ (i + 1) - 1 = i
      BY <2>1
    <3>3. D = {[id |-> i - 1, rpc |-> serverIds[i]] : i \in 1 .. Len(serverIds)}
      BY <2>1 DEF Numbered, ToSet
    <3> QED
      BY <3>1, <3>2, <3>3
  <2>3. DOMAIN serverRpcs = {}
    BY <1>3 DEF NoTables
  <2> DEFINE Table(old, S) == [q \in old \cup {d.rpc : d \in S} |->
                 IF \E d \in S : d.rpc = q
                 THEN (CHOOSE d \in S : d.rpc = q /\ \A e \in S : e.rpc = q => e.id <= d.id).id
                 ELSE serverRpcs[q]]
  <2>4. serverRpcs' = Table({}, D)
    <3>1. serverRpcs' = Table(DOMAIN serverRpcs, ToSet(m.server))
      BY DEF HandleRpcDefinitions
    <3> HIDE DEF Table, m
    <3> QED
      BY <1>7, <2>3, <3>1
  <2>5. \E d \in D : d.rpc = r
    BY <2>4
  <2>6. serverRpcs'[r] = (CHOOSE d \in D : Latest(d)).id
    BY <2>4, <2>5
  <2>7. I # {} /\ I \in SUBSET Nat /\ \A i \in I : i <= Len(serverIds)
    <3>1. PICK d \in D : d.rpc = r
      BY <2>5
    <3> HIDE DEF D, Table, Latest
    <3>2. PICK i \in 0 .. Len(serverIds) - 1 : d = [id |-> i, rpc |-> serverIds[i + 1]]
      BY <2>2, <3>1
    <3>3. I # {}
      BY <3>1, <3>2
    <3>4. \A k \in 0 .. Len(serverIds) - 1 : k \in Nat /\ k <= Len(serverIds)
      BY <2>1
    <3>5. I \subseteq 0 .. Len(serverIds) - 1
      OBVIOUS
    <3> HIDE DEF I
    <3> QED
      BY <3>3, <3>4, <3>5
  <2>8. PICK i \in I : \A k \in I : k <= i
    <3> HIDE DEF I
    <3> QED
      BY <2>1, <2>7, Greatest
  <2>9. \E d \in D : Latest(d)
    <3>1. [id |-> i, rpc |-> serverIds[i + 1]] \in D
      BY <2>2, <2>8
    <3>2. \A e \in D : e.rpc = r => e.id \in I
      BY <2>2
    <3>3. Latest([id |-> i, rpc |-> serverIds[i + 1]])
      BY <2>8, <3>2
    <3> QED
      BY <3>1, <3>3
  <2>10. PICK d \in D : Latest(d) /\ serverRpcs'[r] = d.id
    <3> HIDE DEF D, Latest
    <3> QED
      BY <2>6, <2>9
  <2>11. d.id \in Nat /\ d.id < Len(serverIds) /\ serverIds[d.id + 1] = r /\ r \in Rpc
    <3>1. PICK j \in 0 .. Len(serverIds) - 1 : d = [id |-> j, rpc |-> serverIds[j + 1]]
      BY <2>2
    <3>2. j + 1 \in 1 .. Len(serverIds)
      BY <2>1
    <3> QED
      BY <2>1, <2>10, <3>1, <3>2
  <2> QED
    BY <2>10, <2>11 DEF ToldBy, Call
<1> QED
  BY <1>3, <1>6, <1>8, <1>9, <1>10 DEF TablesTold

(* No session has been told of anything at first.                          *)
LEMMA RpcsInvInit == RpcsInit => RpcsInv
<1> SUFFICES ASSUME RpcsInit PROVE RpcsInv
  OBVIOUS
<1>1. <<>> \o <<>> = <<>> /\ \A S : <<>> \in Seq(S)
  OBVIOUS
<1> QED
  BY <1>1 DEF RpcsInit, RpcsInv, NoTables, ToldBy

LEMMA RpcsInvStep == RpcsInv /\ [RpcsNext]_rpcsVars => RpcsInv'
<1> SUFFICES ASSUME RpcsInv, [RpcsNext]_rpcsVars PROVE RpcsInv'
  OBVIOUS
<1> USE DEF serverVars, tableVars
<1>1. ASSUME UNCHANGED <<clientIds, serverIds>>
      PROVE  /\ UNCHANGED <<ToldBy(clientIds), ToldBy(serverIds), Serialize>>
             /\ UNCHANGED tableVars => NoTables' = NoTables /\ TablesTold' = TablesTold
  BY <1>1 DEF ToldBy, Serialize, Numbered, NoTables, TablesTold
<1>2. ASSUME UNCHANGED <<serverVars, tableVars, joined, toClient, toServer, inbox>>
      PROVE  RpcsInv'
  <2>1. UNCHANGED <<ToldBy(clientIds), ToldBy(serverIds), Serialize, NoTables, TablesTold>>
    BY <1>1, <1>2
  <2> QED
    BY <1>2, <2>1 DEF RpcsInv
<1>3. CASE Start
  <2>1. ~joined /\ toServer = <<>> /\ inbox = <<>>
    BY <1>3 DEF Start, RpcsInv
  <2> QED
    BY <1>3, <2>1 DEF Start, RpcsInv, NoTables
<1>4. CASE LoadPlugin
  <2>1. ~joined /\ toServer = <<>> /\ inbox = <<>>
    BY <1>4 DEF LoadPlugin, RpcsInv
  <2>2. PICK t \in PluginType : /\ clientIds' = clientIds \o ParseType(t).client
                                /\ serverIds' = serverIds \o ParseType(t).server
                                /\ methods' = methods \o ParseType(t).server
    BY <1>4 DEF LoadPlugin
  <2>3. ParseType(t).client \in Seq(Rpc) /\ ParseType(t).server \in Seq(Rpc)
    BY ParsedType DEF Scan
  <2>4. clientIds' \in Seq(Rpc) /\ serverIds' \in Seq(Rpc) /\ methods' = serverIds'
    BY <2>2, <2>3, ConcatProperties DEF RpcsInv
  <2> QED
    BY <1>4, <2>1, <2>4 DEF LoadPlugin, RpcsInv, NoTables
<1>5. CASE Listens
  <2>1. ~joined /\ inbox = <<>>
    BY <1>5 DEF Listens, RpcsInv
  <2> QED
    BY <1>1, <1>5, <2>1 DEF Listens, RpcsInv
<1>6. CASE Join
  <2>1. UNCHANGED <<ToldBy(clientIds), ToldBy(serverIds), Serialize, NoTables>>
    BY <1>1, <1>6 DEF Join
  <2>2. toClient' = <<Serialize>> \o <<>> /\ <<>> \in Seq(ToldBy(clientIds))
    BY <1>6 DEF Join
  <2>3. NoTables /\ <<>> \in Seq(ToldBy(serverIds))
    BY <1>6 DEF Join, RpcsInv
  <2> QED
    BY <1>6, <2>1, <2>2, <2>3 DEF Join, RpcsInv
<1>7. CASE HandleRpcDefinitions
  <2>1. UNCHANGED <<ToldBy(clientIds), ToldBy(serverIds)>>
    BY <1>1, <1>7 DEF HandleRpcDefinitions
  <2>2. toClient' \in Seq(ToldBy(clientIds)) /\ TablesTold'
    BY <1>7, HandledDefinitions
  <2>3. joined
    BY <1>7 DEF HandleRpcDefinitions
  <2> QED
    BY <1>7, <2>1, <2>2, <2>3 DEF HandleRpcDefinitions, RpcsInv
<1>8. ASSUME NEW rpc \in Rpc, RunRpcFunction(rpc)
      PROVE  RpcsInv'
  <2>1. UNCHANGED <<ToldBy(clientIds), ToldBy(serverIds), Serialize, NoTables, TablesTold>>
    BY <1>1, <1>8 DEF RunRpcFunction
  <2>2. joined /\ ~NoTables
    BY <1>8 DEF RunRpcFunction, NoTables
  <2>3. TablesTold
    BY <2>2 DEF RpcsInv
  <2>4. [id |-> serverRpcs[rpc], of |-> rpc] \in ToldBy(serverIds)
    BY <1>8, <2>3 DEF RunRpcFunction, TablesTold
  <2>5. toServer' \in Seq(ToldBy(serverIds))
    BY <1>8, <2>4, AppendProperties DEF RunRpcFunction, RpcsInv
  <2> QED
    BY <1>8, <2>1, <2>2, <2>3, <2>5 DEF RunRpcFunction, RpcsInv
<1>9. ASSUME NEW rpc \in Rpc, CallClient(rpc)
      PROVE  RpcsInv'
  <2>1. UNCHANGED <<ToldBy(clientIds), ToldBy(serverIds), Serialize, NoTables, TablesTold>>
    BY <1>1, <1>9 DEF CallClient
  <2> DEFINE last == SelectLastInSeq(clientIds, LAMBDA r : r = rpc)
             call == [id |-> last - 1, of |-> rpc]
  <2>2. call \in ToldBy(clientIds)
    <3>1. clientIds \in Seq(Rpc) /\ rpc \in ToSet(clientIds)
      BY <1>9 DEF CallClient, RpcsInv
    <3>2. last \in 1 .. Len(clientIds) /\ clientIds[last] = rpc
      BY <3>1, LastNumber
    <3>3. Len(clientIds) \in Nat
      BY <3>1, LenProperties
    <3> HIDE DEF last
    <3>4. last - 1 \in Nat /\ last - 1 < Len(clientIds) /\ (last - 1) + 1 = last
      BY <3>2, <3>3
    <3> QED
      BY <3>2, <3>4 DEF ToldBy, Call
  <2>3. toClient' = Append(toClient, call) /\ joined /\ joined' = joined
    BY <1>9 DEF CallClient
  <2> HIDE DEF call
  <2>4. ASSUME NEW calls \in Seq(ToldBy(clientIds)), toClient = <<Serialize>> \o calls
        PROVE  \E more \in Seq(ToldBy(clientIds)) : toClient' = <<Serialize>> \o more
    <3>1. Append(calls, call) \in Seq(ToldBy(clientIds))
      BY <2>2, AppendProperties
    <3>2. Append(<<Serialize>> \o calls, call) = <<Serialize>> \o Append(calls, call)
      BY <2>2
    <3> QED
      BY <2>3, <2>4, <3>1, <3>2
  <2>5. toClient \in Seq(ToldBy(clientIds)) => toClient' \in Seq(ToldBy(clientIds))
    BY <2>2, <2>3, AppendProperties
  <2>6. \/ /\ NoTables'
           /\ \E more \in Seq(ToldBy(clientIds)) : toClient' = <<Serialize>> \o more
        \/ /\ TablesTold'
           /\ toClient' \in Seq(ToldBy(clientIds))
    BY <2>1, <2>3, <2>4, <2>5 DEF RpcsInv
  <2>7. UNCHANGED <<clientIds, serverIds, methods, toServer, inbox, joined, host>>
    BY <1>9 DEF CallClient
  <2>8. \/ /\ NoTables'
           /\ \E more \in Seq(ToldBy(clientIds)') : toClient' = <<Serialize'>> \o more
        \/ /\ TablesTold'
           /\ toClient' \in Seq(ToldBy(clientIds)')
    <3> HIDE DEF call
    <3> QED
      BY <2>1, <2>6
  <2>9. joined /\ joined' /\ ToldBy(serverIds)' = ToldBy(serverIds)
    BY <2>1, <2>3
  <2>10. /\ clientIds' \in Seq(Rpc) /\ serverIds' \in Seq(Rpc)
         /\ methods' = serverIds'
         /\ toServer' \in Seq(ToldBy(serverIds)') /\ inbox' \in Seq(ToldBy(serverIds)')
         /\ joined' \in BOOLEAN
         /\ host' = "up"
    BY <2>7, <2>9 DEF RpcsInv
  <2> QED
    BY <2>8, <2>9, <2>10 DEF RpcsInv
<1>10. CASE QueueCall
  <2>1. UNCHANGED <<ToldBy(clientIds), ToldBy(serverIds), Serialize, NoTables, TablesTold>>
    BY <1>1, <1>10 DEF QueueCall
  <2>2. /\ inbox' \in Seq(ToldBy(serverIds))
        /\ toServer' \in Seq(ToldBy(serverIds))
    BY <1>10, AppendProperties, HeadTailProperties DEF QueueCall, RpcsInv
  <2> QED
    BY <1>10, <2>1, <2>2 DEF QueueCall, RpcsInv
<1>11. CASE Poll
  <2>1. UNCHANGED <<ToldBy(clientIds), ToldBy(serverIds), Serialize, NoTables, TablesTold>>
    BY <1>1, <1>11 DEF Poll
  <2>2. inbox' \in Seq(ToldBy(serverIds))
    BY <1>11 DEF Poll
  <2> QED
    BY <1>11, <2>1, <2>2 DEF Poll, RpcsInv
<1>12. CASE HandleRpc
  <2>1. UNCHANGED <<ToldBy(clientIds), ToldBy(serverIds), Serialize, NoTables, TablesTold>>
    BY <1>1, <1>12 DEF HandleRpc
  <2>2. \A calls : toClient # <<Serialize>> \o calls \/ calls \notin Seq(ToldBy(clientIds))
    <3> SUFFICES ASSUME NEW calls \in Seq(ToldBy(clientIds)), toClient = <<Serialize>> \o calls
                 PROVE  FALSE
      OBVIOUS
    <3>1. Head(toClient) = Serialize
      OBVIOUS
    <3> QED
      BY <1>12, <3>1 DEF HandleRpc, Serialize
  <2>3. TablesTold /\ toClient \in Seq(ToldBy(clientIds)) /\ toClient # <<>>
    BY <1>12, <2>2 DEF HandleRpc, RpcsInv
  <2>4. toClient' \in Seq(ToldBy(clientIds))
    BY <1>12, <2>3, HeadTailProperties DEF HandleRpc
  <2> QED
    BY <1>12, <2>1, <2>3, <2>4 DEF HandleRpc, RpcsInv
<1>13. CASE Disconnect
  <2>1. UNCHANGED <<ToldBy(serverIds)>>
    BY <1>1, <1>13 DEF Disconnect
  <2>2. toServer' \in Seq(ToldBy(serverIds)) /\ NoTables'
    BY <1>13 DEF Disconnect, OnDisconnected, NoTables
  <2> QED
    BY <1>13, <2>1, <2>2 DEF Disconnect, RpcsInv
<1>14. CASE Stop
  <2>1. UNCHANGED <<ToldBy(serverIds), NoTables>>
    BY <1>1, <1>14 DEF Stop
  <2> QED
    BY <1>14, <2>1 DEF Stop, RpcsInv
<1>15. CASE Validate \/ PrepareRpc \/ UNCHANGED rpcsVars
  BY <1>2, <1>15 DEF Validate, PrepareRpc, rpcsVars
<1> QED
  BY <1>3, <1>4, <1>5, <1>6, <1>7, <1>8, <1>9, <1>10, <1>11, <1>12, <1>13, <1>14, <1>15
     DEF RpcsNext

(* A number that was told is that of the function it was told for.         *)
LEMMA TableIsMeant == RpcsInv => CallsReachTheirFunction
<1> SUFFICES ASSUME RpcsInv PROVE CallsReachTheirFunction
  OBVIOUS
<1>1. ASSUME NEW c \in ToSet(toServer \o inbox)
      PROVE  c.id < Len(methods) /\ methods[c.id + 1] = c.of
  <2>1. toServer \o inbox \in Seq(ToldBy(serverIds))
    BY ConcatProperties DEF RpcsInv
  <2>2. c \in ToldBy(serverIds)
    BY <2>1, LenProperties, ElementOfSeq DEF ToSet
  <2> QED
    BY <2>2 DEF ToldBy, RpcsInv
<1>2. ASSUME toClient # <<>>, "of" \in DOMAIN Head(toClient)
      PROVE  /\ Head(toClient).id < Len(clientRpcs)
             /\ clientRpcs[Head(toClient).id + 1] = Head(toClient).of
  <2>1. \A calls : toClient # <<Serialize>> \o calls \/ calls \notin Seq(ToldBy(clientIds))
    <3> SUFFICES ASSUME NEW calls \in Seq(ToldBy(clientIds)), toClient = <<Serialize>> \o calls
                 PROVE  FALSE
      OBVIOUS
    <3>1. Head(toClient) = Serialize
      OBVIOUS
    <3> QED
      BY <1>2, <3>1 DEF Serialize
  <2>2. TablesTold /\ toClient \in Seq(ToldBy(clientIds))
    BY <1>2, <2>1 DEF RpcsInv
  <2>3. Head(toClient) \in ToldBy(clientIds)
    BY <1>2, <2>2, HeadTailProperties
  <2> QED
    BY <2>2, <2>3 DEF ToldBy, TablesTold
<1> QED
  BY <1>1, <1>2 DEF CallsReachTheirFunction

-----------------------------------------------------------------------------
(* What a type is made of is a type.                                       *)
LEMMA PartsAreTypes ==
    ASSUME graph \in Graph, NEW S \in SUBSET AnyType
    PROVE  PartsOf(S) \in SUBSET AnyType
<1> USE CsharpAssumption
<1>1. ASSUME NEW t \in S, IsArray(t)
      PROVE  Inner(t) \in AnyType
  BY <1>1 DEF IsArray, Inner, AnyType, Named
<1>2. ASSUME NEW c \in Scripted
      PROVE  Within(c) \in SUBSET AnyType
  <2>1. /\ graph.parent \in [Scripted -> Scripted \cup {Parentless}]
        /\ graph.member \in [Scripted -> AnyType]
    BY DEF Graph
  <2>2. Members(c) \in SUBSET AnyType
    BY <2>1 DEF Members
  <2>3. ASSUME NEW p \in {graph.parent[c]} \ {Parentless}
        PROVE  <<p>> \in AnyType
    BY <2>1, <2>3 DEF AnyType, Named
  <2> QED
    BY <2>2, <2>3 DEF Within
<1> QED
  BY <1>1, <1>2 DEF PartsOf

(* The depth of the calls is a number, and not zero.                       *)
LEMMA Depths == MaxDepth \in Nat \ {0}
BY CsharpAssumption, FS_CardinalityType DEF MaxDepth

(* The calls are those of the parameter, and then of the parts.            *)
LEMMA CallsGoDeeper ==
    ASSUME graph \in Graph
    PROVE  /\ \A n \in 0 .. MaxDepth : CallsAt[n] \in SUBSET AnyType
           /\ CallsAt[0] = {graph.param}
           /\ \A n \in 1 .. MaxDepth : CallsAt[n] = PartsOf(CallsAt[n - 1])
<1> DEFINE T == SUBSET AnyType
           b == {graph.param}
           G == [x \in (1 .. MaxDepth) \X T |-> PartsOf(x[2])]
           Deepens(f) == f = [n \in 0 .. MaxDepth |-> IF n = 0 THEN b ELSE PartsOf(f[n - 1])]
<1>1. G \in [(1 .. MaxDepth) \X T -> T] /\ b \in T
  BY PartsAreTypes DEF Graph
<1>2. PICK f : Iterates(f, MaxDepth, T, b, G)
  <2> HIDE DEF G, T, b
  <2> QED
    BY <1>1, Depths, Recursion DEF StepOver
<1>3. \A i \in 1 .. MaxDepth : f[i] = PartsOf(f[i - 1])
  <2> TAKE i \in 1 .. MaxDepth
  <2>1. i - 1 \in 0 .. MaxDepth
    BY Depths
  <2>2. <<i, f[i - 1]>> \in (1 .. MaxDepth) \X T
    BY <1>2, <2>1 DEF Iterates
  <2> QED
    BY <1>2, <2>2 DEF Iterates
<1>4. Deepens(f)
  <2>1. \A i \in 0 .. MaxDepth : i # 0 => i \in 1 .. MaxDepth
    BY Depths
  <2> QED
    BY <1>2, <1>3, <2>1 DEF Iterates
<1>5. Deepens(CallsAt)
  BY <1>4 DEF CallsAt
<1>6. CallsAt[0] = b /\ \A n \in 1 .. MaxDepth : CallsAt[n] = PartsOf(CallsAt[n - 1])
  <2>1. 0 \in 0 .. MaxDepth /\ \A n \in 1 .. MaxDepth : n \in 0 .. MaxDepth /\ n # 0
    BY Depths
  <2> DEFINE g == CallsAt
  <2>2. Deepens(g)
    BY <1>5
  <2>3. g[0] = b /\ \A n \in 1 .. MaxDepth : g[n] = PartsOf(g[n - 1])
    <3> HIDE DEF g
    <3> QED
      BY <2>1, <2>2
  <2> QED
    BY <2>3
<1>7. \A n \in 0 .. MaxDepth : CallsAt[n] \in T
  <2>1. \A i \in 1 .. MaxDepth : CallsAt[i - 1] \in T => CallsAt[i] \in T
    BY <1>6, PartsAreTypes
  <2>2. CallsAt[0] \in T
    BY <1>1, <1>6
  <2> DEFINE g == CallsAt
  <2>3. \A n \in 0 .. MaxDepth : g[n] \in T
    <3>1. g[0] \in T /\ \A i \in 1 .. MaxDepth : g[i - 1] \in T => g[i] \in T
      BY <2>1, <2>2
    <3> HIDE DEF g, T
    <3> QED
      BY <3>1, Depths, AlongInterval
  <2> QED
    BY <2>3
<1> QED
  BY <1>6, <1>7

(* All that is met is a type, and so are the parts, which are met as well. *)
LEMMA MetIsWhole ==
    ASSUME graph \in Graph, ~Endless
    PROVE  /\ Met \in SUBSET AnyType
           /\ graph.param \in Met
           /\ PartsOf(Met) \subseteq Met
<1>1. /\ \A n \in 0 .. MaxDepth : CallsAt[n] \in SUBSET AnyType
      /\ CallsAt[0] = {graph.param}
      /\ \A n \in 1 .. MaxDepth : CallsAt[n] = PartsOf(CallsAt[n - 1])
  BY CallsGoDeeper
<1>2. Met \in SUBSET AnyType /\ graph.param \in Met
  BY <1>1, Depths DEF Met
<1>3. \A n \in 0 .. MaxDepth : PartsOf(CallsAt[n]) \subseteq Met
  <2> TAKE n \in 0 .. MaxDepth
  <2>1. CASE n = MaxDepth
    BY <2>1 DEF Endless, PartsOf
  <2>2. CASE n < MaxDepth
    <3>1. n + 1 \in 1 .. MaxDepth /\ (n + 1) - 1 = n /\ n + 1 \in 0 .. MaxDepth
      BY <2>2, Depths
    <3>2. CallsAt[n + 1] = PartsOf(CallsAt[n])
      BY <1>1, <3>1
    <3> QED
      BY <3>1, <3>2 DEF Met
  <2> QED
    BY <2>1, <2>2, Depths
<1>4. ASSUME NEW t \in Met, IsArray(t)
      PROVE  Inner(t) \in Met
  <2>1. PICK n \in 0 .. MaxDepth : t \in CallsAt[n]
    BY DEF Met
  <2>2. Inner(t) \in PartsOf(CallsAt[n])
    BY <1>4, <2>1 DEF PartsOf
  <2> QED
    BY <1>3, <2>2
<1>5. ASSUME NEW c \in Scripted, <<c>> \in Met
      PROVE  Within(c) \subseteq Met
  <2>1. PICK n \in 0 .. MaxDepth : <<c>> \in CallsAt[n]
    BY <1>5 DEF Met
  <2>2. Within(c) \subseteq PartsOf(CallsAt[n])
    BY <2>1 DEF PartsOf
  <2> QED
    BY <1>3, <2>2
<1>6. PartsOf(Met) \subseteq Met
  BY <1>4, <1>5 DEF PartsOf
<1> QED
  BY <1>2, <1>6

(* What has been found of the types, once there is an end to them.         *)
CsharpInv ==
    /\ graph \in Graph
    /\ dump \in {"before", "validated", "handled", "written", "overflow"}
    /\ dump \in {"validated", "handled", "written"} =>
           /\ ~Endless
           /\ reported = (Found({"enum", "handle"}) # {})
    /\ dump = "written" =>
           redTypes = {DeclarationOf(n) : n \in Found(Scripted) \cup Found({"enum"})}

(* The types stay as they are, and what is written is what was found.      *)
LEMMA CsharpInvStep == CsharpInv /\ [CsharpNext]_csharpVars => CsharpInv'
<1> SUFFICES ASSUME CsharpInv, [CsharpNext]_csharpVars PROVE CsharpInv'
  OBVIOUS
<1>1. graph' = graph
  BY DEF CsharpNext, csharpVars, InternalValidate, GenerateHandlers, DumpCsharp
<1>2. (MaxDepth)' = MaxDepth /\ Endless' = Endless /\ \A N : Found(N)' = Found(N)
  BY <1>1 DEF Endless, Found, Met, CallsAt, PartsOf, Within, Members
<1>3. \A n : DeclarationOf(n)' = DeclarationOf(n)
  BY <1>1 DEF DeclarationOf, RpcName, NameOf, Mentioned, Members
<1>4. CASE InternalValidate
  BY <1>1, <1>2, <1>4 DEF CsharpInv, InternalValidate
<1>5. CASE GenerateHandlers
  BY <1>1, <1>2, <1>5 DEF CsharpInv, GenerateHandlers
<1>6. CASE DumpCsharp
  BY <1>1, <1>2, <1>3, <1>6 DEF CsharpInv, DumpCsharp, CollectTypes
<1>7. CASE UNCHANGED csharpVars
  BY <1>1, <1>2, <1>3, <1>7 DEF CsharpInv, csharpVars
<1> QED
  BY <1>4, <1>5, <1>6, <1>7 DEF CsharpNext

(* What is written declares all that is mentioned, and each name once.     *)
LEMMA WrittenCompiles == CsharpInv => LibrariesCompile
<1> SUFFICES ASSUME CsharpInv, dump = "written",
                    ~(Found({"handle"}) # {} /\ reported),
                    <<"array", "int">> \notin Met,
                    \A c, d \in Found(Scripted \cup {"enum"}) : RpcName(c) = RpcName(d) => c = d
             PROVE  /\ AllMentioned \subseteq Declared \cup Keyword
                    /\ \A d, e \in redTypes : d.name = e.name => d = e
  BY DEF LibrariesCompile
<1> DEFINE There == Found(Scripted \cup {"enum"})
<1>1. /\ Met \in SUBSET AnyType
      /\ graph.param \in Met
      /\ PartsOf(Met) \subseteq Met
  BY MetIsWhole DEF CsharpInv
<1>2. <<"handle">> \notin Met
  BY DEF Found, CsharpInv
<1>3. redTypes = {DeclarationOf(n) : n \in There}
  BY DEF CsharpInv, Found
<1>4. \A n \in There : RpcName(n) \in Declared
  <2> TAKE n \in There
  <2>1. DeclarationOf(n) \in redTypes /\ DeclarationOf(n).name = RpcName(n)
    BY <1>3 DEF DeclarationOf
  <2> QED
    BY <2>1 DEF Declared
<1>5. \A t \in Met : IsArray(t) => Inner(t) \in Met
  BY <1>1 DEF PartsOf
<1>6. \A c \in Scripted : <<c>> \in Met => Within(c) \subseteq Met
  BY <1>1 DEF PartsOf
<1>7. ASSUME NEW n, <<n>> \in Met
      PROVE  NameOf(<<n>>) \in Declared \cup Keyword
  <2>1. n \in Named
    BY <1>1, <1>7 DEF AnyType
  <2>2. CASE n = "int"
    BY <2>2 DEF NameOf, Keyword
  <2>3. CASE n # "int"
    <3>1. n \in There
      BY <1>2, <1>7, <2>1, <2>3 DEF Found, Named
    <3>2. NameOf(<<n>>) = RpcName(n)
      BY <1>2, <1>7, <2>3 DEF NameOf
    <3> QED
      BY <1>4, <3>1, <3>2
  <2> QED
    BY <2>2, <2>3
<1>8. ASSUME NEW t \in Met
      PROVE  Mentioned(t) \subseteq Declared \cup Keyword
  <2>1. CASE \E n \in Named : t = <<n>>
    <3>1. PICK n \in Named : t = <<n>>
      BY <2>1
    <3>2. ~IsArray(t)
      BY <3>1, CsharpAssumption DEF IsArray, Named
    <3> QED
      BY <1>7, <3>1, <3>2 DEF Mentioned
  <2>2. CASE \E n \in Named : t = <<"array", n>>
    <3>1. PICK n \in Named : t = <<"array", n>>
      BY <2>2
    <3>2. IsArray(t) /\ Inner(t) = <<n>>
      BY <3>1 DEF IsArray, Inner
    <3>3. <<n>> \in Met
      BY <1>5, <3>2
    <3>4. n # "int" /\ n # "handle"
      BY <1>2, <3>1, <3>3
    <3>5. NameOf(t) = RpcName(n)
      <4>1. Len(t) = 2 /\ t[Len(t)] = n
        BY <3>1
      <4>2. Len(<<"int">>) = 1 /\ Len(<<"handle">>) = 1
        OBVIOUS
      <4>3. t # <<"int">> /\ t # <<"handle">>
        BY <4>1, <4>2
      <4> QED
        BY <4>1, <4>3 DEF NameOf
    <3>6. n \in There
      BY <3>3, <3>4 DEF Found, Named
    <3> QED
      BY <1>4, <1>7, <3>2, <3>3, <3>5, <3>6 DEF Mentioned
  <2> QED
    BY <1>1, <2>1, <2>2 DEF AnyType
<1>9. ASSUME NEW c \in Found(Scripted)
      PROVE  DeclarationOf(c).mentions \subseteq Declared \cup Keyword
  <2>1. c \in Scripted /\ Within(c) \subseteq Met
    BY <1>6 DEF Found
  <2>2. \A m \in Members(c) : Mentioned(m) \subseteq Declared \cup Keyword
    BY <1>8, <2>1 DEF Within
  <2>3. ASSUME NEW p \in {graph.parent[c]} \ {Parentless}
        PROVE  RpcName(p) \in Declared
    <3>1. <<p>> \in Met
      BY <2>1, <2>3 DEF Within
    <3>2. p \in Scripted
      BY <2>1, <2>3 DEF CsharpInv, Graph
    <3> QED
      BY <1>4, <3>1, <3>2 DEF Found
  <2> QED
    BY <2>1, <2>2, <2>3 DEF DeclarationOf
<1>10. "enum" \in There => DeclarationOf("enum").mentions = {}
  BY CsharpAssumption DEF DeclarationOf
<1>11. AllMentioned \subseteq Declared \cup Keyword
  <2>1. \A d \in redTypes : d.mentions \subseteq Declared \cup Keyword
    <3> SUFFICES ASSUME NEW n \in There
                 PROVE  DeclarationOf(n).mentions \subseteq Declared \cup Keyword
      BY <1>3
    <3> QED
      BY <1>9, <1>10 DEF Found
  <2> QED
    BY <1>1, <1>8, <2>1 DEF AllMentioned
<1>12. ASSUME NEW d \in redTypes, NEW e \in redTypes, d.name = e.name
       PROVE  d = e
  <2>1. PICK m \in There : d = DeclarationOf(m)
    BY <1>3
  <2>2. PICK n \in There : e = DeclarationOf(n)
    BY <1>3
  <2>3. RpcName(m) = RpcName(n)
    BY <1>12, <2>1, <2>2 DEF DeclarationOf
  <2> QED
    BY <2>1, <2>2, <2>3
<1> QED
  BY <1>11, <1>12

(* Whatever the plugins and the types are: a remote call finds the function *)
(* it was meant for, and the library through which the server makes it is   *)
(* one that compiles.  (RpcManager::HandleRpcDefinitions,                   *)
(* RpcGenerator::DumpCsharp.)                                               *)
THEOREM CallsFindWhatIsWritten == RpcsSpec /\ CsharpSpec => []CallsAreWritten
<1>1. CsharpInit => CsharpInv
  BY DEF CsharpInit, CsharpInv
<1>2. RpcsInv /\ CsharpInv => CallsAreWritten
  BY TableIsMeant, WrittenCompiles DEF CallsAreWritten
<1> QED
  BY RpcsInvInit, RpcsInvStep, <1>1, CsharpInvStep, <1>2, PTL DEF RpcsSpec, CsharpSpec
=============================================================================
