-------------------------------- MODULE Hooks --------------------------------
(***************************************************************************)
(* How the client lives inside the game: the application with its features *)
(* (Core/Foundation, App/Application.cpp), the functions of the game that  *)
(* they hook (Core/Hooking, MinHookProvider), and the tasks that threads   *)
(* of the game leave to the main thread (TaskQueue, ThreadService).        *)
(* A function is hooked in one of the manners that HookingAgent offers.    *)
(***************************************************************************)
EXTENDS Integers, Sequences

CONSTANTS
    GameThread,   \* of the game, beside the main thread
    Idle,     \* a thread that is in none of the hooks
    MaxTasks  \* bound on the tasks that wait

ASSUME HooksAssumption == MaxTasks \in Nat \ {0}

(* Functions of the game; of the three that RenderingProvider hooks, one.  *)
Target == {"Present", "Validate", "SetAnimation"}

(* Features in the order of their registration, those that matter here.    *)
Order == <<"MinHookProvider", "RenderingProvider", "ThreadService", "RpcService">>

(* Before, after or instead of the function; and what the callback takes:  *)
(* what the function takes, its result too (tail), that alone, nothing, or *)
(* the function as well (full).  An observer returns nothing.              *)
Flow == {"Original", "Before", "After", "Wrap"}
Kind == {"original", "args", "tail", "result", "blind", "full", "tailWrapper", "resultWrapper"}

(* HookFlowTraits.  Where nothing is returned the callback that stands for *)
(* the function and the observer of its arguments are the same type, and   *)
(* there is no result to observe.                                          *)
Compatible(flow, kind, returns) ==
    /\ kind \in CASE flow = "Original" -> {"original"}
                 [] flow = "Before" -> {"args", "blind"}
                 [] flow = "After" -> {"args", "blind", "tail", "result",
                                       "tailWrapper", "resultWrapper"}
                 [] flow = "Wrap" -> {"full"}
    /\ ~returns => kind \in {"original", "args", "blind", "full"}

Manner == {m \in [flow : Flow, kind : Kind, returns : BOOLEAN, once : BOOLEAN] :
              Compatible(m.flow, m.kind, m.returns)}

VARIABLES
    manner,     \* how Validate is hooked: by RpcValidator, with flow Original
    app,        \* "constructing", "booted" or "gone"; or "terminated"
    registered, \* how many features are
    pending,    \* hooks that the feature at hand has still to attach
    step,       \* of the attachment at hand
    attached,   \* HookInstance::s_attached, by target
    patched,    \* MinHook has changed the function
    callback,   \* HookHandler::s_callback is set
    original,   \* HookHandler::s_original, and what the callback goes on with
    inside,     \* where each thread is: Idle, or [target, rest, value]
    tasks,      \* ThreadService::m_queue
    draining    \* the main thread holds m_mutex, and runs them

hookVars == <<attached, patched, callback, original>>
hooksVars == <<manner, app, registered, pending, step, hookVars, inside, tasks, draining>>

HookCall == [target : Target, value : {"none", "function", "callback"},
         rest : {<<>>, <<"callback">>, <<"function">>, <<"detach">>,
                 <<"callback", "function">>, <<"function", "callback">>,
                 <<"callback", "detach">>, <<"function", "detach">>,
                 <<"callback", "function", "detach">>, <<"function", "callback", "detach">>}]

HooksTypeOK ==
    /\ manner \in Manner
    /\ app \in {"constructing", "booted", "gone", "terminated"}
    /\ registered \in 0 .. Len(Order)
    /\ pending \in Seq(Target)
    /\ step \in {"create", "enable", "callback", "original"}
    /\ attached \in [Target -> BOOLEAN] /\ patched \in [Target -> BOOLEAN]
    /\ callback \in [Target -> BOOLEAN] /\ original \in [Target -> BOOLEAN]
    /\ inside \in [GameThread -> {Idle} \cup HookCall]
    /\ tasks \in 0 .. MaxTasks
    /\ draining \in BOOLEAN

HooksInit ==
    /\ manner \in Manner
    /\ app = "constructing"
    /\ registered = 0
    /\ pending = <<>> /\ step = "create"
    /\ attached = [t \in Target |-> FALSE]
    /\ patched = [t \in Target |-> FALSE]
    /\ callback = [t \in Target |-> FALSE]
    /\ original = [t \in Target |-> FALSE]
    /\ inside = [g \in GameThread |-> Idle]
    /\ tasks = 0
    /\ draining = FALSE

-----------------------------------------------------------------------------
(* The main thread: features.                                              *)

(* Register: the feature is made and known to the container; its           *)
(* OnInitialize runs when the Defer of the registration ends.              *)
Register ==
    /\ app = "constructing"
    /\ pending = <<>>
    /\ registered < Len(Order)
    /\ registered' = registered + 1
    /\ pending' = CASE Order[registered + 1] = "RenderingProvider" -> <<"Present">>
                 [] Order[registered + 1] = "RpcService" -> <<"Validate">>
                 [] OTHER -> <<>>
    /\ UNCHANGED <<manner, app, step, hookVars, inside, tasks, draining>>

(* Application::Bootstrap.                                                 *)
Bootstrap ==
    /\ app = "constructing"
    /\ registered = Len(Order) /\ pending = <<>>
    /\ app' = "booted"
    /\ UNCHANGED <<manner, registered, pending, step, hookVars, inside, tasks, draining>>

(* InterpolationSystem::OnInitialize, whenever the game makes its systems. *)
MakeSystems ==
    /\ app = "booted"
    /\ pending = <<>> /\ ~draining
    /\ pending' = <<"SetAnimation">>
    /\ UNCHANGED <<manner, app, registered, step, hookVars, inside, tasks, draining>>

(* Application::Update; ThreadService::OnGameUpdate drains the queue.      *)
RunUpdate ==
    /\ app = "booted"
    /\ pending = <<>> /\ ~draining
    /\ draining' = TRUE
    /\ UNCHANGED <<manner, app, registered, pending, step, hookVars, inside, tasks>>

RunTask ==
    /\ draining
    /\ tasks > 0
    /\ tasks' = tasks - 1
    /\ UNCHANGED <<manner, app, registered, pending, step, hookVars, inside, draining>>

Drained ==
    /\ draining
    /\ tasks = 0
    /\ draining' = FALSE
    /\ UNCHANGED <<manner, app, registered, pending, step, hookVars, inside, tasks>>

(* Shutdown, and the end of the features: ~MinHookProvider.                *)
Unload ==
    /\ app = "booted"
    /\ pending = <<>> /\ ~draining
    /\ app' = "gone"
    /\ patched' = [t \in Target |-> FALSE]
    /\ UNCHANGED <<manner, registered, pending, step, attached, callback, original, inside, tasks, draining>>

-----------------------------------------------------------------------------
(* The main thread: HookHandler::Attach, for the first of pending.         *)

(* A feature whose hook fails goes on, but RenderingProvider throws, out   *)
(* of the destructor of a Defer.                                           *)
AfterFailure(t) ==
    /\ pending' = Tail(pending)
    /\ step' = "create"
    /\ app' = IF t = "Present" THEN "terminated" ELSE app

(* A slip: the callback is disposed of although the hook is another's.     *)
DisposeAnyway(t) ==
    /\ callback' = [callback EXCEPT ![t] = FALSE]
    /\ UNCHANGED <<attached, patched, original>>

(* HookInstance::Attach, of a function that is hooked already.             *)
Refused(t) == UNCHANGED hookVars

AttachAgain ==
    /\ pending # <<>> /\ step = "create"
    /\ attached[Head(pending)]
    /\ Refused(Head(pending))
    /\ AfterFailure(Head(pending))
    /\ UNCHANGED <<manner, registered, inside, tasks, draining>>

CreateHook ==
    /\ pending # <<>> /\ step = "create"
    /\ ~attached[Head(pending)]
    /\ \/ /\ step' = "enable"
          /\ UNCHANGED <<app, pending, callback>>
       \/ /\ AfterFailure(Head(pending))  \* and the disposer is called
          /\ callback' = [callback EXCEPT ![Head(pending)] = FALSE]
    /\ UNCHANGED <<manner, registered, attached, patched, original, inside, tasks, draining>>

EnableHook ==
    /\ step = "enable"
    /\ \/ /\ step' = "callback"
          /\ patched' = [patched EXCEPT ![Head(pending)] = TRUE]
          /\ attached' = [attached EXCEPT ![Head(pending)] = TRUE]
          /\ UNCHANGED <<app, pending, callback>>
       \/ /\ AfterFailure(Head(pending))
          /\ callback' = [callback EXCEPT ![Head(pending)] = FALSE]
          /\ UNCHANGED <<patched, attached>>
    /\ UNCHANGED <<manner, registered, original, inside, tasks, draining>>

SetCallback ==
    /\ step = "callback"
    /\ callback' = [callback EXCEPT ![Head(pending)] = TRUE]
    /\ step' = "original"
    /\ UNCHANGED <<manner, app, registered, pending, attached, patched, original, inside, tasks, draining>>

SetOriginal ==
    /\ step = "original"
    /\ original' = [original EXCEPT ![Head(pending)] = TRUE]
    /\ step' = "create"
    /\ pending' = Tail(pending)
    /\ UNCHANGED <<manner, app, registered, attached, patched, callback, inside, tasks, draining>>

-----------------------------------------------------------------------------
(* The other threads.                                                      *)

How(t) == CASE t = "Validate" -> manner
            [] t = "Present" -> [flow |-> "Before", kind |-> "args", returns |-> FALSE, once |-> FALSE]
            [] OTHER -> [flow |-> "Original", kind |-> "original", returns |-> FALSE, once |-> FALSE]

(* What Handle goes through.                                               *)
Stages(m) == CASE m.flow = "Before" -> <<"callback", "function">>
               [] m.flow = "After" -> <<"function", "callback">>
               [] OTHER -> <<"callback">>

Enter(g, t) ==
    /\ inside[g] = Idle
    /\ patched[t]
    /\ inside' = [inside EXCEPT ![g] =
                    [target |-> t, value |-> "none",
                     rest |-> Stages(How(t)) \o (IF How(t).once THEN <<"detach">> ELSE <<>>)]]
    /\ UNCHANGED <<manner, app, registered, pending, step, hookVars, tasks, draining>>

At(g, stage) == inside[g] # Idle /\ inside[g].rest # <<>> /\ Head(inside[g].rest) = stage

(* A callback that stands for the function has the say of what the caller  *)
(* gets, as has a wrapper of the result.                                   *)
ValueAfter(m, value) ==
    IF m.returns /\ m.kind \in {"original", "full", "tailWrapper", "resultWrapper"}
    THEN "callback" ELSE value

(* The callback, which must be there.  One that stands for the function    *)
(* may go on with it.  For the animation of a puppet it leaves a task,     *)
(* once the queue is free.                                                 *)
RunCallback(g) ==
    /\ At(g, "callback")
    /\ LET t == inside[g].target
           after == [inside[g] EXCEPT !.rest = Tail(@), !.value = ValueAfter(How(t), @)]
       IN  IF ~callback[t]
           THEN /\ app' = "terminated"
                /\ UNCHANGED <<inside, tasks>>
           ELSE /\ \/ /\ inside' = [inside EXCEPT ![g] = after]
                      /\ IF t = "SetAnimation"
                         THEN ~draining /\ tasks < MaxTasks /\ tasks' = tasks + 1
                         ELSE UNCHANGED tasks
                   \/ /\ How(t).flow \in {"Original", "Wrap"}
                      /\ inside' = [inside EXCEPT ![g] =
                                      [after EXCEPT !.rest = <<"function">> \o @]]
                      /\ UNCHANGED tasks
                /\ UNCHANGED app
    /\ UNCHANGED <<manner, registered, pending, step, hookVars, draining>>

(* The function of the game.  Its copy is gone with MinHook.               *)
RunOriginal(g) ==
    /\ At(g, "function")
    /\ LET t == inside[g].target
       IN  IF ~original[t] \/ app = "gone"
           THEN app' = "terminated" /\ UNCHANGED inside
           ELSE /\ inside' = [inside EXCEPT
                                ![g].rest = Tail(@),
                                ![g].value = IF How(t).returns /\ @ = "none" THEN "function" ELSE @]
                /\ UNCHANGED app
    /\ UNCHANGED <<manner, registered, pending, step, hookVars, tasks, draining>>

(* HookInstance::Detach, by the call that was the only one wanted; MinHook *)
(* may fail to restore the function, or to remove the hook after that.     *)
DetachHook(g) ==
    /\ At(g, "detach")
    /\ inside' = [inside EXCEPT ![g].rest = Tail(@)]
    /\ LET t == inside[g].target
       IN  IF ~attached[t]
           THEN UNCHANGED <<attached, patched, callback>>
           ELSE \/ UNCHANGED <<attached, patched, callback>>
                \/ /\ patched' = [patched EXCEPT ![t] = FALSE]
                   /\ UNCHANGED <<attached, callback>>
                \/ /\ patched' = [patched EXCEPT ![t] = FALSE]
                   /\ attached' = [attached EXCEPT ![t] = FALSE]
                   /\ callback' = [callback EXCEPT ![t] = FALSE]
    /\ UNCHANGED <<manner, app, registered, pending, step, original, tasks, draining>>

Answer(g) ==
    /\ inside[g] # Idle /\ inside[g].rest = <<>>
    /\ inside' = [inside EXCEPT ![g] = Idle]
    /\ UNCHANGED <<manner, app, registered, pending, step, hookVars, tasks, draining>>

HooksNext ==
    /\ app # "terminated"
    /\ \/ Register \/ Bootstrap \/ MakeSystems
       \/ RunUpdate \/ RunTask \/ Drained \/ Unload
       \/ AttachAgain \/ CreateHook \/ EnableHook \/ SetCallback \/ SetOriginal
       \/ \E g \in GameThread, t \in Target : Enter(g, t)
       \/ \E g \in GameThread :
             RunCallback(g) \/ RunOriginal(g) \/ DetachHook(g) \/ Answer(g)

HooksSpec == HooksInit /\ [][HooksNext]_hooksVars

-----------------------------------------------------------------------------
(* Whatever fails and however often it is tried: a function of the game    *)
(* that is changed has its callback and its original, except while it is   *)
(* being attached; a thread is in a hook only if it is attached, unless it *)
(* was for one call; who calls for a value gets one, the wrapper's if it   *)
(* is wrapped; and the client does not start without the renderer's hook.  *)
HooksAreWhole ==
    /\ \A t \in Target :
         patched[t] /\ (pending = <<>> \/ Head(pending) # t \/ step = "create") =>
             attached[t] /\ callback[t] /\ original[t]
    /\ \A g \in GameThread :
         inside[g] # Idle =>
             LET m == How(inside[g].target)
             IN  /\ m.once \/ attached[inside[g].target]
                 /\ m.returns /\ inside[g].rest = <<>> =>
                      inside[g].value = IF m.kind \in {"args", "blind", "tail", "result"}
                                        THEN "function" ELSE "callback"
    /\ app = "booted" => patched["Present"]
==============================================================================
