------------------------------- MODULE Overlay -------------------------------
(***************************************************************************)
(* The overlay that the client draws over the game: RenderingProvider      *)
(* hooks the renderer, ImGuiService builds a frame on the game's thread    *)
(* and draws it on the renderer's.  A frame passes through three buffers:  *)
(* being built (2), ready (1) and drawn (0).  The lock covers the buffers  *)
(* while they are built and exchanged, not while one is drawn.             *)
(*                                                                         *)
(* The three functions hooked (present, resize, shutdown) are taken to run *)
(* on one thread of the game, the renderer's.                              *)
(***************************************************************************)
EXTENDS Integers, FiniteSets

CONSTANT Blank  \* no draw lists

Place == 0 .. 2
List  == 1 .. 4  \* draw lists in memory; one more than there are places

ASSUME OverlayAssumption == Blank \notin List

VARIABLES
    buffers,  \* m_imguiDrawDataBuffers
    memory,   \* the lists that are allocated
    drawing,  \* the buffer that RenderDrawData reads, or Blank
    driver,   \* RenderingProvider::m_initialized
    device,   \* of ImGuiService: its objects; "none", "bare" without ImGui, "ready"
    renderer, \* where the renderer's thread is
    gameThread,     \* where the game's thread is
    window,   \* what the search thread has done with the window
    crashed   \* a pointer that is not set was used

overlayVars == <<buffers, memory, drawing, driver, device, renderer, gameThread, window, crashed>>

Buffer == [lists : List \cup {Blank}, valid : BOOLEAN]

OverlayTypeOK ==
    /\ buffers \in [Place -> Buffer]
    /\ memory \subseteq List
    /\ drawing \in List \cup {Blank}
    /\ driver \in BOOLEAN
    /\ device \in {"none", "bare", "ready"}
    /\ renderer \in {"game", "drawing", "resetting"}
    /\ gameThread \in {"game", "preparing"}
    /\ window \in {"unknown", "found", "hooked", "kept"}
    /\ crashed \in BOOLEAN

Empty == [lists |-> Blank, valid |-> FALSE]

OverlayInit ==
    /\ buffers = [p \in Place |-> Empty]
    /\ memory = {}
    /\ drawing = Blank
    /\ driver = FALSE
    /\ device = "none"
    /\ renderer = "game"
    /\ gameThread = "game"
    /\ window = "unknown"
    /\ crashed = FALSE

-----------------------------------------------------------------------------
(* The thread that RenderingProvider starts.                               *)

FindWindow ==
    /\ window = "unknown"
    /\ window' = "found"
    /\ UNCHANGED <<buffers, memory, drawing, driver, device, renderer, gameThread, crashed>>

(* SetWindowLongPtr takes effect before its result is in m_wndProc.        *)
HookWindow ==
    /\ window \in {"found", "hooked"}
    /\ window' = IF window = "found" THEN "hooked" ELSE "kept"
    /\ UNCHANGED <<buffers, memory, drawing, driver, device, renderer, gameThread, crashed>>

(* WndProc: a message that no agent takes goes on to m_wndProc.            *)
WndProc ==
    /\ window \in {"hooked", "kept"}
    /\ \E taken \in {FALSE} \cup {device = "ready"} :
         crashed' = (~taken /\ window = "hooked")
    /\ UNCHANGED <<buffers, memory, drawing, driver, device, renderer, gameThread, window>>

-----------------------------------------------------------------------------
(* The renderer.                                                           *)

(* Present, as long as the provider is not initialized: Initialize and     *)
(* OnRenderInit, any step of which may fail.                               *)
OnRenderInit ==
    /\ renderer = "game"
    /\ ~driver
    /\ window # "unknown"
    /\ \/ /\ UNCHANGED driver  \* no device
          /\ device' = "none"
       \/ /\ driver' = TRUE
          /\ device' \in {"none", "bare", "ready"}
    /\ UNCHANGED <<buffers, memory, drawing, renderer, gameThread, window, crashed>>

(* std::swap of the ready buffer with the one drawn, if there is one.      *)
Exchange(b) == IF b[1].valid
               THEN [b EXCEPT ![0] = b[1], ![1] = [b[0] EXCEPT !.valid = FALSE]]
               ELSE b

(* OnPresent, under the lock.                                              *)
OnPresent ==
    /\ renderer = "game"
    /\ driver /\ device = "ready"
    /\ buffers' = Exchange(buffers)
    /\ IF buffers'[0].valid
       THEN renderer' = "drawing" /\ drawing' = buffers'[0].lists
       ELSE UNCHANGED <<renderer, drawing>>
    /\ UNCHANGED <<memory, driver, device, gameThread, window, crashed>>

(* RenderDrawData is through.                                              *)
Drawn ==
    /\ renderer = "drawing"
    /\ renderer' = "game"
    /\ drawing' = Blank
    /\ UNCHANGED <<buffers, memory, driver, device, gameThread, window, crashed>>

(* OnReset, before a resize and at the end: the buffers under the lock.    *)
OnReset ==
    /\ renderer = "game"
    /\ device = "ready"
    /\ memory' = memory \ {buffers[p].lists : p \in Place}
    /\ buffers' = [p \in Place |-> Empty]
    /\ renderer' = "resetting"
    /\ UNCHANGED <<drawing, driver, device, gameThread, window, crashed>>

(* The rest of it, m_initialized last.  The provider is not told: it does  *)
(* not call OnRenderInit again.                                            *)
Released ==
    /\ \/ renderer = "resetting"
       \/ renderer = "game" /\ device = "bare"
    /\ device' = "none"
    /\ renderer' = "game"
    /\ UNCHANGED <<buffers, memory, drawing, driver, gameThread, window, crashed>>

-----------------------------------------------------------------------------
(* The game.                                                               *)

(* OnGameUpdate: m_initialized is read before the lock is taken.           *)
OnGameUpdate ==
    /\ gameThread = "game"
    /\ device = "ready"
    /\ gameThread' = "preparing"
    /\ UNCHANGED <<buffers, memory, drawing, driver, device, renderer, window, crashed>>

(* DebugService::Draw: nothing, unless started for debugging.              *)
Draw == {Blank} \cup {l \in List : l \notin memory /\ \A m \in List \ memory : l <= m}

(* A slip: the new frame goes straight to where it is drawn.               *)
PublishToDrawn(b, l) == [b EXCEPT ![2] = b[0], ![0] = [lists |-> l, valid |-> TRUE]]

(* std::swap of the buffer that was built with the ready one.              *)
NewList(b, l) == [b EXCEPT ![2] = b[1], ![1] = [lists |-> l, valid |-> TRUE]]

(* The rest of PrepareUpdate, under the lock: the old lists of the buffer  *)
(* are deleted, those of the new frame copied to it.                       *)
PrepareUpdate ==
    /\ gameThread = "preparing"
    /\ renderer # "resetting" /\ device = "ready"
    /\ \E l \in Draw :
         /\ memory' = (memory \ {buffers[2].lists}) \cup ({l} \ {Blank})
         /\ buffers' = NewList(buffers, l)
    /\ gameThread' = "game"
    /\ UNCHANGED <<drawing, driver, device, renderer, window, crashed>>

(* The reset came between: there is no backend to begin a frame with.      *)
PrepareTooLate ==
    /\ gameThread = "preparing"
    /\ renderer = "resetting" \/ device # "ready"
    /\ crashed' = TRUE
    /\ gameThread' = "game"
    /\ UNCHANGED <<buffers, memory, drawing, driver, device, renderer, window>>

OverlayNext ==
    /\ ~crashed
    /\ \/ FindWindow \/ HookWindow \/ WndProc
       \/ OnRenderInit \/ OnPresent \/ Drawn \/ OnReset \/ Released
       \/ OnGameUpdate \/ PrepareUpdate \/ PrepareTooLate

OverlaySpec == OverlayInit /\ [][OverlayNext]_overlayVars

-----------------------------------------------------------------------------
(* While the renderer reads a frame without the lock, the game's thread    *)
(* neither deletes nor fills it; and no list is deleted twice or lost:     *)
(* what is allocated is in exactly one buffer (ImGuiService.cpp:171-204).  *)
DrawnIsWhole ==
    /\ drawing # Blank => drawing \in memory /\ drawing = buffers[0].lists
    /\ \A p, q \in Place : /\ buffers[p].lists # Blank => buffers[p].lists \in memory
                           /\ buffers[p].lists = buffers[q].lists =>
                                p = q \/ buffers[p].lists = Blank
    /\ memory \subseteq {buffers[p].lists : p \in Place}
==============================================================================
