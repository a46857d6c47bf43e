------------------------------- MODULE Motion -------------------------------
(***************************************************************************)
(* How the movement of a player reaches the screen of another: reports     *)
(* that the server relays, both unreliable (NetworkWorldSystem,            *)
(* Level::HandleMoveEntityRequest), the buffer of the puppet, and the      *)
(* clock of the viewer, which drifts towards the server's instead of       *)
(* jumping (SynchronizedClock, InterpolationSystem).  Time is counted in   *)
(* units of a fraction of a second.                                        *)
(***************************************************************************)
EXTENDS Integers, Sequences

CONSTANTS
    Second,     \* units in a second
    Delay,      \* cSimulationDelay
    MaxTick,    \* bound on all ticks
    MaxTrip,    \* bound on tripTime
    MaxStep,    \* the longest frame
    MaxPoints,  \* bound on TimePoints
    Wrap        \* the number of values of a Tick: 2^64

ASSUME MotionAssumption == /\ Second \in Nat \ {0}
                           /\ Delay \in Nat
                           /\ MaxTick \in Nat
                           /\ MaxTrip \in Nat
                           /\ MaxStep \in Nat \ {0}
                           /\ MaxPoints \in Nat
                           /\ Wrap \in Nat

VARIABLES
    clock,      \* m_simulatedTick; 0 if not synchronized
    server,     \* m_lastServerTick
    base,       \* m_previousSimulatedTick
    since,      \* the time since m_lastSynchronizationTime, up to a second
    correction, \* m_tickDelta
    report,     \* the tick of a MoveEntityRequest on the way, if any
    move,       \* the tick of a NotifyEntityMove on the way, if any
    buffered,   \* the puppet has its InterpolationComponent
    points,     \* TimePoints, as their ticks
    previous,   \* PreviousFrame.Tick
    segment,    \* the last frame that was drawn: <<first, tick, second>>
    calm        \* the puppet's body came when the clock had passed the delay,
                \* and the clock ran forwards since (history)

motionClock == <<clock, server, base, since, correction>>
motionWire  == <<report, move>>
motionView  == <<buffered, points, previous, segment, calm>>
motionVars  == <<motionClock, motionWire, motionView>>

AnyTick == 0 .. MaxTick

MotionTypeOK ==
    /\ clock \in Int
    /\ server \in AnyTick
    /\ base \in Int
    /\ since \in Nat
    /\ correction \in Int
    /\ report \in SUBSET AnyTick
    /\ move \in SUBSET AnyTick
    /\ buffered \in BOOLEAN
    /\ points \in Seq(AnyTick)
    /\ previous \in Int
    /\ segment \in Int \X Int \X Int
    /\ calm \in BOOLEAN

MotionInit ==
    /\ clock = 0
    /\ server = 0
    /\ base = 0
    /\ since = 0
    /\ correction = 0
    /\ report = {}
    /\ move = {}
    /\ buffered = FALSE
    /\ points = <<>>
    /\ previous = 0
    /\ segment = <<0, 0, 0>>
    /\ calm = TRUE

-----------------------------------------------------------------------------
IsSynchronized == clock # 0

(* A slip: an estimate is believed at once.                                 *)
SynchronizeAtOnce(tick, trip) ==
    /\ tick > server
    /\ server' = tick
    /\ clock' = tick + trip
    /\ base' = tick + trip
    /\ since' = 0
    /\ correction' = 0
    /\ calm' = (calm /\ tick + trip - clock >= -Second)
    /\ UNCHANGED <<motionWire, buffered, points, previous, segment>>

(* Synchronize, with a server time that is newer than the last.             *)
Synchronize(tick, trip) ==
    /\ tick > server
    /\ server' = tick
    /\ since' = 0
    /\ clock' = IF IsSynchronized THEN clock ELSE tick + trip
    /\ base' = clock'
    /\ correction' = tick + trip - base'
    /\ calm' = (calm /\ correction' >= -Second)
    /\ UNCHANGED <<motionWire, buffered, points, previous, segment>>

(* Update, after a frame of length d: the estimate of the server's tick, and*)
(* the part of the correction that is due, all of it after a second.       *)
Simulated(d) ==
    LET spent == IF since + d > Second THEN Second ELSE since + d
    IN  base + since + d + (correction * spent) \div Second

(* The tick that is drawn is a delay behind the clock; points that are past *)
(* it are dropped, from the front up to the first that is not.              *)
Passed(n, tick) ==
    /\ \A i \in 1 .. n : tick > points[i]
    /\ n < Len(points) => tick <= points[n + 1]

(* What the tick of a frame is as a uint64_t: undefined if it is negative;  *)
(* the conversions of the build's targets wrap around or saturate.         *)
Cast(tick) == IF tick >= 0 THEN {tick} ELSE {Wrap + tick, Wrap - 1, 0}

(* In front of the first frame PreviousFrame is all zero.  A puppet that is *)
(* attached to a vehicle, has no stub or no controller is not moved.  The  *)
(* clock may be less than a delay from the start of the server.            *)
Frame(d, moved) ==
    LET now  == IF IsSynchronized THEN Simulated(d) ELSE 0
        tick == now - Delay
    IN  /\ now <= MaxTick
        /\ clock' = now
        /\ since' = IF IsSynchronized THEN since + d ELSE 0
        /\ \E n \in 0 .. Len(points) :
             /\ Passed(n, tick)
             /\ points' = IF buffered THEN SubSeq(points, n + 1, Len(points)) ELSE points
             /\ IF buffered /\ moved /\ n < Len(points)
                THEN /\ segment' = <<previous, tick, points[n + 1]>>
                     /\ previous' \in Cast(tick)
                ELSE UNCHANGED <<segment, previous>>
        /\ UNCHANGED <<server, base, correction, motionWire, buffered, calm>>

(* Reset, at every connection: the puppets of the last one are gone.        *)
Reset ==
    /\ clock' = 0
    /\ server' = 0
    /\ base' = 0
    /\ since' = 0
    /\ correction' = 0
    /\ buffered' = FALSE
    /\ points' = <<>>
    /\ previous' = 0
    /\ segment' = <<0, 0, 0>>
    /\ calm' = TRUE
    /\ move' = {}
    /\ UNCHANGED report

-----------------------------------------------------------------------------
(* A player who knows its remote id reports where it is, with the tick of   *)
(* its own clock.  One message on each way is enough: ticks come in any    *)
(* order, so that another could only bring what this one brings.           *)
UpdatePlayerLocation(tick) ==
    /\ report = {} /\ move = {}
    /\ report' = {tick}
    /\ UNCHANGED <<motionClock, move, motionView>>

(* The server takes the report of the one who owns the entity and tells the *)
(* others, without looking at its tick; it refuses that of anyone else.    *)
HandleMoveEntityRequest(owner) ==
    /\ report # {}
    /\ report' = {}
    /\ move' = IF owner THEN report ELSE move
    /\ UNCHANGED <<motionClock, motionView>>

LoseMove ==
    /\ move # {}
    /\ move' = {}
    /\ UNCHANGED <<motionClock, report, motionView>>

(* The observer of EntityComponent, when the body is there.                 *)
GainBuffer ==
    /\ ~buffered
    /\ IsSynchronized
    /\ buffered' = TRUE
    /\ calm' = (correction >= -Second /\ clock >= Delay)
    /\ UNCHANGED <<motionClock, motionWire, points, previous, segment>>

(* A move that is older than the last, or comes before the body, is dropped.*)
HandleNotifyEntityMove(tick) ==
    LET late == points # <<>> /\ points[Len(points)] > tick
    IN  /\ tick \in move
        /\ move' = {}
        /\ IF buffered /\ ~late
           THEN /\ Len(points) < MaxPoints
                /\ points' = Append(points, tick)
           ELSE UNCHANGED points
        /\ UNCHANGED <<motionClock, report, buffered, previous, segment, calm>>

MotionNext ==
    \/ \E tick \in AnyTick : \/ \E trip \in 0 .. MaxTrip : Synchronize(tick, trip)
                             \/ UpdatePlayerLocation(tick)
                             \/ HandleNotifyEntityMove(tick)
    \/ \E d \in 0 .. MaxStep, moved \in BOOLEAN : Frame(d, moved)
    \/ \E owner \in BOOLEAN : HandleMoveEntityRequest(owner)
    \/ LoseMove
    \/ Reset
    \/ GainBuffer

MotionSpec == MotionInit /\ [][MotionNext]_motionVars

-----------------------------------------------------------------------------
(* A frame draws a puppet on the way between the last frame and the next    *)
(* point, never before the one or past the other, whatever the network does*)
(* to the reports and the server times: as long as the body came when the  *)
(* clock had passed the delay - one that comes earlier is drawn at negative *)
(* ticks, behind the frame of zeroes it starts from, and remembers them as *)
(* whatever the cast makes of them - and no server time was more than a     *)
(* second behind the clock since.  (SynchronizedClock::Update,             *)
(* InterpolateEntity.)                                                     *)
InSegment == calm => segment[1] <= segment[2] /\ segment[2] <= segment[3]
=============================================================================
