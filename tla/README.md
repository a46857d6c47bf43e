# A formal model of NightCityMP

NightCityMP is a multiplayer modification of a single-player game: a C++ server
(`code/server/native`, with C# plugins under `code/server/scripting`), a C++
client loaded into the game (`code/client/App`), and scripts of the game
(`code/assets/redscript`).  This directory holds TLA+ modules that model its
logic, the TLC configurations that check them on small instances, and theorems
about them that TLAPS checks.  Paths below are relative to `src/`.

## The system

| Component | State it keeps | Operations | Talks to |
|---|---|---|---|
| Server world: `GameServer`, `PlayerManager`, `Level`, `GridCell` and the flecs components | players, puppets (children of players), attachments, vehicles, cells | authentication, spawn, move, enter and exit of vehicles, disconnection | messages from and to the clients, through one dispatcher |
| Client world: `NetworkService`, `NetworkWorldSystem` | remote player id, pending spawn, a flecs world of puppets and vehicles | connect, deferred spawn, load, unload, disconnect, world attach and detach | the server; the game engine |
| Client vehicles: `VehicleSystem` (C++ and reds) | vehicle under control, pending mounts | enter, exit, load, mount, unmount, control | events of the game, messages |
| Transport: `common/Network/Server.cpp`, `Client.cpp` | connections, queued connections, resolution in progress | handshake, read, send, kick, close | GameNetworkingSockets, libuv (both external) |
| Clock: `SynchronizedClock`, `InterpolationSystem` | estimated server tick, buffers of positions | synchronize, update, interpolate | server times, movement |
| RPC: `RpcValidator`, `RpcGenerator`, `RpcCsharp`, `RpcScriptInstance`, `RpcService`, `Rpc.cs` | the remote functions, their numbers on the server, the tables of the client | validate, generate, write C#, register, number, call, dispatch | plugins, scripts |
| Protocol: `netpack`, `Serialization`, `Buffer`, `RpcPack` | the compiled messages, a buffer of bits | hash the protocol, write and read fields | handshake, every message and call |
| Jobs: `JobManager`, `DeliveryDriver`, `Taxi` | free and assigned jobs | select, accept, cancel, quit, tick, finalize | RPCs, the garbage collector |
| Server process: `main.cpp`, `GameServer::Run`, `ServerListSystem`, `Timer.cs`, `WorldClock.cs` | the loop, players, timers, the time of day and its file | turn, shut down, tear down, announce, save | signals, the server list, all players |
| Mods of the server: `Plugins.cs` | a cache file, archives, directories | resolve, delete, download, unpack, move, save | the site of the mods |
| Automatic connection: `NetworkAutoConnect.reds`, `PauseMenuLeave.reds` | the pending session | arm, retry, leave | delay system of the game |
| Saves: `SaveManager.cpp` | folders of saves, their metadata | install templates, create a character | main menu |
| Screen: `MultiplayerGameController.reds` and its lists, `Delivery.reds`, `Taxi.reds`, `Jobs.reds` | popups, contexts, keys, hints, marker | open, choose, close, hear of jobs | RPCs, the game's interface |
| Chat: `ChatController.reds`, `ChatHotkeyController.reds`, `ChatSystem` | panel, timers, icon | wake, fade, type | the server, other popups |
| Puppets and appearance: `NetworkWorldSystem`, `AppearanceSystem`, `InterpolationSystem` | bodies, controllers, outfits, animation entities | spawn, attach, dress, emote, remove | the game, other players |
| Overlay: `RenderingProvider`, `ImGuiService` | three buffers of draw data | build, exchange, draw, resize | two threads of the game |
| Application: `Core/Foundation`, `Core/Hooking`, `ThreadService` | features, hooks, tasks | bootstrap, attach, detach, call, drain | functions of the game |
| Type registration: `Red/TypeInfo` | callbacks, types of the game's scripts | discover, register, describe, call | the game's type system |
| Administration page, police, engine bindings, build | see `PROJECT.json` | | |

How it runs.  The server has one thread for all of this: an iteration of
`Server::Update` runs the connection callbacks, reads what has arrived, enqueues
every message in an entt dispatcher (`netpack`'s `Deserializer::Process`), and
`GameServer::OnUpdate` then publishes the queues.  The client does the same in
every frame (`Client::Update`, `NetworkService::OnUpdate`).  A queue holds one
type of message, and the queues are published in the order in which their
handlers were registered.  So messages that arrive between two updates are
**reordered by type**, on both sides.

What is hard: that reordering; two dispatchers and a channel between a change
on the server and its effect on a screen; clients that disconnect, reload a save
or come back at any point; a spawn request that is deferred over frames; ids
that outlive their session; finalizers on another thread; callbacks of libuv and
of the transport in the middle of a frame.  `PROJECT.json` lists every hazard
with its line and the properties that would catch it.

What makes each component correct:

- *Shared world*: no ghost of a player who has gone, nobody missed, nobody
  doubled; one spawn per session; nothing left on the server by a player who has
  gone; a seat changes only by its own player; eventually everyone sees everyone.
- *Vehicles on the client*: a mount is neither lost nor applied to the wrong
  vehicle; the vehicle under control is the one the player sits in.
- *Transport and client session*: a client has one connection and forgets none;
  it asks once to be authenticated; the server forgets who is gone.
- *Clock*: a frame draws no puppet outside the segment it is on.
- *RPC*: no call is dispatched against the table of another session, or to
  another function than the one called; the libraries written for it compile.
- *Protocol*: who is admitted has the same members in the same places; what is
  read is what was written.
- *Jobs*: a job is free or assigned to one player; a player who leaves frees it.
- *Server process*: it stops when told; after a kill the file holds a time that
  is not older than a broadcast.
- *Mods*: a start that ends has every mod whole, whatever failed before.
- *Automatic connection*: none while connected; a deferred attempt is made or
  dropped in the end.
- *Saves*: a character that was created is kept.
- *Screen, chat*: contexts match popups, hints match keys, signs match tasks; who
  types sees the panel.
- *Puppets, appearance*: the known controller is that of the body; emotes end; a
  body wears what its player wore.
- *Overlay, application, types*: no list is drawn while it is changed; no patched
  function runs without its original; no type is used before it is described.

## The modules

| Module | What it models |
|---|---|
| `Wire` | the messages (`protocol/*.proto`) and the ordered reliable channels |
| `ServerLevel` | the server world: dispatcher, authentication, spawn, vehicles, disconnection |
| `ClientWorld` | the client world: connection, deferred spawn, dispatcher, loads and unloads, worlds attached and detached, vehicle requests |
| `SharedWorld` | both joined by the channels; the properties; fairness |
| `Roster` | the abstract specification: who is in the level, and whom each screen shows |
| `MCSharedWorld` | the small sets of the TLC runs |
| `SharedWorldProofs` | theorems and their proofs: types, ghosts, seats, cells |
| `RosterProofs` | more of them: who is announced, the refinement of `Roster`, riders |
| `Jobs` | the job plugin: job objects, deliveries and fares, the timer, finalizers |
| `TaskPool` | its abstract specification: what has become of each task, and who drives it |
| `MCJobs` | the small sets of its TLC runs |
| `JobsProofs` | theorems about `Jobs`, the refinement of `TaskPool`, and their proofs |
| `Session` | the connection of a client: resolution, callbacks, handshake, server time, authentication, RPC tables, and what servers answer |
| `AutoConnect` | the menus, the attachment of the player and the deferred connection, as the user of `Session`; fairness |
| `MCAutoConnect` | the small sets of its TLC runs |
| `SessionProofs` | theorems about `Session` under `AutoConnect`, and their proofs |
| `Transport` | the connections of the server: queue, handshakes, refusal, end |
| `Mods` | a start of the server that fetches its mods, with failures and kills |
| `Host` | the process of the server: loop, signal, teardown, timers, world clock, announcing threads |
| `Schema` | what `netpack` makes of the protocol files, and the identifier of a build |
| `Rpcs` | remote functions: validation, generation, numbers, calls |
| `Csharp` | the C# written for the plugins; extends `Rpcs` |
| `Overlay` | the buffers of the overlay between two threads |
| `Hooks` | application, features, hooked functions, tasks of the main thread |
| `Types` | the client's classes in the game's type system, and calls between the two |
| `MCHost` | all of these and `Transport` for TLC: a behaviour runs one, `focus` |
| `HostProofs` | theorems about `Host`, `Mods`, `Schema` and `Transport`, and their proofs |
| `ProgramProofs` | theorems about `Overlay`, `Hooks`, `Types`, `Rpcs` and `Csharp`, and their proofs |
| `Screen` | popups, keys, hints, icon, and the lists and marker of drivers |
| `Chat` | the chat panel and its icon |
| `Puppets` | bodies of puppets, their controllers, emotes |
| `Saves` | folders of templates and characters, and their metadata |
| `Motion` | movement from one player to the screen of another; the synchronized clock |
| `Codec` | how fields and arguments become bits and are read back |
| `Mounts` | who is shown in which vehicle |
| `Appearance` | what a player wears, from its own game to another screen |
| `MCClient` | all eight of these for TLC: a behaviour runs one, `focus`, of those of its run, `Part` |
| `ClientProofs` | theorems about all of these, and their proofs |
| `Inductions` | induction over numbers, and what recursive functions are: lemmas for the two above |

### The shared world

Correspondence.  A connection handle is used once, and a session spawns at most
one puppet (checked: `SpawnedOnce`), so the handle `n` also names the
player entity and its puppet.

| Model | Code |
|---|---|
| `phase` | where the server is in `Server::Update`: callbacks, reading, dispatching |
| `inbox[t]`, `pool[n][t]` | the queue of type `t` of the server's, of a client's dispatcher |
| `players`, `puppets` | `PlayerManager::m_players`; players with a `Puppet` and a `LevelSystemTag` |
| `attached[p]`, `owner[v]` | `AttachmentComponent::Parent`; the parent of a vehicle entity |
| `cells`, `cellOf[p]` | the keys of `Level::m_cells`; `CellComponent` |
| `holder[n]`, `dropped` | the client whose `m_connection` is `n`; connections the server has closed |
| `ready`, `remoteId`, `pendingSpawn` | `m_ready`, `m_remotePlayerId`, `m_pendingSpawn` |
| `view[n][p]`, `cars[n]` | the entities of the client's flecs world |
| `mounted` | whether the player sits in a vehicle, as the game reports it |

Every handler is one action, with the messages its observers send
(`AttachmentComponent` and `VehicleComponent` notify from inside `set` and
`remove`).  `HandleEnterVehicleRequest` is three actions, one per outcome:
`EnterKnownVehicle`, `EnterNewVehicle`, `RefuseEnter`.  `Receive` and
`OnConsume` enqueue; `BeginDispatch`/`EndDispatch` and `BeginUpdate`/`EndUpdate`
bound an update, and inside it `Publish` and `Dispatch` take the oldest message
of the first queue that is not empty.  On the client the connection callbacks,
the reports of the game and attaching or detaching a world happen between two
updates, so they need `Idle`.

Abstractions, all of them of data or of what is external:

- Positions, rotations, equipment, names and appearance are left out here
  (`Motion`, `Appearance`).  A puppet gets any cell; movement is without effect
  on this state, as the transfer between cells is never called.
- The transport delivers in order and without loss on a connection until it
  ends, and drops what is in flight then.  The handshake and the clock precede
  the first message and are not modelled here; nor is a refused authentication,
  which needs a client of another build that the handshake turns away.
- `IsDebug()` is false, as in the release build: a player is not sent its own.
- The stale reference in `Level::Remove` (`Level.cpp:121-127`) is a choice
  between the outcomes: the count read is that of the cell left, or of another
  puppet's cell, which is not empty.
- `*GetRemotePlayerId()` of an id that is not set yields any value of `Unset`.

### Jobs

| Model | Code |
|---|---|
| `online`, `left` | the players of `PlayerSystem`, and the ids that are spent |
| `jobOf[p]` | `JobManager.playerJobs` |
| `trade[w]`, `driver[w]`, `task[w]`, `ready` | a `Job` object `w`: its class, `Id`, `activeJob`, and `isRiderReady` of a `Taxi` |
| `offers` | the keys of `DeliverySystem.availableJobs` and `TaxiServer.AvailableJobs` |
| `rider[f]` | the rider of a `TaxiJob`, `None` before it is created |
| `parent[p]` | the `AttachmentComponent` of the puppet |
| `fin`, `freed` | the object whose finalizer is running; the objects the collector is done with |
| `torn` | the kinds of task whose table both threads have used at once |
| `shown[p]` | the last `StartDelivery`/`StartTrip` sent to `p`, until the `End...` |
| `up`, `paid` | the server process; the tasks that were paid |

An RPC, an event of a player and a tick of the timer is one action each: they
run on the main thread, one after the other.  A finalizer runs on the
collector's thread and is two actions, `BeginFinalize` (up to the message to the
player) and `EndFinalize` (the return of the task to its table), so that the
main thread can act in between.  A dictionary that both threads use between
these two is not defined to keep its content: from then on an entry added may be
missing, one removed may be there still, and the call may throw (`Added`,
`Removed`, `CancelJob`).  A finalizer also looks its player up in a map the main
thread changes when players come and go (`LookupSurvives`).

Abstractions: a task that is offered again gets a new id and its old id is
refused, so ids are left out and a player can accept what is offered now.  Whom
the tick finds near a destination is any set of workers, `there`.  A player
without a puppet, whose components throw in the tick, is left out: one has a
puppet before one can use the menu.  The police job cannot be chosen in the menu
(`MultiplayerGameController.reds` offers two trades and the taxi rider) and is
left out, too.  Prices, chat lines and `JobManager.Save`, which only logs, are
not modelled.

### Session and AutoConnect

An `Attempt` is one call of `Client::Connect`: a resolution of libuv first, and
then, if it succeeds, a connection of GameNetworkingSockets.  Each `Server` has
RPC definitions of its own, so that a table is named by its server.

| Model | Code |
|---|---|
| `phase` | where `Client::Update` is: callbacks of the transport, those of libuv (`lookups`), reading, dispatching; `game` between two frames |
| `link`, `handle` | `m_connection`, `m_pHandle` |
| `stage[a]`, `peer[a]` | the resolution or connection of `a`; the address it is for |
| `news[a]` | callbacks of the transport that are due |
| `synced` | `m_clock.IsSynchronized()` |
| `online` | `m_authenticated`, and `UIMultiplayerConnectedToServer`, which changes with it |
| `clientRpcs`, `serverRpcs` | the server whose definitions are in `m_clientRpcs`, `m_serverRpcs` |
| `inbox[t]` | the queue of type `t` of the dispatcher |
| `admitted` | the connections with a player in the `PlayerManager` of their server |
| `inWorld` | `!IsPreGame()` |
| `pending`, `endpoint` | `Settings::pendingSession`, `ip` and `port` |
| `deferred[k]` | `attemptsLeft` and `readyStreak` of a `NcmpDeferredConnect` that is due |
| `arms` | how often a session was armed, for the property only |

`Client::Close` is part of whatever calls it: `Connect`, `Close`, and
`OnResolved`, which closes the connection at hand before it makes the next.
`NetworkService::OnDisconnected` is an operator that each of its callers uses.

Abstractions.  `uv_cancel` works or comes too late, so `Cancelled` is a choice; a
cancelled resolution ends before those that still run, as libuv queues it at
once.  A callback of the transport for a connection that has been closed may
still come.  Every deferred callback between the time it is asked for and its
call is `deferred`; one that is due at the menu is dropped before the player has
typed an address and chosen a save, so `OnNcmpJoin` needs that none is due.
`PendingSaveAllowsConnect` is always true, because nothing in the code records a
save.  Left out: the connect button of the overlay that only `-debug` shows; a
connection that `ConnectByIPAddress` refuses at once; a refused authentication
(for another build, which the handshake turns away); the server time of every 10
seconds, which only repeats the first, and a server time that the clock ignores.

What the model shows without contradicting a claim of the code: of two
resolutions that overlap the later to end wins, so the player may end on the
server asked for first; and a resolution that fails beside a live connection
clears the tables and the flag of the player although the connection stays
(`TablesAreCurrent` and `AttemptCompletes` name that case).

### Transport

| Model | Code |
|---|---|
| `phase` | `Server::Update`: the callbacks, the reading; `stopped` once the process has died |
| `queue` | `m_queuedConnections` |
| `served[c]` | how often `c` is in `m_connections` |
| `link[c]` | the state of `c` in GameNetworkingSockets |
| `news[c]`, `was[c]` | the callbacks that are due for `c`; `m_eOldState` of the last |
| `shakes[c]`, `unread[c]` | the handshakes sent on `c`, and those that have arrived and are not read |
| `undefined` | whether an erase of the queue has missed |

A client sends its handshake when its connection comes up; the connections of
`Foreign` send one of another build or a malformed one (`RefuseHandshake` is
`HandleHandshake` up to `Kick`).  It may send more than one: of two attempts that
overlap, a late callback makes the client of `Session` send a second handshake on
the connection of the other, which is not queued any more by then.  The erase in
`HandleHandshake` does not look whether it has found its entry (`Server.cpp:280`).
What it does when it has not is undefined: `Dequeue` lets any entries fall off the
vector, `OnConnecting` lets later ones be lost, and `EraseStops` ends the process.
A connection can end at any moment: before it is accepted, in which case
`AcceptConnection` refuses it; and between the callbacks and the reading.  A
connection that is accepted is connected, so that `OnGone` with another old state
is about one that was never queued.

### Beside the session: the server

- `Mods`.  `zip`, `plugin` and `cacheFile` are on the disk and outlive a start;
  `cache`, `todo` and `at` are in memory.  A definition of a mod goes through
  `UseCache` or `DeleteOld`, `DownloadFile`, `MoveIn`, in that order, and
  `DownloadFails` or a kill (`Down`) may come at any of them; a directory that was
  being deleted then is `Torn`.  Versions stand for checksums.
- `Host`.  `Loop` is one turn of `GameServer::Run`, in the order of the code:
  callbacks, messages, timers, the scripts; `pc` says where the main thread is, as
  a signal and the announcing threads come in between.  A turn lasts at most
  `MaxDelta`; the clock counts seconds of the game.  `WorldClock.Save` writes a
  temporary file and renames it, so a `Kill` leaves the file of before or the new
  one.  `Restored` is what a start reads.
- `Schema`.  A source file is a list of messages, each a list of fields with a
  type, a name, and whether it is repeated or optional.  `HashProtocol` is the
  sequence of what the code hashes, so that no two hash alike by chance.  Of a field
  that is its C++ type (`CppType`), while its place in the bytes goes by its type in
  the file: `fixed64` and `uint64` are one in the hash and two in the `Layout`.
  `Shape` is the layout up to that.  Edits are those of a developer: a field, its
  order, the messages of a file, the file both depend on.
- `Rpcs`, `Csharp`.  A function is named by its class, its name and its types.
  Validation refuses what cannot be sent, generation makes the handlers; the
  plugins of the server are compiled with the libraries of a client, load in any
  order at each start, and number what they find.  `Csharp` adds the graph of the
  types that a parameter may lead to, and what each written file mentions.
- `Overlay`.  The lock is a step that builds and exchanges buffers; drawing is
  outside it, and therefore two steps.  The three hooked functions run on the
  thread of the renderer, an assumption about the game that the code makes, too.
- `Hooks`.  Attaching is four steps (`CreateHook`, `EnableHook`, `SetCallback`,
  `SetOriginal`), and threads of the game enter a function between any two of
  them.  `manner` is the flow in which a function is hooked: each that the header
  offers is an initial state, but the one that is both blind and for the main
  thread only, which nothing uses.
- `Types`.  `LoadLibrary` discovers the classes in any order; the two callbacks of
  the registrar run in rounds, and each may put off work to another.  What the
  game does with a registered class is external, modelled from how the code uses
  it.  `CallFunction` and `Return` are the stack frame of one call.

### Beside the session: the client

- `Screen`.  A widget is asked for and spawned later, and may be unwanted by then;
  `contexts` counts the modal contexts pushed on the game.  The server's part of
  the jobs is there as far as it calls the client: `job`, `task`, `former`, `calls`.
  It names the job to whoever has selected one, and the client of a driver answers
  that by asking for the first list (`SetActiveJob`), so that a list opens without a
  key; with the key it asks for deliveries alone.  A delivery is at its goal from its
  start; a fare is first picked up and then taken to its goal (`StartTrip`), and both
  share the marker `mappin` and the end `OnDeliveryComplete`.  What
  the blackboard says of the vehicle is neither yes nor no until it has spoken
  (`inVehicle` is 2), and the widget of the icon may come before or after that.
  An assumption on the library of widgets: each comes with its controller.  The
  branches for one without (`MultiplayerGameController.reds:454`, 553, 713), which
  push no context, are left out.
- `Chat`.  Every event that wakes the panel starts a timer with its generation;
  `fadeTimers` are those that will still fire.
- `Puppets`.  `stage` is the component of the flecs entity, `body` what the game
  has made of it; `hooked` counts tasks for the main thread.  Emotes: one field,
  `selected`, says whose the next animation entity is.  Entities of two emotes in
  flight are mixed up (`adrift`), which the properties except: the code does that.
- `Saves`.  A copy is whole or `Half`, and the metadata of a new character is
  truncated and written once more after it is copied: `Rewritten` is that it
  worked or that the file is cut off, which nobody asks.  Nothing removes a folder but the player,
  so half a template stays and is copied: `spoiled` remembers it for each template, and
  `CharacterKept` excepts the characters made from one; so it does if a character was
  typed under the name of a template.
- `Motion`.  One mover, one viewer: a report and its relay may be lost or
  overtaken, the viewer's clock is `Synchronize` and `Frame`; the points are the
  queue of the interpolation.  The tick of a frame is the clock less the delay, and
  negative in the first moments of a server; it is drawn at all the same, behind the
  frame of zeroes that a body starts from, and `Cast` is what may be remembered of
  it, since the conversion of a negative number to an unsigned one is not defined.
  `calm` excepts a body that comes in those moments, and a server time more than a
  second behind, after which the clock runs backwards.
- `Codec`.  A byte has `Group` + 1 bits and a length `LengthBits`; the buffer is a
  sequence of bits, and each writer and reader is what it does to it: the
  alignment of a byte, the groups of a number, zigzag, the length and its cut.
  Three writers (messages, packs of the client, the C# of the server) meet three
  readers.  A class is its members, one after the other; some may be those of its
  parent (`inherited`), which the packs of the client leave out and the C# does not.
- `Mounts`.  Vehicles a server tells of, the game's own entity for each, riders who
  wait for it, and the player's own car with the answer that names it.
- `Appearance`.  One outfit from the save to the other screen: equipment restored
  area by area, the deferred connection that looks twice, the request that waits
  for the creator, the level's copy, and the body that the game makes later.

Names of the variables follow the code; each declaration says which field it is,
and `PROJECT.json` maps every definition to its lines.

## The runs

| Run | Instance | Properties |
|---|---|---|
| `roster` | 2 clients, 3 connections, 2 cells | `NoGhostPuppet` `SpawnedOnce` `CellsHeld` |
| `reload` | 2 clients that reload, 2 connections, 1 vehicle, 1 request with any unset id | `NoMissingPuppet` `SeatedByOwnPlayer` `ImplementsRoster` |
| `seats` | 2 clients, 2 connections, 2 vehicles, 2 requests | `NothingLeftBehind` `NoGhostRider` |
| `live` | 2 clients, 2 connections, fairness | `PlayersMeet` `GhostsFade` |
| `tasks` | 2 players, 3 job objects, 2 deliveries, 1 fare, 1 vehicle | `OnePlace` `ShownIsHeld` `StaysUp` `ImplementsPool` |
| `lost_rider` | 2 players, 2 job objects, 1 fare, 1 vehicle | `LostRiderCancels` (violated) |
| `join` | 2 attempts, 2 servers, 2 deferred callbacks, 2 arms, 2 calls per connection, fairness | `OneConnection` `TablesAreCurrent` `OnlineIsAdmitted` `DeferredEnds` `AttemptCompletes` |
| `guard` | the same, without fairness | `NeverWhileConnected` (violated) |
| `host` | see below; fairness | `SavedIsWhole` `ClockKept` `AdmittedAgree` `CallsAreWritten` `DrawnIsWhole` `HooksAreWhole` `TypesAreWhole` `HandshakeFindsQueue` `ServedIsAlive` `StopsWhenTold` `LostIsForgotten` |
| `encoding` | the same, without fairness | `AdmittedSameBits` (violated) |
| `client` | see below | `PopupsHaveTheirContext` `ScreenIsTrue` `ChatIsVisible` `EmotesEnd` `ControllersKnown` `CharacterKept` `InSegment` `CallsArriveWhole` `RidersShown` `DressedAsThemselves` |
| `metadata` | the same, of the saves alone | `VerbatimKept` (violated) |

`roster` shows that no screen keeps a puppet whose removal is not on the way,
that an announcement arrives once and never concerns the player itself, and that
one spawn request per session reaches the server and finds its player there
(`SpawnedOnce`), and that the level keeps the cell of every puppet.  Three connections of two clients
are the least that has a newcomer, one who is there and one who comes back.

`reload` shows that the two halves of `AddPlayer` leave no gap, also when worlds
are detached while messages come in (such a load is skipped: the code then never
shows that player, and the property says so), and that a request with a stale or
undefined id moves nobody else.  The same run checks that the whole implements
`Roster`: its step is one step of `Roster` or none, with `view` as what is seen.

`seats` shows that puppets, vehicles, seats and queued events never outlive the
connection they belong to, and that a player who has got out is not left riding
for the others once its requests are handled.  The reverse does not hold: an
exit and a following enter of one tick are handled as enter and exit, because
enters are published first, and the others then see a player without a seat who
sits.  No comment or test of the code claims otherwise, so this is a note, not a
finding.  Two requests and two vehicles are enough for an exit and an enter of
another vehicle in one tick; a third request only repeats one of the two.

`live` checks two leads-to properties: players who connect and stay come to see
each other (or have no world), and the puppet of one who has gone disappears.

`tasks` shows that every task is in one place, offered, held or paid, that a
driver is shown a task only while one of its jobs has it, and that two things only
stop the server: the tick that meets a ride whose rider has left, and a finalizer that
looks a player up while players come or go.  It also checks `Jobs` against `TaskPool`
(`ImplementsPool`): `Place` and `DriverOf` map the objects, tables and threads to what
has become of each task, and each step is one move of the pool or none.  A task is
taken from the table by one player, who has no other, is paid only while that player
is at work with it, and comes back to the table before anyone else has it, however
long the collector waits.  Two players are driver and rider,
or two drivers who want the same task; three objects are a driver who quits
twice, so that two finalizers are due while the third job has a task.  The run
allows the server to stop and everything to be spent, so deadlock is not checked.

`lost_rider` checks what `Taxi.HeavyUpdate` says it does with a rider who has
gone (`Taxi.cs:145-150`): the driver is told "Rider disappeared..." and the ride
is given back.  It is not: the lookup never returns null.  The counterexample is
a finding in `PROJECT.json`.

`host` and `client` check the modules beside the session.  These share no state
with one another, so a behaviour picks one of them (`focus`) and runs it alone:
the states of one are not multiplied with those of the others, and one run checks
each property on its own module while the others rest in their initial states.
`Part` is which of them a run of `MCClient` may pick.  The screen is there twice:
as "screen", while nobody has said where the player is, and as "icon", with riding
and with one call at a time (`ScreenBounds`), because neither the contexts nor the
marker depend on the icon.

`host` has two mods in two versions and three starts (one to fetch, one to fail,
one to repair); two players, a period of three seconds and turns of two (so that a
broadcast is late by a part of a turn), two boots and a clock that goes a little
past noon; two files, two messages and two fields with one edit between two
builds; two classes of one function, two libraries and two runs, so that plugins
load in either order and a client of the first run meets the second; two types of
the scripts that may refer to each other; two threads of the game and two tasks;
two native classes, an event and a system that returns it, and three parameters;
and three connections with two handshakes each: one that sends twice, one that is hit
by it, and one that is refused.
It shows that no mod is taken for whole that is not (`SavedIsWhole`); that a kill
costs less than a period and a turn, and no player's sky is older (`ClockKept`);
that builds which admit each other have the same members in the same places (`AdmittedAgree`); that
calls reach their function and that the C# compiles (`CallsAreWritten`, except
for types that share a name without their modules, arrays of types C# knows by a
keyword, and what the dump itself reports); that no list of the overlay is
changed while it is drawn, freed twice or lost (`DrawnIsWhole`); that hooked
functions find callback and original (`HooksAreWhole`); that classes are described
whole whatever order the linker chose (`TypesAreWhole`); and that a server told to
stop does (`StopsWhenTold`; what the announcing thread still reads of a server that
is being destroyed is outside it).  Of the connections it shows that only a second handshake can make
the erase of the queue miss, however they come, end, are accepted or refused
(`HandshakeFindsQueue`); that the server serves none that has ended but for those
whose callback is due, also when the second handshake of another has damaged the
queue (`ServedIsAlive`); and that it forgets them, except one that is there twice
(`LostIsForgotten`).  Starts, boots and runs are counted and a process may stop, so
deadlock is not checked.

`encoding` checks a sentence of the design, "Any edit to client.proto/server.proto
text (including adding a field) changes this hash automatically"
(`design/research/research-R6.md:10`).  The hash is of C++ types: a field that was
`fixed64` (`server.proto:79`) and becomes `uint64` has the same, the client of before
is admitted, and it reads 64 bits where groups of 7 were written.  The fix is to hash
`field->type()`, which is what the serializers look at.

`client` shows nine parts.  The screen has two popups in flight, two calls and two
markers, and the chat six events that wake it: contexts, hints, marker, icon and input
follow popups, keys, tasks and connection (`PopupsHaveTheirContext`, `ScreenIsTrue`),
also that the marker of a fare is where the driver has to go by then, at the pick-up
or the goal; but for a task left by quitting or with its session, whose end takes
another marker away.  Who types sees the panel and the icon returns
(`ChatIsVisible`).

There are two puppets, one queued hook for each and two emotes; a clock of four ticks
with half-second units, where a report is under way for one tick and a frame takes up
to two, and numbers that wrap at 16 (`Wrap`, for 2^64); two riders and two vehicles;
one wearer and two garments, one of which the other game does not know, three polls
and two bodies.  Two of each is what a mix-up needs.  Emotes end and controllers are
known (`EmotesEnd`, `ControllersKnown`); frames stay in their segment (`InSegment`);
riders are shown where they ride (`RidersShown`); and bodies wear what their player
wore (`DressedAsThemselves`, in full unless the connection was made because no attempt
was left).

The saves have the two templates and two names, each two alike (`Alike`): a
character that was reported keeps its files and some metadata (`CharacterKept`).
Messages and calls have bytes of three bits, texts and lists of up to eight, and two
fields.  The widths are small because the properties are about positions of bits,
which only the remainders of the widths change: a group of a number, a byte and a
length end at different places here as they do there.  Fields arrive as they were
written (`CallsArriveWhole`, but for what is longer than its length can say, for texts
with a NUL, and for members that a class has from its parent).  No class of the
scripts in the repository that is an argument of a call has such members.

`metadata` checks the comment of `TryRewriteMetadataName`, "on ANY failure the verbatim
copy is left intact (which already loads)" (`SaveManager.cpp:203-204`): `VerbatimKept`
says that a file of metadata that is reported is never cut off, and the counterexample
is a write that fails after the file was truncated (line 222).

What the model of the saves shows beside it: `EnsureTemplatesInstalled` "returns true
if, after the call, both templates exist on disk (i.e. the picker can offer them)"
(`SaveManager.h:93-94`), but a template that was copied half way is taken for installed
at the next call (`SaveManager.cpp:178`).

`join` shows that whichever callback comes late and however attempts overlap,
the client has one connection at most and never one it has forgotten; that the
tables, the messages that wait and the calls a server gets are of one session;
that calls find their definitions although both came in one frame; that a player
who is shown as connected has been authorized; that a deferred attempt is made or dropped, and that a
connection that lasts gets the player online.  Two attempts on two servers are
the least in which anything is stale; a third would overlap with one of them in
the same way.  `MaxLeft` is 1 and not 20: a callback then still waits, is ready
for the first time, for the second, or runs out of attempts.  `MaxCalls` bounds
the calls of a connection, `MaxArms` the times a session is armed.

`guard` checks "never Connect() while already connected"
(`NetworkAutoConnect.reds:12`).  The code looks at that when the player is
attached, not when the deferred callback connects, up to 15 seconds later: a
player who goes to the menu and joins again while the first attempt is slow is
connected by it and then torn off by the second.  For the same reason the
callback also connects after LEAVE SESSION.

What the model of the jobs shows without contradicting a claim of it: a paid
delivery is not offered again, so the deliveries made at the start are done
once each; a driver and a rider who have both got out are both attached to
vehicle 0 and count as sitting in the same one, so that the ride does not end; a
finalizer ends the sign of whatever its player is shown, also that
of a delivery accepted since.

Bounds of the shared world: `MaxRequests` bounds vehicle requests (`asked`); sessions are bounded by
the number of handles, because a handle is used once; `Vehicle` bounds the
vehicles that are created.  Deadlock is not checked, for the system really stops
once every handle is spent and every message handled.  Clients, connections,
vehicles and cells are symmetric, except in `live`.

Fairness (`FairSpec`): the server loop and the frame loop turn
(`GameServer::Run`, the hook of the game's update), so every step inside an
update is weakly fair; reading a connection is strongly fair, because another
phase interrupts it again and again and GameNetworkingSockets hands out the
messages of every connection of the poll group; sending the deferred spawn is
strongly fair, because after `kSpawnCcstateTimeout` it no longer waits for the
customization state.  Nothing makes a player connect, leave, drive or reload.

Fairness of `AutoConnect`: frames follow one another and each of their parts ends
(`NetworkService::OnGameUpdate`), so `Frame` is weakly fair; a deferred callback
is called between two frames by the delay system of the game, a phase that comes
again and again, so it is strongly fair; a connection that is begun comes up or
times out, and a server reads what a connection that is up brings, which are
weakly fair.  Resolutions end within `Frame`.  Fairness of `Transport`, in
`MCHost`: callbacks are run and messages are read, as `GameServer::Run` calls
`Server::Update`.

Fairness of `host`: the loop of `GameServer::Run` turns, and a process whose main
thread has returned ends; both are weakly fair.  Signals, kills, answers of the
server list and players come or do not.

## What is proved

`SharedWorldProofs` holds for any sets of clients, connections (a finite set),
vehicles and cells; the assumptions are those of `Wire`, `ServerLevel` and
`ClientWorld` on their constants.

- `TypeCorrect`: `Spec => []TypeOK`.  The type of each message is kept by
  `Post` and by the queues; one step per action.
- `NoGhosts`: `Spec => []NoGhostPuppet`.  The property is not inductive: whether
  a screen is without ghosts depends on what the queues and channels will do to
  it.  `GhostInv` adds that a closed client holds nothing (`ClosedIsEmpty`), that
  players and the senders of queued events are connected (`MembersLive`), that
  only the gone are unloaded (`UnloadsOfTheGone`), that no load of a puppet
  follows its unload on the wire, nor is left there when the unload is queued
  (`LoadsFirst`), and that the promise already holds of a puppet whose load is
  on the way (`GhostsLeave`).  `LoadsFirst` is where the registration order of
  the client's handlers enters: an unload is published only when the queue of
  loads is empty.  Server steps are reduced to what they post and whom they add
  or remove (`ServerGhosts`), client steps to what they take from the channels
  (`ClientGhosts`).
- `CleanLeave`: `Spec => []NothingLeftBehind`, from `MembersLive`: a connection
  closes only between two ticks, when the queues are empty.
- `OwnSeat`: `Spec => SeatedByOwnPlayer`, an action property: every handler that
  changes a seat has matched the id with the connection.
- `CellsKept`: `Spec => []CellsHeld`.

`JobsProofs` holds for any sets of players, job objects, deliveries, fares and
vehicles, finite or not; its assumption is that of `Jobs`: these sets are apart.

- `JobsTypeCorrect`, `TasksAreKept`, `SignsAreRight`, `OnlyLostRidersCrash` state
  `TypeOK`, `OnePlace`, `ShownIsHeld` and `StaysUp` of every behaviour.  One
  inductive invariant, `JobsInv`, carries them all.  Beside the properties it
  says that a fare nobody has asked for is nowhere (`Unasked`), that the object
  being finalized has a task, is not employed and not freed (`Finalizing`), that
  the job of a player has that player as its driver (`OwnDriver`), and that the
  task a player is shown is in an object of its own (`ShownElsewhere`).  They
  are needed because a task moves between a table and an object in two steps of
  a finalizer, and because signs are taken down by player, not by task.
- `TasksGoAround`: `Spec => ImplementsPool`, step by step under `JobsInv`.  `Placed` says
  what the mapping makes of a state (a task that is not torn has one holder, which is
  at work or not), and each action is a move of the pool or none: accepting takes,
  cancelling and finalizing give back, quitting and leaving drop, a tick pays a set of
  tasks, and the use of a table by two threads tears it.  `OnePlace` is needed in
  every one of them, since the mapping looks a task up in one place.

`HostProofs`, about `Transport`, holds for any set of connections.

- `TransportTypeCorrect`, `HandshakesAreQueued`, `ServedAreAlive` state `TransportTypeOK`,
  `HandshakeFindsQueue` and `ServedIsAlive` of every behaviour.  Their inductive
  invariant, `TransportInv`, adds that the server knows nothing of a connection
  not yet announced (`Unannounced`), that the callback of the end is due exactly
  while a connection is lost (`EndIsDue`), that each handshake that was read has put
  its connection in the list at most once (`Counted`), that what is unread is of a
  connection that came up and whose end the server has not been told (`Unread`), and
  that as long as no erase has missed, a connection of which no handshake has been
  read is queued (`Waiting`).  The last is why a first handshake finds its entry: only
  a handshake or the end removes a connection from the queue.  After a miss nothing
  is left of it, and `ServedIsAlive` rests on the other parts alone.

`RosterProofs` goes on from `GhostInv`, for the same constants.

- `NobodyMissing` and `SpawnsOnce`: `Spec => []NoMissingPuppet` and
  `Spec => []SpawnedOnce`, by `RosterInv`.  A session becomes a puppet by a chain: the
  request to be authenticated, its answer, the deferred spawn, the request to
  spawn.  `RequestInv` says that at any time a session is in one place of it at most
  (`OnePlaceOf`), that what stands for it is there once (`OnceThere`), that a handle
  not used yet has none of it (`NotBefore`) and that the player is added before
  its client can ask (`PlayerFirst`).  Therefore a spawn that is handled is
  of a session without a puppet; the others hear of it once, and it of them
  (`AnnounceInv`: a load is on the way once at most, only while the puppet is
  unseen, and only among sessions that have both been in the level).
- `Implementation`: `Spec => ImplementsRoster`, step by step under the same
  invariants.  A client that connects or lets go of its handle is `Watch` and
  `StopWatching`; the spawn and the end of a session are `Join` and `Leave`; a load
  and an unload that are handled are `Show` and `Hide`; and everything else is a
  stutter.
- `NobodyRidesOn`: `Spec => []NoGhostRider` by `RidersInv`: a client has one
  session (`OneHolder`) and is told its own id alone (`OwnAnswers`), and whoever rides,
  or is about to, knows that id and, once out of the vehicle, has asked under it
  to get out (`RiderOf`).  It has two hypotheses.  `Reloaders = {}`: nobody loads
  another save, for the game reports no unmounting when it does.
  `Unset \subseteq {None}`: an id that has not been received, which the code leaves
  uninitialized, is that of no player.  Both hold in the run `seats`; without the
  first the property is false, and the second stands for undefined behaviour.

`SessionProofs` holds for any attempts, servers and deferred callbacks, and any
bounds but for `MaxArms`, which is at least 1.

- `JoinTypeCorrect`, `OneConnectionOnly`, `TablesNeverStale` and `OnlineOnlyAdmitted`
  state `TypeOK`, `OneConnection`, `TablesAreCurrent` and `OnlineIsAdmitted` of every
  behaviour.  `SessionInv` adds that the wires of an attempt that has not come to a
  connection are empty (`Untouched`), that messages wait for the dispatcher within a
  frame only (`QueuesEmpty`), that what comes down is from the peer (`FromPeer`),
  that the definitions come ahead of every call and an admitted connection has
  them on the way until it has them (`DefinitionsFirst`), and that the server admits
  before it says so (`AuthFirst`).  `AutoConnect` adds nothing to it: whatever the
  menus and callbacks do to the session is one of its own operations
  (`SessionNext`).

`HostProofs`, about the process of the server, holds for any players and mods, any number of versions, boots and
starts, any period of saving, and any messages, names and lengths.

- `ClockIsKept`: `ClockKept` by `ClockInv`: the clock is ahead of the file, and of what
  any player was told, by what has elapsed of the period and one turn of the loop
  at most, and less than a period has elapsed.
- `SavedModsAreWhole`: `ModsSpec => []SavedIsWhole`.  What a start believes comes
  from the file of an earlier one that may have been killed; `ModsInv` says that
  neither the cache in memory nor the file lies (`Honest`: a checksum is never newer
  than the offer, and one that is that of the offer means a whole directory,
  unless the site took a version back), and that mods are done one by one, so that at the end all are up to date
  (`OneByOne`).
- `AdmittedSpeakTheSame`: `AdmittedAgree`: `SchemaInv` says that the builds of an admitted
  connection have equal identifiers; lemmas then lead from equal hashes to equal
  lists of fields up to the types that C++ does not tell apart, to equal structures
  (`Shape`), and to equal numbers of messages.  The
  hash is an injection here, so the theorem is up to collisions of the code's.

`ProgramProofs` holds for any threads of the game, any lists and any number of tasks;
any finite sets of native classes and expansions; any finite sets of classes of
remote functions and of functions; and any finite set of scripted classes, whose
names are none of the built-in ones.

- `DrawnStaysWhole`: `DrawnIsWhole` by `OverlayInv`: what is drawn is in the first
  buffer (which only the renderer's own steps touch), no two buffers hold the same
  lists (`Apart`), and allocated are exactly those that a buffer holds (`InMemory`,
  `Owned`).
- `HooksStayWhole`: `HooksAreWhole` by `HooksInv`: what is true of a function between the
  four steps of attaching it (`Attachments`), what a thread inside one has still to
  do and has in hand (`Calls`), and that the renderer's hook is on its way or there
  (`Rendered`).

- `TypesWhole`: `TypesAreWhole` by `TypesInv`, which follows the classes through the
  stages of a start: loaded and given to the game (`Loading`), a round that registers
  (`Registering`, `Registered`), a round that describes, of which the definitions in
  `S` are still pending (`Describing(S)`), and whole (`Whole`).  Each definition is
  pending once (`Pending`: `LinkOrder` is a bijection) and each system either created or
  with a callback in one of the two vectors (`Described`).  That native functions find
  their arguments follows from counting: before each argument the code takes as many
  operations as there are parameters before it (`ParamsTaken`, `CallInPlace`).
- `CallsFindWhatIsWritten`: `CallsAreWritten`, of `RpcsSpec` and `CsharpSpec` together.
  `RpcsInv` says that every call on its way carries a number its server gave to the
  function in this start, and that a client's tables are empty until the definitions,
  which are first in its stream, are handled, and then those of this server
  (`TablesTold`).  `CsharpInv` says that what is written are the classes and enums met;
  that these are closed, up to the depth at which the validation would have
  overflowed, under parents and members (`MetIsWhole`) makes it compile
  (`WrittenCompiles`).  The proof found one more exception than the model had: a
  class whose short name is also that of an enum.

What recursive functions compute (`ParseType`, `Registrars`, `Params`, `CallsAt`,
and in `Codec` `Power`, `Shifted`, `Number`, `ReadVarInt`, `EmitRead`) is proved by
induction, with the lemmas of `Inductions`.  The induction theorems of the library take
an operator, which the prover cannot instantiate; `SetInduction` takes a set of numbers in its place and
follows from the well-foundedness of `<`.  `Recursion` and `EndlessRecursion` say that
a step and a first value make a function, on an interval or on all numbers, so that the
`CHOOSE` of a recursive definition is what its equation says.

`ClientProofs` holds for any number of events, any templates and names, puppets,
bodies, garments, riders and vehicles, any clock, and any widths and numbers of fields.

- `ChatStaysVisible`: `ChatIsVisible` is inductive as it stands: a timer that is
  out of date finds another generation, and one that is not finds nobody typing.
- `CharactersAreKept`: `CharacterKept` with `Straight`: a template that was never
  spoiled is missing or whole, with its metadata, so that a creation copies a whole
  one; what the rewriting of the metadata may do to the copy is a case of its own.
- `ControllersAreKnown` and `EmotesAreEnded`, from one invariant: the controller of
  the flecs component is that of the body wherever there is one (`BodiesMatch`),
  and an animation entity that is alone on its way is for the puppet selected
  (`AloneIsNext`).
- `RidersAreShown`: `RidersShown` says nothing of who waits, so `MountsInv` does: who
  waits rides the vehicle waited for (`WaitersRide`), every rider of a vehicle that
  is asked for waits (`RidersWait`), an entity of the server is one of the game
  (`EntitiesAreThere`), and who controls a vehicle has a car (`DriversHaveCars`).
- `ContextsArePaired`: `PopupsHaveTheirContext` by `PopupsInv`, which counts contexts and
  widgets together.  `ScreenStaysTrue`: `ScreenIsTrue`, one invariant for each of its
  parts: what the screen listens to (`Listens`), the icon against what the
  blackboard last said (`IconInv`), and for the marker a function over the calls on
  their way, which says where the marker is after so many of them (`Course`): a start
  sets it, the trip of a fare moves it and an end takes it away, in the order in which
  the server's task goes, so the marker that is and the task that will be agree.
- `PuppetsAreThemselves`: `DressedAsThemselves` by `LooksInv`: two good looks in a row
  are of an equipment that is complete (`InTime`), each notice on the wire fits
  what its player wore, and no body is dressed before it is asked for (`Dressed`).
- `DrawnInSegment`: `InSegment` by `MotionInv`: as long as no server time was more than
  a second behind, the correction takes from a frame no more than the frame adds
  (`DivFalls`), so the clock does not run backwards; a clock that had passed the delay
  when the body came stays past it, no tick is negative, and the last tick drawn is not
  ahead of the clock by more than the delay allows.
- `CallsComeWhole`: `CodecSpec => []CallsArriveWhole`.  `CodecInv` says that, as long
  as nothing was cut and no member is inherited (`plain`), there is a sequence of buffers, each what the writer
  makes of the one before with one more field (`Encoded`), that what is sent begins
  with the last of them, and that the reader, after so many fields, stands where
  the writer stood after as many (`InStep`); without that last part it would not be
  inductive, since nothing on the wire says where a field begins.  `FieldArrives` is the
  step: what one side writes of a value at any bit, the other reads back, and ends
  there.  Under it lie that the bits of a number sum to it (`Bits`, `Number`), that the
  groups of a `VarInt` end at the first whose bit is clear, that zigzag has an inverse,
  and that both sides skip to the same byte.  The assumption (`CodecAssumption`) is
  that the longest number takes two groups at least and that a length fits into a
  number: the code has groups of 7 bits, numbers of 64 and lengths of 16.

Every invariant that a passing run checks is a theorem, and so are both refinements.  No run
lists a type invariant: those of the shared world, `Jobs`, `AutoConnect` and
`Transport` are theorems (`TypeCorrect`, `JobsTypeCorrect`, `JoinTypeCorrect`,
`TransportTypeCorrect`), and those of the modules under `MCHost` and `MCClient` are
proved within the inductive invariants as far as the proofs need them; both `TypeOK`
can be added to the `INVARIANTS` of their runs, where they hold.

Only model-checked:

- The liveness properties `PlayersMeet`, `GhostsFade`, `DeferredEnds`,
  `AttemptCompletes`, `LostIsForgotten` and `StopsWhenTold`, under the fairness
  above: out of its reach.

## Plan

Done: the modules above.  What would come next:

1. A theorem: `NoGhostRider` with reloads, up to those who were in a vehicle at
   the time.
2. `Mounts` composed with `ServerLevel`, so that the order in which enters and
   exits of one tick are published meets the queue of mounts.

## Not modelled

- Code that nothing calls: `TransferCell`, `CollectCells` and the broadcasts in
  range of `Level.cpp`, `Server::SendToAll`, the flows `HookMainThread`,
  `HookOnce` and `Unhook` of an address, `AddItems` of the appearance, and what
  `Definition.hpp` offers for enumerations, flags and global functions, which the
  client does not register.
- Containers and arithmetic without a protocol: `Signal.h`, `Allocator`, `Hash`,
  the spline that `InterpolationSystem` draws on, the geometry of the emote wheel.
- Widgets of the game's library that come without their controller
  (`MultiplayerGameController.reds:454`, 553, 713).
- Pure input and output: the administration page with `WebApi.cs`, the layout of
  the generated C# and of the widgets, logging, the relays of emotes and of
  vehicles, and the police, which is a stub.
- What belongs to others: the two backends of the overlay (`win32.cpp`,
  `dx12.cpp`) are files of a vendored library; addresses and layouts of the game;
  GameNetworkingSockets, libuv, MinHook and the game's engine, which the modules
  describe as their callers see them.
- The build, its scripts and vendored code.
