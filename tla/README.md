# A TLA+ model of Bomberrobots

Bomberrobots is a networked Bomberman: one server, its clients, and a GUI per
client. This directory models the program from its source, model-checks small
instances with TLC and proves the main safety properties for all parameters with
TLAPS. Line numbers refer to the files of the repository.

## Inventory

| component | state | operations | talks to |
| --- | --- | --- | --- |
| `Game_engine` (game-engine.cpp) | lobby: `players`, `player_ids`, `next_player_id`, `scores`; world: `players_positions`, `blocks_positions`, `bombs`; marks of the turn: `current_blocks_to_erase`, `current_players_to_destroy`; log: `turns`, `current_turn` | `manage_connections` (the only loop), `begin_turn`, `handle_explosion`, four `handle_msg`, `start_gameplay`, `summarise_turn`, `end_gameplay` | calls the TCP handler |
| set of positions (`std::set<position_t>`) | a tree ordered by `operator<` | `count`, `insert`, `erase` | used by engine and client |
| `Server_tcp_handler` | `poll_descriptors[26]`, `addresses`, `active_clients`, one read buffer | `poll_exec`, `accept_client`, `read_from`, `report_msg_status`, `send_message`, `send_message_to_all` | sockets |
| events and turns (event.*) | `Turn_info`: number and events | `add_event`, `to_bytes` | engine |
| client (robots-client.cpp) | `lobby_info`, `game_info`, `is_lobby_status` | thread 1: handlers of the five server messages, then a datagram to the GUI; thread 2: `handle_gui_message` | server (TCP), GUI (UDP) |
| client's reader (robots-client.cpp) and byte parser | one buffer, the position in it, the value being put together | `read_uint8/16/32`, `read_string`, the lists; `*_to_bytes` | the byte stream |
| command-line parsers, `random.h`, error macros | none to speak of | conversions | all |

The server is one thread. Its concurrency comes from outside: clients connect,
join, act and leave at any moment, and the engine meets whatever `poll` reports
in descriptor order, one message per descriptor and round. The client has two
threads that share `is_lobby_status` and the two information objects.

What makes each part correct, and hard:

* engine: five maps filled at different moments agree whenever a handler indexes
  them with `at`; one action per robot and turn; explosions that follow the
  board's rules in `uint16_t` arithmetic; nothing survives into the next lobby;
  the turns sent to the clients account for every position and score; a
  gameplay ends;
* set of positions: `operator<` is no ordering, so what a lookup answers depends
  on the shape of the tree;
* TCP handler: a descriptor position is reused after a client leaves; a failed
  send or a full table concerns all clients, and so does a send that waits for a client that does not
  read; every client is served and every leaver forgotten;
* client: it reads at its own pace what the server sends at five places of its
  loop, and a greeting may come at any moment: its state should be the server's
  once it has read everything, and its inputs be translated for it;
* reader: TCP may cut the stream anywhere, the buffer ends anywhere, and what is
  read should be what was written.

`PROJECT.json` lists the hazards one by one, each at its line, with the properties
that would catch it going wrong, or the reason none does yet.

## Modules

| module | contents |
| --- | --- |
| `StdMap` | `std::map` as the program uses it |
| `PositionSet` | `operator<` and the outcomes of `count`, `insert` and `erase` |
| `GameEngine` | the engine: state, actions, specification, properties |
| `MCGameEngine` and `Engine*.cfg` | instances for TLC |
| `GameEngineProofs` | theorems about the state of `GameEngine` |
| `LogProofs` | the kinds of steps by what they do to the log of turns; scores, actions and positions against it |
| `BombProofs` | bombs against the log, the beams of an explosion against the board's rules |
| `TcpHandler` | the server's descriptor table over a network of TCP connections |
| `Server` | the server process: `GameEngine` and `TcpHandler` composed, SIGINT, ways to end |
| `MCServer` and `Server*.cfg` | instances for TLC |
| `ServerProofs` | theorems about `Server` |
| `Client` | `robots-client`: `Lobby_info`, `Game_info`, its two threads, its ends |
| `Protocol` | abstract specification: the order of messages a greeted client may rely on |
| `Play` | `GameEngine` and one `Client` composed over the two directions of a connection |
| `MCPlay` and `Play*.cfg` | instances for TLC |
| `PlayProofs` | theorems about `Play`: its types, the conversation and the protocol |
| `RosterProofs` | what the client of `Play` knows of the players |
| `ShownProofs` | the bombs it shows and the scores it counts |
| `Wire` | the encoders of the server's messages and the client's buffered reader |
| `MCWire` and `Wire*.cfg` | instances for TLC |
| `WireProofs` | theorems about `Wire`: the reader decodes what the builders encode |

`Server` extends `GameEngine` and instantiates `TcpHandler`; each of its steps joins an
engine action with the handler calls that the code makes in it. `Play` extends
`GameEngine` and instantiates `Client`, and `Protocol` under a refinement mapping.
`Server` looks at many connections and no messages back, `Play` at one client and what it makes of the
messages; both are shown to implement `GameEngine`, so what is proved of it holds in both.

### PositionSet

libstdc++ keeps the set as a red-black tree. With the program's `operator<`,
which compares `first.x` with `second.y`, the tree is not sorted and an element
may even be less than itself. The module keeps the elements in tree order and
returns, for every operation, *all* outcomes that some search tree over that
sequence allows: a descent ends in a gap whose two neighbours it has both
compared. With a proper ordering each operation would have exactly one outcome.
This is an over-approximation of the tree the library builds, so what holds of
the model holds of the program; the violation the model shows (below) uses a
one-element tree, where there is only one shape.

### GameEngine

Variables carry the names of the members of `Game_engine`. Three variables are
the program counter of `manage_connections`: `phase` (where in the loop body),
`cursor` (the next descriptor it looks at) and `index` (the inner loop's
position). `out` is what the last step gave to the TCP handler to send. The loop

    loop -> bombs -> erase -> accept -> serve -> loop      in a gameplay
    loop ----------------> accept -> serve -> loop         in the lobby

is cut where the code's own loops have their iterations:

| action | code |
| --- | --- |
| `BeginTurn`, `TickBomb`, `EraseBombs`, `EraseBlock`, `TurnBegun` | `begin_turn`, with `handle_explosion` inside `TickBomb` |
| `PollInLobby`, `NoConnection`, `AcceptClient` | up to the descriptor loop, `send_hello`, `send_hello_state` |
| `Join`, `JoinRefused`, `SeedBlock` | `Join_msg::handle_msg`, `start_gameplay`, `seed_blocks` |
| `PlaceBomb`, `PlaceBlock`, `Move`, `ActionRefused`, `ActionThrows` | the three action handlers; the checks they share are `MayAct` |
| `EndRound`, `SummariseTurn` | the end of the round, `summarise_turn`, `end_gameplay` |

`Serving(i)` lets any descriptor from `cursor` on present any message, or none,
which is every result `poll` and `read` can have on the engine. A handler is one
action: the engine is single-threaded, and nothing else can see its state in
between. The order of sends within an action is the order in `out`.

Details kept because something depends on them:

* coordinates are `uint16_t` (`% U16`) and player ids `uint8_t` (`% U8`);
  `next_bomb_id` is a `uint32_t` that at most 255 * 65535 placements per gameplay
  can reach, so it is a natural number;
* `int i = accept_client() >= 0` makes `i` the value of the comparison:
  the greeting goes to position 1;
* a byte that is no `Direction` leaves `new_position` uninitialized: any
  position;
* `players_positions.at` throws outside the `try`: the process ends
  (`phase = "aborted"`);
* random draws are a choice of any field of the board; wording, logging, names
  and encodings are left out. A robot is reported once per explosion, so
  `robots_destroyed` is a set: the beams of one explosion never meet on the board.

`GameParams` assumes what the code needs of its parameters: sizes of at least 1
(it divides by them), at least one player, and a radius below the largest
`uint16_t` (its loop would not end). The command-line parser accepts more.

### TcpHandler and Server

A connection stands for its descriptor, its peer and the peer's address, so a
`player_t` is the connection that joined. `poll_descriptors`, `addresses` and `revents`
are the handler's; `backlog`, `inbox` and `peer` are the kernel's and external. Peers
connect, send and leave as they like.

* `poll_exec` takes a snapshot of the ready positions; a position is served once per
  round, in ascending order, and a newcomer not before the next poll.
* `accept_client` stores the connection in the first free position, `refuse_client`
  closes it when there is none; `accept_fails` stores the -1 of a failing `accept` and still
  reports a position.
* A read returns any nonempty prefix of the waiting messages and `handle_msg` executes the
  last (`Executed`); it may end inside a message longer than a byte, and then, like after the end
  of the stream or an error, `report_msg_status` closes the connection (`read_fails`).
* The sockets block: `send` waits while the buffers to a connected peer are full (server-tcp-handler.cpp:199).
  A step that sends gives its messages to `send` (`Sends`) and puts any of the addressees into the state
  `"full"`, since any message may be the one that does not fit. `SendReturns` follows when none is full any more, because the
  peer has read (`MakeRoom`) or has left. Until then the loop takes no step (`Awake`); SIGINT is noted, and `send` restarted
  (`SA_RESTART`, game-engine.cpp:23).
* `SendReturns` is also TCP's answer to data for a peer that has gone: the first send is
  answered with a reset, the next raises SIGPIPE, which the code does not handle. What the code sends before the message
  that waits has its effect together with the rest.
* `Interrupt` is `catch_int`. In the lobby the model separates the test of
  `finish_server` from `poll` (`polling`), because a signal between the two is not noticed;
  `InterruptedPoll` is the EINTR that ends the process.

`process` is how the process ended: `"stopped"` (the loop ended and `close_conn`
ran), `"failed"` (exit after EINTR), `"killed"` (SIGPIPE) or `"terminated"` (the uncaught
exception). The state left behind by a process that has ended means nothing, and no
action follows. `active_clients` is left out: nothing reads it.

### Client and Play

A message is a record, the maps in it are functions. The parameters of `Hello` are abstracted
to whether one has been read (`known`): they are constants of the server, and zero before.
`game_info` and `lobby_info` have the maps the code keeps, with what its insertions do:
`std::map::insert` leaves a key that is present alone, and blocks are an ill-ordered set again.

| action | code |
| --- | --- |
| `Receive` | `handle_server_message`: the handler of the message read, up to the point where the other thread, the GUI or an exception can tell |
| `Continue` | the rest of a handler: the status after `Hello`, one event of a turn, the drawing after its last |
| `GuiInput`, `SendInput` | `handle_gui_message`: an input is translated for the status of the moment, and sent later |
| `ClientExits` | `exit_with_msg`, when a read, a send or a draw fails |
| `ServerMoves`, `AcceptMe`, `ServeMe` | a step of the engine with what it sends (`Deliver`) |

`scores.at` in `destroy_player` throws for an unknown player; nothing catches it and the client
ends as `"terminated"`. A server that sends blocks while the client does not read
(`MaxPending` messages wait), and so does the client (`MaxUnread`); this is TCP's flow control with
small buffers. As in `handle_msg`, a read takes any number of the waiting messages and executes the last.
The other descriptor positions may present anything. `Play` follows the first client of its position:
positions used again belong to `Server`.

`Protocol` is what a greeted client may rely on: a greeting starts over, players are
announced in the order of their ids, a gameplay starts when all or none are known, its turns come from 0
without a gap, and it ends after the last. A turn may be told twice (a newcomer gets the open one and
gets it again when it is closed), which `Protocol` does not see.

### Wire

A message is a sequence of typed fields, written by the builders and `byte-parser`. The reading
functions call one another; the model keeps what they have still to read as a stack, `todo`.
`read_server` is `read_if_buf_empty`: it returns any part of the stream up to `BUFFER_SIZE`.
Kept as they are: a `uint16_t` of which one byte is left in the buffer takes that byte and an uninitialized one
(robots-client.cpp:98), and a string whose rest comes with a later read takes up to its whole length from it
(line 143). `cuts` counts how often that happened. A byte has `Base` values, 5 instead of 256: the
arithmetic is the same and the codes fit. `Message` gives the types of the members of the messages; `Fits` says of a message
that the format has room for it: each string is shorter than `Base`, which no code tests, and each list shorter than a `uint32_t` counts.

## Runs

Integers of the game are narrow (`U16 = U8 = 4`), so that coordinates wrap one or two
fields beyond the board. `CHECK_DEADLOCK FALSE`: the server can really stop, by
the uncaught exception, a signal or SIGPIPE; a reader has read everything.

| run | instance | checks |
| --- | --- | --- |
| `engine_rules` | 2 players, 2 client positions, 2x2 board, 2 turns, radius 1, fuse 1, no initial blocks, any direction byte (about 240,000 states) | `TypeOK`, `InGameTablesAgree`, `IdsConsistent`, `NoAbortInGame`, `EngineInv`, `PositionsMatchLog`, `ScoresMatchLog`, `OneActionPerTurn`, `LogInv`, `HistoryFrozen` |
| `engine_blast` | 1 player, 2x3 board, 3 turns, radius 2, fuse 2, 2 initial blocks (about 72,000 states) | `OnBoard`, `FuseHonoured`, `ExplosionFollowsRules` |
| `engine_walk` | 1 player, 2x2 board, 1 block | `WalksOnlyIntoFreeFields`: violated |
| `server_table` | 2 positions, 2 connections, Join, Place_bomb and Move, 1 unread message, 1 player, 1x1 board, 1 turn, with fairness (about 133,000 states) | `TableAgrees`, `EngineSpec`, `LeaversAreForgotten`, `ClientsAreServed` |
| `server_loop` | 1 position, 2 connections, Join and Place_block, 2 unread messages, 2 players, so that a joined player can act in the lobby, 2 turns, with fairness (about 349,000 states) | `ServerTypeOK`, `GameEnds`, `InterruptStops` |
| `server_reuse` | 1 position, 2 connections | `OwnRobotOnly`: violated |
| `play_follow` | the client at position 1 beside one other, 2 players, 1x1 board, 2 turns, fuse 1, all inputs, with fairness (about 405,000 states) | `PlayTypeOK`, `Conversation`, `StatusFollowsServer`, `PlayersDrawn`, `BombsDrawn`, `ScoresCountHits`, `DiesOnlyIfGreetedLate`, `ProtocolKept`, `ClientReturns` |
| `play_abort` | the same with 6 messages in flight, bombs only | `ClientIsHarmless`: violated |
| `play_ungreeted` | the client at position 2 | `StatusFollowsServer`: violated |
| `play_positions` | 1x2 board, moves only | `RobotsShownInPlace`: violated |
| `wire_decode` | four conversations with every kind of message and event, cut everywhere, buffer of 6 bytes, up to 3 cuts, with fairness (about 142,000 states) | `WireTypeOK`, `DecodedUntilCut`, `DecodedWhenTaken`, `AllDecoded` |
| `wire_split` | the same | `ReadsWhatWasSent`: violated |

Why these bounds: in `engine_rules` both robots can be hit by one bomb or by two
in one turn, a destroyed player sends a message in the turn of its destruction,
respawned robots are hit again in the next turn, a client connects in every state, and a gameplay
is followed by a second lobby. `engine_blast` has beams of length 2 in a row of 3
with `U16 = 4`, so a beam that went on beyond the border would wrap and come back on the
far side, blocks on the way and behind others, and a turn between placing and exploding in which
more bombs are placed.

The server and client runs use the
smallest game there is, because the engine's own runs vary the game: what matters there is
who holds a position, or who has been told what. One position for two connections gives reuse and a full table; two positions give
the order of service, and a peer that does not read beside one that leaves or waits to be served. Two unread messages are the least for which a read
holds more than one. In `play_follow` the other client joins before, after or twice, every accepted connection greets
position 1 again in any state, `MaxPending = 1` lets a step's messages (up to five) queue behind one unread message, a
turn of two is told to a newcomer while it is open, bombs explode and hit one or both robots, and the next lobby
follows. `MaxPending` is 6 in `play_abort` because there the client must be a whole gameplay behind. The reader's buffer of
6 bytes is longer than a `uint32_t` and shorter than every message but the shortest, so it ends inside values of every kind.

Properties about the state: `OnBoard`, `IdsConsistent`, `InGameTablesAgree` and
`NoAbortInGame`; `EngineInv` joins them, with `PhaseAgrees`, to the inductive
invariant of the proofs. Properties that relate the state to the whole log of turns
(what a client is told): `PositionsMatchLog`, `ScoresMatchLog`, `FuseHonoured`,
`OneActionPerTurn`; `LogInv` is their inductive strengthening. Action properties: `HistoryFrozen` and
`ExplosionFollowsRules`, whose reference is a cross and the relation "on the way"
in plain integers, with no beams, no order and no wrapping. Properties that relate the two processes:
`Conversation` (the messages in flight lead from what the client knows to where the server is),
`StatusFollowsServer`, `PlayersDrawn`, `BombsDrawn`, `ScoresCountHits`, each of a client that has read everything.

Fairness. `ServerSpec` assumes `WF_server_vars(LoopStep)`: the process runs unless it waits in `poll` in the lobby, where
no descriptor is ready, or in `send`, for a connected peer that does not read. In a gameplay nothing else can stop it: the
sleep has a fixed duration and `poll` is called with timeout 0. Nothing is assumed about peers or signals. Weak fairness is enough
for `SendReturns`, because the buffers that have room stay so until the server fills them. The engine's own specification, `Spec`,
has no fairness.

A peer that stays connected and never reads stops the server for ever, SIGINT or not: this is what the code does, not an
artefact of the model, and the four liveness properties of `Server` leave out exactly this case: `HangsInSend`, a peer is
`"full"` from some point on. A wait that ends, however often and for whomever, is no excuse. Without the exception TLC finds each of them
violated. They also allow for the process ending first, since a leaver can end it by SIGPIPE. `InterruptStops` has a second exception,
the signal that comes between the test of `finish_server` and `poll(-1)`: the server then waits for the next client.

`FairPlay` assumes that the client's receiving thread goes on, which waits for nothing but a message, and that the server's loop
does in a gameplay *where it sends nothing* (`SilentStep`). The one step that must send, the turn (`SendTurn`), may wait for this client, which
the model has (`MaxPending`), and for the others, which `Play` does not follow. That they read what they are sent, or leave, is
therefore the hypothesis `OthersRead` of `ClientReturns`, and not a part of the specification. The input thread may rest for ever. `WireSpec`
assumes that a reader reads what has been sent.

### What the violations show

* `engine_walk`: a block at (0,1) is "less than itself" for `operator<`
  (game-messages.cpp:4), the lookup misses it, and a robot walks into it. The
  comment on `check_position_to_move` (game-engine.h:89) says it "returns if
  player can walk into this position".
* `server_reuse`: closing a connection (server-tcp-handler.cpp:145) leaves `player_ids`
  alone; the next client at that position is the player who left.
* `play_abort`: a player who acts before the gameplay starts has
  an id and no position; `players_positions.at` (game-engine.cpp:423, 451, 476)
  throws and nothing catches it. `robots-client` itself can do so: greeted in a gameplay it is in the lobby state
  until it has read `GameStarted`, an input in between is a `Join` that the server serves in the next lobby,
  and the input after it is an action. README.md:13 says the game is cyclic. That this
  never happens *during* a gameplay is the theorem `GameplayNeverAborts`.
* `play_ungreeted`: `int i = accept_client() >= 0` (game-engine.cpp:52) is 1 for every
  position, so only position 1 is ever greeted. A client elsewhere takes the lobby for a gameplay
  and never sends `Join`. (`Play` does not follow who else is connected, so its shortest counterexample puts the client at position 2 while
  position 1 is free; in the code another client connects first.) server-tcp-handler.h:80 says that `accept_client`
  returns the descriptor's position.
* `play_positions`: `change_player_position` (game-messages.h:185) inserts, so a robot is shown where it
  was first seen until an explosion erases it.
* `wire_split`: a `uint16_t` whose bytes arrive in two reads (robots-client.cpp:98) is read wrong, and so
  is everything after it. Without such a cut the reader is right: `wire_decode`.

## Proofs

`GameEngineProofs` proves, for every value of the constants allowed by
`GameParams` (any table size, board, width, number of players and set of direction bytes):

| theorem | statement |
| --- | --- |
| `TypeCorrect` | `Spec => []TypeOK` |
| `StaysOnBoard` | `Spec => []OnBoard` |
| `IdsAreConsistent` | `Spec => []IdsConsistent` |
| `TablesAgree` | `Spec => []InGameTablesAgree` |
| `EngineInvariant` | `Spec => []EngineInv` |
| `GameplayNeverAborts` | `Spec => []NoAbortInGame` |
| `HistoryNeverChanges` | `Spec => HistoryFrozen` |

`ServerProofs` proves, for every number of positions and connections and every set of messages whose
moves carry a `DirectionByte` (`MessageAssumption`), with `None` no connection (`NoneAssumption`):

| theorem | statement |
| --- | --- |
| `ServerInvariant` | `ServerSpec => []ServerInv` |
| `ServerTypeCorrect` | `ServerSpec => []ServerTypeOK` |
| `TableIsConsistent` | `ServerSpec => []TableAgrees` |
| `ServerImplementsEngine` | `ServerSpec => EngineSpec` |
| `ServerKeepsEngineInv` | `ServerSpec => []EngineInv` |

`TableAgrees` is not inductive: that a newly accepted connection is in no other position
needs that the backlog holds each connection once, opened and not closed, which is what
`ServerInv` adds. The refinement needs the invariant too: a `Join` carries
`get_address(i)`, and only `TableAgrees` makes that the address of a connection and not
the garbage a failed `accept` stored.

For the engine the argument is a chain of inductive invariants. `TypeOK` is inductive by itself;
the work is in the maps (`MapInsert`, `InsertOrAssign`, `AssignAll`), the outcomes of the
position set (`InsertType`, `EraseType`) and the wrap-around arithmetic.
`OnBoard` is inductive with it, because every position is either a random draw or passes
`check_position`. `IdsConsistent` needs its last two conjuncts: without "a gameplay runs
exactly when `next_player_id = players_count`" nothing keeps the `uint8_t` counter
from wrapping. `InGameTablesAgree` is not inductive alone: `BeginTurn` increments
`current_turn`, so it needs from `PhaseAgrees` that the loop is back at its top only
before the last turn, and `SeedBlock` adds to turn 0, so seeding must happen in that
turn. `NoAbortInGame` then follows, since during a gameplay the two
maps that an action handler indexes have the same domain. `HistoryFrozen` follows from the invariant on two
consecutive states.

`LogProofs` and `BombProofs` prove, from the same assumptions:

| theorem | statement |
| --- | --- |
| `LogProofs.ScoresMatch` | `Spec => []ScoresMatchLog` |
| `LogProofs.OneAction` | `Spec => []OneActionPerTurn` |
| `LogProofs.PositionsMatch` | `Spec => []PositionsMatchLog` |
| `BombProofs.FuseInvariant` | `Spec => []FuseInv`, the part of `LogInv` about bombs |
| `BombProofs.FusesAreHonoured` | `Spec => []FuseHonoured` |
| `BombProofs.LogInvariant` | `Spec => []LogInv` |
| `BombProofs.ExplosionsFollowRules` | `Spec => ExplosionFollowsRules` |

`ScoresMatchLog`, `OneActionPerTurn` and `FuseHonoured` are not inductive; `LogInv` adds what they need. `StepKinds` first sorts every
step by what it does to the log: nothing, open a turn, add an explosion, an action, a seeded block or
the respawns to the open one, start it or drop it. Each proof then has one case per kind, and the events of a grown log are
those of the old one and the new ones (`GrownEvents`, `PlacesGrown`).

* Scores: `MarksMatchOpenTurn` says which robots are marked at which place of the loop: those that the open turn reports
  hit, until the summary counts them and clears the marks. Two bombs that hit a robot in one turn mark it once.
* Actions: `OpenTurnServed` says that the open turn has at most one action of each player whose position the round has
  passed; positions are served in increasing order and no two have the same player (`IdsConsistent`).
* Positions: inductive as it stands, but the respawns of a turn are many events at once, so the last one about
  a robot has to be found among them (`AscendingOnto`: an iteration over a map meets every key).
* Fuses: `TimersCount` relates the `uint16_t` timer to the distance between the turn of placing and the open one. Inside the
  loop over the bombs the timers before `index` have counted the open turn and the others not, and exploded bombs stay
  in the map until the loop is over. A `bomb_timer` of 0 burns `U16` turns (`TimerTicks`). `BurntReported` adds that a bomb whose
  fuse has burnt was reported to explode, so none is forgotten without its event.
* Beams: the code tries the four directions one distance at a time; `ReachedIs` turns the tries into a direction and
  a distance. A coordinate that wraps around passes the first field beyond the border, where the beam ends, because a board has
  fewer than `U16` columns and rows (`UpwardStays`, `DownwardStays`). The lookups of the ill-ordered set may miss a block: a
  beam then passes it, and it is not destroyed, so what is left between the bomb and a robot is no *destroyed* block. The nearest block of
  an arm is found as a least element (`ReachedExposed`).

`PlayProofs` proves, for every value of the constants, every set of inputs that the engine knows
(`InputAssumption`) and every length of the two queues:

| theorem | statement |
| --- | --- |
| `PlayImplementsEngine` | `PlaySpec => Spec` |
| `PlayKeepsEngineInv` | `PlaySpec => []EngineInv` |
| `PlayTypeCorrect` | `PlaySpec => []PlayTypeOK` |
| `PlayInvariant` | `me = 1`: `PlaySpec => []PlayInv` |
| `ConversationHolds` | `me = 1`: `PlaySpec => []Conversation` |
| `StatusIsRight` | `me = 1`: `PlaySpec => []StatusFollowsServer` |
| `ProtocolIsKept` | `me = 1`: `PlaySpec => ProtocolKept` |

`PlayTypeOK` is inductive. What is not obvious in it is that the client's blocks stay a sequence of positions, since the code folds
each turn into them: the fold of the community modules is defined by recursion over the set of indices, so its type is shown at a least number of indices for
which it would fail (`FoldExists`, `FoldTyped`).

Where `me = 1` is stated it is needed: `play_ungreeted` shows what happens elsewhere. The argument: a *chain* is a sequence of messages each
of which may follow what the ones before have told. `EngineTells` shows, one engine action at a time, that what a step sends is
a chain from where the server has told it is to where it is then; the greeting needs that the turns are numbered
without a gap (`EngineInv`) and that an iteration over the players yields the ids 0, 1, ... in order
(`AscendingInterval`, by a least counterexample). `ChainExtended` appends it to what is in flight, `ChainShortened` takes the
message the client reads from the front, and `ReceiveTells` shows that the client then knows what the message says.
`Conversation` is not inductive: `PlayInv` adds that nothing is on its way before the client is accepted and that
the first message it reads is its greeting, and types, which TLC cannot evaluate (sets of maps to `Nat`). For the same
reason `PlayInv` is stated in `PlayProofs`. The refinement of `Protocol` then is one case per handler.

`RosterProofs` proves, also for `me = 1`:

| theorem | statement |
| --- | --- |
| `RosterInvariant` | `PlaySpec => []RosterInv` |
| `PlayersAreDrawn` | `PlaySpec => []PlayersDrawn` |
| `OnlyLateClientsDie` | `PlaySpec => []DiesOnlyIfGreetedLate` |

`Conversation` says how many players a client has been told of; `RosterInv` adds that it was told the truth. A message in flight is
true of the players of the server *unless the end of a gameplay follows it in the queue*, since then it is about players that the
server has forgotten (`NoEndAfter`), and so is what the client knows. `EngineSendsWell` shows that what a step sends is true of the
players after it, and that players are only added by a step that does not send the end. For the exception: explosions report only
ids of the gameplay (`LogHitsKnown`), and a client that starts a gameplay knows all of them or none (`Conversation`), so
`scores.at` can only fail for a client that knows none.

`ShownProofs` proves, also for `me = 1`:

| theorem | statement |
| --- | --- |
| `ShownInvariant` | `PlaySpec => []ShownInv` |
| `BombsAreDrawn` | `PlaySpec => []BombsDrawn` |
| `ScoresAreCounted` | `PlaySpec => []ScoresCountHits` |

`ShownInv` relates three things to the server's log of turns: the turns in flight, the turn that is being read and what the client has
made of what it has read. Each turn in flight is the *beginning* of that turn in the log, because a newcomer is sent the open turn and gets it again
when it is closed, and all of it when another turn follows (`TurnShown`). The client has *seen* the first `r` events of its turn and all before
it, and has read the first `n` of them in the message at hand (`Sees`): `n < r` when it reads a turn for the second time, and then an event must change
nothing. It does not: a bomb that is placed again is still in the map, since its explosion comes in a later turn (`FusesAreLong`, from
`FuseInv`), and keeps its place; a bomb that explodes again is gone already, and erasing it again
changes nothing (`BombsRead`). Scores are not idempotent, so `Gapless` says that a client that knows players is told no turn twice: the second telling
follows a greeting, which empties the list of players, or precedes the gameplay (`QueueFresh`). `EngineSays` sorts the engine's steps by what they add to the
queue (nothing, the next turn, or a conversation that starts over) and to the log, which only grows at the end of the
open turn (`Extended`). For a client that has read everything `r` covers the whole log, and `FuseInv`, with
`BombsWherePlaced`, says that what was placed and has not exploded is what the engine has.

`WireProofs` proves, for every width of a byte above 4, every length of the buffer, every set of conversations of
well-typed messages (`BytesAssumption`, `ConversationsAssumption`) and every bound `MaxCuts`:

| theorem | statement |
| --- | --- |
| `WireTypeCorrect` | `WireSpec => []WireTypeOK` |
| `DecodedUntilCutCorrect` | all messages fit: `WireSpec => []DecodedUntilCut` |
| `DecodedWhenTakenCorrect` | all messages fit: `WireSpec => []DecodedWhenTaken` |

The hypothesis of the last two is `Fits` for each message of each conversation; `SampleFits` in `MCWire` is the same hypothesis, evaluated by TLC,
about the conversations of the runs. It is needed: a longer name is written with its length modulo `Base` (byte-parser.cpp:32).

The proof relates two programs that were written apart. The *language* of a stack of values still to be read is the set of
triples (stack, bytes, values) that the reading functions would produce from a stream that nothing cuts: the *least* relation closed under one step
of reading (`Language`, `CanRead`). It is built from below for the builders: `Parses(t, fs)` says that the
fields `fs` of a builder are what the stack `t` of a reader reads. Each pair of a builder and its reader has a lemma, from
`ParsesValue` over `ParsesList`, `ParsesEvent` and `ParsesMessage` to `ParsesConversation`, and such facts compose (`Compose`, by leastness). It is
taken apart from above for the reader: because the relation is least, what is in it got there by a step (`LanguageReads`), so the value that the next function
puts together is the one that was written (`OpenValue`, `OpenCharacters`, `OpenLoop`).

`DecodedUntilCut` is not inductive: it says nothing of what is still to come. `DecodeInv` adds, as long as nothing was cut, that what
is on the stack and then some messages read the bytes of the value so far, of the buffer and of the stream, and what they give, after the
values the client has got, is all that was said (`OnTrack`); and that a value is half put together only where the code does that (`Partial`). Then
each function has a case: all bytes of a value (`ReadValue`), a part of them (`ReadPart`), a loop's head, or a read from the socket, which moves the
boundary between buffer and stream and not the bytes. The case of a `uint16_t` with one byte left, and that of a string
that takes too much, are those in which `cuts` grows.

Least relations, least counterexamples and intersections of closed sets stand in all these proofs where one would use induction: the
library's induction theorems take an operator as a parameter, which the installed provers cannot instantiate.

Only model-checked: the liveness properties `GameEnds`, `LeaversAreForgotten`, `ClientsAreServed`,
`InterruptStops`, `ClientReturns` and `AllDecoded`, since liveness
under fairness is out of the prover's reach. `DecodedWhenTaken` is the safety part of `AllDecoded`.

## Not modelled, and plan

* Command-line parsers: boost glue that runs once. What they let through and `GameParams` excludes is listed under
  the hazards.
* Error macros: they print, and sometimes exit; what they do to control is in the actions of their callers.
* `main` of both programs, opening sockets, the text on standard output.
* The GUI is an external program. Its datagrams are not cut, so their encoders are abstracted to the record `drawn`.
* `random.h`: a draw is any field of the board; the generator's sequence is not modelled.
* Strings longer than a byte can count: `string_to_bytes` has the conversion, the run and the theorems about the reader have only names that fit.
* Messages that are malformed from the start: the disconnection for them (game-engine.cpp:282-287) is reached in the model by messages that are cut.
* A client at a position used again: `Server` shows that it acts as the player who left, `Play` does not follow it.

Every invariant and every safety action property that a passing run checks has a theorem; what is left to TLC is the
liveness named above.
