-------------------------------- MODULE Play --------------------------------
(***************************************************************************)
(* The server's engine with one robots-client at descriptor position me,   *)
(* over the two directions of their TCP connection.  The other positions   *)
(* may present anything, as in GameEngine.  me is its position's first     *)
(* client: positions that are used again belong to Server.                 *)
(***************************************************************************)
EXTENDS GameEngine

CONSTANTS
    me,             \* the descriptor position of the client
    Input,          \* what the client sends for its GUI's inputs in a game
    MaxPending,     \* bound: send blocks while as many messages wait
    MaxUnread       \* bound: the client's write blocks likewise

ASSUME InputAssumption ==
    \A m \in Input :
        /\ m.code \in {"Place_bomb", "Place_block", "Move"}
        /\ m.code = "Move" => m.direction \in DirectionByte

\* Position 0 listens.
ASSUME MeAssumption == me \in Slot

VARIABLES
    lobby_info, game_info, is_lobby_status, handling, input, drawn, client,
    accepted,       \* the server has accepted the connection
    to_client,      \* messages on their way to the client
    to_server       \* messages on their way to the server

Own == INSTANCE Client

client_vars == <<lobby_info, game_info, handling, drawn, is_lobby_status, input, client>>
play_vars == <<vars, client_vars, accepted, to_client, to_server>>

PlayInit ==
    /\ Init /\ Own!ClientInit
    /\ accepted = FALSE /\ to_client = <<>> /\ to_server = <<>>

-----------------------------------------------------------------------------
(* The server.                                                             *)

\* The messages of a step all have the same addressee.
ForMe(sent) ==
    IF sent # <<>> /\ sent[1].to \in {All, me}
    THEN [k \in DOMAIN sent |-> sent[k].msg] ELSE <<>>

\* What a step sends reaches an accepted client, in order.  send waits for a
\* client that does not read, and not for one that has ended.
Deliver ==
    /\ Len(to_client) < MaxPending \/ out' = <<>> \/ client # "running"
    /\ to_client' = to_client \o
            (IF accepted' /\ client = "running" THEN ForMe(out') ELSE <<>>)
    /\ UNCHANGED client_vars

ServerMoves ==
    /\ \/ ServerStep
       \/ \E position \in {-1} \cup (Slot \ {me}) : AcceptClient(position)
       \/ \E i \in Slot \ {me} : HandleMsg(i)
    /\ UNCHANGED <<accepted, to_server>>
    /\ Deliver

AcceptMe ==
    /\ ~accepted /\ AcceptClient(me)
    /\ accepted' = TRUE /\ UNCHANGED to_server
    /\ Deliver

\* One read returns the first n messages; the last is executed.
Executes(m) ==
    \/ /\ m.code = "Join"
       /\ JoinRefused(me) \/ \E player \in Player : Join(me, player)
    \/ m.code # "Join" /\ (ActionRefused(me) \/ ActionThrows(me))
    \/ m.code = "Place_bomb" /\ PlaceBomb(me)
    \/ m.code = "Place_block" /\ PlaceBlock(me)
    \/ m.code = "Move" /\ Move(me, m.direction)

ServeMe ==
    /\ accepted
    /\ \E n \in DOMAIN to_server :
        /\ Executes(to_server[n])
        /\ to_server' = SubSeq(to_server, n + 1, Len(to_server))
    /\ UNCHANGED accepted
    /\ Deliver

-----------------------------------------------------------------------------
(* The client.                                                             *)

Receive ==
    /\ to_client # <<>>
    /\ Own!handle_server_message(Head(to_client))
    /\ to_client' = Tail(to_client)
    /\ UNCHANGED <<vars, accepted, to_server>>

Continue ==
    /\ Own!HelloHandled \/ Own!ReadEvent \/ Own!TurnHandled
    /\ UNCHANGED <<vars, accepted, to_client, to_server>>

GuiInput ==
    /\ \E m \in Input : Own!handle_gui_message(m)
    /\ UNCHANGED <<vars, accepted, to_client, to_server>>

SendInput ==
    /\ Len(to_server) < MaxUnread
    /\ to_server' = Append(to_server, input)
    /\ Own!send_server_message
    /\ UNCHANGED <<vars, accepted, to_client>>

ClientExits ==
    /\ Own!exit_with_msg
    /\ to_client' = <<>>
    /\ UNCHANGED <<vars, accepted, to_server>>

-----------------------------------------------------------------------------
(* The specification.                                                      *)

EngineMoves == ServerMoves \/ AcceptMe \/ ServeMe
ServerThread == Receive \/ Continue

PlayNext == EngineMoves \/ ServerThread \/ GuiInput \/ SendInput \/ ClientExits

PlaySpec == PlayInit /\ [][PlayNext]_play_vars

\* The steps of a gameplay in which the loop sends nothing, and its one step
\* that must send: the turn goes to this client and to all others.
Alone == UNCHANGED <<accepted, to_server>> /\ Deliver
SilentStep == gameplay_started /\ phase # "serve" /\ ServerStep /\ Alone
SendTurn == SummariseTurn /\ Alone

\* The client's receiving thread keeps running, and so does the server's loop
\* in a gameplay, up to its sends: these may wait for another client, for ever.
FairPlay ==
    /\ PlaySpec
    /\ WF_play_vars(ServerThread)
    /\ WF_play_vars(SilentStep)

-----------------------------------------------------------------------------
(* What the client has been told.                                          *)

Following == accepted /\ client = "running"

\* Nothing is on its way or half read.
Drained == Following /\ to_client = <<>> /\ handling = Own!Nothing

InLobby(ids) == [stage |-> "lobby", roster |-> ids, turn |-> 0]
InGame(turn) == [stage |-> "game", roster |-> {}, turn |-> turn]

\* What a client knows that has just read m: the ids of those who have joined,
\* or the last turn.
ToldBy(m) ==
    CASE m.code = "AcceptedPlayer" -> InLobby(0 .. m.id)
      [] m.code = "GameStarted" -> InGame(-1)
      [] m.code = "Turn" -> InGame(m.turn)
      [] OTHER -> InLobby({})

\* m may follow what has been told.
Follows(told, m) ==
    CASE m.code = "AcceptedPlayer" -> /\ m.id \in 0 .. players_count - 1
                                      /\ told = InLobby(0 .. m.id - 1)
      [] m.code = "GameStarted" -> told \in {InLobby({}), InLobby(0 .. players_count - 1)}
      [] m.code = "Turn" -> /\ told \in {InGame(m.turn - 1), InGame(m.turn)}
                            /\ m.turn \in 0 .. game_length
      [] m.code = "GameEnded" -> told = InGame(game_length)
      [] OTHER -> m.code = "Hello"

\* The same, from the client's own state.
ClientTold ==
    IF is_lobby_status \/ handling.code = "Hello"
    THEN InLobby(DOMAIN lobby_info.players) ELSE InGame(game_info.turn)

ToldAt(k) == IF k = 0 THEN ClientTold ELSE ToldBy(to_client[k])

\* The server has told a client that has read everything told.  A newcomer
\* gets the open turn, which the others get when it is closed.
ServerTold(told) ==
    IF gameplay_started
    THEN /\ told \in {InGame(current_turn - 1), InGame(current_turn)}
         /\ phase = "loop" => told = InGame(current_turn)
    ELSE told = InLobby(0 .. next_player_id - 1)

-----------------------------------------------------------------------------
(* Properties of a client at position 1, the one that is greeted.          *)

SentByClient == Input \cup {[code |-> "Join"]}

\* The members of the client and the two directions of the connection hold
\* values of their types.
PlayTypeOK ==
    /\ lobby_info.known \in BOOLEAN /\ Map(lobby_info.players, PlayerId, Player)
    /\ game_info.known \in BOOLEAN /\ Map(game_info.players, PlayerId, Player)
    /\ game_info.turn \in -1 .. U16 - 1
    /\ Map(game_info.player_positions, PlayerId, Position)
    /\ game_info.blocks \in Seq(Position)
    /\ Map(game_info.bombs, Nat, Bomb)
    /\ Map(game_info.scores, PlayerId, Nat)
    /\ is_lobby_status \in BOOLEAN
    /\ handling.code \in {"none", "Hello", "Turn"}
    /\ input \in SentByClient \cup {Own!Nothing}
    /\ drawn.code \in {"none", "Lobby", "Game"}
    /\ client \in {"running", "terminated", "exited"}
    /\ accepted \in BOOLEAN
    /\ to_server \in Seq(SentByClient)

\* Every message on its way may follow what the client has been told before
\* it, and after the last of them the client knows what the server thinks it
\* knows, although greetings, joins, turns and the end of a gameplay are sent
\* at different places of the loop and read at the client's own pace.
Conversation ==
    Following =>
        /\ \A k \in DOMAIN to_client : Follows(ToldAt(k - 1), to_client[k])
        /\ ServerTold(ToldAt(Len(to_client)))

\* Where the client is in the protocol.
Stage ==
    IF client # "running" THEN "gone"
    ELSE IF lobby_info.known THEN ClientTold.stage ELSE "silent"

Promised == INSTANCE Protocol WITH
    stage <- Stage,
    roster <- DOMAIN lobby_info.players,
    turn <- game_info.turn

\* The messages come in the order that Protocol promises.
ProtocolKept == Promised!Spec

\* A client that has read everything turns inputs into Join exactly when the
\* server is in the lobby.
StatusFollowsServer == Drained => (is_lobby_status <=> ~gameplay_started)

\* In the lobby the GUI of such a client lists the players who have joined,
\* although every greeting, and the end of a gameplay, empties the list.
PlayersDrawn ==
    Drained /\ ~gameplay_started => drawn.code = "Lobby" /\ drawn.info.players = players

\* Between two turns it shows the bombs that are burning, at their places,
\* however many of the turns the client has been told twice.
BombsDrawn ==
    Drained /\ gameplay_started /\ phase = "loop" =>
        /\ drawn.code = "Game" /\ DOMAIN drawn.info.bombs = DOMAIN bombs
        /\ \A b \in DOMAIN bombs : drawn.info.bombs[b].position = bombs[b].position

\* A client that has seen everyone join counts the explosions that hit a
\* robot (the server counts the turns with one).
ScoresCountHits ==
    Drained /\ gameplay_started /\ phase = "loop" /\ game_info.players = players =>
        \A p \in DOMAIN players :
            game_info.scores[p] = Cardinality({l \in Log : Destroys(At(l), p)})

\* The exception of scores.at ends a client only if it was greeted during
\* the gameplay, and so knows no player.
DiesOnlyIfGreetedLate == client = "terminated" => game_info.players = <<>>

\* The other clients read what they are sent, or leave: a turn for which this
\* client has room is sent.
OthersRead == WF_play_vars(SendTurn)

\* If the other clients read, a client in a gameplay gets back to the lobby
\* unless it ends: the end of the gameplay reaches it.
ClientReturns ==
    OthersRead =>
        ((Following /\ ~is_lobby_status /\ lobby_info.known)
            ~> (is_lobby_status \/ client # "running"))

-----------------------------------------------------------------------------
(* What the repository says and the code does not do.                      *)

\* "sends clients information about the game state" (README.md): the client
\* shows every robot where it is.
RobotsShownInPlace ==
    Drained /\ gameplay_started /\ phase = "loop" =>
        game_info.player_positions = players_positions

\* "The game is cyclic" (README.md): no message of robots-client ends the
\* server.
ClientIsHarmless ==
    [][phase' = "aborted" => phase = "aborted" \/ UNCHANGED to_server]_play_vars
=============================================================================
