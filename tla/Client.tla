------------------------------- MODULE Client -------------------------------
(***************************************************************************)
(* robots-client: one thread reads the server's messages, keeps lobby_info *)
(* and game_info and draws on the GUI, the other turns the GUI's inputs    *)
(* into messages for the server.  They share is_lobby_status, without      *)
(* synchronisation.                                                        *)
(*                                                                         *)
(* A message is what the reader of Wire makes of the bytes.  The game's    *)
(* parameters are abstracted to whether a Hello has filled them in: they   *)
(* are zero before.  explosions, which nothing fills, is left out.         *)
(***************************************************************************)
EXTENDS Integers, Sequences, SequencesExt, StdMap, PositionSet

CONSTANTS
    bomb_timer,     \* the parameter of that name in the server's Hello
    Input           \* the messages place_bomb_message, place_block_message
                    \* and move_message make of the GUI's inputs

VARIABLES
    lobby_info, game_info, is_lobby_status,
    handling,       \* what handle_server_message has still to do
    input,          \* what handle_gui_message is about to send
    drawn,          \* the last datagram sent to the GUI
    client          \* "running", or how the process ended

server_thread == <<lobby_info, game_info, handling, drawn>>
client_vars == <<server_thread, is_lobby_status, input, client>>

Nothing == [code |-> "none"]
Idle == client = "running" /\ handling = Nothing

-----------------------------------------------------------------------------
(* Lobby_info and Game_info.                                               *)

Lobby_info(known) == [known |-> known, players |-> <<>>]

add_player(id, player) ==
    [lobby_info EXCEPT !.players = map_insert(@, id, player)]

\* Slip: the players of the last gameplay stay.
clear_players_keeps == lobby_info

clear_players == [lobby_info EXCEPT !.players = <<>>]

\* Slips: the scores of the last gameplay stay, or player 0 gets no score.
Game_info_keeps_scores(lobby) ==
    [known |-> lobby.known, turn |-> -1, players |-> lobby.players,
     player_positions |-> <<>>, blocks |-> <<>>, bombs |-> <<>>,
     scores |-> IF lobby.players = <<>> THEN <<>>
                ELSE assign_all([p \in DOMAIN lobby.players |-> 0], game_info.scores)]

Game_info_from_one(lobby) ==
    [known |-> lobby.known, turn |-> -1, players |-> lobby.players,
     player_positions |-> <<>>, blocks |-> <<>>, bombs |-> <<>>,
     scores |-> [p \in DOMAIN lobby.players \ {0} |-> 0]]

\* The scores handed to the constructor are the global map, always empty.
\* turn is not initialized, and not read before the first new_turn: -1.
Game_info(lobby) ==
    [known |-> lobby.known, turn |-> -1, players |-> lobby.players,
     player_positions |-> <<>>, blocks |-> <<>>, bombs |-> <<>>,
     scores |-> [p \in DOMAIN lobby.players |-> 0]]

new_turn(turn) == [game_info EXCEPT !.turn = turn]

add_bomb(id, position) ==
    LET timer == IF game_info.known THEN bomb_timer ELSE 0
    IN  [game_info EXCEPT !.bombs = map_insert(@, id, [position |-> position, timer |-> timer])]

\* insert: a position that is present stays.
change_player_position(id, position) ==
    [game_info EXCEPT !.player_positions = map_insert(@, id, position)]

\* The values add_block may give blocks.
add_block(position) == insert(game_info.blocks, position)

\* The std::set that read_position_list may make of a list of positions.
read_position_list(positions) ==
    FoldLeft(LAMBDA S, p : UNION {insert(s, p) : s \in S}, {<<>>}, positions)

\* remove_block for each element of a set of positions, in its order.
remove_blocks(positions) ==
    FoldLeft(LAMBDA S, p : UNION {erase(s, p) : s \in S}, {game_info.blocks}, positions)

\* Slips: the bomb is not removed, or a hit lowers the score.
destroy_players_keeps_bomb(id, robots) ==
    [game_info EXCEPT !.player_positions = erase_keys(@, robots),
                      !.scores = [p \in DOMAIN @ |-> IF p \in robots THEN @[p] + 1 ELSE @[p]]]

destroy_players_lowers(id, robots) ==
    [game_info EXCEPT !.bombs = erase_keys(@, {id}),
                      !.player_positions = erase_keys(@, robots),
                      !.scores = [p \in DOMAIN @ |-> IF p \in robots THEN @[p] - 1 ELSE @[p]]]

\* remove_bomb, and destroy_player for each of robots.
destroy_players(id, robots) ==
    [game_info EXCEPT !.bombs = erase_keys(@, {id}),
                      !.player_positions = erase_keys(@, robots),
                      !.scores = [p \in DOMAIN @ |-> IF p \in robots THEN @[p] + 1 ELSE @[p]]]

lobby_message(info) == [code |-> "Lobby", info |-> info]
game_message == [code |-> "Game", info |-> game_info]

-----------------------------------------------------------------------------
(* handle_server_message.  A handler is one step unless the other thread,  *)
(* the GUI or its own loop can tell.                                       *)

\* The lobby is drawn first, then the status changes.
handle_hello_msg(m) ==
    /\ m.code = "Hello"
    /\ lobby_info' = Lobby_info(TRUE)
    /\ drawn' = lobby_message(lobby_info')
    /\ handling' = m
    /\ UNCHANGED <<game_info, is_lobby_status, client>>

HelloHandled ==
    /\ client = "running" /\ handling.code = "Hello"
    /\ is_lobby_status' = TRUE /\ handling' = Nothing
    /\ UNCHANGED <<lobby_info, game_info, drawn, input, client>>

\* Slip: the lobby is drawn before the player is added.
handle_accepted_player_msg_stale(m) ==
    /\ m.code = "AcceptedPlayer"
    /\ lobby_info' = add_player(m.id, m.player)
    /\ drawn' = lobby_message(lobby_info)
    /\ UNCHANGED <<game_info, is_lobby_status, handling, client>>

handle_accepted_player_msg(m) ==
    /\ m.code = "AcceptedPlayer"
    /\ lobby_info' = add_player(m.id, m.player)
    /\ drawn' = lobby_message(lobby_info')
    /\ UNCHANGED <<game_info, is_lobby_status, handling, client>>

\* The players of the message are read and dropped.
handle_game_started_msg(m) ==
    /\ m.code = "GameStarted"
    /\ game_info' = Game_info(lobby_info)
    /\ is_lobby_status' = FALSE
    /\ UNCHANGED <<lobby_info, handling, drawn, client>>

\* read_turn up to its list of events.
handle_turn_message(m) ==
    /\ m.code = "Turn"
    /\ game_info' = new_turn(m.turn)
    /\ handling' = m
    /\ UNCHANGED <<lobby_info, is_lobby_status, drawn, client>>

\* Slip: the status stays that of a gameplay.
handle_game_ended_msg_stays(m) ==
    /\ m.code = "GameEnded"
    /\ lobby_info' = clear_players
    /\ drawn' = lobby_message(lobby_info')
    /\ UNCHANGED <<game_info, is_lobby_status, handling, client>>

handle_game_ended_msg(m) ==
    /\ m.code = "GameEnded"
    /\ lobby_info' = clear_players
    /\ is_lobby_status' = TRUE
    /\ drawn' = lobby_message(lobby_info')
    /\ UNCHANGED <<game_info, handling, client>>

handle_server_message(m) ==
    /\ Idle
    /\ \/ handle_hello_msg(m) \/ handle_accepted_player_msg(m)
       \/ handle_game_started_msg(m) \/ handle_turn_message(m)
       \/ handle_game_ended_msg(m)
    /\ UNCHANGED input

-----------------------------------------------------------------------------
(* read_event_list.                                                        *)

read_bomb_placed(e) ==
    /\ e.code = "Bomb_placed"
    /\ game_info' = add_bomb(e.id, e.position)
    /\ UNCHANGED client

\* scores.at throws for a robot that is not among the client's players;
\* nothing catches it and the process terminates.
read_bomb_exploded(e) ==
    /\ e.code = "Bomb_exploded"
    /\ IF e.robots_destroyed \subseteq DOMAIN game_info.scores
       THEN /\ \E ps \in read_position_list(e.blocks_destroyed) :
                \E blocks \in remove_blocks(ps) :
                    game_info' = [destroy_players(e.id, e.robots_destroyed)
                                    EXCEPT !.blocks = blocks]
            /\ UNCHANGED client
       ELSE client' = "terminated" /\ UNCHANGED game_info

read_player_moved(e) ==
    /\ e.code = "Player_moved"
    /\ game_info' = change_player_position(e.id, e.position)
    /\ UNCHANGED client

read_block_placed(e) ==
    /\ e.code = "Block_placed"
    /\ \E blocks \in add_block(e.position) :
        game_info' = [game_info EXCEPT !.blocks = blocks]
    /\ UNCHANGED client

InTurn == client = "running" /\ handling.code = "Turn"

ReadEvent ==
    /\ InTurn /\ handling.events # <<>>
    /\ LET e == Head(handling.events)
       IN  \/ read_bomb_placed(e) \/ read_bomb_exploded(e)
           \/ read_player_moved(e) \/ read_block_placed(e)
    /\ handling' = [handling EXCEPT !.events = Tail(@)]
    /\ UNCHANGED <<lobby_info, is_lobby_status, input, drawn>>

TurnHandled ==
    /\ InTurn /\ handling.events = <<>>
    /\ drawn' = game_message /\ handling' = Nothing
    /\ UNCHANGED <<lobby_info, game_info, is_lobby_status, input, client>>

-----------------------------------------------------------------------------
(* The other thread, and the end of the process.                           *)

\* An input is translated for the status of the moment; an empty datagram
\* repeats what the buffer held, which is one of the inputs too.
handle_gui_message(m) ==
    /\ client = "running" /\ input = Nothing
    /\ input' = IF is_lobby_status THEN [code |-> "Join"] ELSE m
    /\ UNCHANGED <<server_thread, is_lobby_status, client>>

\* The message has been written to the socket.
send_server_message ==
    /\ client = "running" /\ input # Nothing
    /\ input' = Nothing
    /\ UNCHANGED <<server_thread, is_lobby_status, client>>

ClientInit ==
    /\ lobby_info = Lobby_info(FALSE) /\ game_info = Game_info(Lobby_info(FALSE))
    /\ is_lobby_status = FALSE
    /\ handling = Nothing /\ input = Nothing /\ drawn = Nothing
    /\ client = "running"

\* A read, a send or a draw fails.  The state of the process is gone.
exit_with_msg ==
    /\ client = "running" /\ client' = "exited"
    /\ lobby_info' = Lobby_info(FALSE) /\ game_info' = Game_info(Lobby_info(FALSE))
    /\ is_lobby_status' = FALSE
    /\ handling' = Nothing /\ input' = Nothing /\ drawn' = Nothing
=============================================================================
