----------------------------- MODULE GameEngine -----------------------------
(***************************************************************************)
(* The server's Game_engine: the lobby, the turn loop of                   *)
(* manage_connections, the handlers of the four client messages, the       *)
(* explosion of bombs and the end of a gameplay.  Descriptors and their    *)
(* byte streams belong to the TCP handler; here a descriptor position may  *)
(* present any message whenever the loop serves it.                        *)
(*                                                                         *)
(* Variables carry the names of the members of Game_engine.  phase, cursor *)
(* and index are the program counter of manage_connections: where in the   *)
(* loop body the server is, the next descriptor it will look at, and the   *)
(* index of the inner loop it is in.  out holds what the last step handed  *)
(* to the TCP handler for sending.                                         *)
(***************************************************************************)
EXTENDS Integers, Sequences, FiniteSets, Functions, StdMap, PositionSet

CONSTANTS
    U16,                \* number of values of a uint16_t (65536 in the code)
    U8,                 \* number of values of a uint8_t (256 in the code)
    conn_max,           \* length of poll_descriptors; position 0 listens
    Player,             \* values of player_t: a name and an address
    players_count, size_x, size_y, game_length, explosion_radius,
    bomb_timer, initial_blocks      \* game_params

\* A position wraps like the two uint16_t it is made of.  Sizes are at least
\* 1 (seed_player divides by them) and the radius is below the last uint16_t
\* (the loop `i <= explosion_radius` would not end there).
ASSUME GameParams ==
    /\ U16 \in Nat /\ U8 \in Nat /\ conn_max \in Nat \ {0}
    /\ players_count \in 1 .. U8 - 1
    /\ size_x \in 1 .. U16 - 1
    /\ size_y \in 1 .. U16 - 1
    /\ game_length \in 0 .. U16 - 1
    /\ explosion_radius \in 0 .. U16 - 2
    /\ bomb_timer \in 0 .. U16 - 1
    /\ initial_blocks \in 0 .. U16 - 1

VARIABLES
    gameplay_started, players, scores, players_positions, blocks_positions,
    player_ids, next_player_id, current_turn, current_blocks_to_erase,
    current_players_to_destroy, turns, bombs, next_bomb_id,
    phase, cursor, index, out

lobby == <<gameplay_started, players, player_ids, next_player_id>>
world == <<players_positions, blocks_positions, bombs, next_bomb_id>>
marks == <<current_blocks_to_erase, current_players_to_destroy>>
log   == <<current_turn, turns>>
game  == <<lobby, scores, world, marks, log>>
vars  == <<game, phase, cursor, index, out>>

Slot     == 1 .. conn_max - 1
PlayerId == 0 .. U8 - 1
Position == [x : 0 .. U16 - 1, y : 0 .. U16 - 1]

\* enum Direction; every other byte stands for itself.
Up    == 0
Right == 1
Down  == 2
Left  == 3
Directions == {Up, Right, Down, Left}

-----------------------------------------------------------------------------
(* Helpers: iteration in key order, events and messages.                   *)

\* The finite set S of numbers in ascending order (a singleton set).
Ascending(S) ==
    {f \in [1 .. Cardinality(S) -> S] :
        \A i, j \in DOMAIN f : i < j => f[i] < f[j]}

Bomb_placed(id, position) ==
    [code |-> "Bomb_placed", id |-> id, position |-> position]
Bomb_exploded(id, robots, blocks) ==
    [code |-> "Bomb_exploded", id |-> id, robots_destroyed |-> robots,
     blocks_destroyed |-> blocks]
Player_moved(id, position) ==
    [code |-> "Player_moved", id |-> id, position |-> position]
Block_placed(position) ==
    [code |-> "Block_placed", position |-> position]

Turn_info(n) == [turn |-> n, events |-> <<>>]

\* turns.at(n).add_event, for each event of a sequence.
add_events_at(n, events) == [turns EXCEPT ![n + 1].events = @ \o events]

\* Slip: the previous turn's entry.
add_events_to_previous(events) == add_events_at(current_turn - 1, events)

add_events(events) == add_events_at(current_turn, events)

Hello == [code |-> "Hello"]
AcceptedPlayer(id, player) ==
    [code |-> "AcceptedPlayer", id |-> id, player |-> player]
GameStarted(map) == [code |-> "GameStarted", players |-> map]
Turn(info) == [code |-> "Turn", turn |-> info.turn, events |-> info.events]
GameEnded(map) == [code |-> "GameEnded", scores |-> map]

send_message(i, msgs) == [k \in DOMAIN msgs |-> [to |-> i, msg |-> msgs[k]]]
All == 0
send_message_to_all(msgs) == send_message(All, msgs)

-----------------------------------------------------------------------------
(* The board.                                                              *)

\* Slip: a row too many.
check_position_inclusive(p) == p.x < size_x /\ p.y <= size_y

check_position(p) == p.x < size_x /\ p.y < size_y

\* The values of random.next() % size_x and random.next() % size_y.
Board == [x : 0 .. size_x - 1, y : 0 .. size_y - 1]

\* Slip: coordinates computed in int and never converted to uint16_t.
Shift_int(p, d, i) ==
    CASE d = Up    -> [p EXCEPT !.y = @ + i]
      [] d = Down  -> [p EXCEPT !.y = @ - i]
      [] d = Left  -> [p EXCEPT !.x = @ - i]
      [] d = Right -> [p EXCEPT !.x = @ + i]

\* position_t(x, y + i) and its three siblings, in uint16_t arithmetic.
Shift(p, d, i) ==
    CASE d = Up    -> [x |-> p.x, y |-> (p.y + i) % U16]
      [] d = Down  -> [x |-> p.x, y |-> (p.y - i) % U16]
      [] d = Left  -> [x |-> (p.x - i) % U16, y |-> p.y]
      [] d = Right -> [x |-> (p.x + i) % U16, y |-> p.y]

\* The answers check_position_to_move may give: the lookup of a block in the
\* ill-ordered set decides.
check_position_to_move(p) ==
    {check_position(p) /\ c = 0 : c \in count(blocks_positions, p)}

-----------------------------------------------------------------------------
(* handle_explosion.  The loop over i tries down, up, left and right at    *)
(* distance i; Beam(p, k) is the field its k-th try looks at.              *)

Beam(p, k) ==
    Shift(p, <<Down, Up, Left, Right>>[(k % 4) + 1], (k \div 4) + 1)

Tries == 0 .. 4 * explosion_radius - 1

\* Slip: a block does not stop the beam.
Reaches_through(p, k, hits) ==
    /\ check_position(Beam(p, k))
    /\ \A j \in Tries : j < k /\ j % 4 = k % 4 => check_position(Beam(p, j))

\* go_up, go_down, ... still hold at try k and the field is on the board:
\* no earlier try in the same direction left the board or met a block.
Reaches(p, k, hits) ==
    /\ check_position(Beam(p, k))
    /\ \A j \in Tries :
        j < k /\ j % 4 = k % 4 => check_position(Beam(p, j)) /\ Beam(p, j) \notin hits

BlastArea(p, hits) ==
    {p} \cup {Beam(p, k) : k \in {j \in Tries : p \notin hits /\ Reaches(p, j, hits)}}

\* The orders in which the blocks of the blast are pushed on the list.
BlocksHit(p, hits) ==
    IF p \in hits THEN {<<p>>}
    ELSE {[n \in DOMAIN f |-> Beam(p, f[n])] :
            f \in Ascending({k \in Tries : Reaches(p, k, hits) /\ Beam(p, k) \in hits})}

handle_explosion(b, p) ==
    \E hits \in Found(blocks_positions, Board) :
        \E blocks \in BlocksHit(p, hits) :
            LET robots == {r \in DOMAIN players_positions :
                              players_positions[r] \in BlastArea(p, hits)}
            IN  /\ current_players_to_destroy' = current_players_to_destroy \cup robots
                /\ current_blocks_to_erase' = current_blocks_to_erase \o blocks
                /\ turns' = add_events(<<Bomb_exploded(b, robots, blocks)>>)

-----------------------------------------------------------------------------
(* manage_connections, from the top of the loop to poll.                   *)

\* begin_turn up to its first loop: a new turn is opened.
BeginTurn ==
    /\ phase = "loop" /\ gameplay_started
    /\ current_turn' = (current_turn + 1) % U16
    /\ turns' = Append(turns, Turn_info(current_turn'))
    /\ phase' = "bombs" /\ index' = 0 /\ out' = <<>>
    /\ UNCHANGED <<lobby, scores, world, marks, cursor>>

\* The iterator of `for (auto &bomb : bombs)` is at b.
AtBomb(b) ==
    /\ b \in DOMAIN bombs /\ b >= index
    /\ \A c \in DOMAIN bombs : c >= index => b <= c

\* One iteration: the timer (uint16_t) goes down and at 0 the bomb explodes.
TickBomb(b) ==
    /\ phase = "bombs" /\ AtBomb(b)
    /\ LET timer == (bombs[b].timer - 1) % U16
       IN  /\ bombs' = [bombs EXCEPT ![b].timer = timer]
           /\ IF timer = 0 THEN handle_explosion(b, bombs[b].position)
              ELSE UNCHANGED <<marks, turns>>
    /\ index' = b + 1 /\ out' = <<>>
    /\ UNCHANGED <<lobby, scores, players_positions, blocks_positions,
                   next_bomb_id, current_turn, phase, cursor>>

\* Slip: exploded bombs stay in the map.
EraseBombs_keeps ==
    /\ phase = "bombs" /\ \A b \in DOMAIN bombs : b < index
    /\ phase' = "erase" /\ index' = 1 /\ out' = <<>>
    /\ UNCHANGED <<lobby, scores, world, marks, log, cursor>>

\* The loop over bombs is over: those at 0 are erased from the map.
EraseBombs ==
    /\ phase = "bombs" /\ \A b \in DOMAIN bombs : b < index
    /\ bombs' = Restrict(bombs, {b \in DOMAIN bombs : bombs[b].timer # 0})
    /\ phase' = "erase" /\ index' = 1 /\ out' = <<>>
    /\ UNCHANGED <<lobby, scores, players_positions, blocks_positions,
                   next_bomb_id, marks, log, cursor>>

\* One iteration of the last loop of begin_turn.
EraseBlock ==
    /\ phase = "erase" /\ index \in DOMAIN current_blocks_to_erase
    /\ blocks_positions' \in erase(blocks_positions, current_blocks_to_erase[index])
    /\ index' = index + 1 /\ out' = <<>>
    /\ UNCHANGED <<lobby, scores, players_positions, bombs, next_bomb_id,
                   marks, log, phase, cursor>>

\* begin_turn returns, the server sleeps for turn_duration and polls.
TurnBegun ==
    /\ phase = "erase" /\ index > Len(current_blocks_to_erase)
    /\ phase' = "accept" /\ index' = 0 /\ out' = <<>>
    /\ UNCHANGED <<game, cursor>>

\* Outside a gameplay the server polls without a timeout.
PollInLobby ==
    /\ phase = "loop" /\ ~gameplay_started
    /\ phase' = "accept" /\ out' = <<>>
    /\ UNCHANGED <<game, cursor, index>>

-----------------------------------------------------------------------------
(* A new connection.                                                       *)

\* Slip: a client greeted in a gameplay is not told that one has started.
HelloMessages_no_start(ids) ==
    <<Hello>> \o
    IF gameplay_started THEN [k \in DOMAIN turns |-> Turn(turns[k])]
    ELSE [k \in DOMAIN ids |-> AcceptedPlayer(ids[k], players[ids[k]])]

\* What send_hello and send_hello_state send, the players in the order ids.
HelloMessages(ids) ==
    <<Hello>> \o
    IF gameplay_started
    THEN <<GameStarted(players)>> \o [k \in DOMAIN turns |-> Turn(turns[k])]
    ELSE [k \in DOMAIN ids |-> AcceptedPlayer(ids[k], players[ids[k]])]

\* Slip: poll without a timeout during a gameplay too.
NoConnection_blocks ==
    /\ phase = "accept" /\ ~gameplay_started
    /\ phase' = "serve" /\ cursor' = 1 /\ out' = <<>>
    /\ UNCHANGED <<game, index>>

\* poll reports no new connection.
NoConnection ==
    /\ phase = "accept"
    /\ phase' = "serve" /\ cursor' = 1 /\ out' = <<>>
    /\ UNCHANGED <<game, index>>

\* accept_client returned position (-1: no free descriptor).  The condition
\* `int i = accept_client() >= 0` gives i the value of the comparison.
AcceptClient(position) ==
    /\ phase = "accept"
    /\ LET i == IF position >= 0 THEN 1 ELSE 0
       IN  IF i # 0
           THEN \E ids \in Ascending(DOMAIN players) :
                    out' = send_message(i, HelloMessages(ids))
           ELSE out' = <<>>
    /\ phase' = "serve" /\ cursor' = 1
    /\ UNCHANGED <<game, index>>

-----------------------------------------------------------------------------
(* The loop over the descriptors: handle_msg(i) for each that has a        *)
(* message, in ascending order, each at most once a round.                 *)

Serving(i) == phase = "serve" /\ i \in Slot /\ i >= cursor

\* Join_msg::handle_msg returns at once during a gameplay.
JoinRefused(i) ==
    /\ Serving(i) /\ gameplay_started
    /\ cursor' = i + 1 /\ out' = <<>>
    /\ UNCHANGED <<game, phase, index>>

\* seed_player for each id of a set, at the random fields field.
SeedEvents(ids, field) == [k \in DOMAIN ids |-> Player_moved(ids[k], field[ids[k]])]

\* Slip: started before the last player is inserted, whose robot is not seeded.
start_gameplay_early(ps) ==
    /\ gameplay_started' = TRUE
    /\ \E field \in [DOMAIN players -> Board], ids \in Ascending(DOMAIN players) :
        /\ turns' = Append(turns, [Turn_info(0) EXCEPT !.events = SeedEvents(ids, field)])
        /\ players_positions' = assign_all(players_positions, field)
    /\ phase' = IF initial_blocks = 0 THEN "serve" ELSE "seed"
    /\ index' = 0

\* start_gameplay with the players ps, up to the loop of seed_blocks.
start_gameplay(ps) ==
    /\ gameplay_started' = TRUE
    /\ \E field \in [DOMAIN ps -> Board], ids \in Ascending(DOMAIN ps) :
        /\ turns' = Append(turns, [Turn_info(0) EXCEPT !.events = SeedEvents(ids, field)])
        /\ players_positions' = assign_all(players_positions, field)
    /\ phase' = IF initial_blocks = 0 THEN "serve" ELSE "seed"
    /\ index' = 0

\* Join_msg::handle_msg: the client becomes a player, and the last one
\* expected starts the gameplay.
Join(i, player) ==
    /\ Serving(i) /\ ~gameplay_started
    /\ LET id == next_player_id
           ps == map_insert(players, id, player)
           full == Cardinality(DOMAIN ps) = players_count
       IN  /\ players' = ps
           /\ next_player_id' = (id + 1) % U8
           /\ player_ids' = insert_or_assign(player_ids, i, id)
           /\ scores' = map_insert(scores, id, 0)
           /\ IF full THEN start_gameplay(ps)
              ELSE UNCHANGED <<gameplay_started, turns, players_positions, phase, index>>
           /\ out' = send_message_to_all(
                         <<AcceptedPlayer(id, player)>> \o
                         IF full THEN <<GameStarted(ps)>> ELSE <<>>)
    /\ cursor' = i + 1
    /\ UNCHANGED <<blocks_positions, bombs, next_bomb_id, marks, current_turn>>

\* One iteration of seed_blocks.
SeedBlock(p) ==
    /\ phase = "seed" /\ p \in Board
    /\ turns' = add_events_at(0, <<Block_placed(p)>>)
    /\ blocks_positions' \in insert(blocks_positions, p)
    /\ index' = index + 1
    /\ phase' = IF index + 1 = initial_blocks THEN "serve" ELSE "seed"
    /\ out' = <<>>
    /\ UNCHANGED <<lobby, scores, players_positions, bombs, next_bomb_id, marks,
                   current_turn, cursor>>

\* Slip: a robot destroyed in this turn still acts.
MayAct_destroyed(i) == i \in DOMAIN player_ids

\* The checks that open the three action handlers: the descriptor belongs to
\* a player, and the player was not destroyed in this turn.
MayAct(i) ==
    i \in DOMAIN player_ids /\ player_ids[i] \notin current_players_to_destroy

ActionRefused(i) ==
    /\ Serving(i) /\ ~MayAct(i)
    /\ cursor' = i + 1 /\ out' = <<>>
    /\ UNCHANGED <<game, phase, index>>

\* players_positions.at(p_id) throws std::out_of_range; nothing up to main
\* catches it and the process terminates.
ActionThrows(i) ==
    /\ Serving(i) /\ MayAct(i)
    /\ player_ids[i] \notin DOMAIN players_positions
    /\ phase' = "aborted" /\ out' = <<>>
    /\ UNCHANGED <<game, cursor, index>>

\* The handlers have found the robot of the client at descriptor i.
Acts(i) ==
    /\ Serving(i) /\ MayAct(i)
    /\ player_ids[i] \in DOMAIN players_positions
    /\ cursor' = i + 1 /\ out' = <<>>

PlaceBomb(i) ==
    /\ Acts(i)
    /\ LET position == players_positions[player_ids[i]]
       IN  /\ bombs' = map_insert(bombs, next_bomb_id,
                                  [position |-> position, timer |-> bomb_timer])
           /\ turns' = add_events(<<Bomb_placed(next_bomb_id, position)>>)
    /\ next_bomb_id' = next_bomb_id + 1
    /\ UNCHANGED <<lobby, scores, players_positions, blocks_positions, marks,
                   current_turn, phase, index>>

PlaceBlock(i) ==
    /\ Acts(i)
    /\ LET position == players_positions[player_ids[i]]
       IN  /\ blocks_positions' \in insert(blocks_positions, position)
           /\ turns' = add_events(<<Block_placed(position)>>)
    /\ UNCHANGED <<lobby, scores, players_positions, bombs, next_bomb_id, marks,
                   current_turn, phase, index>>

\* new_position stays uninitialized when the byte is no Direction.
NewPositions(p, d) == IF d \in Directions THEN {Shift(p, d, 1)} ELSE Position

Move(i, d) ==
    /\ Acts(i)
    /\ \E new \in NewPositions(players_positions[player_ids[i]], d) :
        \E allowed \in check_position_to_move(new) :
            IF allowed
            THEN /\ players_positions' =
                        insert_or_assign(players_positions, player_ids[i], new)
                 /\ turns' = add_events(<<Player_moved(player_ids[i], new)>>)
            ELSE UNCHANGED <<players_positions, turns>>
    /\ UNCHANGED <<lobby, scores, blocks_positions, bombs, next_bomb_id, marks,
                   current_turn, phase, index>>

-----------------------------------------------------------------------------
(* The end of a round.                                                     *)

\* No gameplay: back to the top of the loop.
EndRound ==
    /\ phase = "serve" /\ ~gameplay_started
    /\ phase' = "loop" /\ out' = <<>>
    /\ UNCHANGED <<game, cursor, index>>

\* Slips: turns, or next_player_id, is not reset.
end_gameplay_keeps_turns ==
    /\ gameplay_started' = FALSE
    /\ players' = <<>> /\ scores' = <<>> /\ players_positions' = <<>>
    /\ blocks_positions' = <<>> /\ player_ids' = <<>> /\ next_player_id' = 0
    /\ current_turn' = 0 /\ bombs' = <<>> /\ next_bomb_id' = 0
    /\ UNCHANGED turns

end_gameplay_keeps_next_id ==
    /\ gameplay_started' = FALSE
    /\ players' = <<>> /\ scores' = <<>> /\ players_positions' = <<>>
    /\ blocks_positions' = <<>> /\ player_ids' = <<>>
    /\ current_turn' = 0 /\ turns' = <<>> /\ bombs' = <<>> /\ next_bomb_id' = 0
    /\ UNCHANGED next_player_id

\* end_gameplay: every table of the gameplay is cleared.
end_gameplay ==
    /\ gameplay_started' = FALSE
    /\ players' = <<>> /\ scores' = <<>> /\ players_positions' = <<>>
    /\ blocks_positions' = <<>> /\ player_ids' = <<>> /\ next_player_id' = 0
    /\ current_turn' = 0 /\ turns' = <<>> /\ bombs' = <<>> /\ next_bomb_id' = 0

\* Slip: the destroyed robots of this turn are carried into the next.
clear_marks_partly ==
    /\ current_blocks_to_erase' = <<>>
    /\ UNCHANGED current_players_to_destroy

clear_marks ==
    /\ current_blocks_to_erase' = <<>>
    /\ current_players_to_destroy' = {}

\* Slip: one turn too many.
LastTurn_late == current_turn = game_length + 1

LastTurn == current_turn = game_length

\* summarise_turn: destroyed robots score and respawn, the turn is sent to
\* all, and after the last turn the gameplay ends.
SummariseTurn ==
    /\ phase = "serve" /\ gameplay_started
    /\ \E field \in [current_players_to_destroy -> Board],
          ids \in Ascending(current_players_to_destroy) :
        LET ts == add_events(SeedEvents(ids, field))
            ss == [p \in DOMAIN scores |->
                      IF p \in current_players_to_destroy THEN scores[p] + 1 ELSE scores[p]]
        IN  /\ out' = send_message_to_all(
                          <<Turn(ts[current_turn + 1])>> \o
                          IF LastTurn THEN <<GameEnded(ss)>> ELSE <<>>)
            /\ IF LastTurn THEN end_gameplay
               ELSE /\ turns' = ts
                    /\ scores' = ss
                    /\ players_positions' = assign_all(players_positions, field)
                    /\ UNCHANGED <<lobby, blocks_positions, bombs, next_bomb_id, current_turn>>
    /\ clear_marks
    /\ phase' = "loop"
    /\ UNCHANGED <<cursor, index>>

-----------------------------------------------------------------------------
(* The specification.                                                      *)

CONSTANT DirectionByte  \* the direction bytes clients send

Init ==
    /\ gameplay_started = FALSE
    /\ players = <<>> /\ scores = <<>> /\ players_positions = <<>>
    /\ blocks_positions = <<>> /\ player_ids = <<>> /\ next_player_id = 0
    /\ current_turn = 0 /\ turns = <<>> /\ bombs = <<>> /\ next_bomb_id = 0
    /\ current_blocks_to_erase = <<>> /\ current_players_to_destroy = {}
    /\ phase = "loop" /\ cursor = 1 /\ index = 0 /\ out = <<>>

\* Steps the server takes on its own.
ServerStep ==
    \/ BeginTurn \/ \E b \in DOMAIN bombs : TickBomb(b)
    \/ EraseBombs \/ EraseBlock \/ TurnBegun
    \/ PollInLobby \/ NoConnection
    \/ \E p \in Board : SeedBlock(p)
    \/ EndRound \/ SummariseTurn

\* What handle_msg may do for the client at descriptor i.
HandleMsg(i) ==
    \/ JoinRefused(i) \/ \E player \in Player : Join(i, player)
    \/ ActionRefused(i) \/ ActionThrows(i)
    \/ PlaceBomb(i) \/ PlaceBlock(i)
    \/ \E d \in DirectionByte : Move(i, d)

\* Steps that handle what a client did.
ClientStep ==
    \/ \E position \in {-1} \cup Slot : AcceptClient(position)
    \/ \E i \in Slot : HandleMsg(i)

Next == ServerStep \/ ClientStep

Spec == Init /\ [][Next]_vars

-----------------------------------------------------------------------------
(* Types.                                                                  *)

Event ==
    [code : {"Bomb_placed"}, id : Nat, position : Position]
        \cup [code : {"Bomb_exploded"}, id : Nat,
              robots_destroyed : SUBSET PlayerId, blocks_destroyed : Seq(Position)]
        \cup [code : {"Player_moved"}, id : PlayerId, position : Position]
        \cup [code : {"Block_placed"}, position : Position]

TurnInfo == [turn : 0 .. U16 - 1, events : Seq(Event)]
Bomb     == [position : Position, timer : 0 .. U16 - 1]
Phase    == {"loop", "bombs", "erase", "accept", "seed", "serve", "aborted"}

\* Every member of Game_engine holds a value of its C++ type.  (out is only
\* written.)
TypeOK ==
    /\ gameplay_started \in BOOLEAN
    /\ Map(players, PlayerId, Player)
    /\ Map(scores, PlayerId, Nat)
    /\ Map(players_positions, PlayerId, Position)
    /\ blocks_positions \in Seq(Position)
    /\ Map(player_ids, Slot, PlayerId)
    /\ next_player_id \in PlayerId
    /\ current_turn \in 0 .. U16 - 1
    /\ current_blocks_to_erase \in Seq(Position)
    /\ current_players_to_destroy \subseteq PlayerId
    /\ turns \in Seq(TurnInfo)
    /\ Map(bombs, Nat, Bomb) /\ IsFiniteSet(DOMAIN bombs)
    /\ next_bomb_id \in Nat
    /\ phase \in Phase
    /\ cursor \in 1 .. conn_max
    /\ index \in Nat

-----------------------------------------------------------------------------
(* Safety.                                                                 *)

\* Robots, bombs and blocks stay on the board although the coordinates the
\* handlers compute (y - 1, x - i, an uninitialized position) leave it or
\* wrap around: check_position guards each of them.
OnBoard ==
    /\ \A p \in DOMAIN players_positions : players_positions[p] \in Board
    /\ \A b \in DOMAIN bombs : bombs[b].position \in Board
    /\ blocks_positions \in Seq(Board)

\* The five maps that are filled at different moments by Join_msg,
\* start_gameplay and begin_turn and indexed with at() agree whenever a
\* gameplay runs, and the lobby starts from empty ones.
InGameTablesAgree ==
    IF gameplay_started
    THEN /\ DOMAIN players_positions = DOMAIN players
         /\ Len(turns) = current_turn + 1 /\ current_turn <= game_length
         /\ \A k \in DOMAIN turns : turns[k].turn = k - 1
         /\ current_players_to_destroy \subseteq DOMAIN players
    ELSE /\ turns = <<>> /\ bombs = <<>> /\ blocks_positions = <<>>
         /\ players_positions = <<>> /\ current_turn = 0
         /\ current_players_to_destroy = {} /\ current_blocks_to_erase = <<>>

\* Ids are handed out without a gap or a clash: players and scores have the
\* entries 0 .. next_player_id - 1 (uint8_t), two descriptors never share a
\* player, and a gameplay runs exactly when all players have joined.
IdsConsistent ==
    /\ DOMAIN players = 0 .. next_player_id - 1
    /\ DOMAIN scores = DOMAIN players
    /\ \A i \in DOMAIN player_ids : player_ids[i] \in DOMAIN players
    /\ \A i, j \in DOMAIN player_ids : player_ids[i] = player_ids[j] => i = j
    /\ next_player_id <= players_count
    /\ gameplay_started <=> next_player_id = players_count

\* The exception that escapes the action handlers (players_positions.at)
\* never ends a gameplay in progress.
NoAbortInGame == phase = "aborted" => ~gameplay_started

\* Where the server is in its loop agrees with the gameplay: a turn is open
\* only during one, blocks are seeded in turn 0, and the loop is not back at
\* its top after the last turn.
PhaseAgrees ==
    /\ phase \in {"bombs", "erase", "seed"} => gameplay_started
    /\ phase = "seed" => current_turn = 0
    /\ phase = "loop" /\ gameplay_started => current_turn < game_length

\* The inductive invariant behind the safety theorems.
EngineInv ==
    /\ TypeOK /\ OnBoard /\ IdsConsistent
    /\ InGameTablesAgree /\ PhaseAgrees /\ NoAbortInGame

-----------------------------------------------------------------------------
(* What the turns sent to the clients say about the state.                 *)

IsMove(e, p) == e.code = "Player_moved" /\ e.id = p
Destroys(e, p) == e.code = "Bomb_exploded" /\ p \in e.robots_destroyed

\* The places of the log of turns, the event at one, and their order.
Log == UNION {{k} \X DOMAIN turns[k].events : k \in DOMAIN turns}
At(l) == turns[l[1]].events[l[2]]
Before(l, m) == l[1] < m[1] \/ (l[1] = m[1] /\ l[2] < m[2])

\* A client that follows the turns knows where every robot is: the last
\* Player_moved of a player, seeding, moving or respawning, is its position.
PositionsMatchLog ==
    \A p \in DOMAIN players_positions :
        \E l \in Log :
            /\ At(l) = Player_moved(p, players_positions[p])
            /\ \A m \in Log : Before(l, m) => ~IsMove(At(m), p)

\* Turn k reports an explosion that destroyed p.
HitIn(k, p) == \E n \in DOMAIN turns[k].events : Destroys(turns[k].events[n], p)

\* A score is the number of turns in which the robot was destroyed: once for
\* all the bombs of a turn, counted when the turn is summarised and never
\* carried over to the next.
ScoresMatchLog ==
    gameplay_started =>
        \A p \in DOMAIN players :
            scores[p] + (IF p \in current_players_to_destroy THEN 1 ELSE 0)
                = Cardinality({k \in DOMAIN turns : HitIn(k, p)})

\* Turns a bomb burns: the timer is decremented before it is compared, so a
\* bomb_timer of 0 wraps around.
Fuse == IF bomb_timer = 0 THEN U16 ELSE bomb_timer

\* An explosion is that of a bomb placed Fuse turns before, and its only one;
\* once the loop over the bombs is done, the bombs on the board are those whose
\* fuse has not burnt, and every other bomb was reported to explode in its turn.
FuseHonoured ==
    /\ \A m \in Log : At(m).code = "Bomb_exploded" =>
        /\ \E l \in Log : At(l).code = "Bomb_placed" /\ At(l).id = At(m).id
                            /\ m[1] = l[1] + Fuse
        /\ \A l \in Log : At(l).code = "Bomb_exploded" /\ At(l).id = At(m).id => l = m
    /\ phase # "bombs" =>
        DOMAIN bombs = {At(l).id : l \in {m \in Log : /\ At(m).code = "Bomb_placed"
                                                      /\ Len(turns) < m[1] + Fuse}}
    /\ phase # "bombs" =>
        \A l \in Log : At(l).code = "Bomb_placed" /\ l[1] + Fuse <= Len(turns) =>
            \E m \in Log : /\ At(m).code = "Bomb_exploded" /\ At(m).id = At(l).id
                           /\ m[1] = l[1] + Fuse

\* The events of turn k that players and the seeding caused, and the moves of
\* player p among them.
Actions(k) == {n \in DOMAIN turns[k].events : turns[k].events[n].code # "Bomb_exploded"}
Moves(k, p) == {n \in DOMAIN turns[k].events : IsMove(turns[k].events[n], p)}

\* After the seeding turn the players act at most as often as there are players,
\* and each of them moves at most once; no other event names who caused it.  The
\* respawn of a robot destroyed by this turn's explosions counts as its action,
\* so when all the others act there is no room for one of its own.
OneActionPerTurn ==
    \A k \in DOMAIN turns \ {1} :
        /\ Cardinality(Actions(k)) <= players_count
        /\ \A p \in PlayerId : Cardinality(Moves(k, p)) <= 1

-----------------------------------------------------------------------------
(* What the properties about the log rest on: where the server is in its   *)
(* loop decides what the open turn may hold.                               *)

\* Scores start at 0.  From the explosions to the summary of a turn the robots
\* to destroy are those that the open turn reports hit; after it there are none.
MarksMatchOpenTurn ==
    IF gameplay_started
    THEN /\ phase = "loop" => current_players_to_destroy = {}
         /\ phase # "loop" => \A p \in DOMAIN players :
                p \in current_players_to_destroy <=> HitIn(Len(turns), p)
    ELSE \A p \in DOMAIN scores : scores[p] = 0

\* The players who may have acted in this round.
Served ==
    {player_ids[i] : i \in {j \in DOMAIN player_ids : j < cursor}} \ current_players_to_destroy

\* After turn 0 the open turn has no actions before the round, and then at
\* most one of each player served.
OpenTurnServed ==
    LET open == Len(turns)
    IN  gameplay_started /\ current_turn > 0 /\ phase # "loop" =>
            IF phase = "serve"
            THEN /\ Cardinality(Actions(open)) <= Cardinality(Served)
                 /\ \A p \in PlayerId : Moves(open, p) # {} => p \in Served
            ELSE Actions(open) = {}

IsPlacing(l) == At(l).code = "Bomb_placed"
IsExplosion(l) == At(l).code = "Bomb_exploded"

\* The turns that the timer of the bomb placed at l has counted: the loop over
\* the bombs has still to count the open one for those from index on.
Burnt(l) == Len(turns) - l[1] - (IF phase = "bombs" /\ At(l).id >= index THEN 1 ELSE 0)

\* Ids of bombs are never used again, and a bomb stays in the map until its
\* fuse has burnt.
PlacingsKept ==
    \A l \in Log : IsPlacing(l) =>
        /\ At(l).id < next_bomb_id
        /\ \A m \in Log : IsPlacing(m) /\ At(m).id = At(l).id => m = l
        /\ phase = "bombs" => l[1] < Len(turns)
        /\ Len(turns) < l[1] + Fuse + (IF phase = "bombs" THEN 1 ELSE 0)
                => At(l).id \in DOMAIN bombs

\* An explosion ends a fuse, and the loop has passed its bomb.
ExplosionsDue ==
    \A m \in Log : IsExplosion(m) =>
        /\ \E l \in Log : IsPlacing(l) /\ At(l).id = At(m).id /\ m[1] = l[1] + Fuse
        /\ \A l \in Log : IsExplosion(l) /\ At(l).id = At(m).id => l = m
        /\ phase = "bombs" /\ m[1] = Len(turns) => At(m).id < index

\* The timer of a bomb on the board is what is left of its fuse, in uint16_t.
TimersCount ==
    \A b \in DOMAIN bombs :
        \E l \in Log :
            /\ IsPlacing(l) /\ At(l).id = b
            /\ Burnt(l) \in 0 .. Fuse
            /\ Burnt(l) = Fuse => phase = "bombs" /\ b < index
            /\ bombs[b].timer = (Fuse - Burnt(l)) % U16

\* A bomb whose fuse has burnt was reported, whether or not it is erased yet.
BurntReported ==
    \A l \in Log : IsPlacing(l) /\ Burnt(l) >= Fuse =>
        \E m \in Log : IsExplosion(m) /\ At(m).id = At(l).id

\* With EngineInv, the inductive invariant behind the theorems about the log.
LogInv ==
    /\ MarksMatchOpenTurn /\ ScoresMatchLog
    /\ OpenTurnServed /\ OneActionPerTurn
    /\ PlacingsKept /\ ExplosionsDue /\ TimersCount /\ BurntReported
    /\ PositionsMatchLog

-----------------------------------------------------------------------------
(* What steps may do to the log.                                           *)

\* While a gameplay lasts, a step keeps the closed turns and the events of
\* the open one.
HistoryKept ==
    gameplay_started /\ gameplay_started' =>
        /\ Len(turns) <= Len(turns')
        /\ \A k \in DOMAIN turns :
            /\ turns'[k].turn = turns[k].turn
            /\ Len(turns[k].events) <= Len(turns'[k].events)
            /\ \A n \in DOMAIN turns[k].events : turns'[k].events[n] = turns[k].events[n]
            /\ turns'[k] # turns[k] => k = Len(turns')

\* The turns send_all_turns gives a newcomer are the ones the others got when
\* they were summarised: closed turns never change and the open one grows.
HistoryFrozen == [][HistoryKept]_vars

\* q is on one of the arms of the cross of an explosion at p.
InCross(p, q) ==
    \/ p.x = q.x /\ q.y - p.y \in -explosion_radius .. explosion_radius
    \/ p.y = q.y /\ q.x - p.x \in -explosion_radius .. explosion_radius

\* w lies on the way from p to q, q excluded.
OnTheWay(p, w, q) ==
    /\ w # q
    /\ w.x \in (p.x .. q.x) \cup (q.x .. p.x)
    /\ w.y \in (p.y .. q.y) \cup (q.y .. p.y)

Exposed(p, q, walls) == InCross(p, q) /\ ~\E w \in walls : OnTheWay(p, w, q)

\* The events that a step adds in the loop over the bombs are explosions that
\* destroy what the rules expose.
RulesKept ==
    \A n \in 1 .. IF phase = "bombs" THEN Len(turns'[current_turn + 1].events) ELSE 0 :
        n > Len(turns[current_turn + 1].events) =>
            LET e == turns'[current_turn + 1].events[n]
                p == bombs[e.id].position
                walls == Range(e.blocks_destroyed)
            IN  /\ e.robots_destroyed = {r \in DOMAIN players_positions :
                                            Exposed(p, players_positions[r], walls)}
                /\ \A q \in walls : Exposed(p, q, walls)

\* An explosion reports the robots of the cross that no destroyed block
\* shields from the bomb, and destroys no block behind another; coordinates
\* that wrap around in the beams' arithmetic never reach the far side.
ExplosionFollowsRules == [][RulesKept]_vars

-----------------------------------------------------------------------------
(* What the repository says and the code does not do.                      *)

\* "returns if player can walk into this position" (game-engine.h, about
\* check_position_to_move): a robot never walks into a block.
WalksOnlyIntoFreeFields ==
    [][\A p \in DOMAIN players_positions :
        (phase = "serve" /\ phase' = "serve" /\ players_positions'[p] # players_positions[p]
         /\ gameplay_started)
            => players_positions'[p] \notin Range(blocks_positions)]_vars
=============================================================================
