------------------------------- MODULE MCWire -------------------------------
(***************************************************************************)
(* Small instances of Wire for TLC.                                        *)
(***************************************************************************)
EXTENDS Wire

ann == [name |-> <<4, 1>>, address |-> <<2>>]
bob == [name |-> <<>>, address |-> <<3, 0, 1>>]
pos(x, y) == [x |-> x, y |-> y]

hello ==
    [code |-> "Hello", server_name |-> <<1, 2>>, players_count |-> 2, size_x |-> 7,
     size_y |-> 1, game_length |-> 24, explosion_radius |-> 0, bomb_timer |-> 5]

lobby == <<[code |-> "AcceptedPlayer", id |-> 1, player |-> bob],
           [code |-> "GameStarted", players |-> <<[id |-> 0, player |-> ann],
                                                  [id |-> 1, player |-> bob]>>]>>

\* Turns without and with events, among them an explosion with empty lists.
turns == <<[code |-> "Turn", turn |-> 6, events |-> <<>>],
           [code |-> "Turn", turn |-> 7, events |->
                <<[code |-> "Player_moved", id |-> 1, position |-> pos(6, 3)],
                  [code |-> "Block_placed", position |-> pos(0, 9)]>>]>>

bombs == <<[code |-> "Turn", turn |-> 1, events |->
                <<[code |-> "Bomb_placed", id |-> 130, position |-> pos(6, 3)],
                  [code |-> "Bomb_exploded", id |-> 6, robots_destroyed |-> <<0, 3>>,
                   blocks_destroyed |-> <<pos(1, 8)>>]>>],
           [code |-> "GameEnded", scores |-> <<[id |-> 0, score |-> 3],
                                               [id |-> 1, score |-> 126]>>]>>

Sample == {<<hello>>, lobby, turns, bombs}

\* The theorem about DecodedUntilCut speaks of these conversations.
ASSUME SampleFits == \A msgs \in Sample : \A k \in DOMAIN msgs : Fits(msgs[k])
=============================================================================
