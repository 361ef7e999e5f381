------------------------------ MODULE Protocol ------------------------------
(***************************************************************************)
(* What the server promises a client that it greets: the order in which    *)
(* its messages reach the client.  A greeting may come at any moment and   *)
(* starts over, and the client may end at any moment.  Players are         *)
(* announced in the order of their ids; a gameplay starts when all are     *)
(* known, or when none is (a client greeted during a gameplay); its turns  *)
(* come in order from 0, none is left out, and it ends after the last.  A  *)
(* turn told twice changes nothing.                                        *)
(***************************************************************************)
EXTENDS Integers

CONSTANTS players_count, game_length

VARIABLES
    stage,      \* "silent", "lobby", "game", or "gone" when the client has ended
    roster,     \* ids of the players announced since the last lobby began
    turn        \* the last turn told in the game, -1 if none

Ids == 0 .. players_count - 1

Init == stage = "silent" /\ roster = {} /\ turn = -1

Greet == stage # "gone" /\ stage' = "lobby" /\ roster' = {} /\ turn' = turn

Announce(id) ==
    /\ stage = "lobby" /\ roster = 0 .. id - 1
    /\ roster' = 0 .. id /\ UNCHANGED <<stage, turn>>

Start ==
    /\ stage = "lobby" /\ roster \in {{}, Ids}
    /\ stage' = "game" /\ turn' = -1 /\ UNCHANGED roster

Advance ==
    /\ stage = "game" /\ turn < game_length
    /\ turn' = turn + 1 /\ UNCHANGED <<stage, roster>>

End ==
    /\ stage = "game" /\ turn = game_length
    /\ stage' = "lobby" /\ roster' = {} /\ UNCHANGED turn

Leave == stage # "gone" /\ stage' = "gone" /\ roster' \in {{}, roster} /\ turn' \in {-1, turn}

Next == Leave \/ Greet \/ (\E id \in Ids : Announce(id)) \/ Start \/ Advance \/ End

Spec == Init /\ [][Next]_<<stage, roster, turn>>
=============================================================================
