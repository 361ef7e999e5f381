------------------------------- MODULE MCPlay -------------------------------
(***************************************************************************)
(* Small instances of Play for TLC.                                        *)
(***************************************************************************)
EXTENDS Play

OneByte == {Up}
BombOnly == {[code |-> "Place_bomb"]}
MoveOnly == {[code |-> "Move", direction |-> Up]}
BombOrBlock == BombOnly \cup {[code |-> "Place_block"]}
AnyInput == BombOrBlock \cup MoveOnly
=============================================================================
