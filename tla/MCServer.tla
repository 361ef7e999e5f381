------------------------------ MODULE MCServer ------------------------------
(***************************************************************************)
(* Small instances of Server for TLC.                                      *)
(***************************************************************************)
EXTENDS Server

ValidBytes == Directions

JoinOnly == {[code |-> "Join"]}
JoinOrBlock == JoinOnly \cup {[code |-> "Place_block"]}
JoinBombOrMove == JoinOnly \cup
    {[code |-> "Place_bomb"], [code |-> "Move", direction |-> Up]}
=============================================================================
