---------------------------- MODULE MCGameEngine ----------------------------
(***************************************************************************)
(* Small instances of GameEngine for TLC.  All integers are narrow: a      *)
(* uint16_t has U16 = 4 values and a uint8_t U8 = 4, so that coordinates   *)
(* wrap around one field beyond the board.                                 *)
(***************************************************************************)
EXTENDS GameEngine

\* The bytes of enum Direction, and one that is none of them.
ValidBytes == Directions
AnyByte    == Directions \cup {4}
=============================================================================
