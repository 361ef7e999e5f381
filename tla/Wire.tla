-------------------------------- MODULE Wire --------------------------------
(***************************************************************************)
(* The bytes between the server and a client: what the server's builders   *)
(* make of its messages, and the reads by which robots-client takes them   *)
(* from the stream, which TCP may cut anywhere.                            *)
(*                                                                         *)
(* A message is a sequence of typed fields; maps and lists are sequences   *)
(* of their entries in the order of iteration.  The functions read_* that  *)
(* call one another are a stack, todo, of the values still to be read.     *)
(***************************************************************************)
EXTENDS Integers, Sequences, SequencesExt

CONSTANTS
    Base,           \* number of values of a byte (256 in the code)
    BUFFER_SIZE,    \* the most one read_some returns
    Conversations,  \* the sequences of messages a server may send
    MaxCuts         \* bound: the reader is not followed past so many cuts

\* Message codes go up to 4.
ASSUME BytesAssumption ==
    Base \in Nat /\ Base > 4 /\ BUFFER_SIZE \in Nat \ {0} /\ MaxCuts \in Nat

VARIABLES
    sent,           \* the messages the server sends
    stream,         \* bytes sent and not yet read from the socket
    buf,            \* the bytes from current_buf on
    todo,           \* what the functions on the call stack have still to read
    part,           \* the bytes of the value that is being put together
    got,            \* the values read
    cuts,           \* history: how often a uint16_t met the end of the buffer
                    \* or a string took bytes that are not its own
    reader          \* "running", or "exited" with exit_with_msg

wire_vars == <<sent, stream, buf, todo, part, got, cuts, reader>>

\* The values of the unsigned types.
Byte == 0 .. Base - 1
Uint16 == 0 .. Base * Base - 1
Uint32 == 0 .. Base * Base * Base * Base - 1

-----------------------------------------------------------------------------
(* The messages.                                                           *)

Player == [name : Seq(Byte), address : Seq(Byte)]
Position == [x : Uint16, y : Uint16]

Event ==
    [code : {"Bomb_placed"}, id : Uint32, position : Position]
        \cup [code : {"Bomb_exploded"}, id : Uint32,
              robots_destroyed : Seq(Byte), blocks_destroyed : Seq(Position)]
        \cup [code : {"Player_moved"}, id : Byte, position : Position]
        \cup [code : {"Block_placed"}, position : Position]

Message ==
    [code : {"Hello"}, server_name : Seq(Byte), players_count : Byte, size_x : Uint16,
     size_y : Uint16, game_length : Uint16, explosion_radius : Uint16, bomb_timer : Uint16]
        \cup [code : {"AcceptedPlayer"}, id : Byte, player : Player]
        \cup [code : {"GameStarted"}, players : Seq([id : Byte, player : Player])]
        \cup [code : {"Turn"}, turn : Uint16, events : Seq(Event)]
        \cup [code : {"GameEnded"}, scores : Seq([id : Byte, score : Uint32])]

\* The members of the messages have these types.
ASSUME ConversationsAssumption == Conversations \subseteq Seq(Message)
-----------------------------------------------------------------------------
(* byte-parser: bytes.                                                     *)

\* Slip: the low byte keeps what does not fit into it.
uint16_to_bytes_wide(u16) == <<(u16 \div Base) % Base, u16>>

uint16_to_bytes(u16) == <<(u16 \div Base) % Base, u16 % Base>>

uint32_to_bytes(u32) ==
    LET by8 == u32 \div Base
        by16 == by8 \div Base
        by24 == by16 \div Base
    IN  <<by24 % Base, by16 % Base, by8 % Base, u32 % Base>>

\* The length is converted to uint8_t, the characters are all written.
string_to_bytes(str) == <<Len(str) % Base>> \o str

Field(kind, value) == [kind |-> kind, value |-> value]
U8(v) == Field("u8", v)
U16(v) == Field("u16", v)
U32(v) == Field("u32", v)
Str(v) == Field("string", v)

to_bytes(f) ==
    CASE f.kind = "u8" -> <<f.value>>
      [] f.kind = "u16" -> uint16_to_bytes(f.value)
      [] f.kind = "u32" -> uint32_to_bytes(f.value)
      [] f.kind = "string" -> string_to_bytes(f.value)

\* What a field says to whoever reads it.
Says(f) == IF f.kind = "string" THEN <<Len(f.value)>> \o f.value ELSE <<f.value>>

Each(Op(_), s) == FlattenSeq([k \in DOMAIN s |-> Op(s[k])])

-----------------------------------------------------------------------------
(* The builders of the messages.                                           *)

List(Op(_), s) == <<U32(Len(s))>> \o Each(Op, s)

player_to_bytes(p) == <<Str(p.name), Str(p.address)>>
position_to_bytes(p) == <<U16(p.x), U16(p.y)>>
player_map_to_bytes(m) == List(LAMBDA e : <<U8(e.id)>> \o player_to_bytes(e.player), m)
score_map_to_bytes(m) == List(LAMBDA e : <<U8(e.id), U32(e.score)>>, m)
uint8_list_to_bytes(s) == List(LAMBDA v : <<U8(v)>>, s)
position_list_to_bytes(s) == List(position_to_bytes, s)

Event_to_bytes(e) ==
    CASE e.code = "Bomb_placed" -> <<U8(0), U32(e.id)>> \o position_to_bytes(e.position)
      [] e.code = "Bomb_exploded" ->
            <<U8(1), U32(e.id)>> \o uint8_list_to_bytes(e.robots_destroyed)
                                 \o position_list_to_bytes(e.blocks_destroyed)
      [] e.code = "Player_moved" -> <<U8(2), U8(e.id)>> \o position_to_bytes(e.position)
      [] e.code = "Block_placed" -> <<U8(3)>> \o position_to_bytes(e.position)

Turn_info_to_bytes(m) == <<U8(3), U16(m.turn)>> \o List(Event_to_bytes, m.events)

Message_to_bytes(m) ==
    CASE m.code = "Hello" ->
            <<U8(0), Str(m.server_name), U8(m.players_count), U16(m.size_x), U16(m.size_y),
              U16(m.game_length), U16(m.explosion_radius), U16(m.bomb_timer)>>
      [] m.code = "AcceptedPlayer" -> <<U8(1), U8(m.id)>> \o player_to_bytes(m.player)
      [] m.code = "GameStarted" -> <<U8(2)>> \o player_map_to_bytes(m.players)
      [] m.code = "Turn" -> Turn_info_to_bytes(m)
      [] m.code = "GameEnded" -> <<U8(4)>> \o score_map_to_bytes(m.scores)

\* What the format has room for: the length of a string is written in one byte,
\* the number of entries of a list in four.
Field_with_room ==
    [kind : {"u8"}, value : Byte] \cup [kind : {"u16"}, value : Uint16]
        \cup [kind : {"u32"}, value : Uint32]
        \cup [kind : {"string"}, value : {s \in Seq(Byte) : Len(s) < Base}]

Fits(m) == Message_to_bytes(m) \in Seq(Field_with_room)

Encoded(msgs) == Each(to_bytes, Each(Message_to_bytes, msgs))
Said(msgs) == Each(Says, Each(Message_to_bytes, msgs))

-----------------------------------------------------------------------------
(* What the client reads.                                                  *)

Read(kind) == [kind |-> kind]
ReadList(body) == [kind |-> "list", body |-> body]
Loop(body, times) == [kind |-> "loop", body |-> body, times |-> times]

read_player == <<Read("string"), Read("string")>>
read_position == <<Read("u16"), Read("u16")>>
read_players_map == <<ReadList(<<Read("u8")>> \o read_player)>>
read_scores_map == <<ReadList(<<Read("u8"), Read("u32")>>)>>
read_player_id_list == <<ReadList(<<Read("u8")>>)>>
read_position_list == <<ReadList(read_position)>>

\* Slip: the robots of an explosion are not read.
read_event_short ==
    <<<<Read("u32")>> \o read_position, <<Read("u32")>> \o read_position_list,
      <<Read("u8")>> \o read_position, read_position>>

\* By event code, from 0.
read_event ==
    <<<<Read("u32")>> \o read_position,
      <<Read("u32")>> \o read_player_id_list \o read_position_list,
      <<Read("u8")>> \o read_position,
      read_position>>

read_event_list == <<ReadList(<<Read("event")>>)>>

read_hello ==
    <<Read("string"), Read("u8"), Read("u16"), Read("u16"), Read("u16"), Read("u16"), Read("u16")>>

\* By message code, from 0.
read_message ==
    <<read_hello, <<Read("u8")>> \o read_player, read_players_map,
      <<Read("u16")>> \o read_event_list, read_scores_map>>

\* Between messages handle_server_messages reads the next code.
Item == IF todo = <<>> THEN Read("message") ELSE Head(todo)
Rest == IF todo = <<>> THEN <<>> ELSE Tail(todo)

\* What is to be read next once item has got the value v.
Then(item, v) ==
    CASE item.kind = "message" -> read_message[v + 1]
      [] item.kind = "event" -> read_event[v + 1]
      [] item.kind = "list" -> <<Loop(item.body, v)>>
      [] item.kind = "string" /\ v > 0 -> <<[kind |-> "characters", length |-> v]>>
      [] OTHER -> <<>>

\* The switch over the code has no case for v.
NoCase(item, v) ==
    \/ item.kind = "message" /\ v >= Len(read_message)
    \/ item.kind = "event" /\ v >= Len(read_event)

-----------------------------------------------------------------------------
(* The reader.                                                             *)

Drop(n) == buf' = SubSeq(buf, n + 1, Len(buf))

\* The value v has been read: its function returns, or calls the next.
Return(v) ==
    /\ got' = Append(got, v) /\ part' = <<>>
    /\ IF NoCase(Item, v) THEN reader' = "exited" /\ UNCHANGED todo
       ELSE todo' = Then(Item, v) \o Rest /\ UNCHANGED reader

\* read_if_buf_empty: read_some returns the next n bytes.
read_server ==
    /\ reader = "running" /\ buf = <<>> /\ Item.kind # "loop"
    /\ \E n \in 1 .. Len(stream) :
        /\ n <= BUFFER_SIZE
        /\ buf' = SubSeq(stream, 1, n)
        /\ stream' = SubSeq(stream, n + 1, Len(stream))
    /\ UNCHANGED <<sent, todo, part, got, cuts, reader>>

Reads(kinds) ==
    /\ reader = "running" /\ buf # <<>> /\ Item.kind \in kinds /\ cuts < MaxCuts
    /\ UNCHANGED <<sent, stream>>

read_uint8 ==
    /\ Reads({"u8", "message", "event", "string"})
    /\ Return(buf[1]) /\ Drop(1) /\ UNCHANGED cuts

\* With one byte left in the buffer the loop, which counts its index down
\* from 0, ends after that byte: the other byte of the value is whatever the
\* array held, and the byte that belongs there stays in the stream.
read_uint16 ==
    /\ Reads({"u16"})
    /\ \/ /\ Len(buf) >= 2
          /\ Return(buf[1] * Base + buf[2]) /\ Drop(2) /\ UNCHANGED cuts
       \/ /\ Len(buf) = 1
          /\ \E held \in Byte : Return(buf[1] * Base + held)
          /\ Drop(1) /\ cuts' = cuts + 1

AsUint32(b) == ((b[1] * Base + b[2]) * Base + b[3]) * Base + b[4]

\* Slip: the bytes still missing are not waited for when the buffer ends.
read_uint32_hasty ==
    /\ Reads({"u32", "list"})
    /\ \/ /\ part = <<>> /\ Len(buf) >= 4
          /\ Return(AsUint32(buf)) /\ Drop(4)
       \/ /\ Len(buf) < 4
          /\ Return(AsUint32(buf \o <<0, 0, 0>>)) /\ Drop(Len(buf))
    /\ UNCHANGED cuts

\* Four bytes at once, or else one at a time across the reads.
read_uint32 ==
    /\ Reads({"u32", "list"})
    /\ \/ /\ part = <<>> /\ Len(buf) >= 4
          /\ Return(AsUint32(buf)) /\ Drop(4)
       \/ /\ part # <<>> \/ Len(buf) < 4
          /\ LET b == Append(part, buf[1])
             IN  IF Len(b) = 4 THEN Return(AsUint32(b))
                 ELSE part' = b /\ UNCHANGED <<todo, got, reader>>
          /\ Drop(1)
    /\ UNCHANGED cuts

\* The loop of read_string takes up to the whole length of the string again
\* after a read that brought only a part of it.
read_string ==
    /\ Reads({"characters"})
    /\ LET to_read == IF Len(buf) >= Item.length THEN Item.length ELSE Len(buf)
           str == part \o SubSeq(buf, 1, to_read)
       IN  /\ IF Len(str) < Item.length
              THEN part' = str /\ UNCHANGED <<todo, got>>
              ELSE part' = <<>> /\ got' = got \o str /\ todo' = Rest
           /\ Drop(to_read)
           /\ cuts' = IF Len(str) > Item.length THEN cuts + 1 ELSE cuts
    /\ UNCHANGED reader

\* Slip: the loop ends before the last entry.
Iterate_short ==
    /\ reader = "running" /\ Item.kind = "loop"
    /\ todo' = IF Item.times <= 1 THEN Rest
               ELSE Item.body \o <<Loop(Item.body, Item.times - 1)>> \o Rest
    /\ UNCHANGED <<sent, stream, buf, part, got, cuts, reader>>

\* The head of one of the for loops.
Iterate ==
    /\ reader = "running" /\ Item.kind = "loop"
    /\ todo' = IF Item.times = 0 THEN Rest
               ELSE Item.body \o <<Loop(Item.body, Item.times - 1)>> \o Rest
    /\ UNCHANGED <<sent, stream, buf, part, got, cuts, reader>>

-----------------------------------------------------------------------------
(* The specification.                                                      *)

WireInit ==
    /\ sent \in Conversations
    /\ stream = Encoded(sent)
    /\ buf = <<>> /\ todo = <<>> /\ part = <<>> /\ got = <<>>
    /\ cuts = 0 /\ reader = "running"

WireNext == read_server \/ read_uint8 \/ read_uint16 \/ read_uint32 \/ read_string \/ Iterate

\* The reading thread waits only for the bytes of the stream, which come.
WireSpec == WireInit /\ [][WireNext]_wire_vars /\ WF_wire_vars(WireNext)

-----------------------------------------------------------------------------
(* Properties.                                                             *)

\* The reader's variables hold values of their types, and at most one read
\* is buffered.
WireTypeOK ==
    /\ stream \in Seq(Byte) /\ buf \in Seq(Byte) /\ part \in Seq(Byte)
    /\ Len(buf) <= BUFFER_SIZE
    /\ got \in Seq(Uint32)
    /\ cuts \in 0 .. MaxCuts /\ reader \in {"running", "exited"}

\* However TCP cuts the stream, and wherever the buffer ends, the reader has
\* got a beginning of what the server's builders wrote and meets no unknown
\* code, as long as no uint16_t was cut and no string read past its end.
DecodedUntilCut == cuts = 0 => IsPrefix(got, Said(sent)) /\ reader = "running"

\* When it has taken all the bytes, it has got everything that they say: no
\* value is left half read, and none is skipped.
DecodedWhenTaken == cuts = 0 /\ buf = <<>> /\ stream = <<>> => got = Said(sent)

\* Then it also gets all of it: it never waits for bytes that do not come.
AllDecoded == <>(cuts > 0 \/ got = Said(sent))

-----------------------------------------------------------------------------
(* What the repository says and the code does not do.                      *)

\* "Position: { x: u16, y: u16 }" (README.md): what is read is what was sent.
ReadsWhatWasSent == IsPrefix(got, Said(sent))
=============================================================================
