-------------------------- MODULE GameEngineProofs --------------------------
(***************************************************************************)
(* Theorems about GameEngine, for every value of its constants that        *)
(* satisfies GameParams.                                                   *)
(***************************************************************************)
EXTENDS GameEngine, FiniteSetTheorems, SequenceTheorems, WellFoundedInduction, TLAPS

-----------------------------------------------------------------------------
(* Facts about the operators of the model.                                 *)

\* A set of natural numbers has a least element.
LEMMA LeastElement ==
    ASSUME NEW T \in SUBSET Nat, T # {}
    PROVE  \E x \in T : \A y \in T : x <= y
<1>1. PICK x \in T : \A y \in T : <<y, x>> \notin OpToRel(<, Nat)
  BY WFMin, NatLessThanWellFounded, Zenon
<1>2. \A y \in T : ~(y < x)
  <2>. TAKE y \in T
  <2>. SUFFICES ASSUME y < x PROVE FALSE
    OBVIOUS
  <2>. x \in Nat /\ y \in Nat
    OBVIOUS
  <2>. QED BY <1>1, Zenon DEF OpToRel
<1>. QED
  BY <1>2

\* A map that has just been cleared.
LEMMA EmptyMap == ASSUME NEW K, NEW V PROVE Map(<<>>, K, V) /\ DOMAIN <<>> = {}
BY DEF Map

\* std::map::insert keeps the type and adds at most the key.
LEMMA MapInsert ==
    ASSUME NEW K, NEW V, NEW m, Map(m, K, V), NEW k \in K, NEW v \in V
    PROVE  /\ Map(map_insert(m, k, v), K, V)
           /\ DOMAIN map_insert(m, k, v) = DOMAIN m \cup {k}
BY DEF Map, map_insert

\* std::map::insert_or_assign writes one key and leaves the others.
LEMMA InsertOrAssign ==
    ASSUME NEW K, NEW V, NEW m, Map(m, K, V), NEW k \in K, NEW v \in V
    PROVE  /\ Map(insert_or_assign(m, k, v), K, V)
           /\ DOMAIN insert_or_assign(m, k, v) = DOMAIN m \cup {k}
           /\ insert_or_assign(m, k, v)[k] = v
           /\ \A j \in DOMAIN m \ {k} : insert_or_assign(m, k, v)[j] = m[j]
BY DEF Map, insert_or_assign

\* The same for a loop of insert_or_assign over the entries of n.
LEMMA AssignAll ==
    ASSUME NEW K, NEW V, NEW m, Map(m, K, V), NEW n, Map(n, K, V)
    PROVE  /\ Map(assign_all(m, n), K, V)
           /\ DOMAIN assign_all(m, n) = DOMAIN m \cup DOMAIN n
           /\ \A j \in DOMAIN assign_all(m, n) :
                assign_all(m, n)[j] = IF j \in DOMAIN n THEN n[j] ELSE m[j]
BY DEF Map, assign_all

\* An enumeration of a finite set is a sequence of its elements.
LEMMA AscendingIsSeq ==
    ASSUME NEW S, IsFiniteSet(S), NEW f \in Ascending(S)
    PROVE  f \in Seq(S) /\ DOMAIN f = 1 .. Len(f)
<1>1. Cardinality(S) \in Nat
  BY FS_CardinalityType
<1>2. f \in [1 .. Cardinality(S) -> S]
  BY DEF Ascending
<1>3. f \in Seq(S)
  BY <1>1, <1>2
<1>. QED
  BY <1>3, LenProperties

\* Subsets of the uint8_t are finite: the maps of players can be enumerated.
LEMMA PlayerIdsFinite ==
    ASSUME NEW S, S \subseteq PlayerId PROVE IsFiniteSet(S)
<1>1. U8 - 1 \in Int
  BY GameParams
<1>2. IsFiniteSet(PlayerId)
  BY <1>1, FS_Interval DEF PlayerId
<1>. QED
  BY <1>2, FS_Subset

\* Counters below the number of values of their type do not wrap.
LEMMA ModSmall == ASSUME NEW a \in Nat, NEW m \in Nat, a < m PROVE a % m = a
OBVIOUS

\* A field of the board is a pair of uint16_t that passes check_position, and
\* conversely.
LEMMA BoardPosition ==
    /\ Board \subseteq Position
    /\ \A p \in Position : check_position(p) <=> p \in Board
BY GameParams DEF Board, Position, check_position

\* The coordinates a move or a beam computes are again uint16_t.
LEMMA ShiftPosition ==
    ASSUME NEW p \in Position, NEW d \in Directions, NEW i \in Nat
    PROVE  Shift(p, d, i) \in Position
<1>1. \A a \in Int : a % U16 \in 0 .. U16 - 1
  BY GameParams
<1>2. p.x \in Int /\ p.y \in Int /\ p.x \in 0 .. U16 - 1 /\ p.y \in 0 .. U16 - 1
  BY GameParams DEF Position
<1>. QED
  BY <1>1, <1>2 DEF Shift, Position, Directions, Up, Right, Down, Left

\* Inserting into and erasing from the ill-ordered set yields elements of the
\* set and the one inserted, whatever the shape of the tree.
LEMMA InsertType ==
    ASSUME NEW S, NEW s \in Seq(S), NEW k \in S, NEW t \in insert(s, k)
    PROVE  t \in Seq(S)
<1>1. PICK b \in 1 .. Len(s) + 1 :
        t = s \/ t = SubSeq(s, 1, b - 1) \o <<k>> \o SubSeq(s, b, Len(s))
  BY DEF insert, UpperBounds
<1>2. SubSeq(s, 1, b - 1) \in Seq(S) /\ SubSeq(s, b, Len(s)) \in Seq(S)
  BY <1>1
<1>3. <<k>> \in Seq(S)
  OBVIOUS
<1>4. SubSeq(s, 1, b - 1) \o <<k>> \in Seq(S)
  BY <1>2, <1>3, ConcatProperties
<1>. QED
  BY <1>1, <1>2, <1>4, ConcatProperties

\* So does erase.
LEMMA EraseType ==
    ASSUME NEW S, NEW s \in Seq(S), NEW k, NEW t \in erase(s, k)
    PROVE  t \in Seq(S)
<1>1. CASE t = s
  BY <1>1
<1>2. CASE t # s
  <2>1. PICK l \in 1 .. Len(s) + 1, u \in 1 .. Len(s) + 1 :
          t = SubSeq(s, 1, l - 1) \o SubSeq(s, u, Len(s))
    BY <1>2 DEF erase, EqualRanges, LowerBounds, UpperBounds
  <2>2. SubSeq(s, 1, l - 1) \in Seq(S) /\ SubSeq(s, u, Len(s)) \in Seq(S)
    BY <2>1
  <2>. QED
    BY <2>1, <2>2
<1>. QED
  BY <1>1, <1>2

\* The Player_moved events of seed_player, one for each id of a list.
LEMMA SeedEventsType ==
    ASSUME NEW S, S \subseteq PlayerId, NEW ids \in Ascending(S), NEW field \in [S -> Board]
    PROVE  SeedEvents(ids, field) \in Seq(Event)
<1>1. ids \in Seq(S) /\ DOMAIN ids = 1 .. Len(ids) /\ Len(ids) \in Nat
  BY PlayerIdsFinite, AscendingIsSeq, LenProperties
<1>2. \A k \in 1 .. Len(ids) : Player_moved(ids[k], field[ids[k]]) \in Event
  <2>. SUFFICES ASSUME NEW k \in 1 .. Len(ids)
                PROVE  Player_moved(ids[k], field[ids[k]]) \in Event
    OBVIOUS
  <2>1. ids[k] \in S
    BY <1>1, ElementOfSeq
  <2>2. ids[k] \in PlayerId /\ field[ids[k]] \in Position
    BY <2>1, BoardPosition
  <2>. QED
    BY <2>2 DEF Player_moved, Event
<1>3. SeedEvents(ids, field) = [k \in 1 .. Len(ids) |-> Player_moved(ids[k], field[ids[k]])]
  BY <1>1 DEF SeedEvents
<1>. QED
  BY <1>1, <1>2, <1>3

\* add_event on an entry of turns appends to it and leaves the others alone.
LEMMA AddEventsAt ==
    ASSUME turns \in Seq(TurnInfo), NEW n \in Nat, NEW ev \in Seq(Event)
    PROVE  /\ add_events_at(n, ev) \in Seq(TurnInfo)
           /\ Len(add_events_at(n, ev)) = Len(turns)
           /\ \A k \in 1 .. Len(turns) :
                /\ add_events_at(n, ev)[k].turn = turns[k].turn
                /\ k # n + 1 => add_events_at(n, ev)[k] = turns[k]
                /\ k = n + 1 => add_events_at(n, ev)[k].events = turns[k].events \o ev
<1>. DEFINE new(k) == [turns[k] EXCEPT !.events = @ \o ev]
<1>1. Len(turns) \in Nat /\ DOMAIN turns = 1 .. Len(turns)
  BY LenProperties
<1>2. ASSUME NEW k \in 1 .. Len(turns)
      PROVE  /\ turns[k] \in TurnInfo /\ new(k) \in TurnInfo
             /\ new(k).turn = turns[k].turn
             /\ new(k).events = turns[k].events \o ev
  <2>1. turns[k] \in TurnInfo
    BY ElementOfSeq
  <2>2. turns[k].events \in Seq(Event)
    BY <2>1 DEF TurnInfo
  <2>3. turns[k].events \o ev \in Seq(Event)
    BY <2>2, ConcatProperties
  <2>. QED
    BY <2>1, <2>3 DEF TurnInfo
<1>3. add_events_at(n, ev) = [k \in 1 .. Len(turns) |->
                                IF k = n + 1 THEN new(k) ELSE turns[k]]
  BY <1>1 DEF add_events_at
<1>. HIDE DEF new
<1>4. /\ add_events_at(n, ev) \in Seq(TurnInfo)
      /\ Len(add_events_at(n, ev)) = Len(turns)
  BY <1>1, <1>2, <1>3
<1>5. ASSUME NEW k \in 1 .. Len(turns)
      PROVE  /\ add_events_at(n, ev)[k].turn = turns[k].turn
             /\ k # n + 1 => add_events_at(n, ev)[k] = turns[k]
             /\ k = n + 1 => add_events_at(n, ev)[k].events = turns[k].events \o ev
  BY <1>2, <1>3
<1>. QED
  BY <1>4, <1>5

\* The same for the current turn.
LEMMA AddEvents ==
    ASSUME TypeOK, NEW ev \in Seq(Event)
    PROVE  /\ add_events(ev) \in Seq(TurnInfo)
           /\ Len(add_events(ev)) = Len(turns)
           /\ \A k \in 1 .. Len(turns) :
                /\ add_events(ev)[k].turn = turns[k].turn
                /\ k # current_turn + 1 => add_events(ev)[k] = turns[k]
                /\ k = current_turn + 1 => add_events(ev)[k].events = turns[k].events \o ev
<1>1. turns \in Seq(TurnInfo) /\ current_turn \in Nat
  BY GameParams DEF TypeOK
<1>. QED
  BY <1>1, AddEventsAt DEF add_events

\* The blocks that an explosion pushes on its list were found on the board.
LEMMA BlocksHitType ==
    ASSUME NEW p, NEW hits \in SUBSET Board, NEW blocks \in BlocksHit(p, hits)
    PROVE  blocks \in Seq(Board)
<1>1. CASE p \in hits
  <2>1. blocks = <<p>> /\ p \in Board
    BY <1>1 DEF BlocksHit
  <2>. QED
    BY <2>1
<1>2. CASE p \notin hits
  <2>. DEFINE K == {k \in Tries : Reaches(p, k, hits) /\ Beam(p, k) \in hits}
  <2>1. PICK f \in Ascending(K) : blocks = [n \in DOMAIN f |-> Beam(p, f[n])]
    BY <1>2 DEF BlocksHit
  <2>2. IsFiniteSet(Tries)
    <3>1. 4 * explosion_radius - 1 \in Int
      BY GameParams
    <3>. QED
      BY <3>1, FS_Interval DEF Tries
  <2>3. IsFiniteSet(K)
    BY <2>2, FS_Subset
  <2>4. f \in Seq(K) /\ DOMAIN f = 1 .. Len(f) /\ Len(f) \in Nat
    <3>. HIDE DEF K
    <3>. QED
      BY <2>3, AscendingIsSeq, LenProperties
  <2>5. \A n \in 1 .. Len(f) : Beam(p, f[n]) \in Board
    BY <2>4, ElementOfSeq
  <2>. QED
    BY <2>1, <2>4, <2>5
<1>. QED
  BY <1>1, <1>2

\* What an explosion records: robots that are on the map, and blocks that a
\* lookup found on the board.
LEMMA ExplosionOutcome ==
    ASSUME TypeOK, NEW b \in Nat, NEW p, handle_explosion(b, p)
    PROVE  \E robots \in SUBSET DOMAIN players_positions, blocks \in Seq(Board) :
            /\ current_players_to_destroy' = current_players_to_destroy \cup robots
            /\ current_blocks_to_erase' = current_blocks_to_erase \o blocks
            /\ <<Bomb_exploded(b, robots, blocks)>> \in Seq(Event)
            /\ turns' = add_events(<<Bomb_exploded(b, robots, blocks)>>)
<1>1a. PICK hits \in SUBSET Board :
        \E blocks \in BlocksHit(p, hits) :
            LET robots == {r \in DOMAIN players_positions :
                              players_positions[r] \in BlastArea(p, hits)}
            IN  /\ current_players_to_destroy' = current_players_to_destroy \cup robots
                /\ current_blocks_to_erase' = current_blocks_to_erase \o blocks
                /\ turns' = add_events(<<Bomb_exploded(b, robots, blocks)>>)
  BY DEF handle_explosion, Found
<1>1. PICK blocks \in BlocksHit(p, hits) :
        LET robots == {r \in DOMAIN players_positions : players_positions[r] \in BlastArea(p, hits)}
        IN  /\ current_players_to_destroy' = current_players_to_destroy \cup robots
            /\ current_blocks_to_erase' = current_blocks_to_erase \o blocks
            /\ turns' = add_events(<<Bomb_exploded(b, robots, blocks)>>)
  BY <1>1a
<1>. DEFINE robots == {r \in DOMAIN players_positions : players_positions[r] \in BlastArea(p, hits)}
<1>2. blocks \in Seq(Board)
  BY BlocksHitType
<1>3. Bomb_exploded(b, robots, blocks) \in Event
  <2>1. robots \in SUBSET PlayerId
    BY DEF TypeOK, Map
  <2>2. blocks \in Seq(Position)
    BY <1>2, BoardPosition, SeqMonotonic
  <2>. HIDE DEF robots
  <2>. QED
    BY <2>1, <2>2 DEF Bomb_exploded, Event
<1>4. <<Bomb_exploded(b, robots, blocks)>> \in Seq(Event)
  BY <1>3
<1>5. robots \in SUBSET DOMAIN players_positions
  OBVIOUS
<1>6. /\ current_players_to_destroy' = current_players_to_destroy \cup robots
      /\ current_blocks_to_erase' = current_blocks_to_erase \o blocks
      /\ turns' = add_events(<<Bomb_exploded(b, robots, blocks)>>)
  BY <1>1
<1>. HIDE DEF robots
<1>. QED
  BY <1>2, <1>4, <1>5, <1>6

-----------------------------------------------------------------------------
(* Type correctness.                                                       *)

\* The values end_gameplay and the constructor give the members.
LEMMA EmptyTables ==
    /\ Map(<<>>, PlayerId, Player) /\ Map(<<>>, PlayerId, Nat)
    /\ Map(<<>>, PlayerId, Position) /\ Map(<<>>, Slot, PlayerId)
    /\ Map(<<>>, Nat, Bomb) /\ IsFiniteSet(DOMAIN <<>>)
    /\ <<>> \in Seq(Position) /\ <<>> \in Seq(TurnInfo)
    /\ 0 \in PlayerId /\ 0 \in 0 .. U16 - 1 /\ 1 \in 1 .. conn_max
<1>1. 0 \in PlayerId /\ 0 \in 0 .. U16 - 1 /\ 1 \in 1 .. conn_max
  BY GameParams DEF PlayerId
<1>2. \A K, V : Map(<<>>, K, V)
  BY EmptyMap
<1>3. IsFiniteSet(DOMAIN <<>>)
  BY EmptyMap, FS_EmptySet
<1>. QED
  BY <1>1, <1>2, <1>3

\* The constructor leaves every member well typed.
LEMMA TypeInit == Init => TypeOK
<1>. SUFFICES ASSUME Init PROVE TypeOK
  OBVIOUS
<1>1. /\ gameplay_started \in BOOLEAN
      /\ Map(players, PlayerId, Player) /\ Map(scores, PlayerId, Nat)
      /\ Map(players_positions, PlayerId, Position) /\ Map(player_ids, Slot, PlayerId)
      /\ Map(bombs, Nat, Bomb) /\ IsFiniteSet(DOMAIN bombs)
  BY EmptyTables DEF Init
<1>2. /\ blocks_positions \in Seq(Position) /\ current_blocks_to_erase \in Seq(Position)
      /\ turns \in Seq(TurnInfo) /\ next_player_id \in PlayerId
      /\ current_turn \in 0 .. U16 - 1 /\ next_bomb_id \in Nat /\ index \in Nat
      /\ cursor \in 1 .. conn_max
  BY EmptyTables DEF Init
<1>3. phase \in Phase /\ current_players_to_destroy \subseteq PlayerId
  BY DEF Init, Phase
<1>. QED
  BY <1>1, <1>2, <1>3 DEF TypeOK

\* Every step of the loop and every handler keeps it so.
LEMMA TypeStep == TypeOK /\ [Next]_vars => TypeOK'
<1>. SUFFICES ASSUME TypeOK, [Next]_vars PROVE TypeOK'
  OBVIOUS
<1>. USE DEF lobby, world, marks, log, game
<1>1. CASE BeginTurn
  <2>1. current_turn' \in 0 .. U16 - 1
    BY <1>1, GameParams DEF BeginTurn, TypeOK
  <2>2. Turn_info(current_turn') \in TurnInfo
    BY <2>1 DEF Turn_info, TurnInfo
  <2>3. turns' \in Seq(TurnInfo)
    BY <1>1, <2>2, AppendProperties DEF BeginTurn, TypeOK
  <2>. QED
    BY <1>1, <2>1, <2>3 DEF BeginTurn, TypeOK, Phase
<1>2. ASSUME NEW b \in DOMAIN bombs, TickBomb(b) PROVE TypeOK'
  <2>. DEFINE timer == (bombs[b].timer - 1) % U16
  <2>1. b \in Nat /\ bombs[b] \in Bomb
    BY DEF TypeOK, Map
  <2>2. timer \in 0 .. U16 - 1
    BY <2>1, GameParams DEF Bomb
  <2>3. Map(bombs', Nat, Bomb) /\ IsFiniteSet(DOMAIN bombs')
    BY <1>2, <2>1, <2>2 DEF TickBomb, TypeOK, Map, Bomb
  <2>4. /\ current_blocks_to_erase' \in Seq(Position)
        /\ current_players_to_destroy' \subseteq PlayerId
        /\ turns' \in Seq(TurnInfo)
    <3>1. CASE timer # 0
      BY <1>2, <3>1 DEF TickBomb, TypeOK
    <3>2. CASE timer = 0
      <4>1. handle_explosion(b, bombs[b].position)
        BY <1>2, <3>2 DEF TickBomb
      <4>2. PICK robots \in SUBSET DOMAIN players_positions, blocks \in Seq(Board) :
              /\ current_players_to_destroy' = current_players_to_destroy \cup robots
              /\ current_blocks_to_erase' = current_blocks_to_erase \o blocks
              /\ <<Bomb_exploded(b, robots, blocks)>> \in Seq(Event)
              /\ turns' = add_events(<<Bomb_exploded(b, robots, blocks)>>)
        BY <2>1, <4>1, ExplosionOutcome
      <4>3. blocks \in Seq(Position)
        BY BoardPosition, SeqMonotonic
      <4>4. current_blocks_to_erase' \in Seq(Position)
        BY <4>2, <4>3, ConcatProperties DEF TypeOK
      <4>5. turns' \in Seq(TurnInfo)
        BY <4>2, AddEvents
      <4>6. current_players_to_destroy' \subseteq PlayerId
        BY <4>2 DEF TypeOK, Map
      <4>. QED
        BY <4>4, <4>5, <4>6
    <3>. QED
      BY <3>1, <3>2
  <2>5. index' \in Nat
    BY <1>2, <2>1 DEF TickBomb
  <2>. QED
    BY <1>2, <2>3, <2>4, <2>5 DEF TickBomb, TypeOK
<1>3. CASE EraseBombs
  <2>. DEFINE D == {b \in DOMAIN bombs : bombs[b].timer # 0}
  <2>1. bombs' = [b \in D |-> bombs[b]]
    BY <1>3 DEF EraseBombs, Restrict
  <2>2. IsFiniteSet(D)
    BY FS_Subset DEF TypeOK
  <2>3. Map(bombs', Nat, Bomb) /\ IsFiniteSet(DOMAIN bombs')
    BY <2>1, <2>2 DEF TypeOK, Map
  <2>. QED
    BY <1>3, <2>3 DEF EraseBombs, TypeOK, Phase
<1>4. CASE EraseBlock
  <2>1. blocks_positions' \in Seq(Position)
    BY <1>4, EraseType DEF EraseBlock, TypeOK
  <2>. QED
    BY <1>4, <2>1 DEF EraseBlock, TypeOK
<1>5. CASE TurnBegun
  BY <1>5 DEF TurnBegun, TypeOK, Phase
<1>6. CASE PollInLobby
  BY <1>6 DEF PollInLobby, TypeOK, Phase
<1>7. CASE NoConnection
  BY <1>7, GameParams DEF NoConnection, TypeOK, Phase
<1>8. ASSUME NEW p \in Board, SeedBlock(p) PROVE TypeOK'
  <2>1. p \in Position
    BY BoardPosition
  <2>2. blocks_positions' \in Seq(Position)
    BY <1>8, <2>1, InsertType DEF SeedBlock, TypeOK
  <2>3. turns' \in Seq(TurnInfo)
    <3>1. <<Block_placed(p)>> \in Seq(Event)
      BY <2>1 DEF Block_placed, Event
    <3>2. turns \in Seq(TurnInfo) /\ turns' = add_events_at(0, <<Block_placed(p)>>)
      BY <1>8 DEF SeedBlock, TypeOK
    <3>. QED
      BY <3>1, <3>2, AddEventsAt
  <2>. QED
    BY <1>8, <2>2, <2>3 DEF SeedBlock, TypeOK, Phase
<1>9. CASE EndRound
  BY <1>9 DEF EndRound, TypeOK, Phase
<1>10. CASE SummariseTurn
  <2>1. PICK field \in [current_players_to_destroy -> Board],
             ids \in Ascending(current_players_to_destroy) :
          \/ end_gameplay
          \/ /\ turns' = add_events(SeedEvents(ids, field))
             /\ scores' = [p \in DOMAIN scores |->
                  IF p \in current_players_to_destroy THEN scores[p] + 1 ELSE scores[p]]
             /\ players_positions' = assign_all(players_positions, field)
             /\ UNCHANGED <<lobby, blocks_positions, bombs, next_bomb_id, current_turn>>
    BY <1>10 DEF SummariseTurn
  <2>2. CASE end_gameplay
    <3>1. /\ clear_marks /\ phase' = "loop" /\ UNCHANGED <<cursor, index>>
      BY <1>10 DEF SummariseTurn
    <3>. QED
      BY <2>2, <3>1, EmptyTables DEF end_gameplay, clear_marks, TypeOK, Phase
  <2>3. CASE ~end_gameplay
    <3>1. turns' \in Seq(TurnInfo)
      <4>1. SeedEvents(ids, field) \in Seq(Event)
        BY SeedEventsType DEF TypeOK
      <4>. QED
        BY <2>1, <2>3, <4>1, AddEvents
    <3>2. Map(players_positions', PlayerId, Position)
      <4>1. Map(field, PlayerId, Position) /\ Map(players_positions, PlayerId, Position)
        BY BoardPosition DEF Map, TypeOK
      <4>2. players_positions' = assign_all(players_positions, field)
        BY <2>1, <2>3
      <4>. QED
        BY <4>1, <4>2, AssignAll
    <3>3. Map(scores', PlayerId, Nat)
      BY <2>1, <2>3 DEF TypeOK, Map
    <3>4. /\ clear_marks /\ phase' = "loop" /\ UNCHANGED <<cursor, index>>
      BY <1>10 DEF SummariseTurn
    <3>5. UNCHANGED <<lobby, blocks_positions, bombs, next_bomb_id, current_turn>>
      BY <2>1, <2>3
    <3>. QED
      BY <3>1, <3>2, <3>3, <3>4, <3>5 DEF clear_marks, TypeOK, Phase
  <2>. QED
    BY <2>2, <2>3
<1>11. ASSUME NEW position \in {-1} \cup Slot, AcceptClient(position) PROVE TypeOK'
  BY <1>11, GameParams DEF AcceptClient, TypeOK, Phase
<1>12. ASSUME NEW i \in Slot PROVE JoinRefused(i) => TypeOK'
  BY GameParams DEF JoinRefused, Serving, TypeOK, Slot
<1>13. ASSUME NEW i \in Slot, NEW player \in Player, Join(i, player) PROVE TypeOK'
  <2>. DEFINE ps == map_insert(players, next_player_id, player)
  <2>1. Map(ps, PlayerId, Player)
    BY MapInsert DEF TypeOK
  <2>2. /\ Map(players', PlayerId, Player) /\ Map(player_ids', Slot, PlayerId)
        /\ Map(scores', PlayerId, Nat)
    BY <1>13, <2>1, MapInsert, InsertOrAssign DEF Join, TypeOK
  <2>3. next_player_id' \in PlayerId /\ cursor' \in 1 .. conn_max
    BY <1>13, GameParams DEF Join, Serving, TypeOK, PlayerId, Slot
  <2>4. /\ gameplay_started' \in BOOLEAN /\ turns' \in Seq(TurnInfo)
        /\ Map(players_positions', PlayerId, Position)
        /\ phase' \in Phase /\ index' \in Nat
    <3>1. CASE start_gameplay(ps)
      <4>1. PICK field \in [DOMAIN ps -> Board], ids \in Ascending(DOMAIN ps) :
              /\ turns' = Append(turns, [Turn_info(0) EXCEPT !.events = SeedEvents(ids, field)])
              /\ players_positions' = assign_all(players_positions, field)
        BY <3>1 DEF start_gameplay
      <4>2. DOMAIN ps \subseteq PlayerId
        BY <2>1 DEF Map
      <4>. HIDE DEF ps
      <4>3. SeedEvents(ids, field) \in Seq(Event)
        BY <4>2, SeedEventsType
      <4>4. [Turn_info(0) EXCEPT !.events = SeedEvents(ids, field)] \in TurnInfo
        BY <4>3, EmptyTables DEF Turn_info, TurnInfo
      <4>5. turns' \in Seq(TurnInfo)
        BY <4>1, <4>4, AppendProperties DEF TypeOK
      <4>6. Map(field, PlayerId, Position) /\ Map(players_positions, PlayerId, Position)
        BY <4>2, BoardPosition DEF Map, TypeOK
      <4>7. Map(players_positions', PlayerId, Position)
        BY <4>1, <4>6, AssignAll
      <4>. QED
        BY <3>1, <4>5, <4>7 DEF start_gameplay, Phase
    <3>2. CASE UNCHANGED <<gameplay_started, turns, players_positions, phase, index>>
      BY <3>2 DEF TypeOK
    <3>. QED
      BY <1>13, <3>1, <3>2 DEF Join
  <2>5. UNCHANGED <<blocks_positions, bombs, next_bomb_id, marks, current_turn>>
    BY <1>13 DEF Join
  <2>. QED
    BY <2>2, <2>3, <2>4, <2>5 DEF TypeOK
<1>14. ASSUME NEW i \in Slot PROVE ActionRefused(i) => TypeOK'
  BY GameParams DEF ActionRefused, Serving, TypeOK, Slot
<1>15. ASSUME NEW i \in Slot PROVE ActionThrows(i) => TypeOK'
  BY DEF ActionThrows, TypeOK, Phase
<1>16. ASSUME NEW i \in Slot, Acts(i)
       PROVE  /\ player_ids[i] \in PlayerId /\ players_positions[player_ids[i]] \in Position
              /\ cursor' \in 1 .. conn_max
  <2>1. /\ i \in DOMAIN player_ids /\ player_ids[i] \in DOMAIN players_positions
        /\ cursor' = i + 1
    BY <1>16 DEF Acts, MayAct
  <2>2. cursor' \in 1 .. conn_max
    BY <2>1, GameParams DEF Slot
  <2>3. player_ids \in [DOMAIN player_ids -> PlayerId]
    BY DEF TypeOK, Map
  <2>4. players_positions \in [DOMAIN players_positions -> Position]
    BY DEF TypeOK, Map
  <2>. QED
    BY <2>1, <2>2, <2>3, <2>4
<1>17. ASSUME NEW i \in Slot, PlaceBomb(i) PROVE TypeOK'
  <2>. DEFINE position == players_positions[player_ids[i]]
  <2>1. position \in Position /\ cursor' \in 1 .. conn_max
    BY <1>16, <1>17 DEF PlaceBomb
  <2>. HIDE DEF position
  <2>. DEFINE new_bomb == [position |-> position, timer |-> bomb_timer]
  <2>2. new_bomb \in Bomb
    BY <2>1, GameParams DEF Bomb
  <2>3. bombs' = map_insert(bombs, next_bomb_id, new_bomb)
    BY <1>17 DEF PlaceBomb, position
  <2>. HIDE DEF new_bomb
  <2>4a. Map(bombs, Nat, Bomb) /\ IsFiniteSet(DOMAIN bombs) /\ next_bomb_id \in Nat
    BY DEF TypeOK
  <2>4. /\ Map(bombs', Nat, Bomb) /\ DOMAIN bombs' = DOMAIN bombs \cup {next_bomb_id}
    BY <2>2, <2>3, <2>4a DEF Map, map_insert
  <2>5. IsFiniteSet(DOMAIN bombs') /\ next_bomb_id' \in Nat
    BY <1>17, <2>4, <2>4a, FS_AddElement DEF PlaceBomb
  <2>6. <<Bomb_placed(next_bomb_id, position)>> \in Seq(Event)
    BY <2>1 DEF Bomb_placed, Event, TypeOK
  <2>7. turns' = add_events(<<Bomb_placed(next_bomb_id, position)>>)
    BY <1>17 DEF PlaceBomb, position
  <2>8. turns' \in Seq(TurnInfo)
    BY <2>6, <2>7, AddEvents
  <2>. QED
    BY <1>17, <2>1, <2>4, <2>5, <2>8 DEF PlaceBomb, TypeOK
<1>18. ASSUME NEW i \in Slot, PlaceBlock(i) PROVE TypeOK'
  <2>. DEFINE position == players_positions[player_ids[i]]
  <2>1. position \in Position /\ cursor' \in 1 .. conn_max
    BY <1>16, <1>18 DEF PlaceBlock
  <2>2. /\ blocks_positions' \in insert(blocks_positions, position)
        /\ turns' = add_events(<<Block_placed(position)>>)
    BY <1>18 DEF PlaceBlock
  <2>. HIDE DEF position
  <2>3. blocks_positions' \in Seq(Position)
    BY <2>1, <2>2, InsertType DEF TypeOK
  <2>4. <<Block_placed(position)>> \in Seq(Event)
    BY <2>1 DEF Block_placed, Event
  <2>5. turns' \in Seq(TurnInfo)
    BY <2>2, <2>4, AddEvents
  <2>. QED
    BY <1>18, <2>1, <2>3, <2>5 DEF PlaceBlock, TypeOK
<1>19. ASSUME NEW i \in Slot, NEW d, Move(i, d) PROVE TypeOK'
  <2>1. /\ player_ids[i] \in PlayerId /\ players_positions[player_ids[i]] \in Position
        /\ cursor' \in 1 .. conn_max
    BY <1>16, <1>19 DEF Move
  <2>2. PICK new \in NewPositions(players_positions[player_ids[i]], d) :
          \/ /\ players_positions' = insert_or_assign(players_positions, player_ids[i], new)
             /\ turns' = add_events(<<Player_moved(player_ids[i], new)>>)
          \/ UNCHANGED <<players_positions, turns>>
    BY <1>19 DEF Move
  <2>3. new \in Position
    BY <2>1, <2>2, ShiftPosition DEF NewPositions
  <2>4. <<Player_moved(player_ids[i], new)>> \in Seq(Event)
    BY <2>1, <2>3 DEF Player_moved, Event
  <2>5. turns' \in Seq(TurnInfo)
    BY <2>2, <2>4, AddEvents DEF TypeOK
  <2>6. Map(players_positions', PlayerId, Position)
    <3>1. Map(players_positions, PlayerId, Position)
      BY DEF TypeOK
    <3>2. Map(insert_or_assign(players_positions, player_ids[i], new), PlayerId, Position)
      BY <2>1, <2>3, <3>1, InsertOrAssign
    <3>. QED
      BY <2>2, <3>1, <3>2
  <2>. QED
    BY <1>19, <2>1, <2>5, <2>6 DEF Move, TypeOK
<1>20. CASE UNCHANGED vars
  BY <1>20 DEF vars, TypeOK
<1>. QED
  BY <1>1, <1>2, <1>3, <1>4, <1>5, <1>6, <1>7, <1>8, <1>9, <1>10, <1>11, <1>12, <1>13,
     <1>14, <1>15, <1>17, <1>18, <1>19, <1>20
  DEF Next, ServerStep, ClientStep, HandleMsg

\* Every member of Game_engine keeps its type for ever: ids and turn numbers
\* stay in their widths and no coordinate leaves the uint16_t.
THEOREM TypeCorrect == Spec => []TypeOK
BY TypeInit, TypeStep, PTL DEF Spec

-----------------------------------------------------------------------------
(* Robots, bombs and blocks stay on the board.                             *)

\* No gameplay, nothing on the board.
LEMMA OnBoardInit == Init => OnBoard
BY EmptyMap DEF Init, OnBoard

\* Every coordinate that is stored was drawn on the board, checked by
\* check_position, or copied from a robot's.
LEMMA OnBoardStep == TypeOK /\ OnBoard /\ [Next]_vars => OnBoard'
<1>. SUFFICES ASSUME TypeOK, OnBoard, [Next]_vars PROVE OnBoard'
  OBVIOUS
<1>. USE DEF lobby, world, marks, log, game
<1>1. ASSUME UNCHANGED <<players_positions, bombs, blocks_positions>> PROVE OnBoard'
  BY <1>1 DEF OnBoard
<1>2. ASSUME NEW b \in DOMAIN bombs, TickBomb(b) PROVE OnBoard'
  <2>1. bombs' = [bombs EXCEPT ![b].timer = (bombs[b].timer - 1) % U16]
    BY <1>2 DEF TickBomb
  <2>2. DOMAIN bombs' = DOMAIN bombs
        /\ \A c \in DOMAIN bombs : bombs'[c].position = bombs[c].position
    BY <2>1 DEF TypeOK, Map, Bomb
  <2>. QED
    BY <1>2, <2>2 DEF TickBomb, OnBoard
<1>3. CASE EraseBombs
  <2>1. /\ DOMAIN bombs' \subseteq DOMAIN bombs
        /\ \A c \in DOMAIN bombs' : bombs'[c] = bombs[c]
    BY <1>3 DEF EraseBombs, Restrict
  <2>. QED
    BY <1>3, <2>1 DEF EraseBombs, OnBoard
<1>4. CASE EraseBlock
  <2>1. blocks_positions' \in Seq(Board)
    BY <1>4, EraseType DEF EraseBlock, OnBoard
  <2>. QED
    BY <1>4, <2>1 DEF EraseBlock, OnBoard
<1>5. ASSUME NEW p \in Board, SeedBlock(p) PROVE OnBoard'
  <2>1. blocks_positions' \in Seq(Board)
    BY <1>5, InsertType DEF SeedBlock, OnBoard
  <2>. QED
    BY <1>5, <2>1 DEF SeedBlock, OnBoard
<1>6. CASE SummariseTurn
  <2>1. PICK field \in [current_players_to_destroy -> Board] :
          \/ end_gameplay
          \/ /\ players_positions' = assign_all(players_positions, field)
             /\ UNCHANGED <<blocks_positions, bombs>>
    BY <1>6 DEF SummariseTurn
  <2>2. CASE end_gameplay
    BY <2>2, EmptyMap DEF end_gameplay, OnBoard
  <2>3. CASE ~end_gameplay
    BY <2>1, <2>3 DEF assign_all, OnBoard
  <2>. QED
    BY <2>2, <2>3
<1>7. ASSUME NEW i \in Slot, NEW player \in Player, Join(i, player) PROVE OnBoard'
  <2>1. \/ UNCHANGED players_positions
        \/ \E S : \E field \in [S -> Board] :
              players_positions' = assign_all(players_positions, field)
    BY <1>7 DEF Join, start_gameplay
  <2>2. \A p \in DOMAIN players_positions' : players_positions'[p] \in Board
    BY <2>1 DEF assign_all, OnBoard
  <2>. QED
    BY <1>7, <2>2 DEF Join, OnBoard
<1>8. ASSUME NEW i \in Slot, Acts(i) PROVE players_positions[player_ids[i]] \in Board
  BY <1>8 DEF Acts, OnBoard
<1>9. ASSUME NEW i \in Slot, PlaceBomb(i) PROVE OnBoard'
  <2>1. players_positions[player_ids[i]] \in Board
    BY <1>8, <1>9 DEF PlaceBomb
  <2>2. bombs' = map_insert(bombs, next_bomb_id,
                   [position |-> players_positions[player_ids[i]], timer |-> bomb_timer])
    BY <1>9 DEF PlaceBomb
  <2>3. \A b \in DOMAIN bombs' : bombs'[b].position \in Board
    BY <2>1, <2>2 DEF map_insert, OnBoard
  <2>. QED
    BY <1>9, <2>3 DEF PlaceBomb, OnBoard
<1>10. ASSUME NEW i \in Slot, PlaceBlock(i) PROVE OnBoard'
  <2>1. players_positions[player_ids[i]] \in Board
    BY <1>8, <1>10 DEF PlaceBlock
  <2>2. blocks_positions' \in Seq(Board)
    BY <1>10, <2>1, InsertType DEF PlaceBlock, OnBoard
  <2>. QED
    BY <1>10, <2>2 DEF PlaceBlock, OnBoard
<1>11. ASSUME NEW i \in Slot, NEW d, Move(i, d) PROVE OnBoard'
  <2>1. players_positions[player_ids[i]] \in Position
    BY <1>8, <1>11, BoardPosition DEF Move
  <2>2. PICK new \in NewPositions(players_positions[player_ids[i]], d) :
          \/ /\ check_position(new)
             /\ players_positions' = insert_or_assign(players_positions, player_ids[i], new)
          \/ UNCHANGED players_positions
    BY <1>11 DEF Move, check_position_to_move
  <2>3. new \in Position
    BY <2>1, <2>2, ShiftPosition DEF NewPositions
  <2>4. \A p \in DOMAIN players_positions' : players_positions'[p] \in Board
    BY <2>2, <2>3, BoardPosition DEF insert_or_assign, OnBoard
  <2>. QED
    BY <1>11, <2>4 DEF Move, OnBoard
<1>12. ASSUME NEW i \in Slot, JoinRefused(i) \/ ActionRefused(i) \/ ActionThrows(i)
       PROVE  OnBoard'
  BY <1>1, <1>12 DEF JoinRefused, ActionRefused, ActionThrows
<1>13. ASSUME NEW position \in {-1} \cup Slot, AcceptClient(position) PROVE OnBoard'
  BY <1>1, <1>13 DEF AcceptClient
<1>14. CASE BeginTurn \/ TurnBegun \/ PollInLobby \/ NoConnection \/ EndRound \/ UNCHANGED vars
  BY <1>1, <1>14 DEF BeginTurn, TurnBegun, PollInLobby, NoConnection, EndRound, vars
<1>. QED
  BY <1>2, <1>3, <1>4, <1>5, <1>6, <1>7, <1>9, <1>10, <1>11, <1>12, <1>13, <1>14
  DEF Next, ServerStep, ClientStep, HandleMsg

\* Wrapping coordinates never take a robot, a bomb or a block off the board.
THEOREM StaysOnBoard == Spec => []OnBoard
BY OnBoardInit, OnBoardStep, TypeCorrect, PTL DEF Spec

-----------------------------------------------------------------------------
(* Player ids.                                                             *)

\* The constructor: nobody has joined.
LEMMA IdsInit == Init => IdsConsistent
BY GameParams, EmptyMap DEF Init, IdsConsistent

\* Only Join_msg and end_gameplay touch the ids.  The lobby holds fewer than
\* players_count players, so the uint8_t counter does not wrap.
LEMMA IdsStep == TypeOK /\ IdsConsistent /\ [Next]_vars => IdsConsistent'
<1>. SUFFICES ASSUME TypeOK, IdsConsistent, [Next]_vars PROVE IdsConsistent'
  OBVIOUS
<1>. USE DEF lobby, world, marks, log, game
<1>1. ASSUME UNCHANGED lobby, DOMAIN scores' = DOMAIN scores PROVE IdsConsistent'
  BY <1>1 DEF IdsConsistent
<1>2. ASSUME NEW i \in Slot, NEW player \in Player, Join(i, player) PROVE IdsConsistent'
  <2>. DEFINE n == next_player_id
              ps == map_insert(players, n, player)
  <2>1. n \in Nat /\ n < players_count /\ players_count < U8 /\ U8 \in Nat
    <3>1. ~gameplay_started
      BY <1>2 DEF Join
    <3>2. next_player_id \in 0 .. U8 - 1
      BY DEF TypeOK, PlayerId
    <3>3. next_player_id <= players_count /\ next_player_id # players_count
      BY <3>1 DEF IdsConsistent
    <3>. QED
      BY <3>2, <3>3, GameParams
  <2>2. next_player_id' = n + 1
    <3>1. next_player_id' = (n + 1) % U8
      BY <1>2 DEF Join
    <3>2. n + 1 \in Nat /\ n + 1 < U8
      BY <2>1, GameParams
    <3>3. (n + 1) % U8 = n + 1
      BY <2>1, <3>2, ModSmall
    <3>. QED
      BY <3>1, <3>3
  <2>3a. (0 .. n - 1) \cup {n} = 0 .. n
    BY <2>1
  <2>3b. DOMAIN players = 0 .. n - 1 /\ DOMAIN scores = 0 .. n - 1 /\ n \notin 0 .. n - 1
    BY <2>1 DEF IdsConsistent
  <2>3. DOMAIN ps = 0 .. n /\ players' = ps
    BY <1>2, <2>3a, <2>3b DEF Join, map_insert
  <2>4. Cardinality(DOMAIN ps) = n + 1
    BY <2>1, <2>3, FS_Interval
  <2>5. gameplay_started' <=> n + 1 = players_count
    BY <1>2, <2>4 DEF Join, start_gameplay
  <2>6. DOMAIN scores' = 0 .. n
    <3>1. scores' = map_insert(scores, n, 0)
      BY <1>2 DEF Join
    <3>. QED
      BY <2>3a, <2>3b, <3>1 DEF map_insert
  <2>7. /\ player_ids' = insert_or_assign(player_ids, i, n)
        /\ \A j \in DOMAIN player_ids : player_ids[j] \in 0 .. n - 1
        /\ \A j, k \in DOMAIN player_ids : player_ids[j] = player_ids[k] => j = k
    BY <1>2 DEF Join, IdsConsistent
  <2>8. /\ DOMAIN player_ids' = DOMAIN player_ids \cup {i} /\ player_ids'[i] = n
        /\ \A j \in DOMAIN player_ids \ {i} : player_ids'[j] = player_ids[j]
    BY <2>7 DEF insert_or_assign
  <2>9. /\ \A j \in DOMAIN player_ids' : player_ids'[j] \in 0 .. n
        /\ \A j, k \in DOMAIN player_ids' : player_ids'[j] = player_ids'[k] => j = k
    <3>1. \A j \in DOMAIN player_ids \ {i} : player_ids'[j] \in 0 .. n - 1
      BY <2>7, <2>8
    <3>. QED
      BY <2>1, <2>7, <2>8, <3>1
  <2>10. next_player_id' - 1 = n /\ next_player_id' <= players_count
    BY <2>1, <2>2, GameParams
  <2>. HIDE DEF n, ps
  <2>. QED
    BY <2>2, <2>3, <2>5, <2>6, <2>9, <2>10 DEF IdsConsistent
<1>3. CASE SummariseTurn
  <2>1. CASE end_gameplay
    <3>1. /\ gameplay_started' = FALSE /\ players' = <<>> /\ scores' = <<>>
          /\ player_ids' = <<>> /\ next_player_id' = 0
      BY <2>1 DEF end_gameplay
    <3>. QED
      BY <3>1, GameParams, EmptyMap DEF IdsConsistent
  <2>2. CASE UNCHANGED lobby /\ DOMAIN scores' = DOMAIN scores
    BY <1>1, <2>2
  <2>. QED
    BY <1>3, <2>1, <2>2 DEF SummariseTurn
<1>4. ASSUME NEW i \in Slot,
             \/ JoinRefused(i) \/ ActionRefused(i) \/ ActionThrows(i)
             \/ PlaceBomb(i) \/ PlaceBlock(i) \/ \E d \in DirectionByte : Move(i, d)
      PROVE  IdsConsistent'
  BY <1>1, <1>4 DEF JoinRefused, ActionRefused, ActionThrows, PlaceBomb, PlaceBlock, Move
<1>5. ASSUME NEW position \in {-1} \cup Slot, AcceptClient(position) PROVE IdsConsistent'
  BY <1>1, <1>5 DEF AcceptClient
<1>6. ASSUME NEW b \in DOMAIN bombs, TickBomb(b) PROVE IdsConsistent'
  BY <1>1, <1>6 DEF TickBomb
<1>7. ASSUME NEW p \in Board, SeedBlock(p) PROVE IdsConsistent'
  BY <1>1, <1>7 DEF SeedBlock
<1>8. CASE BeginTurn \/ EraseBombs \/ EraseBlock
  BY <1>1, <1>8 DEF BeginTurn, EraseBombs, EraseBlock
<1>9. CASE TurnBegun \/ PollInLobby \/ NoConnection \/ EndRound \/ UNCHANGED vars
  BY <1>1, <1>9 DEF TurnBegun, PollInLobby, NoConnection, EndRound, vars
<1>. QED
  BY <1>2, <1>3, <1>4, <1>5, <1>6, <1>7, <1>8, <1>9 DEF Next, ServerStep, ClientStep, HandleMsg

\* Ids are dense, belong to one descriptor each, and the gameplay starts with
\* the last expected player and not before.
THEOREM IdsAreConsistent == Spec => []IdsConsistent
BY IdsInit, IdsStep, TypeCorrect, PTL DEF Spec

-----------------------------------------------------------------------------
(* The tables of a gameplay agree.                                         *)

Tables == InGameTablesAgree /\ PhaseAgrees

\* The constructor: an empty lobby.
LEMMA TablesInit == Init => Tables
BY DEF Init, Tables, InGameTablesAgree, PhaseAgrees

\* Steps that change none of the tables, and leave the loop in a phase that
\* fits the gameplay.
LEMMA TablesUnchanged ==
    ASSUME Tables, UNCHANGED game, PhaseAgrees' PROVE Tables'
BY DEF Tables, InGameTablesAgree, game, lobby, world, marks, log

\* add_event keeps the number and the numbering of the turns.
LEMMA TablesAddEvents ==
    ASSUME TypeOK, TypeOK', Tables, gameplay_started, NEW n \in Nat, NEW ev,
           turns' = add_events_at(n, ev),
           UNCHANGED <<gameplay_started, players, current_turn>>,
           DOMAIN players_positions' = DOMAIN players_positions,
           current_players_to_destroy' \subseteq DOMAIN players
    PROVE  InGameTablesAgree'
<1>1. /\ turns \in Seq(TurnInfo) /\ turns' \in Seq(TurnInfo)
      /\ \A k \in DOMAIN turns : turns[k] \in TurnInfo
  BY ElementOfSeq, LenProperties DEF TypeOK
<1>2. DOMAIN turns' = DOMAIN turns /\ \A k \in DOMAIN turns : turns'[k].turn = turns[k].turn
  BY <1>1 DEF add_events_at, TurnInfo
<1>3. Len(turns') = Len(turns)
  BY <1>1, <1>2, LenProperties
<1>. QED
  BY <1>2, <1>3 DEF Tables, InGameTablesAgree

\* Every step keeps them in agreement.
LEMMA TablesStep == TypeOK /\ TypeOK' /\ Tables /\ [Next]_vars => Tables'
<1>. SUFFICES ASSUME TypeOK, TypeOK', Tables, [Next]_vars PROVE Tables'
  OBVIOUS
<1>. USE DEF lobby, world, marks, log, game
<1>0. /\ current_turn \in Nat /\ game_length \in Nat /\ U16 \in Nat /\ game_length < U16
      /\ turns \in Seq(TurnInfo)
  BY GameParams DEF TypeOK
<1>1. CASE BeginTurn
  <2>1. /\ gameplay_started /\ current_turn < game_length /\ Len(turns) = current_turn + 1
        /\ \A k \in DOMAIN turns : turns[k].turn = k - 1
    BY <1>1 DEF BeginTurn, Tables, PhaseAgrees, InGameTablesAgree
  <2>2. current_turn' = current_turn + 1
    <3>1. current_turn + 1 \in Nat /\ current_turn + 1 < U16
      BY <1>0, <2>1
    <3>2. (current_turn + 1) % U16 = current_turn + 1
      BY <1>0, <3>1, ModSmall
    <3>. QED
      BY <1>1, <3>2 DEF BeginTurn
  <2>3. turns' = Append(turns, Turn_info(current_turn'))
    BY <1>1 DEF BeginTurn
  <2>4. Turn_info(current_turn') \in TurnInfo /\ Turn_info(current_turn').turn = current_turn'
    BY <2>2 DEF TypeOK, Turn_info, TurnInfo
  <2>5. /\ Len(turns') = Len(turns) + 1
        /\ \A k \in 1 .. Len(turns) : turns'[k] = turns[k]
        /\ turns'[Len(turns) + 1] = Turn_info(current_turn')
    BY <1>0, <2>3, <2>4, AppendProperties
  <2>6. DOMAIN turns = 1 .. Len(turns) /\ DOMAIN turns' = 1 .. Len(turns')
    BY LenProperties DEF TypeOK
  <2>7. \A k \in DOMAIN turns' : turns'[k].turn = k - 1
    BY <1>0, <2>1, <2>2, <2>4, <2>5, <2>6
  <2>8. Len(turns') = current_turn' + 1 /\ current_turn' <= game_length
    BY <1>0, <2>1, <2>2, <2>5
  <2>9. /\ gameplay_started' /\ DOMAIN players_positions' = DOMAIN players'
        /\ current_players_to_destroy' \subseteq DOMAIN players' /\ phase' = "bombs"
    BY <1>1, <2>1 DEF BeginTurn, Tables, InGameTablesAgree
  <2>. QED
    BY <2>7, <2>8, <2>9 DEF Tables, InGameTablesAgree, PhaseAgrees
<1>2. ASSUME NEW b \in DOMAIN bombs, TickBomb(b) PROVE Tables'
  <2>1. gameplay_started /\ b \in Nat
    BY <1>2 DEF TickBomb, Tables, PhaseAgrees, TypeOK, Map
  <2>2. PhaseAgrees'
    BY <1>2 DEF TickBomb, Tables, PhaseAgrees
  <2>3. CASE UNCHANGED <<marks, turns>>
    BY <1>2, <2>1, <2>2, <2>3 DEF TickBomb, Tables, InGameTablesAgree
  <2>4. CASE handle_explosion(b, bombs[b].position)
    <3>1. PICK robots \in SUBSET DOMAIN players_positions, blocks \in Seq(Board) :
            /\ current_players_to_destroy' = current_players_to_destroy \cup robots
            /\ current_blocks_to_erase' = current_blocks_to_erase \o blocks
            /\ <<Bomb_exploded(b, robots, blocks)>> \in Seq(Event)
            /\ turns' = add_events(<<Bomb_exploded(b, robots, blocks)>>)
      BY <2>1, <2>4, ExplosionOutcome
    <3>2. turns' = add_events_at(current_turn, <<Bomb_exploded(b, robots, blocks)>>)
      BY <3>1 DEF add_events
    <3>3. current_players_to_destroy' \subseteq DOMAIN players
      BY <2>1, <3>1 DEF Tables, InGameTablesAgree
    <3>4. UNCHANGED <<gameplay_started, players, current_turn, players_positions>>
      BY <1>2 DEF TickBomb
    <3>5. InGameTablesAgree'
      BY <1>0, <2>1, <3>1, <3>2, <3>3, <3>4, TablesAddEvents
    <3>. QED
      BY <2>2, <3>5 DEF Tables
  <2>. QED
    BY <1>2, <2>3, <2>4 DEF TickBomb
<1>3. CASE EraseBombs \/ EraseBlock
  <2>1. gameplay_started /\ PhaseAgrees'
    BY <1>3 DEF EraseBombs, EraseBlock, Tables, PhaseAgrees
  <2>. QED
    BY <1>3, <2>1 DEF EraseBombs, EraseBlock, Tables, InGameTablesAgree
<1>4. CASE TurnBegun \/ PollInLobby \/ NoConnection \/ EndRound
  <2>1. UNCHANGED game /\ PhaseAgrees'
    BY <1>4 DEF TurnBegun, PollInLobby, NoConnection, EndRound, Tables, PhaseAgrees
  <2>. QED
    BY <2>1, TablesUnchanged
<1>5. ASSUME NEW p \in Board, SeedBlock(p) PROVE Tables'
  <2>1. gameplay_started /\ PhaseAgrees'
    BY <1>5 DEF SeedBlock, Tables, PhaseAgrees
  <2>3. /\ turns' = add_events_at(0, <<Block_placed(p)>>)
        /\ UNCHANGED <<gameplay_started, players, current_turn, players_positions, marks>>
    BY <1>5 DEF SeedBlock
  <2>4. current_players_to_destroy' \subseteq DOMAIN players
    BY <2>1, <2>3 DEF Tables, InGameTablesAgree
  <2>5. InGameTablesAgree'
    BY <2>1, <2>3, <2>4, TablesAddEvents
  <2>. QED
    BY <2>1, <2>5 DEF Tables
<1>6. CASE SummariseTurn
  <2>1. /\ gameplay_started /\ phase' = "loop" /\ clear_marks
    BY <1>6 DEF SummariseTurn
  <2>2. CASE end_gameplay
    BY <2>1, <2>2 DEF end_gameplay, clear_marks, Tables, InGameTablesAgree, PhaseAgrees
  <2>3. CASE ~end_gameplay
    <3>1. PICK field \in [current_players_to_destroy -> Board],
               ids \in Ascending(current_players_to_destroy) :
            /\ turns' = add_events(SeedEvents(ids, field))
            /\ players_positions' = assign_all(players_positions, field)
            /\ UNCHANGED <<lobby, current_turn>>
            /\ ~LastTurn
      BY <1>6, <2>3 DEF SummariseTurn
    <3>3. turns' = add_events_at(current_turn, SeedEvents(ids, field))
      BY <3>1 DEF add_events
    <3>4. DOMAIN players_positions' = DOMAIN players_positions
      BY <2>1, <3>1 DEF assign_all, Tables, InGameTablesAgree
    <3>5. current_players_to_destroy' \subseteq DOMAIN players
      BY <2>1 DEF clear_marks
    <3>6. InGameTablesAgree'
      BY <1>0, <2>1, <3>1, <3>3, <3>4, <3>5, TablesAddEvents
    <3>7. PhaseAgrees'
      BY <1>0, <2>1, <3>1 DEF LastTurn, Tables, InGameTablesAgree, PhaseAgrees
    <3>. QED
      BY <3>6, <3>7 DEF Tables
  <2>. QED
    BY <2>2, <2>3
<1>7. ASSUME NEW position \in {-1} \cup Slot, AcceptClient(position) PROVE Tables'
  <2>1. UNCHANGED game /\ PhaseAgrees'
    BY <1>7 DEF AcceptClient, Tables, PhaseAgrees
  <2>. QED
    BY <2>1, TablesUnchanged
<1>8. ASSUME NEW i \in Slot, JoinRefused(i) \/ ActionRefused(i) \/ ActionThrows(i)
      PROVE  Tables'
  <2>1. UNCHANGED game /\ PhaseAgrees'
    BY <1>8 DEF JoinRefused, ActionRefused, ActionThrows, Tables, PhaseAgrees
  <2>. QED
    BY <2>1, TablesUnchanged
<1>9. ASSUME NEW i \in Slot, NEW player \in Player, Join(i, player) PROVE Tables'
  <2>. DEFINE ps == map_insert(players, next_player_id, player)
  <2>1. /\ ~gameplay_started /\ players' = ps /\ phase = "serve"
        /\ UNCHANGED <<blocks_positions, bombs, marks, current_turn>>
        /\ \/ start_gameplay(ps)
           \/ UNCHANGED <<gameplay_started, turns, players_positions, phase>>
    BY <1>9 DEF Join, Serving
  <2>. HIDE DEF ps
  <2>2. /\ turns = <<>> /\ bombs = <<>> /\ blocks_positions = <<>> /\ players_positions = <<>>
        /\ current_turn = 0 /\ current_players_to_destroy = {}
        /\ current_blocks_to_erase = <<>>
    BY <2>1 DEF Tables, InGameTablesAgree
  <2>3. CASE start_gameplay(ps)
    <3>1. PICK field \in [DOMAIN ps -> Board], ids \in Ascending(DOMAIN ps) :
            /\ turns' = Append(turns, [Turn_info(0) EXCEPT !.events = SeedEvents(ids, field)])
            /\ players_positions' = assign_all(players_positions, field)
      BY <2>3 DEF start_gameplay
    <3>2. DOMAIN players_positions' = DOMAIN players'
      BY <2>1, <2>2, <3>1, EmptyMap DEF assign_all
    <3>3. turns' = <<[Turn_info(0) EXCEPT !.events = SeedEvents(ids, field)]>>
      BY <2>2, <3>1
    <3>4. /\ Len(turns') = 1 /\ DOMAIN turns' = 1 .. 1 /\ turns'[1].turn = 0
      BY <3>3 DEF Turn_info
    <3>5. gameplay_started' /\ phase' \in {"serve", "seed"}
      BY <2>3 DEF start_gameplay
    <3>6. current_turn' = 0 /\ current_players_to_destroy' = {}
      BY <2>1, <2>2
    <3>. QED
      BY <1>0, <3>2, <3>4, <3>5, <3>6 DEF Tables, InGameTablesAgree, PhaseAgrees
  <2>4. CASE UNCHANGED <<gameplay_started, turns, players_positions, phase>>
    BY <2>1, <2>2, <2>4 DEF Tables, InGameTablesAgree, PhaseAgrees
  <2>. QED
    BY <2>1, <2>3, <2>4
<1>10. ASSUME NEW i \in Slot, Acts(i) PROVE gameplay_started
  BY <1>10, EmptyMap DEF Acts, Tables, InGameTablesAgree
<1>11. ASSUME NEW i \in Slot, PlaceBomb(i) \/ PlaceBlock(i) \/ \E d \in DirectionByte : Move(i, d)
       PROVE  Tables'
  <2>1. /\ Acts(i) /\ gameplay_started
        /\ UNCHANGED <<gameplay_started, players, current_turn, phase, marks>>
    BY <1>10, <1>11 DEF PlaceBomb, PlaceBlock, Move
  <2>2. PhaseAgrees'
    BY <2>1 DEF Tables, PhaseAgrees
  <2>3. player_ids[i] \in DOMAIN players_positions
    BY <2>1 DEF Acts
  <2>4. /\ DOMAIN players_positions' = DOMAIN players_positions
        /\ \/ UNCHANGED turns
           \/ \E ev : turns' = add_events_at(current_turn, ev)
    <3>1. CASE PlaceBomb(i)
      BY <3>1 DEF PlaceBomb, add_events
    <3>2. CASE PlaceBlock(i)
      BY <3>2 DEF PlaceBlock, add_events
    <3>3. CASE \E d \in DirectionByte : Move(i, d)
      <4>1. \/ UNCHANGED <<players_positions, turns>>
            \/ \E new : /\ turns' = add_events(<<Player_moved(player_ids[i], new)>>)
                        /\ players_positions' =
                              insert_or_assign(players_positions, player_ids[i], new)
        BY <3>3 DEF Move
      <4>. QED
        BY <2>3, <4>1 DEF add_events, insert_or_assign
    <3>. QED
      BY <1>11, <3>1, <3>2, <3>3
  <2>5. current_players_to_destroy' \subseteq DOMAIN players
    BY <2>1 DEF Tables, InGameTablesAgree
  <2>6. CASE UNCHANGED turns
    BY <2>1, <2>2, <2>4, <2>6 DEF Tables, InGameTablesAgree
  <2>7. CASE \E ev : turns' = add_events_at(current_turn, ev)
    <3>1. InGameTablesAgree'
      BY <1>0, <2>1, <2>4, <2>5, <2>7, TablesAddEvents
    <3>. QED
      BY <2>2, <3>1 DEF Tables
  <2>. QED
    BY <2>4, <2>6, <2>7
<1>12. CASE UNCHANGED vars
  <2>1. UNCHANGED game /\ PhaseAgrees'
    BY <1>12 DEF vars, Tables, PhaseAgrees
  <2>. QED
    BY <2>1, TablesUnchanged
<1>. QED
  BY <1>1, <1>2, <1>3, <1>4, <1>5, <1>6, <1>7, <1>8, <1>9, <1>11, <1>12
  DEF Next, ServerStep, ClientStep, HandleMsg

\* Whenever a gameplay runs, every id the loop and the handlers look up with
\* at() has its robot and its turn; outside one, nothing is left of the last.
THEOREM TablesAgree == Spec => []InGameTablesAgree
<1>1. Spec => []Tables
  BY TablesInit, TablesStep, TypeCorrect, PTL DEF Spec
<1>. QED
  BY <1>1, PTL DEF Tables

\* An abort needs a player without a robot, and in a gameplay there is none.
LEMMA NoAbortStep ==
    TypeOK /\ IdsConsistent /\ InGameTablesAgree /\ PhaseAgrees /\ NoAbortInGame /\ [Next]_vars
        => NoAbortInGame'
<1>. SUFFICES ASSUME IdsConsistent, InGameTablesAgree, NoAbortInGame, PhaseAgrees, [Next]_vars,
                     phase' = "aborted", gameplay_started'
              PROVE  FALSE
  BY DEF NoAbortInGame
<1>. USE DEF lobby, world, marks, log, game
<1>1. ASSUME NEW i \in Slot, ActionThrows(i) PROVE FALSE
  <2>1. /\ gameplay_started /\ i \in DOMAIN player_ids
        /\ player_ids[i] \notin DOMAIN players_positions
    BY <1>1 DEF ActionThrows, MayAct
  <2>. QED
    BY <2>1 DEF IdsConsistent, InGameTablesAgree
<1>2. ASSUME NEW i \in Slot, JoinRefused(i) \/ ActionRefused(i) \/ PlaceBomb(i)
                              \/ PlaceBlock(i) \/ \E d \in DirectionByte : Move(i, d)
      PROVE  FALSE
  BY <1>2 DEF JoinRefused, ActionRefused, PlaceBomb, PlaceBlock, Move, Acts, Serving
<1>3. ASSUME NEW i \in Slot, NEW player \in Player, Join(i, player) PROVE FALSE
  BY <1>3 DEF Join, start_gameplay, Serving
<1>4. ASSUME NEW position \in {-1} \cup Slot, AcceptClient(position) PROVE FALSE
  BY <1>4 DEF AcceptClient
<1>5. ASSUME NEW b \in DOMAIN bombs, TickBomb(b) PROVE FALSE
  BY <1>5 DEF TickBomb
<1>6. ASSUME NEW p \in Board, SeedBlock(p) PROVE FALSE
  BY <1>6 DEF SeedBlock
<1>7. CASE BeginTurn \/ EraseBombs \/ EraseBlock \/ TurnBegun
  BY <1>7 DEF BeginTurn, EraseBombs, EraseBlock, TurnBegun
<1>8. CASE PollInLobby \/ NoConnection \/ EndRound \/ SummariseTurn
  BY <1>8 DEF PollInLobby, NoConnection, EndRound, SummariseTurn
<1>9. CASE UNCHANGED vars
  BY <1>9 DEF vars, NoAbortInGame
<1>. QED
  BY <1>1, <1>2, <1>3, <1>4, <1>5, <1>6, <1>7, <1>8, <1>9 DEF Next, ServerStep, ClientStep, HandleMsg

\* The conjunction the runs check is an invariant.
THEOREM EngineInvariant == Spec => []EngineInv
<1>1. Spec => []Tables
  BY TablesInit, TablesStep, TypeCorrect, PTL DEF Spec
<1>2. Init => NoAbortInGame
  BY DEF Init, NoAbortInGame
<1>3. Tables => InGameTablesAgree /\ PhaseAgrees
  BY DEF Tables
<1>4. Spec => []NoAbortInGame
  BY <1>1, <1>2, <1>3, NoAbortStep, TypeCorrect, IdsAreConsistent, PTL DEF Spec
<1>. QED
  BY <1>1, <1>3, <1>4, TypeCorrect, StaysOnBoard, IdsAreConsistent, PTL DEF EngineInv

\* The out_of_range exception of the action handlers ends the server in the
\* lobby at worst: never while a gameplay runs.
THEOREM GameplayNeverAborts == Spec => []NoAbortInGame
<1>1. EngineInv => NoAbortInGame
  BY DEF EngineInv
<1>. QED
  BY <1>1, EngineInvariant, PTL

-----------------------------------------------------------------------------
(* The log of turns.                                                       *)

\* A step during a gameplay leaves the log alone, opens the next turn, or
\* adds events to the open one.
LEMMA LogStep ==
    ASSUME EngineInv, [Next]_vars, gameplay_started, gameplay_started'
    PROVE  \/ UNCHANGED turns
           \/ turns' = Append(turns, Turn_info(current_turn'))
           \/ \E ev \in Seq(Event) : turns' = add_events(ev)
<1>. USE DEF lobby, world, marks, log, game
<1>0. TypeOK
  BY DEF EngineInv
<1>. DEFINE Goal == \/ UNCHANGED turns
                    \/ turns' = Append(turns, Turn_info(current_turn'))
                    \/ \E ev \in Seq(Event) : turns' = add_events(ev)
<1>1. CASE BeginTurn
  BY <1>1 DEF BeginTurn
<1>2. ASSUME NEW b \in DOMAIN bombs, TickBomb(b) PROVE Goal
  <2>1. CASE UNCHANGED <<marks, turns>>
    BY <2>1
  <2>2. CASE handle_explosion(b, bombs[b].position)
    <3>1. b \in Nat
      BY <1>0 DEF TypeOK, Map
    <3>. QED
      BY <1>0, <2>2, <3>1, ExplosionOutcome
  <2>. QED
    BY <1>2, <2>1, <2>2 DEF TickBomb
<1>3. ASSUME NEW p \in Board, SeedBlock(p) PROVE Goal
  <2>1. current_turn = 0 /\ turns' = add_events_at(0, <<Block_placed(p)>>)
    BY <1>3 DEF SeedBlock, EngineInv, PhaseAgrees
  <2>2. <<Block_placed(p)>> \in Seq(Event)
    BY BoardPosition DEF Block_placed, Event
  <2>. QED
    BY <2>1, <2>2 DEF add_events
<1>4. CASE SummariseTurn
  <2>1. PICK field \in [current_players_to_destroy -> Board],
             ids \in Ascending(current_players_to_destroy) :
          end_gameplay \/ turns' = add_events(SeedEvents(ids, field))
    BY <1>4 DEF SummariseTurn
  <2>2. ~end_gameplay
    BY DEF end_gameplay
  <2>3. SeedEvents(ids, field) \in Seq(Event)
    BY <1>0, SeedEventsType DEF TypeOK
  <2>. QED
    BY <2>1, <2>2, <2>3
<1>5. ASSUME NEW i \in Slot, Acts(i)
      PROVE  player_ids[i] \in PlayerId /\ players_positions[player_ids[i]] \in Position
  <2>1. i \in DOMAIN player_ids /\ player_ids[i] \in DOMAIN players_positions
    BY <1>5 DEF Acts, MayAct
  <2>2. /\ player_ids \in [DOMAIN player_ids -> PlayerId]
        /\ players_positions \in [DOMAIN players_positions -> Position]
    BY <1>0 DEF TypeOK, Map
  <2>. QED
    BY <2>1, <2>2
<1>6. ASSUME NEW i \in Slot, PlaceBomb(i) PROVE Goal
  <2>. DEFINE ev == <<Bomb_placed(next_bomb_id, players_positions[player_ids[i]])>>
  <2>1. ev \in Seq(Event)
    BY <1>0, <1>5, <1>6 DEF PlaceBomb, Bomb_placed, Event, TypeOK
  <2>2. turns' = add_events(ev)
    BY <1>6 DEF PlaceBomb
  <2>. HIDE DEF ev
  <2>. QED
    BY <2>1, <2>2
<1>7. ASSUME NEW i \in Slot, PlaceBlock(i) PROVE Goal
  <2>. DEFINE ev == <<Block_placed(players_positions[player_ids[i]])>>
  <2>1. ev \in Seq(Event)
    BY <1>5, <1>7 DEF PlaceBlock, Block_placed, Event
  <2>2. turns' = add_events(ev)
    BY <1>7 DEF PlaceBlock
  <2>. HIDE DEF ev
  <2>. QED
    BY <2>1, <2>2
<1>8. ASSUME NEW i \in Slot, NEW d, Move(i, d) PROVE Goal
  <2>1. PICK new \in NewPositions(players_positions[player_ids[i]], d) :
          UNCHANGED turns \/ turns' = add_events(<<Player_moved(player_ids[i], new)>>)
    BY <1>8 DEF Move
  <2>2. new \in Position
    BY <1>5, <1>8, <2>1, ShiftPosition DEF Move, NewPositions
  <2>3. <<Player_moved(player_ids[i], new)>> \in Seq(Event)
    BY <1>5, <1>8, <2>2 DEF Move, Player_moved, Event
  <2>. QED
    BY <2>1, <2>3
<1>9. ASSUME NEW i \in Slot, NEW player, Join(i, player) PROVE FALSE
  BY <1>9 DEF Join
<1>10. ASSUME NEW i \in Slot, JoinRefused(i) \/ ActionRefused(i) \/ ActionThrows(i)
       PROVE  UNCHANGED turns
  BY <1>10 DEF JoinRefused, ActionRefused, ActionThrows
<1>11. ASSUME NEW position, AcceptClient(position) PROVE UNCHANGED turns
  BY <1>11 DEF AcceptClient
<1>12. CASE EraseBombs \/ EraseBlock \/ TurnBegun \/ PollInLobby
  BY <1>12 DEF EraseBombs, EraseBlock, TurnBegun, PollInLobby
<1>13. CASE NoConnection \/ EndRound \/ UNCHANGED vars
  BY <1>13 DEF NoConnection, EndRound, vars
<1>. QED
  BY <1>1, <1>2, <1>3, <1>4, <1>6, <1>7, <1>8, <1>9, <1>10, <1>11, <1>12, <1>13
  DEF Next, ServerStep, ClientStep, HandleMsg

\* Each of the three keeps what is already in the log.
LEMMA HistoryStep == EngineInv /\ EngineInv' /\ [Next]_vars => [HistoryKept]_vars
<1>. SUFFICES ASSUME EngineInv, EngineInv', [Next]_vars, gameplay_started, gameplay_started'
              PROVE  HistoryKept
  BY DEF HistoryKept
<1>1. /\ TypeOK /\ turns \in Seq(TurnInfo) /\ DOMAIN turns = 1 .. Len(turns)
      /\ Len(turns) = current_turn + 1 /\ Len(turns) \in Nat
  BY LenProperties DEF EngineInv, TypeOK, InGameTablesAgree
<1>2. \A k \in 1 .. Len(turns) : /\ turns[k].events \in Seq(Event)
                                /\ DOMAIN turns[k].events = 1 .. Len(turns[k].events)
                                /\ Len(turns[k].events) \in Nat
  <2>0. \A k \in 1 .. Len(turns) : turns[k] \in TurnInfo
    BY <1>1, ElementOfSeq
  <2>1. \A k \in 1 .. Len(turns) : turns[k].events \in Seq(Event)
    BY <2>0 DEF TurnInfo
  <2>. QED
    BY <2>1, LenProperties
<1>3. CASE UNCHANGED turns
  BY <1>1, <1>2, <1>3 DEF HistoryKept
<1>4. CASE turns' = Append(turns, Turn_info(current_turn'))
  <2>1. Turn_info(current_turn') \in TurnInfo
    BY DEF EngineInv, TypeOK, Turn_info, TurnInfo
  <2>2. Len(turns') = Len(turns) + 1 /\ \A k \in 1 .. Len(turns) : turns'[k] = turns[k]
    BY <1>1, <1>4, <2>1, AppendProperties
  <2>. QED
    BY <1>1, <1>2, <2>2 DEF HistoryKept
<1>5. ASSUME NEW ev \in Seq(Event), turns' = add_events(ev) PROVE HistoryKept
  <2>1. /\ Len(turns') = Len(turns)
        /\ \A k \in 1 .. Len(turns) :
             /\ turns'[k].turn = turns[k].turn
             /\ k # current_turn + 1 => turns'[k] = turns[k]
             /\ k = current_turn + 1 => turns'[k].events = turns[k].events \o ev
    BY <1>1, <1>5, AddEvents
  <2>2. ASSUME NEW k \in 1 .. Len(turns)
        PROVE  /\ Len(turns[k].events) <= Len(turns'[k].events)
               /\ \A n \in 1 .. Len(turns[k].events) : turns'[k].events[n] = turns[k].events[n]
    <3>1. CASE k # current_turn + 1
      BY <1>2, <2>1, <3>1
    <3>2. CASE k = current_turn + 1
      <4>1. /\ Len(turns[k].events \o ev) = Len(turns[k].events) + Len(ev)
            /\ \A n \in 1 .. Len(turns[k].events) :
                 (turns[k].events \o ev)[n] = turns[k].events[n]
        BY <1>2, ConcatProperties, LenProperties
      <4>2. Len(ev) \in Nat /\ turns'[k].events = turns[k].events \o ev
        BY <2>1, <3>2, LenProperties
      <4>. QED
        BY <1>2, <4>1, <4>2
    <3>. QED
      BY <3>1, <3>2
  <2>3. \A k \in 1 .. Len(turns) : turns'[k] # turns[k] => k = Len(turns')
    BY <1>1, <2>1
  <2>4. Len(turns) <= Len(turns')
    BY <1>1, <2>1
  <2>5. \A k \in 1 .. Len(turns) : turns'[k].turn = turns[k].turn
    BY <2>1
  <2>6. \A k \in DOMAIN turns :
          /\ turns'[k].turn = turns[k].turn
          /\ Len(turns[k].events) <= Len(turns'[k].events)
          /\ \A n \in DOMAIN turns[k].events : turns'[k].events[n] = turns[k].events[n]
          /\ turns'[k] # turns[k] => k = Len(turns')
    BY <1>1, <1>2, <2>2, <2>3, <2>5
  <2>. QED
    BY <2>4, <2>6 DEF HistoryKept
<1>. QED
  BY <1>3, <1>4, <1>5, LogStep

\* What was sent to some clients as a turn is what later ones are sent.
THEOREM HistoryNeverChanges == Spec => HistoryFrozen
BY HistoryStep, EngineInvariant, PTL DEF Spec, HistoryFrozen
=============================================================================
