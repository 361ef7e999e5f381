------------------------------ MODULE LogProofs ------------------------------
(***************************************************************************)
(* Theorems about what the log of turns, which is what clients are told,   *)
(* says about the state of the engine: scores, positions, the actions of a *)
(* turn and the fuses of bombs.                                            *)
(***************************************************************************)
EXTENDS GameEngineProofs

-----------------------------------------------------------------------------
(* Growing logs.                                                           *)

\* us is the log ts with the events ev added to its last turn.
Grown(ts, us, ev) ==
    /\ ts \in Seq(TurnInfo) /\ us \in Seq(TurnInfo) /\ ev \in Seq(Event)
    /\ Len(ts) > 0 /\ Len(us) = Len(ts)
    /\ \A k \in 1 .. Len(ts) : k # Len(ts) => us[k] = ts[k]
    /\ us[Len(ts)].events = ts[Len(ts)].events \o ev

\* The events of a turn are a sequence of events.
LEMMA EventsType ==
    ASSUME NEW ts \in Seq(TurnInfo), NEW k \in 1 .. Len(ts)
    PROVE  /\ ts[k].events \in Seq(Event)
           /\ Len(ts[k].events) \in Nat
           /\ DOMAIN ts[k].events = 1 .. Len(ts[k].events)
<1>1. ts[k] \in TurnInfo
  BY ElementOfSeq
<1>2. ts[k].events \in Seq(Event)
  BY <1>1 DEF TurnInfo
<1>. QED
  BY <1>2, LenProperties

\* add_event during a gameplay makes the log grow at its end.
LEMMA AddEventsGrow ==
    ASSUME EngineInv, gameplay_started, NEW ev \in Seq(Event), turns' = add_events(ev)
    PROVE  Grown(turns, turns', ev) /\ Len(turns) = current_turn + 1 /\ current_turn \in Nat
<1>1. TypeOK /\ turns \in Seq(TurnInfo) /\ Len(turns) = current_turn + 1
  BY DEF EngineInv, TypeOK, InGameTablesAgree
<1>2. current_turn \in Nat
  BY <1>1, GameParams DEF TypeOK
<1>3. Len(turns) \in 1 .. Len(turns) /\ Len(turns) > 0
  BY <1>1, <1>2
<1>. QED
  BY <1>1, <1>2, <1>3, AddEvents DEF Grown

\* What is where in a grown log.
EventsGrown(ts, us, ev, k) ==
    /\ k # Len(ts) => us[k].events = ts[k].events
    /\ k = Len(ts) =>
        /\ Len(us[k].events) = Len(ts[k].events) + Len(ev)
        /\ \A n \in 1 .. Len(us[k].events) :
            us[k].events[n] = IF n <= Len(ts[k].events) THEN ts[k].events[n]
                              ELSE ev[n - Len(ts[k].events)]

LEMMA GrownThere ==
    ASSUME NEW ts, NEW us, NEW ev, Grown(ts, us, ev), NEW k \in 1 .. Len(ts)
    PROVE  EventsGrown(ts, us, ev, k)
<1>1. /\ ts[k].events \in Seq(Event) /\ Len(ts[k].events) \in Nat
      /\ ev \in Seq(Event) /\ Len(ev) \in Nat
  BY EventsType, LenProperties DEF Grown
<1>2. k # Len(ts) => us[k].events = ts[k].events
  BY DEF Grown
<1>3. k = Len(ts) =>
                /\ Len(us[k].events) = Len(ts[k].events) + Len(ev)
                /\ \A n \in 1 .. Len(us[k].events) :
                    us[k].events[n] = IF n <= Len(ts[k].events) THEN ts[k].events[n]
                                      ELSE ev[n - Len(ts[k].events)]
  <2>. SUFFICES ASSUME k = Len(ts)
                PROVE  /\ Len(us[k].events) = Len(ts[k].events) + Len(ev)
                       /\ \A n \in 1 .. Len(us[k].events) :
                            us[k].events[n] = IF n <= Len(ts[k].events) THEN ts[k].events[n]
                                              ELSE ev[n - Len(ts[k].events)]
    OBVIOUS
  <2>1. PICK s \in Seq(Event) : s = ts[k].events
    BY <1>1
  <2>2. us[k].events = s \o ev
    BY <2>1 DEF Grown
  <2>3. /\ Len(s \o ev) = Len(s) + Len(ev)
        /\ \A n \in 1 .. Len(s) + Len(ev) :
             (s \o ev)[n] = IF n <= Len(s) THEN s[n] ELSE ev[n - Len(s)]
    BY <1>1, ConcatProperties
  <2>. QED
    BY <2>1, <2>2, <2>3
<1>. QED
  BY <1>2, <1>3 DEF EventsGrown

LEMMA GrownEvents ==
    ASSUME NEW ts, NEW us, NEW ev, Grown(ts, us, ev), NEW k \in 1 .. Len(ts)
    PROVE  /\ k # Len(ts) => us[k].events = ts[k].events
           /\ k = Len(ts) =>
                /\ Len(us[k].events) = Len(ts[k].events) + Len(ev)
                /\ \A n \in 1 .. Len(us[k].events) :
                    us[k].events[n] = IF n <= Len(ts[k].events) THEN ts[k].events[n]
                                      ELSE ev[n - Len(ts[k].events)]
           /\ Len(ts[k].events) <= Len(us[k].events)
           /\ \A n \in 1 .. Len(ts[k].events) : us[k].events[n] = ts[k].events[n]
<1>1. Len(ts[k].events) \in Nat /\ Len(ev) \in Nat
  BY EventsType, LenProperties DEF Grown
<1>2. EventsGrown(ts, us, ev, k)
  BY GrownThere
<1>3. /\ Len(ts[k].events) <= Len(us[k].events)
      /\ \A n \in 1 .. Len(ts[k].events) : us[k].events[n] = ts[k].events[n]
  <2>1. CASE k # Len(ts)
    BY <1>1, <1>2, <2>1 DEF EventsGrown
  <2>2. CASE k = Len(ts)
    <3>1. PICK old, new : old = ts[k].events /\ new = us[k].events
      OBVIOUS
    <3>2. /\ Len(new) = Len(old) + Len(ev)
          /\ \A n \in 1 .. Len(new) : new[n] = IF n <= Len(old) THEN old[n] ELSE ev[n - Len(old)]
      BY <1>2, <2>2, <3>1 DEF EventsGrown
    <3>3. Len(old) \in Nat /\ Len(ev) \in Nat
      BY <1>1, <3>1
    <3>4. Len(old) <= Len(new) /\ \A n \in 1 .. Len(old) : new[n] = old[n]
      BY <3>2, <3>3
    <3>. QED
      BY <3>1, <3>4
  <2>. QED
    BY <2>1, <2>2
<1>. QED
  BY <1>2, <1>3 DEF EventsGrown

\* A turn that is opened has no events.
LEMMA OpenedLog ==
    ASSUME NEW ts \in Seq(TurnInfo), NEW t \in 0 .. U16 - 1, NEW us,
           us = Append(ts, Turn_info(t))
    PROVE  /\ us \in Seq(TurnInfo) /\ Len(us) = Len(ts) + 1
           /\ \A k \in 1 .. Len(ts) : us[k] = ts[k]
           /\ us[Len(ts) + 1].events = <<>> /\ us[Len(ts) + 1].turn = t
<1>1. Turn_info(t) \in TurnInfo /\ Turn_info(t).events = <<>> /\ Turn_info(t).turn = t
  BY DEF Turn_info, TurnInfo
<1>. QED
  BY <1>1, AppendProperties
-----------------------------------------------------------------------------
(* The kinds of steps, by what they do to the log.                         *)

\* During a gameplay that goes on, ev is added to the open turn.
Adds(ev) ==
    /\ gameplay_started /\ gameplay_started' /\ Grown(turns, turns', ev)
    /\ UNCHANGED <<lobby, current_turn>>

\* An iteration of the loop over the bombs.
Ticks(b) ==
    /\ phase = "bombs" /\ phase' = "bombs" /\ AtBomb(b) /\ index' = b + 1
    /\ bombs' = [bombs EXCEPT ![b].timer = (bombs[b].timer - 1) % U16]

\* What a step that leaves the log alone may do to the bombs.
QuietBombs ==
    \/ phase # "bombs" /\ phase' # "bombs" /\ UNCHANGED bombs
    \/ \E b \in DOMAIN bombs : Ticks(b) /\ (bombs[b].timer - 1) % U16 # 0
    \/ EraseBombs
    \/ UNCHANGED vars

\* Nothing is recorded, and the round goes forward.
Quiet ==
    /\ UNCHANGED <<lobby, scores, players_positions, turns, current_turn,
                   current_players_to_destroy, next_bomb_id>>
    /\ gameplay_started =>
            /\ phase' = "loop" <=> phase = "loop"
            /\ phase = "serve" => phase' = "serve" /\ cursor <= cursor'
    /\ QuietBombs

Opens ==
    /\ gameplay_started /\ phase = "loop" /\ phase' = "bombs" /\ index' = 0
    /\ turns' = Append(turns, Turn_info(current_turn'))
    /\ current_turn' = current_turn + 1
    /\ UNCHANGED <<lobby, scores, world, marks>>

Explodes(b, robots, blocks) ==
    /\ Adds(<<Bomb_exploded(b, robots, blocks)>>)
    /\ robots \subseteq DOMAIN players
    /\ b \in DOMAIN bombs /\ Ticks(b) /\ (bombs[b].timer - 1) % U16 = 0
    /\ current_players_to_destroy' = current_players_to_destroy \cup robots
    /\ UNCHANGED <<scores, players_positions, next_bomb_id>>

\* The event of the client at i is a bomb, a block or a move of its own robot.
ActsWith(i, e) ==
    /\ Adds(<<e>>) /\ e \in Event
    /\ phase = "serve" /\ phase' = "serve"
    /\ i \in Slot /\ MayAct(i) /\ cursor <= i /\ cursor' = i + 1
    /\ UNCHANGED <<scores, current_players_to_destroy>>
    /\ \/ \E position \in Position :
            /\ e = Bomb_placed(next_bomb_id, position)
            /\ bombs' = map_insert(bombs, next_bomb_id,
                                   [position |-> position, timer |-> bomb_timer])
            /\ next_bomb_id' = next_bomb_id + 1 /\ UNCHANGED players_positions
       \/ /\ e.code = "Block_placed"
          /\ UNCHANGED <<players_positions, bombs, next_bomb_id>>
       \/ \E new \in Position :
            /\ e = Player_moved(player_ids[i], new)
            /\ players_positions' = insert_or_assign(players_positions, player_ids[i], new)
            /\ UNCHANGED <<bombs, next_bomb_id>>

Seeds(e) ==
    /\ Adds(<<e>>) /\ e \in Event /\ e.code = "Block_placed"
    /\ current_turn = 0 /\ phase = "seed" /\ phase' \in {"seed", "serve"}
    /\ UNCHANGED <<scores, players_positions, current_players_to_destroy, bombs, next_bomb_id>>

Joins ==
    /\ ~gameplay_started /\ scores' = map_insert(scores, next_player_id, 0)
    /\ UNCHANGED <<gameplay_started, turns, players_positions, bombs>>

\* Nothing has happened before turn 0 but the seeding of the robots.
Starts(ids, field) ==
    /\ ~gameplay_started /\ gameplay_started' /\ phase' \in {"seed", "serve"}
    /\ scores' = map_insert(scores, next_player_id, 0)
    /\ field \in [DOMAIN players' -> Board] /\ ids \in Ascending(DOMAIN players')
    /\ DOMAIN players' = DOMAIN scores'
    /\ Len(turns') = 1 /\ turns'[1].events = SeedEvents(ids, field)
    /\ current_turn' = 0 /\ current_players_to_destroy' = {}
    /\ DOMAIN players_positions' = DOMAIN players'
    /\ \A p \in DOMAIN players' : players_positions'[p] = field[p]
    /\ bombs = <<>> /\ bombs' = <<>>

Summarises(ids, field) ==
    /\ Adds(SeedEvents(ids, field)) /\ phase = "serve" /\ phase' = "loop"
    /\ field \in [current_players_to_destroy -> Board]
    /\ ids \in Ascending(current_players_to_destroy)
    /\ scores' = [p \in DOMAIN scores |->
                    IF p \in current_players_to_destroy THEN scores[p] + 1 ELSE scores[p]]
    /\ players_positions' = assign_all(players_positions, field)
    /\ current_players_to_destroy' = {}
    /\ UNCHANGED <<bombs, next_bomb_id>>

Ends ==
    /\ gameplay_started /\ ~gameplay_started'
    /\ turns' = <<>> /\ scores' = <<>> /\ players_positions' = <<>> /\ bombs' = <<>>

Kinds ==
    \/ Quiet \/ Opens \/ Joins \/ Ends
    \/ \E b, robots, blocks : Explodes(b, robots, blocks)
    \/ \E i, e : ActsWith(i, e)
    \/ \E e : Seeds(e)
    \/ \E ids, field : Starts(ids, field) \/ Summarises(ids, field)

\* begin_turn does not reach the last uint16_t.
LEMMA OpensKind == ASSUME EngineInv, BeginTurn PROVE Opens
<1>1. /\ gameplay_started /\ phase = "loop" /\ current_turn < game_length
      /\ current_turn' = (current_turn + 1) % U16
  BY DEF EngineInv, PhaseAgrees, BeginTurn
<1>2. current_turn \in Nat /\ current_turn + 1 < U16 /\ U16 \in Nat
  BY <1>1, GameParams DEF EngineInv, TypeOK
<1>3. current_turn' = current_turn + 1
  BY <1>1, <1>2, ModSmall
<1>. QED
  BY <1>1, <1>3 DEF BeginTurn, Opens

\* handle_explosion records nothing for a bomb that goes on burning, and else
\* an explosion.
LEMMA TickKind ==
    ASSUME EngineInv, NEW b \in DOMAIN bombs, TickBomb(b)
    PROVE  Quiet \/ \E robots, blocks : Explodes(b, robots, blocks)
<1>. USE DEF lobby, marks
<1>1. /\ TypeOK /\ gameplay_started /\ b \in Nat
      /\ DOMAIN players_positions = DOMAIN players
  BY DEF EngineInv, PhaseAgrees, TickBomb, TypeOK, Map, InGameTablesAgree
<1>2. Ticks(b)
  BY DEF TickBomb, Ticks
<1>3. CASE (bombs[b].timer - 1) % U16 # 0
  <2>1. UNCHANGED <<lobby, scores, players_positions, turns, current_turn,
                    current_players_to_destroy, next_bomb_id>>
    BY <1>3 DEF TickBomb
  <2>2. QuietBombs
    BY <1>2, <1>3 DEF QuietBombs
  <2>. QED
    BY <2>1, <2>2, <1>2 DEF Quiet, Ticks
<1>4. CASE (bombs[b].timer - 1) % U16 = 0
  <2>1. handle_explosion(b, bombs[b].position)
    BY <1>4 DEF TickBomb
  <2>2. PICK robots \in SUBSET DOMAIN players_positions, blocks \in Seq(Board) :
          /\ current_players_to_destroy' = current_players_to_destroy \cup robots
          /\ <<Bomb_exploded(b, robots, blocks)>> \in Seq(Event)
          /\ turns' = add_events(<<Bomb_exploded(b, robots, blocks)>>)
    BY <1>1, <2>1, ExplosionOutcome
  <2>3. Grown(turns, turns', <<Bomb_exploded(b, robots, blocks)>>)
    BY <1>1, <2>2, AddEventsGrow
  <2>4. UNCHANGED <<lobby, scores, players_positions, next_bomb_id, current_turn>>
    BY DEF TickBomb
  <2>. QED
    BY <1>1, <1>2, <1>4, <2>2, <2>3, <2>4 DEF Explodes, Adds
<1>. QED
  BY <1>3, <1>4

\* A player who may act has joined, so a gameplay has given it a robot.
LEMMA ActsInGame ==
    ASSUME EngineInv, NEW i \in Slot, Acts(i)
    PROVE  /\ gameplay_started /\ player_ids[i] \in PlayerId
           /\ i \in DOMAIN player_ids
           /\ player_ids[i] \in DOMAIN players_positions
           /\ players_positions[player_ids[i]] \in Position
           /\ phase = "serve" /\ MayAct(i) /\ cursor <= i /\ cursor' = i + 1
<1>1. /\ i \in DOMAIN player_ids /\ player_ids[i] \in DOMAIN players_positions
      /\ phase = "serve" /\ MayAct(i) /\ cursor <= i /\ cursor' = i + 1
  <2>1. cursor \in Int /\ i \in Int
    BY GameParams DEF EngineInv, TypeOK, Slot
  <2>. QED
    BY <2>1 DEF Acts, MayAct, Serving
<1>2. gameplay_started
  BY <1>1, EmptyMap DEF EngineInv, InGameTablesAgree
<1>3. /\ player_ids \in [DOMAIN player_ids -> PlayerId]
      /\ players_positions \in [DOMAIN players_positions -> Position]
  BY DEF EngineInv, TypeOK, Map
<1>. QED
  BY <1>1, <1>2, <1>3

\* One event is added in a gameplay.
LEMMA AddsOne ==
    ASSUME EngineInv, gameplay_started, NEW e \in Event, turns' = add_events(<<e>>),
           UNCHANGED <<lobby, current_turn>>
    PROVE  Adds(<<e>>)
<1>1. <<e>> \in Seq(Event)
  OBVIOUS
<1>. QED
  BY <1>1, AddEventsGrow DEF Adds, lobby

\* The three actions record one event of the robot of the client.
LEMMA PlaceBombKind ==
    ASSUME EngineInv, NEW i \in Slot, PlaceBomb(i) PROVE \E e : ActsWith(i, e)
<1>1. Acts(i)
  BY DEF PlaceBomb
<1>2. /\ gameplay_started /\ players_positions[player_ids[i]] \in Position
      /\ phase = "serve" /\ MayAct(i) /\ cursor <= i /\ cursor' = i + 1
  BY <1>1, ActsInGame
<1>3. PICK position \in Position : position = players_positions[player_ids[i]]
  BY <1>2
<1>4. PICK e : e = Bomb_placed(next_bomb_id, position)
  OBVIOUS
<1>5. next_bomb_id \in Nat
  BY DEF EngineInv, TypeOK
<1>6. e \in Event
  BY <1>4, <1>5 DEF Bomb_placed, Event
<1>7. /\ turns' = add_events(<<e>>) /\ UNCHANGED <<lobby, current_turn>>
      /\ UNCHANGED <<scores, current_players_to_destroy, players_positions>>
      /\ phase' = "serve" /\ next_bomb_id' = next_bomb_id + 1
      /\ bombs' = map_insert(bombs, next_bomb_id, [position |-> position, timer |-> bomb_timer])
  BY <1>2, <1>3, <1>4 DEF PlaceBomb, marks
<1>8. Adds(<<e>>)
  BY <1>2, <1>6, <1>7, AddsOne
<1>. QED
  BY <1>2, <1>4, <1>6, <1>7, <1>8 DEF ActsWith

\* The same for a block,
LEMMA PlaceBlockKind ==
    ASSUME EngineInv, NEW i \in Slot, PlaceBlock(i) PROVE \E e : ActsWith(i, e)
<1>1. Acts(i)
  BY DEF PlaceBlock
<1>2. /\ gameplay_started /\ players_positions[player_ids[i]] \in Position
      /\ phase = "serve" /\ MayAct(i) /\ cursor <= i /\ cursor' = i + 1
  BY <1>1, ActsInGame
<1>3. PICK e : e = Block_placed(players_positions[player_ids[i]])
  OBVIOUS
<1>4. e \in Event /\ e.code = "Block_placed"
  BY <1>2, <1>3 DEF Block_placed, Event
<1>5. /\ turns' = add_events(<<e>>) /\ UNCHANGED <<lobby, current_turn>>
      /\ UNCHANGED <<scores, current_players_to_destroy, players_positions, bombs, next_bomb_id>>
      /\ phase' = "serve"
  BY <1>2, <1>3 DEF PlaceBlock, marks
<1>6. Adds(<<e>>)
  BY <1>2, <1>4, <1>5, AddsOne
<1>. QED
  BY <1>2, <1>4, <1>5, <1>6 DEF ActsWith

\* and for a move.
LEMMA MoveKind ==
    ASSUME EngineInv, NEW i \in Slot, NEW d, Move(i, d) PROVE Quiet \/ \E e : ActsWith(i, e)
<1>1. Acts(i)
  BY DEF Move
<1>2. /\ gameplay_started /\ players_positions[player_ids[i]] \in Position
      /\ phase = "serve" /\ MayAct(i) /\ cursor <= i /\ cursor' = i + 1
      /\ player_ids[i] \in PlayerId
  BY <1>1, ActsInGame
<1>3. PICK new \in NewPositions(players_positions[player_ids[i]], d) :
          \/ /\ players_positions' = insert_or_assign(players_positions, player_ids[i], new)
             /\ turns' = add_events(<<Player_moved(player_ids[i], new)>>)
          \/ UNCHANGED <<players_positions, turns>>
  BY DEF Move
<1>4. new \in Position
  BY <1>2, <1>3, ShiftPosition DEF NewPositions
<1>5. /\ UNCHANGED <<lobby, current_turn>>
      /\ UNCHANGED <<scores, current_players_to_destroy, bombs, next_bomb_id>>
      /\ phase' = "serve"
  BY <1>2 DEF Move, marks
<1>6. CASE UNCHANGED <<players_positions, turns>>
  <2>1. cursor <= cursor'
    BY <1>2, GameParams DEF EngineInv, TypeOK, Slot
  <2>. QED
    BY <1>2, <1>5, <1>6, <2>1 DEF Quiet, QuietBombs, lobby
<1>7. CASE /\ players_positions' = insert_or_assign(players_positions, player_ids[i], new)
           /\ turns' = add_events(<<Player_moved(player_ids[i], new)>>)
  <2>1. PICK e : e = Player_moved(player_ids[i], new)
    OBVIOUS
  <2>2. e \in Event
    BY <1>2, <1>4, <2>1 DEF Player_moved, Event
  <2>3. Adds(<<e>>)
    BY <1>2, <1>5, <1>7, <2>1, <2>2, AddsOne
  <2>. QED
    BY <1>2, <1>4, <1>5, <1>7, <2>1, <2>2, <2>3 DEF ActsWith
<1>. QED
  BY <1>3, <1>6, <1>7

\* Blocks are seeded in turn 0.
LEMMA SeedKind ==
    ASSUME EngineInv, NEW p \in Board, SeedBlock(p) PROVE \E e : Seeds(e)
<1>1. PICK e : e = Block_placed(p)
  OBVIOUS
<1>2. e \in Event /\ e.code = "Block_placed"
  BY <1>1, BoardPosition DEF Block_placed, Event
<1>3. /\ gameplay_started /\ current_turn = 0
      /\ phase = "seed" /\ phase' \in {"seed", "serve"}
  BY DEF SeedBlock, EngineInv, PhaseAgrees
<1>4. /\ turns' = add_events(<<e>>) /\ UNCHANGED <<lobby, current_turn>>
      /\ UNCHANGED <<scores, players_positions, current_players_to_destroy, bombs, next_bomb_id>>
  BY <1>1, <1>3 DEF SeedBlock, add_events, marks
<1>5. Adds(<<e>>)
  BY <1>2, <1>3, <1>4, AddsOne
<1>. QED
  BY <1>2, <1>3, <1>4, <1>5 DEF Seeds

\* The last Join starts the gameplay, the others only fill the tables.
LEMMA JoinKind ==
    ASSUME EngineInv, EngineInv', NEW i \in Slot, NEW player \in Player, Join(i, player)
    PROVE  Joins \/ \E ids, field : Starts(ids, field)
<1>. DEFINE ps == map_insert(players, next_player_id, player)
<1>1. /\ ~gameplay_started /\ players' = ps /\ scores' = map_insert(scores, next_player_id, 0)
      /\ UNCHANGED <<bombs, marks, current_turn>>
      /\ \/ start_gameplay(ps)
         \/ UNCHANGED <<gameplay_started, turns, players_positions, phase, index>>
  BY DEF Join
<1>2. /\ turns = <<>> /\ players_positions = <<>> /\ bombs = <<>>
      /\ current_players_to_destroy = {} /\ current_turn = 0
  BY <1>1 DEF EngineInv, InGameTablesAgree
<1>3. CASE ~start_gameplay(ps)
  BY <1>1, <1>3 DEF Joins
<1>4. CASE start_gameplay(ps)
  <2>1. PICK field \in [DOMAIN ps -> Board], ids \in Ascending(DOMAIN ps) :
          /\ turns' = Append(turns, [Turn_info(0) EXCEPT !.events = SeedEvents(ids, field)])
          /\ players_positions' = assign_all(players_positions, field)
    BY <1>4 DEF start_gameplay
  <2>2. PICK x : x = [Turn_info(0) EXCEPT !.events = SeedEvents(ids, field)]
    OBVIOUS
  <2>3. x.events = SeedEvents(ids, field)
    BY <2>2 DEF Turn_info
  <2>4. turns' = <<x>>
    BY <1>2, <2>1, <2>2
  <2>5. Len(turns') = 1 /\ turns'[1].events = SeedEvents(ids, field)
    BY <2>3, <2>4
  <2>6. /\ DOMAIN players_positions' = DOMAIN ps
        /\ \A p \in DOMAIN ps : players_positions'[p] = field[p]
    BY <1>2, <2>1, EmptyMap DEF assign_all
  <2>7. gameplay_started' /\ phase' \in {"seed", "serve"}
    BY <1>4 DEF start_gameplay
  <2>8. DOMAIN players' = DOMAIN scores'
    BY DEF EngineInv, IdsConsistent
  <2>. HIDE DEF ps
  <2>. QED
    BY <1>1, <1>2, <2>1, <2>5, <2>6, <2>7, <2>8 DEF Starts, marks
<1>. QED
  BY <1>3, <1>4

\* The summary records the respawns, and the last one ends the gameplay.
LEMMA SummariseKind ==
    ASSUME EngineInv, SummariseTurn PROVE Ends \/ \E ids, field : Summarises(ids, field)
<1>1. /\ phase = "serve" /\ gameplay_started /\ clear_marks /\ phase' = "loop"
      /\ \E field \in [current_players_to_destroy -> Board],
            ids \in Ascending(current_players_to_destroy) :
            \/ end_gameplay
            \/ /\ turns' = add_events(SeedEvents(ids, field))
               /\ scores' = [p \in DOMAIN scores |->
                    IF p \in current_players_to_destroy THEN scores[p] + 1 ELSE scores[p]]
               /\ players_positions' = assign_all(players_positions, field)
               /\ UNCHANGED <<lobby, blocks_positions, bombs, next_bomb_id, current_turn>>
  BY DEF SummariseTurn
<1>2. CASE end_gameplay
  BY <1>1, <1>2 DEF end_gameplay, Ends
<1>3. CASE ~end_gameplay
  <2>1. PICK field \in [current_players_to_destroy -> Board],
             ids \in Ascending(current_players_to_destroy) :
            /\ turns' = add_events(SeedEvents(ids, field))
            /\ scores' = [p \in DOMAIN scores |->
                    IF p \in current_players_to_destroy THEN scores[p] + 1 ELSE scores[p]]
            /\ players_positions' = assign_all(players_positions, field)
            /\ UNCHANGED <<lobby, blocks_positions, bombs, next_bomb_id, current_turn>>
    BY <1>1, <1>3
  <2>2. SeedEvents(ids, field) \in Seq(Event)
    BY SeedEventsType DEF EngineInv, TypeOK
  <2>3. Grown(turns, turns', SeedEvents(ids, field))
    BY <1>1, <2>1, <2>2, AddEventsGrow
  <2>4. gameplay_started' = gameplay_started
    BY <2>1 DEF lobby
  <2>. QED
    BY <1>1, <2>1, <2>3, <2>4 DEF Summarises, Adds, clear_marks
<1>. QED
  BY <1>2, <1>3

\* The steps that record nothing.
LEMMA QuietKind ==
    ASSUME EngineInv,
           \/ EraseBombs \/ EraseBlock \/ TurnBegun \/ PollInLobby \/ NoConnection
           \/ EndRound \/ UNCHANGED vars
           \/ \E position : AcceptClient(position)
           \/ \E i \in Slot : JoinRefused(i) \/ ActionRefused(i) \/ ActionThrows(i)
    PROVE  Quiet
<1>. USE DEF lobby, world, marks, log, game
<1>1. cursor \in Int /\ \A i \in Slot : i \in Int
  BY GameParams DEF EngineInv, TypeOK, Slot
<1>2. CASE EraseBombs
  BY <1>2 DEF EraseBombs, Quiet, QuietBombs
<1>3. CASE EraseBlock \/ TurnBegun \/ PollInLobby \/ NoConnection \/ EndRound
  BY <1>3 DEF EraseBlock, TurnBegun, PollInLobby, NoConnection, EndRound, Quiet, QuietBombs
<1>4. CASE UNCHANGED vars
  BY <1>1, <1>4 DEF vars, Quiet, QuietBombs
<1>5. CASE \E position : AcceptClient(position)
  BY <1>5 DEF AcceptClient, Quiet, QuietBombs
<1>6. ASSUME NEW i \in Slot, JoinRefused(i) \/ ActionRefused(i) PROVE Quiet
  BY <1>1, <1>6 DEF JoinRefused, ActionRefused, Serving, Quiet, QuietBombs
<1>7. ASSUME NEW i \in Slot, ActionThrows(i) PROVE Quiet
  <2>1. ~gameplay_started
    <3>1. i \in DOMAIN player_ids /\ player_ids[i] \notin DOMAIN players_positions
      BY <1>7 DEF ActionThrows, MayAct
    <3>. QED
      BY <3>1 DEF EngineInv, IdsConsistent, InGameTablesAgree
  <2>2. phase = "serve" /\ phase' = "aborted" /\ UNCHANGED game
    BY <1>7 DEF ActionThrows, Serving
  <2>. QED
    BY <2>1, <2>2 DEF Quiet, QuietBombs
<1>. QED
  BY <1>2, <1>3, <1>4, <1>5, <1>6, <1>7

\* Every step of the engine is of one of the kinds.
LEMMA StepKinds == ASSUME EngineInv, EngineInv', [Next]_vars PROVE Kinds
<1>1. CASE BeginTurn
  BY <1>1, OpensKind DEF Kinds
<1>2. ASSUME NEW b \in DOMAIN bombs, TickBomb(b) PROVE Kinds
  BY <1>2, TickKind DEF Kinds
<1>3. ASSUME NEW p \in Board, SeedBlock(p) PROVE Kinds
  BY <1>3, SeedKind DEF Kinds
<1>4. CASE SummariseTurn
  BY <1>4, SummariseKind DEF Kinds
<1>5. ASSUME NEW i \in Slot, NEW player \in Player, Join(i, player) PROVE Kinds
  BY <1>5, JoinKind DEF Kinds
<1>6. ASSUME NEW i \in Slot, PlaceBomb(i) \/ PlaceBlock(i) PROVE Kinds
  BY <1>6, PlaceBombKind, PlaceBlockKind DEF Kinds
<1>7. ASSUME NEW i \in Slot, NEW d, Move(i, d) PROVE Kinds
  BY <1>7, MoveKind DEF Kinds
<1>8. CASE \/ EraseBombs \/ EraseBlock \/ TurnBegun \/ PollInLobby \/ NoConnection
           \/ EndRound \/ UNCHANGED vars
           \/ \E position : AcceptClient(position)
           \/ \E i \in Slot : JoinRefused(i) \/ ActionRefused(i) \/ ActionThrows(i)
  BY <1>8, QuietKind DEF Kinds
<1>. QED
  BY <1>1, <1>2, <1>3, <1>4, <1>5, <1>6, <1>7, <1>8
  DEF Next, ServerStep, ClientStep, HandleMsg

-----------------------------------------------------------------------------
(* Scores.                                                                 *)

\* Which turns report a hit once events are added to the last.
LEMMA HitGrown ==
    ASSUME NEW ev, Grown(turns, turns', ev), NEW k \in 1 .. Len(turns), NEW p
    PROVE  HitIn(k, p)' <=> \/ HitIn(k, p)
                            \/ k = Len(turns) /\ \E n \in 1 .. Len(ev) : Destroys(ev[n], p)
<1>. DEFINE s == turns[k].events
            t == turns'[k].events
<1>1. /\ DOMAIN s = 1 .. Len(s) /\ Len(s) \in Nat
      /\ DOMAIN t = 1 .. Len(t) /\ Len(t) \in Nat
      /\ Len(ev) \in Nat
  BY EventsType, LenProperties DEF Grown
<1>2. /\ k # Len(turns) => t = s
      /\ k = Len(turns) =>
            /\ Len(t) = Len(s) + Len(ev)
            /\ \A n \in 1 .. Len(t) : t[n] = IF n <= Len(s) THEN s[n] ELSE ev[n - Len(s)]
  BY GrownEvents
<1>3. /\ HitIn(k, p) <=> \E n \in DOMAIN s : Destroys(s[n], p)
      /\ HitIn(k, p)' <=> \E n \in DOMAIN t : Destroys(t[n], p)
  BY DEF HitIn, Destroys
<1>. HIDE DEF s, t
<1>4. CASE k # Len(turns)
  BY <1>2, <1>3, <1>4
<1>5. CASE k = Len(turns)
  <2>1. ASSUME NEW n \in 1 .. Len(t), Destroys(t[n], p)
        PROVE  \/ \E i \in 1 .. Len(s) : Destroys(s[i], p)
               \/ \E i \in 1 .. Len(ev) : Destroys(ev[i], p)
    <3>1. CASE n <= Len(s)
      BY <1>1, <1>2, <1>5, <2>1, <3>1
    <3>2. CASE ~(n <= Len(s))
      <4>1. n - Len(s) \in 1 .. Len(ev) /\ t[n] = ev[n - Len(s)]
        BY <1>1, <1>2, <1>5, <3>2
      <4>. QED
        BY <2>1, <4>1
    <3>. QED
      BY <3>1, <3>2
  <2>2. ASSUME NEW i \in 1 .. Len(s), Destroys(s[i], p)
        PROVE  \E n \in 1 .. Len(t) : Destroys(t[n], p)
    <3>1. i \in 1 .. Len(t) /\ t[i] = s[i]
      BY <1>1, <1>2, <1>5
    <3>. QED
      BY <2>2, <3>1
  <2>3. ASSUME NEW i \in 1 .. Len(ev), Destroys(ev[i], p)
        PROVE  \E n \in 1 .. Len(t) : Destroys(t[n], p)
    <3>1. Len(s) + i \in 1 .. Len(t) /\ t[Len(s) + i] = ev[(Len(s) + i) - Len(s)]
      BY <1>1, <1>2, <1>5
    <3>2. (Len(s) + i) - Len(s) = i
      BY <1>1
    <3>. QED
      BY <2>3, <3>1, <3>2
  <2>. QED
    BY <1>1, <1>3, <1>5, <2>1, <2>2, <2>3
<1>. QED
  BY <1>4, <1>5

\* Events that report no hit change nothing about hits.
LEMMA NoHitGrown ==
    ASSUME NEW ev, Grown(turns, turns', ev), NEW p,
           \A n \in 1 .. Len(ev) : ev[n].code # "Bomb_exploded"
    PROVE  /\ \A k \in 1 .. Len(turns) : HitIn(k, p)' <=> HitIn(k, p)
           /\ {k \in DOMAIN turns : HitIn(k, p)}' = {k \in DOMAIN turns : HitIn(k, p)}
<1>1. \A n \in 1 .. Len(ev) : ~Destroys(ev[n], p)
  BY DEF Destroys
<1>2. \A k \in 1 .. Len(turns) : HitIn(k, p)' <=> HitIn(k, p)
  BY <1>1, HitGrown
<1>3. DOMAIN turns = 1 .. Len(turns) /\ DOMAIN turns' = 1 .. Len(turns)
  BY LenProperties DEF Grown
<1>. QED
  BY <1>2, <1>3

\* The events of seed_player are moves.
LEMMA SeedEventsAre ==
    ASSUME NEW S, S \subseteq PlayerId, NEW ids \in Ascending(S), NEW field
    PROVE  /\ Len(SeedEvents(ids, field)) = Len(ids) /\ Len(ids) \in Nat
           /\ \A n \in 1 .. Len(ids) :
                /\ ids[n] \in S
                /\ SeedEvents(ids, field)[n] = Player_moved(ids[n], field[ids[n]])
                /\ SeedEvents(ids, field)[n].code = "Player_moved"
<1>1. ids \in Seq(S) /\ DOMAIN ids = 1 .. Len(ids) /\ Len(ids) \in Nat
  BY PlayerIdsFinite, AscendingIsSeq, LenProperties
<1>2. SeedEvents(ids, field) = [k \in 1 .. Len(ids) |-> Player_moved(ids[k], field[ids[k]])]
  BY <1>1 DEF SeedEvents
<1>3. Len(SeedEvents(ids, field)) = Len(ids)
  BY <1>1, <1>2
<1>4. \A n \in 1 .. Len(ids) : ids[n] \in S
  BY <1>1, ElementOfSeq
<1>5. \A n \in 1 .. Len(ids) :
        /\ SeedEvents(ids, field)[n] = Player_moved(ids[n], field[ids[n]])
        /\ SeedEvents(ids, field)[n].code = "Player_moved"
  BY <1>2 DEF Player_moved
<1>. QED
  BY <1>1, <1>3, <1>4, <1>5

\* Types that the proofs below keep using.
LEMMA InGameTypes ==
    ASSUME EngineInv, gameplay_started
    PROVE  /\ turns \in Seq(TurnInfo) /\ DOMAIN turns = 1 .. Len(turns)
           /\ Len(turns) = current_turn + 1 /\ Len(turns) \in Nat /\ Len(turns) > 0
           /\ current_turn \in Nat
           /\ DOMAIN players = DOMAIN scores /\ DOMAIN players \subseteq PlayerId
           /\ DOMAIN players_positions = DOMAIN players
           /\ current_players_to_destroy \subseteq DOMAIN players
           /\ \A p \in DOMAIN players : scores[p] \in Nat
<1>1. TypeOK /\ IdsConsistent /\ InGameTablesAgree
  BY DEF EngineInv
<1>2. current_turn \in Nat /\ turns \in Seq(TurnInfo) /\ Len(turns) = current_turn + 1
  BY <1>1, GameParams DEF TypeOK, InGameTablesAgree
<1>3. DOMAIN turns = 1 .. Len(turns) /\ Len(turns) \in Nat /\ Len(turns) > 0
  BY <1>2, LenProperties
<1>4. DOMAIN scores = DOMAIN players /\ DOMAIN players \subseteq PlayerId
      /\ \A p \in DOMAIN scores : scores[p] \in Nat
  BY <1>1 DEF TypeOK, Map, IdsConsistent
<1>. QED
  BY <1>1, <1>2, <1>3, <1>4 DEF InGameTablesAgree

\* Steps that add events without a hit, and do not change marks or scores.
LEMMA ScoresAdds ==
    ASSUME EngineInv, MarksMatchOpenTurn, ScoresMatchLog, NEW ev, Adds(ev),
           \A n \in 1 .. Len(ev) : ev[n].code # "Bomb_exploded",
           UNCHANGED <<scores, current_players_to_destroy>>, phase # "loop", phase' # "loop"
    PROVE  MarksMatchOpenTurn' /\ ScoresMatchLog'
<1>1. /\ gameplay_started /\ gameplay_started' /\ Grown(turns, turns', ev)
      /\ players' = players
  BY DEF Adds, lobby
<1>2. /\ \A p : \A k \in 1 .. Len(turns) : HitIn(k, p)' <=> HitIn(k, p)
      /\ \A p : {k \in DOMAIN turns : HitIn(k, p)}' = {k \in DOMAIN turns : HitIn(k, p)}
  BY <1>1, NoHitGrown
<1>3. Len(turns') = Len(turns) /\ Len(turns) \in 1 .. Len(turns)
  BY <1>1, LenProperties DEF Grown
<1>4. \A p : HitIn(Len(turns), p)' <=> HitIn(Len(turns), p)
  BY <1>2, <1>3 DEF HitIn
<1>5. MarksMatchOpenTurn'
  BY <1>1, <1>4 DEF MarksMatchOpenTurn
<1>6. ScoresMatchLog'
  BY <1>1, <1>2 DEF ScoresMatchLog
<1>. QED
  BY <1>5, <1>6

\* A hit counts once for a turn: the second of a turn finds the mark.
LEMMA ScoresExplodes ==
    ASSUME EngineInv, MarksMatchOpenTurn, ScoresMatchLog,
           NEW b, NEW robots, NEW blocks, Explodes(b, robots, blocks)
    PROVE  MarksMatchOpenTurn' /\ ScoresMatchLog'
<1>1. /\ gameplay_started /\ gameplay_started'
      /\ players' = players /\ scores' = scores /\ phase = "bombs" /\ phase' = "bombs"
      /\ current_players_to_destroy' = current_players_to_destroy \cup robots
  BY DEF Explodes, Adds, lobby, Ticks
<1>2. PICK ev : ev = <<Bomb_exploded(b, robots, blocks)>>
  OBVIOUS
<1>3. Grown(turns, turns', ev) /\ Len(ev) = 1
  BY <1>2 DEF Explodes, Adds
<1>4. \A p : (\E n \in 1 .. Len(ev) : Destroys(ev[n], p)) <=> p \in robots
  BY <1>2, <1>3 DEF Destroys, Bomb_exploded
<1>5. \A p : \A k \in 1 .. Len(turns) :
        HitIn(k, p)' <=> HitIn(k, p) \/ (k = Len(turns) /\ p \in robots)
  BY <1>3, <1>4, HitGrown
<1>6. /\ Len(turns') = Len(turns) /\ Len(turns) \in 1 .. Len(turns)
      /\ DOMAIN turns = 1 .. Len(turns) /\ DOMAIN turns' = 1 .. Len(turns)
      /\ Len(turns) \in Nat
  BY <1>3, LenProperties DEF Grown
<1>7. \A p : HitIn(Len(turns), p)' <=> HitIn(Len(turns), p) \/ p \in robots
  <2>1. \A p : HitIn(Len(turns), p)' <=> \E n \in DOMAIN turns'[Len(turns)].events :
                                          Destroys(turns'[Len(turns)].events[n], p)
    BY <1>6 DEF HitIn, Destroys
  <2>2. PICK last : last = Len(turns)
    OBVIOUS
  <2>3. \A p : HitIn(last, p)' <=> \E n \in DOMAIN turns'[last].events :
                                          Destroys(turns'[last].events[n], p)
    BY DEF HitIn, Destroys
  <2>. QED
    BY <1>5, <1>6, <2>1, <2>2, <2>3
<1>8. MarksMatchOpenTurn'
  <2>1. \A p \in DOMAIN players : p \in current_players_to_destroy <=> HitIn(Len(turns), p)
    BY <1>1 DEF MarksMatchOpenTurn
  <2>. QED
    BY <1>1, <1>7, <2>1 DEF MarksMatchOpenTurn
<1>9. ASSUME NEW p \in DOMAIN players
      PROVE  scores[p] + (IF p \in current_players_to_destroy' THEN 1 ELSE 0)
                = Cardinality({k \in DOMAIN turns : HitIn(k, p)}')
  <2>. DEFINE H == {k \in DOMAIN turns : HitIn(k, p)}
              H2 == {k \in DOMAIN turns' : HitIn(k, p)'}
  <2>1. /\ scores[p] + (IF p \in current_players_to_destroy THEN 1 ELSE 0) = Cardinality(H)
        /\ scores[p] \in Nat
        /\ p \in current_players_to_destroy <=> Len(turns) \in H
    BY <1>1, <1>6, InGameTypes DEF ScoresMatchLog, MarksMatchOpenTurn
  <2>2. IsFiniteSet(H)
    <3>1. IsFiniteSet(1 .. Len(turns))
      BY <1>6, FS_Interval
    <3>. QED
      BY <1>6, <3>1, FS_Subset
  <2>3. H2 = IF p \in robots THEN H \cup {Len(turns)} ELSE H
    BY <1>5, <1>6
  <2>4. {k \in DOMAIN turns : HitIn(k, p)}' = H2
    OBVIOUS
  <2>. HIDE DEF H, H2
  <2>5. CASE p \in robots
    <3>1. Cardinality(H \cup {Len(turns)})
            = IF Len(turns) \in H THEN Cardinality(H) ELSE Cardinality(H) + 1
      BY <2>2, FS_AddElement
    <3>2. p \in current_players_to_destroy'
      BY <1>1, <2>5
    <3>3. Cardinality(H2) = scores[p] + 1
      <4>1. CASE Len(turns) \in H
        BY <2>1, <2>3, <2>5, <3>1, <4>1
      <4>2. CASE Len(turns) \notin H
        BY <2>1, <2>3, <2>5, <3>1, <4>2
      <4>. QED
        BY <4>1, <4>2
    <3>. QED
      BY <2>4, <3>2, <3>3
  <2>6. CASE p \notin robots
    <3>1. p \in current_players_to_destroy' <=> p \in current_players_to_destroy
      BY <1>1, <2>6
    <3>. QED
      BY <2>1, <2>3, <2>4, <2>6, <3>1
  <2>. QED
    BY <2>5, <2>6
<1>10. ScoresMatchLog'
  BY <1>1, <1>9 DEF ScoresMatchLog
<1>. QED
  BY <1>8, <1>10

\* What clients do is never an explosion.
LEMMA ActsEvent ==
    ASSUME NEW i, NEW e, ActsWith(i, e)
    PROVE  e.code \in {"Bomb_placed", "Block_placed", "Player_moved"}
<1>1. CASE \E position \in Position : e = Bomb_placed(next_bomb_id, position)
  BY <1>1 DEF Bomb_placed
<1>2. CASE \E new \in Position : e = Player_moved(player_ids[i], new)
  BY <1>2 DEF Player_moved
<1>3. CASE e.code = "Block_placed"
  BY <1>3
<1>. QED
  BY <1>1, <1>2, <1>3 DEF ActsWith

\* A turn that is opened reports no hit yet, and no mark is left.
LEMMA ScoresOpens ==
    ASSUME EngineInv, MarksMatchOpenTurn, ScoresMatchLog, Opens
    PROVE  MarksMatchOpenTurn' /\ ScoresMatchLog'
<1>1. /\ gameplay_started /\ gameplay_started' /\ players' = players /\ scores' = scores
      /\ phase = "loop" /\ phase' = "bombs"
      /\ current_players_to_destroy' = current_players_to_destroy
  BY DEF Opens, lobby, marks
<1>2. /\ turns \in Seq(TurnInfo) /\ DOMAIN turns = 1 .. Len(turns) /\ Len(turns) \in Nat
      /\ current_turn \in Nat
      /\ \A p \in DOMAIN players : scores[p] \in Nat
  BY <1>1, InGameTypes
<1>3. current_turn' \in 0 .. U16 - 1
  <2>1. current_turn < game_length
    BY <1>1 DEF EngineInv, PhaseAgrees
  <2>. QED
    BY <1>2, <2>1, GameParams DEF Opens
<1>4. /\ turns' \in Seq(TurnInfo) /\ Len(turns') = Len(turns) + 1
      /\ \A k \in 1 .. Len(turns) : turns'[k] = turns[k]
      /\ turns'[Len(turns) + 1].events = <<>>
  BY <1>2, <1>3, OpenedLog DEF Opens
<1>5. DOMAIN turns' = 1 .. Len(turns) + 1
  BY <1>2, <1>4, LenProperties
<1>6. \A p : \A k \in DOMAIN turns' :
        HitIn(k, p)' <=> k \in DOMAIN turns /\ HitIn(k, p)
  <2>1. ASSUME NEW p, NEW k \in DOMAIN turns, HitIn(k, p) \/ HitIn(k, p)'
        PROVE  HitIn(k, p) /\ HitIn(k, p)'
    BY <1>2, <1>4, <2>1 DEF HitIn, Destroys
  <2>2. ASSUME NEW p, NEW k \in DOMAIN turns', k \notin DOMAIN turns PROVE ~HitIn(k, p)'
    <3>1. turns'[k].events = <<>>
      BY <1>2, <1>4, <1>5, <2>2
    <3>. QED
      BY <3>1 DEF HitIn, Destroys
  <2>. QED
    BY <2>1, <2>2
<1>7. \A p : {k \in DOMAIN turns : HitIn(k, p)}' = {k \in DOMAIN turns : HitIn(k, p)}
  BY <1>2, <1>5, <1>6
<1>8. Len(turns') \in DOMAIN turns' /\ Len(turns') \notin DOMAIN turns
  BY <1>2, <1>4, <1>5
<1>9. \A p : ~HitIn(Len(turns), p)'
  <2>1. PICK last : last = Len(turns')
    OBVIOUS
  <2>2. \A p : ~HitIn(last, p)'
    BY <1>6, <1>8, <2>1
  <2>. QED
    BY <2>1, <2>2 DEF HitIn, Destroys
<1>10. current_players_to_destroy = {}
  BY <1>1 DEF MarksMatchOpenTurn
<1>11. MarksMatchOpenTurn'
  BY <1>1, <1>9, <1>10 DEF MarksMatchOpenTurn
<1>12. ScoresMatchLog'
  BY <1>1, <1>7 DEF ScoresMatchLog
<1>. QED
  BY <1>11, <1>12

\* A gameplay starts with scores of 0 and a turn of moves.
LEMMA ScoresStarts ==
    ASSUME EngineInv, MarksMatchOpenTurn, NEW ids, NEW field, Starts(ids, field), TypeOK'
    PROVE  MarksMatchOpenTurn' /\ ScoresMatchLog'
<1>1. /\ gameplay_started' /\ phase' # "loop" /\ ~gameplay_started
      /\ scores' = map_insert(scores, next_player_id, 0) /\ DOMAIN players' = DOMAIN scores'
      /\ ids \in Ascending(DOMAIN players')
      /\ Len(turns') = 1 /\ turns'[1].events = SeedEvents(ids, field)
      /\ current_players_to_destroy' = {}
  BY DEF Starts
<1>2. \A p \in DOMAIN players' : scores'[p] = 0
  BY <1>1 DEF MarksMatchOpenTurn, map_insert
<1>3. DOMAIN turns' = {1}
  <2>1. turns' \in Seq(TurnInfo)
    BY DEF TypeOK
  <2>. QED
    BY <1>1, <2>1, LenProperties
<1>4. \A n \in DOMAIN turns'[1].events : turns'[1].events[n].code # "Bomb_exploded"
  <2>1. DOMAIN players' \subseteq PlayerId
    BY DEF TypeOK, Map
  <2>2. DOMAIN SeedEvents(ids, field) = DOMAIN ids
    BY DEF SeedEvents
  <2>. QED
    BY <1>1, <2>2 DEF SeedEvents, Player_moved
<1>5. \A p : ~HitIn(1, p)'
  BY <1>4 DEF HitIn, Destroys
<1>6. \A p : ~HitIn(Len(turns), p)'
  BY <1>1, <1>4 DEF HitIn, Destroys
<1>7. \A p : {k \in DOMAIN turns : HitIn(k, p)}' = {}
  BY <1>3, <1>5
<1>8. Cardinality({}) = 0
  BY FS_EmptySet
<1>9. MarksMatchOpenTurn'
  BY <1>1, <1>6 DEF MarksMatchOpenTurn
<1>10. ScoresMatchLog'
  BY <1>1, <1>2, <1>7, <1>8 DEF ScoresMatchLog
<1>. QED
  BY <1>9, <1>10

\* The summary turns the marks of the turn into scores.
LEMMA ScoresSummarises ==
    ASSUME EngineInv, MarksMatchOpenTurn, ScoresMatchLog,
           NEW ids, NEW field, Summarises(ids, field)
    PROVE  MarksMatchOpenTurn' /\ ScoresMatchLog'
<1>1. /\ gameplay_started /\ gameplay_started' /\ Grown(turns, turns', SeedEvents(ids, field))
      /\ players' = players /\ phase' = "loop" /\ current_players_to_destroy' = {}
      /\ ids \in Ascending(current_players_to_destroy)
      /\ scores' = [p \in DOMAIN scores |->
                    IF p \in current_players_to_destroy THEN scores[p] + 1 ELSE scores[p]]
  BY DEF Summarises, Adds, lobby
<1>2. /\ DOMAIN scores = DOMAIN players /\ DOMAIN players \subseteq PlayerId
      /\ current_players_to_destroy \subseteq DOMAIN players
      /\ \A p \in DOMAIN players : scores[p] \in Nat
  BY <1>1, InGameTypes
<1>3. current_players_to_destroy \subseteq PlayerId
  BY <1>2
<1>4. \A n \in 1 .. Len(SeedEvents(ids, field)) :
        SeedEvents(ids, field)[n].code # "Bomb_exploded"
  BY <1>1, <1>3, SeedEventsAre
<1>5. \A p : {k \in DOMAIN turns : HitIn(k, p)}' = {k \in DOMAIN turns : HitIn(k, p)}
  BY <1>1, <1>4, NoHitGrown
<1>6. \A p \in DOMAIN players :
        scores'[p] = scores[p] + (IF p \in current_players_to_destroy THEN 1 ELSE 0)
        /\ scores'[p] \in Nat
  BY <1>1, <1>2
<1>7. MarksMatchOpenTurn'
  BY <1>1 DEF MarksMatchOpenTurn
<1>8. ScoresMatchLog'
  BY <1>1, <1>5, <1>6 DEF ScoresMatchLog
<1>. QED
  BY <1>7, <1>8

\* One case per kind of step: what is hit is marked, what is marked is
\* counted.
LEMMA ScoresStep ==
    ASSUME EngineInv, EngineInv', MarksMatchOpenTurn, ScoresMatchLog, Kinds
    PROVE  MarksMatchOpenTurn' /\ ScoresMatchLog'
<1>1. CASE Quiet
  <2>1. /\ UNCHANGED <<gameplay_started, players, scores, turns, current_players_to_destroy>>
        /\ gameplay_started => (phase' = "loop" <=> phase = "loop")
    BY <1>1 DEF Quiet, lobby
  <2>2. \A k, p : HitIn(k, p)' <=> HitIn(k, p)
    BY <2>1 DEF HitIn, Destroys
  <2>3. \A p : HitIn(Len(turns), p)' <=> HitIn(Len(turns), p)
    BY <2>1 DEF HitIn, Destroys
  <2>4. MarksMatchOpenTurn'
    BY <2>1, <2>3 DEF MarksMatchOpenTurn
  <2>5. ScoresMatchLog'
    BY <2>1, <2>2 DEF ScoresMatchLog
  <2>. QED
    BY <2>4, <2>5
<1>2. CASE Opens
  BY <1>2, ScoresOpens
<1>3. CASE Joins
  BY <1>3 DEF Joins, MarksMatchOpenTurn, ScoresMatchLog, map_insert
<1>4. CASE Ends
  BY <1>4, EmptyMap DEF Ends, MarksMatchOpenTurn, ScoresMatchLog
<1>5. ASSUME NEW b, NEW robots, NEW blocks, Explodes(b, robots, blocks)
      PROVE  MarksMatchOpenTurn' /\ ScoresMatchLog'
  BY <1>5, ScoresExplodes
<1>6. ASSUME NEW i, NEW e, ActsWith(i, e)
      PROVE  MarksMatchOpenTurn' /\ ScoresMatchLog'
  <2>1. /\ Adds(<<e>>) /\ UNCHANGED <<scores, current_players_to_destroy>>
        /\ phase # "loop" /\ phase' # "loop" /\ e.code # "Bomb_exploded"
    BY <1>6, ActsEvent DEF ActsWith
  <2>2. \A n \in 1 .. Len(<<e>>) : <<e>>[n].code # "Bomb_exploded"
    BY <2>1
  <2>. QED
    BY <2>1, <2>2, ScoresAdds
<1>7. ASSUME NEW e, Seeds(e)
      PROVE  MarksMatchOpenTurn' /\ ScoresMatchLog'
  <2>1. /\ Adds(<<e>>) /\ UNCHANGED <<scores, current_players_to_destroy>>
        /\ phase # "loop" /\ phase' # "loop" /\ e.code # "Bomb_exploded"
    BY <1>7 DEF Seeds
  <2>2. \A n \in 1 .. Len(<<e>>) : <<e>>[n].code # "Bomb_exploded"
    BY <2>1
  <2>. QED
    BY <2>1, <2>2, ScoresAdds
<1>8. ASSUME NEW ids, NEW field, Starts(ids, field)
      PROVE  MarksMatchOpenTurn' /\ ScoresMatchLog'
  BY <1>8, ScoresStarts DEF EngineInv
<1>9. ASSUME NEW ids, NEW field, Summarises(ids, field)
      PROVE  MarksMatchOpenTurn' /\ ScoresMatchLog'
  BY <1>9, ScoresSummarises
<1>. QED
  BY <1>1, <1>2, <1>3, <1>4, <1>5, <1>6, <1>7, <1>8, <1>9 DEF Kinds

\* Whatever step is taken, the marks are those of the open turn, and with them
\* the scores are the hits of the log.
LEMMA MarksAndScores == Spec => [](MarksMatchOpenTurn /\ ScoresMatchLog)
<1>1. Init => MarksMatchOpenTurn /\ ScoresMatchLog
  BY EmptyMap DEF Init, MarksMatchOpenTurn, ScoresMatchLog
<1>2. EngineInv /\ EngineInv' /\ MarksMatchOpenTurn /\ ScoresMatchLog /\ [Next]_vars
        => MarksMatchOpenTurn' /\ ScoresMatchLog'
  BY StepKinds, ScoresStep
<1>. QED
  BY <1>1, <1>2, EngineInvariant, PTL DEF Spec

\* Scores count the turns in which a robot was destroyed: two bombs of a turn
\* count once, and no mark is carried over a turn or a gameplay.
THEOREM ScoresMatch == Spec => []ScoresMatchLog
BY MarksAndScores, PTL

-----------------------------------------------------------------------------
(* The actions of a turn.                                                  *)

\* The events of a turn that come from actions, and their finite number.
LEMMA ActionsFinite ==
    ASSUME turns \in Seq(TurnInfo), NEW k \in 1 .. Len(turns)
    PROVE  /\ IsFiniteSet(Actions(k)) /\ Cardinality(Actions(k)) \in Nat
           /\ \A p : Moves(k, p) \subseteq Actions(k)
           /\ \A p : IsFiniteSet(Moves(k, p)) /\ Cardinality(Moves(k, p)) \in Nat
<1>1. /\ DOMAIN turns[k].events = 1 .. Len(turns[k].events) /\ Len(turns[k].events) \in Nat
  BY EventsType
<1>2. PICK len \in Nat : len = Len(turns[k].events)
  BY <1>1
<1>3. IsFiniteSet(1 .. len)
  BY FS_Interval
<1>4. IsFiniteSet(Actions(k))
  BY <1>1, <1>2, <1>3, FS_Subset DEF Actions
<1>5. \A p : Moves(k, p) \subseteq Actions(k)
  BY DEF Moves, Actions, IsMove
<1>6. \A p : IsFiniteSet(Moves(k, p))
  BY <1>4, <1>5, FS_Subset
<1>. QED
  BY <1>4, <1>5, <1>6, FS_CardinalityType

\* Where the actions of the open turn k are once ev is added to its n events.
ActionsAdded(k, n, ev) ==
    /\ \A m : m \in Actions(k)' <=>
            \/ m \in Actions(k)
            \/ m \in n + 1 .. n + Len(ev) /\ ev[m - n].code # "Bomb_exploded"
    /\ \A p, m : m \in Moves(k, p)' <=>
            \/ m \in Moves(k, p)
            \/ m \in n + 1 .. n + Len(ev) /\ IsMove(ev[m - n], p)

LEMMA ActionsGrown ==
    ASSUME NEW ev, Grown(turns, turns', ev), NEW k \in 1 .. Len(turns),
           NEW n, n = Len(turns[k].events)
    PROVE  /\ k # Len(turns) =>
                /\ Actions(k)' = Actions(k)
                /\ \A p : Moves(k, p)' = Moves(k, p)
           /\ k = Len(turns) => ActionsAdded(k, n, ev)
           /\ n \in Nat /\ Actions(k) \subseteq 1 .. n /\ Len(ev) \in Nat
<1>. DEFINE s == turns[k].events
            t == turns'[k].events
<1>1. /\ DOMAIN s = 1 .. Len(s) /\ Len(s) \in Nat
      /\ DOMAIN t = 1 .. Len(t) /\ Len(t) \in Nat
      /\ Len(ev) \in Nat
  BY EventsType, LenProperties DEF Grown
<1>2. /\ k # Len(turns) => t = s
      /\ k = Len(turns) =>
            /\ Len(t) = Len(s) + Len(ev)
            /\ \A m \in 1 .. Len(t) : t[m] = IF m <= Len(s) THEN s[m] ELSE ev[m - Len(s)]
  <2>1. EventsGrown(turns, turns', ev, k)
    BY GrownThere
  <2>. QED
    BY <2>1 DEF EventsGrown
<1>3. /\ Actions(k) = {m \in DOMAIN s : s[m].code # "Bomb_exploded"}
      /\ Actions(k)' = {m \in DOMAIN t : t[m].code # "Bomb_exploded"}
      /\ \A p : Moves(k, p) = {m \in DOMAIN s : IsMove(s[m], p)}
      /\ \A p : Moves(k, p)' = {m \in DOMAIN t : IsMove(t[m], p)}
  BY DEF Actions, Moves, IsMove
<1>4. n = Len(s)
  OBVIOUS
<1>. HIDE DEF s, t
<1>5. CASE k # Len(turns)
  BY <1>1, <1>2, <1>3, <1>4, <1>5
<1>6. CASE k = Len(turns)
  <2>1. \A m : m \in 1 .. Len(t) <=> m \in 1 .. n \/ m \in n + 1 .. n + Len(ev)
    BY <1>1, <1>2, <1>4, <1>6
  <2>2. \A m \in 1 .. n : t[m] = s[m]
    BY <1>1, <1>2, <1>4, <1>6
  <2>3. \A m \in n + 1 .. n + Len(ev) : t[m] = ev[m - n]
    BY <1>1, <1>2, <1>4, <1>6
  <2>4. \A m \in n + 1 .. n + Len(ev) : m \notin 1 .. n
    BY <1>1, <1>4
  <2>5. \A m : m \in Actions(k)' <=>
                    \/ m \in Actions(k)
                    \/ m \in n + 1 .. n + Len(ev) /\ ev[m - n].code # "Bomb_exploded"
    BY <1>1, <1>3, <1>4, <2>1, <2>2, <2>3, <2>4
  <2>6. \A p, m : m \in Moves(k, p)' <=>
                    \/ m \in Moves(k, p)
                    \/ m \in n + 1 .. n + Len(ev) /\ IsMove(ev[m - n], p)
    BY <1>1, <1>3, <1>4, <2>1, <2>2, <2>3, <2>4
  <2>7. ActionsAdded(k, n, ev)
    BY <2>5, <2>6 DEF ActionsAdded
  <2>. QED
    BY <1>1, <1>3, <1>4, <1>6, <2>7
<1>. QED
  BY <1>5, <1>6

\* The open turn alone changes, so only it has to be looked at.
LEMMA OneActionGrown ==
    ASSUME OneActionPerTurn, NEW ev, Grown(turns, turns', ev), NEW open, open = Len(turns),
           open # 1 => /\ Cardinality(Actions(open)') <= players_count
                       /\ \A p \in PlayerId : Cardinality(Moves(open, p)') <= 1
    PROVE  OneActionPerTurn'
<1>1. DOMAIN turns = 1 .. Len(turns) /\ DOMAIN turns' = 1 .. Len(turns)
  BY LenProperties DEF Grown
<1>2. ASSUME NEW k \in DOMAIN turns' \ {1}, k # open
      PROVE  /\ Cardinality(Actions(k)') <= players_count
             /\ \A p \in PlayerId : Cardinality(Moves(k, p)') <= 1
  <2>1. Actions(k)' = Actions(k) /\ \A p : Moves(k, p)' = Moves(k, p)
    BY <1>1, <1>2, ActionsGrown
  <2>. QED
    BY <1>1, <2>1 DEF OneActionPerTurn
<1>. QED
  BY <1>2 DEF OneActionPerTurn

\* Numbers about the players of a gameplay.
LEMMA ServedPlayers ==
    ASSUME EngineInv, gameplay_started
    PROVE  /\ Served \subseteq DOMAIN players /\ IsFiniteSet(DOMAIN players)
           /\ Cardinality(DOMAIN players) = players_count
           /\ players_count \in Nat
           /\ IsFiniteSet(Served) /\ Cardinality(Served) \in Nat
           /\ IsFiniteSet(current_players_to_destroy)
           /\ Cardinality(current_players_to_destroy) \in Nat
           /\ Cardinality(Served) + Cardinality(current_players_to_destroy) <= players_count
           /\ Served \cap current_players_to_destroy = {}
<1>1. /\ DOMAIN players = 0 .. players_count - 1 /\ players_count \in Nat
  BY GameParams DEF EngineInv, IdsConsistent
<1>2. IsFiniteSet(DOMAIN players) /\ Cardinality(DOMAIN players) = players_count
  BY <1>1, FS_Interval
<1>3. Served \subseteq DOMAIN players /\ Served \cap current_players_to_destroy = {}
  BY DEF Served, EngineInv, IdsConsistent
<1>4. current_players_to_destroy \subseteq DOMAIN players
  BY InGameTypes
<1>5. /\ IsFiniteSet(Served) /\ IsFiniteSet(current_players_to_destroy)
      /\ Cardinality(Served) \in Nat /\ Cardinality(current_players_to_destroy) \in Nat
  <2>1. Served \in SUBSET DOMAIN players /\ current_players_to_destroy \in SUBSET DOMAIN players
    BY <1>3, <1>4
  <2>2. IsFiniteSet(Served) /\ IsFiniteSet(current_players_to_destroy)
    BY <1>2, <2>1, FS_Subset
  <2>. QED
    BY <2>2, FS_CardinalityType
<1>6. Cardinality(Served \cup current_players_to_destroy)
        = Cardinality(Served) + Cardinality(current_players_to_destroy)
  <2>1. Cardinality(Served \cup current_players_to_destroy)
          = Cardinality(Served) + Cardinality(current_players_to_destroy) - Cardinality({})
    BY <1>3, <1>5, FS_Union
  <2>. QED
    BY <1>5, <2>1, FS_EmptySet
<1>7. Cardinality(Served \cup current_players_to_destroy) <= players_count
  <2>1. Served \cup current_players_to_destroy \in SUBSET DOMAIN players
    BY <1>3, <1>4
  <2>. QED
    BY <1>2, <2>1, FS_Subset
<1>. QED
  BY <1>1, <1>2, <1>3, <1>5, <1>6, <1>7

\* A new turn has no actions.
LEMMA ActionsOpens ==
    ASSUME EngineInv, OneActionPerTurn, Opens
    PROVE  OpenTurnServed' /\ OneActionPerTurn'
<1>1. /\ gameplay_started /\ gameplay_started' /\ phase' = "bombs"
  BY DEF Opens, lobby
<1>2. /\ turns \in Seq(TurnInfo) /\ DOMAIN turns = 1 .. Len(turns) /\ Len(turns) \in Nat
      /\ current_turn \in Nat
  BY <1>1, InGameTypes
<1>3. current_turn' \in 0 .. U16 - 1
  <2>1. current_turn < game_length
    BY DEF EngineInv, PhaseAgrees, Opens
  <2>. QED
    BY <1>2, <2>1, GameParams DEF Opens
<1>4. /\ turns' \in Seq(TurnInfo) /\ Len(turns') = Len(turns) + 1
      /\ \A k \in 1 .. Len(turns) : turns'[k] = turns[k]
      /\ turns'[Len(turns) + 1].events = <<>>
  BY <1>2, <1>3, OpenedLog DEF Opens
<1>5. DOMAIN turns' = 1 .. Len(turns) + 1
  BY <1>2, <1>4, LenProperties
<1>6. turns'[Len(turns')].events = <<>>
  BY <1>4
<1>7. OpenTurnServed'
  BY <1>1, <1>6 DEF OpenTurnServed, Actions
<1>8. ASSUME NEW k \in DOMAIN turns' \ {1}
      PROVE  /\ Cardinality(Actions(k)') <= players_count
             /\ \A p \in PlayerId : Cardinality(Moves(k, p)') <= 1
  <2>1. CASE k \in DOMAIN turns
    <3>1. turns'[k] = turns[k]
      BY <1>2, <1>4, <2>1
    <3>2. Actions(k)' = Actions(k) /\ \A p : Moves(k, p)' = Moves(k, p)
      BY <3>1 DEF Actions, Moves, IsMove
    <3>. QED
      BY <1>8, <2>1, <3>2 DEF OneActionPerTurn
  <2>2. CASE k \notin DOMAIN turns
    <3>1. turns'[k].events = <<>>
      BY <1>2, <1>4, <1>5, <2>2
    <3>2. Actions(k)' = {} /\ \A p : Moves(k, p)' = {}
      BY <3>1 DEF Actions, Moves, IsMove
    <3>. QED
      BY <3>2, FS_EmptySet, GameParams
  <2>. QED
    BY <2>1, <2>2
<1>9. OneActionPerTurn'
  BY <1>8 DEF OneActionPerTurn
<1>. QED
  BY <1>7, <1>9

\* An explosion is no action.
LEMMA ActionsExplodes ==
    ASSUME EngineInv, OpenTurnServed, OneActionPerTurn,
           NEW b, NEW robots, NEW blocks, Explodes(b, robots, blocks)
    PROVE  OpenTurnServed' /\ OneActionPerTurn'
<1>1. /\ gameplay_started /\ gameplay_started' /\ phase = "bombs" /\ phase' = "bombs"
      /\ current_turn' = current_turn
  BY DEF Explodes, Adds, Ticks
<1>2. PICK ev : ev = <<Bomb_exploded(b, robots, blocks)>>
  OBVIOUS
<1>3. Grown(turns, turns', ev) /\ Len(ev) = 1 /\ ev[1].code = "Bomb_exploded"
  BY <1>2 DEF Explodes, Adds, Bomb_exploded
<1>4. PICK open : open = Len(turns)
  OBVIOUS
<1>5. open \in 1 .. Len(turns) /\ open \in DOMAIN turns /\ open = Len(turns')
  BY <1>3, <1>4, LenProperties DEF Grown
<1>6. Actions(open)' = Actions(open) /\ \A p : Moves(open, p)' = Moves(open, p)
  <2>1. PICK n : n = Len(turns[open].events)
    OBVIOUS
  <2>2. /\ \A m : m \in Actions(open)' <=>
                    \/ m \in Actions(open)
                    \/ m \in n + 1 .. n + Len(ev) /\ ev[m - n].code # "Bomb_exploded"
        /\ \A p, m : m \in Moves(open, p)' <=>
                    \/ m \in Moves(open, p)
                    \/ m \in n + 1 .. n + Len(ev) /\ IsMove(ev[m - n], p)
        /\ n \in Nat
    <3>1. ActionsAdded(open, n, ev) /\ n \in Nat
      BY <1>3, <1>4, <1>5, <2>1, ActionsGrown
    <3>. QED
      BY <3>1 DEF ActionsAdded
  <2>3. \A m \in n + 1 .. n + Len(ev) : m - n = 1
    BY <1>3, <2>2
  <2>4. \A m \in n + 1 .. n + Len(ev) :
          ev[m - n].code = "Bomb_exploded" /\ \A p : ~IsMove(ev[m - n], p)
    BY <1>3, <2>3 DEF IsMove
  <2>5. \A m : m \in Actions(open)' <=> m \in Actions(open)
    BY <2>2, <2>4
  <2>6. \A p, m : m \in Moves(open, p)' <=> m \in Moves(open, p)
    BY <2>2, <2>4
  <2>7. Actions(open)' = Actions(open)
    BY <2>5
  <2>8. \A p : Moves(open, p)' = Moves(open, p)
    BY <2>6
  <2>. QED
    BY <2>7, <2>8
<1>7. OpenTurnServed'
  <2>1. current_turn > 0 => Actions(open) = {}
    BY <1>1, <1>4 DEF OpenTurnServed
  <2>2. current_turn > 0 => Actions(Len(turns))' = {}
    BY <1>5, <1>6, <2>1 DEF Actions
  <2>. QED
    BY <1>1, <2>2 DEF OpenTurnServed
<1>8. OneActionPerTurn'
  <2>1. open # 1 => /\ Cardinality(Actions(open)') <= players_count
                    /\ \A p \in PlayerId : Cardinality(Moves(open, p)') <= 1
    BY <1>5, <1>6 DEF OneActionPerTurn
  <2>. QED
    BY <1>3, <1>4, <2>1, OneActionGrown
<1>. QED
  BY <1>7, <1>8

\* One event is added to the open turn.
LEMMA OneMoreAction ==
    ASSUME NEW e, Grown(turns, turns', <<e>>), e.code # "Bomb_exploded",
           NEW open, open = Len(turns)
    PROVE  /\ IsFiniteSet(Actions(open))
           /\ Cardinality(Actions(open)) \in Nat
           /\ Cardinality(Actions(open)') = Cardinality(Actions(open)) + 1
           /\ \A p : ~IsMove(e, p) => Moves(open, p)' = Moves(open, p)
           /\ \A p : IsMove(e, p) /\ Moves(open, p) = {} => Cardinality(Moves(open, p)') = 1
<1>1. open \in 1 .. Len(turns) /\ turns \in Seq(TurnInfo)
  BY LenProperties DEF Grown
<1>2. PICK ev : ev = <<e>>
  OBVIOUS
<1>3. Len(ev) = 1 /\ ev[1] = e /\ Grown(turns, turns', ev)
  BY <1>2
<1>4. PICK n : n = Len(turns[open].events)
  OBVIOUS
<1>5. /\ \A m : m \in Actions(open)' <=>
                    \/ m \in Actions(open)
                    \/ m \in n + 1 .. n + Len(ev) /\ ev[m - n].code # "Bomb_exploded"
      /\ \A p, m : m \in Moves(open, p)' <=>
                    \/ m \in Moves(open, p)
                    \/ m \in n + 1 .. n + Len(ev) /\ IsMove(ev[m - n], p)
      /\ n \in Nat /\ Actions(open) \subseteq 1 .. n
  <2>1. ActionsAdded(open, n, ev) /\ n \in Nat /\ Actions(open) \subseteq 1 .. n
    BY <1>1, <1>3, <1>4, ActionsGrown
  <2>. QED
    BY <2>1 DEF ActionsAdded
<1>6. /\ \A m : m \in n + 1 .. n + Len(ev) <=> m = n + 1
      /\ (n + 1) - n = 1
  BY <1>3, <1>5
<1>7. Actions(open)' = Actions(open) \cup {n + 1}
  <2>1. \A m : m \in Actions(open)' <=> m \in Actions(open) \/ m = n + 1
    BY <1>3, <1>5, <1>6
  <2>. QED
    BY <2>1
<1>8. \A p, m : m \in Moves(open, p)' <=> m \in Moves(open, p) \/ (m = n + 1 /\ IsMove(e, p))
  BY <1>3, <1>5, <1>6
<1>9. IsFiniteSet(Actions(open)) /\ Cardinality(Actions(open)) \in Nat
  BY <1>1, ActionsFinite
<1>10. n + 1 \notin Actions(open)
  BY <1>5
<1>11. Cardinality(Actions(open)') = Cardinality(Actions(open)) + 1
  BY <1>7, <1>9, <1>10, FS_AddElement
<1>12. ASSUME NEW p, ~IsMove(e, p) PROVE Moves(open, p)' = Moves(open, p)
  <2>1. \A m : m \in Moves(open, p)' <=> m \in Moves(open, p)
    BY <1>8, <1>12
  <2>. QED
    BY <2>1
<1>13. ASSUME NEW p, IsMove(e, p), Moves(open, p) = {}
       PROVE  Cardinality(Moves(open, p)') = 1
  <2>1. Moves(open, p)' = {n + 1}
    BY <1>8, <1>13
  <2>. QED
    BY <2>1, FS_Singleton
<1>. QED
  BY <1>9, <1>11, <1>12, <1>13

\* Descriptors are positions of an array.
LEMMA SlotNumbers ==
    ASSUME EngineInv
    PROVE  cursor \in Nat /\ DOMAIN player_ids \subseteq Nat
<1>1. cursor \in 1 .. conn_max /\ DOMAIN player_ids \subseteq Slot
  BY DEF EngineInv, TypeOK, Map
<1>2. Slot \subseteq Nat /\ 1 .. conn_max \subseteq Nat
  BY GameParams DEF Slot
<1>. QED
  BY <1>1, <1>2

\* A client acts once a round: the cursor has not passed it before and does then.
LEMMA ActionsActs ==
    ASSUME EngineInv, OpenTurnServed, OneActionPerTurn, NEW i, NEW e, ActsWith(i, e)
    PROVE  OpenTurnServed' /\ OneActionPerTurn'
<1>1. /\ gameplay_started /\ gameplay_started' /\ phase = "serve" /\ phase' = "serve"
      /\ current_turn' = current_turn /\ player_ids' = player_ids
      /\ current_players_to_destroy' = current_players_to_destroy
      /\ Grown(turns, turns', <<e>>) /\ cursor' = i + 1 /\ cursor <= i
      /\ i \in Slot /\ MayAct(i)
  BY DEF ActsWith, Adds, lobby
<1>2. e.code # "Bomb_exploded"
  BY ActsEvent
<1>3. PICK open : open = Len(turns)
  OBVIOUS
<1>4. open \in 1 .. Len(turns) /\ open \in DOMAIN turns /\ open = Len(turns')
  BY <1>1, <1>3, LenProperties DEF Grown
<1>5. current_turn \in Nat /\ open = current_turn + 1
  BY <1>1, <1>3, InGameTypes
<1>6. i \in DOMAIN player_ids /\ i \in Nat /\ cursor \in Nat /\ DOMAIN player_ids \subseteq Nat
  BY <1>1, SlotNumbers DEF MayAct
<1>7. /\ player_ids[i] \notin Served
      /\ Served \cup {player_ids[i]} \subseteq Served'
  <2>1. player_ids[i] \notin current_players_to_destroy
    BY <1>1 DEF MayAct
  <2>2. \A j \in DOMAIN player_ids : player_ids[j] = player_ids[i] => j = i
    BY <1>6 DEF EngineInv, IdsConsistent
  <2>3. player_ids[i] \notin Served
    BY <1>1, <1>6, <2>2 DEF Served
  <2>4. \A j \in DOMAIN player_ids : j < cursor => j < cursor'
    BY <1>1, <1>6
  <2>5. i < cursor'
    BY <1>1, <1>6
  <2>6. Served \cup {player_ids[i]} \subseteq Served'
    BY <1>1, <1>6, <2>1, <2>4, <2>5 DEF Served
  <2>. QED
    BY <2>3, <2>6
<1>8. /\ IsFiniteSet(Served) /\ Cardinality(Served) \in Nat
      /\ Cardinality(Served) <= players_count /\ players_count \in Nat
      /\ Cardinality(Served) + 1 <= players_count
      /\ Cardinality(Served) + 1 <= Cardinality(Served') /\ Cardinality(Served') \in Nat
  <2>1. /\ Served \cup {player_ids[i]} \subseteq DOMAIN players
        /\ IsFiniteSet(DOMAIN players) /\ Cardinality(DOMAIN players) = players_count
        /\ IsFiniteSet(Served) /\ Cardinality(Served) \in Nat /\ players_count \in Nat
    BY <1>1, <1>6, ServedPlayers DEF EngineInv, IdsConsistent
  <2>2. Cardinality(Served \cup {player_ids[i]}) = Cardinality(Served) + 1
    BY <1>7, <2>1, FS_AddElement
  <2>3. Served' \subseteq DOMAIN players
    BY <1>1 DEF Served, EngineInv, IdsConsistent
  <2>4. IsFiniteSet(Served') /\ Served \cup {player_ids[i]} \in SUBSET Served'
    BY <1>7, <2>1, <2>3, FS_Subset
  <2>5. Cardinality(Served \cup {player_ids[i]}) <= Cardinality(Served')
    BY <2>4, FS_Subset
  <2>6. Cardinality(Served \cup {player_ids[i]}) <= players_count
    <3>1. Served \cup {player_ids[i]} \in SUBSET DOMAIN players
      BY <2>1
    <3>. QED
      BY <2>1, <3>1, FS_Subset
  <2>7. Cardinality(Served') \in Nat
    BY <2>4, FS_CardinalityType
  <2>. QED
    BY <2>1, <2>2, <2>5, <2>6, <2>7
<1>9. /\ Cardinality(Actions(open)) \in Nat
      /\ Cardinality(Actions(open)') = Cardinality(Actions(open)) + 1
      /\ \A p : ~IsMove(e, p) => Moves(open, p)' = Moves(open, p)
      /\ \A p : IsMove(e, p) /\ Moves(open, p) = {} => Cardinality(Moves(open, p)') = 1
  BY <1>1, <1>2, <1>3, OneMoreAction
<1>10. \A p : IsMove(e, p) => p = player_ids[i]
  <2>1. CASE \E new \in Position : e = Player_moved(player_ids[i], new)
    BY <2>1 DEF Player_moved, IsMove
  <2>2. CASE e.code # "Player_moved"
    BY <2>2 DEF IsMove
  <2>3. CASE \E position \in Position : e = Bomb_placed(next_bomb_id, position)
    BY <2>3 DEF Bomb_placed, IsMove
  <2>. QED
    BY <2>1, <2>2, <2>3 DEF ActsWith
<1>11. current_turn > 0 =>
        /\ Cardinality(Actions(open)) <= Cardinality(Served)
        /\ \A p \in PlayerId : Moves(open, p) # {} => p \in Served
  BY <1>1, <1>3 DEF OpenTurnServed
<1>12. /\ Actions(Len(turns))' = Actions(open)'
       /\ \A p : Moves(Len(turns), p)' = Moves(open, p)'
  BY <1>4 DEF Actions, Moves
<1>13. current_turn > 0 =>
        /\ Cardinality(Actions(open)') <= Cardinality(Served')
        /\ Cardinality(Actions(open)') <= players_count
  BY <1>8, <1>9, <1>11
<1>14. ASSUME current_turn > 0, NEW p \in PlayerId
       PROVE  /\ Moves(open, p)' # {} => p \in Served'
              /\ Cardinality(Moves(open, p)') <= 1
  <2>1. Cardinality(Moves(open, p)) <= 1
    BY <1>4, <1>5, <1>14 DEF OneActionPerTurn
  <2>2. CASE IsMove(e, p)
    <3>1. p = player_ids[i] /\ Moves(open, p) = {}
      BY <1>7, <1>10, <1>11, <1>14, <2>2
    <3>2. Cardinality(Moves(open, p)') = 1
      BY <1>9, <2>2, <3>1
    <3>. QED
      BY <1>7, <3>1, <3>2
  <2>3. CASE ~IsMove(e, p)
    BY <1>7, <1>9, <1>11, <1>14, <2>1, <2>3
  <2>. QED
    BY <2>2, <2>3
<1>15. OpenTurnServed'
  BY <1>1, <1>12, <1>13, <1>14 DEF OpenTurnServed
<1>16. OneActionPerTurn'
  BY <1>1, <1>3, <1>5, <1>13, <1>14, OneActionGrown
<1>. QED
  BY <1>15, <1>16

\* An enumeration in ascending order repeats nothing.
LEMMA AscendingDiffer ==
    ASSUME NEW S, S \subseteq Int, IsFiniteSet(S), NEW f \in Ascending(S)
    PROVE  /\ Len(f) = Cardinality(S) /\ Len(f) \in Nat
           /\ \A m, n \in 1 .. Len(f) : f[m] = f[n] => m = n
<1>1. Cardinality(S) \in Nat
  BY FS_CardinalityType
<1>2. /\ f \in [1 .. Cardinality(S) -> S] /\ DOMAIN f = 1 .. Cardinality(S)
      /\ \A i, j \in DOMAIN f : i < j => f[i] < f[j]
  BY DEF Ascending
<1>3. f \in Seq(S) /\ Len(f) = Cardinality(S)
  BY <1>1, <1>2
<1>4. ASSUME NEW m \in DOMAIN f, NEW n \in DOMAIN f, f[m] = f[n] PROVE m = n
  <2>1. f[m] \in Int
    BY <1>2
  <2>2. ~(m < n) /\ ~(n < m)
    BY <1>2, <1>4, <2>1
  <2>. QED
    BY <1>1, <1>2, <2>2
<1>. QED
  BY <1>1, <1>2, <1>3, <1>4

\* Respawned robots have not acted, and each respawns once.
LEMMA ActionsSummarises ==
    ASSUME EngineInv, OpenTurnServed, OneActionPerTurn,
           NEW ids, NEW field, Summarises(ids, field)
    PROVE  OpenTurnServed' /\ OneActionPerTurn'
<1>. DEFINE S == current_players_to_destroy
<1>1. PICK ev : ev = SeedEvents(ids, field)
  OBVIOUS
<1>2. /\ gameplay_started /\ gameplay_started' /\ phase = "serve" /\ phase' = "loop"
      /\ Grown(turns, turns', ev) /\ ids \in Ascending(S)
  BY <1>1 DEF Summarises, Adds
<1>3. PICK open : open = Len(turns)
  OBVIOUS
<1>4. open \in 1 .. Len(turns) /\ open \in DOMAIN turns
  BY <1>2, <1>3, LenProperties DEF Grown
<1>5. current_turn \in Nat /\ open = current_turn + 1 /\ turns \in Seq(TurnInfo)
      /\ S \subseteq PlayerId
  <2>1. S \subseteq DOMAIN players /\ DOMAIN players \subseteq PlayerId
    BY <1>2, InGameTypes
  <2>. QED
    BY <1>2, <1>3, <2>1, InGameTypes
<1>6. /\ IsFiniteSet(S) /\ Cardinality(S) \in Nat /\ Cardinality(Served) \in Nat
      /\ Cardinality(Served) + Cardinality(S) <= players_count /\ players_count \in Nat
      /\ Served \cap S = {}
  BY <1>2, ServedPlayers
<1>. HIDE DEF S
<1>7. /\ Len(ids) = Cardinality(S)
      /\ \A m, n \in 1 .. Len(ids) : ids[m] = ids[n] => m = n
  <2>1. S \subseteq Int
    BY <1>5, GameParams DEF PlayerId
  <2>. QED
    BY <1>2, <1>6, <2>1, AscendingDiffer
<1>8. /\ Len(ev) = Cardinality(S)
      /\ \A m \in 1 .. Len(ev) : /\ ids[m] \in S /\ ev[m].code = "Player_moved"
                                 /\ \A p : IsMove(ev[m], p) <=> p = ids[m]
  <2>1. /\ Len(ev) = Len(ids) /\ Len(ids) \in Nat
        /\ \A m \in 1 .. Len(ids) : /\ ids[m] \in S
                                    /\ ev[m] = Player_moved(ids[m], field[ids[m]])
    BY <1>1, <1>2, <1>5, SeedEventsAre
  <2>2. \A m \in 1 .. Len(ids) : ev[m].code = "Player_moved" /\ ev[m].id = ids[m]
    <3>. SUFFICES ASSUME NEW m \in 1 .. Len(ids)
                  PROVE  ev[m].code = "Player_moved" /\ ev[m].id = ids[m]
      OBVIOUS
    <3>1. PICK e : e = Player_moved(ids[m], field[ids[m]])
      OBVIOUS
    <3>2. e.code = "Player_moved" /\ e.id = ids[m]
      BY <3>1 DEF Player_moved
    <3>. QED
      BY <2>1, <3>1, <3>2
  <2>. QED
    BY <1>7, <2>1, <2>2 DEF IsMove
<1>9. PICK n : n = Len(turns[open].events)
  OBVIOUS
<1>10. /\ \A m : m \in Actions(open)' <=>
                    \/ m \in Actions(open)
                    \/ m \in n + 1 .. n + Len(ev) /\ ev[m - n].code # "Bomb_exploded"
       /\ \A p, m : m \in Moves(open, p)' <=>
                    \/ m \in Moves(open, p)
                    \/ m \in n + 1 .. n + Len(ev) /\ IsMove(ev[m - n], p)
       /\ n \in Nat /\ Actions(open) \subseteq 1 .. n /\ Len(ev) \in Nat
  <2>1. /\ ActionsAdded(open, n, ev) /\ n \in Nat
        /\ Actions(open) \subseteq 1 .. n /\ Len(ev) \in Nat
    BY <1>2, <1>3, <1>4, <1>9, ActionsGrown
  <2>. QED
    BY <2>1 DEF ActionsAdded
<1>11. \A m \in n + 1 .. n + Len(ev) : m - n \in 1 .. Len(ev)
  BY <1>10
<1>12. open # 1 => Cardinality(Actions(open)') <= players_count
  <2>1. Actions(open)' = Actions(open) \cup (n + 1 .. n + Len(ev))
    <3>1. \A m : m \in Actions(open)' <=> m \in Actions(open) \/ m \in n + 1 .. n + Len(ev)
      BY <1>8, <1>10, <1>11
    <3>. QED
      BY <3>1
  <2>2. /\ IsFiniteSet(n + 1 .. n + Len(ev)) /\ Cardinality(n + 1 .. n + Len(ev)) = Len(ev)
    <3>1. n + 1 \in Int /\ n + Len(ev) \in Int
      BY <1>10
    <3>2. /\ IsFiniteSet(n + 1 .. n + Len(ev))
          /\ Cardinality(n + 1 .. n + Len(ev))
                = IF n + 1 > n + Len(ev) THEN 0 ELSE (n + Len(ev)) - (n + 1) + 1
      BY <3>1, FS_Interval
    <3>. QED
      BY <1>10, <3>2
  <2>3. IsFiniteSet(Actions(open)) /\ Cardinality(Actions(open)) \in Nat
    BY <1>3, <1>4, <1>5, ActionsFinite
  <2>4. Actions(open) \cap (n + 1 .. n + Len(ev)) = {}
    BY <1>10
  <2>5. Cardinality(Actions(open) \cup (n + 1 .. n + Len(ev)))
          = Cardinality(Actions(open)) + Cardinality(n + 1 .. n + Len(ev)) - Cardinality({})
    <3>1. PICK B : B = n + 1 .. n + Len(ev)
      OBVIOUS
    <3>2. Cardinality(Actions(open) \cup B)
            = Cardinality(Actions(open)) + Cardinality(B) - Cardinality(Actions(open) \cap B)
      BY <2>2, <2>3, <3>1, FS_Union
    <3>. QED
      BY <2>4, <3>1, <3>2
  <2>6. Cardinality(Actions(open)') = Cardinality(Actions(open)) + Cardinality(S)
    BY <1>8, <1>10, <2>1, <2>2, <2>3, <2>5, FS_EmptySet
  <2>7. open # 1 => Cardinality(Actions(open)) <= Cardinality(Served)
    BY <1>2, <1>3, <1>5 DEF OpenTurnServed
  <2>. QED
    BY <1>6, <2>3, <2>6, <2>7
<1>13. ASSUME open # 1, NEW p \in PlayerId PROVE Cardinality(Moves(open, p)') <= 1
  <2>1. /\ Cardinality(Moves(open, p)) <= 1
        /\ Moves(open, p) # {} => p \in Served
    BY <1>2, <1>3, <1>4, <1>5, <1>13 DEF OneActionPerTurn, OpenTurnServed
  <2>2. \A m : m \in Moves(open, p)' <=> \/ m \in Moves(open, p)
                                         \/ m \in n + 1 .. n + Len(ev) /\ p = ids[m - n]
    BY <1>8, <1>10, <1>11
  <2>3. CASE p \notin S
    <3>1. \A m : m \in Moves(open, p)' <=> m \in Moves(open, p)
      BY <1>8, <1>11, <2>2, <2>3
    <3>2. Moves(open, p)' = Moves(open, p)
      BY <3>1
    <3>. QED
      BY <2>1, <3>2
  <2>4. CASE p \in S
    <3>1. Moves(open, p) = {}
      BY <1>6, <2>1, <2>4
    <3>2. \A m, l \in Moves(open, p)' : m = l
      <4>. SUFFICES ASSUME NEW m \in Moves(open, p)', NEW l \in Moves(open, p)' PROVE m = l
        OBVIOUS
      <4>1. /\ m \in n + 1 .. n + Len(ev) /\ p = ids[m - n]
            /\ l \in n + 1 .. n + Len(ev) /\ p = ids[l - n]
        BY <2>2, <3>1
      <4>2. m - n = l - n
        BY <1>7, <1>8, <1>11, <4>1
      <4>. QED
        BY <1>10, <4>1, <4>2
    <3>3. CASE Moves(open, p)' = {}
      BY <3>3, FS_EmptySet
    <3>4. CASE Moves(open, p)' # {}
      <4>1. PICK m : m \in Moves(open, p)'
        BY <3>4
      <4>2. Moves(open, p)' = {m}
        BY <3>2, <4>1
      <4>3. Cardinality({m}) = 1
        BY FS_Singleton
      <4>. QED
        BY <4>2, <4>3
    <3>. QED
      BY <3>3, <3>4
  <2>. QED
    BY <2>3, <2>4
<1>14. OpenTurnServed'
  BY <1>2 DEF OpenTurnServed
<1>15. OneActionPerTurn'
  BY <1>2, <1>3, <1>12, <1>13, OneActionGrown
<1>. QED
  BY <1>14, <1>15

\* One case per kind of step.
LEMMA ActionsStep ==
    ASSUME EngineInv, EngineInv', OpenTurnServed, OneActionPerTurn, Kinds
    PROVE  OpenTurnServed' /\ OneActionPerTurn'
<1>1. CASE Quiet
  <2>1. /\ UNCHANGED <<gameplay_started, player_ids, players, turns, current_turn,
                       current_players_to_destroy>>
        /\ gameplay_started =>
            /\ phase' = "loop" <=> phase = "loop"
            /\ phase = "serve" => phase' = "serve" /\ cursor <= cursor'
    BY <1>1 DEF Quiet, lobby
  <2>2. \A k : Actions(k)' = Actions(k) /\ \A p : Moves(k, p)' = Moves(k, p)
    BY <2>1 DEF Actions, Moves, IsMove
  <2>3. OneActionPerTurn'
    BY <2>1, <2>2 DEF OneActionPerTurn
  <2>4. ASSUME gameplay_started, current_turn > 0, phase' # "loop"
        PROVE  IF phase' = "serve"
               THEN /\ Cardinality(Actions(Len(turns))) <= Cardinality(Served')
                    /\ \A p \in PlayerId : Moves(Len(turns), p) # {} => p \in Served'
               ELSE Actions(Len(turns)) = {}
    <3>1. IF phase = "serve"
          THEN /\ Cardinality(Actions(Len(turns))) <= Cardinality(Served)
               /\ \A p \in PlayerId : Moves(Len(turns), p) # {} => p \in Served
          ELSE Actions(Len(turns)) = {}
      BY <2>1, <2>4 DEF OpenTurnServed
    <3>2. IsFiniteSet(Served') /\ Cardinality(Served') \in Nat
      <4>1. Served' \subseteq DOMAIN players
        BY <2>1 DEF Served, EngineInv, IdsConsistent
      <4>2. IsFiniteSet(DOMAIN players)
        BY <2>4, ServedPlayers
      <4>3. IsFiniteSet(Served')
        BY <4>1, <4>2, FS_Subset
      <4>. QED
        BY <4>3, FS_CardinalityType
    <3>3. CASE phase = "serve"
      <4>1. \A j \in DOMAIN player_ids : j < cursor => j < cursor'
        <5>1. cursor \in Nat /\ cursor' \in Nat /\ DOMAIN player_ids \subseteq Nat
          BY SlotNumbers, GameParams DEF EngineInv, TypeOK
        <5>. QED
          BY <2>1, <2>4, <3>3, <5>1
      <4>2. Served \in SUBSET Served'
        BY <2>1, <4>1 DEF Served
      <4>3. Cardinality(Served) <= Cardinality(Served')
        BY <3>2, <4>2, FS_Subset
      <4>4. Cardinality(Served) \in Nat /\ Cardinality(Actions(Len(turns))) \in Nat
        BY <2>4, ServedPlayers, InGameTypes, ActionsFinite
      <4>5. Cardinality(Actions(Len(turns))) <= Cardinality(Served')
        BY <2>4, <3>1, <3>2, <3>3, <4>3, <4>4
      <4>. QED
        BY <2>1, <2>4, <3>1, <3>3, <4>2, <4>5
    <3>4. CASE phase # "serve"
      <4>1. Actions(Len(turns)) = {} /\ \A p : Moves(Len(turns), p) = {}
        BY <3>1, <3>4, <2>4, InGameTypes, ActionsFinite
      <4>. QED
        BY <3>2, <4>1, FS_EmptySet
    <3>. QED
      BY <3>3, <3>4
  <2>5. Actions(Len(turns))' = Actions(Len(turns))
        /\ \A p : Moves(Len(turns), p)' = Moves(Len(turns), p)
    BY <2>1 DEF Actions, Moves, IsMove
  <2>6. OpenTurnServed'
    BY <2>1, <2>4, <2>5 DEF OpenTurnServed
  <2>. QED
    BY <2>3, <2>6
<1>2. CASE Opens
  BY <1>2, ActionsOpens
<1>3. CASE Joins \/ Ends
  <2>1. ~gameplay_started' /\ turns' = <<>>
    BY <1>3 DEF Joins, Ends, EngineInv, InGameTablesAgree
  <2>. QED
    BY <2>1, EmptyMap DEF OpenTurnServed, OneActionPerTurn
<1>4. ASSUME NEW b, NEW robots, NEW blocks, Explodes(b, robots, blocks)
      PROVE  OpenTurnServed' /\ OneActionPerTurn'
  BY <1>4, ActionsExplodes
<1>5. ASSUME NEW i, NEW e, ActsWith(i, e) PROVE OpenTurnServed' /\ OneActionPerTurn'
  BY <1>5, ActionsActs
<1>6. ASSUME current_turn' = 0, gameplay_started' PROVE OpenTurnServed' /\ OneActionPerTurn'
  <2>1. turns' \in Seq(TurnInfo) /\ Len(turns') = 1
    BY <1>6 DEF EngineInv, TypeOK, InGameTablesAgree
  <2>2. DOMAIN turns' = {1}
    BY <2>1, LenProperties
  <2>. QED
    BY <1>6, <2>2 DEF OpenTurnServed, OneActionPerTurn
<1>7. ASSUME NEW e, Seeds(e) PROVE OpenTurnServed' /\ OneActionPerTurn'
  BY <1>6, <1>7 DEF Seeds, Adds
<1>8. ASSUME NEW ids, NEW field, Starts(ids, field)
      PROVE  OpenTurnServed' /\ OneActionPerTurn'
  BY <1>6, <1>8 DEF Starts
<1>9. ASSUME NEW ids, NEW field, Summarises(ids, field)
      PROVE  OpenTurnServed' /\ OneActionPerTurn'
  BY <1>9, ActionsSummarises
<1>. QED
  BY <1>1, <1>2, <1>3, <1>4, <1>5, <1>7, <1>8, <1>9 DEF Kinds

\* Whatever step is taken, the actions of the open turn are of players served.
LEMMA ServedAndActions == Spec => [](OpenTurnServed /\ OneActionPerTurn)
<1>1. Init => OpenTurnServed /\ OneActionPerTurn
  BY EmptyMap DEF Init, OpenTurnServed, OneActionPerTurn
<1>2. EngineInv /\ EngineInv' /\ OpenTurnServed /\ OneActionPerTurn /\ [Next]_vars
        => OpenTurnServed' /\ OneActionPerTurn'
  BY StepKinds, ActionsStep
<1>. QED
  BY <1>1, <1>2, EngineInvariant, PTL DEF Spec

\* handle_msg serves a descriptor once a round, player_ids gives two descriptors
\* never the same player and the checks of the handlers keep destroyed robots
\* from acting: a turn has at most one action of each player, at most
\* players_count together with the respawns.
THEOREM OneAction == Spec => []OneActionPerTurn
BY ServedAndActions, PTL

-----------------------------------------------------------------------------
(* Places of a log.                                                        *)

Places(ts) == UNION {{k} \X DOMAIN ts[k].events : k \in DOMAIN ts}
EventAt(ts, l) == ts[l[1]].events[l[2]]

\* The place of the n-th event that is added to the last turn of ts.
NewPlace(ts, n) == <<Len(ts), Len(ts[Len(ts)].events) + n>>

\* A place is a turn and an index in its events.
LEMMA PlacesAre ==
    ASSUME NEW ts \in Seq(TurnInfo)
    PROVE  /\ \A l \in Places(ts) :
                /\ l = <<l[1], l[2]>>
                /\ l[1] \in 1 .. Len(ts) /\ l[2] \in 1 .. Len(ts[l[1]].events)
                /\ l[1] \in Nat /\ l[2] \in Nat /\ EventAt(ts, l) \in Event
           /\ \A k \in 1 .. Len(ts) : \A n \in 1 .. Len(ts[k].events) : <<k, n>> \in Places(ts)
<1>1. DOMAIN ts = 1 .. Len(ts) /\ Len(ts) \in Nat
  BY LenProperties
<1>2. \A k \in 1 .. Len(ts) : /\ DOMAIN ts[k].events = 1 .. Len(ts[k].events)
                              /\ Len(ts[k].events) \in Nat
                              /\ ts[k].events \in Seq(Event)
  BY EventsType
<1>3. ASSUME NEW l \in Places(ts)
      PROVE  /\ l = <<l[1], l[2]>>
             /\ l[1] \in 1 .. Len(ts) /\ l[2] \in 1 .. Len(ts[l[1]].events)
             /\ l[1] \in Nat /\ l[2] \in Nat /\ EventAt(ts, l) \in Event
  <2>1. PICK k \in DOMAIN ts : l \in {k} \X DOMAIN ts[k].events
    BY DEF Places
  <2>2. PICK n \in DOMAIN ts[k].events : l = <<k, n>>
    BY <2>1
  <2>3. l[1] = k /\ l[2] = n /\ k \in Nat /\ n \in Nat
    BY <1>1, <1>2, <2>2
  <2>4. ts[k].events[n] \in Event
    BY <1>1, <1>2, ElementOfSeq
  <2>. QED
    BY <1>1, <1>2, <2>2, <2>3, <2>4 DEF EventAt
<1>4. ASSUME NEW k \in 1 .. Len(ts), NEW n \in 1 .. Len(ts[k].events)
      PROVE  <<k, n>> \in Places(ts)
  <2>1. <<k, n>> \in {k} \X DOMAIN ts[k].events
    BY <1>2
  <2>. QED
    BY <1>1, <2>1 DEF Places
<1>. QED
  BY <1>3, <1>4

\* A grown log has its old places and, after them, those of the new events.
LEMMA PlacesGrown ==
    ASSUME NEW ts, NEW us, NEW ev, Grown(ts, us, ev)
    PROVE  /\ \A l \in Places(ts) : l \in Places(us) /\ EventAt(us, l) = EventAt(ts, l)
           /\ \A l \in Places(us) : l \in Places(ts) \/ \E n \in 1 .. Len(ev) : l = NewPlace(ts, n)
           /\ \A n \in 1 .. Len(ev) :
                /\ NewPlace(ts, n) \in Places(us)
                /\ EventAt(us, NewPlace(ts, n)) = ev[n]
                /\ \A l \in Places(ts) : Before(l, NewPlace(ts, n)) /\ ~Before(NewPlace(ts, n), l)
                                            /\ l # NewPlace(ts, n)
                /\ \A m \in 1 .. Len(ev) : Before(NewPlace(ts, n), NewPlace(ts, m)) <=> n < m
                /\ \A m \in 1 .. Len(ev) : NewPlace(ts, n) = NewPlace(ts, m) => n = m
                /\ NewPlace(ts, n)[1] = Len(ts)
<1>1. /\ ts \in Seq(TurnInfo) /\ us \in Seq(TurnInfo) /\ ev \in Seq(Event)
      /\ Len(us) = Len(ts) /\ Len(ts) \in 1 .. Len(ts) /\ Len(ts) \in Nat /\ Len(ev) \in Nat
  BY LenProperties DEF Grown
<1>. DEFINE o == Len(ts)
            s == Len(ts[o].events)
<1>2. s \in Nat
  BY <1>1, EventsType
<1>3. /\ \A k \in 1 .. o : k # o => us[k].events = ts[k].events
      /\ Len(us[o].events) = s + Len(ev)
      /\ \A n \in 1 .. Len(us[o].events) :
            us[o].events[n] = IF n <= s THEN ts[o].events[n] ELSE ev[n - s]
      /\ \A k \in 1 .. o : Len(ts[k].events) <= Len(us[k].events)
      /\ \A k \in 1 .. o : \A n \in 1 .. Len(ts[k].events) : us[k].events[n] = ts[k].events[n]
      /\ \A k \in 1 .. o : Len(ts[k].events) \in Nat /\ Len(us[k].events) \in Nat
  <2>1. \A k \in 1 .. Len(ts) : Len(ts[k].events) \in Nat /\ Len(us[k].events) \in Nat
    BY <1>1, EventsType
  <2>2. \A k \in 1 .. Len(ts) :
            /\ k # Len(ts) => us[k].events = ts[k].events
            /\ Len(ts[k].events) <= Len(us[k].events)
            /\ \A n \in 1 .. Len(ts[k].events) : us[k].events[n] = ts[k].events[n]
    BY GrownEvents
  <2>3. PICK old \in Seq(Event) : old = ts[Len(ts)].events
    BY <1>1, EventsType
  <2>4. us[Len(ts)].events = old \o ev
    BY <2>3 DEF Grown
  <2>5. /\ Len(old \o ev) = Len(old) + Len(ev)
        /\ \A n \in 1 .. Len(old) + Len(ev) :
             (old \o ev)[n] = IF n <= Len(old) THEN old[n] ELSE ev[n - Len(old)]
    BY <1>1, ConcatProperties
  <2>. QED
    BY <1>1, <2>1, <2>2, <2>3, <2>4, <2>5
<1>4. \A n : NewPlace(ts, n) = <<o, s + n>> /\ NewPlace(ts, n)[1] = o /\ NewPlace(ts, n)[2] = s + n
  BY DEF NewPlace
<1>. HIDE DEF o, s
<1>5. o = Len(ts) /\ o \in 1 .. o /\ o \in Nat
  BY <1>1 DEF o
<1>6. ASSUME NEW l \in Places(ts) PROVE l \in Places(us) /\ EventAt(us, l) = EventAt(ts, l)
  <2>1. /\ l = <<l[1], l[2]>> /\ l[1] \in 1 .. o /\ l[2] \in 1 .. Len(ts[l[1]].events)
    BY <1>1, <1>5, PlacesAre
  <2>2. l[2] \in 1 .. Len(us[l[1]].events) /\ us[l[1]].events[l[2]] = ts[l[1]].events[l[2]]
    BY <1>3, <2>1
  <2>3. <<l[1], l[2]>> \in Places(us)
    BY <1>1, <1>5, <2>1, <2>2, PlacesAre
  <2>. QED
    BY <2>1, <2>2, <2>3 DEF EventAt
<1>7. ASSUME NEW l \in Places(us), l \notin Places(ts)
      PROVE  \E n \in 1 .. Len(ev) : l = NewPlace(ts, n)
  <2>1. /\ l = <<l[1], l[2]>> /\ l[1] \in 1 .. o /\ l[2] \in 1 .. Len(us[l[1]].events)
    BY <1>1, <1>5, PlacesAre
  <2>2. ~(l[2] \in 1 .. Len(ts[l[1]].events))
    <3>1. l[2] \in 1 .. Len(ts[l[1]].events) => <<l[1], l[2]>> \in Places(ts)
      BY <1>1, <1>5, <2>1, PlacesAre
    <3>. QED
      BY <1>7, <2>1, <3>1
  <2>3. l[1] = o
    BY <1>3, <2>1, <2>2
  <2>4. l[2] \in s + 1 .. s + Len(ev)
    <3>1. s = Len(ts[o].events) /\ l[2] \in 1 .. Len(us[o].events) /\ ~(l[2] \in 1 .. s)
      BY <2>1, <2>2, <2>3 DEF s
    <3>2. s \in Nat /\ Len(ev) \in Nat /\ Len(us[o].events) = s + Len(ev)
      BY <1>1, <1>2, <1>3, <3>1
    <3>. QED
      BY <3>1, <3>2
  <2>5. l[2] - s \in 1 .. Len(ev) /\ s + (l[2] - s) = l[2]
    BY <1>1, <1>2, <2>4
  <2>. QED
    BY <1>4, <2>1, <2>3, <2>5
<1>8. ASSUME NEW n \in 1 .. Len(ev)
      PROVE  NewPlace(ts, n) \in Places(us) /\ EventAt(us, NewPlace(ts, n)) = ev[n]
  <2>1. s + n \in 1 .. Len(us[o].events) /\ ~(s + n <= s) /\ (s + n) - s = n
    BY <1>1, <1>2, <1>3
  <2>2. us[o].events[s + n] = ev[n]
    BY <1>3, <2>1
  <2>3. <<o, s + n>> \in Places(us)
    BY <1>1, <1>5, <2>1, PlacesAre
  <2>. QED
    BY <1>4, <2>2, <2>3 DEF EventAt
<1>9. ASSUME NEW n \in 1 .. Len(ev), NEW l \in Places(ts)
      PROVE  Before(l, NewPlace(ts, n)) /\ ~Before(NewPlace(ts, n), l) /\ l # NewPlace(ts, n)
  <2>1. /\ l[1] \in 1 .. o /\ l[2] \in 1 .. Len(ts[l[1]].events)
    BY <1>1, <1>5, PlacesAre
  <2>2. l[1] = o => l[2] < s + n
    BY <1>1, <1>2, <2>1 DEF s
  <2>3. l[1] \in Nat /\ l[2] \in Nat /\ s + n \in Nat /\ l[1] <= o
    BY <1>1, <1>2, <1>3, <1>5, <2>1
  <2>. QED
    BY <1>4, <1>5, <2>2, <2>3 DEF Before
<1>10. \A n, m \in 1 .. Len(ev) :
        /\ Before(NewPlace(ts, n), NewPlace(ts, m)) <=> n < m
        /\ NewPlace(ts, n) = NewPlace(ts, m) => n = m
  BY <1>1, <1>2, <1>4, <1>5 DEF Before
<1>. QED
  BY <1>4, <1>5, <1>6, <1>7, <1>8, <1>9, <1>10

\* Opening a turn adds no place.
LEMMA PlacesOpened ==
    ASSUME NEW ts \in Seq(TurnInfo), NEW t \in 0 .. U16 - 1, NEW us,
           us = Append(ts, Turn_info(t))
    PROVE  Places(us) = Places(ts) /\ \A l \in Places(ts) : EventAt(us, l) = EventAt(ts, l)
<1>1. /\ us \in Seq(TurnInfo) /\ Len(us) = Len(ts) + 1 /\ Len(ts) \in Nat
      /\ \A k \in 1 .. Len(ts) : us[k] = ts[k]
      /\ us[Len(ts) + 1].events = <<>>
  BY OpenedLog, LenProperties
<1>2. DOMAIN us = 1 .. Len(ts) + 1 /\ DOMAIN ts = 1 .. Len(ts)
  BY <1>1, LenProperties
<1>3. ASSUME NEW l \in Places(ts) PROVE l \in Places(us) /\ EventAt(us, l) = EventAt(ts, l)
  <2>1. /\ l = <<l[1], l[2]>> /\ l[1] \in 1 .. Len(ts) /\ l[2] \in 1 .. Len(ts[l[1]].events)
    BY PlacesAre
  <2>2. l[1] \in 1 .. Len(us) /\ us[l[1]] = ts[l[1]]
    BY <1>1, <2>1
  <2>3. <<l[1], l[2]>> \in Places(us)
    BY <1>1, <2>1, <2>2, PlacesAre
  <2>. QED
    BY <2>1, <2>2, <2>3 DEF EventAt
<1>4. ASSUME NEW l \in Places(us) PROVE l \in Places(ts)
  <2>1. /\ l = <<l[1], l[2]>> /\ l[1] \in 1 .. Len(us) /\ l[2] \in 1 .. Len(us[l[1]].events)
    BY <1>1, PlacesAre
  <2>2. l[1] # Len(ts) + 1
    <3>1. Len(<<>>) = 0 /\ 1 .. 0 = {}
      OBVIOUS
    <3>. QED
      BY <1>1, <2>1, <3>1
  <2>3. l[1] \in 1 .. Len(ts) /\ us[l[1]] = ts[l[1]]
    BY <1>1, <2>1, <2>2
  <2>4. <<l[1], l[2]>> \in Places(ts)
    BY <2>1, <2>3, PlacesAre
  <2>. QED
    BY <2>1, <2>4
<1>. QED
  BY <1>3, <1>4
-----------------------------------------------------------------------------
(* Positions.                                                              *)

\* The last move of p in the log ts is to x.
Located(ts, p, x) ==
    \E l \in Places(ts) :
        /\ EventAt(ts, l) = Player_moved(p, x)
        /\ \A m \in Places(ts) : Before(l, m) => ~IsMove(EventAt(ts, m), p)

\* The property in terms of the log as a value.
LEMMA PositionsAreLocated ==
    /\ PositionsMatchLog <=>
        \A p \in DOMAIN players_positions : Located(turns, p, players_positions[p])
    /\ PositionsMatchLog' <=>
        \A p \in DOMAIN players_positions' : Located(turns', p, players_positions'[p])
BY DEF PositionsMatchLog, Located, Log, At, Places, EventAt

\* A robot that no new event moves stays where it was.
LEMMA LocatedStays ==
    ASSUME NEW ts, NEW us, NEW ev, Grown(ts, us, ev), NEW p, NEW x, Located(ts, p, x),
           \A n \in 1 .. Len(ev) : ~IsMove(ev[n], p)
    PROVE  Located(us, p, x)
<1>1. PICK l \in Places(ts) :
        /\ EventAt(ts, l) = Player_moved(p, x)
        /\ \A m \in Places(ts) : Before(l, m) => ~IsMove(EventAt(ts, m), p)
  BY DEF Located
<1>2. l \in Places(us) /\ EventAt(us, l) = Player_moved(p, x)
  BY <1>1, PlacesGrown
<1>3. ASSUME NEW m \in Places(us), Before(l, m) PROVE ~IsMove(EventAt(us, m), p)
  <2>1. CASE m \in Places(ts)
    BY <1>1, <1>3, <2>1, PlacesGrown
  <2>2. CASE m \notin Places(ts)
    <3>1. PICK n \in 1 .. Len(ev) : m = NewPlace(ts, n)
      BY <2>2, PlacesGrown
    <3>2. EventAt(us, m) = ev[n]
      BY <3>1, PlacesGrown
    <3>. QED
      BY <3>2
  <2>. QED
    BY <2>1, <2>2
<1>. QED
  BY <1>2, <1>3 DEF Located

\* The last move among the new events decides.
LEMMA LocatedMoves ==
    ASSUME NEW ts, NEW us, NEW ev, Grown(ts, us, ev), NEW p, NEW x,
           NEW n \in 1 .. Len(ev), ev[n] = Player_moved(p, x),
           \A m \in 1 .. Len(ev) : n < m => ~IsMove(ev[m], p)
    PROVE  Located(us, p, x)
<1>1. PICK l : l = NewPlace(ts, n)
  OBVIOUS
<1>2. l \in Places(us) /\ EventAt(us, l) = Player_moved(p, x)
  BY <1>1, PlacesGrown
<1>3. ASSUME NEW m \in Places(us), Before(l, m) PROVE ~IsMove(EventAt(us, m), p)
  <2>1. m \notin Places(ts)
    BY <1>1, <1>3, PlacesGrown
  <2>2. PICK i \in 1 .. Len(ev) : m = NewPlace(ts, i)
    BY <2>1, PlacesGrown
  <2>3. n < i
    BY <1>1, <1>3, <2>2, PlacesGrown
  <2>4. EventAt(us, m) = ev[i]
    BY <2>2, PlacesGrown
  <2>. QED
    BY <2>3, <2>4
<1>. QED
  BY <1>2, <1>3 DEF Located

\* Opening a turn moves nobody.
LEMMA LocatedOpened ==
    ASSUME NEW ts \in Seq(TurnInfo), NEW t \in 0 .. U16 - 1, NEW us,
           us = Append(ts, Turn_info(t)), NEW p, NEW x, Located(ts, p, x)
    PROVE  Located(us, p, x)
<1>1. Places(us) = Places(ts) /\ \A l \in Places(ts) : EventAt(us, l) = EventAt(ts, l)
  BY PlacesOpened
<1>2. PICK l \in Places(ts) :
        /\ EventAt(ts, l) = Player_moved(p, x)
        /\ \A m \in Places(ts) : Before(l, m) => ~IsMove(EventAt(ts, m), p)
  BY DEF Located
<1>. QED
  BY <1>1, <1>2 DEF Located

\* An enumeration in ascending order leaves nothing out.
LEMMA AscendingOnto ==
    ASSUME NEW S, S \subseteq Int, IsFiniteSet(S), NEW f \in Ascending(S)
    PROVE  \A x \in S : \E n \in 1 .. Len(f) : f[n] = x
<1>1. PICK c \in Nat : c = Cardinality(S)
  BY FS_CardinalityType
<1>2. Len(f) = c /\ \A m, n \in 1 .. Len(f) : f[m] = f[n] => m = n
  BY <1>1, AscendingDiffer
<1>3. f \in [1 .. c -> S]
  BY <1>1 DEF Ascending
<1>4. f \in Injection(1 .. c, S)
  BY <1>2, <1>3 DEF Injection, IsInjective
<1>5. Cardinality(1 .. c) = c
  BY FS_Interval
<1>6. f \in Surjection(1 .. c, S)
  BY <1>1, <1>4, <1>5, FS_Injection
<1>. QED
  BY <1>2, <1>6 DEF Surjection

\* Seeding locates every robot that it seeds and no other.
LEMMA LocatedSeeds ==
    ASSUME NEW S, S \subseteq PlayerId, NEW ids \in Ascending(S), NEW field,
           NEW ts, NEW us, Grown(ts, us, SeedEvents(ids, field))
    PROVE  /\ \A p \in S : Located(us, p, field[p])
           /\ \A p, x : p \notin S /\ Located(ts, p, x) => Located(us, p, x)
<1>1. PICK ev : ev = SeedEvents(ids, field)
  OBVIOUS
<1>2. S \subseteq Int /\ IsFiniteSet(S)
  <2>1. PlayerId \subseteq Int
    BY GameParams DEF PlayerId
  <2>. QED
    BY <2>1, PlayerIdsFinite
<1>3. /\ Len(ev) = Len(ids) /\ Len(ids) \in Nat
      /\ \A n \in 1 .. Len(ids) : /\ ids[n] \in S
                                  /\ ev[n] = Player_moved(ids[n], field[ids[n]])
  BY <1>1, SeedEventsAre
<1>4. ASSUME NEW p, NEW n \in 1 .. Len(ids), IsMove(ev[n], p) PROVE p = ids[n]
  <2>1. PICK e : e = Player_moved(ids[n], field[ids[n]])
    OBVIOUS
  <2>2. e.id = ids[n]
    BY <2>1 DEF Player_moved
  <2>. QED
    BY <1>3, <1>4, <2>1, <2>2 DEF IsMove
<1>5. ASSUME NEW p \in S PROVE Located(us, p, field[p])
  <2>0. \A x \in S : \E n \in 1 .. Len(ids) : ids[n] = x
    BY <1>2, AscendingOnto
  <2>1. PICK n \in 1 .. Len(ids) : ids[n] = p
    BY <2>0
  <2>2. \A m \in 1 .. Len(ids) : ids[m] = p => m = n
    BY <1>2, <2>1, AscendingDiffer
  <2>3. \A m \in 1 .. Len(ev) : n < m => ~IsMove(ev[m], p)
    <3>. SUFFICES ASSUME NEW m \in 1 .. Len(ids), n < m, IsMove(ev[m], p) PROVE FALSE
      BY <1>3
    <3>1. m = n
      BY <1>4, <2>2
    <3>. QED
      BY <1>3, <3>1
  <2>. QED
    BY <1>1, <1>3, <2>1, <2>3, LocatedMoves
<1>6. ASSUME NEW p, NEW x, p \notin S, Located(ts, p, x) PROVE Located(us, p, x)
  <2>1. \A n \in 1 .. Len(ev) : ~IsMove(ev[n], p)
    BY <1>3, <1>4, <1>6
  <2>. QED
    BY <1>1, <1>6, <2>1, LocatedStays
<1>. QED
  BY <1>5, <1>6

\* Events that move nobody.
LEMMA PositionsKept ==
    ASSUME PositionsMatchLog, NEW e, Grown(turns, turns', <<e>>), e.code # "Player_moved",
           players_positions' = players_positions
    PROVE  PositionsMatchLog'
<1>1. \A p : \A n \in 1 .. Len(<<e>>) : ~IsMove(<<e>>[n], p)
  BY DEF IsMove
<1>. QED
  BY <1>1, PositionsAreLocated, LocatedStays

\* One case per kind of step.
LEMMA PositionsStep ==
    ASSUME EngineInv, EngineInv', PositionsMatchLog, Kinds PROVE PositionsMatchLog'
<1>1. CASE Quiet
  BY <1>1, PositionsAreLocated DEF Quiet
<1>2. CASE Opens
  <2>1. turns \in Seq(TurnInfo) /\ turns' = Append(turns, Turn_info(current_turn'))
        /\ players_positions' = players_positions
    BY <1>2 DEF Opens, EngineInv, TypeOK, world
  <2>2. current_turn' \in 0 .. U16 - 1
    BY DEF EngineInv, TypeOK
  <2>. QED
    BY <2>1, <2>2, PositionsAreLocated, LocatedOpened
<1>3. CASE Joins \/ Ends
  <2>1. players_positions' = <<>>
    BY <1>3 DEF Joins, Ends, EngineInv, InGameTablesAgree
  <2>. QED
    BY <2>1, EmptyMap DEF PositionsMatchLog
<1>4. ASSUME NEW b, NEW robots, NEW blocks, Explodes(b, robots, blocks)
      PROVE  PositionsMatchLog'
  <2>1. PICK e : e = Bomb_exploded(b, robots, blocks)
    OBVIOUS
  <2>2. e.code # "Player_moved"
    BY <2>1 DEF Bomb_exploded
  <2>. QED
    BY <1>4, <2>1, <2>2, PositionsKept DEF Explodes, Adds
<1>5. ASSUME NEW i, NEW e, ActsWith(i, e) PROVE PositionsMatchLog'
  <2>1. Grown(turns, turns', <<e>>)
    BY <1>5 DEF ActsWith, Adds
  <2>2. CASE players_positions' = players_positions /\ e.code # "Player_moved"
    BY <2>1, <2>2, PositionsKept
  <2>3. ASSUME NEW new \in Position, e = Player_moved(player_ids[i], new),
               players_positions' = insert_or_assign(players_positions, player_ids[i], new)
        PROVE  PositionsMatchLog'
    <3>1. /\ DOMAIN players_positions' = DOMAIN players_positions \cup {player_ids[i]}
          /\ \A p \in DOMAIN players_positions' :
               players_positions'[p] = IF p = player_ids[i] THEN new ELSE players_positions[p]
      BY <2>3 DEF insert_or_assign
    <3>2. PICK ev : ev = <<e>>
      OBVIOUS
    <3>3. Len(ev) = 1 /\ ev[1] = Player_moved(player_ids[i], new) /\ Grown(turns, turns', ev)
      BY <2>1, <2>3, <3>2
    <3>4. Located(turns', player_ids[i], new)
      BY <3>3, LocatedMoves
    <3>5. \A p : p # player_ids[i] => \A n \in 1 .. Len(ev) : ~IsMove(ev[n], p)
      BY <3>3 DEF IsMove, Player_moved
    <3>6. \A p \in DOMAIN players_positions :
            p # player_ids[i] => Located(turns', p, players_positions[p])
      BY <3>3, <3>5, PositionsAreLocated, LocatedStays
    <3>. QED
      BY <3>1, <3>4, <3>6, PositionsAreLocated
  <2>4. (\E position \in Position : e = Bomb_placed(next_bomb_id, position))
            => e.code # "Player_moved"
    BY DEF Bomb_placed
  <2>. QED
    BY <1>5, <2>2, <2>3, <2>4 DEF ActsWith
<1>6. ASSUME NEW e, Seeds(e) PROVE PositionsMatchLog'
  BY <1>6, PositionsKept DEF Seeds, Adds
<1>7. ASSUME NEW ids, NEW field, Starts(ids, field) PROVE PositionsMatchLog'
  <2>1. PICK ev : ev = SeedEvents(ids, field)
    OBVIOUS
  <2>2. /\ ids \in Ascending(DOMAIN players') /\ field \in [DOMAIN players' -> Board]
        /\ Len(turns') = 1 /\ turns'[1].events = ev
        /\ DOMAIN players_positions' = DOMAIN players'
        /\ \A p \in DOMAIN players' : players_positions'[p] = field[p]
        /\ turns' \in Seq(TurnInfo) /\ DOMAIN players' \subseteq PlayerId
    BY <1>7, <2>1 DEF Starts, EngineInv, TypeOK, Map
  <2>3. ev \in Seq(Event)
    BY <2>1, <2>2, SeedEventsType
  <2>4. PICK t : t = Turn_info(0)
    OBVIOUS
  <2>5. t \in TurnInfo /\ t.events = <<>>
    BY <2>4, GameParams DEF Turn_info, TurnInfo
  <2>6. PICK ts : ts = <<t>>
    OBVIOUS
  <2>7. ts \in Seq(TurnInfo) /\ Len(ts) = 1 /\ ts[1].events = <<>>
    BY <2>5, <2>6
  <2>8. <<>> \o ev = ev
    BY <2>3
  <2>9. Grown(ts, turns', ev)
    BY <2>2, <2>3, <2>7, <2>8 DEF Grown
  <2>10. \A p \in DOMAIN players' : Located(turns', p, field[p])
    BY <2>1, <2>2, <2>9, LocatedSeeds
  <2>. QED
    BY <2>2, <2>10, PositionsAreLocated
<1>8. ASSUME NEW ids, NEW field, Summarises(ids, field) PROVE PositionsMatchLog'
  <2>1. /\ gameplay_started /\ Grown(turns, turns', SeedEvents(ids, field))
        /\ field \in [current_players_to_destroy -> Board]
        /\ ids \in Ascending(current_players_to_destroy)
        /\ players_positions' = assign_all(players_positions, field)
    BY <1>8 DEF Summarises, Adds
  <2>2. current_players_to_destroy \subseteq PlayerId
    BY DEF EngineInv, TypeOK
  <2>3. /\ \A p \in current_players_to_destroy : Located(turns', p, field[p])
        /\ \A p, x : p \notin current_players_to_destroy /\ Located(turns, p, x)
                        => Located(turns', p, x)
    BY <2>1, <2>2, LocatedSeeds
  <2>4. /\ DOMAIN players_positions'
             = DOMAIN players_positions \cup current_players_to_destroy
        /\ \A p \in DOMAIN players_positions' :
             players_positions'[p] = IF p \in current_players_to_destroy THEN field[p]
                                     ELSE players_positions[p]
    BY <2>1 DEF assign_all
  <2>. QED
    BY <2>3, <2>4, PositionsAreLocated
<1>. QED
  BY <1>1, <1>2, <1>3, <1>4, <1>5, <1>6, <1>7, <1>8 DEF Kinds

\* A client that follows the turns knows where the robots are.
THEOREM PositionsMatch == Spec => []PositionsMatchLog
<1>1. Init => PositionsMatchLog
  BY EmptyMap DEF Init, PositionsMatchLog
<1>2. EngineInv /\ EngineInv' /\ PositionsMatchLog /\ [Next]_vars => PositionsMatchLog'
  BY StepKinds, PositionsStep
<1>. QED
  BY <1>1, <1>2, EngineInvariant, PTL DEF Spec
=============================================================================
