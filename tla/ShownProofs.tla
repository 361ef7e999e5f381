----------------------------- MODULE ShownProofs -----------------------------
(***************************************************************************)
(* Theorems about what a client at position 1 makes of the turns it is     *)
(* told: the bombs that its GUI shows and the scores that it counts.       *)
(***************************************************************************)
EXTENDS RosterProofs, BombProofs

-----------------------------------------------------------------------------
(* The inductive invariant.                                                *)

\* The turn that the server tells next.
Upto == IF phase = "loop" THEN current_turn + 1 ELSE current_turn

\* All messages of q after the k-th are turns: those of the gameplay that runs.
OnlyTurns(q, k) == \A j \in DOMAIN q : j > k => q[j].code = "Turn"

\* The turn told after the k-th message of q.
NextTold(q, k, upto) == IF k < Len(q) THEN q[k + 1].turn ELSE upto

\* ev is what the log ts has of turn t after its first n events.
Reads(ts, ev, t, n) ==
    \A j \in 1 .. Len(ev) :
        <<t + 1, n + j>> \in Places(ts) /\ EventAt(ts, <<t + 1, n + j>>) = ev[j]

\* Turn t has no more than r events.
Covers(ts, t, r) == \A l \in Places(ts) : l[1] = t + 1 => l[2] <= r

\* A turn on its way is the beginning of that turn, and all of it when the
\* next one follows.
TurnShown(ts, q, k, upto) ==
    /\ q[k].turn <= upto
    /\ Reads(ts, q[k].events, q[k].turn, 0)
    /\ NextTold(q, k, upto) # q[k].turn =>
        q[k].turn < upto /\ Covers(ts, q[k].turn, Len(q[k].events))

QueueShown(ts, q, upto) ==
    \A k \in DOMAIN q : OnlyTurns(q, k) /\ q[k].code = "Turn" => TurnShown(ts, q, k, upto)

\* From the k-th message of q on, which tells turn t, no turn is told twice.
Gapless(q, k, t, upto) ==
    /\ NextTold(q, k, upto) = t + 1
    /\ \A j \in DOMAIN q : j > k => NextTold(q, j, upto) = q[j].turn + 1

\* So it is for a client that has seen everyone join.
QueueFresh(told, q, upto) ==
    \A k \in DOMAIN q :
        /\ OnlyTurns(q, k) /\ q[k].code = "GameStarted"
        /\ (IF k = 1 THEN told ELSE ToldBy(q[k - 1])) # InLobby({})
        => Gapless(q, k, -1, upto)

\* The places of a log up to the r-th event of turn t.
Seen(ts, t, r) == {l \in Places(ts) : l[1] <= t \/ (l[1] = t + 1 /\ l[2] <= r)}

Explosion(ts, m, b) == EventAt(ts, m).code = "Bomb_exploded" /\ EventAt(ts, m).id = b

\* bs are the bombs placed and not exploded at the places S.
ShowsBombs(ts, bs, S) ==
    /\ \A b \in DOMAIN bs :
        /\ \E l \in S : EventAt(ts, l) = Bomb_placed(b, bs[b].position)
        /\ \A m \in S : ~Explosion(ts, m, b)
    /\ \A l \in S : EventAt(ts, l).code = "Bomb_placed" =>
        \/ EventAt(ts, l).id \in DOMAIN bs
        \/ \E m \in S : Explosion(ts, m, EventAt(ts, l).id)

\* ss counts the explosions at the places S that hit a robot.
Hits(ts, S, p) == {l \in S : Destroys(EventAt(ts, l), p)}
CountsHits(ts, ss, S) == \A p \in Ids : p \in DOMAIN ss /\ ss[p] = Cardinality(Hits(ts, S, p))

\* The client with the game_info g, reading h, has seen the first r events of
\* its turn, possibly in an earlier message, and the first n in this one.
Sees(ts, upto, q, g, h, r, n) ==
    /\ g.turn \in -1 .. upto
    /\ r = 0 \/ <<g.turn + 1, r>> \in Places(ts)
    /\ ShowsBombs(ts, g.bombs, Seen(ts, g.turn, r))
    /\ h.code = "Turn" => Reads(ts, h.events, g.turn, n)
    /\ NextTold(q, 0, upto) # g.turn =>
        /\ g.turn < upto
        /\ \/ Covers(ts, g.turn, r)
           \/ h.code = "Turn" /\ Covers(ts, g.turn, n + Len(h.events))
    /\ g.players # <<>> =>
        /\ Gapless(q, 0, g.turn, upto)
        /\ h.code = "Turn" => n = r
        /\ CountsHits(ts, g.scores, Seen(ts, g.turn, r))

ClientSees(ts, upto, q, g, h) ==
    OnlyTurns(q, 0) => \E r \in Nat : \E n \in 0 .. r : Sees(ts, upto, q, g, h, r, n)

\* All of this.
Shown(ts, upto, told, q, g, h) ==
    QueueShown(ts, q, upto) /\ QueueFresh(told, q, upto) /\ ClientSees(ts, upto, q, g, h)

\* Bombs are where the log ts says that they were placed.
WherePlaced(ts, bs) ==
    \A b \in DOMAIN bs : \A l \in Placed(ts, b) : bs[b].position = EventAt(ts, l).position

BombsWherePlaced == WherePlaced(turns, bombs)

\* After a turn the GUI shows game_info.
GameShown ==
    ~is_lobby_status /\ handling.code = "none" /\ game_info.turn # -1
        => drawn = Own!game_message

ShownInv ==
    /\ GameShown /\ "bombs" \in DOMAIN game_info
    /\ Following /\ gameplay_started =>
        Shown(turns, Upto, ClientTold, to_client, game_info, handling)

-----------------------------------------------------------------------------
(* Logs that grow.                                                         *)

\* us is ts with places added, all in turns from top on and at their ends.
Extended(ts, us, top) ==
    /\ \A l \in Places(ts) : l \in Places(us) /\ EventAt(us, l) = EventAt(ts, l)
    /\ \A l \in Places(us) : l \notin Places(ts) =>
        /\ l[1] > top
        /\ \A m \in Places(ts) : m[1] = l[1] => m[2] < l[2]

\* A place is there with all before it in its turn.
LEMMA PlacesBelow ==
    ASSUME NEW ts \in Seq(TurnInfo), NEW k, NEW r, <<k, r>> \in Places(ts),
           NEW l \in Places(ts)
    PROVE  k \in Nat /\ r \in Nat /\ l[1] \in Nat /\ l[2] \in Nat /\ l[2] > 0 /\ l[1] > 0
<1>1. PICK m \in Places(ts) : m = <<k, r>>
  OBVIOUS
<1>2. m[1] \in Nat /\ m[2] \in Nat
  BY PlacesAre
<1>3. /\ l[1] \in 1 .. Len(ts) /\ l[2] \in 1 .. Len(ts[l[1]].events)
      /\ l[1] \in Nat /\ l[2] \in Nat
  BY PlacesAre
<1>. QED
  BY <1>1, <1>2, <1>3

\* What was read stays so, and what is covered,
LEMMA ReadsExtended ==
    ASSUME NEW ts, NEW us, NEW top, Extended(ts, us, top),
           NEW ev, NEW t, NEW n, Reads(ts, ev, t, n)
    PROVE  Reads(us, ev, t, n)
BY DEF Extended, Reads

\* a turn before top being closed,
LEMMA CoversExtended ==
    ASSUME NEW ts, NEW us \in Seq(TurnInfo), NEW top \in Int, Extended(ts, us, top),
           NEW t \in Int, t < top, NEW r, Covers(ts, t, r)
    PROVE  Covers(us, t, r)
<1>. SUFFICES ASSUME NEW l \in Places(us), l[1] = t + 1 PROVE l \in Places(ts)
  BY DEF Covers
<1>1. l[1] \in Nat /\ ~(t + 1 > top)
  BY PlacesAre
<1>. QED
  BY <1>1 DEF Extended

\* and so do the places that were seen.
LEMMA SeenExtended ==
    ASSUME NEW ts \in Seq(TurnInfo), NEW us \in Seq(TurnInfo), NEW top \in Int,
           Extended(ts, us, top), NEW t \in Int, t <= top, NEW r \in Nat,
           r = 0 \/ <<t + 1, r>> \in Places(ts)
    PROVE  /\ Seen(us, t, r) = Seen(ts, t, r)
           /\ \A l \in Seen(ts, t, r) : EventAt(us, l) = EventAt(ts, l)
<1>1. \A l \in Seen(ts, t, r) : l \in Seen(us, t, r) /\ EventAt(us, l) = EventAt(ts, l)
  BY DEF Seen, Extended
<1>2. ASSUME NEW l \in Seen(us, t, r), l \notin Places(ts) PROVE FALSE
  <2>1. /\ l \in Places(us) /\ l[1] \in Nat /\ l[2] \in Nat /\ l[2] \in 1 .. Len(us[l[1]].events)
    BY PlacesAre DEF Seen
  <2>2. l[2] > 0
    <3>1. Len(us[l[1]].events) \in Nat
      BY <2>1, PlacesAre, EventsType
    <3>. QED
      BY <2>1, <3>1
  <2>3. l[1] > top
    BY <1>2, <2>1 DEF Extended
  <2>4. l[1] = t + 1 /\ l[2] <= r /\ r # 0
    BY <2>1, <2>2, <2>3 DEF Seen
  <2>5. <<t + 1, r>> \in Places(ts) /\ <<t + 1, r>>[1] = l[1] /\ <<t + 1, r>>[2] = r
    BY <2>4
  <2>6. r < l[2]
    BY <1>2, <2>1, <2>5 DEF Extended
  <2>. QED
    BY <2>1, <2>4, <2>6
<1>3. \A l \in Seen(us, t, r) : l \in Seen(ts, t, r)
  BY <1>2 DEF Seen
<1>. QED
  BY <1>1, <1>3

\* So the bombs and the scores of such a client are still right.
LEMMA ShownExtended ==
    ASSUME NEW ts, NEW us, NEW S, \A l \in S : EventAt(us, l) = EventAt(ts, l), NEW bs, NEW ss
    PROVE  /\ ShowsBombs(ts, bs, S) => ShowsBombs(us, bs, S)
           /\ CountsHits(ts, ss, S) => CountsHits(us, ss, S)
<1>1. ShowsBombs(ts, bs, S) => ShowsBombs(us, bs, S)
  BY DEF ShowsBombs, Explosion
<1>2. \A p : Hits(us, S, p) = Hits(ts, S, p)
  BY DEF Hits
<1>3. CountsHits(ts, ss, S) => CountsHits(us, ss, S)
  BY <1>2 DEF CountsHits
<1>. QED
  BY <1>1, <1>3

-----------------------------------------------------------------------------
(* Bombs stay where they were placed.                                      *)

\* The log changes, and the map of bombs loses some or their timers change.
LEMMA WhereKept ==
    ASSUME NEW ts, NEW us, NEW bs, NEW bt, WherePlaced(ts, bs),
           \A b : Placed(us, b) = Placed(ts, b),
           \A l \in Places(ts) : EventAt(us, l) = EventAt(ts, l),
           \A b \in DOMAIN bt : b \in DOMAIN bs /\ bt[b].position = bs[b].position
    PROVE  WherePlaced(us, bt)
<1>1. \A b : \A l \in Placed(ts, b) : l \in Places(ts)
  BY DEF Placed
<1>. QED
  BY <1>1 DEF WherePlaced

\* The log grows by other events than placings.
LEMMA WhereGrown ==
    ASSUME NEW ts, NEW us, NEW ev, Grown(ts, us, ev), \A n \in 1 .. Len(ev) : ev[n].code # "Bomb_placed",
           NEW bs, NEW bt, WherePlaced(ts, bs),
           \A b \in DOMAIN bt : b \in DOMAIN bs /\ bt[b].position = bs[b].position
    PROVE  WherePlaced(us, bt)
<1>1. \A b : Placed(us, b) = Placed(ts, b)
  BY PlacedKept
<1>2. \A l \in Places(ts) : EventAt(us, l) = EventAt(ts, l)
  BY PlacesGrown
<1>. QED
  BY <1>1, <1>2, WhereKept

\* An iteration of the loop over the bombs moves none.
LEMMA TickStays ==
    ASSUME EngineInv, NEW b \in DOMAIN bombs, Ticks(b)
    PROVE  \A c \in DOMAIN bombs' : c \in DOMAIN bombs /\ bombs'[c].position = bombs[c].position
<1>1. bombs \in [DOMAIN bombs -> Bomb]
  BY DEF EngineInv, TypeOK, Map
<1>2. bombs' = [bombs EXCEPT ![b].timer = (bombs[b].timer - 1) % U16]
  BY DEF Ticks
<1>3. bombs[b] \in Bomb
  BY <1>1
<1>4. ASSUME NEW c \in DOMAIN bombs PROVE bombs'[c].position = bombs[c].position
  <2>1. CASE c = b
    <3>1. bombs'[c] = [bombs[b] EXCEPT !.timer = (bombs[b].timer - 1) % U16]
      BY <1>2, <2>1
    <3>. QED
      BY <1>3, <2>1, <3>1 DEF Bomb
  <2>2. CASE c # b
    BY <1>2, <2>2
  <2>. QED
    BY <2>1, <2>2
<1>. QED
  BY <1>2, <1>4

\* A bomb that a client places gets an id that was never used.
LEMMA WhereNew ==
    ASSUME EngineInv, FuseInv, BombsWherePlaced, NEW i, NEW position,
           NEW e, ActsWith(i, e), e = Bomb_placed(next_bomb_id, position),
           bombs' = map_insert(bombs, next_bomb_id, [position |-> position, timer |-> bomb_timer])
    PROVE  BombsWherePlaced'
<1>1. PICK n : n = next_bomb_id
  OBVIOUS
<1>2. KeptIn(turns, bombs, n, phase) /\ CountIn(turns, bombs, index, phase)
  BY <1>1, FuseInvIs DEF FuseIn
<1>3. n \in Nat
  BY <1>1 DEF EngineInv, TypeOK
<1>4. Placed(turns, n) = {}
  <2>1. ~(n < n)
    BY <1>3
  <2>. QED
    BY <1>2, <2>1 DEF KeptIn
<1>5. n \notin DOMAIN bombs
  BY <1>2, <1>4 DEF CountIn
<1>6. Grown(turns, turns', <<e>>) /\ e.code = "Bomb_placed" /\ e.id = n /\ e.position = position
  BY <1>1 DEF ActsWith, Adds, Bomb_placed
<1>7. PICK p : p = NewPlace(turns, 1)
  OBVIOUS
<1>8. /\ \A b : Placed(turns', b) = Placed(turns, b) \cup (IF b = n THEN {p} ELSE {})
      /\ EventAt(turns', p) = e
      /\ \A l \in Places(turns) : EventAt(turns', l) = EventAt(turns, l)
  <2>1. \A b : Placed(turns', b) = Placed(turns, b) \cup (IF b = n THEN {p} ELSE {})
    BY <1>6, <1>7, PlacedNew
  <2>2. PICK ev : ev = <<e>> /\ 1 \in 1 .. Len(ev) /\ ev[1] = e /\ Grown(turns, turns', ev)
    BY <1>6
  <2>3. EventAt(turns', p) = e /\ \A l \in Places(turns) : EventAt(turns', l) = EventAt(turns, l)
    BY <1>7, <2>2, PlacesGrown
  <2>. QED
    BY <2>1, <2>3
<1>9. /\ \A b \in DOMAIN bombs : b # n /\ b \in DOMAIN bombs' /\ bombs'[b] = bombs[b]
      /\ DOMAIN bombs' = DOMAIN bombs \cup {n} /\ bombs'[n].position = position
  BY <1>1, <1>5 DEF map_insert
<1>10. ASSUME NEW b \in DOMAIN bombs', NEW l \in Placed(turns', b)
       PROVE  bombs'[b].position = EventAt(turns', l).position
  <2>1. CASE b = n
    BY <1>4, <1>6, <1>8, <1>9, <2>1
  <2>2. CASE b # n
    <3>1. b \in DOMAIN bombs /\ l \in Placed(turns, b)
      BY <1>8, <1>9, <2>2
    <3>2. bombs[b].position = EventAt(turns, l).position /\ l \in Places(turns)
      BY <3>1 DEF BombsWherePlaced, WherePlaced, Placed
    <3>. QED
      BY <1>8, <1>9, <3>1, <3>2
  <2>. QED
    BY <2>1, <2>2
<1>. QED
  BY <1>10 DEF BombsWherePlaced, WherePlaced

\* One case per kind of step.
LEMMA WhereStep ==
    ASSUME EngineInv, EngineInv', FuseInv, BombsWherePlaced, Kinds PROVE BombsWherePlaced'
<1>0. WherePlaced(turns, bombs) /\ turns \in Seq(TurnInfo)
  BY DEF BombsWherePlaced, EngineInv, TypeOK
<1>1. CASE Quiet
  <2>1. turns' = turns
    BY <1>1 DEF Quiet
  <2>2. \A b \in DOMAIN bombs' : b \in DOMAIN bombs /\ bombs'[b].position = bombs[b].position
    <3>1. CASE UNCHANGED bombs
      BY <3>1
    <3>2. ASSUME NEW b \in DOMAIN bombs, Ticks(b)
          PROVE  \A c \in DOMAIN bombs' : c \in DOMAIN bombs /\ bombs'[c].position = bombs[c].position
      BY <3>2, TickStays
    <3>3. CASE EraseBombs
      BY <3>3 DEF EraseBombs, Restrict
    <3>. QED
      BY <1>1, <3>1, <3>2, <3>3 DEF Quiet, QuietBombs, vars, game, world
  <2>. QED
    BY <1>0, <2>1, <2>2 DEF BombsWherePlaced, WherePlaced
<1>2. CASE Opens
  <2>1. /\ turns' = Append(turns, Turn_info(current_turn')) /\ bombs' = bombs
        /\ current_turn' \in 0 .. U16 - 1
    BY <1>2 DEF Opens, world, EngineInv, TypeOK
  <2>2. PICK us, t : us = turns' /\ t = current_turn'
    OBVIOUS
  <2>3. Places(us) = Places(turns) /\ \A l \in Places(turns) : EventAt(us, l) = EventAt(turns, l)
    BY <1>0, <2>1, <2>2, PlacesOpened
  <2>4. \A b : Placed(us, b) = Placed(turns, b)
    BY <2>3 DEF Placed
  <2>5. WherePlaced(us, bombs)
    BY <1>0, <2>3, <2>4, WhereKept
  <2>. QED
    BY <2>1, <2>2, <2>5 DEF BombsWherePlaced
<1>3. CASE Joins
  BY <1>3 DEF Joins, BombsWherePlaced
<1>4. ASSUME bombs' = <<>> PROVE BombsWherePlaced'
  BY <1>4, EmptyMap DEF BombsWherePlaced, WherePlaced
<1>5. ASSUME NEW ev, Grown(turns, turns', ev), \A n \in 1 .. Len(ev) : ev[n].code # "Bomb_placed",
             \A b \in DOMAIN bombs' : b \in DOMAIN bombs /\ bombs'[b].position = bombs[b].position
      PROVE  BombsWherePlaced'
  BY <1>0, <1>5, WhereGrown DEF BombsWherePlaced
<1>6. ASSUME NEW b, NEW robots, NEW blocks, Explodes(b, robots, blocks) PROVE BombsWherePlaced'
  <2>1. PICK e, ev : e = Bomb_exploded(b, robots, blocks) /\ ev = <<e>>
    OBVIOUS
  <2>2. Grown(turns, turns', ev) /\ b \in DOMAIN bombs /\ Ticks(b)
    BY <1>6, <2>1 DEF Explodes, Adds
  <2>3. \A n \in 1 .. Len(ev) : ev[n].code # "Bomb_placed"
    BY <2>1 DEF Bomb_exploded
  <2>. QED
    BY <1>5, <2>2, <2>3, TickStays
<1>7. ASSUME NEW e, Grown(turns, turns', <<e>>), e.code # "Bomb_placed", bombs' = bombs
      PROVE  BombsWherePlaced'
  <2>1. PICK ev : ev = <<e>> /\ \A n \in 1 .. Len(ev) : ev[n].code # "Bomb_placed"
    BY <1>7
  <2>. QED
    BY <1>5, <1>7, <2>1
<1>8. ASSUME NEW i, NEW e, ActsWith(i, e) PROVE BombsWherePlaced'
  <2>1. Grown(turns, turns', <<e>>)
    BY <1>8 DEF ActsWith, Adds
  <2>2. CASE e.code = "Block_placed" /\ bombs' = bombs
    BY <1>7, <2>1, <2>2
  <2>3. CASE (\E new \in Position : e = Player_moved(player_ids[i], new)) /\ bombs' = bombs
    <3>1. e.code # "Bomb_placed"
      BY <2>3 DEF Player_moved
    <3>. QED
      BY <1>7, <2>1, <2>3, <3>1
  <2>4. CASE \E position \in Position :
                /\ e = Bomb_placed(next_bomb_id, position)
                /\ bombs' = map_insert(bombs, next_bomb_id,
                                       [position |-> position, timer |-> bomb_timer])
    BY <1>8, <2>4, WhereNew
  <2>. QED
    BY <1>8, <2>2, <2>3, <2>4 DEF ActsWith
<1>9. ASSUME NEW e, Seeds(e) PROVE BombsWherePlaced'
  BY <1>7, <1>9 DEF Seeds, Adds
<1>10. ASSUME NEW ids, NEW field, Summarises(ids, field) PROVE BombsWherePlaced'
  <2>1. /\ Grown(turns, turns', SeedEvents(ids, field)) /\ bombs' = bombs
        /\ ids \in Ascending(current_players_to_destroy)
        /\ current_players_to_destroy \subseteq PlayerId
    BY <1>10 DEF Summarises, Adds, EngineInv, TypeOK
  <2>2. \A n \in 1 .. Len(SeedEvents(ids, field)) : SeedEvents(ids, field)[n].code # "Bomb_placed"
    BY <2>1, SeedEventsAre
  <2>. QED
    BY <1>5, <2>1, <2>2
<1>11. Ends \/ (\E ids, field : Starts(ids, field)) => bombs' = <<>>
  BY DEF Ends, Starts
<1>. QED
  BY <1>1, <1>2, <1>3, <1>4, <1>6, <1>8, <1>9, <1>10, <1>11 DEF Kinds

\* The map of bombs and the log agree on where each bomb lies.
LEMMA BombsStay == Spec => []BombsWherePlaced
<1>1. Init => BombsWherePlaced
  BY EmptyMap DEF Init, BombsWherePlaced, WherePlaced
<1>2. EngineInv /\ EngineInv' /\ FuseInv /\ BombsWherePlaced /\ [Next]_vars => BombsWherePlaced'
  BY StepKinds, WhereStep
<1>. QED
  BY <1>1, <1>2, EngineInvariant, FuseInvariant, PTL DEF Spec

-----------------------------------------------------------------------------
(* What the engine does to the log, and what it tells of it.               *)

\* Events are added to the open turn, which is not told yet.
LEMMA GrowthExtends ==
    ASSUME EngineInv, gameplay_started, phase # "loop", NEW ev, Grown(turns, turns', ev)
    PROVE  Extended(turns, turns', Upto)
<1>1. PICK ts, us, top : ts = turns /\ us = turns' /\ top = Upto
  OBVIOUS
<1>2. /\ top = current_turn /\ Len(ts) = top + 1 /\ top \in Nat /\ Len(ts) > top
  BY <1>1, InGameTypes DEF Upto
<1>3. Grown(ts, us, ev) /\ ts \in Seq(TurnInfo) /\ us \in Seq(TurnInfo)
  BY <1>1 DEF Grown
<1>4. \A l \in Places(ts) : l \in Places(us) /\ EventAt(us, l) = EventAt(ts, l)
  BY <1>3, PlacesGrown
<1>5. ASSUME NEW l \in Places(us), l \notin Places(ts)
      PROVE  l[1] > top /\ \A m \in Places(ts) : m[1] = l[1] => m[2] < l[2]
  <2>1. PICK n \in 1 .. Len(ev) : l = NewPlace(ts, n)
    BY <1>3, <1>5, PlacesGrown
  <2>2. l[1] = Len(ts) /\ \A m \in Places(ts) : Before(m, l)
    BY <1>3, <2>1, PlacesGrown
  <2>3. l[1] \in Nat /\ \A m \in Places(ts) : m[1] \in Nat
    BY <1>3, PlacesAre
  <2>4. \A m \in Places(ts) : m[1] = l[1] => m[2] < l[2]
    BY <2>2, <2>3 DEF Before
  <2>. QED
    BY <1>2, <2>2, <2>4
<1>. QED
  BY <1>1, <1>4, <1>5 DEF Extended

\* Nothing is added.
LEMMA SameExtends ==
    ASSUME NEW ts, NEW us, NEW top, Places(us) = Places(ts),
           \A l \in Places(ts) : EventAt(us, l) = EventAt(ts, l)
    PROVE  Extended(ts, us, top)
BY DEF Extended

\* Only the end of a round closes a turn.
LEMMA EngineExtends ==
    ASSUME EngineInv, EngineInv', [Next]_vars, gameplay_started, gameplay_started'
    PROVE  /\ Extended(turns, turns', Upto)
           /\ ~(phase = "serve" /\ phase' = "loop") => Upto' = Upto
<1>0. Kinds
  BY StepKinds
<1>1. CASE Quiet
  <2>1. /\ turns' = turns /\ current_turn' = current_turn /\ (phase' = "loop" <=> phase = "loop")
    BY <1>1 DEF Quiet
  <2>. QED
    BY <2>1, SameExtends DEF Upto
<1>2. CASE Opens
  <2>1. /\ turns' = Append(turns, Turn_info(current_turn')) /\ turns \in Seq(TurnInfo)
        /\ current_turn' \in 0 .. U16 - 1 /\ current_turn' = current_turn + 1
        /\ phase = "loop" /\ phase' = "bombs"
    BY <1>2 DEF Opens, EngineInv, TypeOK
  <2>2. PICK us, t : us = turns' /\ t = current_turn'
    OBVIOUS
  <2>3. Places(us) = Places(turns) /\ \A l \in Places(turns) : EventAt(us, l) = EventAt(turns, l)
    BY <2>1, <2>2, PlacesOpened
  <2>. QED
    BY <2>1, <2>2, <2>3, SameExtends DEF Upto
<1>3. ASSUME NEW ev, Adds(ev), phase # "loop", phase' # "loop"
      PROVE  Extended(turns, turns', Upto) /\ Upto' = Upto
  BY <1>3, GrowthExtends DEF Adds, Upto
<1>4. ASSUME NEW b, NEW robots, NEW blocks, Explodes(b, robots, blocks)
      PROVE  Extended(turns, turns', Upto) /\ Upto' = Upto
  <2>1. /\ Adds(<<Bomb_exploded(b, robots, blocks)>>) /\ phase = "bombs" /\ phase' = "bombs"
    BY <1>4 DEF Explodes, Ticks
  <2>. QED
    BY <1>3, <2>1
<1>5. ASSUME NEW i, NEW e, ActsWith(i, e) PROVE Extended(turns, turns', Upto) /\ Upto' = Upto
  BY <1>3, <1>5 DEF ActsWith
<1>6. ASSUME NEW e, Seeds(e) PROVE Extended(turns, turns', Upto) /\ Upto' = Upto
  BY <1>3, <1>6 DEF Seeds
<1>7. ASSUME NEW ids, NEW field, Summarises(ids, field)
      PROVE  Extended(turns, turns', Upto) /\ phase = "serve" /\ phase' = "loop"
  BY <1>7, GrowthExtends DEF Summarises, Adds
<1>8. ~Joins /\ ~Ends /\ \A ids, field : ~Starts(ids, field)
  BY DEF Joins, Ends, Starts
<1>. QED
  BY <1>0, <1>1, <1>2, <1>4, <1>5, <1>6, <1>7, <1>8 DEF Kinds

\* Turn tells all there is of a turn.
LEMMA WholeTurn ==
    ASSUME NEW ts \in Seq(TurnInfo), NEW k \in 1 .. Len(ts), NEW m, m = Turn(ts[k])
    PROVE  Reads(ts, m.events, k - 1, 0) /\ Covers(ts, k - 1, Len(m.events))
<1>1. k \in Nat /\ (k - 1) + 1 = k /\ m.events = ts[k].events
  <2>1. Len(ts) \in Nat
    BY LenProperties
  <2>. QED
    BY <2>1 DEF Turn
<1>2. Len(ts[k].events) \in Nat
  BY EventsType
<1>3. ASSUME NEW j \in 1 .. Len(ts[k].events)
      PROVE  <<k, 0 + j>> \in Places(ts) /\ EventAt(ts, <<k, 0 + j>>) = ts[k].events[j]
  <2>1. 0 + j = j
    BY <1>2
  <2>. QED
    BY <2>1, PlacesAre DEF EventAt
<1>4. ASSUME NEW l \in Places(ts), l[1] = k PROVE l[2] <= Len(ts[k].events)
  <2>1. l[2] \in 1 .. Len(ts[k].events)
    BY <1>4, PlacesAre
  <2>. QED
    BY <1>2, <2>1
<1>. QED
  BY <1>1, <1>3, <1>4 DEF Reads, Covers

\* Nothing is told, ...
Silent ==
    /\ gameplay_started /\ ForMe(out') = <<>>
    /\ Extended(turns, turns', Upto) /\ Upto' = Upto

\* ... or the turn that is closed, ...
SaysTurn(m) ==
    /\ gameplay_started /\ ForMe(out') = <<m>> /\ m \in ServerMessage /\ m.code = "Turn"
    /\ m.turn = Upto /\ Upto \in Nat /\ Upto' = Upto + 1
    /\ Extended(turns, turns', Upto)
    /\ Reads(turns', m.events, m.turn, 0) /\ Covers(turns', m.turn, Len(m.events))

\* ... or, from its start, what there is of the gameplay.
Restarts(c) ==
    /\ c = ForMe(out') /\ c \in Seq(ServerMessage)
    /\ ~OnlyTurns(c, 0) /\ c[1].code # "GameStarted"
    /\ QueueShown(turns', c, Upto') /\ QueueFresh(InLobby({}), c, Upto')

\* summarise_turn tells the turn with the robots that respawned.
LEMMA SummariseSays ==
    ASSUME EngineInv, EngineInv', me = 1, SummariseTurn, gameplay_started'
    PROVE  \E m : SaysTurn(m)
<1>1. ~LastTurn
  BY DEF SummariseTurn, end_gameplay
<1>2. PICK field, ids :
        LET ts == add_events(SeedEvents(ids, field))
        IN  out' = send_message_to_all(<<Turn(ts[current_turn + 1])>> \o <<>>) /\ turns' = ts
  BY <1>1 DEF SummariseTurn
<1>3. PICK m : m = Turn(turns'[current_turn + 1])
  OBVIOUS
<1>4. PICK us : us = turns'
  OBVIOUS
<1>5. /\ gameplay_started /\ phase = "serve" /\ phase' = "loop" /\ current_turn' = current_turn
      /\ current_turn \in Nat
  <2>1. gameplay_started /\ phase = "serve" /\ phase' = "loop" /\ current_turn' = current_turn
    BY <1>1 DEF SummariseTurn
  <2>. QED
    BY <2>1, InGameTypes
<1>6. /\ us \in Seq(TurnInfo) /\ current_turn + 1 \in 1 .. Len(us)
      /\ us[current_turn + 1] \in TurnInfo /\ us[current_turn + 1].turn = current_turn
  <2>1. /\ us \in Seq(TurnInfo) /\ Len(us) = current_turn + 1
        /\ \A k \in DOMAIN us : us[k].turn = k - 1
    BY <1>4, <1>5 DEF EngineInv, TypeOK, InGameTablesAgree
  <2>2. current_turn + 1 \in 1 .. Len(us) /\ DOMAIN us = 1 .. Len(us)
        /\ (current_turn + 1) - 1 = current_turn
    BY <1>5, <2>1, LenProperties
  <2>. QED
    BY <2>1, <2>2, ElementOfSeq
<1>7. m \in ServerMessage /\ m.turn = current_turn /\ m.code = "Turn"
  <2>1. m.code = "Turn"
    BY <1>3 DEF Turn
  <2>. QED
    BY <1>3, <1>4, <1>6, <2>1, TurnType
<1>8. ForMe(out') = <<m>>
  <2>1. <<m>> \in Seq(ServerMessage) /\ <<m>> \o <<>> = <<m>> /\ <<m>> # <<>>
    BY <1>7
  <2>2. out' = send_message(All, <<m>>)
    BY <1>2, <1>3, <2>1 DEF send_message_to_all
  <2>. QED
    BY <2>1, <2>2, SentToAll
<1>9. Reads(us, m.events, current_turn, 0) /\ Covers(us, current_turn, Len(m.events))
  <2>1. PICK k : k = current_turn + 1
    OBVIOUS
  <2>2. k - 1 = current_turn
    BY <1>5, <2>1
  <2>3. Reads(us, m.events, k - 1, 0) /\ Covers(us, k - 1, Len(m.events))
    BY <1>3, <1>4, <1>6, <2>1, WholeTurn
  <2>. QED
    BY <2>2, <2>3
<1>10. Extended(turns, turns', Upto)
  <2>1. [Next]_vars
    BY DEF Next, ServerStep
  <2>. QED
    BY <1>5, <2>1, EngineExtends
<1>11. Upto = current_turn /\ Upto' = current_turn + 1
  BY <1>5 DEF Upto
<1>. QED
  BY <1>4, <1>5, <1>7, <1>8, <1>9, <1>10, <1>11 DEF SaysTurn

\* A greeting tells every turn so far; a client that is greeted so knows nobody.
LEMMA GreetingRestarts ==
    ASSUME EngineInv, me = 1, NEW position \in Slot, AcceptClient(position), gameplay_started
    PROVE  \E c : Restarts(c)
<1>. DEFINE n == Len(turns)
            told_turns == [k \in DOMAIN turns |-> Turn(turns[k])]
<1>0. PICK c : c = <<Hello>> \o (<<GameStarted(players)>> \o told_turns)
  OBVIOUS
<1>1. PICK ids \in Ascending(DOMAIN players) : out' = send_message(1, HelloMessages(ids))
  BY DEF AcceptClient, Slot
<1>2. HelloMessages(ids) = c
  BY <1>0 DEF HelloMessages
<1>3. /\ n = current_turn + 1 /\ current_turn \in Nat /\ turns \in Seq(TurnInfo)
      /\ DOMAIN turns = 1 .. n /\ n \in Nat
      /\ \A k \in 1 .. n : turns[k] \in TurnInfo /\ turns[k].turn = k - 1
  BY GameParams, LenProperties, ElementOfSeq DEF EngineInv, TypeOK, InGameTablesAgree
<1>4. \A k \in 1 .. n : /\ Turn(turns[k]) \in ServerMessage /\ Turn(turns[k]).turn = k - 1
                        /\ Turn(turns[k]).code = "Turn"
  BY <1>3, TurnType DEF Turn
<1>5. /\ told_turns \in Seq(ServerMessage) /\ Len(told_turns) = n
      /\ \A k \in 1 .. n : told_turns[k] = Turn(turns[k])
  BY <1>3, <1>4
<1>6. Hello \in ServerMessage /\ GameStarted(players) \in ServerMessage
  BY HelloType, GameStartedType DEF EngineInv, TypeOK
<1>. HIDE DEF told_turns
<1>7. /\ c \in Seq(ServerMessage) /\ Len(c) = n + 2
      /\ c[1] = Hello /\ c[2] = GameStarted(players)
      /\ \A k \in 1 .. n : c[k + 2] = Turn(turns[k])
  <2>1. PICK s \in Seq(ServerMessage) : s = told_turns /\ Len(s) = n
    BY <1>5
  <2>2. PICK m \in ServerMessage : m = GameStarted(players)
    BY <1>6
  <2>3. c = <<Hello>> \o (<<m>> \o s)
    BY <1>0, <2>1, <2>2
  <2>4. /\ c \in Seq(ServerMessage) /\ Len(c) = n + 2 /\ c[1] = Hello /\ c[2] = m
        /\ \A k \in 1 .. n : c[k + 2] = s[k]
    BY <1>6, <2>1, <2>3
  <2>. QED
    BY <1>5, <2>1, <2>2, <2>4
<1>8. ForMe(out') = c /\ c # <<>> /\ DOMAIN c = 1 .. n + 2
  BY <1>1, <1>2, <1>3, <1>7, ForMeSent, LenProperties
<1>9. c[1].code = "Hello" /\ c[2].code = "GameStarted" /\ ToldBy(c[1]) = InLobby({})
  BY <1>7 DEF Hello, GameStarted, ToldBy
<1>10. ASSUME NEW k \in 1 .. n + 2, k > 2
       PROVE  \E j \in 1 .. n : k = j + 2 /\ c[k] = Turn(turns[j])
  <2>1. k - 2 \in 1 .. n /\ k = (k - 2) + 2
    BY <1>3, <1>10
  <2>. QED
    BY <1>7, <2>1
<1>11. ~OnlyTurns(c, 0)
  <2>1. 1 \in DOMAIN c /\ 1 > 0
    BY <1>3, <1>8
  <2>. QED
    BY <1>9, <2>1 DEF OnlyTurns
<1>12. turns' = turns /\ Upto' = current_turn
  BY DEF AcceptClient, game, log, Upto
<1>13. ASSUME NEW k \in DOMAIN c, c[k].code = "Turn"
       PROVE  TurnShown(turns, c, k, current_turn)
  <2>1. k > 2
    BY <1>3, <1>8, <1>9, <1>13
  <2>2. PICK j \in 1 .. n : k = j + 2 /\ c[k] = Turn(turns[j])
    BY <1>8, <1>10, <2>1
  <2>3. c[k].turn = j - 1 /\ j - 1 <= current_turn
    BY <1>3, <1>4, <2>2
  <2>4. Reads(turns, c[k].events, j - 1, 0) /\ Covers(turns, j - 1, Len(c[k].events))
    BY <1>3, <2>2, WholeTurn
  <2>5. NextTold(c, k, current_turn) # j - 1 => j - 1 < current_turn
    BY <1>3, <1>7, <2>2 DEF NextTold
  <2>. QED
    BY <2>3, <2>4, <2>5 DEF TurnShown
<1>14. QueueShown(turns', c, Upto')
  BY <1>12, <1>13 DEF QueueShown
<1>15. ASSUME NEW k \in DOMAIN c, c[k].code = "GameStarted"
       PROVE  k # 1 /\ ToldBy(c[k - 1]) = InLobby({})
  <2>1. k # 1
    BY <1>9, <1>15
  <2>2. ~(k > 2)
    <3>1. ASSUME k > 2 PROVE c[k].code = "Turn"
      BY <1>4, <1>8, <1>10, <3>1
    <3>. QED
      BY <1>15, <3>1
  <2>3. k = 2 /\ k - 1 = 1
    BY <1>3, <1>8, <2>1, <2>2
  <2>. QED
    BY <1>9, <2>1, <2>3
<1>16. QueueFresh(InLobby({}), c, Upto')
  BY <1>15 DEF QueueFresh
<1>17. c[1].code # "GameStarted"
  BY <1>9
<1>. QED
  BY <1>7, <1>8, <1>11, <1>14, <1>16, <1>17 DEF Restarts

\* The join that starts a gameplay tells of no turn yet.
LEMMA JoinRestarts ==
    ASSUME EngineInv, EngineInv', me = 1, NEW i \in Slot, NEW player \in Player,
           Join(i, player), gameplay_started'
    PROVE  \E c : Restarts(c)
<1>1. PICK id \in PlayerId : id = next_player_id
  BY DEF EngineInv, TypeOK
<1>2. PICK ps : ps = map_insert(players, id, player) /\ players' = ps
  BY <1>1 DEF Join
<1>3. PICK a, g : a = AcceptedPlayer(id, player) /\ g = GameStarted(ps)
  OBVIOUS
<1>4. /\ a \in ServerMessage /\ a.code = "AcceptedPlayer"
      /\ g \in ServerMessage /\ g.code = "GameStarted"
  <2>1. a \in ServerMessage /\ a.code = "AcceptedPlayer"
    BY <1>3, AcceptedPlayerType DEF AcceptedPlayer
  <2>2. Map(ps, PlayerId, Player)
    BY <1>2 DEF EngineInv, TypeOK
  <2>. QED
    BY <1>3, <2>1, <2>2, GameStartedType DEF GameStarted
<1>5. PICK c : c = <<a>> \o <<g>>
  OBVIOUS
<1>6. /\ out' = send_message(All, c) /\ current_turn' = current_turn /\ current_turn = 0
      /\ phase' # "loop"
  <2>1. ~gameplay_started /\ Cardinality(DOMAIN ps) = players_count
    BY <1>1, <1>2 DEF Join
  <2>2. current_turn = 0
    BY <2>1 DEF EngineInv, InGameTablesAgree
  <2>. QED
    BY <1>1, <1>2, <1>3, <1>5, <2>1, <2>2 DEF Join, send_message_to_all, start_gameplay
<1>7. /\ c \in Seq(ServerMessage) /\ c # <<>> /\ Len(c) = 2 /\ DOMAIN c = {1, 2}
      /\ c[1] = a /\ c[2] = g
  BY <1>4, <1>5, TwoElements
<1>8. ForMe(out') = c
  BY <1>6, <1>7, SentToAll
<1>9. Upto' = 0
  BY <1>6 DEF Upto
<1>10. ~OnlyTurns(c, 0)
  <2>1. 1 \in DOMAIN c /\ 1 > 0
    BY <1>7
  <2>. QED
    BY <1>4, <1>7, <2>1 DEF OnlyTurns
<1>11. QueueShown(turns', c, 0)
  BY <1>4, <1>7 DEF QueueShown
<1>12. Gapless(c, 2, -1, 0)
  BY <1>7 DEF Gapless, NextTold
<1>13. QueueFresh(InLobby({}), c, 0)
  BY <1>4, <1>7, <1>12 DEF QueueFresh
<1>. QED
  BY <1>4, <1>7, <1>8, <1>9, <1>10, <1>11, <1>13 DEF Restarts

\* Whatever the engine does in a gameplay.
LEMMA EngineSays ==
    ASSUME EngineInv, EngineInv', me = 1, Next, gameplay_started'
    PROVE  Silent \/ (\E m : SaysTurn(m)) \/ (\E c : Restarts(c))
<1>. USE DEF lobby, world, marks, log, game
<1>1. ASSUME gameplay_started, out' = <<>>, ~(phase = "serve" /\ phase' = "loop") PROVE Silent
  <2>1. Extended(turns, turns', Upto) /\ Upto' = Upto
    BY <1>1, EngineExtends
  <2>2. ForMe(out') = <<>>
    BY <1>1 DEF ForMe
  <2>. QED
    BY <1>1, <2>1, <2>2 DEF Silent
<1>2. CASE BeginTurn \/ EraseBombs \/ EraseBlock \/ TurnBegun \/ PollInLobby
           \/ NoConnection \/ EndRound
  <2>1. gameplay_started /\ out' = <<>> /\ ~(phase = "serve" /\ phase' = "loop")
    BY <1>2 DEF BeginTurn, EraseBombs, EraseBlock, TurnBegun, PollInLobby, NoConnection, EndRound
  <2>. QED
    BY <1>1, <2>1
<1>3. ASSUME NEW b \in DOMAIN bombs, TickBomb(b) PROVE Silent
  <2>1. gameplay_started /\ out' = <<>> /\ ~(phase = "serve" /\ phase' = "loop")
    BY <1>3 DEF TickBomb
  <2>. QED
    BY <1>1, <2>1
<1>4. ASSUME NEW p \in Board, SeedBlock(p) PROVE Silent
  <2>1. gameplay_started /\ out' = <<>> /\ ~(phase = "serve" /\ phase' = "loop")
    BY <1>4 DEF SeedBlock
  <2>. QED
    BY <1>1, <2>1
<1>5. CASE SummariseTurn
  BY <1>5, SummariseSays
<1>6. ASSUME NEW position \in {-1} \cup Slot, AcceptClient(position)
      PROVE  Silent \/ \E c : Restarts(c)
  <2>1. gameplay_started /\ phase # "serve"
    BY <1>6 DEF AcceptClient
  <2>2. CASE position = -1
    <3>1. out' = <<>>
      BY <1>6, <2>2 DEF AcceptClient
    <3>. QED
      BY <1>1, <2>1, <3>1
  <2>3. CASE position \in Slot
    BY <1>6, <2>1, <2>3, GreetingRestarts
  <2>. QED
    BY <2>2, <2>3
<1>7. ASSUME NEW i \in Slot, NEW player \in Player, Join(i, player) PROVE \E c : Restarts(c)
  BY <1>7, JoinRestarts
<1>8. ASSUME NEW i \in Slot,
             \/ JoinRefused(i) \/ ActionRefused(i) \/ ActionThrows(i)
             \/ PlaceBomb(i) \/ PlaceBlock(i) \/ \E d \in DirectionByte : Move(i, d)
      PROVE  Silent
  <2>1. gameplay_started /\ out' = <<>> /\ phase' # "loop"
    BY <1>8 DEF JoinRefused, ActionRefused, ActionThrows, PlaceBomb, PlaceBlock, Move, Acts, Serving
  <2>. QED
    BY <1>1, <2>1
<1>. QED
  BY <1>2, <1>3, <1>4, <1>5, <1>6, <1>7, <1>8 DEF Next, ServerStep, ClientStep, HandleMsg

-----------------------------------------------------------------------------
(* What that does to what is on its way.                                   *)

\* The log grows while nothing is told.
LEMMA QueueGrows ==
    ASSUME NEW ts \in Seq(TurnInfo), NEW us \in Seq(TurnInfo), NEW upto \in Nat,
           Extended(ts, us, upto), NEW q \in Seq(ServerMessage), QueueShown(ts, q, upto)
    PROVE  QueueShown(us, q, upto)
<1>. SUFFICES ASSUME NEW k \in DOMAIN q, q[k].code = "Turn", TurnShown(ts, q, k, upto)
              PROVE  TurnShown(us, q, k, upto)
  BY DEF QueueShown
<1>1. PICK m \in ServerMessage : m = q[k]
  <2>1. k \in 1 .. Len(q)
    BY LenProperties
  <2>. QED
    BY <2>1, ElementOfSeq
<1>2. m.turn \in Int
  BY <1>1, GameParams DEF ServerMessage, Hello
<1>3. Reads(us, m.events, m.turn, 0)
  BY <1>1, ReadsExtended DEF TurnShown
<1>4. m.turn < upto /\ Covers(ts, m.turn, Len(m.events)) => Covers(us, m.turn, Len(m.events))
  BY <1>2, CoversExtended
<1>. QED
  BY <1>1, <1>3, <1>4 DEF TurnShown

\* The client is still right.
LEMMA SeesGrows ==
    ASSUME NEW ts \in Seq(TurnInfo), NEW us \in Seq(TurnInfo), NEW upto \in Nat,
           Extended(ts, us, upto), NEW q, NEW g, NEW h, ClientSees(ts, upto, q, g, h)
    PROVE  ClientSees(us, upto, q, g, h)
<1>. SUFFICES ASSUME NEW r \in Nat, NEW n \in 0 .. r, Sees(ts, upto, q, g, h, r, n)
              PROVE  Sees(us, upto, q, g, h, r, n)
  BY DEF ClientSees
<1>1. PICK t \in -1 .. upto : t = g.turn
  BY DEF Sees
<1>2. t \in Int /\ t <= upto /\ (r = 0 \/ <<t + 1, r>> \in Places(ts))
  BY <1>1 DEF Sees
<1>3. PICK S : /\ S = Seen(ts, t, r) /\ S = Seen(us, t, r)
               /\ \A l \in S : EventAt(us, l) = EventAt(ts, l)
  BY <1>2, SeenExtended
<1>4. r = 0 \/ <<t + 1, r>> \in Places(us)
  BY <1>2 DEF Extended
<1>5. ShowsBombs(us, g.bombs, S)
  <2>1. ShowsBombs(ts, g.bombs, S)
    BY <1>1, <1>3 DEF Sees
  <2>. QED
    BY <1>3, <2>1, ShownExtended
<1>6. h.code = "Turn" => Reads(us, h.events, t, n)
  BY <1>1, ReadsExtended DEF Sees
<1>7. NextTold(q, 0, upto) # t =>
        t < upto /\ (Covers(us, t, r) \/ (h.code = "Turn" /\ Covers(us, t, n + Len(h.events))))
  <2>. SUFFICES ASSUME NextTold(q, 0, upto) # t
                PROVE  t < upto /\ (Covers(us, t, r)
                                      \/ (h.code = "Turn" /\ Covers(us, t, n + Len(h.events))))
    OBVIOUS
  <2>1. t < upto /\ (Covers(ts, t, r) \/ (h.code = "Turn" /\ Covers(ts, t, n + Len(h.events))))
    BY <1>1 DEF Sees
  <2>2. PICK o : o = n + Len(h.events)
    OBVIOUS
  <2>3. /\ Covers(ts, t, r) => Covers(us, t, r)
        /\ Covers(ts, t, o) => Covers(us, t, o)
    BY <1>2, <2>1, CoversExtended
  <2>. QED
    BY <2>1, <2>2, <2>3
<1>8. g.players # <<>> =>
        /\ Gapless(q, 0, t, upto) /\ (h.code = "Turn" => n = r)
        /\ CountsHits(us, g.scores, S)
  <2>. SUFFICES ASSUME g.players # <<>>
                PROVE  /\ Gapless(q, 0, t, upto) /\ (h.code = "Turn" => n = r)
                       /\ CountsHits(us, g.scores, S)
    OBVIOUS
  <2>1. /\ Gapless(q, 0, t, upto) /\ (h.code = "Turn" => n = r)
        /\ CountsHits(ts, g.scores, S)
    BY <1>1, <1>3 DEF Sees
  <2>. QED
    BY <1>3, <2>1, ShownExtended
<1>. QED
  BY <1>1, <1>3, <1>4, <1>5, <1>6, <1>7, <1>8 DEF Sees

\* The turn upto is told: u is the queue then.
MoreTold(q, m, u, upto) ==
    /\ Len(q) \in Nat /\ DOMAIN q = 1 .. Len(q) /\ DOMAIN u = 1 .. Len(q) + 1
    /\ u[Len(q) + 1] = m /\ NextTold(u, Len(q) + 1, upto + 1) = upto + 1
    /\ \A k \in 1 .. Len(q) : u[k] = q[k]
    /\ \A k \in 0 .. Len(q) : /\ OnlyTurns(u, k) => OnlyTurns(q, k)
                              /\ NextTold(u, k, upto + 1) = NextTold(q, k, upto)
    /\ \A t : \A k \in 0 .. Len(q) : Gapless(q, k, t, upto) => Gapless(u, k, t, upto + 1)

\* It is the old one, and nothing that went before changes.
LEMMA ToldMore ==
    ASSUME NEW q \in Seq(ServerMessage), NEW m \in ServerMessage, m.code = "Turn",
           NEW upto \in Nat, m.turn = upto, NEW u, u = q \o <<m>>
    PROVE  MoreTold(q, m, u, upto)
<1>1. /\ Len(q) \in Nat /\ DOMAIN q = 1 .. Len(q) /\ DOMAIN u = 1 .. Len(q) + 1
      /\ Len(u) = Len(q) + 1 /\ u[Len(q) + 1] = m
      /\ \A k \in 1 .. Len(q) : u[k] = q[k]
  BY LenProperties
<1>2. NextTold(u, Len(q) + 1, upto + 1) = upto + 1
  BY <1>1 DEF NextTold
<1>3. ASSUME NEW k \in 0 .. Len(q) PROVE NextTold(u, k, upto + 1) = NextTold(q, k, upto)
  <2>1. CASE k < Len(q)
    <3>1. k + 1 \in 1 .. Len(q) /\ k < Len(u)
      BY <1>1, <2>1
    <3>. QED
      BY <1>1, <2>1, <3>1 DEF NextTold
  <2>2. CASE k = Len(q)
    BY <1>1, <2>2 DEF NextTold
  <2>3. k < Len(q) \/ k = Len(q)
    <3>1. Len(q) \in Nat
      BY <1>1
    <3>. QED
      BY <3>1
  <2>. QED
    BY <2>1, <2>2, <2>3
<1>4. ASSUME NEW k \in 0 .. Len(q), OnlyTurns(u, k) PROVE OnlyTurns(q, k)
  BY <1>1, <1>4 DEF OnlyTurns
<1>5. ASSUME NEW t, NEW k \in 0 .. Len(q), Gapless(q, k, t, upto) PROVE Gapless(u, k, t, upto + 1)
  <2>1. NextTold(u, k, upto + 1) = t + 1
    BY <1>3, <1>5 DEF Gapless
  <2>2. ASSUME NEW j \in DOMAIN u, j > k PROVE NextTold(u, j, upto + 1) = u[j].turn + 1
    <3>1. CASE j = Len(q) + 1
      BY <1>1, <1>2, <3>1
    <3>2. CASE j # Len(q) + 1
      <4>1. j \in DOMAIN q /\ j \in 0 .. Len(q) /\ u[j] = q[j]
        BY <1>1, <3>2
      <4>. QED
        BY <1>3, <1>5, <2>2, <4>1 DEF Gapless
    <3>. QED
      BY <3>1, <3>2
  <2>. QED
    BY <2>1, <2>2 DEF Gapless
<1>. QED
  BY <1>1, <1>2, <1>3, <1>4, <1>5 DEF MoreTold

\* The queue and the client are right about it.
LEMMA QueueTold ==
    ASSUME NEW ts, NEW q \in Seq(ServerMessage), NEW m \in ServerMessage, m.code = "Turn",
           NEW upto \in Nat, m.turn = upto, NEW u, u = q \o <<m>>,
           Reads(ts, m.events, m.turn, 0), Covers(ts, m.turn, Len(m.events)),
           NEW told, NEW g, NEW h,
           Shown(ts, upto, told, q, g, h)
    PROVE  Shown(ts, upto + 1, told, u, g, h)
<1>1. /\ Len(q) \in Nat /\ DOMAIN q = 1 .. Len(q) /\ DOMAIN u = 1 .. Len(q) + 1
      /\ u[Len(q) + 1] = m /\ NextTold(u, Len(q) + 1, upto + 1) = upto + 1
      /\ \A k \in 1 .. Len(q) : u[k] = q[k]
      /\ \A k \in 0 .. Len(q) : /\ OnlyTurns(u, k) => OnlyTurns(q, k)
                                /\ NextTold(u, k, upto + 1) = NextTold(q, k, upto)
      /\ \A t : \A k \in 0 .. Len(q) : Gapless(q, k, t, upto) => Gapless(u, k, t, upto + 1)
  <2>1. MoreTold(q, m, u, upto)
    BY ToldMore
  <2>. QED
    BY <2>1 DEF MoreTold
<1>2. upto < upto + 1 /\ upto <= upto + 1
  OBVIOUS
<1>3. ASSUME NEW k \in DOMAIN u, OnlyTurns(u, k), u[k].code = "Turn"
      PROVE  TurnShown(ts, u, k, upto + 1)
  <2>1. CASE k = Len(q) + 1
    BY <1>1, <1>2, <2>1 DEF TurnShown
  <2>2. CASE k # Len(q) + 1
    <3>1. k \in DOMAIN q /\ k \in 0 .. Len(q) /\ u[k] = q[k]
      BY <1>1, <2>2
    <3>2. TurnShown(ts, q, k, upto)
      BY <1>1, <1>3, <3>1 DEF Shown, QueueShown
    <3>3. q[k].turn \in Int
      <4>1. q[k] \in ServerMessage
        BY <1>1, <3>1, ElementOfSeq
      <4>. QED
        BY <1>3, <3>1, <4>1, GameParams DEF ServerMessage, Hello
    <3>4. /\ q[k].turn <= upto => q[k].turn <= upto + 1
          /\ q[k].turn < upto => q[k].turn < upto + 1
      BY <3>3
    <3>. QED
      BY <1>1, <3>1, <3>2, <3>4 DEF TurnShown
  <2>. QED
    BY <2>1, <2>2
<1>4. ASSUME NEW k \in DOMAIN u, OnlyTurns(u, k), u[k].code = "GameStarted",
             (IF k = 1 THEN told ELSE ToldBy(u[k - 1])) # InLobby({})
      PROVE  Gapless(u, k, -1, upto + 1)
  <2>1. k # Len(q) + 1
    BY <1>1, <1>4
  <2>2. k \in DOMAIN q /\ k \in 0 .. Len(q) /\ u[k] = q[k]
    BY <1>1, <2>1
  <2>3. k # 1 => u[k - 1] = q[k - 1]
    <3>1. k # 1 => k - 1 \in 1 .. Len(q)
      BY <1>1, <2>2
    <3>. QED
      BY <1>1, <3>1
  <2>4. Gapless(q, k, -1, upto)
    BY <1>1, <1>4, <2>2, <2>3 DEF Shown, QueueFresh
  <2>. QED
    BY <1>1, <2>2, <2>4
<1>5. 0 \in 0 .. Len(q)
  BY <1>1
<1>6. ASSUME NEW r \in Nat, NEW n \in 0 .. r, Sees(ts, upto, q, g, h, r, n)
      PROVE  Sees(ts, upto + 1, u, g, h, r, n)
  <2>1. g.turn \in -1 .. upto + 1 /\ (g.turn < upto => g.turn < upto + 1)
    <3>1. g.turn \in -1 .. upto
      BY <1>6 DEF Sees
    <3>. QED
      BY <3>1
  <2>2. NextTold(u, 0, upto + 1) = NextTold(q, 0, upto)
    BY <1>1, <1>5
  <2>3. Gapless(q, 0, g.turn, upto) => Gapless(u, 0, g.turn, upto + 1)
    BY <1>1, <1>5
  <2>. QED
    BY <1>6, <2>1, <2>2, <2>3 DEF Sees
<1>7. OnlyTurns(u, 0) => OnlyTurns(q, 0)
  BY <1>1, <1>5
<1>. QED
  BY <1>3, <1>4, <1>6, <1>7 DEF Shown, QueueShown, QueueFresh, ClientSees

-----------------------------------------------------------------------------
(* The queue in two parts.                                                 *)

\* u is s and then c: what is said of c is said of it in u.
Parts(s, c, u) ==
    /\ Len(s) \in Nat /\ Len(c) \in Nat /\ Len(u) = Len(s) + Len(c)
    /\ DOMAIN u = 1 .. Len(s) + Len(c) /\ DOMAIN c = 1 .. Len(c)
    /\ \A j \in 1 .. Len(c) : u[Len(s) + j] = c[j]
    /\ \A j \in 0 .. Len(c) :
        /\ OnlyTurns(u, Len(s) + j) <=> OnlyTurns(c, j)
        /\ \A upto : NextTold(u, Len(s) + j, upto) = NextTold(c, j, upto)
        /\ \A t, upto : Gapless(u, Len(s) + j, t, upto) <=> Gapless(c, j, t, upto)
    /\ \A j \in 1 .. Len(c) : \A ts, upto :
        TurnShown(ts, u, Len(s) + j, upto) <=> TurnShown(ts, c, j, upto)

\* It is the same.
LEMMA QueueParts ==
    ASSUME NEW s \in Seq(ServerMessage), NEW c \in Seq(ServerMessage), NEW u, u = s \o c
    PROVE  Parts(s, c, u)
<1>1. PICK n, o : n = Len(s) /\ o = Len(c)
  OBVIOUS
<1>2. /\ n \in Nat /\ o \in Nat /\ Len(u) = n + o /\ DOMAIN u = 1 .. n + o
      /\ DOMAIN c = 1 .. o
      /\ \A k \in 1 .. n + o : u[k] = IF k <= n THEN s[k] ELSE c[k - n]
  BY <1>1, LenProperties, ConcatProperties
<1>3. ASSUME NEW j \in 1 .. o PROVE n + j \in 1 .. n + o /\ u[n + j] = c[j]
  <2>1. n + j \in 1 .. n + o /\ ~(n + j <= n) /\ (n + j) - n = j
    BY <1>2
  <2>. QED
    BY <1>2, <2>1
<1>4. ASSUME NEW k \in 1 .. n + o, NEW j \in 0 .. o, k > n + j
      PROVE  k - n \in 1 .. o /\ k - n > j /\ n + (k - n) = k
  BY <1>2, <1>4
<1>5. ASSUME NEW j \in 0 .. o, NEW i \in 1 .. o, i > j
      PROVE  n + i \in 1 .. n + o /\ n + i > n + j
  BY <1>2, <1>5
<1>6. ASSUME NEW j \in 0 .. o PROVE OnlyTurns(u, n + j) <=> OnlyTurns(c, j)
  <2>1. ASSUME OnlyTurns(u, n + j), NEW i \in 1 .. o, i > j PROVE c[i].code = "Turn"
    BY <1>2, <1>3, <1>5, <2>1 DEF OnlyTurns
  <2>2. ASSUME OnlyTurns(c, j), NEW k \in 1 .. n + o, k > n + j PROVE u[k].code = "Turn"
    <3>1. PICK i \in 1 .. o : i > j /\ n + i = k
      BY <1>4, <2>2
    <3>. QED
      BY <1>2, <1>3, <2>2, <3>1 DEF OnlyTurns
  <2>. QED
    BY <1>2, <2>1, <2>2 DEF OnlyTurns
<1>7. ASSUME NEW j \in 0 .. o, NEW upto PROVE NextTold(u, n + j, upto) = NextTold(c, j, upto)
  <2>1. CASE j < o
    <3>1. n + j < n + o /\ j + 1 \in 1 .. o /\ (n + j) + 1 = n + (j + 1)
      BY <1>2, <2>1
    <3>2. u[(n + j) + 1] = c[j + 1]
      BY <1>3, <3>1
    <3>. QED
      BY <1>1, <1>2, <2>1, <3>1, <3>2 DEF NextTold
  <2>2. CASE ~(j < o)
    <3>1. ~(n + j < n + o)
      BY <1>2, <2>2
    <3>. QED
      BY <1>1, <1>2, <2>2, <3>1 DEF NextTold
  <2>. QED
    BY <2>1, <2>2
<1>8. ASSUME NEW j \in 0 .. o, NEW t, NEW upto
      PROVE  Gapless(u, n + j, t, upto) <=> Gapless(c, j, t, upto)
  <2>1. ASSUME Gapless(u, n + j, t, upto), NEW i \in 1 .. o, i > j
        PROVE  NextTold(c, i, upto) = c[i].turn + 1
    <3>1. NextTold(u, n + i, upto) = u[n + i].turn + 1
      BY <1>2, <1>5, <2>1 DEF Gapless
    <3>2. u[n + i] = c[i]
      BY <1>3, <2>1
    <3>3. i \in 0 .. o
      BY <2>1
    <3>4. NextTold(u, n + i, upto) = NextTold(c, i, upto)
      BY <1>7, <3>3
    <3>. QED
      BY <3>1, <3>2, <3>4
  <2>2. ASSUME Gapless(c, j, t, upto), NEW k \in 1 .. n + o, k > n + j
        PROVE  NextTold(u, k, upto) = u[k].turn + 1
    <3>1. PICK i \in 1 .. o : i > j /\ n + i = k
      BY <1>4, <2>2
    <3>2. NextTold(c, i, upto) = c[i].turn + 1
      BY <1>2, <2>2, <3>1 DEF Gapless
    <3>3. i \in 0 .. o /\ u[n + i] = c[i]
      BY <1>2, <1>3
    <3>4. NextTold(u, n + i, upto) = NextTold(c, i, upto)
      BY <1>7, <3>3
    <3>. QED
      BY <3>1, <3>2, <3>3, <3>4
  <2>. QED
    BY <1>2, <1>7, <2>1, <2>2 DEF Gapless
<1>9. ASSUME NEW j \in 1 .. o, NEW ts, NEW upto
      PROVE  TurnShown(ts, u, n + j, upto) <=> TurnShown(ts, c, j, upto)
  <2>1. u[n + j] = c[j] /\ NextTold(u, n + j, upto) = NextTold(c, j, upto)
    BY <1>2, <1>3, <1>7
  <2>. QED
    BY <2>1 DEF TurnShown
<1>. QED
  BY <1>1, <1>2, <1>3, <1>6, <1>7, <1>8, <1>9 DEF Parts

\* What starts the gameplay over hides all that went before.
LEMMA RestartsKeep ==
    ASSUME NEW s \in Seq(ServerMessage), NEW c \in Seq(ServerMessage), NEW u, u = s \o c,
           NEW ts, NEW upto, NEW told, NEW g, NEW h,
           ~OnlyTurns(c, 0), c[1].code # "GameStarted",
           QueueShown(ts, c, upto), QueueFresh(InLobby({}), c, upto)
    PROVE  Shown(ts, upto, told, u, g, h)
<1>1. PICK n, o : n = Len(s) /\ o = Len(c)
  OBVIOUS
<1>2. Parts(s, c, u)
  BY QueueParts
<1>3. /\ n \in Nat /\ o \in Nat /\ DOMAIN u = 1 .. n + o /\ DOMAIN c = 1 .. o
      /\ \A j \in 1 .. o : u[n + j] = c[j]
      /\ \A j \in 0 .. o : OnlyTurns(u, n + j) <=> OnlyTurns(c, j)
      /\ \A j \in 0 .. o : \A t : Gapless(u, n + j, t, upto) <=> Gapless(c, j, t, upto)
      /\ \A j \in 1 .. o : TurnShown(ts, u, n + j, upto) <=> TurnShown(ts, c, j, upto)
  BY <1>1, <1>2 DEF Parts
<1>4. PICK i \in 1 .. o : c[i].code # "Turn"
  BY <1>3 DEF OnlyTurns
<1>5. ASSUME NEW k \in 0 .. n + o, OnlyTurns(u, k) PROVE k >= n + i
  <2>1. n + i \in DOMAIN u /\ u[n + i].code # "Turn"
    BY <1>3, <1>4
  <2>2. ~(n + i > k)
    BY <1>5, <2>1 DEF OnlyTurns
  <2>. QED
    BY <1>3, <2>2
<1>6. ASSUME NEW k \in DOMAIN u, OnlyTurns(u, k)
      PROVE  \E j \in 1 .. o : k = n + j /\ OnlyTurns(c, j) /\ u[k] = c[j]
  <2>1. k \in 0 .. n + o /\ k \in 1 .. n + o
    BY <1>3
  <2>2. k >= n + i
    BY <1>5, <1>6, <2>1
  <2>3. PICK j \in 1 .. o : k = n + j
    <3>1. n \in Nat /\ o \in Nat
      BY <1>3
    <3>2. k - n \in 1 .. o /\ k = n + (k - n)
      BY <2>1, <2>2, <3>1
    <3>. QED
      BY <3>2
  <2>4. j \in 0 .. o
    BY <1>3
  <2>. QED
    BY <1>3, <1>6, <2>3, <2>4
<1>7. QueueShown(ts, u, upto)
  <2>. SUFFICES ASSUME NEW k \in DOMAIN u, OnlyTurns(u, k), u[k].code = "Turn"
                PROVE  TurnShown(ts, u, k, upto)
    BY DEF QueueShown
  <2>1. PICK j \in 1 .. o : k = n + j /\ OnlyTurns(c, j) /\ u[k] = c[j]
    BY <1>6
  <2>2. TurnShown(ts, c, j, upto)
    BY <1>3, <2>1 DEF QueueShown
  <2>. QED
    BY <1>3, <2>1, <2>2
<1>8. QueueFresh(told, u, upto)
  <2>. SUFFICES ASSUME NEW k \in DOMAIN u, OnlyTurns(u, k), u[k].code = "GameStarted",
                       (IF k = 1 THEN told ELSE ToldBy(u[k - 1])) # InLobby({})
                PROVE  Gapless(u, k, -1, upto)
    BY DEF QueueFresh
  <2>1. PICK j \in 1 .. o : k = n + j /\ OnlyTurns(c, j) /\ u[k] = c[j]
    BY <1>6
  <2>2. j # 1 /\ j - 1 \in 1 .. o /\ k - 1 = n + (j - 1) /\ k # 1 /\ j \in 0 .. o
    BY <1>3, <2>1
  <2>3. u[k - 1] = c[j - 1]
    BY <1>3, <2>2
  <2>4. Gapless(c, j, -1, upto)
    BY <1>3, <2>1, <2>2, <2>3 DEF QueueFresh
  <2>. QED
    BY <1>3, <2>1, <2>2, <2>4
<1>9. ~OnlyTurns(u, 0)
  <2>1. 0 \in 0 .. n + o /\ ~(0 >= n + i)
    BY <1>3
  <2>. QED
    BY <1>5, <2>1
<1>. QED
  BY <1>7, <1>8, <1>9 DEF Shown, ClientSees

\* A step of the server.
LEMMA EngineKeepsShown ==
    ASSUME PlayInv, EngineInv, EngineInv', me = 1, EngineMoves, ShownInv PROVE ShownInv'
<1>0. Next
  BY EngineMovesAreSteps DEF PlayInv, InputsTyped
<1>1. /\ Deliver /\ SameClient
      /\ accepted' = accepted \/ (~accepted /\ accepted' = TRUE /\ AcceptClient(me))
  BY DEF EngineMoves, ServerMoves, AcceptMe, ServeMe, Deliver, SameClient, client_vars
<1>2. GameShown' /\ "bombs" \in DOMAIN game_info'
  BY <1>1 DEF SameClient, ShownInv, GameShown, Own!game_message
<1>. SUFFICES ASSUME Following', gameplay_started'
              PROVE  Shown(turns, Upto, ClientTold, to_client, game_info, handling)'
  BY <1>2 DEF ShownInv
<1>3. accepted' /\ client = "running" /\ to_client \in Seq(ServerMessage)
  BY <1>1 DEF Following, SameClient, PlayInv
<1>4. PICK s, c, u, ts, us, top, upto, told, g, h :
        /\ s = to_client /\ c = ForMe(out') /\ u = s \o c /\ u = to_client'
        /\ ts = turns /\ us = turns' /\ top = Upto /\ upto = Upto'
        /\ told = ClientTold /\ told = ClientTold' /\ g = game_info /\ g = game_info'
        /\ h = handling /\ h = handling'
  BY <1>1, <1>3 DEF Deliver, SameClient, ClientTold
<1>. SUFFICES Shown(us, upto, told, u, g, h)
  BY <1>4
<1>5. ts \in Seq(TurnInfo) /\ us \in Seq(TurnInfo)
  BY <1>4 DEF EngineInv, TypeOK
<1>6. ASSUME NEW b, Restarts(b)
      PROVE  Shown(us, upto, told, u, g, h)
  <2>1. /\ c \in Seq(ServerMessage) /\ ~OnlyTurns(c, 0) /\ c[1].code # "GameStarted"
        /\ QueueShown(us, c, upto) /\ QueueFresh(InLobby({}), c, upto)
    BY <1>4, <1>6 DEF Restarts
  <2>2. s \in Seq(ServerMessage) /\ u = s \o c
    BY <1>3, <1>4
  <2>. QED
    BY <2>1, <2>2, RestartsKeep
<1>7. CASE ~accepted
  <2>1. AcceptClient(me)
    BY <1>1, <1>3, <1>7
  <2>2. gameplay_started
    BY <2>1 DEF AcceptClient, game, lobby
  <2>. QED
    BY <1>6, <2>1, <2>2, GreetingRestarts, MeAssumption
<1>8. CASE accepted /\ ~gameplay_started
  <2>1. Silent \/ (\E m : SaysTurn(m)) \/ (\E b : Restarts(b))
    BY <1>0, EngineSays
  <2>. QED
    BY <1>6, <1>8, <2>1 DEF Silent, SaysTurn
<1>9. CASE accepted /\ gameplay_started
  <2>1. Silent \/ (\E m : SaysTurn(m)) \/ (\E b : Restarts(b))
    BY <1>0, EngineSays
  <2>2. Shown(ts, top, told, s, g, h)
    BY <1>3, <1>4, <1>9 DEF ShownInv, Following
  <2>3. top \in Nat
    BY <1>4, <1>9, InGameTypes DEF Upto
  <2>4. ASSUME Extended(ts, us, top)
        PROVE  Shown(us, top, told, s, g, h)
    <3>1. QueueShown(us, s, top)
      BY <1>3, <1>4, <1>5, <2>2, <2>3, <2>4, QueueGrows DEF Shown
    <3>2. ClientSees(us, top, s, g, h)
      BY <1>5, <2>2, <2>3, <2>4, SeesGrows DEF Shown
    <3>. QED
      BY <2>2, <3>1, <3>2 DEF Shown
  <2>5. CASE Silent
    <3>1. Extended(ts, us, top) /\ upto = top /\ u = s
      BY <1>3, <1>4, <2>5, ConcatEmptySeq DEF Silent
    <3>. QED
      BY <2>2, <2>4, <3>1
  <2>6. ASSUME NEW m, SaysTurn(m)
        PROVE  Shown(us, upto, told, u, g, h)
    <3>1. /\ m \in ServerMessage /\ m.code = "Turn" /\ m.turn = top /\ upto = top + 1
          /\ u = s \o <<m>> /\ Extended(ts, us, top)
          /\ Reads(us, m.events, m.turn, 0) /\ Covers(us, m.turn, Len(m.events))
      BY <1>4, <2>6 DEF SaysTurn
    <3>2. s \in Seq(ServerMessage)
      BY <1>3, <1>4
    <3>. QED
      BY <2>2, <2>3, <2>4, <3>1, <3>2, QueueTold
  <2>. QED
    BY <1>6, <2>1, <2>5, <2>6
<1>. QED
  BY <1>7, <1>8, <1>9

-----------------------------------------------------------------------------
(* The first message is taken off the queue.                               *)

\* c is the queue q without its first message m.
Shortened(ts, upto, told, q, m, c) ==
    /\ QueueShown(ts, c, upto) /\ QueueFresh(ToldBy(m), c, upto)
    /\ OnlyTurns(c, 0) =>
        /\ m.code = "Turn" =>
            /\ OnlyTurns(q, 0) /\ m.turn <= upto /\ Reads(ts, m.events, m.turn, 0)
            /\ NextTold(c, 0, upto) # m.turn =>
                m.turn < upto /\ Covers(ts, m.turn, Len(m.events))
        /\ m.code = "GameStarted" /\ told # InLobby({}) => Gapless(c, 0, -1, upto)
    /\ NextTold(q, 0, upto) = m.turn
    /\ \A t : Gapless(q, 0, t, upto) => m.turn = t + 1 /\ Gapless(c, 0, m.turn, upto)

\* It says so much less, and the rest of m.
LEMMA QueueShortened ==
    ASSUME NEW q \in Seq(ServerMessage), q # <<>>, NEW ts, NEW upto, NEW told, NEW m, NEW c,
           m = Head(q), c = Tail(q), QueueShown(ts, q, upto), QueueFresh(told, q, upto)
    PROVE  Shortened(ts, upto, told, q, m, c)
<1>1. /\ m \in ServerMessage /\ c \in Seq(ServerMessage) /\ q[1] = m
      /\ Len(q) \in Nat /\ DOMAIN q = 1 .. Len(q) /\ Len(q) > 0 /\ Len(c) = Len(q) - 1
      /\ \A j \in 1 .. Len(q) - 1 : c[j] = q[j + 1]
  BY LenProperties, EmptySeq, HeadTailProperties
<1>2. PICK s \in Seq(ServerMessage) : s = <<m>> /\ Len(s) = 1
  <2>1. m \in ServerMessage
    BY <1>1
  <2>2. <<m>> \in Seq(ServerMessage) /\ Len(<<m>>) = 1
    BY <2>1
  <2>. QED
    BY <2>2
<1>3. q = s \o c
  <2>1. PICK u : u = s \o c
    OBVIOUS
  <2>2. /\ u \in Seq(ServerMessage) /\ Len(u) = Len(q)
        /\ \A k \in 1 .. Len(q) : u[k] = q[k]
    <3>1. /\ u \in Seq(ServerMessage) /\ Len(u) = 1 + Len(c) /\ s[1] = m
          /\ \A k \in 1 .. 1 + Len(c) : u[k] = IF k <= 1 THEN s[k] ELSE c[k - 1]
      BY <1>1, <1>2, <2>1, ConcatProperties
    <3>2. Len(u) = Len(q)
      BY <1>1, <3>1
    <3>3. ASSUME NEW k \in 1 .. Len(q) PROVE u[k] = q[k]
      <4>1. CASE k = 1
        BY <1>1, <3>1, <4>1
      <4>2. CASE k # 1
        <5>1. k - 1 \in 1 .. Len(q) - 1 /\ (k - 1) + 1 = k /\ k \in 1 .. 1 + Len(c) /\ ~(k <= 1)
          BY <1>1, <4>2
        <5>. QED
          BY <1>1, <3>1, <5>1
      <4>. QED
        BY <4>1, <4>2
    <3>. QED
      BY <3>1, <3>2, <3>3
  <2>. QED
    BY <2>1, <2>2, SeqEqual
<1>4. Parts(s, c, q)
  BY <1>1, <1>3, QueueParts
<1>5. PICK o : o = Len(c)
  OBVIOUS
<1>6. /\ o \in Nat /\ Len(q) = 1 + o /\ DOMAIN q = 1 .. 1 + o /\ DOMAIN c = 1 .. o
      /\ \A j \in 1 .. o : q[1 + j] = c[j]
      /\ \A j \in 0 .. o : OnlyTurns(q, 1 + j) <=> OnlyTurns(c, j)
      /\ \A j \in 0 .. o : NextTold(q, 1 + j, upto) = NextTold(c, j, upto)
      /\ \A j \in 0 .. o : \A t : Gapless(q, 1 + j, t, upto) <=> Gapless(c, j, t, upto)
      /\ \A j \in 1 .. o : TurnShown(ts, q, 1 + j, upto) <=> TurnShown(ts, c, j, upto)
  BY <1>2, <1>4, <1>5 DEF Parts
<1>7. /\ \A j \in 1 .. o : j \in 0 .. o /\ 1 + j \in 1 .. 1 + o /\ 1 + j # 1 /\ (1 + j) - 1 = j
      /\ 0 \in 0 .. o /\ 1 + 0 = 1 /\ 1 \in 1 .. 1 + o
  BY <1>6
<1>8. QueueShown(ts, c, upto)
  BY <1>6, <1>7 DEF QueueShown
<1>9. QueueFresh(ToldBy(m), c, upto)
  <2>. SUFFICES ASSUME NEW j \in 1 .. o, OnlyTurns(c, j), c[j].code = "GameStarted",
                       (IF j = 1 THEN ToldBy(m) ELSE ToldBy(c[j - 1])) # InLobby({})
                PROVE  Gapless(c, j, -1, upto)
    BY <1>6 DEF QueueFresh
  <2>1. ToldBy(q[j]) # InLobby({})
    <3>1. CASE j = 1
      BY <1>1, <3>1
    <3>2. CASE j # 1
      <4>1. j - 1 \in 1 .. o /\ 1 + (j - 1) = j
        BY <1>6, <3>2
      <4>2. q[1 + (j - 1)] = c[j - 1]
        BY <1>6, <4>1
      <4>. QED
        BY <3>2, <4>1, <4>2
    <3>. QED
      BY <3>1, <3>2
  <2>2. PICK k \in DOMAIN q : k = 1 + j /\ k # 1 /\ k - 1 = j
    BY <1>6, <1>7
  <2>3. OnlyTurns(q, k) /\ q[k].code = "GameStarted"
    BY <1>6, <1>7, <2>2
  <2>4. Gapless(q, k, -1, upto)
    BY <2>1, <2>2, <2>3 DEF QueueFresh
  <2>. QED
    BY <1>6, <1>7, <2>2, <2>4
<1>10. /\ OnlyTurns(c, 0) <=> OnlyTurns(q, 1)
       /\ NextTold(q, 1, upto) = NextTold(c, 0, upto)
       /\ \A t : Gapless(q, 1, t, upto) <=> Gapless(c, 0, t, upto)
  BY <1>6, <1>7
<1>11. ASSUME OnlyTurns(c, 0), m.code = "Turn"
       PROVE  /\ OnlyTurns(q, 0) /\ m.turn <= upto /\ Reads(ts, m.events, m.turn, 0)
              /\ NextTold(c, 0, upto) # m.turn =>
                    m.turn < upto /\ Covers(ts, m.turn, Len(m.events))
  <2>1. TurnShown(ts, q, 1, upto)
    BY <1>1, <1>6, <1>7, <1>10, <1>11 DEF QueueShown
  <2>2. \A j \in DOMAIN q : j = 1 \/ j > 1
    BY <1>6
  <2>3. OnlyTurns(q, 0)
    BY <1>1, <1>10, <1>11, <2>2 DEF OnlyTurns
  <2>. QED
    BY <1>1, <1>10, <2>1, <2>3 DEF TurnShown
<1>12. ASSUME OnlyTurns(c, 0), m.code = "GameStarted", told # InLobby({})
       PROVE  Gapless(c, 0, -1, upto)
  BY <1>1, <1>6, <1>7, <1>10, <1>12 DEF QueueFresh
<1>13. NextTold(q, 0, upto) = m.turn
  BY <1>1 DEF NextTold
<1>14. ASSUME NEW t, Gapless(q, 0, t, upto)
       PROVE  m.turn = t + 1 /\ Gapless(c, 0, m.turn, upto)
  <2>1. m.turn = t + 1
    BY <1>13, <1>14 DEF Gapless
  <2>2. 1 > 0 /\ \A j \in DOMAIN q : j > 1 => j > 0
    BY <1>6
  <2>3. Gapless(q, 1, m.turn, upto)
    BY <1>1, <1>6, <1>7, <1>14, <2>2 DEF Gapless
  <2>. QED
    BY <1>10, <2>1, <2>3
<1>. QED
  BY <1>8, <1>9, <1>11, <1>12, <1>13, <1>14 DEF Shortened

\* Before turns there is a gameplay.
LEMMA ChainInGame ==
    ASSUME NEW q \in Seq(ServerMessage), NEW told, Chain(told, q), OnlyTurns(q, 0),
           gameplay_started, ServerTold(LastTold(told, q))
    PROVE  told.stage = "game"
<1>1. CASE q = <<>>
  BY <1>1 DEF LastTold, ServerTold, InGame
<1>2. CASE q # <<>>
  <2>1. 1 \in DOMAIN q /\ 1 > 0
    BY <1>2, EmptySeq, LenProperties
  <2>2. q[1].code = "Turn" /\ Follows(told, q[1])
    BY <2>1 DEF OnlyTurns, Chain
  <2>. QED
    BY <2>2 DEF Follows, InGame
<1>. QED
  BY <1>1, <1>2

-----------------------------------------------------------------------------
(* What the client has seen when it reads a turn.                          *)

\* The numbers of a place.
LEMMA PlaceNumbers ==
    ASSUME NEW ts \in Seq(TurnInfo), NEW l \in Places(ts)
    PROVE  /\ l[1] \in Nat /\ l[2] \in Nat /\ l[1] > 0 /\ l[2] > 0 /\ l[1] <= Len(ts)
           /\ Len(ts) \in Nat /\ EventAt(ts, l) \in Event /\ l = <<l[1], l[2]>>
<1>1. /\ l[1] \in 1 .. Len(ts) /\ l[2] \in 1 .. Len(ts[l[1]].events)
      /\ l[1] \in Nat /\ l[2] \in Nat /\ EventAt(ts, l) \in Event /\ l = <<l[1], l[2]>>
  BY PlacesAre
<1>2. Len(ts) \in Nat /\ Len(ts[l[1]].events) \in Nat
  BY <1>1, LenProperties, EventsType
<1>. QED
  BY <1>1, <1>2

\* A finite number of places.
LEMMA PlacesFinite == ASSUME NEW ts \in Seq(TurnInfo) PROVE IsFiniteSet(Places(ts))
<1>. DEFINE Row(k) == {k} \X DOMAIN ts[k].events
            T == {Row(k) : k \in DOMAIN ts}
            f == [k \in DOMAIN ts |-> Row(k)]
<1>1. DOMAIN ts = 1 .. Len(ts) /\ Len(ts) \in Nat
  BY LenProperties
<1>2. IsFiniteSet(DOMAIN ts)
  <2>1. 1 \in Int
    OBVIOUS
  <2>. QED
    BY <1>1, <2>1, FS_Interval
<1>3. ASSUME NEW k \in DOMAIN ts PROVE IsFiniteSet(Row(k))
  <2>1. DOMAIN ts[k].events = 1 .. Len(ts[k].events) /\ Len(ts[k].events) \in Nat
    BY <1>1, <1>3, EventsType
  <2>2. IsFiniteSet(DOMAIN ts[k].events)
    <3>1. 1 \in Int
      OBVIOUS
    <3>. QED
      BY <2>1, <3>1, FS_Interval
  <2>3. IsFiniteSet({k})
    BY FS_Singleton
  <2>. QED
    BY <2>2, <2>3, FS_Product
<1>4. f \in Surjection(DOMAIN ts, T)
  BY DEF Surjection
<1>5. IsFiniteSet(T)
  <2>. HIDE DEF f, T
  <2>. QED BY <1>2, <1>4, FS_Surjection
<1>6. \A R \in T : IsFiniteSet(R)
  BY <1>3
<1>7. IsFiniteSet(UNION T)
  <2>. HIDE DEF T
  <2>. QED BY <1>5, <1>6, FS_UNION
<1>. QED
  BY <1>7 DEF Places

\* Between two turns.
LEMMA SeenNext ==
    ASSUME NEW ts \in Seq(TurnInfo), NEW t \in Int, NEW r, Covers(ts, t, r)
    PROVE  Seen(ts, t + 1, 0) = Seen(ts, t, r)
<1>1. \A l \in Places(ts) : l[1] \in Nat /\ l[2] \in Nat /\ ~(l[2] <= 0)
  BY PlaceNumbers
<1>2. \A l \in Places(ts) : l[1] <= t + 1 <=> l[1] <= t \/ l[1] = t + 1
  BY <1>1
<1>. QED
  BY <1>1, <1>2 DEF Seen, Covers

\* f is g in the turn t.
AtTurn(f, g, t) ==
    f.turn = t /\ f.bombs = g.bombs /\ f.players = g.players /\ f.scores = g.scores

\* A turn, for the first time or not, is read from its beginning.
LEMMA TurnSeen ==
    ASSUME NEW ts \in Seq(TurnInfo), NEW upto \in Nat, NEW q, NEW told,
           NEW m \in ServerMessage, NEW c, Shortened(ts, upto, told, q, m, c), m.code = "Turn",
           NEW g, NEW h, h.code # "Turn", ClientSees(ts, upto, q, g, h),
           OnlyTurns(c, 0) => m.turn \in {g.turn, g.turn + 1},
           NEW f, AtTurn(f, g, m.turn)
    PROVE  ClientSees(ts, upto, c, f, m)
<1>. SUFFICES ASSUME OnlyTurns(c, 0)
              PROVE  \E r \in Nat : \E n \in 0 .. r : Sees(ts, upto, c, f, m, r, n)
  BY DEF ClientSees
<1>1. /\ OnlyTurns(q, 0) /\ m.turn <= upto /\ Reads(ts, m.events, m.turn, 0)
      /\ NextTold(c, 0, upto) # m.turn => m.turn < upto /\ Covers(ts, m.turn, Len(m.events))
      /\ NextTold(q, 0, upto) = m.turn
      /\ \A t : Gapless(q, 0, t, upto) => m.turn = t + 1 /\ Gapless(c, 0, m.turn, upto)
  BY DEF Shortened
<1>2. m.turn \in Nat /\ Len(m.events) \in Nat /\ 0 + Len(m.events) = Len(m.events)
  <2>1. m.turn \in Nat /\ m.events \in Seq(Event)
    BY GameParams DEF ServerMessage, Hello
  <2>. QED
    BY <2>1, LenProperties
<1>3. PICK r \in Nat : \E n \in 0 .. r : Sees(ts, upto, q, g, h, r, n)
  BY <1>1 DEF ClientSees
<1>4. PICK n \in 0 .. r : Sees(ts, upto, q, g, h, r, n)
  BY <1>3
<1>5. g.turn \in -1 .. upto /\ m.turn \in -1 .. upto
  BY <1>1, <1>2, <1>4 DEF Sees
<1>6. CASE m.turn = g.turn
  <2>1. f.players = <<>>
    <3>. SUFFICES ASSUME g.players # <<>> PROVE FALSE
      BY DEF AtTurn
    <3>1. m.turn = g.turn + 1
      BY <1>1, <1>4 DEF Sees
    <3>. QED
      BY <1>5, <1>6, <3>1
  <2>2. 0 \in 0 .. r
    OBVIOUS
  <2>3. Sees(ts, upto, c, f, m, r, 0)
    BY <1>1, <1>2, <1>4, <1>5, <1>6, <2>1 DEF Sees, AtTurn
  <2>. QED
    BY <2>2, <2>3
<1>7. CASE m.turn = g.turn + 1
  <2>1. m.turn # g.turn
    BY <1>5, <1>7
  <2>2. Covers(ts, g.turn, r)
    BY <1>1, <1>4, <2>1 DEF Sees
  <2>3. Seen(ts, m.turn, 0) = Seen(ts, g.turn, r)
    BY <1>5, <1>7, <2>2, SeenNext
  <2>4. Sees(ts, upto, c, f, m, 0, 0)
    BY <1>1, <1>2, <1>4, <1>5, <2>3 DEF Sees, AtTurn
  <2>5. 0 \in Nat /\ 0 \in 0 .. 0
    OBVIOUS
  <2>. QED
    BY <2>4, <2>5
<1>. QED
  BY <1>6, <1>7

\* A gameplay starts with no bombs and no scores.
LEMMA StartSeen ==
    ASSUME NEW ts \in Seq(TurnInfo), NEW upto \in Nat, NEW q, NEW told,
           NEW m, NEW c, Shortened(ts, upto, told, q, m, c), m.code = "GameStarted",
           NEW h, h.code # "Turn",
           NEW f, f.turn = -1, DOMAIN f.bombs = {},
           OnlyTurns(c, 0) /\ f.players # <<>> =>
                told # InLobby({}) /\ \A p \in Ids : p \in DOMAIN f.scores /\ f.scores[p] = 0
    PROVE  ClientSees(ts, upto, c, f, h)
<1>. SUFFICES ASSUME OnlyTurns(c, 0)
              PROVE  Sees(ts, upto, c, f, h, 0, 0)
  <2>1. 0 \in Nat /\ 0 \in 0 .. 0
    OBVIOUS
  <2>. QED
    BY <2>1 DEF ClientSees
<1>1. \A l \in Places(ts) : l[1] \in Nat /\ ~(l[1] <= -1) /\ l[1] # -1 + 1
  BY PlaceNumbers
<1>2. Seen(ts, -1, 0) = {}
  BY <1>1 DEF Seen
<1>3. ShowsBombs(ts, f.bombs, {})
  BY DEF ShowsBombs
<1>4. -1 \in -1 .. upto /\ -1 < upto /\ Covers(ts, -1, 0)
  BY <1>1 DEF Covers
<1>5. ASSUME f.players # <<>>
      PROVE  Gapless(c, 0, -1, upto) /\ CountsHits(ts, f.scores, {})
  <2>1. Gapless(c, 0, -1, upto)
    BY <1>5 DEF Shortened
  <2>2. \A p : Hits(ts, {}, p) = {}
    BY DEF Hits
  <2>3. Cardinality({}) = 0
    BY FS_EmptySet
  <2>. QED
    BY <1>5, <2>1, <2>2, <2>3 DEF CountsHits
<1>. QED
  BY <1>2, <1>3, <1>4, <1>5 DEF Sees

-----------------------------------------------------------------------------
(* What it makes of an event.                                              *)

\* The bombs cs are bs, and the scores zs are ss, after the event e.
BombsAfter(bs, cs, e) ==
    /\ \A b \in DOMAIN cs \cap DOMAIN bs : cs[b].position = bs[b].position
    /\ e.code = "Bomb_placed" =>
        /\ DOMAIN cs = DOMAIN bs \cup {e.id}
        /\ e.id \notin DOMAIN bs => cs[e.id].position = e.position
    /\ e.code = "Bomb_exploded" => DOMAIN cs = DOMAIN bs \ {e.id}
    /\ e.code \notin {"Bomb_placed", "Bomb_exploded"} => DOMAIN cs = DOMAIN bs

ScoresAfter(ss, zs, e) ==
    \A p \in Ids : p \in DOMAIN ss =>
        p \in DOMAIN zs /\ zs[p] = IF Destroys(e, p) THEN ss[p] + 1 ELSE ss[p]

\* No bomb explodes in the turn in which it was placed.
ExplodesLater(ts) ==
    \A l, m \in Places(ts) :
        EventAt(ts, l).code = "Bomb_placed" /\ Explosion(ts, m, EventAt(ts, l).id) => m[1] > l[1]

\* One more place is seen, or one seen before again: what was placed then
\* either is still there or exploded in a later turn.
LEMMA BombsRead ==
    ASSUME NEW ts \in Seq(TurnInfo), ExplodesLater(ts), NEW P \in Places(ts),
           NEW S \in SUBSET Places(ts), \A m \in S : m[1] <= P[1],
           NEW bs, ShowsBombs(ts, bs, S), NEW cs, BombsAfter(bs, cs, EventAt(ts, P))
    PROVE  ShowsBombs(ts, cs, S \cup {P})
<1>1. PICK e \in Event : e = EventAt(ts, P)
  BY PlaceNumbers
<1>2. /\ \A b \in DOMAIN cs \cap DOMAIN bs : cs[b].position = bs[b].position
      /\ e.code = "Bomb_placed" =>
            /\ DOMAIN cs = DOMAIN bs \cup {e.id}
            /\ e.id \notin DOMAIN bs => cs[e.id].position = e.position
      /\ e.code = "Bomb_exploded" => DOMAIN cs = DOMAIN bs \ {e.id}
      /\ e.code \notin {"Bomb_placed", "Bomb_exploded"} => DOMAIN cs = DOMAIN bs
  BY <1>1 DEF BombsAfter
<1>3. /\ \A b \in DOMAIN bs : /\ \E l \in S : EventAt(ts, l) = Bomb_placed(b, bs[b].position)
                              /\ \A m \in S : ~Explosion(ts, m, b)
      /\ \A l \in S : EventAt(ts, l).code = "Bomb_placed" =>
            \/ EventAt(ts, l).id \in DOMAIN bs
            \/ \E m \in S : Explosion(ts, m, EventAt(ts, l).id)
  BY DEF ShowsBombs
<1>4. ASSUME NEW b \in DOMAIN cs, b \in DOMAIN bs
      PROVE  /\ \E l \in S \cup {P} : EventAt(ts, l) = Bomb_placed(b, cs[b].position)
             /\ \A m \in S \cup {P} : ~Explosion(ts, m, b)
  <2>1. cs[b].position = bs[b].position
    BY <1>2, <1>4
  <2>2. ~Explosion(ts, P, b)
    BY <1>1, <1>2, <1>4 DEF Explosion
  <2>. QED
    BY <1>3, <1>4, <2>1, <2>2
<1>5. ASSUME NEW b \in DOMAIN cs, b \notin DOMAIN bs
      PROVE  /\ \E l \in S \cup {P} : EventAt(ts, l) = Bomb_placed(b, cs[b].position)
             /\ \A m \in S \cup {P} : ~Explosion(ts, m, b)
  <2>1. e.code = "Bomb_placed" /\ e.id = b /\ cs[b].position = e.position
    BY <1>2, <1>5
  <2>2. e = Bomb_placed(b, cs[b].position)
    BY <2>1 DEF Event, Bomb_placed
  <2>3. ASSUME NEW m \in S \cup {P}, Explosion(ts, m, b) PROVE FALSE
    <3>1. m \in Places(ts) /\ m[1] \in Nat /\ P[1] \in Nat /\ m[1] <= P[1]
      BY PlaceNumbers
    <3>2. m[1] > P[1]
      BY <1>1, <2>1, <2>3, <3>1 DEF ExplodesLater
    <3>. QED
      BY <3>1, <3>2
  <2>. QED
    BY <1>1, <2>2, <2>3
<1>6. ASSUME NEW l \in S \cup {P}, EventAt(ts, l).code = "Bomb_placed"
      PROVE  \/ EventAt(ts, l).id \in DOMAIN cs
             \/ \E m \in S \cup {P} : Explosion(ts, m, EventAt(ts, l).id)
  <2>1. CASE l = P
    BY <1>1, <1>2, <1>6, <2>1
  <2>2. CASE l # P
    <3>1. PICK b : b = EventAt(ts, l).id
      OBVIOUS
    <3>2. b \in DOMAIN bs \/ \E m \in S : Explosion(ts, m, b)
      BY <1>3, <1>6, <2>2, <3>1
    <3>3. CASE b \in DOMAIN bs /\ b \notin DOMAIN cs
      <4>1. Explosion(ts, P, b)
        BY <1>1, <1>2, <3>3 DEF Explosion
      <4>. QED
        BY <3>1, <4>1
    <3>. QED
      BY <3>1, <3>2, <3>3
  <2>. QED
    BY <2>1, <2>2
<1>. QED
  BY <1>4, <1>5, <1>6 DEF ShowsBombs

\* A hit is counted once.
LEMMA HitsRead ==
    ASSUME NEW ts \in Seq(TurnInfo), NEW P \in Places(ts),
           NEW S \in SUBSET Places(ts), P \notin S,
           NEW ss, CountsHits(ts, ss, S), NEW zs, ScoresAfter(ss, zs, EventAt(ts, P))
    PROVE  CountsHits(ts, zs, S \cup {P})
<1>. SUFFICES ASSUME NEW p \in Ids
              PROVE  p \in DOMAIN zs /\ zs[p] = Cardinality(Hits(ts, S \cup {P}, p))
  BY DEF CountsHits
<1>1. PICK H : H = Hits(ts, S, p)
  OBVIOUS
<1>2. p \in DOMAIN ss /\ ss[p] = Cardinality(H)
  BY <1>1 DEF CountsHits
<1>3. p \in DOMAIN zs /\ zs[p] = IF Destroys(EventAt(ts, P), p) THEN ss[p] + 1 ELSE ss[p]
  BY <1>2 DEF ScoresAfter
<1>4. IsFiniteSet(H) /\ P \notin H
  <2>1. H \in SUBSET Places(ts)
    BY <1>1 DEF Hits
  <2>. QED
    BY <1>1, <2>1, PlacesFinite, FS_Subset DEF Hits
<1>5. CASE Destroys(EventAt(ts, P), p)
  <2>1. Hits(ts, S \cup {P}, p) = H \cup {P}
    BY <1>1, <1>5 DEF Hits
  <2>2. Cardinality(H \cup {P}) = Cardinality(H) + 1
    BY <1>4, FS_AddElement
  <2>. QED
    BY <1>2, <1>3, <1>5, <2>1, <2>2
<1>6. CASE ~Destroys(EventAt(ts, P), p)
  <2>1. Hits(ts, S \cup {P}, p) = H
    BY <1>1, <1>6 DEF Hits
  <2>. QED
    BY <1>2, <1>3, <1>6, <2>1
<1>. QED
  BY <1>5, <1>6

\* The client that has read the first event of what it was reading.
LEMMA EventSeen ==
    ASSUME NEW ts \in Seq(TurnInfo), NEW upto \in Nat, ExplodesLater(ts), NEW q,
           NEW g, NEW h, ClientSees(ts, upto, q, g, h), h.code = "Turn",
           NEW ev \in Seq(Event), ev = h.events, ev # <<>>,
           NEW k, k.code = "Turn", k.events = Tail(ev),
           NEW f, f.turn = g.turn, f.players = g.players,
           BombsAfter(g.bombs, f.bombs, Head(ev)), ScoresAfter(g.scores, f.scores, Head(ev))
    PROVE  ClientSees(ts, upto, q, f, k)
<1>. SUFFICES ASSUME OnlyTurns(q, 0)
              PROVE  \E r \in Nat : \E n \in 0 .. r : Sees(ts, upto, q, f, k, r, n)
  BY DEF ClientSees
<1>1. PICK r \in Nat : \E n \in 0 .. r : Sees(ts, upto, q, g, h, r, n)
  BY DEF ClientSees
<1>2. PICK n \in 0 .. r : Sees(ts, upto, q, g, h, r, n)
  BY <1>1
<1>3. PICK t, P, S : t = g.turn /\ P = <<t + 1, n + 1>> /\ S = Seen(ts, t, r)
  OBVIOUS
<1>4. /\ t \in -1 .. upto /\ (r = 0 \/ <<t + 1, r>> \in Places(ts))
      /\ ShowsBombs(ts, g.bombs, S) /\ Reads(ts, ev, t, n)
      /\ NextTold(q, 0, upto) # t =>
            t < upto /\ (Covers(ts, t, r) \/ Covers(ts, t, n + Len(ev)))
      /\ g.players # <<>> =>
            Gapless(q, 0, t, upto) /\ n = r /\ CountsHits(ts, g.scores, S)
  BY <1>2, <1>3 DEF Sees
<1>5. PICK rest, len : /\ rest = Tail(ev) /\ len = Len(rest) /\ len \in Nat /\ Len(ev) = len + 1
                       /\ ev[1] = Head(ev)
                       /\ \A j \in 1 .. len : rest[j] = ev[j + 1]
  <2>1. /\ Len(ev) \in Nat /\ Len(ev) > 0 /\ Tail(ev) \in Seq(Event)
        /\ Len(Tail(ev)) = Len(ev) - 1 /\ Head(ev) = ev[1]
        /\ \A j \in 1 .. Len(ev) - 1 : Tail(ev)[j] = ev[j + 1]
    BY EmptySeq, LenProperties, HeadTailProperties
  <2>2. PICK rest, len : rest = Tail(ev) /\ len = Len(ev) - 1
    OBVIOUS
  <2>3. len \in Nat /\ Len(ev) = len + 1
    BY <2>1, <2>2
  <2>. QED
    BY <2>1, <2>2, <2>3
<1>6. P \in Places(ts) /\ EventAt(ts, P) = Head(ev) /\ P[1] = t + 1 /\ P[2] = n + 1
  <2>1. 1 \in 1 .. Len(ev)
    BY <1>5
  <2>. QED
    BY <1>3, <1>4, <1>5, <2>1 DEF Reads
<1>7. Reads(ts, rest, t, n + 1)
  <2>. SUFFICES ASSUME NEW j \in 1 .. len
                PROVE  /\ <<t + 1, n + 1 + j>> \in Places(ts)
                       /\ EventAt(ts, <<t + 1, n + 1 + j>>) = rest[j]
    BY <1>5 DEF Reads
  <2>1. j + 1 \in 1 .. Len(ev)
    BY <1>5
  <2>2. PICK o : o = n + (j + 1) /\ o = n + 1 + j
    BY <1>5
  <2>3. <<t + 1, o>> \in Places(ts) /\ EventAt(ts, <<t + 1, o>>) = ev[j + 1]
    BY <1>4, <2>1, <2>2 DEF Reads
  <2>4. rest[j] = ev[j + 1]
    BY <1>5
  <2>. QED
    BY <2>2, <2>3, <2>4
<1>8. n + Len(ev) = (n + 1) + len
  <2>1. PICK o : o = Len(ev)
    OBVIOUS
  <2>2. o = len + 1 /\ len \in Nat
    BY <1>5, <2>1
  <2>3. n + o = (n + 1) + len
    BY <2>2
  <2>. QED
    BY <2>1, <2>3
<1>9. S \in SUBSET Places(ts) /\ \A m \in S : m[1] <= P[1]
  <2>1. S \in SUBSET Places(ts)
    BY <1>3 DEF Seen
  <2>2. ASSUME NEW m \in S PROVE m[1] <= t + 1
    <3>1. m[1] \in Nat /\ (m[1] <= t \/ m[1] = t + 1)
      BY <1>3, <2>1, PlaceNumbers DEF Seen
    <3>. QED
      BY <1>4, <3>1
  <2>. QED
    BY <1>6, <2>1, <2>2
<1>10. ShowsBombs(ts, f.bombs, S \cup {P})
  BY <1>4, <1>6, <1>9, BombsRead
<1>11. CASE n < r
  <2>1. P \in S
    <3>1. n + 1 <= r
      BY <1>11
    <3>. QED
      BY <1>3, <1>6, <3>1 DEF Seen
  <2>2. S \cup {P} = S
    BY <2>1
  <2>3. f.players = <<>>
    BY <1>4, <1>11
  <2>4. n + 1 \in 0 .. r
    BY <1>11
  <2>5. Sees(ts, upto, q, f, k, r, n + 1)
    BY <1>3, <1>4, <1>5, <1>7, <1>8, <1>10, <2>2, <2>3 DEF Sees
  <2>. QED
    BY <2>4, <2>5
<1>12. CASE n = r
  <2>1. Seen(ts, t, r + 1) = S \cup {P}
    <3>1. ASSUME NEW l \in Places(ts), l[1] = t + 1
          PROVE  l[2] <= r + 1 <=> (l[2] <= r \/ l = P)
      <4>1. l[2] \in Nat /\ l = <<l[1], l[2]>>
        BY PlaceNumbers
      <4>2. l = P <=> l[2] = r + 1
        BY <1>3, <1>6, <1>12, <3>1, <4>1
      <4>. QED
        BY <4>1, <4>2
    <3>2. ~(P[1] <= t)
      BY <1>4, <1>6
    <3>. QED
      BY <1>3, <1>6, <3>1, <3>2 DEF Seen
  <2>2. P \notin S
    <3>1. ~(P[1] <= t) /\ ~(P[2] <= r)
      BY <1>4, <1>6, <1>12
    <3>. QED
      BY <1>3, <3>1 DEF Seen
  <2>3. Covers(ts, t, r) => Covers(ts, t, r + 1)
    <3>1. \A l \in Places(ts) : l[2] \in Nat /\ (l[2] <= r => l[2] <= r + 1)
      BY PlaceNumbers
    <3>. QED
      BY <3>1 DEF Covers
  <2>4. ASSUME f.players # <<>>
        PROVE  Gapless(q, 0, t, upto) /\ CountsHits(ts, f.scores, S \cup {P})
    <3>1. CountsHits(ts, g.scores, S) /\ Gapless(q, 0, t, upto)
      BY <1>4, <2>4
    <3>2. ScoresAfter(g.scores, f.scores, EventAt(ts, P))
      BY <1>6
    <3>. QED
      BY <1>6, <1>9, <2>2, <3>1, <3>2, HitsRead
  <2>5. <<t + 1, r + 1>> \in Places(ts)
    BY <1>3, <1>6, <1>12
  <2>6. Sees(ts, upto, q, f, k, r + 1, r + 1)
    <3>1. NextTold(q, 0, upto) # t =>
            t < upto /\ (Covers(ts, t, r + 1) \/ Covers(ts, t, (r + 1) + len))
      BY <1>4, <1>8, <1>12, <2>3
    <3>2. Reads(ts, rest, t, r + 1)
      BY <1>7, <1>12
    <3>. QED
      BY <1>3, <1>4, <1>5, <1>10, <2>1, <2>4, <2>5, <3>1, <3>2 DEF Sees
  <2>7. r + 1 \in Nat /\ r + 1 \in 0 .. r + 1
    OBVIOUS
  <2>. QED
    BY <2>6, <2>7
<1>13. n < r \/ n = r
  OBVIOUS
<1>. QED
  BY <1>11, <1>12, <1>13

\* The client that has read all of it.
LEMMA TurnDone ==
    ASSUME NEW ts \in Seq(TurnInfo), NEW upto, NEW q, NEW g, NEW h,
           ClientSees(ts, upto, q, g, h), h.code = "Turn", h.events = <<>>,
           NEW k, k.code # "Turn"
    PROVE  ClientSees(ts, upto, q, g, k)
<1>. SUFFICES ASSUME NEW r \in Nat, NEW n \in 0 .. r, Sees(ts, upto, q, g, h, r, n)
              PROVE  Sees(ts, upto, q, g, k, r, n)
  BY DEF ClientSees
<1>1. n + Len(h.events) = n
  <2>1. Len(<<>>) = 0
    BY EmptySeq
  <2>. QED
    BY <2>1
<1>2. Covers(ts, g.turn, n) => Covers(ts, g.turn, r)
  <2>1. \A l \in Places(ts) : l[2] \in Nat /\ (l[2] <= n => l[2] <= r)
    BY PlaceNumbers
  <2>. QED
    BY <2>1 DEF Covers
<1>. QED
  BY <1>1, <1>2 DEF Sees

-----------------------------------------------------------------------------
(* The steps of the client.                                                *)

\* A client in the lobby has no turns on their way to it.
LEMMA LobbySeen ==
    ASSUME NEW q \in Seq(ServerMessage), NEW told, Chain(told, q), gameplay_started,
           ServerTold(LastTold(told, q)), told.stage = "lobby",
           NEW ts, NEW upto, NEW g, NEW h
    PROVE  ClientSees(ts, upto, q, g, h)
BY ChainInGame DEF ClientSees

\* The handler of each message, during a gameplay.
LEMMA ReceiveSees ==
    ASSUME PlayInv, RosterInv, EngineInv, Receive, ShownInv, gameplay_started,
           NEW m, NEW c, m = Head(to_client), c = Tail(to_client)
    PROVE  /\ QueueShown(turns, c, Upto) /\ QueueFresh(ToldBy(m), c, Upto)
           /\ ClientSees(turns, Upto, c, game_info', handling')
<1>1. PICK q, ts, upto, told, g, h :
        /\ q = to_client /\ ts = turns /\ upto = Upto /\ told = ClientTold
        /\ g = game_info /\ h = handling
  OBVIOUS
<1>2. /\ q \in Seq(ServerMessage) /\ q # <<>> /\ m \in ServerMessage /\ c \in Seq(ServerMessage)
      /\ Following /\ Follows(told, m)
  BY <1>1, ReceiveFollows, HeadTailProperties
<1>3. /\ Own!handle_server_message(m)
      /\ client = "running" /\ handling = [code |-> "none"]
  BY <1>1 DEF Receive, Own!handle_server_message, Own!Idle, Own!Nothing
<1>4. /\ h.code # "Turn"
      /\ is_lobby_status => told = InLobby(DOMAIN lobby_info.players)
      /\ ~is_lobby_status => told = InGame(g.turn)
  BY <1>1, <1>3 DEF ClientTold
<1>5. ts \in Seq(TurnInfo) /\ upto \in Nat
  BY <1>1, InGameTypes DEF Upto
<1>6. QueueShown(ts, q, upto) /\ QueueFresh(told, q, upto) /\ ClientSees(ts, upto, q, g, h)
  BY <1>1, <1>2 DEF ShownInv, Shown
<1>7. Shortened(ts, upto, told, q, m, c)
  BY <1>1, <1>2, <1>6, QueueShortened
<1>8. QueueShown(ts, c, upto) /\ QueueFresh(ToldBy(m), c, upto)
  BY <1>7 DEF Shortened
<1>9. Chain(ToldBy(m), c) /\ ServerTold(LastTold(ToldBy(m), c))
  <2>1. Chain(told, q) /\ ServerTold(LastTold(told, q))
    BY <1>1, <1>2, ConversationChain
  <2>2. Chain(ToldBy(m), c) /\ LastTold(ToldBy(m), c) = LastTold(told, q)
    BY <1>1, <1>2, <2>1, ChainShortened
  <2>. QED
    BY <2>1, <2>2
<1>. SUFFICES ClientSees(ts, upto, c, game_info', handling')
  BY <1>1, <1>8
<1>10. PICK f, k : f = game_info' /\ k = handling'
  OBVIOUS
<1>11. CASE m.code \in {"Hello", "AcceptedPlayer", "GameEnded"}
  <2>1. ToldBy(m).stage = "lobby"
    BY <1>11 DEF ToldBy, InLobby
  <2>. QED
    BY <1>2, <1>9, <2>1, LobbySeen
<1>12. CASE Own!handle_game_started_msg(m)
  <2>1. /\ m.code = "GameStarted" /\ f = Own!Game_info(lobby_info) /\ k = h
    BY <1>1, <1>10, <1>12 DEF Own!handle_game_started_msg
  <2>2. PICK ps \in Maps(PlayerId, Player) : ps = lobby_info.players
    BY DEF RosterInv, RosterKnown
  <2>3. /\ f.turn = -1 /\ f.bombs = <<>> /\ f.players = ps
        /\ DOMAIN f.scores = DOMAIN ps /\ \A p \in DOMAIN ps : f.scores[p] = 0
    BY <2>1, <2>2 DEF Own!Game_info
  <2>4. DOMAIN f.bombs = {}
    BY <2>3, EmptyMap
  <2>5. told = InLobby(DOMAIN ps) /\ DOMAIN ps \in {{}, Ids}
    <3>1. told.stage = "lobby" /\ told.roster \in {{}, Ids}
      BY <1>2, <2>1 DEF Follows, InLobby, Ids
    <3>2. is_lobby_status
      BY <1>4, <3>1 DEF InGame
    <3>3. told = InLobby(DOMAIN ps)
      BY <1>4, <2>2, <3>2
    <3>. QED
      BY <3>1, <3>3 DEF InLobby
  <2>6. ASSUME f.players # <<>>
        PROVE  told # InLobby({}) /\ \A p \in Ids : p \in DOMAIN f.scores /\ f.scores[p] = 0
    <3>1. DOMAIN ps # {}
      BY <2>2, <2>3, <2>6, NoKeys
    <3>. QED
      BY <2>3, <2>5, <3>1 DEF InLobby
  <2>7. k.code # "Turn"
    BY <1>4, <2>1
  <2>8. ClientSees(ts, upto, c, f, k)
    BY <1>5, <1>7, <2>1, <2>3, <2>4, <2>6, <2>7, StartSeen
  <2>. QED
    BY <1>10, <2>8
<1>13. CASE Own!handle_turn_message(m)
  <2>1. m.code = "Turn" /\ f = [g EXCEPT !.turn = m.turn] /\ k = m
    BY <1>1, <1>10, <1>13 DEF Own!handle_turn_message, Own!new_turn
  <2>2. {"turn", "bombs", "players", "scores"} \subseteq DOMAIN g
    BY <1>1 DEF PlayInv, ShownInv, RosterInv, ScoresKept
  <2>3. AtTurn(f, g, m.turn)
    BY <2>1, <2>2 DEF AtTurn
  <2>4. m.turn \in {g.turn, g.turn + 1}
    <3>0. m \in ServerMessage /\ m.code = "Turn"
      BY <1>2, <2>1
    <3>1. m.turn \in Nat
      BY <3>0, GameParams DEF ServerMessage, Hello
    <3>2. g.turn \in {m.turn - 1, m.turn}
      BY <1>2, <1>4, <2>1 DEF Follows, InLobby, InGame
    <3>. QED
      BY <3>1, <3>2
  <2>5. ClientSees(ts, upto, c, f, m)
    BY <1>2, <1>4, <1>5, <1>6, <1>7, <2>1, <2>3, <2>4, TurnSeen
  <2>. QED
    BY <1>10, <2>1, <2>5
<1>. QED
  BY <1>3, <1>11, <1>12, <1>13
     DEF Own!handle_server_message, Own!handle_hello_msg, Own!handle_accepted_player_msg,
         Own!handle_game_ended_msg

\* After it the GUI shows what it showed, or the game is not shown.
LEMMA ReceiveShows ==
    ASSUME PlayInv, Receive, ShownInv PROVE GameShown' /\ "bombs" \in DOMAIN game_info'
<1>1. PICK m : m = Head(to_client)
  OBVIOUS
<1>2. m \in ServerMessage /\ Follows(ClientTold, m)
  BY <1>1, ReceiveFollows
<1>3. /\ Own!handle_server_message(m)
      /\ client = "running" /\ handling = [code |-> "none"]
  BY <1>1 DEF Receive, Own!handle_server_message, Own!Idle, Own!Nothing
<1>4. GameShown /\ "bombs" \in DOMAIN game_info /\ "turn" \in DOMAIN game_info
  BY DEF ShownInv, PlayInv
<1>5. CASE Own!handle_hello_msg(m)
  BY <1>4, <1>5 DEF Own!handle_hello_msg, GameShown
<1>6. CASE Own!handle_accepted_player_msg(m)
  <2>1. is_lobby_status
    BY <1>2, <1>3, <1>6 DEF Own!handle_accepted_player_msg, Follows, ClientTold, InLobby, InGame
  <2>. QED
    BY <1>4, <1>6, <2>1 DEF Own!handle_accepted_player_msg, GameShown
<1>7. CASE Own!handle_game_started_msg(m)
  <2>1. game_info' = Own!Game_info(lobby_info)
    BY <1>7 DEF Own!handle_game_started_msg
  <2>2. game_info'.turn = -1 /\ "bombs" \in DOMAIN game_info'
    BY <2>1 DEF Own!Game_info
  <2>. QED
    BY <2>2 DEF GameShown
<1>8. CASE Own!handle_turn_message(m)
  <2>1. handling'.code = "Turn" /\ game_info' = [game_info EXCEPT !.turn = m.turn]
    BY <1>8 DEF Own!handle_turn_message, Own!new_turn
  <2>2. "bombs" \in DOMAIN game_info'
    BY <1>4, <2>1
  <2>. QED
    BY <2>1, <2>2 DEF GameShown
<1>9. CASE Own!handle_game_ended_msg(m)
  BY <1>4, <1>9 DEF Own!handle_game_ended_msg, GameShown
<1>. QED
  BY <1>3, <1>5, <1>6, <1>7, <1>8, <1>9 DEF Own!handle_server_message

\* A message is read.
LEMMA ReceiveKeepsShown ==
    ASSUME PlayInv, RosterInv, EngineInv, Receive, ShownInv PROVE ShownInv'
<1>1. PICK m, c : m = Head(to_client) /\ c = Tail(to_client) /\ c = to_client'
  BY DEF Receive
<1>2. GameShown' /\ "bombs" \in DOMAIN game_info'
  BY ReceiveShows
<1>3. UNCHANGED vars /\ Own!handle_server_message(m)
  BY <1>1 DEF Receive
<1>4. ClientTold' = ToldBy(m)
  BY <1>1, <1>3, ReceiveFollows, ReceiveTells
<1>5. gameplay_started' = gameplay_started /\ turns' = turns /\ Upto' = Upto
  BY <1>3 DEF vars, game, lobby, log, Upto
<1>6. ASSUME gameplay_started
      PROVE  Shown(turns, Upto, ClientTold, to_client, game_info, handling)'
  <2>1. /\ QueueShown(turns, c, Upto) /\ QueueFresh(ToldBy(m), c, Upto)
        /\ ClientSees(turns, Upto, c, game_info', handling')
    BY <1>1, <1>6, ReceiveSees
  <2>2. Shown(turns, Upto, ToldBy(m), c, game_info', handling')
    BY <2>1 DEF Shown
  <2>. QED
    BY <1>1, <1>4, <1>5, <2>2
<1>. QED
  BY <1>2, <1>5, <1>6 DEF ShownInv

\* The handler of an event.
LEMMA EventMade ==
    ASSUME {"turn", "players", "scores", "bombs"} \subseteq DOMAIN game_info,
           NEW e,
           \/ Own!read_bomb_placed(e) \/ Own!read_bomb_exploded(e)
           \/ Own!read_player_moved(e) \/ Own!read_block_placed(e)
    PROVE  /\ "bombs" \in DOMAIN game_info'
           /\ client' = "running" =>
                /\ game_info'.turn = game_info.turn /\ game_info'.players = game_info.players
                /\ BombsAfter(game_info.bombs, game_info'.bombs, e)
                /\ ScoresAfter(game_info.scores, game_info'.scores, e)
<1>1. PICK g, f : g = game_info /\ f = game_info'
  OBVIOUS
<1>2. {"turn", "players", "scores", "bombs"} \subseteq DOMAIN g
  BY <1>1
<1>3. ASSUME e.code \notin {"Bomb_placed", "Bomb_exploded"},
             f.turn = g.turn, f.players = g.players, f.bombs = g.bombs, f.scores = g.scores
      PROVE  /\ f.turn = g.turn /\ f.players = g.players
             /\ BombsAfter(g.bombs, f.bombs, e) /\ ScoresAfter(g.scores, f.scores, e)
  BY <1>3 DEF BombsAfter, ScoresAfter, Destroys
<1>4. CASE Own!read_bomb_placed(e)
  <2>1. PICK timer : f = [g EXCEPT !.bombs =
                            Own!map_insert(g.bombs, e.id, [position |-> e.position, timer |-> timer])]
    BY <1>1, <1>4 DEF Own!read_bomb_placed, Own!add_bomb
  <2>2. PICK bs, cs, b : /\ bs = g.bombs /\ b = [position |-> e.position, timer |-> timer]
                         /\ cs = Own!map_insert(bs, e.id, b)
    OBVIOUS
  <2>3. /\ f.turn = g.turn /\ f.players = g.players /\ f.scores = g.scores /\ f.bombs = cs
        /\ "bombs" \in DOMAIN f
    BY <1>2, <2>1, <2>2
  <2>4. e.code = "Bomb_placed"
    BY <1>4 DEF Own!read_bomb_placed
  <2>5. /\ DOMAIN cs = DOMAIN bs \cup {e.id} /\ \A x \in DOMAIN bs : cs[x] = bs[x]
        /\ e.id \notin DOMAIN bs => cs[e.id] = b
    BY <2>2 DEF Own!map_insert
  <2>6. b.position = e.position
    BY <2>2
  <2>7. BombsAfter(bs, cs, e)
    BY <2>4, <2>5, <2>6 DEF BombsAfter
  <2>8. ScoresAfter(g.scores, f.scores, e)
    BY <2>3, <2>4 DEF ScoresAfter, Destroys
  <2>. QED
    BY <1>1, <2>2, <2>3, <2>7, <2>8
<1>5. CASE Own!read_bomb_exploded(e) /\ e.robots_destroyed \subseteq DOMAIN game_info.scores
  <2>1. PICK d, blocks : /\ d = Own!destroy_players(e.id, e.robots_destroyed)
                         /\ f = [d EXCEPT !.blocks = blocks]
    BY <1>1, <1>5 DEF Own!read_bomb_exploded
  <2>2. /\ {"turn", "players", "scores", "bombs"} \subseteq DOMAIN d
        /\ d.turn = g.turn /\ d.players = g.players
        /\ d.bombs = Own!erase_keys(g.bombs, {e.id})
        /\ d.scores = [p \in DOMAIN g.scores |->
                        IF p \in e.robots_destroyed THEN g.scores[p] + 1 ELSE g.scores[p]]
    BY <1>1, <1>2, <2>1 DEF Own!destroy_players
  <2>3. /\ f.turn = d.turn /\ f.players = d.players /\ f.bombs = d.bombs
        /\ f.scores = d.scores /\ "bombs" \in DOMAIN f
    BY <2>1, <2>2
  <2>4. e.code = "Bomb_exploded"
    BY <1>5 DEF Own!read_bomb_exploded
  <2>5. BombsAfter(g.bombs, f.bombs, e)
    BY <2>2, <2>3, <2>4 DEF BombsAfter, Own!erase_keys
  <2>6. ScoresAfter(g.scores, f.scores, e)
    BY <2>2, <2>3, <2>4 DEF ScoresAfter, Destroys
  <2>. QED
    BY <1>1, <2>2, <2>3, <2>5, <2>6
<1>6. CASE Own!read_bomb_exploded(e) /\ ~(e.robots_destroyed \subseteq DOMAIN game_info.scores)
  BY <1>1, <1>2, <1>6 DEF Own!read_bomb_exploded
<1>7. CASE Own!read_player_moved(e)
  <2>1. PICK x : f = [g EXCEPT !.player_positions = x]
    BY <1>1, <1>7 DEF Own!read_player_moved, Own!change_player_position
  <2>2. /\ f.turn = g.turn /\ f.players = g.players /\ f.bombs = g.bombs /\ f.scores = g.scores
        /\ "bombs" \in DOMAIN f
    BY <1>2, <2>1
  <2>3. e.code \notin {"Bomb_placed", "Bomb_exploded"}
    BY <1>7 DEF Own!read_player_moved
  <2>. QED
    BY <1>1, <1>3, <2>2, <2>3
<1>8. CASE Own!read_block_placed(e)
  <2>1. PICK x : f = [g EXCEPT !.blocks = x]
    BY <1>1, <1>8 DEF Own!read_block_placed
  <2>2. /\ f.turn = g.turn /\ f.players = g.players /\ f.bombs = g.bombs /\ f.scores = g.scores
        /\ "bombs" \in DOMAIN f
    BY <1>2, <2>1
  <2>3. e.code \notin {"Bomb_placed", "Bomb_exploded"}
    BY <1>8 DEF Own!read_block_placed
  <2>. QED
    BY <1>1, <1>3, <2>2, <2>3
<1>. QED
  BY <1>4, <1>5, <1>6, <1>7, <1>8

\* Explosions come later than what exploded was placed, fuses being positive.
LEMMA FusesAreLong == ASSUME EngineInv, FuseInv PROVE ExplodesLater(turns)
<1>. SUFFICES ASSUME NEW l \in Places(turns), NEW m \in Places(turns),
                     EventAt(turns, l).code = "Bomb_placed",
                     Explosion(turns, m, EventAt(turns, l).id)
              PROVE  m[1] > l[1]
  BY DEF ExplodesLater
<1>1. PICK b : b = EventAt(turns, l).id
  OBVIOUS
<1>2. l \in Placed(turns, b) /\ m \in Exploded(turns, b)
  BY <1>1 DEF Placed, Exploded, Explosion
<1>3. KeptIn(turns, bombs, next_bomb_id, phase) /\ DueIn(turns, index, phase)
  BY FuseInvIs DEF FuseIn
<1>4. PICK k \in Placed(turns, b) : m[1] = k[1] + Fuse
  BY <1>2, <1>3 DEF DueIn
<1>5. k = l
  BY <1>2, <1>3, <1>4 DEF KeptIn
<1>6. l[1] \in Nat
  <2>1. turns \in Seq(TurnInfo)
    BY DEF EngineInv, TypeOK
  <2>. QED
    BY <2>1, PlaceNumbers
<1>. QED
  BY <1>4, <1>5, <1>6, FuseType

\* What the client does between two messages, during a gameplay.
LEMMA ContinueSees ==
    ASSUME PlayInv, RosterInv, EngineInv, FuseInv, Continue, ShownInv,
           Following, client' = "running", gameplay_started
    PROVE  ClientSees(turns, Upto, to_client, game_info', handling')
<1>1. PICK q, ts, upto, told, g, h, f, k :
        /\ q = to_client /\ ts = turns /\ upto = Upto /\ told = ClientTold
        /\ g = game_info /\ h = handling /\ f = game_info' /\ k = handling'
  OBVIOUS
<1>2. ts \in Seq(TurnInfo) /\ upto \in Nat
  BY <1>1, InGameTypes DEF Upto
<1>3. ClientSees(ts, upto, q, g, h)
  BY <1>1 DEF ShownInv, Shown
<1>4. CASE Own!HelloHandled
  <2>1. told.stage = "lobby"
    BY <1>1, <1>4 DEF Own!HelloHandled, ClientTold, InLobby
  <2>2. q \in Seq(ServerMessage) /\ Chain(told, q) /\ ServerTold(LastTold(told, q))
    BY <1>1, ConversationChain DEF PlayInv
  <2>. QED
    BY <1>1, <2>1, <2>2, LobbySeen
<1>5. CASE Own!TurnHandled
  <2>1. h.code = "Turn" /\ h.events = <<>> /\ f = g /\ k.code # "Turn"
    BY <1>1, <1>5 DEF Own!TurnHandled, Own!InTurn, Own!Nothing
  <2>2. ClientSees(ts, upto, q, g, k)
    BY <1>2, <1>3, <2>1, TurnDone
  <2>. QED
    BY <1>1, <2>1, <2>2
<1>6. CASE Own!ReadEvent
  <2>1. PICK s, e : /\ s = h.events /\ e = Head(s)
                    /\ \/ Own!read_bomb_placed(e) \/ Own!read_bomb_exploded(e)
                       \/ Own!read_player_moved(e) \/ Own!read_block_placed(e)
    BY <1>1, <1>6 DEF Own!ReadEvent
  <2>2. /\ h.code = "Turn" /\ s # <<>> /\ k = [h EXCEPT !.events = Tail(s)]
        /\ s \in Seq(Event) /\ "events" \in DOMAIN h /\ "code" \in DOMAIN h
    BY <1>1, <1>6, <2>1 DEF Own!ReadEvent, Own!InTurn, RosterInv, TurnRead, PlayInv
  <2>3. k.code = "Turn" /\ k.events = Tail(s)
    BY <2>2
  <2>4. {"turn", "players", "scores", "bombs"} \subseteq DOMAIN game_info
    BY DEF PlayInv, ShownInv, RosterInv, ScoresKept
  <2>5. /\ f.turn = g.turn /\ f.players = g.players
        /\ BombsAfter(g.bombs, f.bombs, e) /\ ScoresAfter(g.scores, f.scores, e)
    BY <1>1, <2>1, <2>4, EventMade
  <2>6. ExplodesLater(ts)
    BY <1>1, FusesAreLong
  <2>7. BombsAfter(g.bombs, f.bombs, Head(s)) /\ ScoresAfter(g.scores, f.scores, Head(s))
    BY <2>1, <2>5
  <2>8. ClientSees(ts, upto, q, f, k)
    BY <1>2, <1>3, <2>1, <2>2, <2>3, <2>5, <2>6, <2>7, EventSeen
  <2>. QED
    BY <1>1, <2>8
<1>. QED
  BY <1>4, <1>5, <1>6 DEF Continue

\* A turn is drawn when it has been read.
LEMMA ContinueShows ==
    ASSUME PlayInv, RosterInv, Continue, ShownInv
    PROVE  GameShown' /\ "bombs" \in DOMAIN game_info'
<1>1. "bombs" \in DOMAIN game_info /\ "code" \in DOMAIN handling
  BY DEF ShownInv, PlayInv
<1>2. CASE Own!HelloHandled
  BY <1>1, <1>2 DEF Own!HelloHandled, GameShown
<1>3. CASE Own!TurnHandled
  BY <1>1, <1>3 DEF Own!TurnHandled, GameShown, Own!game_message
<1>4. CASE Own!ReadEvent
  <2>1. PICK e : \/ Own!read_bomb_placed(e) \/ Own!read_bomb_exploded(e)
                 \/ Own!read_player_moved(e) \/ Own!read_block_placed(e)
    BY <1>4 DEF Own!ReadEvent
  <2>2. {"turn", "players", "scores", "bombs"} \subseteq DOMAIN game_info
    BY DEF PlayInv, ShownInv, RosterInv, ScoresKept
  <2>3. "bombs" \in DOMAIN game_info'
    BY <2>1, <2>2, EventMade
  <2>4. handling.code = "Turn" /\ handling' = [handling EXCEPT !.events = Tail(@)]
    BY <1>4 DEF Own!ReadEvent, Own!InTurn
  <2>5. handling'.code = "Turn"
    BY <1>1, <2>4
  <2>. QED
    BY <2>3, <2>5 DEF GameShown
<1>. QED
  BY <1>2, <1>3, <1>4 DEF Continue

\* Between two messages.
LEMMA ContinueKeepsShown ==
    ASSUME PlayInv, RosterInv, EngineInv, FuseInv, Continue, ShownInv PROVE ShownInv'
<1>1. GameShown' /\ "bombs" \in DOMAIN game_info'
  BY ContinueShows
<1>2. /\ UNCHANGED <<vars, accepted, to_client>> /\ ClientTold' = ClientTold
      /\ client = "running"
  BY ContinueTells DEF Continue
<1>3. gameplay_started' = gameplay_started /\ turns' = turns /\ Upto' = Upto
  BY <1>2 DEF vars, game, lobby, log, Upto
<1>4. ASSUME Following', gameplay_started
      PROVE  Shown(turns, Upto, ClientTold, to_client, game_info, handling)'
  <2>1. Following /\ client' = "running"
    BY <1>2, <1>4 DEF Following
  <2>2. ClientSees(turns, Upto, to_client, game_info', handling')
    BY <1>4, <2>1, ContinueSees
  <2>3. QueueShown(turns, to_client, Upto) /\ QueueFresh(ClientTold, to_client, Upto)
    BY <1>4, <2>1 DEF ShownInv, Shown
  <2>4. Shown(turns, Upto, ClientTold, to_client, game_info', handling')
    BY <2>2, <2>3 DEF Shown
  <2>. QED
    BY <1>2, <1>3, <2>4
<1>. QED
  BY <1>1, <1>3, <1>4 DEF ShownInv

-----------------------------------------------------------------------------
(* The invariant.                                                          *)

\* It is inductive, given those of the engine, the conversation and the fuses.
LEMMA ShownStep ==
    ASSUME me = 1
    PROVE  /\ PlayInv /\ EngineInv /\ EngineInv' /\ RosterInv /\ FuseInv /\ ShownInv
           /\ [PlayNext]_play_vars
           => ShownInv'
<1>. SUFFICES ASSUME PlayInv, EngineInv, EngineInv', RosterInv, FuseInv, ShownInv,
                     [PlayNext]_play_vars
              PROVE  ShownInv'
  OBVIOUS
<1>1. CASE EngineMoves
  BY <1>1, EngineKeepsShown
<1>2. CASE Receive
  BY <1>2, ReceiveKeepsShown
<1>3. CASE Continue
  BY <1>3, ContinueKeepsShown
<1>4. CASE GuiInput \/ SendInput \/ UNCHANGED play_vars
  <2>1. /\ UNCHANGED <<vars, accepted, to_client>>
        /\ UNCHANGED <<lobby_info, game_info, handling, is_lobby_status, drawn, client>>
    BY <1>4 DEF GuiInput, SendInput, play_vars, client_vars, Own!handle_gui_message,
                Own!send_server_message, Own!server_thread
  <2>2. /\ gameplay_started' = gameplay_started /\ turns' = turns /\ Upto' = Upto
        /\ ClientTold' = ClientTold /\ Following' = Following
    BY <2>1 DEF vars, game, lobby, log, Upto, ClientTold, Following
  <2>3. GameShown' /\ "bombs" \in DOMAIN game_info'
    BY <2>1 DEF ShownInv, GameShown, Own!game_message
  <2>. QED
    BY <2>1, <2>2, <2>3 DEF ShownInv
<1>5. CASE ClientExits
  <2>1. /\ client' = "exited" /\ game_info'.turn = -1 /\ "bombs" \in DOMAIN game_info'
    BY <1>5 DEF ClientExits, Own!exit_with_msg, Own!Lobby_info, Own!Game_info
  <2>. QED
    BY <2>1 DEF ShownInv, GameShown, Following
<1>. QED
  BY <1>1, <1>2, <1>3, <1>4, <1>5 DEF PlayNext, ServerThread

\* The client is not connected at first.
LEMMA ShownInit == PlayInit => ShownInv
<1>. SUFFICES ASSUME PlayInit PROVE ShownInv
  OBVIOUS
<1>1. accepted = FALSE /\ game_info.turn = -1 /\ "bombs" \in DOMAIN game_info
  BY DEF PlayInit, Own!ClientInit, Own!Lobby_info, Own!Game_info
<1>. QED
  BY <1>1 DEF ShownInv, GameShown, Following

\* The engine's invariants about bombs hold of an engine with a client.
LEMMA PlayKeepsFuses == PlaySpec => []FuseInv /\ []BombsWherePlaced
BY PlayImplementsEngine, FuseInvariant, BombsStay, PTL

-----------------------------------------------------------------------------
(* The theorems.                                                           *)

\* What a client at position 1 has read and what is on its way to it is the
\* beginning of the log of turns, some turns twice, and the client has made of
\* it the bombs and the scores that the log says.
THEOREM ShownInvariant == ASSUME me = 1 PROVE PlaySpec => []ShownInv
BY ShownInit, ShownStep, PlayInvariant, RosterInvariant, PlayKeepsEngineInv, PlayKeepsFuses, PTL
   DEF PlaySpec

\* A client that has read everything shows what it makes of the whole log.
LEMMA DrainedSees ==
    ASSUME PlayInv, EngineInv, ShownInv, Drained, gameplay_started, phase = "loop"
    PROVE  /\ drawn = Own!game_message
           /\ ShowsBombs(turns, game_info.bombs, Places(turns))
           /\ game_info.players # <<>> => CountsHits(turns, game_info.scores, Places(turns))
<1>1. Following /\ to_client = <<>> /\ handling.code = "none"
  BY DEF Drained, Own!Nothing
<1>2. ServerTold(ClientTold)
  BY <1>1, ConversationChain DEF LastTold
<1>3. /\ turns \in Seq(TurnInfo) /\ current_turn \in Nat /\ Len(turns) = current_turn + 1
      /\ Upto = current_turn + 1
  BY InGameTypes DEF Upto
<1>4. ~is_lobby_status /\ game_info.turn = current_turn
  <2>1. ClientTold = InGame(current_turn)
    BY <1>2 DEF ServerTold
  <2>. QED
    BY <1>1, <2>1 DEF ClientTold, InLobby, InGame
<1>5. drawn = Own!game_message
  <2>1. game_info.turn # -1
    BY <1>3, <1>4
  <2>. QED
    BY <1>1, <1>4, <2>1 DEF ShownInv, GameShown
<1>6. PICK ts, t, g, h : ts = turns /\ t = current_turn /\ g = game_info /\ h = handling
  OBVIOUS
<1>7. ClientSees(ts, t + 1, <<>>, g, h)
  BY <1>1, <1>3, <1>6 DEF ShownInv, Shown
<1>8. /\ Len(<<>>) = 0 /\ DOMAIN <<>> = {}
  BY EmptySeq, EmptyMap
<1>9. OnlyTurns(<<>>, 0) /\ NextTold(<<>>, 0, t + 1) = t + 1
  BY <1>8 DEF OnlyTurns, NextTold
<1>10. PICK r \in Nat : \E n \in 0 .. r : Sees(ts, t + 1, <<>>, g, h, r, n)
  BY <1>7, <1>9 DEF ClientSees
<1>11. PICK n \in 0 .. r : Sees(ts, t + 1, <<>>, g, h, r, n)
  BY <1>10
<1>12. g.turn = t /\ h.code # "Turn" /\ t + 1 # t
  BY <1>1, <1>3, <1>4, <1>6
<1>13. /\ ShowsBombs(ts, g.bombs, Seen(ts, t, r)) /\ Covers(ts, t, r)
       /\ g.players # <<>> => CountsHits(ts, g.scores, Seen(ts, t, r))
  BY <1>9, <1>11, <1>12 DEF Sees
<1>14. Seen(ts, t, r) = Places(ts)
  <2>1. ASSUME NEW l \in Places(ts) PROVE l \in Seen(ts, t, r)
    <3>1. l[1] \in Nat /\ l[1] <= t + 1
      BY <1>3, <1>6, PlaceNumbers
    <3>2. l[1] <= t \/ l[1] = t + 1
      BY <1>3, <1>6, <3>1
    <3>. QED
      BY <1>13, <2>1, <3>2 DEF Seen, Covers
  <2>. QED
    BY <2>1 DEF Seen
<1>. QED
  BY <1>5, <1>6, <1>13, <1>14

\* What the log says of bombs is what the engine has.
LEMMA LogHasBombs ==
    ASSUME EngineInv, FuseInv, BombsWherePlaced, phase = "loop",
           NEW bs, ShowsBombs(turns, bs, Places(turns))
    PROVE  /\ DOMAIN bs = DOMAIN bombs
           /\ \A b \in DOMAIN bombs : bs[b].position = bombs[b].position
<1>1. turns \in Seq(TurnInfo) /\ Len(turns) \in Nat
  BY LenProperties DEF EngineInv, TypeOK
<1>2. /\ KeptIn(turns, bombs, next_bomb_id, phase) /\ DueIn(turns, index, phase)
      /\ CountIn(turns, bombs, index, phase) /\ ReportIn(turns, index, phase)
  BY FuseInvIs DEF FuseIn
<1>3. \A b, l : l \in Placed(turns, b) <=>
            /\ l \in Places(turns) /\ EventAt(turns, l).code = "Bomb_placed"
            /\ EventAt(turns, l).id = b
  BY DEF Placed
<1>4. \A b, m : m \in Exploded(turns, b) <=> m \in Places(turns) /\ Explosion(turns, m, b)
  BY DEF Exploded, Explosion
<1>5. \A b : \A l \in Placed(turns, b) :
            l[1] \in Nat /\ BurntAt(turns, l, b, index, phase) = Len(turns) - l[1]
  <2>1. ASSUME NEW b, NEW l \in Placed(turns, b)
        PROVE  l[1] \in Nat /\ BurntAt(turns, l, b, index, phase) = Len(turns) - l[1]
    <3>1. l[1] \in Nat
      BY <1>1, <1>3, PlaceNumbers
    <3>2. BurntAt(turns, l, b, index, phase) = Len(turns) - l[1] - 0
      BY DEF BurntAt
    <3>. QED
      BY <1>1, <3>1, <3>2
  <2>. QED
    BY <2>1
\* A bomb that the client shows was placed and has not exploded, ...
<1>6. ASSUME NEW b \in DOMAIN bs
      PROVE  b \in DOMAIN bombs /\ bs[b].position = bombs[b].position
  <2>1. PICK l \in Places(turns) : EventAt(turns, l) = Bomb_placed(b, bs[b].position)
    BY DEF ShowsBombs
  <2>2. \A m \in Places(turns) : ~Explosion(turns, m, b)
    BY DEF ShowsBombs
  <2>3. l \in Placed(turns, b) /\ EventAt(turns, l).position = bs[b].position
    BY <1>3, <2>1 DEF Bomb_placed
  <2>4. ~(BurntAt(turns, l, b, index, phase) >= Fuse)
    BY <1>2, <1>4, <2>2, <2>3 DEF ReportIn
  <2>5. Len(turns) < l[1] + Fuse + 0
    BY <1>1, <1>5, <2>3, <2>4, FuseType
  <2>6. b \in DOMAIN bombs
    BY <1>2, <2>3, <2>5 DEF KeptIn
  <2>7. bombs[b].position = EventAt(turns, l).position
    BY <2>3, <2>6 DEF BombsWherePlaced, WherePlaced
  <2>. QED
    BY <2>3, <2>6, <2>7
\* ... and a bomb on the board was placed, and would have exploded later.
<1>7. ASSUME NEW b \in DOMAIN bombs PROVE b \in DOMAIN bs
  <2>1. PICK l \in Placed(turns, b) :
            /\ BurntAt(turns, l, b, index, phase) \in 0 .. Fuse
            /\ BurntAt(turns, l, b, index, phase) # Fuse
    BY <1>2 DEF CountIn
  <2>2. ASSUME NEW m \in Places(turns), Explosion(turns, m, b) PROVE FALSE
    <3>1. m \in Exploded(turns, b)
      BY <1>4, <2>2
    <3>2. PICK k \in Placed(turns, b) : m[1] = k[1] + Fuse
      BY <1>2, <3>1 DEF DueIn
    <3>3. k = l
      BY <1>2 DEF KeptIn
    <3>4. m[1] \in Nat /\ m[1] <= Len(turns)
      BY <1>1, <2>2, PlaceNumbers
    <3>5. l[1] \in Nat /\ Len(turns) - l[1] \in 0 .. Fuse /\ Len(turns) - l[1] # Fuse
      BY <1>5, <2>1
    <3>. QED
      BY <1>1, <3>2, <3>3, <3>4, <3>5, FuseType
  <2>3. l \in Places(turns) /\ EventAt(turns, l).code = "Bomb_placed" /\ EventAt(turns, l).id = b
    BY <1>3
  <2>. QED
    BY <2>2, <2>3 DEF ShowsBombs
<1>. QED
  BY <1>6, <1>7

\* Between two turns the GUI of a client that has read everything shows the
\* bombs that are burning, at their places, however many of the turns the
\* client has been told twice.
THEOREM BombsAreDrawn == ASSUME me = 1 PROVE PlaySpec => []BombsDrawn
<1>1. PlayInv /\ EngineInv /\ FuseInv /\ BombsWherePlaced /\ ShownInv => BombsDrawn
  <2>. SUFFICES ASSUME PlayInv, EngineInv, FuseInv, BombsWherePlaced, ShownInv,
                       Drained, gameplay_started, phase = "loop"
                PROVE  /\ drawn.code = "Game" /\ DOMAIN drawn.info.bombs = DOMAIN bombs
                       /\ \A b \in DOMAIN bombs :
                            drawn.info.bombs[b].position = bombs[b].position
    BY DEF BombsDrawn
  <2>1. drawn = [code |-> "Game", info |-> game_info]
    BY DrainedSees DEF Own!game_message
  <2>2. PICK bs : bs = game_info.bombs /\ bs = drawn.info.bombs
    BY <2>1
  <2>3. /\ DOMAIN bs = DOMAIN bombs
        /\ \A b \in DOMAIN bombs : bs[b].position = bombs[b].position
    BY <2>2, DrainedSees, LogHasBombs
  <2>. QED
    BY <2>1, <2>2, <2>3
<1>. QED
  BY <1>1, PlayInvariant, PlayKeepsEngineInv, PlayKeepsFuses, ShownInvariant, PTL

\* A client that has seen everyone join counts the explosions that hit a robot,
\* each once, although turns are read while others are on their way.
THEOREM ScoresAreCounted == ASSUME me = 1 PROVE PlaySpec => []ScoresCountHits
<1>1. PlayInv /\ EngineInv /\ ShownInv => ScoresCountHits
  <2>. SUFFICES ASSUME PlayInv, EngineInv, ShownInv, Drained, gameplay_started, phase = "loop",
                       game_info.players = players, NEW p \in DOMAIN players
                PROVE  game_info.scores[p] = Cardinality({l \in Log : Destroys(At(l), p)})
    BY DEF ScoresCountHits
  <2>1. game_info.players # <<>> /\ p \in Ids
    BY EmptyMap, PlayersHaveIds
  <2>2. CountsHits(turns, game_info.scores, Places(turns))
    BY <2>1, DrainedSees
  <2>3. game_info.scores[p] = Cardinality(Hits(turns, Places(turns), p))
    BY <2>1, <2>2 DEF CountsHits
  <2>. QED
    BY <2>3 DEF Hits, Places, EventAt, Log, At
<1>. QED
  BY <1>1, PlayInvariant, PlayKeepsEngineInv, ShownInvariant, PTL
=============================================================================
