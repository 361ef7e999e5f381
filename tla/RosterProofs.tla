---------------------------- MODULE RosterProofs ----------------------------
(***************************************************************************)
(* Theorems about what a client at position 1 knows of the players: the    *)
(* list its GUI shows in the lobby, and the map of scores whose at() may   *)
(* throw.                                                                  *)
(***************************************************************************)
EXTENDS PlayProofs, LogProofs

-----------------------------------------------------------------------------
(* The inductive invariant.                                                *)

\* The ids of a gameplay.
Ids == 0 .. players_count - 1

\* f is a part of g.
Agrees(f, g) == \A x \in DOMAIN f : x \in DOMAIN g /\ f[x] = g[x]

\* The explosions among events hit only players of the gameplay.
HitsKnown(events) ==
    \A n \in DOMAIN events :
        events[n].code = "Bomb_exploded" => events[n].robots_destroyed \subseteq Ids

LogHitsKnown == \A k \in DOMAIN turns : HitsKnown(turns[k].events)

\* What a message says is true of the players ps of the gameplay it is about.
Truthful(m, ps) ==
    m.code = "AcceptedPlayer" => m.id \in DOMAIN ps /\ ps[m.id] = m.player

\* No message of q after the k-th ends a gameplay.
NoEndAfter(q, k) == \A j \in DOMAIN q : j > k => q[j].code # "GameEnded"

\* What is on its way: players of this gameplay, unless its end comes later,
\* and explosions that hit players.
InFlight ==
    /\ \A k \in DOMAIN to_client :
            to_client[k].code = "Turn" => HitsKnown(to_client[k].events)
    /\ Following => \A k \in DOMAIN to_client :
            NoEndAfter(to_client, k) => Truthful(to_client[k], players)

\* What the client knows of the players: a part of those of the gameplay,
\* unless the end of that one is on its way.
RosterKnown ==
    /\ lobby_info \in [known : BOOLEAN, players : Maps(PlayerId, Player)]
    /\ ~accepted => lobby_info.players = <<>>
    /\ Following /\ NoEndAfter(to_client, 0) => Agrees(lobby_info.players, players)

\* In the lobby the GUI shows lobby_info.
LobbyShown ==
    is_lobby_status \/ handling.code = "Hello" => drawn = Own!lobby_message(lobby_info)

\* A turn that is being read is read in a gameplay.
TurnRead ==
    handling.code = "Turn" =>
        /\ "events" \in DOMAIN handling /\ handling.events \in Seq(Event)
        /\ HitsKnown(handling.events) /\ ~is_lobby_status

\* A client knows all players of its gameplay or none, and keeps a score for
\* each that it knows.
ScoresKept ==
    /\ "players" \in DOMAIN game_info /\ "scores" \in DOMAIN game_info
    /\ game_info.players = <<>> \/ Ids \subseteq DOMAIN game_info.scores

RosterInv ==
    /\ LogHitsKnown /\ InFlight /\ RosterKnown /\ LobbyShown /\ TurnRead /\ ScoresKept
    /\ DiesOnlyIfGreetedLate

-----------------------------------------------------------------------------
(* The log.                                                                *)

\* Seeding and respawning hit nobody.
LEMMA SeedsHitNobody == ASSUME NEW ids, NEW field PROVE HitsKnown(SeedEvents(ids, field))
BY DEF HitsKnown, SeedEvents, Player_moved

\* A single event.
LEMMA OneHitsKnown ==
    ASSUME NEW e, e.code = "Bomb_exploded" => e.robots_destroyed \subseteq Ids
    PROVE  HitsKnown(<<e>>)
BY DEF HitsKnown

\* Explosions that hit players stay so when events are added that do.
LEMMA HitsConcat ==
    ASSUME NEW s \in Seq(Event), NEW ev \in Seq(Event), HitsKnown(s), HitsKnown(ev)
    PROVE  HitsKnown(s \o ev)
<1>1. /\ Len(s) \in Nat /\ Len(ev) \in Nat /\ DOMAIN s = 1 .. Len(s) /\ DOMAIN ev = 1 .. Len(ev)
      /\ DOMAIN (s \o ev) = 1 .. Len(s) + Len(ev)
      /\ \A n \in 1 .. Len(s) + Len(ev) : (s \o ev)[n] = IF n <= Len(s) THEN s[n] ELSE ev[n - Len(s)]
  BY LenProperties, ConcatProperties
<1>2. ASSUME NEW n \in 1 .. Len(s) + Len(ev)
      PROVE  (s \o ev)[n].code = "Bomb_exploded" => (s \o ev)[n].robots_destroyed \subseteq Ids
  <2>1. CASE n <= Len(s)
    <3>1. n \in DOMAIN s /\ (s \o ev)[n] = s[n]
      BY <1>1, <2>1
    <3>. QED
      BY <3>1 DEF HitsKnown
  <2>2. CASE n > Len(s)
    <3>1. n - Len(s) \in DOMAIN ev /\ (s \o ev)[n] = ev[n - Len(s)]
      BY <1>1, <2>2
    <3>. QED
      BY <3>1 DEF HitsKnown
  <2>. QED
    BY <1>1, <2>1, <2>2
<1>. QED
  BY <1>1, <1>2 DEF HitsKnown

\* A log that grows by such events.
LEMMA GrownHits ==
    ASSUME NEW ts, NEW us, NEW ev, Grown(ts, us, ev), HitsKnown(ev),
           \A k \in DOMAIN ts : HitsKnown(ts[k].events)
    PROVE  \A k \in DOMAIN us : HitsKnown(us[k].events)
<1>1. /\ ts \in Seq(TurnInfo) /\ us \in Seq(TurnInfo) /\ ev \in Seq(Event)
      /\ DOMAIN ts = 1 .. Len(ts) /\ DOMAIN us = 1 .. Len(ts)
  BY LenProperties DEF Grown
<1>2. ASSUME NEW k \in 1 .. Len(ts) PROVE HitsKnown(us[k].events)
  <2>1. CASE k # Len(ts)
    BY <1>1, <2>1 DEF Grown
  <2>2. CASE k = Len(ts)
    <3>1. PICK s \in Seq(Event) : s = ts[k].events
      BY <1>1, EventsType
    <3>2. us[k].events = s \o ev
      BY <2>2, <3>1 DEF Grown
    <3>3. HitsKnown(s)
      BY <1>1, <3>1
    <3>. QED
      BY <1>1, <3>2, <3>3, HitsConcat
  <2>. QED
    BY <2>1, <2>2
<1>. QED
  BY <1>1, <1>2

\* The players of a gameplay have its ids.
LEMMA PlayersHaveIds == ASSUME EngineInv PROVE DOMAIN players \subseteq Ids
<1>1. /\ DOMAIN players = 0 .. next_player_id - 1 /\ next_player_id <= players_count
      /\ next_player_id \in Nat /\ players_count \in Nat
  BY GameParams DEF EngineInv, IdsConsistent, TypeOK, PlayerId
<1>. QED
  BY <1>1 DEF Ids

\* Explosions are recorded with robots of players.
LEMMA LogHitsStep ==
    ASSUME EngineInv, EngineInv', [Next]_vars, LogHitsKnown PROVE LogHitsKnown'
<1>0. Kinds
  BY StepKinds
<1>1. ASSUME NEW ev, Adds(ev), HitsKnown(ev) PROVE LogHitsKnown'
  BY <1>1, GrownHits DEF Adds, LogHitsKnown
<1>2. CASE Quiet \/ Joins
  BY <1>2 DEF Quiet, Joins, LogHitsKnown
<1>3. CASE Opens
  <2>1. turns \in Seq(TurnInfo) /\ current_turn' \in 0 .. U16 - 1
    BY DEF EngineInv, TypeOK
  <2>2. PICK us, t : us = turns' /\ t = current_turn' /\ us = Append(turns, Turn_info(t))
    BY <1>3 DEF Opens
  <2>3. /\ us \in Seq(TurnInfo) /\ Len(us) = Len(turns) + 1
        /\ \A k \in 1 .. Len(turns) : us[k] = turns[k]
        /\ us[Len(turns) + 1].events = <<>>
    BY <2>1, <2>2, OpenedLog
  <2>4. DOMAIN us = 1 .. Len(turns) + 1 /\ DOMAIN turns = 1 .. Len(turns) /\ Len(turns) \in Nat
    BY <2>1, <2>3, LenProperties
  <2>5. HitsKnown(<<>>)
    BY DEF HitsKnown
  <2>6. ASSUME NEW k \in DOMAIN us PROVE HitsKnown(us[k].events)
    <3>1. k \in 1 .. Len(turns) \/ k = Len(turns) + 1
      BY <2>4
    <3>. QED
      BY <2>3, <2>4, <2>5, <3>1 DEF LogHitsKnown
  <2>. QED
    BY <2>2, <2>6 DEF LogHitsKnown
<1>4. CASE Ends
  BY <1>4 DEF Ends, LogHitsKnown
<1>5. ASSUME NEW b, NEW robots, NEW blocks, Explodes(b, robots, blocks) PROVE LogHitsKnown'
  <2>1. PICK e : e = Bomb_exploded(b, robots, blocks)
    OBVIOUS
  <2>2. e.robots_destroyed = robots /\ robots \subseteq Ids
    BY <1>5, <2>1, PlayersHaveIds DEF Explodes, Bomb_exploded
  <2>3. Adds(<<e>>) /\ HitsKnown(<<e>>)
    BY <1>5, <2>1, <2>2, OneHitsKnown DEF Explodes
  <2>. QED
    BY <1>1, <2>3
<1>6. ASSUME NEW i, NEW e, ActsWith(i, e) PROVE LogHitsKnown'
  <2>1. e.code # "Bomb_exploded"
    BY <1>6, ActsEvent
  <2>2. Adds(<<e>>) /\ HitsKnown(<<e>>)
    BY <1>6, <2>1, OneHitsKnown DEF ActsWith
  <2>. QED
    BY <1>1, <2>2
<1>7. ASSUME NEW e, Seeds(e) PROVE LogHitsKnown'
  <2>1. Adds(<<e>>) /\ HitsKnown(<<e>>)
    BY <1>7, OneHitsKnown DEF Seeds
  <2>. QED
    BY <1>1, <2>1
<1>8. ASSUME NEW ids, NEW field, Starts(ids, field) PROVE LogHitsKnown'
  <2>1. Len(turns') = 1 /\ turns'[1].events = SeedEvents(ids, field) /\ turns' \in Seq(TurnInfo)
    BY <1>8 DEF Starts, EngineInv, TypeOK
  <2>2. DOMAIN turns' = 1 .. 1
    BY <2>1, LenProperties
  <2>. QED
    BY <2>1, <2>2, SeedsHitNobody DEF LogHitsKnown
<1>9. ASSUME NEW ids, NEW field, Summarises(ids, field) PROVE LogHitsKnown'
  BY <1>1, <1>9, SeedsHitNobody DEF Summarises
<1>. QED
  BY <1>0, <1>2, <1>3, <1>4, <1>5, <1>6, <1>7, <1>8, <1>9 DEF Kinds

-----------------------------------------------------------------------------
(* What a step sends.                                                      *)

\* The messages c tell the truth about the players ps.
Well(c, ps) ==
    \A k \in DOMAIN c :
        Truthful(c[k], ps) /\ (c[k].code = "Turn" => HitsKnown(c[k].events))

EndIn(c) == \E k \in DOMAIN c : c[k].code = "GameEnded"

\* Truthful messages after truthful ones.
LEMMA WellConcat ==
    ASSUME NEW s \in Seq(ServerMessage), NEW c \in Seq(ServerMessage), NEW ps,
           Well(s, ps), Well(c, ps)
    PROVE  s \o c \in Seq(ServerMessage) /\ Well(s \o c, ps)
<1>1. /\ s \o c \in Seq(ServerMessage) /\ Len(s) \in Nat /\ Len(c) \in Nat
      /\ DOMAIN s = 1 .. Len(s) /\ DOMAIN c = 1 .. Len(c)
      /\ DOMAIN (s \o c) = 1 .. Len(s) + Len(c)
      /\ \A n \in 1 .. Len(s) + Len(c) : (s \o c)[n] = IF n <= Len(s) THEN s[n] ELSE c[n - Len(s)]
  BY LenProperties, ConcatProperties
<1>2. ASSUME NEW n \in 1 .. Len(s) + Len(c)
      PROVE  \/ \E k \in DOMAIN s : (s \o c)[n] = s[k]
             \/ \E k \in DOMAIN c : (s \o c)[n] = c[k]
  <2>1. CASE n <= Len(s)
    <3>1. n \in DOMAIN s /\ (s \o c)[n] = s[n]
      BY <1>1, <2>1
    <3>. QED
      BY <3>1
  <2>2. CASE n > Len(s)
    <3>1. n - Len(s) \in DOMAIN c /\ (s \o c)[n] = c[n - Len(s)]
      BY <1>1, <2>2
    <3>. QED
      BY <3>1
  <2>. QED
    BY <1>1, <2>1, <2>2
<1>. QED
  BY <1>1, <1>2 DEF Well

\* A single message.
LEMMA WellOne ==
    ASSUME NEW m \in ServerMessage, NEW ps, Truthful(m, ps),
           m.code = "Turn" => HitsKnown(m.events)
    PROVE  <<m>> \in Seq(ServerMessage) /\ Well(<<m>>, ps)
BY DEF Well

\* The greeting tells of the turns and the players as they are.
LEMMA GreetsWell ==
    ASSUME EngineInv, LogHitsKnown, NEW ids \in Ascending(DOMAIN players)
    PROVE  HelloMessages(ids) \in Seq(ServerMessage) /\ Well(HelloMessages(ids), players)
<1>1. <<Hello>> \in Seq(ServerMessage) /\ Well(<<Hello>>, players)
  <2>1. Hello.code = "Hello"
    BY DEF Hello
  <2>. QED
    BY <2>1, HelloType, WellOne DEF Truthful
<1>2. CASE gameplay_started
  <2>1. PICK ts : ts = [k \in DOMAIN turns |-> Turn(turns[k])]
    OBVIOUS
  <2>2. turns \in Seq(TurnInfo) /\ DOMAIN turns = 1 .. Len(turns) /\ Len(turns) \in Nat
    BY LenProperties DEF EngineInv, TypeOK
  <2>3. ASSUME NEW k \in 1 .. Len(turns)
        PROVE  /\ Turn(turns[k]) \in ServerMessage /\ Turn(turns[k]).code = "Turn"
               /\ HitsKnown(Turn(turns[k]).events)
    <3>1. turns[k] \in TurnInfo
      BY <2>2, ElementOfSeq
    <3>2. Turn(turns[k]).events = turns[k].events /\ Turn(turns[k]).code = "Turn"
      BY DEF Turn
    <3>. QED
      BY <2>2, <3>1, <3>2, TurnType DEF LogHitsKnown
  <2>4. ts \in Seq(ServerMessage) /\ DOMAIN ts = 1 .. Len(turns)
    BY <2>1, <2>2, <2>3
  <2>5. Well(ts, players)
    BY <2>1, <2>3, <2>4 DEF Well, Truthful
  <2>6. PICK g : g = GameStarted(players)
    OBVIOUS
  <2>7. g \in ServerMessage /\ g.code = "GameStarted"
    BY <2>6, GameStartedType DEF EngineInv, TypeOK, GameStarted
  <2>8. <<g>> \in Seq(ServerMessage) /\ Well(<<g>>, players)
    BY <2>7, WellOne DEF Truthful
  <2>9. <<g>> \o ts \in Seq(ServerMessage) /\ Well(<<g>> \o ts, players)
    BY <2>4, <2>5, <2>8, WellConcat
  <2>10. HelloMessages(ids) = <<Hello>> \o (<<g>> \o ts)
    BY <1>2, <2>1, <2>6 DEF HelloMessages
  <2>. QED
    BY <1>1, <2>9, <2>10, WellConcat
<1>3. CASE ~gameplay_started
  <2>1. PICK c : c = [k \in DOMAIN ids |-> AcceptedPlayer(ids[k], players[ids[k]])]
    OBVIOUS
  <2>2. DOMAIN players \in SUBSET PlayerId /\ Map(players, PlayerId, Player)
    BY DEF EngineInv, TypeOK, Map
  <2>3. ids \in Seq(DOMAIN players) /\ DOMAIN ids = 1 .. Len(ids) /\ Len(ids) \in Nat
    BY <2>2, PlayerIdsFinite, AscendingIsSeq, LenProperties
  <2>4. ASSUME NEW k \in 1 .. Len(ids)
        PROVE  /\ AcceptedPlayer(ids[k], players[ids[k]]) \in ServerMessage
               /\ Truthful(AcceptedPlayer(ids[k], players[ids[k]]), players)
               /\ AcceptedPlayer(ids[k], players[ids[k]]).code = "AcceptedPlayer"
    <3>1. ids[k] \in DOMAIN players
      BY <2>3, ElementOfSeq
    <3>2. ids[k] \in PlayerId /\ players[ids[k]] \in Player
      BY <2>2, <3>1 DEF Map
    <3>. QED
      BY <3>1, <3>2, AcceptedPlayerType DEF AcceptedPlayer, Truthful
  <2>5. c \in Seq(ServerMessage) /\ DOMAIN c = 1 .. Len(ids)
    BY <2>1, <2>3, <2>4
  <2>6. Well(c, players)
    BY <2>1, <2>4, <2>5 DEF Well
  <2>7. HelloMessages(ids) = <<Hello>> \o c
    BY <1>3, <2>1 DEF HelloMessages
  <2>. QED
    BY <1>1, <2>5, <2>6, <2>7, WellConcat
<1>. QED
  BY <1>2, <1>3

\* What a step may send and do to the players.
SendsWell ==
    /\ ForMe(out') \in Seq(ServerMessage) /\ Well(ForMe(out'), players')
    /\ Agrees(players, players') \/ EndIn(ForMe(out'))

\* A step that sends nothing and leaves the players alone.
LEMMA SilentSendsWell == ASSUME out' = <<>>, players' = players PROVE SendsWell
<1>1. ForMe(out') = <<>>
  BY DEF ForMe
<1>2. <<>> \in Seq(ServerMessage)
  BY EmptySeq
<1>3. \A ps : Well(<<>>, ps)
  BY DEF Well
<1>4. Agrees(players, players')
  BY DEF Agrees
<1>. QED
  BY <1>1, <1>2, <1>3, <1>4 DEF SendsWell

\* A greeting leaves the players alone.
LEMMA GreetingSendsWell ==
    ASSUME EngineInv, LogHitsKnown, me = 1, NEW position \in Slot, AcceptClient(position)
    PROVE  SendsWell
<1>1. PICK ids \in Ascending(DOMAIN players) : out' = send_message(1, HelloMessages(ids))
  BY DEF AcceptClient, Slot
<1>2. players' = players
  BY DEF AcceptClient, game, lobby
<1>3. HelloMessages(ids) \in Seq(ServerMessage) /\ Well(HelloMessages(ids), players)
  BY GreetsWell
<1>4. PICK c : c = HelloMessages(ids)
  OBVIOUS
<1>5. CASE c = <<>>
  <2>1. ForMe(out') = <<>>
    BY <1>1, <1>4, <1>5 DEF send_message, ForMe
  <2>. QED
    BY <1>2, <2>1, EmptySeq DEF SendsWell, Well, Agrees
<1>6. CASE c # <<>>
  <2>1. ForMe(out') = c
    BY <1>1, <1>3, <1>4, <1>6, ForMeSent
  <2>. QED
    BY <1>2, <1>3, <1>4, <2>1 DEF SendsWell, Agrees
<1>. QED
  BY <1>5, <1>6

\* What is sent to all reaches the client.
LEMMA SentToAll ==
    ASSUME me = 1, NEW c \in Seq(ServerMessage), c # <<>>, out' = send_message(All, c)
    PROVE  ForMe(out') = c
BY ForMeSent

\* A join announces the entry it makes, and keeps the others.
LEMMA JoinSendsWell ==
    ASSUME EngineInv, EngineInv', me = 1, NEW i \in Slot, NEW player \in Player, Join(i, player)
    PROVE  SendsWell
<1>1. PICK id \in PlayerId : id = next_player_id
  BY DEF EngineInv, TypeOK
<1>2. PICK ps : ps = map_insert(players, id, player) /\ players' = ps
  BY <1>1 DEF Join
<1>3. /\ DOMAIN players = 0 .. id - 1 /\ id \in Nat /\ Map(ps, PlayerId, Player)
  BY <1>1, <1>2, GameParams DEF EngineInv, TypeOK, IdsConsistent, PlayerId
<1>4. id \notin DOMAIN players
  BY <1>3
<1>5. id \in DOMAIN ps /\ ps[id] = player /\ Agrees(players, ps)
  BY <1>2, <1>4 DEF map_insert, Agrees
<1>6. PICK a : a = AcceptedPlayer(id, player)
  OBVIOUS
<1>7. a \in ServerMessage /\ a.code = "AcceptedPlayer" /\ Truthful(a, ps)
  BY <1>5, <1>6, AcceptedPlayerType DEF AcceptedPlayer, Truthful
<1>8. <<a>> \in Seq(ServerMessage) /\ Well(<<a>>, ps)
  BY <1>7, WellOne
<1>9. PICK g : g = GameStarted(ps)
  OBVIOUS
<1>10. g \in ServerMessage /\ g.code = "GameStarted"
  BY <1>3, <1>9, GameStartedType DEF GameStarted
<1>11. <<g>> \in Seq(ServerMessage) /\ Well(<<g>>, ps)
  BY <1>10, WellOne DEF Truthful
<1>12. out' = send_message(All, <<a>> \o <<g>>) \/ out' = send_message(All, <<a>> \o <<>>)
  BY <1>1, <1>2, <1>6, <1>9 DEF Join, send_message_to_all
<1>13. CASE out' = send_message(All, <<a>> \o <<g>>)
  <2>1. PICK c : c = <<a>> \o <<g>>
    OBVIOUS
  <2>2. c \in Seq(ServerMessage) /\ Well(c, ps)
    BY <1>8, <1>11, <2>1, WellConcat
  <2>3. c # <<>>
    BY <1>7, <1>10, <2>1, TwoElements
  <2>4. ForMe(out') = c
    BY <1>13, <2>1, <2>2, <2>3, SentToAll
  <2>. QED
    BY <1>2, <1>5, <2>2, <2>4 DEF SendsWell
<1>14. CASE out' = send_message(All, <<a>> \o <<>>)
  <2>1. <<a>> \o <<>> = <<a>> /\ <<a>> # <<>>
    BY <1>8
  <2>2. ForMe(out') = <<a>>
    BY <1>8, <1>14, <2>1, SentToAll
  <2>. QED
    BY <1>2, <1>5, <1>8, <2>2 DEF SendsWell
<1>. QED
  BY <1>12, <1>13, <1>14

\* The turn that is closed reports hits of players; when the gameplay ends,
\* and the players are forgotten, GameEnded is sent.
LEMMA SummariseSendsWell ==
    ASSUME EngineInv, LogHitsKnown, me = 1, SummariseTurn PROVE SendsWell
<1>1. PICK field \in [current_players_to_destroy -> Board],
           ids \in Ascending(current_players_to_destroy) :
        LET ts == add_events(SeedEvents(ids, field))
            ss == [p \in DOMAIN scores |->
                      IF p \in current_players_to_destroy THEN scores[p] + 1 ELSE scores[p]]
        IN  /\ out' = send_message_to_all(
                          <<Turn(ts[current_turn + 1])>> \o
                          IF LastTurn THEN <<GameEnded(ss)>> ELSE <<>>)
            /\ ~LastTurn => UNCHANGED lobby
  BY DEF SummariseTurn
<1>2. PICK ts : ts = add_events(SeedEvents(ids, field))
  OBVIOUS
<1>3. PICK ss : ss = [p \in DOMAIN scores |->
                      IF p \in current_players_to_destroy THEN scores[p] + 1 ELSE scores[p]]
  OBVIOUS
<1>4. /\ gameplay_started /\ current_turn \in Nat /\ TypeOK
      /\ Len(turns) = current_turn + 1 /\ turns \in Seq(TurnInfo)
      /\ current_players_to_destroy \subseteq PlayerId
      /\ current_turn + 1 \in 1 .. Len(turns) /\ DOMAIN turns = 1 .. Len(turns)
  BY GameParams, LenProperties DEF SummariseTurn, EngineInv, TypeOK, InGameTablesAgree
<1>5. PICK m : m = Turn(ts[current_turn + 1])
  OBVIOUS
<1>6. m \in ServerMessage /\ m.code = "Turn" /\ HitsKnown(m.events)
  <2>1. SeedEvents(ids, field) \in Seq(Event)
    BY <1>4, SeedEventsType
  <2>2. /\ ts \in Seq(TurnInfo) /\ Len(ts) = Len(turns)
        /\ ts[current_turn + 1].events = turns[current_turn + 1].events \o SeedEvents(ids, field)
    BY <1>2, <1>4, <2>1, AddEvents
  <2>3. PICK s \in Seq(Event) : s = turns[current_turn + 1].events
    BY <1>4, EventsType
  <2>4. HitsKnown(s) /\ HitsKnown(SeedEvents(ids, field))
    BY <1>4, <2>3, SeedsHitNobody DEF LogHitsKnown
  <2>5. HitsKnown(ts[current_turn + 1].events)
    BY <2>1, <2>2, <2>3, <2>4, HitsConcat
  <2>6. ts[current_turn + 1] \in TurnInfo
    BY <1>4, <2>2, ElementOfSeq
  <2>7. m.events = ts[current_turn + 1].events /\ m.code = "Turn"
    BY <1>5 DEF Turn
  <2>. QED
    BY <1>5, <2>5, <2>6, <2>7, TurnType
<1>7. <<m>> \in Seq(ServerMessage) /\ \A ps : Well(<<m>>, ps)
  BY <1>6, WellOne DEF Truthful
<1>8. CASE LastTurn
  <2>1. PICK g : g = GameEnded(ss)
    OBVIOUS
  <2>2. g \in ServerMessage /\ g.code = "GameEnded"
    <3>1. Map(ss, PlayerId, Nat)
      BY <1>3 DEF EngineInv, TypeOK, Map
    <3>. QED
      BY <2>1, <3>1, GameEndedType DEF GameEnded
  <2>3. <<g>> \in Seq(ServerMessage) /\ Well(<<g>>, players')
    BY <2>2, WellOne DEF Truthful
  <2>4. PICK c : c = <<m>> \o <<g>>
    OBVIOUS
  <2>5. out' = send_message(All, c)
    BY <1>1, <1>2, <1>3, <1>5, <1>8, <2>1, <2>4 DEF send_message_to_all
  <2>6. c \in Seq(ServerMessage) /\ Well(c, players')
    BY <1>7, <2>3, <2>4, WellConcat
  <2>7. c # <<>> /\ DOMAIN c = {1, 2} /\ c[2] = g
    BY <1>6, <2>2, <2>4, TwoElements
  <2>8. ForMe(out') = c
    BY <2>5, <2>6, <2>7, SentToAll
  <2>. QED
    BY <2>2, <2>6, <2>7, <2>8 DEF SendsWell, EndIn
<1>9. CASE ~LastTurn
  <2>1. out' = send_message(All, <<m>> \o <<>>) /\ players' = players
    BY <1>1, <1>2, <1>5, <1>9 DEF send_message_to_all, lobby
  <2>2. <<m>> \o <<>> = <<m>> /\ <<m>> # <<>>
    BY <1>7
  <2>3. ForMe(out') = <<m>>
    BY <1>7, <2>1, <2>2, SentToAll
  <2>. QED
    BY <1>7, <2>1, <2>3 DEF SendsWell, Agrees
<1>. QED
  BY <1>8, <1>9

\* Whatever the engine does, it tells the truth about the players.
LEMMA EngineSendsWell ==
    ASSUME EngineInv, EngineInv', LogHitsKnown, me = 1, Next PROVE SendsWell
<1>. USE DEF lobby, world, marks, log, game
<1>1. CASE BeginTurn \/ EraseBombs \/ EraseBlock \/ TurnBegun \/ PollInLobby
           \/ NoConnection \/ EndRound
  <2>1. out' = <<>> /\ players' = players
    BY <1>1 DEF BeginTurn, EraseBombs, EraseBlock, TurnBegun, PollInLobby, NoConnection, EndRound
  <2>. QED
    BY <2>1, SilentSendsWell
<1>2. ASSUME NEW b \in DOMAIN bombs, TickBomb(b) PROVE SendsWell
  <2>1. out' = <<>> /\ players' = players
    BY <1>2 DEF TickBomb
  <2>. QED
    BY <2>1, SilentSendsWell
<1>3. ASSUME NEW p \in Board, SeedBlock(p) PROVE SendsWell
  <2>1. out' = <<>> /\ players' = players
    BY <1>3 DEF SeedBlock
  <2>. QED
    BY <2>1, SilentSendsWell
<1>4. CASE SummariseTurn
  BY <1>4, SummariseSendsWell
<1>5. ASSUME NEW position \in {-1} \cup Slot, AcceptClient(position) PROVE SendsWell
  <2>1. CASE position = -1
    <3>1. out' = <<>> /\ players' = players
      BY <1>5, <2>1 DEF AcceptClient
    <3>. QED
      BY <3>1, SilentSendsWell
  <2>2. CASE position \in Slot
    BY <1>5, <2>2, GreetingSendsWell
  <2>. QED
    BY <2>1, <2>2
<1>6. ASSUME NEW i \in Slot, NEW player \in Player, Join(i, player) PROVE SendsWell
  BY <1>6, JoinSendsWell
<1>7. ASSUME NEW i \in Slot,
             \/ JoinRefused(i) \/ ActionRefused(i) \/ ActionThrows(i)
             \/ PlaceBomb(i) \/ PlaceBlock(i) \/ \E d \in DirectionByte : Move(i, d)
      PROVE  SendsWell
  <2>1. out' = <<>> /\ players' = players
    BY <1>7 DEF JoinRefused, ActionRefused, ActionThrows, PlaceBomb, PlaceBlock, Move, Acts
  <2>. QED
    BY <2>1, SilentSendsWell
<1>. QED
  BY <1>1, <1>2, <1>3, <1>4, <1>5, <1>6, <1>7 DEF Next, ServerStep, ClientStep, HandleMsg

-----------------------------------------------------------------------------
(* The queue.                                                              *)

\* What holds until the end of a gameplay, when messages are added ...
LEMMA NoEndConcat ==
    ASSUME NEW s \in Seq(ServerMessage), NEW c \in Seq(ServerMessage), NEW k \in 0 .. Len(s),
           NoEndAfter(s \o c, k)
    PROVE  NoEndAfter(s, k) /\ ~EndIn(c)
<1>1. /\ Len(s) \in Nat /\ Len(c) \in Nat
      /\ DOMAIN s = 1 .. Len(s) /\ DOMAIN c = 1 .. Len(c)
      /\ DOMAIN (s \o c) = 1 .. Len(s) + Len(c)
      /\ \A n \in 1 .. Len(s) + Len(c) : (s \o c)[n] = IF n <= Len(s) THEN s[n] ELSE c[n - Len(s)]
  BY LenProperties, ConcatProperties
<1>2. ASSUME NEW j \in 1 .. Len(s), j > k PROVE s[j].code # "GameEnded"
  <2>1. j \in DOMAIN (s \o c) /\ (s \o c)[j] = s[j]
    BY <1>1
  <2>. QED
    BY <1>2, <2>1 DEF NoEndAfter
<1>3. ASSUME NEW j \in 1 .. Len(c) PROVE c[j].code # "GameEnded"
  <2>1. PICK n \in 1 .. Len(s) + Len(c) : n = Len(s) + j
    BY <1>1
  <2>2. n > k /\ ~(n <= Len(s)) /\ n - Len(s) = j
    BY <1>1, <2>1
  <2>3. (s \o c)[n] = c[j]
    BY <1>1, <2>2
  <2>. QED
    BY <1>1, <2>2, <2>3 DEF NoEndAfter
<1>. QED
  BY <1>1, <1>2, <1>3 DEF NoEndAfter, EndIn

\* ... and when the first is taken.
LEMMA NoEndTail ==
    ASSUME NEW s \in Seq(ServerMessage), s # <<>>, NEW k \in Nat, NoEndAfter(Tail(s), k)
    PROVE  NoEndAfter(s, k + 1) /\ (k = 0 /\ Head(s).code # "GameEnded" => NoEndAfter(s, 0))
<1>1. /\ Len(s) \in Nat /\ Len(s) > 0 /\ DOMAIN s = 1 .. Len(s) /\ Head(s) = s[1]
      /\ DOMAIN Tail(s) = 1 .. Len(s) - 1
      /\ \A j \in 1 .. Len(s) - 1 : Tail(s)[j] = s[j + 1]
  BY LenProperties, EmptySeq, HeadTailProperties
<1>2. ASSUME NEW j \in 1 .. Len(s), j > k + 1 PROVE s[j].code # "GameEnded"
  <2>1. PICK i \in 1 .. Len(s) - 1 : i = j - 1
    BY <1>1, <1>2
  <2>2. i > k /\ i + 1 = j
    BY <1>1, <1>2, <2>1
  <2>3. Tail(s)[i] = s[j]
    BY <1>1, <2>2
  <2>. QED
    BY <1>1, <2>2, <2>3 DEF NoEndAfter
<1>3. NoEndAfter(s, k + 1)
  BY <1>1, <1>2 DEF NoEndAfter
<1>4. ASSUME k = 0, Head(s).code # "GameEnded", NEW j \in 1 .. Len(s) PROVE s[j].code # "GameEnded"
  <2>1. CASE j = 1
    BY <1>1, <1>4, <2>1
  <2>2. CASE j # 1
    BY <1>2, <1>4, <2>2
  <2>. QED
    BY <2>1, <2>2
<1>. QED
  BY <1>1, <1>3, <1>4 DEF NoEndAfter

\* What is true of the players stays true when they become more.
LEMMA TruthfulGrows ==
    ASSUME NEW m, NEW ps, NEW qs, Agrees(ps, qs), Truthful(m, ps) PROVE Truthful(m, qs)
BY DEF Agrees, Truthful

\* A part of a part.
LEMMA AgreesGrows ==
    ASSUME NEW f, NEW ps, NEW qs, Agrees(f, ps), Agrees(ps, qs) PROVE Agrees(f, qs)
BY DEF Agrees

\* A client that knows nobody is not wrong.
LEMMA AgreesEmpty == ASSUME NEW ps PROVE Agrees(<<>>, ps)
BY DEF Agrees

-----------------------------------------------------------------------------
(* The invariant is kept.                                                  *)

\* The client's own variables.
SameClient ==
    UNCHANGED <<lobby_info, game_info, handling, drawn, is_lobby_status, client>>

\* Steps that leave the client alone.
LEMMA SameClientKeeps ==
    ASSUME RosterInv, SameClient
    PROVE  LobbyShown' /\ TurnRead' /\ ScoresKept' /\ DiesOnlyIfGreetedLate'
BY DEF RosterInv, SameClient, LobbyShown, TurnRead, ScoresKept, DiesOnlyIfGreetedLate,
       Own!lobby_message

\* A step of the server: what it sends is true, and players only join until
\* the end is sent.
LEMMA EngineKeepsRoster ==
    ASSUME PlayInv, EngineInv, EngineInv', me = 1, EngineMoves, RosterInv PROVE RosterInv'
<1>0. Next /\ LogHitsKnown /\ [Next]_vars
  BY EngineMovesAreSteps DEF PlayInv, InputsTyped, RosterInv
<1>1. LogHitsKnown'
  BY <1>0, LogHitsStep
<1>2. SendsWell
  BY <1>0, EngineSendsWell
<1>3. /\ Deliver /\ SameClient
      /\ accepted' = accepted \/ (~accepted /\ accepted' = TRUE)
  BY DEF EngineMoves, ServerMoves, AcceptMe, ServeMe, Deliver, SameClient, client_vars
<1>4. LobbyShown' /\ TurnRead' /\ ScoresKept' /\ DiesOnlyIfGreetedLate'
  BY <1>3, SameClientKeeps
<1>5. /\ to_client \in Seq(ServerMessage) /\ to_client \o <<>> = to_client
      /\ lobby_info' = lobby_info /\ client' = client
      /\ lobby_info \in [known : BOOLEAN, players : Maps(PlayerId, Player)]
      /\ ~accepted => lobby_info.players = <<>> /\ to_client = <<>>
  BY <1>3, ConcatEmptySeq DEF PlayInv, RosterInv, RosterKnown, SameClient
<1>6. CASE client # "running" \/ ~accepted'
  <2>1. to_client' = to_client /\ ~Following'
    BY <1>3, <1>5, <1>6 DEF Deliver, Following
  <2>2. InFlight'
    BY <2>1 DEF RosterInv, InFlight
  <2>3. RosterKnown'
    BY <1>3, <1>5, <2>1 DEF RosterKnown
  <2>. QED
    BY <1>1, <1>4, <2>2, <2>3 DEF RosterInv
<1>7. CASE client = "running" /\ accepted'
  <2>1. PICK s, c : /\ s = to_client /\ c = ForMe(out') /\ to_client' = s \o c
                    /\ s \in Seq(ServerMessage) /\ c \in Seq(ServerMessage)
    BY <1>2, <1>3, <1>5, <1>7 DEF Deliver, SendsWell
  <2>2. PICK ps, qs : /\ ps = players /\ qs = players' /\ Well(c, qs)
                      /\ Agrees(ps, qs) \/ EndIn(c)
    BY <1>2, <2>1 DEF SendsWell
  <2>3. /\ Len(s) \in Nat /\ Len(c) \in Nat
        /\ DOMAIN s = 1 .. Len(s) /\ DOMAIN c = 1 .. Len(c)
        /\ DOMAIN (s \o c) = 1 .. Len(s) + Len(c)
        /\ \A n \in 1 .. Len(s) + Len(c) :
              (s \o c)[n] = IF n <= Len(s) THEN s[n] ELSE c[n - Len(s)]
    BY <2>1, LenProperties, ConcatProperties
  <2>4. accepted => Following
    BY <1>7 DEF Following
  <2>5. ASSUME NEW k \in 1 .. Len(s) + Len(c), k <= Len(s)
        PROVE  /\ (s \o c)[k].code = "Turn" => HitsKnown((s \o c)[k].events)
               /\ NoEndAfter(s \o c, k) => Truthful((s \o c)[k], qs)
    <3>1. k \in DOMAIN s /\ (s \o c)[k] = s[k] /\ k \in 0 .. Len(s)
      BY <2>3, <2>5
    <3>2. accepted
      BY <1>5, <2>1, <3>1
    <3>3. /\ s[k].code = "Turn" => HitsKnown(s[k].events)
          /\ NoEndAfter(s, k) => Truthful(s[k], ps)
      BY <2>1, <2>2, <2>4, <3>1, <3>2 DEF RosterInv, InFlight
    <3>4. ASSUME NoEndAfter(s \o c, k) PROVE Truthful(s[k], qs)
      <4>1. NoEndAfter(s, k) /\ ~EndIn(c)
        BY <2>1, <3>1, <3>4, NoEndConcat
      <4>. QED
        BY <2>2, <3>3, <4>1, TruthfulGrows
    <3>. QED
      BY <3>1, <3>3, <3>4
  <2>6. ASSUME NEW k \in 1 .. Len(s) + Len(c), k > Len(s)
        PROVE  /\ (s \o c)[k].code = "Turn" => HitsKnown((s \o c)[k].events)
               /\ Truthful((s \o c)[k], qs)
    <3>1. k - Len(s) \in DOMAIN c /\ (s \o c)[k] = c[k - Len(s)]
      BY <2>3, <2>6
    <3>. QED
      BY <2>2, <3>1 DEF Well
  <2>7. InFlight'
    <3>1. \A k \in DOMAIN (s \o c) :
            /\ (s \o c)[k].code = "Turn" => HitsKnown((s \o c)[k].events)
            /\ NoEndAfter(s \o c, k) => Truthful((s \o c)[k], qs)
      BY <2>3, <2>5, <2>6
    <3>. QED
      BY <2>1, <2>2, <3>1 DEF InFlight
  <2>8. ASSUME NoEndAfter(s \o c, 0) PROVE Agrees(lobby_info.players, qs)
    <3>1. 0 \in 0 .. Len(s)
      BY <2>3
    <3>2. NoEndAfter(s, 0) /\ Agrees(ps, qs)
      BY <2>1, <2>2, <2>8, <3>1, NoEndConcat
    <3>3. CASE accepted
      <4>1. Agrees(lobby_info.players, ps)
        BY <2>1, <2>2, <2>4, <3>2, <3>3 DEF RosterInv, RosterKnown
      <4>. QED
        BY <3>2, <4>1, AgreesGrows
    <3>4. CASE ~accepted
      BY <1>5, <3>4, AgreesEmpty
    <3>. QED
      BY <3>3, <3>4
  <2>9. RosterKnown'
    BY <1>5, <1>7, <2>1, <2>2, <2>8 DEF RosterKnown
  <2>. QED
    BY <1>1, <1>4, <2>7, <2>9 DEF RosterInv
<1>. QED
  BY <1>6, <1>7

\* The queue without its first message, and the rest of what is known.
LEMMA TailInFlight ==
    ASSUME PlayInv, RosterInv, to_client # <<>>, client = "running",
           to_client' = Tail(to_client), UNCHANGED <<vars, accepted, client>>
    PROVE  LogHitsKnown' /\ InFlight'
<1>1. to_client \in Seq(ServerMessage) /\ accepted /\ Following
  BY DEF PlayInv, Following
<1>2. turns' = turns /\ players' = players /\ accepted' = accepted /\ client' = client
  BY DEF vars, game, lobby, log
<1>3. PICK s, t : /\ s = to_client /\ t = Tail(s) /\ to_client' = t /\ s # <<>>
                  /\ s \in Seq(ServerMessage)
  BY <1>1
<1>4. /\ Len(s) \in Nat /\ Len(s) > 0 /\ DOMAIN s = 1 .. Len(s)
      /\ DOMAIN t = 1 .. Len(s) - 1
      /\ \A j \in 1 .. Len(s) - 1 : t[j] = s[j + 1]
  BY <1>3, LenProperties, EmptySeq, HeadTailProperties
<1>5. ASSUME NEW k \in DOMAIN t
      PROVE  /\ t[k].code = "Turn" => HitsKnown(t[k].events)
             /\ NoEndAfter(t, k) => Truthful(t[k], players)
  <2>1. k + 1 \in DOMAIN s /\ t[k] = s[k + 1] /\ k \in Nat
    BY <1>4
  <2>2. /\ s[k + 1].code = "Turn" => HitsKnown(s[k + 1].events)
        /\ NoEndAfter(s, k + 1) => Truthful(s[k + 1], players)
    BY <1>1, <1>3, <2>1 DEF RosterInv, InFlight
  <2>3. NoEndAfter(t, k) => NoEndAfter(s, k + 1)
    BY <1>3, <2>1, NoEndTail
  <2>. QED
    BY <2>1, <2>2, <2>3
<1>6. LogHitsKnown'
  BY <1>2 DEF RosterInv, LogHitsKnown
<1>. QED
  BY <1>2, <1>3, <1>5, <1>6 DEF InFlight

\* A map without keys is the empty one.
LEMMA NoKeys == ASSUME NEW m \in Maps(PlayerId, Player), DOMAIN m = {} PROVE m = <<>>
<1>1. PICK D \in SUBSET PlayerId : m \in [D -> Player]
  BY DEF Maps
<1>2. m \in [{} -> Player]
  BY <1>1
<1>. QED
  BY <1>2

\* The first message of the queue is true of the players.
LEMMA HeadTruthful ==
    ASSUME PlayInv, RosterInv, Following, to_client # <<>>
    PROVE  /\ Head(to_client).code = "Turn" => HitsKnown(Head(to_client).events)
           /\ NoEndAfter(to_client, 1) => Truthful(Head(to_client), players)
<1>1. to_client \in Seq(ServerMessage)
  BY DEF PlayInv
<1>2. 1 \in DOMAIN to_client /\ Head(to_client) = to_client[1]
  BY <1>1, LenProperties, EmptySeq, HeadTailProperties
<1>. QED
  BY <1>2 DEF RosterInv, InFlight

\* The handler of each message.
LEMMA ReceiveKeepsRoster ==
    ASSUME PlayInv, RosterInv, Receive PROVE RosterInv'
<1>1. PICK m : m = Head(to_client)
  OBVIOUS
<1>2. /\ to_client \in Seq(ServerMessage) /\ to_client # <<>>
      /\ m \in ServerMessage /\ Following /\ Follows(ClientTold, m)
  BY <1>1, ReceiveFollows
<1>3. /\ Own!handle_server_message(m) /\ to_client' = Tail(to_client)
      /\ UNCHANGED vars /\ accepted' = accepted /\ accepted
      /\ client = "running" /\ handling = [code |-> "none"]
  BY <1>1, <1>2 DEF Receive, Following, Own!handle_server_message, Own!Idle, Own!Nothing
<1>4. client' = client
  BY <1>3 DEF Own!handle_server_message, Own!handle_hello_msg, Own!handle_accepted_player_msg,
              Own!handle_game_started_msg, Own!handle_turn_message, Own!handle_game_ended_msg
<1>5. LogHitsKnown' /\ InFlight'
  BY <1>2, <1>3, <1>4, TailInFlight
<1>6. DiesOnlyIfGreetedLate'
  BY <1>3, <1>4 DEF DiesOnlyIfGreetedLate
<1>7. /\ lobby_info \in [known : BOOLEAN, players : Maps(PlayerId, Player)]
      /\ NoEndAfter(to_client, 0) => Agrees(lobby_info.players, players)
      /\ "players" \in DOMAIN game_info /\ "scores" \in DOMAIN game_info
      /\ game_info.players = <<>> \/ Ids \subseteq DOMAIN game_info.scores
      /\ players' = players
  BY <1>2, <1>3 DEF RosterInv, RosterKnown, ScoresKept, vars, game, lobby
<1>8. /\ m.code = "Turn" => HitsKnown(m.events)
      /\ NoEndAfter(to_client, 1) => Truthful(m, players)
  BY <1>1, <1>2, HeadTruthful
<1>9. NoEndAfter(to_client', 0) =>
            NoEndAfter(to_client, 1) /\ (m.code # "GameEnded" => NoEndAfter(to_client, 0))
  <2>1. PICK t : t = Tail(to_client)
    OBVIOUS
  <2>2. NoEndAfter(t, 0) => NoEndAfter(to_client, 0 + 1)
                              /\ (m.code # "GameEnded" => NoEndAfter(to_client, 0))
    BY <1>1, <1>2, <2>1, NoEndTail
  <2>. QED
    BY <1>3, <2>1, <2>2
<1>10. ASSUME lobby_info' \in [known : BOOLEAN, players : Maps(PlayerId, Player)],
              NoEndAfter(to_client', 0) => Agrees(lobby_info'.players, players)
       PROVE  RosterKnown'
  BY <1>3, <1>7, <1>10 DEF RosterKnown
<1>11. CASE Own!handle_hello_msg(m)
  <2>1. /\ lobby_info' = [known |-> TRUE, players |-> <<>>] /\ drawn' = Own!lobby_message(lobby_info')
        /\ handling' = m /\ m.code = "Hello" /\ game_info' = game_info
    BY <1>11 DEF Own!handle_hello_msg, Own!Lobby_info
  <2>2. lobby_info' \in [known : BOOLEAN, players : Maps(PlayerId, Player)]
        /\ lobby_info'.players = <<>>
    BY <2>1, EmptyInMaps
  <2>3. RosterKnown'
    BY <1>10, <2>2, AgreesEmpty
  <2>4. LobbyShown' /\ TurnRead' /\ ScoresKept'
    BY <1>7, <2>1 DEF LobbyShown, TurnRead, ScoresKept, Own!lobby_message
  <2>. QED
    BY <1>5, <1>6, <2>3, <2>4 DEF RosterInv
<1>12. CASE Own!handle_accepted_player_msg(m)
  <2>1. /\ m.code = "AcceptedPlayer" /\ drawn' = Own!lobby_message(lobby_info')
        /\ lobby_info' = [lobby_info EXCEPT !.players = Own!map_insert(@, m.id, m.player)]
        /\ handling' = handling /\ game_info' = game_info
    BY <1>12 DEF Own!handle_accepted_player_msg, Own!add_player
  <2>2. m.id \in PlayerId /\ m.player \in Player
    BY <1>2, <2>1 DEF ServerMessage, Hello
  <2>3. PICK ps \in Maps(PlayerId, Player) : ps = lobby_info.players
    BY <1>7
  <2>4. PICK qs : qs = Own!map_insert(ps, m.id, m.player) /\ qs \in Maps(PlayerId, Player)
    BY <2>2, <2>3, InsertedMap
  <2>5. /\ lobby_info' \in [known : BOOLEAN, players : Maps(PlayerId, Player)]
        /\ lobby_info'.players = qs
    BY <1>7, <2>1, <2>3, <2>4
  <2>6. ASSUME NoEndAfter(to_client', 0) PROVE Agrees(qs, players)
    <3>1. Agrees(ps, players) /\ m.id \in DOMAIN players /\ players[m.id] = m.player
      BY <1>7, <1>8, <1>9, <2>1, <2>3, <2>6 DEF Truthful
    <3>. QED
      BY <2>4, <3>1 DEF Agrees, Own!map_insert
  <2>7. RosterKnown'
    BY <1>10, <2>5, <2>6
  <2>8. LobbyShown' /\ TurnRead' /\ ScoresKept'
    BY <1>3, <1>7, <2>1 DEF LobbyShown, TurnRead, ScoresKept, Own!lobby_message
  <2>. QED
    BY <1>5, <1>6, <2>7, <2>8 DEF RosterInv
<1>13. CASE Own!handle_game_started_msg(m)
  <2>1. /\ m.code = "GameStarted" /\ lobby_info' = lobby_info /\ is_lobby_status' = FALSE
        /\ game_info' = Own!Game_info(lobby_info) /\ handling' = handling
    BY <1>13 DEF Own!handle_game_started_msg
  <2>2. /\ game_info'.players = lobby_info.players
        /\ DOMAIN game_info'.scores = DOMAIN lobby_info.players
        /\ "players" \in DOMAIN game_info' /\ "scores" \in DOMAIN game_info'
    BY <2>1 DEF Own!Game_info
  <2>3. DOMAIN lobby_info.players \in {{}, Ids}
    BY <1>2, <2>1 DEF Follows, ClientTold, InLobby, InGame, Ids
  <2>4. DOMAIN lobby_info.players = {} => lobby_info.players = <<>>
    BY <1>7, NoKeys
  <2>5. ScoresKept'
    BY <2>2, <2>3, <2>4 DEF ScoresKept
  <2>6. RosterKnown'
    BY <1>7, <1>9, <1>10, <2>1
  <2>7. LobbyShown' /\ TurnRead'
    BY <1>3, <2>1 DEF LobbyShown, TurnRead
  <2>. QED
    BY <1>5, <1>6, <2>5, <2>6, <2>7 DEF RosterInv
<1>14. CASE Own!handle_turn_message(m)
  <2>1. /\ m.code = "Turn" /\ lobby_info' = lobby_info /\ is_lobby_status' = is_lobby_status
        /\ game_info' = [game_info EXCEPT !.turn = m.turn] /\ handling' = m
    BY <1>14 DEF Own!handle_turn_message, Own!new_turn
  <2>2. /\ game_info'.players = game_info.players /\ game_info'.scores = game_info.scores
        /\ "players" \in DOMAIN game_info' /\ "scores" \in DOMAIN game_info'
    BY <1>7, <2>1
  <2>3. ScoresKept'
    BY <1>7, <2>2 DEF ScoresKept
  <2>4. ~is_lobby_status
    BY <1>2, <2>1 DEF Follows, ClientTold, InLobby, InGame
  <2>5. m.events \in Seq(Event) /\ "events" \in DOMAIN m
    BY <1>2, <2>1 DEF ServerMessage, Hello
  <2>6. LobbyShown' /\ TurnRead'
    BY <1>8, <2>1, <2>4, <2>5 DEF LobbyShown, TurnRead
  <2>7. RosterKnown'
    BY <1>7, <1>9, <1>10, <2>1
  <2>. QED
    BY <1>5, <1>6, <2>3, <2>6, <2>7 DEF RosterInv
<1>15. CASE Own!handle_game_ended_msg(m)
  <2>1. /\ lobby_info' = [lobby_info EXCEPT !.players = <<>>]
        /\ drawn' = Own!lobby_message(lobby_info') /\ handling' = handling
        /\ game_info' = game_info
    BY <1>15 DEF Own!handle_game_ended_msg, Own!clear_players
  <2>2. /\ lobby_info' \in [known : BOOLEAN, players : Maps(PlayerId, Player)]
        /\ lobby_info'.players = <<>>
    BY <1>7, <2>1, EmptyInMaps
  <2>3. RosterKnown'
    BY <1>10, <2>2, AgreesEmpty
  <2>4. LobbyShown' /\ TurnRead' /\ ScoresKept'
    BY <1>3, <1>7, <2>1 DEF LobbyShown, TurnRead, ScoresKept, Own!lobby_message
  <2>. QED
    BY <1>5, <1>6, <2>3, <2>4 DEF RosterInv
<1>. QED
  BY <1>3, <1>11, <1>12, <1>13, <1>14, <1>15 DEF Own!handle_server_message

\* What is left to read of a turn hits known players, too.
LEMMA TailHits ==
    ASSUME NEW s \in Seq(Event), s # <<>>, HitsKnown(s)
    PROVE  /\ Tail(s) \in Seq(Event) /\ HitsKnown(Tail(s))
           /\ Head(s).code = "Bomb_exploded" => Head(s).robots_destroyed \subseteq Ids
<1>1. PICK t \in Seq(Event) : t = Tail(s)
  BY HeadTailProperties
<1>2. /\ Len(s) \in Nat /\ Len(s) > 0 /\ DOMAIN s = 1 .. Len(s) /\ DOMAIN t = 1 .. Len(s) - 1
      /\ \A j \in 1 .. Len(s) - 1 : t[j] = s[j + 1]
      /\ Head(s) = s[1]
  BY <1>1, LenProperties, EmptySeq, HeadTailProperties
<1>3. \A j \in DOMAIN t : j + 1 \in DOMAIN s /\ t[j] = s[j + 1]
  BY <1>2
<1>4. 1 \in DOMAIN s
  BY <1>2
<1>5. HitsKnown(t)
  BY <1>3 DEF HitsKnown
<1>. QED
  BY <1>1, <1>2, <1>4, <1>5 DEF HitsKnown

\* An event of a turn keeps the players of the client and the keys of its
\* scores, and ends the client only if it knows no player.
LEMMA ReadKeepsScores ==
    ASSUME RosterInv, client = "running", NEW e,
           e.code = "Bomb_exploded" => e.robots_destroyed \subseteq Ids,
           \/ Own!read_bomb_placed(e) \/ Own!read_bomb_exploded(e)
           \/ Own!read_player_moved(e) \/ Own!read_block_placed(e)
    PROVE  ScoresKept' /\ DiesOnlyIfGreetedLate'
<1>1. /\ "players" \in DOMAIN game_info /\ "scores" \in DOMAIN game_info
      /\ game_info.players = <<>> \/ Ids \subseteq DOMAIN game_info.scores
  BY DEF RosterInv, ScoresKept
<1>2. ASSUME client' = client, "players" \in DOMAIN game_info', "scores" \in DOMAIN game_info',
             game_info'.players = game_info.players,
             DOMAIN game_info'.scores = DOMAIN game_info.scores
      PROVE  ScoresKept' /\ DiesOnlyIfGreetedLate'
  BY <1>1, <1>2 DEF ScoresKept, DiesOnlyIfGreetedLate
<1>3. CASE Own!read_bomb_placed(e)
  BY <1>1, <1>2, <1>3 DEF Own!read_bomb_placed, Own!add_bomb
<1>4. CASE Own!read_player_moved(e)
  BY <1>1, <1>2, <1>4 DEF Own!read_player_moved, Own!change_player_position
<1>5. CASE Own!read_block_placed(e)
  BY <1>1, <1>2, <1>5 DEF Own!read_block_placed
<1>6. CASE Own!read_bomb_exploded(e) /\ e.robots_destroyed \subseteq DOMAIN game_info.scores
  <2>1. PICK g, blocks : /\ g = Own!destroy_players(e.id, e.robots_destroyed)
                         /\ game_info' = [g EXCEPT !.blocks = blocks] /\ client' = client
    BY <1>6 DEF Own!read_bomb_exploded
  <2>2. /\ "players" \in DOMAIN g /\ "scores" \in DOMAIN g /\ g.players = game_info.players
        /\ DOMAIN g.scores = DOMAIN game_info.scores
    BY <1>1, <2>1 DEF Own!destroy_players
  <2>3. /\ "players" \in DOMAIN game_info' /\ "scores" \in DOMAIN game_info'
        /\ game_info'.players = g.players /\ game_info'.scores = g.scores
    BY <2>1, <2>2
  <2>. QED
    BY <1>2, <2>1, <2>2, <2>3
<1>7. CASE Own!read_bomb_exploded(e) /\ ~(e.robots_destroyed \subseteq DOMAIN game_info.scores)
  <2>1. game_info' = game_info /\ e.robots_destroyed \subseteq Ids
    BY <1>7 DEF Own!read_bomb_exploded
  <2>2. game_info.players = <<>>
    BY <1>1, <1>7, <2>1
  <2>. QED
    BY <1>1, <2>1, <2>2 DEF ScoresKept, DiesOnlyIfGreetedLate
<1>. QED
  BY <1>3, <1>4, <1>5, <1>6, <1>7

\* What the client does between two messages.
LEMMA ContinueKeepsRoster ==
    ASSUME PlayInv, RosterInv, Continue PROVE RosterInv'
<1>1. /\ UNCHANGED <<turns, players, accepted, to_client, lobby_info>>
      /\ client = "running" /\ (Following' => Following)
  BY ContinueTells DEF Continue, vars, game, lobby, log, Following
<1>2. LogHitsKnown' /\ InFlight' /\ RosterKnown'
  <2>1. LogHitsKnown'
    BY <1>1 DEF RosterInv, LogHitsKnown
  <2>2. InFlight'
    BY <1>1 DEF RosterInv, InFlight
  <2>3. RosterKnown'
    BY <1>1 DEF RosterInv, RosterKnown
  <2>. QED
    BY <2>1, <2>2, <2>3
<1>3. CASE Own!HelloHandled
  <2>1. /\ handling.code = "Hello" /\ drawn' = drawn /\ game_info' = game_info
        /\ client' = client /\ handling'.code = "none"
    BY <1>3 DEF Own!HelloHandled, Own!Nothing
  <2>2. LobbyShown' /\ TurnRead' /\ ScoresKept' /\ DiesOnlyIfGreetedLate'
    BY <1>1, <2>1 DEF RosterInv, LobbyShown, TurnRead, ScoresKept, DiesOnlyIfGreetedLate,
                      Own!lobby_message
  <2>. QED
    BY <1>2, <2>2 DEF RosterInv
<1>4. CASE Own!TurnHandled
  <2>1. /\ handling.code = "Turn" /\ is_lobby_status' = is_lobby_status
        /\ game_info' = game_info /\ client' = client /\ handling'.code = "none"
    BY <1>4 DEF Own!TurnHandled, Own!InTurn, Own!Nothing
  <2>2. ~is_lobby_status
    BY <2>1 DEF RosterInv, TurnRead
  <2>3. LobbyShown' /\ TurnRead' /\ ScoresKept' /\ DiesOnlyIfGreetedLate'
    BY <2>1, <2>2 DEF RosterInv, LobbyShown, TurnRead, ScoresKept, DiesOnlyIfGreetedLate
  <2>. QED
    BY <1>2, <2>3 DEF RosterInv
<1>5. CASE Own!ReadEvent
  <2>1. PICK s : s = handling.events
    OBVIOUS
  <2>2. /\ handling.code = "Turn" /\ is_lobby_status' = is_lobby_status /\ s # <<>>
        /\ handling' = [handling EXCEPT !.events = Tail(s)]
    BY <1>5, <2>1 DEF Own!ReadEvent, Own!InTurn
  <2>3. /\ ~is_lobby_status /\ s \in Seq(Event) /\ HitsKnown(s)
        /\ "events" \in DOMAIN handling /\ "code" \in DOMAIN handling
    BY <2>1, <2>2 DEF RosterInv, TurnRead, PlayInv
  <2>4. /\ handling'.code = "Turn" /\ handling'.events = Tail(s)
        /\ "events" \in DOMAIN handling'
    BY <2>2, <2>3
  <2>5. PICK e : /\ e = Head(s)
                 /\ \/ Own!read_bomb_placed(e) \/ Own!read_bomb_exploded(e)
                    \/ Own!read_player_moved(e) \/ Own!read_block_placed(e)
    BY <1>5, <2>1 DEF Own!ReadEvent
  <2>6. /\ Tail(s) \in Seq(Event) /\ HitsKnown(Tail(s))
        /\ e.code = "Bomb_exploded" => e.robots_destroyed \subseteq Ids
    BY <2>2, <2>3, <2>5, TailHits
  <2>7. ScoresKept' /\ DiesOnlyIfGreetedLate'
    BY <1>1, <2>5, <2>6, ReadKeepsScores
  <2>8. LobbyShown' /\ TurnRead'
    BY <2>2, <2>3, <2>4, <2>6 DEF LobbyShown, TurnRead
  <2>. QED
    BY <1>2, <2>7, <2>8 DEF RosterInv
<1>. QED
  BY <1>3, <1>4, <1>5 DEF Continue

\* The invariant is inductive, given those of the engine and the conversation.
LEMMA RosterStep ==
    ASSUME me = 1
    PROVE  /\ PlayInv /\ EngineInv /\ EngineInv' /\ RosterInv /\ [PlayNext]_play_vars
           => RosterInv'
<1>. SUFFICES ASSUME PlayInv, EngineInv, EngineInv', RosterInv, [PlayNext]_play_vars
              PROVE  RosterInv'
  OBVIOUS
<1>1. CASE EngineMoves
  BY <1>1, EngineKeepsRoster
<1>2. CASE Receive
  BY <1>2, ReceiveKeepsRoster
<1>3. CASE Continue
  BY <1>3, ContinueKeepsRoster
<1>4. CASE GuiInput \/ SendInput \/ UNCHANGED play_vars
  <2>1. UNCHANGED <<turns, players, accepted, to_client>> /\ SameClient
    BY <1>4 DEF GuiInput, SendInput, play_vars, client_vars, vars, game, lobby, log, SameClient,
                Own!handle_gui_message, Own!send_server_message, Own!server_thread
  <2>2. LobbyShown' /\ TurnRead' /\ ScoresKept' /\ DiesOnlyIfGreetedLate'
    BY <2>1, SameClientKeeps
  <2>3. lobby_info' = lobby_info /\ Following' = Following
    BY <2>1 DEF SameClient, Following
  <2>4. LogHitsKnown' /\ InFlight' /\ RosterKnown'
    BY <2>1, <2>3 DEF RosterInv, LogHitsKnown, InFlight, RosterKnown
  <2>. QED
    BY <2>2, <2>4 DEF RosterInv
<1>5. CASE ClientExits
  <2>1. /\ client' = "exited" /\ to_client' = <<>> /\ turns' = turns
        /\ lobby_info' = [known |-> FALSE, players |-> <<>>]
        /\ game_info'.players = <<>> /\ "players" \in DOMAIN game_info'
        /\ "scores" \in DOMAIN game_info'
        /\ is_lobby_status' = FALSE /\ handling'.code = "none"
    BY <1>5 DEF ClientExits, Own!exit_with_msg, Own!Lobby_info, Own!Game_info, Own!Nothing,
                vars, game, lobby, log
  <2>2. ~Following' /\ DOMAIN to_client' = {}
    BY <2>1 DEF Following
  <2>3. LogHitsKnown' /\ InFlight'
    BY <2>1, <2>2 DEF RosterInv, LogHitsKnown, InFlight
  <2>4. RosterKnown'
    BY <2>1, <2>2, EmptyInMaps DEF RosterKnown
  <2>5. LobbyShown' /\ TurnRead' /\ ScoresKept' /\ DiesOnlyIfGreetedLate'
    BY <2>1 DEF LobbyShown, TurnRead, ScoresKept, DiesOnlyIfGreetedLate
  <2>. QED
    BY <2>3, <2>4, <2>5 DEF RosterInv
<1>. QED
  BY <1>1, <1>2, <1>3, <1>4, <1>5 DEF PlayNext, ServerThread

\* A client that has just started knows nobody.
LEMMA RosterInit == PlayInit => RosterInv
<1>. SUFFICES ASSUME PlayInit PROVE RosterInv
  OBVIOUS
<1>1. /\ accepted = FALSE /\ to_client = <<>> /\ turns = <<>> /\ client = "running"
      /\ lobby_info = [known |-> FALSE, players |-> <<>>]
      /\ game_info.players = <<>> /\ "players" \in DOMAIN game_info
      /\ "scores" \in DOMAIN game_info
      /\ is_lobby_status = FALSE /\ handling.code = "none"
  BY DEF PlayInit, Init, Own!ClientInit, Own!Lobby_info, Own!Game_info, Own!Nothing
<1>2. ~Following /\ DOMAIN to_client = {} /\ DOMAIN turns = {}
  BY <1>1 DEF Following
<1>3. LogHitsKnown /\ InFlight
  BY <1>2 DEF LogHitsKnown, InFlight
<1>4. RosterKnown
  BY <1>1, <1>2, EmptyInMaps DEF RosterKnown
<1>5. LobbyShown /\ TurnRead /\ ScoresKept /\ DiesOnlyIfGreetedLate
  BY <1>1 DEF LobbyShown, TurnRead, ScoresKept, DiesOnlyIfGreetedLate
<1>. QED
  BY <1>3, <1>4, <1>5 DEF RosterInv

-----------------------------------------------------------------------------
(* The theorems.                                                           *)

\* What a client at position 1 knows of the players, and what is on its way
\* to it, is true of the gameplay that it is about.
THEOREM RosterInvariant == ASSUME me = 1 PROVE PlaySpec => []RosterInv
BY RosterInit, RosterStep, PlayInvariant, PlayKeepsEngineInv, PTL DEF PlaySpec

\* In the lobby the GUI of a client that has read everything lists the players
\* who have joined, although every greeting and the end of a gameplay empty
\* its list.
THEOREM PlayersAreDrawn == ASSUME me = 1 PROVE PlaySpec => []PlayersDrawn
<1>1. PlayInv /\ EngineInv /\ RosterInv => PlayersDrawn
  <2>. SUFFICES ASSUME PlayInv, EngineInv, RosterInv, Drained, ~gameplay_started
                PROVE  drawn.code = "Lobby" /\ drawn.info.players = players
    BY DEF PlayersDrawn
  <2>1. Following /\ to_client = <<>> /\ handling.code = "none"
    BY DEF Drained, Own!Nothing
  <2>2. ServerTold(ClientTold)
    BY <2>1, ConversationChain DEF LastTold
  <2>3. ClientTold = InLobby(0 .. next_player_id - 1)
    BY <2>2 DEF ServerTold
  <2>4. is_lobby_status /\ DOMAIN lobby_info.players = 0 .. next_player_id - 1
    BY <2>1, <2>3 DEF ClientTold, InLobby, InGame
  <2>5. PICK f, g : f = lobby_info.players /\ g = players
    OBVIOUS
  <2>6. DOMAIN f = 0 .. next_player_id - 1 /\ DOMAIN g = 0 .. next_player_id - 1
    BY <2>4, <2>5 DEF EngineInv, IdsConsistent
  <2>7. NoEndAfter(to_client, 0)
    <3>1. DOMAIN to_client = {}
      BY <2>1
    <3>. QED
      BY <3>1 DEF NoEndAfter
  <2>8. Agrees(f, g)
    BY <2>1, <2>5, <2>7 DEF RosterInv, RosterKnown
  <2>9. f \in [DOMAIN f -> Player] /\ g \in [DOMAIN g -> Player]
    <3>1. f \in Maps(PlayerId, Player) /\ Map(g, PlayerId, Player)
      BY <2>5 DEF RosterInv, RosterKnown, EngineInv, TypeOK
    <3>. QED
      BY <3>1 DEF Maps, Map
  <2>10. f = g
    <3>1. PICK D : D = DOMAIN f /\ D = DOMAIN g
      BY <2>6
    <3>2. f \in [D -> Player] /\ g \in [D -> Player] /\ \A x \in D : f[x] = g[x]
      BY <2>8, <2>9, <3>1 DEF Agrees
    <3>. QED
      BY <3>2
  <2>11. drawn = [code |-> "Lobby", info |-> lobby_info]
    BY <2>4 DEF RosterInv, LobbyShown, Own!lobby_message
  <2>. QED
    BY <2>5, <2>10, <2>11
<1>. QED
  BY <1>1, PlayInvariant, PlayKeepsEngineInv, RosterInvariant, PTL

\* The exception of scores.at ends a client only if it was greeted during the
\* gameplay, and so knows no player: a client that has seen everyone join
\* finds every robot that the server says was hit.
THEOREM OnlyLateClientsDie == ASSUME me = 1 PROVE PlaySpec => []DiesOnlyIfGreetedLate
<1>1. RosterInv => DiesOnlyIfGreetedLate
  BY DEF RosterInv
<1>. QED
  BY <1>1, RosterInvariant, PTL
=============================================================================
