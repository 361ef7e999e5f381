----------------------------- MODULE PlayProofs -----------------------------
(***************************************************************************)
(* Theorems about Play, for every value of its constants.  Those about the *)
(* conversation are about the client at position 1, the only one that the  *)
(* code greets.                                                            *)
(***************************************************************************)
EXTENDS Play, GameEngineProofs

-----------------------------------------------------------------------------
(* Facts about the operators of the model.                                 *)

\* The players are announced in the order 0, 1, ...: the enumeration of
\* 0 .. n - 1 that an iteration over the map yields.
LEMMA AscendingInterval ==
    ASSUME NEW n \in Nat, NEW f \in Ascending(0 .. n - 1)
    PROVE  Len(f) = n /\ DOMAIN f = 1 .. n /\ \A k \in 1 .. n : f[k] = k - 1
<1>1. Cardinality(0 .. n - 1) = n
  BY FS_Interval
<1>2. /\ f \in [1 .. n -> 0 .. n - 1]
      /\ \A i, j \in 1 .. n : i < j => f[i] < f[j]
  BY <1>1 DEF Ascending
<1>3. {j \in 1 .. n : f[j] < j - 1} = {}
  <2>. DEFINE T == {j \in 1 .. n : f[j] < j - 1}
  <2>. SUFFICES ASSUME T # {} PROVE FALSE
    OBVIOUS
  <2>0. T \in SUBSET Nat
    OBVIOUS
  <2>1. PICK j \in T : \A i \in T : j <= i
    <3>. HIDE DEF T
    <3>. QED BY <2>0, LeastElement
  <2>2. j \in 1 .. n /\ f[j] < j - 1 /\ f[j] \in 0 .. n - 1
    BY <1>2
  <2>3. j - 1 \in 1 .. n /\ j - 1 \notin T
    BY <2>1, <2>2
  <2>4. f[j - 1] < f[j] /\ f[j - 1] >= j - 2 /\ f[j - 1] \in 0 .. n - 1
    BY <1>2, <2>2, <2>3
  <2>. QED
    BY <2>2, <2>4
<1>4. {j \in 0 .. n - 1 : f[n - j] > n - j - 1} = {}
  <2>. DEFINE T == {j \in 0 .. n - 1 : f[n - j] > n - j - 1}
  <2>. SUFFICES ASSUME T # {} PROVE FALSE
    OBVIOUS
  <2>0. T \in SUBSET Nat
    OBVIOUS
  <2>1. PICK j \in T : \A i \in T : j <= i
    <3>. HIDE DEF T
    <3>. QED BY <2>0, LeastElement
  <2>2. j \in 0 .. n - 1 /\ f[n - j] > n - j - 1 /\ f[n - j] \in 0 .. n - 1
    BY <1>2
  <2>3. j # 0
    BY <2>2
  <2>4. j - 1 \in 0 .. n - 1 /\ j - 1 \notin T
    <3>1. j \in Int /\ j - 1 \in 0 .. n - 1 /\ ~(j <= j - 1)
      BY <2>2, <2>3
    <3>. HIDE DEF T
    <3>. QED BY <2>1, <3>1
  <2>5. /\ n - j \in 1 .. n /\ n - (j - 1) \in 1 .. n /\ n - j < n - (j - 1)
        /\ n - (j - 1) - 1 = n - j
    BY <2>2, <2>3
  <2>6. f[n - (j - 1)] \in 0 .. n - 1 /\ f[n - j] < f[n - (j - 1)]
    BY <1>2, <2>5
  <2>7. ~(f[n - (j - 1)] > n - (j - 1) - 1)
    BY <2>4
  <2>. QED
    BY <2>2, <2>5, <2>6, <2>7
<1>5. ASSUME NEW k \in 1 .. n PROVE f[k] = k - 1
  <2>1. f[k] \in 0 .. n - 1
    BY <1>2
  <2>2. ~(f[k] < k - 1)
    BY <1>3
  <2>3. n - k \in 0 .. n - 1 /\ n - (n - k) = k
    OBVIOUS
  <2>4. ~(f[n - (n - k)] > n - (n - k) - 1)
    BY <1>4, <2>3
  <2>. QED
    BY <2>1, <2>2, <2>3, <2>4
<1>. QED
  BY <1>2, <1>5

\* Two messages sent by one step.
LEMMA TwoElements ==
    ASSUME NEW S, NEW a \in S, NEW b \in S
    PROVE  /\ <<a>> \o <<b>> = <<a, b>> /\ <<a, b>> \in Seq(S) /\ <<a, b>> # <<>>
           /\ Len(<<a, b>>) = 2 /\ DOMAIN <<a, b>> = {1, 2}
           /\ <<a, b>>[1] = a /\ <<a, b>>[2] = b
<1>1. <<a, b>> \in Seq(S) /\ Len(<<a, b>>) = 2
  OBVIOUS
<1>2. <<a>> \o <<b>> = <<a, b>>
  <2>1. <<a>> \in Seq(S) /\ <<b>> \in Seq(S)
    OBVIOUS
  <2>2. PICK s : s = <<a>> \o <<b>>
    OBVIOUS
  <2>3. s \in Seq(S) /\ Len(s) = 2 /\ s[1] = a /\ s[2] = b
    BY <2>1, <2>2
  <2>4. \A i \in 1 .. 2 : s[i] = <<a, b>>[i]
    BY <2>3
  <2>. QED
    BY <1>1, <2>2, <2>3, <2>4, SeqEqual
<1>3. DOMAIN <<a, b>> = {1, 2} /\ <<a, b>>[1] = a /\ <<a, b>>[2] = b
  <2>1. 1 .. 2 = {1, 2}
    OBVIOUS
  <2>. QED
    BY <1>1, <2>1, LenProperties
<1>4. <<a, b>> # <<>>
  BY <1>1, EmptySeq
<1>. QED
  BY <1>1, <1>2, <1>3, <1>4

\* The maps from some of K to V, and what the server sends.
Maps(K, V) == UNION {[D -> V] : D \in SUBSET K}

ServerMessage ==
    {Hello} \cup [code : {"AcceptedPlayer"}, id : PlayerId, player : Player]
        \cup [code : {"GameStarted"}, players : Maps(PlayerId, Player)]
        \cup [code : {"Turn"}, turn : 0 .. U16 - 1, events : Seq(Event)]
        \cup [code : {"GameEnded"}, scores : Maps(PlayerId, Nat)]

\* The inductive invariant behind Conversation: what is in flight is typed,
\* nothing is sent to a client before it is accepted, and the first it reads
\* then is its greeting.
PlayInv ==
    /\ input \in SentByClient \cup {Own!Nothing} /\ to_server \in Seq(SentByClient)
    /\ to_client \in Seq(ServerMessage)
    /\ "players" \in DOMAIN lobby_info /\ "turn" \in DOMAIN game_info
    /\ "code" \in DOMAIN handling
    /\ ~accepted => to_client = <<>>
    /\ Following /\ ~lobby_info.known => to_client # <<>> /\ to_client[1] = Hello
    /\ Conversation

\* A map is an element of the set of maps.
LEMMA MapInMaps == ASSUME NEW K, NEW V, NEW m, Map(m, K, V) PROVE m \in Maps(K, V)
BY DEF Map, Maps

-----------------------------------------------------------------------------
(* The engine in Play is GameEngine.                                       *)

\* What the two threads of the client put on the wire.
InputsTyped ==
    input \in SentByClient \cup {Own!Nothing} /\ to_server \in Seq(SentByClient)

\* Whatever the client has sent, the server handles it as one of the messages
\* GameEngine expects of a descriptor.
LEMMA ExecutesIsHandleMsg ==
    ASSUME NEW m \in SentByClient, Executes(m) PROVE HandleMsg(me)
<1>1. CASE m.code = "Move" /\ Move(me, m.direction)
  <2>1. m \in Input
    BY <1>1 DEF SentByClient
  <2>2. m.direction \in DirectionByte
    BY <1>1, <2>1, InputAssumption
  <2>. QED
    BY <1>1, <2>2 DEF HandleMsg
<1>2. CASE ~(m.code = "Move" /\ Move(me, m.direction))
  BY <1>2 DEF Executes, HandleMsg
<1>. QED
  BY <1>1, <1>2

\* A step of the server beside the client is one of the engine.
LEMMA EngineMovesAreSteps == ASSUME InputsTyped, EngineMoves PROVE Next
<1>1. CASE ServerMoves
  BY <1>1 DEF ServerMoves, Next, ClientStep
<1>2. CASE AcceptMe
  BY <1>2, MeAssumption DEF AcceptMe, Next, ClientStep
<1>3. CASE ServeMe
  <2>1. PICK n \in DOMAIN to_server : Executes(to_server[n])
    BY <1>3 DEF ServeMe
  <2>2. to_server[n] \in SentByClient
    BY <2>1, LenProperties, ElementOfSeq DEF InputsTyped
  <2>3. HandleMsg(me)
    BY <2>1, <2>2, ExecutesIsHandleMsg
  <2>. QED
    BY <2>3, MeAssumption DEF Next, ClientStep
<1>. QED
  BY <1>1, <1>2, <1>3 DEF EngineMoves

\* The other steps leave the engine alone.
LEMMA PlayStepIsEngineStep == InputsTyped /\ [PlayNext]_play_vars => [Next]_vars
<1>. SUFFICES ASSUME InputsTyped, [PlayNext]_play_vars PROVE [Next]_vars
  OBVIOUS
<1>1. CASE EngineMoves
  BY <1>1, EngineMovesAreSteps
<1>2. CASE ServerThread \/ GuiInput \/ SendInput \/ ClientExits
  BY <1>2 DEF ServerThread, Receive, Continue, GuiInput, SendInput, ClientExits
<1>3. CASE UNCHANGED play_vars
  BY <1>3 DEF play_vars
<1>. QED
  BY <1>1, <1>2, <1>3 DEF PlayNext

\* The client's threads write Join or one of the inputs.
LEMMA InputsStep == InputsTyped /\ [PlayNext]_play_vars => InputsTyped'
<1>. SUFFICES ASSUME InputsTyped, [PlayNext]_play_vars PROVE InputsTyped'
  OBVIOUS
<1>. USE DEF client_vars
<1>1. CASE ServerMoves \/ AcceptMe
  BY <1>1 DEF ServerMoves, AcceptMe, Deliver, InputsTyped
<1>2. CASE ServeMe
  <2>1. PICK n \in DOMAIN to_server : to_server' = SubSeq(to_server, n + 1, Len(to_server))
    BY <1>2 DEF ServeMe
  <2>2. to_server' \in Seq(SentByClient)
    BY <2>1 DEF InputsTyped
  <2>. QED
    BY <1>2, <2>2 DEF ServeMe, Deliver, InputsTyped
<1>3. CASE Receive
  BY <1>3 DEF Receive, Own!handle_server_message, InputsTyped
<1>4. CASE Continue
  BY <1>4 DEF Continue, Own!HelloHandled, Own!ReadEvent, Own!TurnHandled, InputsTyped
<1>5. CASE GuiInput
  BY <1>5 DEF GuiInput, Own!handle_gui_message, InputsTyped, SentByClient
<1>6. CASE SendInput
  <2>1. input \in SentByClient
    BY <1>6 DEF SendInput, Own!send_server_message, InputsTyped
  <2>2. to_server' \in Seq(SentByClient)
    BY <1>6, <2>1, AppendProperties DEF SendInput, InputsTyped
  <2>. QED
    BY <1>6, <2>2 DEF SendInput, Own!send_server_message, InputsTyped
<1>7. CASE ClientExits
  BY <1>7 DEF ClientExits, Own!exit_with_msg, InputsTyped
<1>8. CASE UNCHANGED play_vars
  BY <1>8 DEF play_vars, InputsTyped
<1>. QED
  BY <1>1, <1>2, <1>3, <1>4, <1>5, <1>6, <1>7, <1>8 DEF PlayNext, EngineMoves, ServerThread

\* What the client has read from its GUI, and has sent, is typed throughout.
LEMMA PlayInputsTyped == PlaySpec => []InputsTyped
<1>1. PlayInit => InputsTyped
  BY DEF PlayInit, Own!ClientInit, InputsTyped
<1>. QED
  BY <1>1, InputsStep, PTL DEF PlaySpec

\* What robots-client does to the server, seen by the engine, is what
\* GameEngine assumes of a descriptor: the two processes and their connection
\* implement the engine's specification.
THEOREM PlayImplementsEngine == PlaySpec => Spec
<1>1. PlayInit => Init
  BY DEF PlayInit
<1>. QED
  BY <1>1, PlayInputsTyped, PlayStepIsEngineStep, PTL DEF PlaySpec, Spec

\* So the engine's tables agree in the presence of the client, robots stay on
\* the board, and no exception ends a gameplay in progress.
THEOREM PlayKeepsEngineInv == PlaySpec => []EngineInv
BY PlayImplementsEngine, EngineInvariant, PTL

-----------------------------------------------------------------------------
(* What the server tells.                                                  *)

\* The messages c may follow told, one after the other; what is told then.
Chain(told, c) ==
    \A k \in DOMAIN c : Follows(IF k = 1 THEN told ELSE ToldBy(c[k - 1]), c[k])
LastTold(told, c) == IF c = <<>> THEN told ELSE ToldBy(c[Len(c)])

\* The messages of a step are c, they may follow told, and after them the
\* server is where it has told it is.
Tells(told, c) ==
    /\ c \in Seq(ServerMessage) /\ c = ForMe(out')
    /\ Chain(told, c)
    /\ \E last : last = LastTold(told, c) /\ ServerTold(last)'

\* The messages are of their type.
LEMMA HelloType == Hello \in ServerMessage
BY DEF ServerMessage

\* The same for AcceptedPlayer,
LEMMA AcceptedPlayerType ==
    ASSUME NEW id \in PlayerId, NEW player \in Player
    PROVE  AcceptedPlayer(id, player) \in ServerMessage
BY DEF ServerMessage, AcceptedPlayer

\* for GameStarted,
LEMMA GameStartedType ==
    ASSUME NEW ps, Map(ps, PlayerId, Player) PROVE GameStarted(ps) \in ServerMessage
BY MapInMaps DEF ServerMessage, GameStarted

\* for Turn,
LEMMA TurnType ==
    ASSUME NEW info \in TurnInfo
    PROVE  Turn(info) \in ServerMessage /\ Turn(info).turn = info.turn
<1>1. info.turn \in 0 .. U16 - 1 /\ info.events \in Seq(Event)
  BY DEF TurnInfo
<1>2. Turn(info) \in [code : {"Turn"}, turn : 0 .. U16 - 1, events : Seq(Event)]
  BY <1>1 DEF Turn
<1>. QED
  BY <1>2 DEF ServerMessage, Turn

\* and for GameEnded.
LEMMA GameEndedType ==
    ASSUME NEW ss, Map(ss, PlayerId, Nat) PROVE GameEnded(ss) \in ServerMessage
BY MapInMaps DEF ServerMessage, GameEnded

\* What is sent to all, or to position 1, reaches the client at position 1.
LEMMA ForMeSent ==
    ASSUME me = 1, NEW i \in {All, 1}, NEW msgs \in Seq(ServerMessage), msgs # <<>>
    PROVE  ForMe(send_message(i, msgs)) = msgs
<1>1. DOMAIN msgs = 1 .. Len(msgs) /\ Len(msgs) \in Nat /\ Len(msgs) # 0
  BY LenProperties, EmptySeq
<1>2. send_message(i, msgs) = [k \in 1 .. Len(msgs) |-> [to |-> i, msg |-> msgs[k]]]
  BY <1>1 DEF send_message
<1>3. send_message(i, msgs) # <<>> /\ send_message(i, msgs)[1].to = i
  BY <1>1, <1>2
<1>4. /\ DOMAIN send_message(i, msgs) = 1 .. Len(msgs)
      /\ \A k \in 1 .. Len(msgs) : send_message(i, msgs)[k].msg = msgs[k]
  BY <1>2
<1>5. ForMe(send_message(i, msgs)) = [k \in DOMAIN send_message(i, msgs) |->
                                        send_message(i, msgs)[k].msg]
  BY <1>3 DEF ForMe
<1>6. ForMe(send_message(i, msgs)) = [k \in 1 .. Len(msgs) |-> msgs[k]]
  BY <1>4, <1>5
<1>. QED
  BY <1>1, <1>6, LenProperties

\* A step that sends nothing leaves the client told what it was told.
LEMMA SilentTells ==
    ASSUME NEW told, out' = <<>>, ServerTold(told)' PROVE Tells(told, <<>>)
BY DEF Tells, ForMe, Chain, LastTold

\* The greeting of a gameplay: Hello, GameStarted and every turn so far.
LEMMA GreetsInGame ==
    ASSUME EngineInv, me = 1, NEW position \in Slot, AcceptClient(position),
           gameplay_started, NEW told
    PROVE  \E c : Tells(told, c) /\ c # <<>> /\ c[1] = Hello
<1>. DEFINE n == Len(turns)
            told_turns == [k \in DOMAIN turns |-> Turn(turns[k])]
<1>0. PICK c : c = <<Hello>> \o (<<GameStarted(players)>> \o told_turns)
  OBVIOUS
<1>1. PICK ids \in Ascending(DOMAIN players) : out' = send_message(1, HelloMessages(ids))
  BY DEF AcceptClient, Slot
<1>2. HelloMessages(ids) = c
  BY <1>0 DEF HelloMessages
<1>3. /\ n = current_turn + 1 /\ current_turn \in 0 .. game_length /\ current_turn \in Nat
      /\ DOMAIN turns = 1 .. n /\ n \in Nat
      /\ \A k \in 1 .. n : turns[k] \in TurnInfo /\ turns[k].turn = k - 1
  BY GameParams, LenProperties, ElementOfSeq DEF EngineInv, TypeOK, InGameTablesAgree
<1>4. \A k \in 1 .. n : Turn(turns[k]) \in ServerMessage /\ Turn(turns[k]).turn = k - 1
  BY <1>3, TurnType
<1>5. /\ told_turns \in Seq(ServerMessage) /\ Len(told_turns) = n
      /\ \A k \in 1 .. n : told_turns[k] = Turn(turns[k])
  BY <1>3, <1>4
<1>6. Hello \in ServerMessage /\ GameStarted(players) \in ServerMessage
  BY HelloType, GameStartedType DEF EngineInv, TypeOK
<1>. HIDE DEF told_turns
<1>7. /\ c \in Seq(ServerMessage) /\ Len(c) = n + 2
      /\ c[1] = Hello /\ c[2] = GameStarted(players)
      /\ \A k \in 1 .. n : c[k + 2] = Turn(turns[k])
  BY <1>0, <1>3, <1>5, <1>6
<1>8. ForMe(out') = c /\ c # <<>>
  BY <1>1, <1>2, <1>3, <1>7, ForMeSent
<1>9. /\ ToldBy(c[1]) = InLobby({}) /\ ToldBy(c[2]) = InGame(-1)
      /\ \A k \in 1 .. n : ToldBy(c[k + 2]) = InGame(k - 1)
  <2>1. ToldBy(Hello) = InLobby({}) /\ ToldBy(GameStarted(players)) = InGame(-1)
    BY DEF ToldBy, Hello, GameStarted
  <2>2. ASSUME NEW k \in 1 .. n PROVE ToldBy(Turn(turns[k])) = InGame(k - 1)
    <3>1. Turn(turns[k]).code = "Turn" /\ Turn(turns[k]).turn = k - 1
      BY <1>4 DEF Turn
    <3>. QED
      BY <3>1 DEF ToldBy
  <2>. QED
    BY <1>7, <2>1, <2>2
<1>10. ASSUME NEW k \in DOMAIN c
       PROVE  Follows(IF k = 1 THEN told ELSE ToldBy(c[k - 1]), c[k])
  <2>. DOMAIN c = 1 .. n + 2
    BY <1>7, LenProperties
  <2>1. CASE k = 1
    BY <1>7, <2>1 DEF Follows, Hello
  <2>2. CASE k = 2
    BY <1>7, <1>9, <2>2 DEF Follows, GameStarted
  <2>3. CASE k > 2
    <3>. DEFINE j == k - 2
    <3>1. j \in 1 .. n /\ k = j + 2 /\ k # 1
      BY <1>3, <2>3
    <3>. HIDE DEF j
    <3>2. c[k] = Turn(turns[j]) /\ c[k].code = "Turn" /\ c[k].turn = j - 1
      BY <1>4, <1>7, <3>1 DEF Turn
    <3>3. ToldBy(c[k - 1]) = InGame(j - 2)
      <4>1. CASE j = 1
        BY <1>9, <3>1, <4>1
      <4>2. CASE j # 1
        <5>1. j - 1 \in 1 .. n /\ k - 1 = (j - 1) + 2 /\ (j - 1) - 1 = j - 2
          BY <3>1, <4>2
        <5>. QED
          BY <1>9, <5>1
      <4>. QED
        BY <4>1, <4>2
    <3>4. c[k].turn \in 0 .. game_length /\ j - 2 = c[k].turn - 1
      BY <1>3, <3>1, <3>2, GameParams
    <3>. QED
      BY <3>1, <3>2, <3>3, <3>4 DEF Follows
  <2>. QED
    BY <2>1, <2>2, <2>3
<1>11. PICK last : last = LastTold(told, c)
  OBVIOUS
<1>12. last = InGame(current_turn)
  <2>1. n \in 1 .. n /\ n - 1 = current_turn
    BY <1>3
  <2>2. ToldBy(c[n + 2]) = InGame(n - 1)
    BY <1>9, <2>1
  <2>. QED
    BY <1>7, <1>8, <1>11, <2>1, <2>2 DEF LastTold
<1>13. /\ gameplay_started' = gameplay_started /\ current_turn' = current_turn
       /\ phase' = "serve"
  BY DEF AcceptClient, game, lobby, log
<1>14. ServerTold(last)'
  BY <1>12, <1>13 DEF ServerTold
<1>15. Tells(told, c)
  BY <1>7, <1>8, <1>10, <1>11, <1>14 DEF Tells, Chain
<1>. QED
  BY <1>7, <1>8, <1>15

\* The greeting of the lobby: Hello and everyone who has joined.
LEMMA GreetsInLobby ==
    ASSUME EngineInv, me = 1, NEW position \in Slot, AcceptClient(position),
           ~gameplay_started, NEW told
    PROVE  \E c : Tells(told, c) /\ c # <<>> /\ c[1] = Hello
<1>. DEFINE n == next_player_id
<1>1. PICK ids \in Ascending(DOMAIN players) : out' = send_message(1, HelloMessages(ids))
  BY DEF AcceptClient, Slot
<1>. DEFINE joined == [k \in DOMAIN ids |-> AcceptedPlayer(ids[k], players[ids[k]])]
<1>2. PICK c : c = <<Hello>> \o joined
  OBVIOUS
<1>3. HelloMessages(ids) = c
  BY <1>2 DEF HelloMessages
<1>4. n \in Nat /\ n < players_count /\ n < U8 /\ DOMAIN players = 0 .. n - 1
  BY GameParams DEF EngineInv, TypeOK, IdsConsistent, PlayerId
<1>5. Len(ids) = n /\ DOMAIN ids = 1 .. n /\ \A k \in 1 .. n : ids[k] = k - 1
  BY <1>4, AscendingInterval
<1>6. ASSUME NEW k \in 1 .. n
      PROVE  /\ AcceptedPlayer(ids[k], players[ids[k]]) \in ServerMessage
             /\ AcceptedPlayer(ids[k], players[ids[k]]).code = "AcceptedPlayer"
             /\ AcceptedPlayer(ids[k], players[ids[k]]).id = k - 1
  <2>1. ids[k] = k - 1 /\ ids[k] \in PlayerId /\ ids[k] \in DOMAIN players
    <3>1. ids[k] = k - 1 /\ k - 1 \in 0 .. n - 1 /\ k - 1 \in 0 .. U8 - 1
      BY <1>4, <1>5, GameParams
    <3>. QED
      BY <1>4, <3>1 DEF PlayerId
  <2>2. players[ids[k]] \in Player
    BY <2>1 DEF EngineInv, TypeOK, Map
  <2>. QED
    BY <2>1, <2>2, AcceptedPlayerType DEF AcceptedPlayer
<1>7. /\ joined \in Seq(ServerMessage) /\ Len(joined) = n
      /\ \A k \in 1 .. n : joined[k] = AcceptedPlayer(ids[k], players[ids[k]])
  BY <1>4, <1>5, <1>6
<1>. HIDE DEF joined
<1>8. /\ c \in Seq(ServerMessage) /\ Len(c) = n + 1 /\ c[1] = Hello
      /\ \A k \in 1 .. n : c[k + 1] = AcceptedPlayer(ids[k], players[ids[k]])
  BY <1>2, <1>4, <1>7, HelloType
<1>9. ForMe(out') = c /\ c # <<>>
  BY <1>1, <1>3, <1>4, <1>8, ForMeSent
<1>10. ASSUME NEW k \in 0 .. n PROVE ToldBy(c[k + 1]) = InLobby(0 .. k - 1)
  <2>1. CASE k = 0
    <3>1. ToldBy(Hello) = InLobby({}) /\ 0 .. k - 1 = {}
      BY <2>1 DEF ToldBy, Hello
    <3>. QED
      BY <1>8, <2>1, <3>1
  <2>2. CASE k # 0
    <3>1. k \in 1 .. n
      BY <1>4, <2>2
    <3>2. c[k + 1].code = "AcceptedPlayer" /\ c[k + 1].id = k - 1
      BY <1>6, <1>8, <3>1
    <3>. QED
      BY <3>2 DEF ToldBy
  <2>. QED
    BY <2>1, <2>2
<1>11. ASSUME NEW k \in DOMAIN c
       PROVE  Follows(IF k = 1 THEN told ELSE ToldBy(c[k - 1]), c[k])
  <2>. DOMAIN c = 1 .. n + 1
    BY <1>8, LenProperties
  <2>1. CASE k = 1
    BY <1>8, <2>1 DEF Follows, Hello
  <2>2. CASE k # 1
    <3>. DEFINE j == k - 1
    <3>1. j \in 1 .. n /\ k = j + 1 /\ j - 1 \in 0 .. n /\ k - 1 = (j - 1) + 1
      BY <1>4, <2>2
    <3>. HIDE DEF j
    <3>2. c[k].code = "AcceptedPlayer" /\ c[k].id = j - 1
      BY <1>6, <1>8, <3>1
    <3>3. ToldBy(c[k - 1]) = InLobby(0 .. (j - 1) - 1)
      BY <1>10, <3>1
    <3>4. c[k].id \in 0 .. players_count - 1
      BY <1>4, <3>1, <3>2, GameParams
    <3>. QED
      BY <2>2, <3>2, <3>3, <3>4 DEF Follows
  <2>. QED
    BY <2>1, <2>2
<1>12. PICK last : last = LastTold(told, c)
  OBVIOUS
<1>13. last = InLobby(0 .. n - 1)
  <2>1. n \in 0 .. n
    BY <1>4
  <2>. QED
    BY <1>8, <1>9, <1>10, <1>12, <2>1 DEF LastTold
<1>14. gameplay_started' = gameplay_started /\ next_player_id' = next_player_id
  BY DEF AcceptClient, game, lobby
<1>15. ServerTold(last)'
  BY <1>13, <1>14 DEF ServerTold
<1>16. Tells(told, c)
  BY <1>8, <1>9, <1>11, <1>12, <1>15 DEF Tells, Chain
<1>. QED
  BY <1>8, <1>9, <1>16

\* A greeting starts the conversation over, whatever was told before.
LEMMA Greets ==
    ASSUME EngineInv, me = 1, NEW position \in Slot, AcceptClient(position), NEW told
    PROVE  \E c : Tells(told, c) /\ c # <<>> /\ c[1] = Hello
BY GreetsInGame, GreetsInLobby

\* A join is announced as the next id, and the last one starts the gameplay.
LEMMA JoinTells ==
    ASSUME EngineInv, me = 1, NEW i \in Slot, NEW player \in Player, Join(i, player),
           NEW told, ServerTold(told)
    PROVE  \E c : Tells(told, c)
<1>. DEFINE id == next_player_id
            ps == map_insert(players, id, player)
            full == Cardinality(DOMAIN ps) = players_count
<1>1. /\ ~gameplay_started /\ id \in Nat /\ id < players_count /\ id \in PlayerId
      /\ DOMAIN players = 0 .. id - 1 /\ Map(players, PlayerId, Player)
      /\ players_count \in Nat /\ players_count < U8 /\ U8 \in Nat /\ current_turn = 0
  BY GameParams DEF Join, EngineInv, TypeOK, IdsConsistent, InGameTablesAgree, PlayerId
<1>2. told = InLobby(0 .. id - 1)
  BY <1>1 DEF ServerTold
<1>3. Map(ps, PlayerId, Player) /\ DOMAIN ps = 0 .. id
  <2>1. Map(players, PlayerId, Player) /\ next_player_id \in PlayerId
    BY <1>1
  <2>2. Map(ps, PlayerId, Player)
    BY <2>1, MapInsert
  <2>3. DOMAIN ps = DOMAIN players \cup {id}
    BY DEF map_insert
  <2>4. DOMAIN players \cup {id} = 0 .. id
    BY <1>1
  <2>. QED
    BY <2>2, <2>3, <2>4
<1>4. Cardinality(DOMAIN ps) = id + 1
  BY <1>1, <1>3, FS_Interval
<1>5. next_player_id' = id + 1
  BY <1>1, ModSmall DEF Join
<1>6. /\ AcceptedPlayer(id, player) \in ServerMessage
      /\ Follows(told, AcceptedPlayer(id, player))
      /\ ToldBy(AcceptedPlayer(id, player)) = InLobby(0 .. id)
  <2>1. AcceptedPlayer(id, player).code = "AcceptedPlayer" /\ AcceptedPlayer(id, player).id = id
    BY DEF AcceptedPlayer
  <2>2. id \in 0 .. players_count - 1
    BY <1>1
  <2>. QED
    BY <1>1, <1>2, <2>1, <2>2, AcceptedPlayerType DEF Follows, ToldBy
<1>7. CASE full
  <2>1. PICK c : c = <<AcceptedPlayer(id, player), GameStarted(ps)>>
    OBVIOUS
  <2>2. /\ out' = send_message(All, <<AcceptedPlayer(id, player)>> \o <<GameStarted(ps)>>)
        /\ start_gameplay(ps) /\ current_turn' = current_turn
    BY <1>7 DEF Join, send_message_to_all
  <2>3. GameStarted(ps) \in ServerMessage /\ GameStarted(ps).code = "GameStarted"
    BY <1>3, GameStartedType DEF GameStarted
  <2>. HIDE DEF ps, full
  <2>4. /\ <<AcceptedPlayer(id, player)>> \o <<GameStarted(ps)>> = c
        /\ c \in Seq(ServerMessage) /\ c # <<>> /\ Len(c) = 2 /\ DOMAIN c = {1, 2}
        /\ c[1] = AcceptedPlayer(id, player) /\ c[2] = GameStarted(ps)
    BY <1>6, <2>1, <2>3, TwoElements
  <2>5. Follows(ToldBy(c[1]), c[2]) /\ ToldBy(c[2]) = InGame(-1)
    <3>1. id = players_count - 1
      BY <1>1, <1>4, <1>7 DEF full
    <3>. QED
      BY <1>6, <2>3, <2>4, <3>1 DEF Follows, ToldBy
  <2>6. ForMe(out') = c
    BY <2>2, <2>4, ForMeSent
  <2>7. Chain(told, c)
    BY <1>6, <2>4, <2>5 DEF Chain
  <2>8. PICK last : last = InGame(-1)
    OBVIOUS
  <2>9. last = LastTold(told, c)
    BY <2>4, <2>5, <2>8 DEF LastTold
  <2>10. gameplay_started' /\ phase' # "loop"
    BY <2>2 DEF start_gameplay
  <2>11. ServerTold(last)'
    BY <1>1, <2>2, <2>8, <2>10 DEF ServerTold
  <2>. QED
    BY <2>4, <2>6, <2>7, <2>9, <2>11 DEF Tells
<1>8. CASE ~full
  <2>1. PICK c : c = <<AcceptedPlayer(id, player)>>
    OBVIOUS
  <2>2. out' = send_message(All, <<AcceptedPlayer(id, player)>> \o <<>>)
        /\ gameplay_started' = gameplay_started
    BY <1>8 DEF Join, send_message_to_all
  <2>. HIDE DEF ps, full
  <2>3. /\ c \in Seq(ServerMessage) /\ c # <<>> /\ Len(c) = 1 /\ DOMAIN c = {1}
        /\ c[1] = AcceptedPlayer(id, player) /\ <<AcceptedPlayer(id, player)>> \o <<>> = c
    BY <1>6, <2>1
  <2>4. ForMe(out') = c
    BY <2>2, <2>3, ForMeSent
  <2>5. Chain(told, c)
    BY <1>6, <2>3 DEF Chain
  <2>6. PICK last : last = InLobby(0 .. id)
    OBVIOUS
  <2>7. last = LastTold(told, c)
    BY <1>6, <2>3, <2>6 DEF LastTold
  <2>8. ServerTold(last)'
    <3>1. next_player_id' - 1 = id
      BY <1>1, <1>5
    <3>. QED
      BY <1>1, <2>2, <2>6, <3>1 DEF ServerTold
  <2>. QED
    BY <2>3, <2>4, <2>5, <2>7, <2>8 DEF Tells
<1>. QED
  BY <1>7, <1>8

\* A closed turn is the one the client expects next or the open one it was
\* greeted with; the last one ends the gameplay.
LEMMA SummariseTells ==
    ASSUME EngineInv, me = 1, SummariseTurn, NEW told, ServerTold(told)
    PROVE  \E c : Tells(told, c)
<1>1. PICK field \in [current_players_to_destroy -> Board],
           ids \in Ascending(current_players_to_destroy) :
        LET ts == add_events(SeedEvents(ids, field))
            ss == [p \in DOMAIN scores |->
                      IF p \in current_players_to_destroy THEN scores[p] + 1 ELSE scores[p]]
        IN  /\ out' = send_message_to_all(
                          <<Turn(ts[current_turn + 1])>> \o
                          IF LastTurn THEN <<GameEnded(ss)>> ELSE <<>>)
            /\ IF LastTurn THEN end_gameplay
               ELSE UNCHANGED <<lobby, current_turn>>
  BY DEF SummariseTurn
<1>. DEFINE ts == add_events(SeedEvents(ids, field))
            ss == [p \in DOMAIN scores |->
                      IF p \in current_players_to_destroy THEN scores[p] + 1 ELSE scores[p]]
            m == Turn(ts[current_turn + 1])
<1>2. /\ gameplay_started /\ phase' = "loop"
      /\ current_turn \in Nat /\ current_turn \in 0 .. game_length
      /\ Len(turns) = current_turn + 1 /\ turns \in Seq(TurnInfo)
      /\ \A k \in DOMAIN turns : turns[k].turn = k - 1
      /\ current_players_to_destroy \subseteq PlayerId
  BY GameParams DEF SummariseTurn, EngineInv, TypeOK, InGameTablesAgree
<1>3. told \in {InGame(current_turn - 1), InGame(current_turn)}
  BY <1>2 DEF ServerTold
<1>4. /\ m \in ServerMessage /\ m.code = "Turn" /\ m.turn = current_turn
  <2>1. SeedEvents(ids, field) \in Seq(Event)
    BY <1>2, SeedEventsType
  <2>2. /\ ts \in Seq(TurnInfo) /\ Len(ts) = Len(turns)
        /\ \A k \in 1 .. Len(turns) : ts[k].turn = turns[k].turn
    BY <2>1, AddEvents DEF EngineInv
  <2>. HIDE DEF ts
  <2>3. current_turn + 1 \in 1 .. Len(turns) /\ current_turn + 1 \in DOMAIN turns
    BY <1>2, LenProperties
  <2>4. ts[current_turn + 1] \in TurnInfo /\ ts[current_turn + 1].turn = current_turn
    <3>1. ts[current_turn + 1].turn = turns[current_turn + 1].turn
      BY <2>2, <2>3
    <3>2. turns[current_turn + 1].turn = (current_turn + 1) - 1
      BY <1>2, <2>3
    <3>3. (current_turn + 1) - 1 = current_turn
      BY <1>2
    <3>4. ts[current_turn + 1] \in TurnInfo
      BY <2>2, <2>3, ElementOfSeq
    <3>. QED
      BY <3>1, <3>2, <3>3, <3>4
  <2>. QED
    BY <2>4, TurnType DEF Turn
<1>5. Map(ss, PlayerId, Nat)
  BY DEF EngineInv, TypeOK, Map
<1>6. GameEnded(ss) \in ServerMessage /\ GameEnded(ss).code = "GameEnded"
  BY <1>5, GameEndedType DEF GameEnded
<1>7. Follows(told, m) /\ ToldBy(m) = InGame(current_turn)
  BY <1>2, <1>3, <1>4 DEF Follows, ToldBy
<1>8. CASE LastTurn
  <2>1. out' = send_message(All, <<m>> \o <<GameEnded(ss)>>) /\ end_gameplay
    BY <1>1, <1>8 DEF send_message_to_all
  <2>2. PICK c : c = <<m, GameEnded(ss)>>
    OBVIOUS
  <2>. HIDE DEF m, ss
  <2>3. /\ <<m>> \o <<GameEnded(ss)>> = c
        /\ c \in Seq(ServerMessage) /\ c # <<>> /\ Len(c) = 2 /\ DOMAIN c = {1, 2}
        /\ c[1] = m /\ c[2] = GameEnded(ss)
    BY <1>4, <1>6, <2>2, TwoElements
  <2>4. Follows(ToldBy(c[1]), c[2]) /\ ToldBy(c[2]) = InLobby({})
    BY <1>6, <1>7, <1>8, <2>3 DEF Follows, ToldBy, LastTurn
  <2>5. ForMe(out') = c
    BY <2>1, <2>3, ForMeSent
  <2>6. Chain(told, c)
    BY <1>7, <2>3, <2>4 DEF Chain
  <2>7. PICK last : last = InLobby({})
    OBVIOUS
  <2>8. last = LastTold(told, c)
    BY <2>3, <2>4, <2>7 DEF LastTold
  <2>9. ServerTold(last)'
    <3>1. ~gameplay_started' /\ 0 .. next_player_id' - 1 = {}
      BY <2>1 DEF end_gameplay
    <3>. QED
      BY <2>7, <3>1 DEF ServerTold
  <2>. QED
    BY <2>3, <2>5, <2>6, <2>8, <2>9 DEF Tells
<1>9. CASE ~LastTurn
  <2>1. /\ out' = send_message(All, <<m>> \o <<>>)
        /\ gameplay_started' = gameplay_started /\ current_turn' = current_turn
    BY <1>1, <1>9 DEF send_message_to_all, lobby
  <2>2. PICK c : c = <<m>>
    OBVIOUS
  <2>. HIDE DEF m, ss
  <2>3. /\ <<m>> \o <<>> = c
        /\ c \in Seq(ServerMessage) /\ c # <<>> /\ Len(c) = 1 /\ DOMAIN c = {1}
        /\ c[1] = m
    BY <1>4, <2>2
  <2>4. ForMe(out') = c
    BY <2>1, <2>3, ForMeSent
  <2>5. Chain(told, c)
    BY <1>7, <2>3 DEF Chain
  <2>6. PICK last : last = InGame(current_turn)
    OBVIOUS
  <2>7. last = LastTold(told, c)
    BY <1>7, <2>3, <2>6 DEF LastTold
  <2>8. ServerTold(last)'
    BY <1>2, <2>1, <2>6 DEF ServerTold
  <2>. QED
    BY <2>3, <2>4, <2>5, <2>7, <2>8 DEF Tells
<1>. QED
  BY <1>8, <1>9

\* Whatever the engine does, what it sends a client at position 1 may follow
\* what it has told it, and tells it where the engine is.
LEMMA EngineTells ==
    ASSUME EngineInv, me = 1, Next, NEW told, ServerTold(told)
    PROVE  \E c : Tells(told, c)
<1>. USE DEF lobby, world, marks, log, game
<1>1. CASE BeginTurn
  <2>1. /\ gameplay_started /\ phase = "loop" /\ phase' = "bombs" /\ out' = <<>>
        /\ gameplay_started' = gameplay_started
        /\ current_turn' = (current_turn + 1) % U16
    BY <1>1 DEF BeginTurn
  <2>2. current_turn \in Nat /\ current_turn + 1 < U16 /\ U16 \in Nat
    BY <2>1, GameParams DEF EngineInv, TypeOK, PhaseAgrees
  <2>3. current_turn' = current_turn + 1 /\ current_turn' - 1 = current_turn
    BY <2>1, <2>2, ModSmall
  <2>4. ServerTold(told)'
    BY <2>1, <2>3 DEF ServerTold
  <2>. QED
    BY <2>1, <2>4, SilentTells
<1>2. ASSUME NEW b \in DOMAIN bombs, TickBomb(b) PROVE \E c : Tells(told, c)
  <2>1. out' = <<>> /\ ServerTold(told)'
    BY <1>2 DEF TickBomb, ServerTold
  <2>. QED
    BY <2>1, SilentTells
<1>3. CASE EraseBombs \/ EraseBlock \/ TurnBegun
  <2>1. out' = <<>> /\ ServerTold(told)'
    BY <1>3 DEF EraseBombs, EraseBlock, TurnBegun, ServerTold
  <2>. QED
    BY <2>1, SilentTells
<1>4. CASE PollInLobby \/ NoConnection \/ EndRound
  <2>1. out' = <<>> /\ ServerTold(told)'
    BY <1>4 DEF PollInLobby, NoConnection, EndRound, ServerTold
  <2>. QED
    BY <2>1, SilentTells
<1>5. ASSUME NEW p \in Board, SeedBlock(p) PROVE \E c : Tells(told, c)
  <2>1. out' = <<>> /\ ServerTold(told)'
    BY <1>5 DEF SeedBlock, ServerTold
  <2>. QED
    BY <2>1, SilentTells
<1>6. CASE SummariseTurn
  BY <1>6, SummariseTells
<1>7. ASSUME NEW position \in {-1} \cup Slot, AcceptClient(position)
      PROVE  \E c : Tells(told, c)
  <2>1. CASE position = -1
    <3>1. out' = <<>> /\ ServerTold(told)'
      BY <1>7, <2>1 DEF AcceptClient, ServerTold
    <3>. QED
      BY <3>1, SilentTells
  <2>2. CASE position \in Slot
    BY <1>7, <2>2, Greets
  <2>. QED
    BY <2>1, <2>2
<1>8. ASSUME NEW i \in Slot, NEW player \in Player, Join(i, player)
      PROVE  \E c : Tells(told, c)
  BY <1>8, JoinTells
<1>9. ASSUME NEW i \in Slot, JoinRefused(i) \/ ActionRefused(i) \/ ActionThrows(i)
      PROVE  \E c : Tells(told, c)
  <2>1. out' = <<>> /\ ServerTold(told)'
    BY <1>9 DEF JoinRefused, ActionRefused, ActionThrows, ServerTold, Serving
  <2>. QED
    BY <2>1, SilentTells
<1>10. ASSUME NEW i \in Slot, PlaceBomb(i) \/ PlaceBlock(i) \/ \E d \in DirectionByte : Move(i, d)
       PROVE  \E c : Tells(told, c)
  <2>1. out' = <<>> /\ ServerTold(told)'
    BY <1>10 DEF PlaceBomb, PlaceBlock, Move, Acts, ServerTold
  <2>. QED
    BY <2>1, SilentTells
<1>. QED
  BY <1>1, <1>2, <1>3, <1>4, <1>5, <1>6, <1>7, <1>8, <1>9, <1>10
     DEF Next, ServerStep, ClientStep, HandleMsg

-----------------------------------------------------------------------------
(* The conversation.                                                       *)

\* A message more at the end of a chain, and a message less at its front.
LEMMA ChainExtended ==
    ASSUME NEW s \in Seq(ServerMessage), NEW c \in Seq(ServerMessage), NEW told,
           Chain(told, s), Chain(LastTold(told, s), c)
    PROVE  Chain(told, s \o c) /\ LastTold(told, s \o c) = LastTold(LastTold(told, s), c)
<1>1. /\ Len(s) \in Nat /\ Len(c) \in Nat /\ s \o c \in Seq(ServerMessage)
      /\ Len(s \o c) = Len(s) + Len(c) /\ DOMAIN (s \o c) = 1 .. Len(s) + Len(c)
      /\ DOMAIN s = 1 .. Len(s) /\ DOMAIN c = 1 .. Len(c)
      /\ \A k \in 1 .. Len(s) + Len(c) :
            (s \o c)[k] = IF k <= Len(s) THEN s[k] ELSE c[k - Len(s)]
  BY LenProperties, ConcatProperties
<1>2. CASE s = <<>>
  BY <1>2, ConcatEmptySeq DEF LastTold
<1>3. CASE s # <<>>
  <2>0. Len(s) > 0
    BY <1>1, <1>3, EmptySeq
  <2>1. ASSUME NEW k \in 1 .. Len(s) + Len(c)
        PROVE  Follows(IF k = 1 THEN told ELSE ToldBy((s \o c)[k - 1]), (s \o c)[k])
    <3>1. CASE k <= Len(s)
      <4>1. k \in 1 .. Len(s) /\ (s \o c)[k] = s[k]
        BY <1>1, <3>1
      <4>2. k # 1 => (s \o c)[k - 1] = s[k - 1]
        BY <1>1, <3>1
      <4>. QED
        BY <1>1, <4>1, <4>2 DEF Chain
    <3>2. CASE k = Len(s) + 1
      <4>1. /\ 1 \in 1 .. Len(c) /\ k # 1 /\ (s \o c)[k] = c[1]
            /\ (s \o c)[k - 1] = s[Len(s)]
        BY <1>1, <2>0, <3>2
      <4>2. LastTold(told, s) = ToldBy(s[Len(s)])
        BY <1>3 DEF LastTold
      <4>. QED
        BY <1>1, <4>1, <4>2 DEF Chain
    <3>3. CASE k > Len(s) + 1
      <4>. DEFINE j == k - Len(s)
      <4>1. /\ j \in 1 .. Len(c) /\ j # 1 /\ k # 1 /\ (s \o c)[k] = c[j]
            /\ (s \o c)[k - 1] = c[j - 1]
        BY <1>1, <2>0, <3>3
      <4>. HIDE DEF j
      <4>. QED
        BY <1>1, <4>1 DEF Chain
    <3>. QED
      BY <1>1, <3>1, <3>2, <3>3
  <2>2. LastTold(told, s \o c) = LastTold(LastTold(told, s), c)
    <3>1. CASE c = <<>>
      BY <3>1, ConcatEmptySeq DEF LastTold
    <3>2. CASE c # <<>>
      <4>1. Len(c) > 0
        BY <1>1, <3>2, EmptySeq
      <4>2. (s \o c)[Len(s \o c)] = c[Len(c)] /\ s \o c # <<>>
        BY <1>1, <4>1, EmptySeq
      <4>. QED
        BY <3>2, <4>2 DEF LastTold
    <3>. QED
      BY <3>1, <3>2
  <2>. QED
    BY <1>1, <2>1, <2>2 DEF Chain
<1>. QED
  BY <1>2, <1>3

\* A chain without its first message is a chain from what that one told.
LEMMA ChainShortened ==
    ASSUME NEW s \in Seq(ServerMessage), s # <<>>, NEW told, Chain(told, s)
    PROVE  /\ Follows(told, Head(s)) /\ Chain(ToldBy(Head(s)), Tail(s))
           /\ LastTold(ToldBy(Head(s)), Tail(s)) = LastTold(told, s)
<1>1. /\ Len(s) \in Nat /\ Len(s) > 0 /\ DOMAIN s = 1 .. Len(s) /\ Head(s) = s[1]
      /\ Tail(s) \in Seq(ServerMessage) /\ Len(Tail(s)) = Len(s) - 1
      /\ DOMAIN Tail(s) = 1 .. Len(s) - 1
      /\ \A k \in 1 .. Len(s) - 1 : Tail(s)[k] = s[k + 1]
  BY LenProperties, EmptySeq, HeadTailProperties
<1>2. Follows(told, Head(s))
  <2>1. 1 \in DOMAIN s
    BY <1>1
  <2>. QED
    BY <1>1, <2>1 DEF Chain
<1>3. ASSUME NEW k \in 1 .. Len(s) - 1
      PROVE  Follows(IF k = 1 THEN ToldBy(Head(s)) ELSE ToldBy(Tail(s)[k - 1]), Tail(s)[k])
  <2>1. PICK j \in DOMAIN s : j # 1 /\ j - 1 = k /\ Tail(s)[k] = s[j]
    <3>1. k + 1 \in DOMAIN s /\ k + 1 # 1 /\ (k + 1) - 1 = k
      BY <1>1
    <3>. QED
      BY <1>1, <3>1
  <2>2. Follows(ToldBy(s[k]), s[j])
    BY <2>1 DEF Chain
  <2>3. CASE k = 1
    BY <1>1, <2>1, <2>2, <2>3
  <2>4. CASE k # 1
    <3>1. Tail(s)[k - 1] = s[k]
      BY <1>1, <2>4
    <3>. QED
      BY <2>1, <2>2, <2>4, <3>1
  <2>. QED
    BY <2>3, <2>4
<1>4. LastTold(ToldBy(Head(s)), Tail(s)) = LastTold(told, s)
  <2>1. CASE Tail(s) = <<>>
    <3>1. PICK t : t = Tail(s)
      OBVIOUS
    <3>2. Len(t) = 0 /\ Len(t) = Len(s) - 1
      BY <1>1, <2>1, <3>1, EmptySeq
    <3>3. \A n \in Nat : n - 1 = 0 => n = 1
      OBVIOUS
    <3>4. Len(s) = 1
      BY <1>1, <3>2, <3>3
    <3>. QED
      BY <1>1, <2>1, <3>4 DEF LastTold
  <2>2. CASE Tail(s) # <<>>
    <3>1. Len(s) - 1 > 0
      BY <1>1, <2>2, EmptySeq
    <3>2. Tail(s)[Len(Tail(s))] = s[Len(s)]
      BY <1>1, <3>1
    <3>. QED
      BY <2>2, <3>2 DEF LastTold
  <2>. QED
    BY <2>1, <2>2
<1>. QED
  BY <1>1, <1>2, <1>3, <1>4 DEF Chain

\* Conversation says that what is on its way is such a chain, in this state
\* and in the next.
LEMMA ToldAlong ==
    ASSUME NEW q \in Seq(ServerMessage), NEW told
    PROVE  /\ (IF Len(q) = 0 THEN told ELSE ToldBy(q[Len(q)])) = LastTold(told, q)
           /\ \A k \in DOMAIN q : (IF k - 1 = 0 THEN told ELSE ToldBy(q[k - 1]))
                                    = IF k = 1 THEN told ELSE ToldBy(q[k - 1])
<1>1. Len(q) \in Nat /\ DOMAIN q = 1 .. Len(q) /\ (q = <<>> <=> Len(q) = 0)
  BY LenProperties, EmptySeq
<1>2. \A k \in 1 .. Len(q) : k - 1 = 0 <=> k = 1
  BY <1>1
<1>. QED
  BY <1>1, <1>2 DEF LastTold

\* Conversation says that the queue is a chain ...
LEMMA ConversationChain ==
    ASSUME PlayInv, Following
    PROVE  Chain(ClientTold, to_client) /\ ServerTold(LastTold(ClientTold, to_client))
<1>1. to_client \in Seq(ServerMessage) /\ Conversation
  BY DEF PlayInv
<1>2. /\ ToldAt(Len(to_client)) = LastTold(ClientTold, to_client)
      /\ \A k \in DOMAIN to_client :
            ToldAt(k - 1) = IF k = 1 THEN ClientTold ELSE ToldBy(to_client[k - 1])
  BY <1>1, ToldAlong DEF ToldAt
<1>. QED
  BY <1>1, <1>2 DEF Conversation, Chain

\* ... and holds when it is.
LEMMA ConversationKept ==
    ASSUME NEW q \in Seq(ServerMessage), NEW told, NEW last,
           q = to_client', told = ClientTold',
           Chain(told, q), last = LastTold(told, q), ServerTold(last)'
    PROVE  Conversation'
<1>1. /\ ToldAt(Len(to_client))' = last
      /\ \A k \in DOMAIN to_client' :
            ToldAt(k - 1)' = IF k = 1 THEN told ELSE ToldBy(q[k - 1])
  BY ToldAlong DEF ToldAt
<1>2. \A k \in DOMAIN to_client' : Follows(ToldAt(k - 1)', to_client'[k])
  BY <1>1 DEF Chain
<1>3. ServerTold(ToldAt(Len(to_client)))'
  BY <1>1 DEF ServerTold
<1>. QED
  BY <1>2, <1>3 DEF Conversation

\* A step of the server adds to the chain what it tells.
LEMMA EngineMovesKeep ==
    ASSUME PlayInv, EngineInv, me = 1, EngineMoves, InputsTyped' PROVE PlayInv'
<1>0. Next
  BY EngineMovesAreSteps DEF PlayInv, InputsTyped
<1>1. /\ Deliver /\ UNCHANGED client_vars
      /\ accepted' = accepted \/ (~accepted /\ accepted' = TRUE /\ AcceptClient(me))
  BY DEF EngineMoves, ServerMoves, AcceptMe, ServeMe, Deliver
<1>2. /\ lobby_info' = lobby_info /\ game_info' = game_info /\ handling' = handling
      /\ client' = client /\ is_lobby_status' = is_lobby_status
  BY <1>1 DEF client_vars
<1>3. ClientTold' = ClientTold
  BY <1>2 DEF ClientTold
<1>4. /\ to_client \in Seq(ServerMessage) /\ to_client \o <<>> = to_client
      /\ "players" \in DOMAIN lobby_info' /\ "turn" \in DOMAIN game_info'
      /\ "code" \in DOMAIN handling'
  BY <1>2, ConcatEmptySeq DEF PlayInv
<1>5. CASE client # "running" \/ ~accepted'
  <2>1. to_client' = to_client
    BY <1>1, <1>4, <1>5 DEF Deliver
  <2>2. ~Following'
    BY <1>2, <1>5 DEF Following
  <2>3. ~accepted' => to_client' = <<>>
    BY <1>1, <2>1 DEF PlayInv
  <2>. QED
    BY <1>4, <2>1, <2>2, <2>3 DEF PlayInv, Conversation, InputsTyped
<1>6. CASE client = "running" /\ accepted'
  <2>0. to_client' = to_client \o ForMe(out')
    BY <1>1, <1>6 DEF Deliver
  <2>1. PICK told : told = ClientTold
    OBVIOUS
  <2>2. PICK before : before = LastTold(told, to_client)
    OBVIOUS
  <2>3. PICK c : /\ Tells(before, c) /\ Chain(told, to_client)
                 /\ ~accepted => c # <<>> /\ c[1] = Hello
    <3>1. CASE accepted
      <4>1. Chain(told, to_client) /\ ServerTold(before)
        <5>1. Following
          BY <1>6, <3>1 DEF Following
        <5>. QED
          BY <2>1, <2>2, <5>1, ConversationChain
      <4>2. \E c : Tells(before, c)
        BY <1>0, <4>1, EngineTells
      <4>. QED
        BY <3>1, <4>1, <4>2
    <3>2. CASE ~accepted
      <4>1. to_client = <<>> /\ AcceptClient(me)
        BY <1>1, <1>6, <3>2 DEF PlayInv
      <4>2. Chain(told, to_client)
        BY <4>1 DEF Chain
      <4>3. \E c : Tells(before, c) /\ c # <<>> /\ c[1] = Hello
        BY <4>1, MeAssumption, Greets
      <4>. QED
        BY <4>2, <4>3
    <3>. QED
      BY <3>1, <3>2
  <2>4. c \in Seq(ServerMessage) /\ to_client' = to_client \o c /\ Chain(before, c)
    BY <2>0, <2>3 DEF Tells
  <2>5. PICK q : q = to_client \o c
    OBVIOUS
  <2>6. PICK last : last = LastTold(before, c) /\ ServerTold(last)'
    BY <2>3 DEF Tells
  <2>7. q \in Seq(ServerMessage) /\ Chain(told, q) /\ last = LastTold(told, q)
    BY <1>4, <2>2, <2>3, <2>4, <2>5, <2>6, ChainExtended, ConcatProperties
  <2>8. Conversation'
    BY <1>3, <2>1, <2>4, <2>5, <2>6, <2>7, ConversationKept
  <2>9. ~lobby_info'.known => to_client' # <<>> /\ to_client'[1] = Hello
    <3>. SUFFICES ASSUME ~lobby_info.known PROVE q # <<>> /\ q[1] = Hello
      BY <1>2, <2>4, <2>5
    <3>1. CASE accepted
      <4>1. to_client # <<>> /\ to_client[1] = Hello
        BY <1>6, <3>1 DEF PlayInv, Following
      <4>2. Len(to_client) \in Nat /\ Len(to_client) > 0 /\ Len(c) \in Nat
        BY <1>4, <2>4, <4>1, EmptySeq, LenProperties
      <4>3. Len(q) > 0 /\ q[1] = to_client[1]
        BY <1>4, <2>4, <2>5, <4>2, ConcatProperties
      <4>. QED
        BY <4>1, <4>3, EmptySeq
    <3>2. CASE ~accepted
      <4>1. to_client = <<>>
        BY <3>2 DEF PlayInv
      <4>. QED
        BY <2>3, <2>4, <2>5, <3>2, <4>1, ConcatEmptySeq
    <3>. QED
      BY <3>1, <3>2
  <2>. QED
    BY <1>4, <1>6, <2>4, <2>5, <2>7, <2>8, <2>9 DEF PlayInv, InputsTyped
<1>. QED
  BY <1>5, <1>6

\* What the client knows when it has read a message that may follow.
LEMMA ReceiveTells ==
    ASSUME PlayInv, NEW m \in ServerMessage, Own!handle_server_message(m),
           Follows(ClientTold, m)
    PROVE  /\ ClientTold' = ToldBy(m) /\ client' = client /\ client = "running"
           /\ "players" \in DOMAIN lobby_info' /\ "turn" \in DOMAIN game_info'
           /\ "code" \in DOMAIN handling'
           /\ lobby_info.known \/ m = Hello => lobby_info'.known
<1>1. /\ client = "running" /\ handling = [code |-> "none"]
      /\ "players" \in DOMAIN lobby_info /\ "turn" \in DOMAIN game_info
  BY DEF PlayInv, Own!handle_server_message, Own!Idle, Own!Nothing
<1>. USE DEF InLobby, InGame
<1>2. CASE Own!handle_hello_msg(m)
  <2>1. /\ m.code = "Hello" /\ lobby_info' = [known |-> TRUE, players |-> <<>>]
        /\ handling' = m /\ game_info' = game_info /\ client' = client
    BY <1>2 DEF Own!handle_hello_msg, Own!Lobby_info
  <2>2. ClientTold' = InLobby({}) /\ ToldBy(m) = InLobby({})
    BY <2>1 DEF ClientTold, ToldBy
  <2>3. "code" \in DOMAIN m
    BY DEF ServerMessage, Hello
  <2>. QED
    BY <1>1, <2>1, <2>2, <2>3
<1>3. CASE Own!handle_accepted_player_msg(m)
  <2>1. /\ m.code = "AcceptedPlayer"
        /\ lobby_info' = [lobby_info EXCEPT !.players = Own!map_insert(@, m.id, m.player)]
        /\ is_lobby_status' = is_lobby_status /\ handling' = handling
        /\ game_info' = game_info /\ client' = client
    BY <1>3 DEF Own!handle_accepted_player_msg, Own!add_player
  <2>2. ClientTold = InLobby(0 .. m.id - 1) /\ m.id \in Nat
    BY <2>1, GameParams DEF Follows
  <2>3. is_lobby_status /\ DOMAIN lobby_info.players = 0 .. m.id - 1
    BY <1>1, <2>2 DEF ClientTold
  <2>4. DOMAIN lobby_info'.players = 0 .. m.id
    <3>1. lobby_info'.players = Own!map_insert(lobby_info.players, m.id, m.player)
      BY <1>1, <2>1
    <3>2. DOMAIN lobby_info'.players = DOMAIN lobby_info.players \cup {m.id}
      BY <3>1 DEF Own!map_insert
    <3>3. (0 .. m.id - 1) \cup {m.id} = 0 .. m.id
      BY <2>2
    <3>. QED
      BY <2>3, <3>2, <3>3
  <2>5. ClientTold' = InLobby(0 .. m.id) /\ ToldBy(m) = InLobby(0 .. m.id)
    BY <2>1, <2>3, <2>4 DEF ClientTold, ToldBy
  <2>6. lobby_info'.known = lobby_info.known /\ "players" \in DOMAIN lobby_info'
    BY <1>1, <2>1
  <2>. QED
    BY <1>1, <2>1, <2>5, <2>6 DEF Hello
<1>4. CASE Own!handle_game_started_msg(m)
  <2>1. /\ m.code = "GameStarted" /\ game_info'.turn = -1 /\ "turn" \in DOMAIN game_info'
        /\ is_lobby_status' = FALSE
        /\ lobby_info' = lobby_info /\ handling' = handling /\ client' = client
    BY <1>4 DEF Own!handle_game_started_msg, Own!Game_info
  <2>2. ClientTold' = InGame(-1) /\ ToldBy(m) = InGame(-1)
    BY <1>1, <2>1 DEF ClientTold, ToldBy
  <2>. QED
    BY <1>1, <2>1, <2>2 DEF Hello
<1>5. CASE Own!handle_turn_message(m)
  <2>1. /\ m.code = "Turn" /\ game_info' = [game_info EXCEPT !.turn = m.turn]
        /\ handling' = m /\ is_lobby_status' = is_lobby_status
        /\ lobby_info' = lobby_info /\ client' = client
    BY <1>5 DEF Own!handle_turn_message, Own!new_turn
  <2>2. ~is_lobby_status
    BY <2>1 DEF Follows, ClientTold
  <2>3. game_info'.turn = m.turn /\ "turn" \in DOMAIN game_info'
    BY <1>1, <2>1
  <2>4. ClientTold' = InGame(m.turn) /\ ToldBy(m) = InGame(m.turn)
    BY <2>1, <2>2, <2>3 DEF ClientTold, ToldBy
  <2>5. "code" \in DOMAIN m
    BY DEF ServerMessage, Hello
  <2>. QED
    BY <1>1, <2>1, <2>3, <2>4, <2>5 DEF Hello
<1>6. CASE Own!handle_game_ended_msg(m)
  <2>1. /\ m.code = "GameEnded" /\ lobby_info' = [lobby_info EXCEPT !.players = <<>>]
        /\ is_lobby_status' = TRUE /\ handling' = handling
        /\ game_info' = game_info /\ client' = client
    BY <1>6 DEF Own!handle_game_ended_msg, Own!clear_players
  <2>2. /\ lobby_info'.players = <<>> /\ lobby_info'.known = lobby_info.known
        /\ "players" \in DOMAIN lobby_info'
    BY <1>1, <2>1
  <2>3. ClientTold' = InLobby({}) /\ ToldBy(m) = InLobby({})
    BY <2>1, <2>2 DEF ClientTold, ToldBy
  <2>. QED
    BY <1>1, <2>1, <2>2, <2>3 DEF Hello
<1>. QED
  BY <1>2, <1>3, <1>4, <1>5, <1>6 DEF Own!handle_server_message

\* The message the client reads is the first of a chain, and a client that
\* knows nothing yet reads its greeting.
LEMMA ReceiveFollows ==
    ASSUME PlayInv, Receive
    PROVE  /\ to_client \in Seq(ServerMessage) /\ to_client # <<>>
           /\ Head(to_client) \in ServerMessage /\ Following
           /\ Follows(ClientTold, Head(to_client))
           /\ ~lobby_info.known => Head(to_client) = Hello
<1>1. /\ to_client \in Seq(ServerMessage) /\ to_client # <<>>
      /\ Own!handle_server_message(Head(to_client))
  BY DEF PlayInv, Receive
<1>2. Following
  BY <1>1 DEF Following, PlayInv, Own!handle_server_message, Own!Idle
<1>3. Head(to_client) \in ServerMessage /\ Head(to_client) = to_client[1]
  BY <1>1, HeadTailProperties
<1>4. Follows(ClientTold, Head(to_client))
  <2>1. PICK told : told = ClientTold
    OBVIOUS
  <2>2. Chain(told, to_client)
    BY <1>2, <2>1, ConversationChain
  <2>3. Follows(told, Head(to_client))
    BY <1>1, <2>2, ChainShortened
  <2>. QED
    BY <2>1, <2>3
<1>. QED
  BY <1>1, <1>2, <1>3, <1>4 DEF PlayInv

\* Reading a message keeps the invariant.
LEMMA ReceiveKeeps == ASSUME PlayInv, Receive, InputsTyped' PROVE PlayInv'
<1>1. PICK m : m = Head(to_client)
  OBVIOUS
<1>2. /\ to_client \in Seq(ServerMessage) /\ to_client # <<>>
      /\ m \in ServerMessage /\ Following /\ Follows(ClientTold, m)
      /\ ~lobby_info.known => m = Hello
  BY <1>1, ReceiveFollows
<1>3. /\ Own!handle_server_message(m) /\ to_client' = Tail(to_client)
      /\ UNCHANGED vars /\ accepted' = accepted
  BY <1>1 DEF Receive
<1>4. /\ ClientTold' = ToldBy(m) /\ client' = "running" /\ lobby_info'.known
      /\ "players" \in DOMAIN lobby_info' /\ "turn" \in DOMAIN game_info'
      /\ "code" \in DOMAIN handling'
  BY <1>2, <1>3, ReceiveTells
<1>5. PICK told : told = ClientTold
  OBVIOUS
<1>6. PICK last : last = LastTold(told, to_client)
  OBVIOUS
<1>7. Chain(told, to_client) /\ ServerTold(last)
  BY <1>2, <1>5, <1>6, ConversationChain
<1>8. PICK q : q = Tail(to_client)
  OBVIOUS
<1>9. /\ q \in Seq(ServerMessage) /\ Chain(ToldBy(m), q) /\ last = LastTold(ToldBy(m), q)
  BY <1>1, <1>2, <1>6, <1>7, <1>8, ChainShortened, HeadTailProperties
<1>10. ServerTold(last)'
  BY <1>3, <1>7 DEF ServerTold, vars, game, lobby, log
<1>11. Conversation'
  BY <1>3, <1>4, <1>8, <1>9, <1>10, ConversationKept
<1>12. accepted'
  BY <1>2, <1>3 DEF Following
<1>. QED
  BY <1>3, <1>4, <1>8, <1>9, <1>11, <1>12 DEF PlayInv, InputsTyped

\* Reading the events of a turn, and the end of a handler, change nothing in
\* what the client has been told.
LEMMA ContinueTells ==
    ASSUME PlayInv, Continue
    PROVE  /\ lobby_info' = lobby_info /\ game_info'.turn = game_info.turn
           /\ "turn" \in DOMAIN game_info' /\ "code" \in DOMAIN handling'
           /\ ClientTold' = ClientTold
           /\ client = "running" /\ client' \in {"running", "terminated"}
<1>1. "turn" \in DOMAIN game_info /\ "code" \in DOMAIN handling
  BY DEF PlayInv
<1>2. CASE Own!HelloHandled
  BY <1>1, <1>2 DEF Own!HelloHandled, Own!Nothing, ClientTold
<1>3. CASE Own!TurnHandled
  BY <1>1, <1>3 DEF Own!TurnHandled, Own!InTurn, Own!Nothing, ClientTold
<1>4. CASE Own!ReadEvent
  <2>1. /\ client = "running" /\ handling.code = "Turn"
        /\ handling' = [handling EXCEPT !.events = Tail(@)]
        /\ lobby_info' = lobby_info /\ is_lobby_status' = is_lobby_status
    BY <1>4 DEF Own!ReadEvent, Own!InTurn
  <2>2. handling'.code = "Turn" /\ "code" \in DOMAIN handling'
    BY <1>1, <2>1
  <2>3. PICK e : \/ Own!read_bomb_placed(e) \/ Own!read_bomb_exploded(e)
                 \/ Own!read_player_moved(e) \/ Own!read_block_placed(e)
    BY <1>4 DEF Own!ReadEvent
  <2>4. /\ game_info'.turn = game_info.turn /\ "turn" \in DOMAIN game_info'
        /\ client' \in {"running", "terminated"}
    <3>1. CASE Own!read_bomb_placed(e)
      BY <1>1, <2>1, <3>1 DEF Own!read_bomb_placed, Own!add_bomb
    <3>2. CASE Own!read_bomb_exploded(e)
      BY <1>1, <2>1, <3>2 DEF Own!read_bomb_exploded, Own!destroy_players
    <3>3. CASE Own!read_player_moved(e)
      BY <1>1, <2>1, <3>3 DEF Own!read_player_moved, Own!change_player_position
    <3>4. CASE Own!read_block_placed(e)
      BY <1>1, <2>1, <3>4 DEF Own!read_block_placed
    <3>. QED
      BY <2>3, <3>1, <3>2, <3>3, <3>4
  <2>5. ClientTold' = ClientTold
    BY <2>1, <2>2, <2>4 DEF ClientTold
  <2>. QED
    BY <2>1, <2>2, <2>4, <2>5
<1>. QED
  BY <1>2, <1>3, <1>4 DEF Continue

\* A step that leaves alone what is told, on both sides, keeps the invariant.
LEMMA NothingTold ==
    ASSUME PlayInv, InputsTyped', UNCHANGED <<vars, accepted, to_client>>,
           ClientTold' = ClientTold, lobby_info' = lobby_info,
           client' = "running" => client = "running",
           "turn" \in DOMAIN game_info', "code" \in DOMAIN handling'
    PROVE  PlayInv'
<1>1. CASE Following'
  <2>0. Following
    BY <1>1 DEF Following
  <2>1. PICK told : told = ClientTold
    OBVIOUS
  <2>2. PICK q : q = to_client
    OBVIOUS
  <2>3. PICK last : last = LastTold(told, q)
    OBVIOUS
  <2>4. Chain(told, q) /\ ServerTold(last) /\ q \in Seq(ServerMessage)
    BY <2>0, <2>1, <2>2, <2>3, ConversationChain DEF PlayInv
  <2>5. ServerTold(last)'
    BY <2>4 DEF ServerTold, vars, game, lobby, log
  <2>6. Conversation'
    BY <2>1, <2>2, <2>3, <2>4, <2>5, ConversationKept
  <2>. QED
    BY <2>0, <2>6 DEF PlayInv, InputsTyped, Following
<1>2. CASE ~Following'
  BY <1>2 DEF PlayInv, InputsTyped, Conversation, Following
<1>. QED
  BY <1>1, <1>2

\* One case per action.
LEMMA PlayInvStep ==
    ASSUME me = 1 PROVE PlayInv /\ EngineInv /\ [PlayNext]_play_vars => PlayInv'
<1>. SUFFICES ASSUME PlayInv, EngineInv, [PlayNext]_play_vars PROVE PlayInv'
  OBVIOUS
<1>0. InputsTyped'
  BY InputsStep DEF PlayInv, InputsTyped
<1>1. CASE EngineMoves
  BY <1>0, <1>1, EngineMovesKeep
<1>2. CASE Receive
  BY <1>0, <1>2, ReceiveKeeps
<1>3. CASE Continue
  <2>1. UNCHANGED <<vars, accepted, to_client>>
    BY <1>3 DEF Continue
  <2>. QED
    BY <1>0, <1>3, <2>1, ContinueTells, NothingTold
<1>4. CASE GuiInput \/ SendInput \/ UNCHANGED play_vars
  <2>1. /\ UNCHANGED <<vars, accepted, to_client>>
        /\ UNCHANGED <<lobby_info, game_info, handling, is_lobby_status, client>>
    BY <1>4 DEF GuiInput, SendInput, play_vars, client_vars, Own!handle_gui_message,
                Own!send_server_message, Own!server_thread
  <2>2. ClientTold' = ClientTold
    BY <2>1 DEF ClientTold
  <2>3. "turn" \in DOMAIN game_info' /\ "code" \in DOMAIN handling'
    BY <2>1 DEF PlayInv
  <2>. QED
    BY <1>0, <2>1, <2>2, <2>3, NothingTold
<1>5. CASE ClientExits
  <2>1. /\ client' = "exited" /\ to_client' = <<>>
        /\ "players" \in DOMAIN lobby_info' /\ "turn" \in DOMAIN game_info'
        /\ "code" \in DOMAIN handling'
    BY <1>5 DEF ClientExits, Own!exit_with_msg, Own!Lobby_info, Own!Game_info, Own!Nothing
  <2>2. ~Following'
    BY <2>1 DEF Following
  <2>3. to_client' \in Seq(ServerMessage)
    BY <2>1, EmptySeq
  <2>. QED
    BY <1>0, <2>1, <2>2, <2>3 DEF PlayInv, InputsTyped, Conversation
<1>. QED
  BY <1>1, <1>2, <1>3, <1>4, <1>5 DEF PlayNext, ServerThread

\* Nothing has been sent at first.
LEMMA PlayInvInit == PlayInit => PlayInv
<1>. SUFFICES ASSUME PlayInit PROVE PlayInv
  OBVIOUS
<1>1. /\ accepted = FALSE /\ to_client = <<>> /\ to_server = <<>>
      /\ input = Own!Nothing /\ handling = [code |-> "none"]
      /\ "players" \in DOMAIN lobby_info /\ "turn" \in DOMAIN game_info
  BY DEF PlayInit, Own!ClientInit, Own!Lobby_info, Own!Game_info, Own!Nothing
<1>2. to_client \in Seq(ServerMessage) /\ to_server \in Seq(SentByClient)
  BY <1>1, EmptySeq
<1>3. ~Following
  BY <1>1 DEF Following
<1>. QED
  BY <1>1, <1>2, <1>3 DEF PlayInv, Conversation

\* The inductive invariant holds of a client at position 1.
THEOREM PlayInvariant == ASSUME me = 1 PROVE PlaySpec => []PlayInv
BY PlayInvInit, PlayInvStep, PlayKeepsEngineInv, PTL DEF PlaySpec

\* Whatever is on its way to the client continues what the client has been
\* told, and after it the client knows what the server thinks it knows.
THEOREM ConversationHolds == ASSUME me = 1 PROVE PlaySpec => []Conversation
<1>1. PlayInv => Conversation
  BY DEF PlayInv
<1>. QED
  BY <1>1, PlayInvariant, PTL

\* A client that has read everything turns inputs into Join exactly when the
\* server is in the lobby.
THEOREM StatusIsRight == ASSUME me = 1 PROVE PlaySpec => []StatusFollowsServer
<1>1. PlayInv => StatusFollowsServer
  <2>. SUFFICES ASSUME PlayInv, Drained PROVE is_lobby_status <=> ~gameplay_started
    BY DEF StatusFollowsServer
  <2>1. ServerTold(ClientTold)
    <3>1. Following /\ to_client = <<>>
      BY DEF Drained
    <3>. QED
      BY <3>1, ConversationChain DEF LastTold
  <2>2. handling.code = "none"
    BY DEF Drained, Own!Nothing
  <2>3. CASE is_lobby_status
    <3>1. ClientTold.stage = "lobby"
      BY <2>3 DEF ClientTold, InLobby
    <3>. QED
      BY <2>1, <2>3, <3>1 DEF ServerTold, InGame
  <2>4. CASE ~is_lobby_status
    <3>1. ClientTold.stage = "game"
      BY <2>2, <2>4 DEF ClientTold, InGame
    <3>. QED
      BY <2>1, <2>4, <3>1 DEF ServerTold, InLobby
  <2>. QED
    BY <2>3, <2>4
<1>. QED
  BY <1>1, PlayInvariant, PTL

-----------------------------------------------------------------------------
(* The protocol.                                                           *)

\* A message the client reads is a step of Protocol; a turn told twice is
\* none.
LEMMA ReceiveRefines ==
    ASSUME PlayInv, Receive
    PROVE  [Promised!Next]_<<Stage, DOMAIN lobby_info.players, game_info.turn>>
<1>1. PICK m : m = Head(to_client)
  OBVIOUS
<1>2. /\ m \in ServerMessage /\ Follows(ClientTold, m)
      /\ ~lobby_info.known => m = Hello
  BY <1>1, ReceiveFollows
<1>3. Own!handle_server_message(m)
  BY <1>1 DEF Receive
<1>4. /\ ClientTold' = ToldBy(m) /\ client' = "running" /\ client = "running"
      /\ lobby_info'.known
      /\ "players" \in DOMAIN lobby_info /\ "turn" \in DOMAIN game_info
      /\ handling.code = "none"
  BY <1>2, <1>3, ReceiveTells DEF PlayInv, Own!handle_server_message, Own!Idle, Own!Nothing
<1>5. Stage # "gone" /\ Stage' = ToldBy(m).stage
  BY <1>4 DEF Stage, ClientTold, InLobby, InGame
<1>6. m # Hello => lobby_info.known /\ Stage = ClientTold.stage
  BY <1>2, <1>4 DEF Stage
<1>7. CASE Own!handle_hello_msg(m)
  <2>1. Stage' = "lobby" /\ DOMAIN lobby_info'.players = {} /\ game_info' = game_info
    BY <1>5, <1>7 DEF Own!handle_hello_msg, Own!Lobby_info, ToldBy, InLobby
  <2>2. Promised!Greet
    BY <1>5, <2>1 DEF Promised!Greet
  <2>. QED
    BY <2>2 DEF Promised!Next
<1>8. CASE Own!handle_accepted_player_msg(m)
  <2>1. m.code = "AcceptedPlayer" /\ game_info' = game_info /\ m # Hello
    BY <1>8 DEF Own!handle_accepted_player_msg, Hello
  <2>2. /\ m.id \in 0 .. players_count - 1 /\ ClientTold = InLobby(0 .. m.id - 1)
        /\ ToldBy(m) = InLobby(0 .. m.id)
    BY <1>2, <2>1 DEF Follows, ToldBy
  <2>3. Stage = "lobby" /\ Stage' = "lobby"
    BY <1>5, <1>6, <2>1, <2>2 DEF InLobby
  <2>4. DOMAIN lobby_info.players = 0 .. m.id - 1 /\ DOMAIN lobby_info'.players = 0 .. m.id
    BY <1>4, <2>2 DEF ClientTold, InLobby, InGame
  <2>5. Promised!Announce(m.id)
    BY <2>1, <2>3, <2>4 DEF Promised!Announce
  <2>. QED
    BY <2>2, <2>5 DEF Promised!Next, Promised!Ids
<1>9. CASE Own!handle_game_started_msg(m)
  <2>1. /\ m.code = "GameStarted" /\ lobby_info' = lobby_info /\ game_info'.turn = -1
        /\ m # Hello
    BY <1>9 DEF Own!handle_game_started_msg, Own!Game_info, Hello
  <2>2. /\ ClientTold \in {InLobby({}), InLobby(0 .. players_count - 1)}
        /\ ToldBy(m) = InGame(-1)
    BY <1>2, <2>1 DEF Follows, ToldBy
  <2>3. Stage = "lobby" /\ Stage' = "game"
    BY <1>5, <1>6, <2>1, <2>2 DEF InLobby, InGame
  <2>4. DOMAIN lobby_info.players \in {{}, 0 .. players_count - 1}
    BY <2>2 DEF ClientTold, InLobby, InGame
  <2>5. Promised!Start
    BY <2>1, <2>3, <2>4 DEF Promised!Start, Promised!Ids
  <2>. QED
    BY <2>5 DEF Promised!Next
<1>10. CASE Own!handle_turn_message(m)
  <2>1. m.code = "Turn" /\ lobby_info' = lobby_info /\ m # Hello
    BY <1>10 DEF Own!handle_turn_message, Hello
  <2>2. game_info'.turn = m.turn
    BY <1>4, <1>10 DEF Own!handle_turn_message, Own!new_turn
  <2>3. /\ ClientTold \in {InGame(m.turn - 1), InGame(m.turn)} /\ ToldBy(m) = InGame(m.turn)
        /\ m.turn \in 0 .. game_length
    BY <1>2, <2>1 DEF Follows, ToldBy
  <2>4. Stage = "game" /\ Stage' = "game"
    BY <1>5, <1>6, <2>1, <2>3 DEF InGame
  <2>5. game_info.turn \in {m.turn - 1, m.turn}
    BY <2>3 DEF ClientTold, InLobby, InGame
  <2>6. CASE game_info.turn = m.turn - 1
    <3>1. game_info.turn < game_length /\ game_info'.turn = game_info.turn + 1
      BY <2>2, <2>3, <2>6, GameParams
    <3>2. Promised!Advance
      BY <2>1, <2>4, <3>1 DEF Promised!Advance
    <3>. QED
      BY <3>2 DEF Promised!Next
  <2>7. CASE game_info.turn = m.turn
    BY <2>1, <2>2, <2>4, <2>7
  <2>. QED
    BY <2>5, <2>6, <2>7
<1>11. CASE Own!handle_game_ended_msg(m)
  <2>1. /\ m.code = "GameEnded" /\ game_info' = game_info /\ m # Hello
        /\ DOMAIN lobby_info'.players = {}
    BY <1>4, <1>11 DEF Own!handle_game_ended_msg, Own!clear_players, Hello
  <2>2. ClientTold = InGame(game_length) /\ ToldBy(m) = InLobby({})
    BY <1>2, <2>1 DEF Follows, ToldBy
  <2>3. Stage = "game" /\ Stage' = "lobby" /\ game_info.turn = game_length
    BY <1>5, <1>6, <2>1, <2>2 DEF ClientTold, InLobby, InGame
  <2>4. Promised!End
    BY <2>1, <2>3 DEF Promised!End
  <2>. QED
    BY <2>4 DEF Promised!Next
<1>. QED
  BY <1>3, <1>7, <1>8, <1>9, <1>10, <1>11 DEF Own!handle_server_message

\* Every step is a step of Protocol or leaves its variables alone.
LEMMA ProtocolStep ==
    PlayInv /\ [PlayNext]_play_vars
        => [Promised!Next]_<<Stage, DOMAIN lobby_info.players, game_info.turn>>
<1>. SUFFICES ASSUME PlayInv, [PlayNext]_play_vars
              PROVE  [Promised!Next]_<<Stage, DOMAIN lobby_info.players, game_info.turn>>
  OBVIOUS
<1>1. CASE EngineMoves \/ GuiInput \/ SendInput \/ UNCHANGED play_vars
  <2>1. UNCHANGED <<lobby_info, game_info, handling, is_lobby_status, client>>
    BY <1>1 DEF EngineMoves, ServerMoves, AcceptMe, ServeMe, Deliver, GuiInput, SendInput,
                play_vars, client_vars, Own!handle_gui_message, Own!send_server_message,
                Own!server_thread
  <2>. QED
    BY <2>1 DEF Stage, ClientTold
<1>2. CASE Receive
  BY <1>2, ReceiveRefines
<1>3. CASE Continue
  <2>1. /\ lobby_info' = lobby_info /\ game_info'.turn = game_info.turn
        /\ ClientTold' = ClientTold
        /\ client = "running" /\ client' \in {"running", "terminated"}
    BY <1>3, ContinueTells
  <2>2. CASE client' = "running"
    BY <2>1, <2>2 DEF Stage
  <2>3. CASE client' = "terminated"
    <3>1. Stage' = "gone" /\ Stage # "gone"
      BY <2>1, <2>3 DEF Stage, ClientTold, InLobby, InGame
    <3>2. Promised!Leave
      BY <2>1, <3>1 DEF Promised!Leave
    <3>. QED
      BY <3>2 DEF Promised!Next
  <2>. QED
    BY <2>1, <2>2, <2>3
<1>4. CASE ClientExits
  <2>1. /\ client = "running" /\ client' = "exited"
        /\ DOMAIN lobby_info'.players = {} /\ game_info'.turn = -1
    BY <1>4 DEF ClientExits, Own!exit_with_msg, Own!Lobby_info, Own!Game_info
  <2>2. Stage' = "gone" /\ Stage # "gone"
    BY <2>1 DEF Stage, ClientTold, InLobby, InGame
  <2>3. Promised!Leave
    BY <2>1, <2>2 DEF Promised!Leave
  <2>. QED
    BY <2>3 DEF Promised!Next
<1>. QED
  BY <1>1, <1>2, <1>3, <1>4 DEF PlayNext, ServerThread

\* The server, the connection and the client together implement Protocol: the
\* client reads greetings, players, turns and the end of a gameplay in the
\* order that is promised.
THEOREM ProtocolIsKept == ASSUME me = 1 PROVE PlaySpec => ProtocolKept
<1>1. PlayInit => Promised!Init
  <2>. SUFFICES ASSUME PlayInit PROVE Promised!Init
    OBVIOUS
  <2>1. /\ client = "running" /\ ~lobby_info.known
        /\ DOMAIN lobby_info.players = {} /\ game_info.turn = -1
    BY DEF PlayInit, Own!ClientInit, Own!Lobby_info, Own!Game_info
  <2>. QED
    BY <2>1 DEF Promised!Init, Stage
<1>. QED
  BY <1>1, PlayInvariant, ProtocolStep, PTL DEF PlaySpec, ProtocolKept, Promised!Spec

-----------------------------------------------------------------------------
(* The sets of positions that the client folds a list into.                *)

\* Max of a non-empty set of indices is one of them.
LEMMA MaxIndex ==
    ASSUME NEW n \in Nat, NEW s \in SUBSET (1 .. n), s # {} PROVE Own!Max(s) \in s
<1>. DEFINE U == {u \in Nat : \A y \in s : y <= u}
<1>1. n \in U
  OBVIOUS
<1>2. PICK m \in U : \A u \in U : m <= u
  BY <1>1, LeastElement
<1>3. PICK z \in s : TRUE
  OBVIOUS
<1>4. m \in s
  <2>1. SUFFICES ASSUME m \notin s PROVE FALSE
    OBVIOUS
  <2>2. m \in Nat /\ \A y \in s : y \in Nat /\ y >= 1 /\ y <= m /\ y # m
    BY <1>2, <2>1
  <2>3. m - 1 \in Nat /\ \A y \in s : y <= m - 1
    BY <1>3, <2>2
  <2>. QED
    BY <1>2, <2>2, <2>3
<1>5. \E x \in s : \A y \in s : x >= y
  BY <1>2, <1>4
<1>. QED
  BY <1>5 DEF Own!Max

\* The function g on the subsets of 1 .. n folds F, from b, over them.
FoldsFrom(g, n, b, F) ==
    \A s \in SUBSET (1 .. n) :
        g[s] = IF s = {} THEN b ELSE F[<<Own!Max(s), g[s \ {Own!Max(s)}]>>]

\* A function on the subsets of 1 .. n that is defined, from the empty set on,
\* by its value without the maximum exists, when each of its values lies in T.
LEMMA FoldExists ==
    ASSUME NEW n \in Nat, NEW T, NEW b \in T,
           NEW F \in [(1 .. n) \X T -> T]
    PROVE  \E g \in [SUBSET (1 .. n) -> T] : FoldsFrom(g, n, b, F)
<1>. DEFINE Small(k) == {s \in SUBSET (1 .. n) : Cardinality(s) <= k}
            Fits(g, k) == \A s \in Small(k) :
                g[s] = IF s = {} THEN b ELSE F[<<Own!Max(s), g[s \ {Own!Max(s)}]>>]
            Missing == {k \in Nat : \A g \in [Small(k) -> T] : ~Fits(g, k)}
<1>1. ASSUME NEW s \in SUBSET (1 .. n)
      PROVE  /\ Cardinality(s) \in 0 .. n
             /\ s # {} => /\ Own!Max(s) \in 1 .. n
                          /\ s \ {Own!Max(s)} \in SUBSET (1 .. n)
                          /\ Cardinality(s \ {Own!Max(s)}) = Cardinality(s) - 1
             /\ Cardinality(s) = 0 => s = {}
  <2>1. IsFiniteSet(1 .. n) /\ Cardinality(1 .. n) = n
    BY FS_Interval
  <2>2. IsFiniteSet(s) /\ Cardinality(s) <= n /\ Cardinality(s) \in Nat
    <3>1. s \subseteq 1 .. n
      OBVIOUS
    <3>2. IsFiniteSet(s) /\ Cardinality(s) <= Cardinality(1 .. n)
      BY <2>1, <3>1, FS_Subset
    <3>. QED
      BY <2>1, <3>2, FS_CardinalityType
  <2>3. ASSUME s # {} PROVE Own!Max(s) \in s
    BY <2>3, MaxIndex
  <2>4. ASSUME s # {} PROVE Cardinality(s \ {Own!Max(s)}) = Cardinality(s) - 1
    BY <2>2, <2>3, <2>4, FS_RemoveElement
  <2>5. Cardinality(s) = 0 => s = {}
    BY <2>2, FS_EmptySet
  <2>6. Cardinality(s) \in 0 .. n
    BY <2>2
  <2>7. s # {} => Own!Max(s) \in 1 .. n /\ s \ {Own!Max(s)} \in SUBSET (1 .. n)
    BY <2>3
  <2>. QED
    BY <2>4, <2>5, <2>6, <2>7
<1>2. 0 \notin Missing
  <2>1. PICK g : g = [s \in Small(0) |-> b]
    OBVIOUS
  <2>2. g \in [Small(0) -> T] /\ Fits(g, 0)
    BY <1>1, <2>1
  <2>. QED
    BY <2>2
<1>3. ASSUME NEW k \in Nat, k \notin Missing PROVE k + 1 \notin Missing
  <2>1. PICK g \in [Small(k) -> T] : Fits(g, k)
    BY <1>3
  <2>2. PICK h : h = [s \in Small(k + 1) |->
                        IF s = {} THEN b ELSE F[<<Own!Max(s), g[s \ {Own!Max(s)}]>>]]
    OBVIOUS
  <2>3. ASSUME NEW s \in Small(k + 1), s # {}
        PROVE  s \ {Own!Max(s)} \in Small(k) /\ Own!Max(s) \in 1 .. n
    BY <1>1, <2>3
  <2>4. h \in [Small(k + 1) -> T]
    <3>1. ASSUME NEW s \in Small(k + 1), s # {}
          PROVE  F[<<Own!Max(s), g[s \ {Own!Max(s)}]>>] \in T
      <4>1. g[s \ {Own!Max(s)}] \in T /\ Own!Max(s) \in 1 .. n
        BY <2>1, <2>3, <3>1
      <4>. QED
        BY <4>1
    <3>. QED
      BY <2>2, <3>1
  <2>5. ASSUME NEW s \in Small(k) PROVE s \in Small(k + 1) /\ h[s] = g[s]
    <3>1. s \in SUBSET (1 .. n) /\ Cardinality(s) <= k /\ Cardinality(s) \in 0 .. n
      BY <1>1
    <3>2. Cardinality(s) <= k + 1
      BY <3>1
    <3>3. s \in Small(k + 1)
      BY <3>1, <3>2
    <3>. QED
      BY <2>1, <2>2, <3>3
  <2>6. Fits(h, k + 1)
    BY <2>2, <2>3, <2>5
  <2>. QED
    BY <2>4, <2>6
<1>4. n \notin Missing
  <2>1. SUFFICES ASSUME n \in Missing PROVE FALSE
    OBVIOUS
  <2>2. PICK k \in Missing : \A j \in Missing : k <= j
    <3>. HIDE DEF Small, Fits
    <3>. QED
      BY <2>1, LeastElement
  <2>3. k \in Nat /\ k # 0
    BY <1>2, <2>2
  <2>. HIDE DEF Missing
  <2>4. k - 1 \in Nat /\ k - 1 \notin Missing /\ (k - 1) + 1 = k
    BY <2>2, <2>3
  <2>. QED
    BY <1>3, <2>2, <2>4
<1>5. Small(n) = SUBSET (1 .. n)
  <2>1. ASSUME NEW s \in SUBSET (1 .. n) PROVE Cardinality(s) <= n
    <3>1. Cardinality(s) \in 0 .. n
      BY <1>1
    <3>. QED
      BY <3>1
  <2>. QED
    BY <2>1
<1>6. PICK g \in [Small(n) -> T] : Fits(g, n)
  BY <1>4
<1>. QED
  BY <1>5, <1>6 DEF FoldsFrom

\* The value of such a function lies in T.
LEMMA FoldTyped ==
    ASSUME NEW n \in Nat, NEW T, NEW f,
           f[{}] \in T,
           \A s \in SUBSET (1 .. n) : s # {} /\ f[s \ {Own!Max(s)}] \in T => f[s] \in T
    PROVE  f[1 .. n] \in T
<1>. DEFINE Bad == {k \in Nat : \E s \in SUBSET (1 .. n) : Cardinality(s) = k /\ f[s] \notin T}
<1>1. SUFFICES ASSUME f[1 .. n] \notin T PROVE FALSE
  OBVIOUS
<1>2. IsFiniteSet(1 .. n) /\ Cardinality(1 .. n) \in Nat
  BY FS_Interval
<1>3. Cardinality(1 .. n) \in Bad
  BY <1>1, <1>2
<1>4. PICK k \in Bad : \A j \in Bad : k <= j
  BY <1>3, LeastElement
<1>5. PICK s \in SUBSET (1 .. n) : Cardinality(s) = k /\ f[s] \notin T
  BY <1>4
<1>6. s # {} /\ IsFiniteSet(s)
  BY <1>2, <1>5, FS_Subset
<1>7. Own!Max(s) \in s
  BY <1>6, MaxIndex
<1>8. PICK t : t = s \ {Own!Max(s)}
  OBVIOUS
<1>9. Cardinality(t) = k - 1 /\ Cardinality(t) \in Nat /\ t \in SUBSET (1 .. n) /\ k \in Nat
  BY <1>5, <1>6, <1>7, <1>8, FS_RemoveElement, FS_CardinalityType
<1>10. f[t] \notin T
  BY <1>5, <1>6, <1>8
<1>11. k - 1 \in Bad
  BY <1>9, <1>10
<1>. QED
  BY <1>4, <1>9, <1>11

\* read_position_list makes a set of positions of a list of positions,
\* whatever the shapes of its trees.
LEMMA ReadListTyped ==
    ASSUME NEW ps \in Seq(Position), NEW t \in Own!read_position_list(ps)
    PROVE  t \in Seq(Position)
<1>0. PICK Sets : Sets = SUBSET Seq(Position)
  OBVIOUS
<1>. DEFINE n == Len(ps)
            Op(m, S) == UNION {Own!insert(u, ps[m]) : u \in S}
            F == [x \in (1 .. n) \X Sets |-> Op(x[1], x[2])]
            Equation(g) == g = [s \in SUBSET (1 .. n) |->
                                  IF s = {} THEN {<<>>}
                                  ELSE Op(Own!Max(s), g[s \ {Own!Max(s)}])]
            fold == CHOOSE g : Equation(g)
<1>1. n \in Nat /\ DOMAIN ps = 1 .. n /\ {<<>>} \in Sets
  BY <1>0
<1>2. Own!read_position_list(ps) = fold[1 .. n]
  BY <1>1 DEF Own!read_position_list, Own!FoldLeft, Own!MapThenFoldSet
<1>3. ASSUME NEW m \in 1 .. n, NEW S \in Sets PROVE Op(m, S) \in Sets
  <2>1. ASSUME NEW u \in S, NEW v \in Own!insert(u, ps[m]) PROVE v \in Seq(Position)
    <3>1. ps[m] \in Position /\ u \in Seq(Position)
      BY <1>0, <1>1
    <3>2. v \in insert(u, ps[m])
      BY DEF Own!insert, Own!UpperBounds, Own!Less, insert, UpperBounds, Less
    <3>. QED
      BY <3>1, <3>2, InsertType
  <2>. QED
    BY <1>0, <2>1
<1>. HIDE DEF Op
<1>4. F \in [(1 .. n) \X Sets -> Sets]
  BY <1>3
<1>5. PICK g \in [SUBSET (1 .. n) -> Sets] : FoldsFrom(g, n, {<<>>}, F)
  <2>. HIDE DEF F, n
  <2>. QED
    BY <1>1, <1>4, FoldExists
<1>6. Equation(g)
  <2>1. ASSUME NEW s \in SUBSET (1 .. n), s # {}
        PROVE  F[<<Own!Max(s), g[s \ {Own!Max(s)}]>>] = Op(Own!Max(s), g[s \ {Own!Max(s)}])
    <3>1. Own!Max(s) \in 1 .. n
      BY <1>1, <2>1, MaxIndex
    <3>2. g[s \ {Own!Max(s)}] \in Sets
      BY <1>5
    <3>. QED
      BY <3>1, <3>2
  <2>. QED
    BY <1>5, <2>1 DEF FoldsFrom
<1>7. Equation(fold)
  BY <1>6
<1>. HIDE DEF fold
<1>8. fold[{}] \in Sets
  BY <1>1, <1>7
<1>9. ASSUME NEW s \in SUBSET (1 .. n), s # {}, fold[s \ {Own!Max(s)}] \in Sets
      PROVE  fold[s] \in Sets
  <2>1. fold[s] = Op(Own!Max(s), fold[s \ {Own!Max(s)}])
    BY <1>7, <1>9
  <2>2. Own!Max(s) \in 1 .. n
    BY <1>1, <1>9, MaxIndex
  <2>. QED
    BY <1>3, <1>9, <2>1, <2>2
<1>10. fold[1 .. n] \in Sets
  <2>. HIDE DEF n
  <2>. QED
    BY <1>1, <1>8, <1>9, FoldTyped
<1>. QED
  BY <1>0, <1>2, <1>10

\* remove_blocks makes one of the client's blocks.
LEMMA RemoveBlocksTyped ==
    ASSUME game_info.blocks \in Seq(Position),
           NEW ps \in Seq(Position), NEW t \in Own!remove_blocks(ps)
    PROVE  t \in Seq(Position)
<1>0. PICK Sets : Sets = SUBSET Seq(Position)
  OBVIOUS
<1>. DEFINE n == Len(ps)
            Op(m, S) == UNION {Own!erase(u, ps[m]) : u \in S}
            F == [x \in (1 .. n) \X Sets |-> Op(x[1], x[2])]
            Equation(g) == g = [s \in SUBSET (1 .. n) |->
                                  IF s = {} THEN {game_info.blocks}
                                  ELSE Op(Own!Max(s), g[s \ {Own!Max(s)}])]
            fold == CHOOSE g : Equation(g)
<1>1. n \in Nat /\ DOMAIN ps = 1 .. n /\ {game_info.blocks} \in Sets
  BY <1>0
<1>2. Own!remove_blocks(ps) = fold[1 .. n]
  BY <1>1 DEF Own!remove_blocks, Own!FoldLeft, Own!MapThenFoldSet
<1>3. ASSUME NEW m \in 1 .. n, NEW S \in Sets PROVE Op(m, S) \in Sets
  <2>1. ASSUME NEW u \in S, NEW v \in Own!erase(u, ps[m]) PROVE v \in Seq(Position)
    <3>1. u \in Seq(Position)
      BY <1>0
    <3>2. v \in erase(u, ps[m])
      BY DEF Own!erase, Own!EqualRanges, Own!LowerBounds, Own!UpperBounds, Own!Less,
             Own!Equivalent, Own!MayMiss,
             erase, EqualRanges, LowerBounds, UpperBounds, Less, Equivalent, MayMiss
    <3>. QED
      BY <3>1, <3>2, EraseType
  <2>. QED
    BY <1>0, <2>1
<1>. HIDE DEF Op
<1>4. F \in [(1 .. n) \X Sets -> Sets]
  BY <1>3
<1>5. PICK g \in [SUBSET (1 .. n) -> Sets] : FoldsFrom(g, n, {game_info.blocks}, F)
  <2>. HIDE DEF F, n
  <2>. QED
    BY <1>1, <1>4, FoldExists
<1>6. Equation(g)
  <2>1. ASSUME NEW s \in SUBSET (1 .. n), s # {}
        PROVE  F[<<Own!Max(s), g[s \ {Own!Max(s)}]>>] = Op(Own!Max(s), g[s \ {Own!Max(s)}])
    <3>1. Own!Max(s) \in 1 .. n
      BY <1>1, <2>1, MaxIndex
    <3>2. g[s \ {Own!Max(s)}] \in Sets
      BY <1>5
    <3>. QED
      BY <3>1, <3>2
  <2>. QED
    BY <1>5, <2>1 DEF FoldsFrom
<1>7. Equation(fold)
  BY <1>6
<1>. HIDE DEF fold
<1>8. fold[{}] \in Sets
  BY <1>1, <1>7
<1>9. ASSUME NEW s \in SUBSET (1 .. n), s # {}, fold[s \ {Own!Max(s)}] \in Sets
      PROVE  fold[s] \in Sets
  <2>1. fold[s] = Op(Own!Max(s), fold[s \ {Own!Max(s)}])
    BY <1>7, <1>9
  <2>2. Own!Max(s) \in 1 .. n
    BY <1>1, <1>9, MaxIndex
  <2>. QED
    BY <1>3, <1>9, <2>1, <2>2
<1>10. fold[1 .. n] \in Sets
  <2>. HIDE DEF n
  <2>. QED
    BY <1>1, <1>8, <1>9, FoldTyped
<1>. QED
  BY <1>0, <1>2, <1>10

-----------------------------------------------------------------------------
(* The types of what the client keeps, wherever it sits.                   *)

\* The server sends nothing, or messages of its protocol.
SendsMessages ==
    out' = <<>> \/ \E i, msgs : msgs \in Seq(ServerMessage) /\ out' = send_message(i, msgs)

\* A greeting consists of such messages,
LEMMA GreetingSendsMessages ==
    ASSUME EngineInv, NEW position \in Slot, AcceptClient(position) PROVE SendsMessages
<1>1. PICK ids \in Ascending(DOMAIN players) : out' = send_message(1, HelloMessages(ids))
  BY DEF AcceptClient, Slot
<1>2. /\ turns \in Seq(TurnInfo) /\ Map(players, PlayerId, Player)
      /\ DOMAIN turns = 1 .. Len(turns) /\ Len(turns) \in Nat
  BY LenProperties DEF EngineInv, TypeOK
<1>3. CASE gameplay_started
  <2>. DEFINE told_turns == [k \in DOMAIN turns |-> Turn(turns[k])]
  <2>1. ASSUME NEW k \in DOMAIN turns PROVE Turn(turns[k]) \in ServerMessage
    BY <1>2, TurnType, ElementOfSeq
  <2>2. told_turns \in Seq(ServerMessage)
    BY <1>2, <2>1
  <2>3. Hello \in ServerMessage /\ GameStarted(players) \in ServerMessage
    BY <1>2, HelloType, GameStartedType
  <2>. HIDE DEF told_turns
  <2>4. <<Hello>> \o (<<GameStarted(players)>> \o told_turns) \in Seq(ServerMessage)
    BY <2>2, <2>3
  <2>5. HelloMessages(ids) = <<Hello>> \o (<<GameStarted(players)>> \o told_turns)
    BY <1>3 DEF HelloMessages, told_turns
  <2>. QED
    BY <1>1, <2>4, <2>5 DEF SendsMessages
<1>4. CASE ~gameplay_started
  <2>. DEFINE joined == [k \in DOMAIN ids |-> AcceptedPlayer(ids[k], players[ids[k]])]
  <2>1. ids \in Seq(DOMAIN players) /\ DOMAIN ids = 1 .. Len(ids)
    BY <1>2, PlayerIdsFinite, AscendingIsSeq DEF Map
  <2>2. ASSUME NEW k \in DOMAIN ids
        PROVE  AcceptedPlayer(ids[k], players[ids[k]]) \in ServerMessage
    <3>1. ids[k] \in DOMAIN players
      BY <2>1, ElementOfSeq
    <3>2. ids[k] \in PlayerId /\ players[ids[k]] \in Player
      BY <1>2, <3>1 DEF Map
    <3>. QED
      BY <3>2, AcceptedPlayerType
  <2>3. joined \in Seq(ServerMessage)
    <3>1. Len(ids) \in Nat
      BY <2>1, LenProperties
    <3>. QED
      BY <2>1, <2>2, <3>1
  <2>. HIDE DEF joined
  <2>4. <<Hello>> \o joined \in Seq(ServerMessage)
    BY <2>3, HelloType
  <2>5. HelloMessages(ids) = <<Hello>> \o joined
    BY <1>4 DEF HelloMessages, joined
  <2>. QED
    BY <1>1, <2>4, <2>5 DEF SendsMessages
<1>. QED
  BY <1>3, <1>4

\* so does what a join makes known,
LEMMA JoinSendsMessages ==
    ASSUME EngineInv, NEW i \in Slot, NEW player \in Player, Join(i, player)
    PROVE  SendsMessages
<1>. DEFINE id == next_player_id
<1>1. PICK ps : ps = map_insert(players, id, player)
  OBVIOUS
<1>2. id \in PlayerId /\ Map(players, PlayerId, Player)
  BY DEF EngineInv, TypeOK
<1>3. Map(ps, PlayerId, Player)
  BY <1>1, <1>2, MapInsert
<1>4. AcceptedPlayer(id, player) \in ServerMessage /\ GameStarted(ps) \in ServerMessage
  BY <1>2, <1>3, AcceptedPlayerType, GameStartedType
<1>5. \/ out' = send_message(All, <<AcceptedPlayer(id, player)>> \o <<GameStarted(ps)>>)
      \/ out' = send_message(All, <<AcceptedPlayer(id, player)>> \o <<>>)
  BY <1>1 DEF Join, send_message_to_all
<1>6. /\ <<AcceptedPlayer(id, player)>> \o <<GameStarted(ps)>> \in Seq(ServerMessage)
      /\ <<AcceptedPlayer(id, player)>> \o <<>> \in Seq(ServerMessage)
  BY <1>4
<1>. QED
  BY <1>5, <1>6 DEF SendsMessages

\* and the summary of a turn.
LEMMA SummarySendsMessages == ASSUME EngineInv, SummariseTurn PROVE SendsMessages
<1>1. PICK field \in [current_players_to_destroy -> Board],
           ids \in Ascending(current_players_to_destroy) :
        LET ts == add_events(SeedEvents(ids, field))
            ss == [p \in DOMAIN scores |->
                      IF p \in current_players_to_destroy THEN scores[p] + 1 ELSE scores[p]]
        IN  out' = send_message_to_all(
                          <<Turn(ts[current_turn + 1])>> \o
                          IF LastTurn THEN <<GameEnded(ss)>> ELSE <<>>)
  BY DEF SummariseTurn
<1>2. PICK ts, ss : /\ ts = add_events(SeedEvents(ids, field))
                    /\ ss = [p \in DOMAIN scores |->
                               IF p \in current_players_to_destroy THEN scores[p] + 1
                               ELSE scores[p]]
  OBVIOUS
<1>3. /\ current_players_to_destroy \subseteq PlayerId /\ Len(turns) = current_turn + 1
      /\ current_turn \in Nat
  BY GameParams DEF SummariseTurn, EngineInv, TypeOK, InGameTablesAgree
<1>4. SeedEvents(ids, field) \in Seq(Event)
  BY <1>3, SeedEventsType
<1>5. ts \in Seq(TurnInfo) /\ Len(ts) = current_turn + 1
  BY <1>2, <1>3, <1>4, AddEvents DEF EngineInv
<1>6. Turn(ts[current_turn + 1]) \in ServerMessage
  <2>1. current_turn + 1 \in 1 .. Len(ts)
    BY <1>3, <1>5
  <2>2. ts[current_turn + 1] \in TurnInfo
    BY <1>5, <2>1, ElementOfSeq
  <2>. QED
    BY <2>2, TurnType
<1>7. GameEnded(ss) \in ServerMessage
  <2>1. Map(ss, PlayerId, Nat)
    BY <1>2 DEF EngineInv, TypeOK, Map
  <2>. QED
    BY <2>1, GameEndedType
<1>8. PICK m, e : m = Turn(ts[current_turn + 1]) /\ e = GameEnded(ss)
  OBVIOUS
<1>9. <<m>> \o <<e>> \in Seq(ServerMessage) /\ <<m>> \o <<>> \in Seq(ServerMessage)
  BY <1>6, <1>7, <1>8
<1>10. out' = send_message(All, <<m>> \o <<e>>) \/ out' = send_message(All, <<m>> \o <<>>)
  BY <1>1, <1>2, <1>8 DEF send_message_to_all
<1>. QED
  BY <1>9, <1>10 DEF SendsMessages

\* The other steps send nothing.
LEMMA EngineSendsMessages == ASSUME EngineInv, Next PROVE SendsMessages
<1>1. CASE BeginTurn \/ EraseBombs \/ EraseBlock \/ TurnBegun \/ PollInLobby
           \/ NoConnection \/ EndRound
  <2>1. out' = <<>>
    BY <1>1 DEF BeginTurn, EraseBombs, EraseBlock, TurnBegun, PollInLobby, NoConnection, EndRound
  <2>. QED
    BY <2>1 DEF SendsMessages
<1>2. ASSUME NEW b \in DOMAIN bombs, TickBomb(b) PROVE SendsMessages
  BY <1>2 DEF TickBomb, SendsMessages
<1>3. ASSUME NEW p \in Board, SeedBlock(p) PROVE SendsMessages
  BY <1>3 DEF SeedBlock, SendsMessages
<1>4. CASE SummariseTurn
  BY <1>4, SummarySendsMessages
<1>5. ASSUME NEW position \in {-1} \cup Slot, AcceptClient(position) PROVE SendsMessages
  <2>1. CASE position = -1
    BY <1>5, <2>1 DEF AcceptClient, SendsMessages
  <2>2. CASE position \in Slot
    BY <1>5, <2>2, GreetingSendsMessages
  <2>. QED
    BY <2>1, <2>2
<1>6. ASSUME NEW i \in Slot, NEW player \in Player, Join(i, player) PROVE SendsMessages
  BY <1>6, JoinSendsMessages
<1>7. ASSUME NEW i \in Slot,
             \/ JoinRefused(i) \/ ActionRefused(i) \/ ActionThrows(i)
             \/ PlaceBomb(i) \/ PlaceBlock(i) \/ \E d \in DirectionByte : Move(i, d)
      PROVE  SendsMessages
  BY <1>7 DEF JoinRefused, ActionRefused, ActionThrows, PlaceBomb, PlaceBlock, Move, Acts,
              SendsMessages
<1>. QED
  BY <1>1, <1>2, <1>3, <1>4, <1>5, <1>6, <1>7 DEF Next, ServerStep, ClientStep, HandleMsg

\* What of it is for the client is typed too.
LEMMA ForMeTyped == ASSUME SendsMessages PROVE ForMe(out') \in Seq(ServerMessage)
<1>1. CASE ForMe(out') = <<>>
  BY <1>1
<1>2. CASE ForMe(out') # <<>>
  <2>1. out' # <<>> /\ ForMe(out') = [k \in DOMAIN out' |-> out'[k].msg]
    BY <1>2 DEF ForMe
  <2>2. PICK i, msgs : msgs \in Seq(ServerMessage) /\ out' = send_message(i, msgs)
    BY <2>1 DEF SendsMessages
  <2>3. DOMAIN msgs = 1 .. Len(msgs) /\ \A k \in 1 .. Len(msgs) : msgs[k] \in ServerMessage
    BY <2>2, LenProperties, ElementOfSeq
  <2>4. ForMe(out') = [k \in 1 .. Len(msgs) |-> msgs[k]]
    BY <2>1, <2>2, <2>3 DEF send_message
  <2>. QED
    BY <2>2, <2>3, <2>4, LenProperties
<1>. QED
  BY <1>1, <1>2

\* A map with one entry more is a map,
LEMMA InsertedMap ==
    ASSUME NEW K, NEW V, NEW m \in Maps(K, V), NEW k \in K, NEW v \in V
    PROVE  Own!map_insert(m, k, v) \in Maps(K, V)
<1>1. PICK D \in SUBSET K : m \in [D -> V]
  BY DEF Maps
<1>2. CASE k \in DOMAIN m
  BY <1>2 DEF Own!map_insert
<1>3. CASE k \notin DOMAIN m
  <2>1. PICK n : n = Own!map_insert(m, k, v)
    OBVIOUS
  <2>2. n = [j \in D \cup {k} |-> IF j = k THEN v ELSE m[j]]
    BY <1>1, <1>3, <2>1 DEF Own!map_insert
  <2>3. n \in [D \cup {k} -> V] /\ D \cup {k} \in SUBSET K
    BY <1>1, <2>2
  <2>. QED
    BY <2>1, <2>3 DEF Maps
<1>. QED
  BY <1>2, <1>3

\* one without some entries is,
LEMMA ErasedMap ==
    ASSUME NEW K, NEW V, NEW m \in Maps(K, V), NEW J
    PROVE  Own!erase_keys(m, J) \in Maps(K, V)
<1>1. PICK D \in SUBSET K : m \in [D -> V]
  BY DEF Maps
<1>2. PICK n : n = Own!erase_keys(m, J)
  OBVIOUS
<1>3. n \in [D \ J -> V] /\ D \ J \in SUBSET K
  BY <1>1, <1>2 DEF Own!erase_keys
<1>. QED
  BY <1>2, <1>3 DEF Maps

\* and so is the empty one.
LEMMA EmptyInMaps == ASSUME NEW K, NEW V PROVE <<>> \in Maps(K, V)
<1>1. Map(<<>>, K, V)
  BY EmptyMap
<1>. QED
  BY <1>1, MapInMaps

\* The members of the client.
LobbyInfo == [known : BOOLEAN, players : Maps(PlayerId, Player)]
GameInfo ==
    [known : BOOLEAN, turn : -1 .. U16 - 1, players : Maps(PlayerId, Player),
     player_positions : Maps(PlayerId, Position), blocks : Seq(Position),
     bombs : Maps(Nat, Bomb), scores : Maps(PlayerId, Nat)]
Handled == {Own!Nothing, Hello} \cup [code : {"Turn"}, turn : 0 .. U16 - 1, events : Seq(Event)]

\* The inductive invariant: PlayTypeOK with the types of what is in flight.
PlayTypes ==
    /\ lobby_info \in LobbyInfo /\ game_info \in GameInfo /\ handling \in Handled
    /\ is_lobby_status \in BOOLEAN /\ accepted \in BOOLEAN
    /\ drawn.code \in {"none", "Lobby", "Game"}
    /\ client \in {"running", "terminated", "exited"}
    /\ InputsTyped /\ to_client \in Seq(ServerMessage)

\* A gameplay starts with what the client knows of its players.
LEMMA NewGameInfo ==
    ASSUME NEW lobby_of \in LobbyInfo PROVE Own!Game_info(lobby_of) \in GameInfo
<1>1. PICK D \in SUBSET PlayerId : lobby_of.players \in [D -> Player]
  BY DEF LobbyInfo, Maps
<1>2. PICK ss : ss = [p \in DOMAIN lobby_of.players |-> 0]
  OBVIOUS
<1>3. ss \in [D -> Nat]
  BY <1>1, <1>2
<1>4. ss \in Maps(PlayerId, Nat)
  BY <1>3 DEF Maps
<1>5. lobby_of.known \in BOOLEAN /\ lobby_of.players \in Maps(PlayerId, Player)
  BY DEF LobbyInfo
<1>6. /\ <<>> \in Maps(PlayerId, Position) /\ <<>> \in Maps(Nat, Bomb)
      /\ <<>> \in Seq(Position)
  BY EmptyInMaps
<1>7. -1 \in -1 .. U16 - 1
  BY GameParams
<1>. QED
  BY <1>2, <1>4, <1>5, <1>6, <1>7 DEF Own!Game_info, GameInfo

\* An event of a turn.
LEMMA ReadEventTypes ==
    ASSUME game_info \in GameInfo, client = "running", NEW e \in Event,
           \/ Own!read_bomb_placed(e) \/ Own!read_bomb_exploded(e)
           \/ Own!read_player_moved(e) \/ Own!read_block_placed(e)
    PROVE  game_info' \in GameInfo /\ client' \in {"running", "terminated"}
<1>0. PICK g : g = game_info
  OBVIOUS
<1>1. /\ g.player_positions \in Maps(PlayerId, Position) /\ g.blocks \in Seq(Position)
      /\ g.bombs \in Maps(Nat, Bomb) /\ g.scores \in Maps(PlayerId, Nat) /\ g \in GameInfo
  BY <1>0 DEF GameInfo
<1>2. CASE Own!read_bomb_placed(e)
  <2>1. e.id \in Nat /\ e.position \in Position
    BY <1>2 DEF Own!read_bomb_placed, Event
  <2>2. PICK t : t = IF g.known THEN bomb_timer ELSE 0
    OBVIOUS
  <2>3. [position |-> e.position, timer |-> t] \in Bomb
    BY <2>1, <2>2, GameParams DEF Bomb
  <2>4. PICK bs : bs = Own!map_insert(g.bombs, e.id, [position |-> e.position, timer |-> t])
    OBVIOUS
  <2>5. bs \in Maps(Nat, Bomb)
    BY <1>1, <2>1, <2>3, <2>4, InsertedMap
  <2>6. game_info' = [g EXCEPT !.bombs = bs] /\ client' = client
    BY <1>0, <1>2, <2>2, <2>4 DEF Own!read_bomb_placed, Own!add_bomb
  <2>. QED
    BY <1>1, <2>5, <2>6 DEF GameInfo
<1>3. CASE Own!read_player_moved(e)
  <2>1. e.id \in PlayerId /\ e.position \in Position
    BY <1>3 DEF Own!read_player_moved, Event
  <2>2. PICK ps : ps = Own!map_insert(g.player_positions, e.id, e.position)
    OBVIOUS
  <2>3. ps \in Maps(PlayerId, Position)
    BY <1>1, <2>1, <2>2, InsertedMap
  <2>4. game_info' = [g EXCEPT !.player_positions = ps] /\ client' = client
    BY <1>0, <1>3, <2>2 DEF Own!read_player_moved, Own!change_player_position
  <2>. QED
    BY <1>1, <2>3, <2>4 DEF GameInfo
<1>4. CASE Own!read_block_placed(e)
  <2>1. e.position \in Position
    BY <1>4 DEF Own!read_block_placed, Event
  <2>2. PICK blocks \in Own!insert(g.blocks, e.position) : game_info' = [g EXCEPT !.blocks = blocks]
    BY <1>0, <1>4 DEF Own!read_block_placed, Own!add_block
  <2>3. blocks \in insert(g.blocks, e.position)
    BY <2>2 DEF Own!insert, Own!UpperBounds, Own!Less, insert, UpperBounds, Less
  <2>4. blocks \in Seq(Position) /\ client' = client
    BY <1>1, <1>4, <2>1, <2>3, InsertType DEF Own!read_block_placed
  <2>. QED
    BY <1>1, <2>2, <2>4 DEF GameInfo
<1>5. CASE Own!read_bomb_exploded(e) /\ e.robots_destroyed \subseteq DOMAIN game_info.scores
  <2>1. e.blocks_destroyed \in Seq(Position)
    BY <1>5 DEF Own!read_bomb_exploded, Event
  <2>2. PICK ps \in Own!read_position_list(e.blocks_destroyed) :
          \E blocks \in Own!remove_blocks(ps) :
            game_info' = [Own!destroy_players(e.id, e.robots_destroyed) EXCEPT !.blocks = blocks]
    BY <1>5 DEF Own!read_bomb_exploded
  <2>3. PICK blocks \in Own!remove_blocks(ps) :
          game_info' = [Own!destroy_players(e.id, e.robots_destroyed) EXCEPT !.blocks = blocks]
    BY <2>2
  <2>4. blocks \in Seq(Position)
    BY <1>0, <1>1, <2>1, <2>2, <2>3, ReadListTyped, RemoveBlocksTyped
  <2>5. PICK bs, pp, ss :
          /\ bs = Own!erase_keys(g.bombs, {e.id})
          /\ pp = Own!erase_keys(g.player_positions, e.robots_destroyed)
          /\ ss = [p \in DOMAIN g.scores |-> IF p \in e.robots_destroyed THEN g.scores[p] + 1
                                              ELSE g.scores[p]]
    OBVIOUS
  <2>6. bs \in Maps(Nat, Bomb) /\ pp \in Maps(PlayerId, Position)
    BY <1>1, <2>5, ErasedMap
  <2>7. ss \in Maps(PlayerId, Nat)
    <3>1. PICK D \in SUBSET PlayerId : g.scores \in [D -> Nat]
      BY <1>1 DEF Maps
    <3>2. ss \in [D -> Nat]
      BY <2>5, <3>1
    <3>. QED
      BY <3>2 DEF Maps
  <2>8. Own!destroy_players(e.id, e.robots_destroyed)
          = [g EXCEPT !.bombs = bs, !.player_positions = pp, !.scores = ss]
    BY <1>0, <1>1, <2>5 DEF Own!destroy_players, GameInfo
  <2>9. [g EXCEPT !.bombs = bs, !.player_positions = pp, !.scores = ss] \in GameInfo
    BY <1>1, <2>6, <2>7 DEF GameInfo
  <2>10. client' = client
    BY <1>5 DEF Own!read_bomb_exploded
  <2>. QED
    BY <2>3, <2>4, <2>8, <2>9, <2>10 DEF GameInfo
<1>6. CASE Own!read_bomb_exploded(e) /\ ~(e.robots_destroyed \subseteq DOMAIN game_info.scores)
  BY <1>6 DEF Own!read_bomb_exploded
<1>. QED
  BY <1>2, <1>3, <1>4, <1>5, <1>6

\* A message is handled.
LEMMA ReceiveTypes == ASSUME PlayTypes, Receive, InputsTyped' PROVE PlayTypes'
<1>1. PICK m : m = Head(to_client) /\ Own!handle_server_message(m)
  BY DEF Receive
<1>2. to_client # <<>> /\ to_client \in Seq(ServerMessage) /\ to_client' = Tail(to_client)
  BY DEF Receive, PlayTypes
<1>3. m \in ServerMessage /\ to_client' \in Seq(ServerMessage)
  BY <1>1, <1>2
<1>4. accepted' = accepted /\ client = "running"
  BY <1>1 DEF Receive, Own!handle_server_message, Own!Idle
<1>5. ASSUME lobby_info' \in LobbyInfo, game_info' \in GameInfo, handling' \in Handled,
             is_lobby_status' \in BOOLEAN, drawn'.code \in {"none", "Lobby", "Game"},
             client' = client
      PROVE  PlayTypes'
  BY <1>3, <1>4, <1>5 DEF PlayTypes
<1>6. lobby_info \in LobbyInfo /\ game_info \in GameInfo /\ handling \in Handled
      /\ is_lobby_status \in BOOLEAN /\ drawn.code \in {"none", "Lobby", "Game"}
  BY DEF PlayTypes
<1>7. /\ lobby_info.known \in BOOLEAN /\ lobby_info.players \in Maps(PlayerId, Player)
      /\ <<>> \in Maps(PlayerId, Player)
  BY <1>6, EmptyInMaps DEF LobbyInfo
<1>8. CASE Own!handle_hello_msg(m)
  <2>1. m = Hello
    BY <1>3, <1>8 DEF Own!handle_hello_msg, ServerMessage
  <2>2. lobby_info' = [known |-> TRUE, players |-> <<>>] /\ drawn'.code = "Lobby"
    BY <1>8 DEF Own!handle_hello_msg, Own!Lobby_info, Own!lobby_message
  <2>3. lobby_info' \in LobbyInfo
    BY <1>7, <2>2 DEF LobbyInfo
  <2>. QED
    BY <1>5, <1>6, <1>8, <2>1, <2>2, <2>3 DEF Own!handle_hello_msg, Handled
<1>9. CASE Own!handle_accepted_player_msg(m)
  <2>1. m.id \in PlayerId /\ m.player \in Player
    BY <1>3, <1>9 DEF Own!handle_accepted_player_msg, ServerMessage, Hello
  <2>2. PICK ps : ps = Own!map_insert(lobby_info.players, m.id, m.player)
    OBVIOUS
  <2>3. lobby_info' = [lobby_info EXCEPT !.players = ps] /\ drawn'.code = "Lobby"
    BY <1>9, <2>2 DEF Own!handle_accepted_player_msg, Own!add_player, Own!lobby_message
  <2>4. ps \in Maps(PlayerId, Player)
    BY <1>7, <2>1, <2>2, InsertedMap
  <2>5. lobby_info' \in LobbyInfo
    BY <1>6, <2>3, <2>4 DEF LobbyInfo
  <2>. QED
    BY <1>5, <1>6, <1>9, <2>3, <2>5 DEF Own!handle_accepted_player_msg
<1>10. CASE Own!handle_game_started_msg(m)
  <2>1. game_info' \in GameInfo
    BY <1>6, <1>10, NewGameInfo DEF Own!handle_game_started_msg
  <2>. QED
    BY <1>5, <1>6, <1>10, <2>1 DEF Own!handle_game_started_msg
<1>11. CASE Own!handle_turn_message(m)
  <2>1. m \in [code : {"Turn"}, turn : 0 .. U16 - 1, events : Seq(Event)]
    BY <1>3, <1>11 DEF Own!handle_turn_message, ServerMessage, Hello
  <2>2. game_info' = [game_info EXCEPT !.turn = m.turn] /\ handling' = m
    BY <1>11 DEF Own!handle_turn_message, Own!new_turn
  <2>3. m.turn \in -1 .. U16 - 1
    BY <2>1, GameParams
  <2>4. game_info' \in GameInfo
    BY <1>6, <2>2, <2>3 DEF GameInfo
  <2>. QED
    BY <1>5, <1>6, <1>11, <2>1, <2>2, <2>4 DEF Own!handle_turn_message, Handled
<1>12. CASE Own!handle_game_ended_msg(m)
  <2>1. lobby_info' = [lobby_info EXCEPT !.players = <<>>] /\ drawn'.code = "Lobby"
    BY <1>12 DEF Own!handle_game_ended_msg, Own!clear_players, Own!lobby_message
  <2>2. lobby_info' \in LobbyInfo
    BY <1>6, <1>7, <2>1 DEF LobbyInfo
  <2>. QED
    BY <1>5, <1>6, <1>12, <2>1, <2>2 DEF Own!handle_game_ended_msg
<1>. QED
  BY <1>1, <1>8, <1>9, <1>10, <1>11, <1>12 DEF Own!handle_server_message

\* What the client does between two messages.
LEMMA ContinueTypes == ASSUME PlayTypes, Continue, InputsTyped' PROVE PlayTypes'
<1>1. /\ UNCHANGED <<accepted, to_client, lobby_info>> /\ client = "running"
      /\ lobby_info \in LobbyInfo /\ game_info \in GameInfo /\ handling \in Handled
      /\ is_lobby_status \in BOOLEAN /\ accepted \in BOOLEAN
      /\ drawn.code \in {"none", "Lobby", "Game"} /\ to_client \in Seq(ServerMessage)
  BY DEF Continue, Own!HelloHandled, Own!ReadEvent, Own!TurnHandled, Own!InTurn, PlayTypes
<1>2. CASE Own!HelloHandled
  <2>1. is_lobby_status' = TRUE /\ handling' = Own!Nothing
        /\ UNCHANGED <<game_info, drawn, client>>
    BY <1>2 DEF Own!HelloHandled
  <2>. QED
    BY <1>1, <2>1 DEF PlayTypes, Handled
<1>3. CASE Own!TurnHandled
  <2>1. drawn'.code = "Game" /\ handling' = Own!Nothing
        /\ UNCHANGED <<game_info, is_lobby_status, client>>
    BY <1>3 DEF Own!TurnHandled, Own!game_message
  <2>. QED
    BY <1>1, <2>1 DEF PlayTypes, Handled
<1>4. CASE Own!ReadEvent
  <2>1. handling.code = "Turn" /\ handling.events # <<>> /\ UNCHANGED <<is_lobby_status, drawn>>
    BY <1>4 DEF Own!ReadEvent, Own!InTurn
  <2>2. handling \in [code : {"Turn"}, turn : 0 .. U16 - 1, events : Seq(Event)]
    BY <1>1, <2>1 DEF Handled, Own!Nothing, Hello
  <2>3. PICK s \in Seq(Event) : s = handling.events /\ s # <<>>
    BY <2>1, <2>2
  <2>4. handling' = [handling EXCEPT !.events = Tail(s)] /\ Head(s) \in Event
        /\ Tail(s) \in Seq(Event)
    BY <1>4, <2>3 DEF Own!ReadEvent
  <2>5. handling' \in Handled
    BY <2>2, <2>4 DEF Handled
  <2>6. PICK e \in Event : \/ Own!read_bomb_placed(e) \/ Own!read_bomb_exploded(e)
                           \/ Own!read_player_moved(e) \/ Own!read_block_placed(e)
    BY <1>4, <2>3, <2>4 DEF Own!ReadEvent
  <2>7. game_info' \in GameInfo /\ client' \in {"running", "terminated"}
    BY <1>1, <2>6, ReadEventTypes
  <2>. QED
    BY <1>1, <2>1, <2>5, <2>7 DEF PlayTypes
<1>. QED
  BY <1>2, <1>3, <1>4 DEF Continue

\* The invariant is inductive.
LEMMA PlayTypesStep ==
    EngineInv /\ PlayTypes /\ InputsTyped' /\ [PlayNext]_play_vars => PlayTypes'
<1>. SUFFICES ASSUME EngineInv, PlayTypes, InputsTyped', [PlayNext]_play_vars
              PROVE  PlayTypes'
  OBVIOUS
<1>1. CASE EngineMoves
  <2>1. Next
    BY <1>1, EngineMovesAreSteps DEF PlayTypes
  <2>2. ForMe(out') \in Seq(ServerMessage) /\ <<>> \in Seq(ServerMessage)
    BY <2>1, EngineSendsMessages, ForMeTyped
  <2>3. PICK more \in Seq(ServerMessage) : to_client' = to_client \o more
    BY <1>1, <2>2 DEF EngineMoves, ServerMoves, AcceptMe, ServeMe, Deliver
  <2>4. to_client' \in Seq(ServerMessage)
    BY <2>3, ConcatProperties DEF PlayTypes
  <2>5. UNCHANGED client_vars /\ accepted' \in BOOLEAN
    BY <1>1 DEF EngineMoves, ServerMoves, AcceptMe, ServeMe, Deliver, PlayTypes
  <2>. QED
    BY <2>4, <2>5 DEF PlayTypes, client_vars
<1>2. CASE Receive
  BY <1>2, ReceiveTypes
<1>3. CASE Continue
  BY <1>3, ContinueTypes
<1>4. CASE GuiInput \/ SendInput \/ UNCHANGED play_vars
  <2>1. UNCHANGED <<lobby_info, game_info, handling, drawn, is_lobby_status, client, accepted,
                    to_client>>
    BY <1>4 DEF GuiInput, SendInput, Own!handle_gui_message, Own!send_server_message,
                Own!server_thread, play_vars, client_vars
  <2>. QED
    BY <2>1 DEF PlayTypes
<1>5. CASE ClientExits
  <2>1. /\ lobby_info' = Own!Lobby_info(FALSE) /\ game_info' = Own!Game_info(Own!Lobby_info(FALSE))
        /\ is_lobby_status' = FALSE /\ handling' = Own!Nothing /\ drawn' = Own!Nothing
        /\ client' = "exited" /\ to_client' = <<>> /\ accepted' = accepted
    BY <1>5 DEF ClientExits, Own!exit_with_msg
  <2>2. Own!Lobby_info(FALSE) \in LobbyInfo
    BY EmptyInMaps DEF Own!Lobby_info, LobbyInfo
  <2>3. Own!Game_info(Own!Lobby_info(FALSE)) \in GameInfo
    BY <2>2, NewGameInfo
  <2>4. Own!Nothing \in Handled /\ Own!Nothing.code = "none"
    BY DEF Handled, Own!Nothing
  <2>5. lobby_info' \in LobbyInfo /\ game_info' \in GameInfo
    BY <2>1, <2>2, <2>3
  <2>6. handling' \in Handled /\ drawn'.code = "none"
    BY <2>1, <2>4
  <2>7. accepted' \in BOOLEAN /\ to_client' \in Seq(ServerMessage)
    BY <2>1 DEF PlayTypes
  <2>. QED
    BY <2>1, <2>5, <2>6, <2>7 DEF PlayTypes
<1>. QED
  BY <1>1, <1>2, <1>3, <1>4, <1>5 DEF PlayNext, ServerThread

\* It holds of a client that has just been started.
LEMMA PlayTypesInit == PlayInit => PlayTypes
<1>. SUFFICES ASSUME PlayInit PROVE PlayTypes
  OBVIOUS
<1>1. Own!Lobby_info(FALSE) \in LobbyInfo
  BY EmptyInMaps DEF Own!Lobby_info, LobbyInfo
<1>2. Own!Game_info(Own!Lobby_info(FALSE)) \in GameInfo
  BY <1>1, NewGameInfo
<1>. QED
  <2>1. Own!Nothing \in Handled /\ Own!Nothing.code = "none"
    BY DEF Handled, Own!Nothing
  <2>2. InputsTyped /\ to_client \in Seq(ServerMessage)
    BY DEF PlayInit, Own!ClientInit, InputsTyped
  <2>. QED
    BY <1>1, <1>2, <2>1, <2>2 DEF PlayInit, Own!ClientInit, PlayTypes

\* Whatever the server sends and whatever trees the client's sets of positions
\* are, the members of the client and the connection hold values of their
\* types, at whatever position the client sits.
THEOREM PlayTypeCorrect == PlaySpec => []PlayTypeOK
<1>1. ASSUME NEW K, NEW V, NEW m \in Maps(K, V) PROVE Map(m, K, V)
  BY DEF Map, Maps
<1>2. PlayTypes => PlayTypeOK
  <2>. SUFFICES ASSUME PlayTypes PROVE PlayTypeOK
    OBVIOUS
  <2>1. /\ lobby_info.known \in BOOLEAN /\ Map(lobby_info.players, PlayerId, Player)
        /\ game_info.known \in BOOLEAN /\ Map(game_info.players, PlayerId, Player)
        /\ game_info.turn \in -1 .. U16 - 1
        /\ Map(game_info.player_positions, PlayerId, Position)
        /\ game_info.blocks \in Seq(Position)
        /\ Map(game_info.bombs, Nat, Bomb) /\ Map(game_info.scores, PlayerId, Nat)
    BY <1>1 DEF PlayTypes, LobbyInfo, GameInfo
  <2>2. handling.code \in {"none", "Hello", "Turn"}
    BY DEF PlayTypes, Handled, Own!Nothing, Hello
  <2>. QED
    BY <2>1, <2>2 DEF PlayTypes, PlayTypeOK, InputsTyped
<1>. QED
  BY <1>2, PlayTypesInit, PlayTypesStep, PlayInputsTyped, PlayKeepsEngineInv, PTL DEF PlaySpec
=============================================================================
