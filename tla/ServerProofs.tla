---------------------------- MODULE ServerProofs ----------------------------
(***************************************************************************)
(* The descriptor table of the server stays consistent, and the composed   *)
(* server implements the engine's specification, so that what is proved of *)
(* the engine holds of the server.                                         *)
(***************************************************************************)
EXTENDS Server, GameEngineProofs

-----------------------------------------------------------------------------
(* The parts of the server's state that its invariant reads.               *)

\* A send that begins only turns open connections into full ones.
LEMMA SendsPeers ==
    ASSUME peer \in [Player -> Tcp!PeerState], process \in Process, Sends
    PROVE  /\ peer' \in [Player -> Tcp!PeerState]
           /\ sending' \in BOOLEAN /\ process' \in Process
           /\ \A c \in Player : peer[c] \notin {"new", "gone"} => peer'[c] \notin {"new", "gone"}
<1>1. PICK waits : /\ \A c \in waits : peer[c] = "open"
                   /\ peer' = [c \in Player |-> IF c \in waits THEN "full" ELSE peer[c]]
  BY DEF Sends, Tcp!send_begins
<1>2. sending' \in BOOLEAN /\ process' = process
  BY DEF Sends
<1> QED BY <1>1, <1>2 DEF Tcp!PeerState

\* One that returns only turns closed connections into reset ones.
LEMMA SendReturnsPeers ==
    ASSUME peer \in [Player -> Tcp!PeerState], process \in Process, SendReturns
    PROVE  /\ peer' \in [Player -> Tcp!PeerState]
           /\ process' \in Process
           /\ \A c \in Player : peer[c] \notin {"new", "gone"} => peer'[c] \notin {"new", "gone"}
<1>1. CASE Tcp!Survived(poll_descriptors, out) /\ UNCHANGED process
  <2>1. PICK hit : /\ \A c \in hit : peer[c] = "closed"
                   /\ peer' = [c \in Player |-> IF c \in hit THEN "reset" ELSE peer[c]]
    BY <1>1 DEF Tcp!Survived
  <2> QED BY <1>1, <2>1 DEF Tcp!PeerState, Process
<1>2. CASE process' = "killed" /\ UNCHANGED peer
  BY <1>2 DEF Process
<1> QED BY <1>1, <1>2 DEF SendReturns

\* insert_address is insert_or_assign on addresses.
LEMMA InsertAddress ==
    ASSUME NEW position \in {-1} \cup Slot, NEW a \in Player \cup {None},
           Map(addresses, {-1} \cup Slot, Player \cup {None}),
           Tcp!insert_address(position, a)
    PROVE  /\ Map(addresses', {-1} \cup Slot, Player \cup {None})
           /\ position \in DOMAIN addresses' /\ addresses'[position] = a
           /\ \A i \in DOMAIN addresses : i # position =>
                i \in DOMAIN addresses' /\ addresses'[i] = addresses[i]
BY DEF Map, Tcp!insert_address

-----------------------------------------------------------------------------
(* The inductive invariant.                                                *)

\* A step that leaves the table and the backlog alone, and no connection
\* closed here or unopened, keeps the invariant.
LEMMA TableKept ==
    ASSUME ServerInv, Running,
           UNCHANGED <<poll_descriptors, addresses, backlog>>,
           revents' \subseteq 0 .. conn_max - 1,
           inbox' \in [Player -> Seq(Message)],
           peer' \in [Player -> Tcp!PeerState],
           \A c \in Player : peer[c] \notin {"new", "gone"} => peer'[c] \notin {"new", "gone"},
           finish_server' \in BOOLEAN, polling' \in BOOLEAN, sending' \in BOOLEAN,
           process' \in Process
    PROVE  ServerInv'
<1>1. ServerTypeOK'
  BY DEF ServerInv, ServerTypeOK, Map
<1>2. TableAgrees'
  BY DEF ServerInv, ServerTypeOK, TableAgrees, Running
<1>3. \A k \in DOMAIN backlog :
        /\ peer'[backlog[k]] \notin {"new", "gone"}
        /\ \A l \in DOMAIN backlog : backlog[l] = backlog[k] => l = k
  BY DEF ServerInv, ServerTypeOK, Running
<1> QED BY <1>1, <1>2, <1>3 DEF ServerInv

\* The invariant holds initially: no connection is open.
LEMMA ServerInvInit == ServerInit => ServerInv
<1> SUFFICES ASSUME ServerInit PROVE ServerInv
  OBVIOUS
<1>1. /\ poll_descriptors = [i \in Slot |-> None]
      /\ addresses = <<>> /\ revents = {} /\ backlog = <<>>
      /\ inbox = [c \in Player |-> <<>>]
      /\ peer = [c \in Player |-> "new"]
      /\ finish_server = FALSE /\ polling = FALSE /\ sending = FALSE
      /\ process = "running"
  BY DEF ServerInit, Tcp!TcpInit, Slot, Tcp!Slot
<1>2. Map(addresses, {-1} \cup Slot, Player \cup {None})
  BY <1>1, EmptyMap
<1>3. inbox \in [Player -> Seq(Message)]
  BY <1>1
<1>4. peer \in [Player -> Tcp!PeerState] /\ backlog \in Seq(Player) /\ process \in Process
  BY <1>1 DEF Tcp!PeerState, Process
<1>5. ServerTypeOK
  BY <1>1, <1>2, <1>3, <1>4 DEF ServerTypeOK
<1>6. TableAgrees
  BY <1>1 DEF TableAgrees
<1>7. DOMAIN backlog = {}
  BY <1>1
<1> QED BY <1>5, <1>6, <1>7 DEF ServerInv

\* accept_client gives the first waiting connection a position.
LEMMA AcceptKeeps ==
    ASSUME ServerInv, NEW i \in Slot, Accept(i)
    PROVE  ServerInv'
<1>1. /\ ServerTypeOK /\ TableAgrees /\ Running
      /\ \A k \in DOMAIN backlog :
            /\ peer[backlog[k]] \notin {"new", "gone"}
            /\ \A l \in DOMAIN backlog : backlog[l] = backlog[k] => l = k
      /\ UNCHANGED <<finish_server, polling>>
  BY DEF ServerInv, Accept, Awake
<1>2. /\ peer' \in [Player -> Tcp!PeerState]
      /\ sending' \in BOOLEAN /\ process' \in Process
      /\ \A c \in Player : peer[c] \notin {"new", "gone"} => peer'[c] \notin {"new", "gone"}
  BY <1>1, SendsPeers DEF Accept, ServerTypeOK
<1>3. CASE Tcp!accept_client(i)
  <2> DEFINE c == Head(backlog)
  <2>1. /\ backlog # <<>> /\ backlog \in Seq(Player)
        /\ poll_descriptors' = [poll_descriptors EXCEPT ![i] = c]
        /\ Tcp!insert_address(i, c)
        /\ backlog' = Tail(backlog) /\ revents' = revents \ {0} /\ inbox' = inbox
    BY <1>1, <1>3 DEF Tcp!accept_client, ServerTypeOK
  <2>2. /\ c \in Player /\ c = backlog[1] /\ 1 \in DOMAIN backlog
        /\ backlog' \in Seq(Player)
        /\ \A k \in DOMAIN backlog' : k + 1 \in DOMAIN backlog /\ backlog'[k] = backlog[k + 1]
    BY <2>1
  <2>3. /\ Map(addresses', {-1} \cup Slot, Player \cup {None})
        /\ i \in DOMAIN addresses' /\ addresses'[i] = c
        /\ \A j \in DOMAIN addresses : j # i =>
                j \in DOMAIN addresses' /\ addresses'[j] = addresses[j]
    BY <1>1, <2>1, <2>2, InsertAddress DEF ServerTypeOK
  <2> HIDE DEF c
  <2>4. ServerTypeOK'
    BY <1>1, <1>2, <2>1, <2>2, <2>3 DEF ServerTypeOK
  <2>5. \A k \in DOMAIN backlog' :
          /\ peer'[backlog'[k]] \notin {"new", "gone"}
          /\ backlog'[k] # c
          /\ \A l \in DOMAIN backlog' : backlog'[l] = backlog'[k] => l = k
    <3> TAKE k \in DOMAIN backlog'
    <3>1. k \in Nat /\ k >= 1 /\ backlog'[k] \in Player
      BY <2>2
    <3> QED BY <1>1, <1>2, <2>2, <3>1
  <2>6. TableAgrees'
    <3> SUFFICES ASSUME NEW j \in Slot, poll_descriptors'[j] # None
                 PROVE  LET d == poll_descriptors'[j]
                        IN  /\ peer'[d] \notin {"new", "gone"}
                            /\ \A k \in DOMAIN backlog' : backlog'[k] # d
                            /\ \A l \in Slot : poll_descriptors'[l] = d => l = j
                            /\ j \in DOMAIN addresses' /\ addresses'[j] = d
      BY DEF TableAgrees
    <3>1. /\ poll_descriptors \in [Slot -> Player \cup {None}]
          /\ DOMAIN poll_descriptors' = Slot
          /\ poll_descriptors'[i] = c
          /\ \A l \in Slot : l # i => poll_descriptors'[l] = poll_descriptors[l]
      BY <1>1, <2>1 DEF ServerTypeOK
    <3>2. \A l \in Slot : poll_descriptors[l] # c
      BY <1>1, <2>1, <2>2, <3>1, NoneAssumption DEF TableAgrees
    <3>3. CASE j = i
      BY <1>1, <1>2, <2>2, <2>3, <2>5, <3>1, <3>2, <3>3
    <3>4. CASE j # i
      <4> DEFINE d == poll_descriptors[j]
      <4>1. /\ d \in Player /\ poll_descriptors'[j] = d
            /\ peer[d] \notin {"new", "gone"}
            /\ j \in DOMAIN addresses /\ addresses[j] = d
            /\ \A k \in DOMAIN backlog : backlog[k] # d
            /\ \A l \in Slot : poll_descriptors[l] = d => l = j
        BY <1>1, <3>1, <3>4 DEF TableAgrees
      <4> QED BY <1>2, <2>2, <2>3, <3>1, <3>2, <3>4, <4>1
    <3> QED BY <3>3, <3>4
  <2> QED BY <2>4, <2>5, <2>6 DEF ServerInv
<1>4. CASE Tcp!accept_fails(i)
  <2>1. /\ UNCHANGED <<poll_descriptors, backlog, inbox>>
        /\ poll_descriptors[i] = None
        /\ Tcp!insert_address(i, None) /\ revents' = revents \ {0}
    <3>1. -1 \notin Slot
      BY GameParams DEF Slot
    <3> QED BY <1>4, <3>1 DEF Tcp!accept_fails, Tcp!FreePosition
  <2>2. /\ Map(addresses', {-1} \cup Slot, Player \cup {None})
        /\ \A j \in DOMAIN addresses : j # i =>
                j \in DOMAIN addresses' /\ addresses'[j] = addresses[j]
    BY <1>1, <2>1, InsertAddress DEF ServerTypeOK
  <2>3. ServerTypeOK'
    BY <1>1, <1>2, <2>1, <2>2 DEF ServerTypeOK
  <2>4. TableAgrees'
    BY <1>1, <1>2, <2>1, <2>2 DEF TableAgrees, ServerTypeOK
  <2>5. \A k \in DOMAIN backlog : peer'[backlog[k]] \notin {"new", "gone"}
    BY <1>1, <1>2 DEF ServerTypeOK
  <2> QED BY <1>1, <2>1, <2>3, <2>4, <2>5 DEF ServerInv
<1> QED BY <1>3, <1>4 DEF Accept

\* With a full table the waiting connection is closed and leaves the backlog.
LEMMA TableFullKeeps == ServerInv /\ TableFull => ServerInv'
<1> SUFFICES ASSUME ServerInv, TableFull PROVE ServerInv'
  OBVIOUS
<1>1. /\ ServerTypeOK /\ TableAgrees /\ Running
      /\ \A k \in DOMAIN backlog :
            /\ peer[backlog[k]] \notin {"new", "gone"}
            /\ \A l \in DOMAIN backlog : backlog[l] = backlog[k] => l = k
      /\ UNCHANGED <<finish_server, polling, sending, process>>
  BY DEF ServerInv, TableFull, Awake
<1>2. -1 \notin Slot
  BY GameParams DEF Slot
<1>3. CASE Tcp!refuse_client
  <2> DEFINE c == Head(backlog)
  <2>1. /\ backlog # <<>> /\ backlog \in Seq(Player)
        /\ UNCHANGED poll_descriptors
        /\ peer' = [peer EXCEPT ![c] = "gone"]
        /\ inbox' = [inbox EXCEPT ![c] = <<>>]
        /\ Tcp!insert_address(-1, c)
        /\ backlog' = Tail(backlog) /\ revents' = revents \ {0}
    BY <1>1, <1>3 DEF Tcp!refuse_client, ServerTypeOK
  <2>2. /\ c \in Player /\ c = backlog[1] /\ 1 \in DOMAIN backlog
        /\ backlog' \in Seq(Player)
        /\ \A k \in DOMAIN backlog' : k + 1 \in DOMAIN backlog /\ backlog'[k] = backlog[k + 1]
    BY <2>1
  <2>3. /\ Map(addresses', {-1} \cup Slot, Player \cup {None})
        /\ \A j \in DOMAIN addresses : j # -1 =>
                j \in DOMAIN addresses' /\ addresses'[j] = addresses[j]
    BY <1>1, <2>1, <2>2, InsertAddress DEF ServerTypeOK
  <2> HIDE DEF c
  <2>4. ServerTypeOK'
    BY <1>1, <2>1, <2>2, <2>3 DEF ServerTypeOK, Tcp!PeerState
  <2>5. \A k \in DOMAIN backlog' :
          /\ peer'[backlog'[k]] \notin {"new", "gone"}
          /\ \A l \in DOMAIN backlog' : backlog'[l] = backlog'[k] => l = k
    <3> TAKE k \in DOMAIN backlog'
    <3>1. k \in Nat /\ k >= 1 /\ backlog'[k] \in Player
      BY <2>2
    <3>2. backlog'[k] # c
      BY <1>1, <2>2, <3>1
    <3>3. peer'[backlog'[k]] = peer[backlog'[k]]
      BY <1>1, <2>1, <3>1, <3>2 DEF ServerTypeOK
    <3> QED BY <1>1, <2>2, <3>1, <3>3
  <2>6. TableAgrees'
    <3>1. \A i \in Slot : poll_descriptors[i] # None =>
              poll_descriptors[i] \in Player /\ poll_descriptors[i] # c
      BY <1>1, <2>2 DEF TableAgrees, ServerTypeOK
    <3>2. \A d \in Player : d # c => peer'[d] = peer[d]
      BY <1>1, <2>1 DEF ServerTypeOK
    <3> QED BY <1>1, <1>2, <2>1, <2>2, <2>3, <3>1, <3>2 DEF TableAgrees
  <2> QED BY <2>4, <2>5, <2>6 DEF ServerInv
<1>4. CASE Tcp!accept_fails(-1) /\ UNCHANGED peer
  <2>1. /\ UNCHANGED <<poll_descriptors, backlog, inbox, peer>>
        /\ Tcp!insert_address(-1, None) /\ revents' = revents \ {0}
    BY <1>4 DEF Tcp!accept_fails
  <2>2. /\ Map(addresses', {-1} \cup Slot, Player \cup {None})
        /\ \A j \in DOMAIN addresses : j # -1 =>
                j \in DOMAIN addresses' /\ addresses'[j] = addresses[j]
    BY <1>1, <2>1, InsertAddress DEF ServerTypeOK
  <2>3. ServerTypeOK'
    BY <1>1, <2>1, <2>2 DEF ServerTypeOK
  <2>4. TableAgrees'
    BY <1>1, <1>2, <2>1, <2>2 DEF TableAgrees
  <2> QED BY <1>1, <2>1, <2>3, <2>4 DEF ServerInv
<1> QED BY <1>3, <1>4 DEF TableFull

\* report_msg_status closes one connection and frees its position.
LEMMA ServeFailsKeeps ==
    ASSUME ServerInv, NEW i \in Slot, ServeFails(i)
    PROVE  ServerInv'
<1> DEFINE c == poll_descriptors[i]
<1>1. /\ ServerTypeOK /\ TableAgrees /\ Running
      /\ \A k \in DOMAIN backlog :
            /\ peer[backlog[k]] \notin {"new", "gone"}
            /\ \A l \in DOMAIN backlog : backlog[l] = backlog[k] => l = k
      /\ UNCHANGED <<finish_server, polling, sending, process>>
  BY DEF ServerInv, ServeFails, Awake
<1>2. /\ c # None
      /\ peer' = [peer EXCEPT ![c] = "gone"]
      /\ inbox' = [inbox EXCEPT ![c] = <<>>]
      /\ poll_descriptors' = [poll_descriptors EXCEPT ![i] = None]
      /\ revents' = revents \ {i}
      /\ UNCHANGED <<addresses, backlog>>
  BY DEF ServeFails, Tcp!read_fails, Tcp!report_msg_status, Tcp!is_message_from
<1>3. /\ c \in Player
      /\ \A k \in DOMAIN backlog : backlog[k] # c
      /\ \A j \in Slot : poll_descriptors[j] = c => j = i
  BY <1>1, <1>2 DEF TableAgrees, ServerTypeOK
<1> HIDE DEF c
<1>4. ServerTypeOK'
  BY <1>1, <1>2, <1>3 DEF ServerTypeOK, Tcp!PeerState, Map
<1>5. \A d \in Player : d # c => peer'[d] = peer[d]
  BY <1>1, <1>2 DEF ServerTypeOK
<1>6. \A j \in Slot : poll_descriptors'[j] = (IF j = i THEN None ELSE poll_descriptors[j])
  BY <1>1, <1>2 DEF ServerTypeOK
<1>7. \A j \in Slot : poll_descriptors'[j] # None =>
        /\ poll_descriptors'[j] = poll_descriptors[j]
        /\ poll_descriptors[j] \in Player /\ poll_descriptors[j] # c
  BY <1>1, <1>3, <1>6 DEF ServerTypeOK
<1>8. TableAgrees'
  BY <1>1, <1>2, <1>5, <1>6, <1>7 DEF TableAgrees
<1>9. \A k \in DOMAIN backlog : peer'[backlog[k]] \notin {"new", "gone"}
  BY <1>1, <1>3, <1>5 DEF ServerTypeOK
<1> QED BY <1>1, <1>2, <1>4, <1>8, <1>9 DEF ServerInv

\* A peer opens a connection: it waits at the end of the backlog.
LEMMA ConnectKeeps ==
    ASSUME ServerInv, NEW c \in Player, Tcp!Connect(c), Elsewhere
    PROVE  ServerInv'
<1>1. /\ ServerTypeOK /\ TableAgrees /\ Running
      /\ \A k \in DOMAIN backlog :
            /\ peer[backlog[k]] \notin {"new", "gone"}
            /\ \A l \in DOMAIN backlog : backlog[l] = backlog[k] => l = k
      /\ UNCHANGED <<finish_server, polling, sending, process>>
  BY DEF ServerInv, Elsewhere
<1>2. /\ peer[c] = "new" /\ peer' = [peer EXCEPT ![c] = "open"]
      /\ backlog \in Seq(Player) /\ backlog' = Append(backlog, c)
      /\ UNCHANGED <<poll_descriptors, addresses, revents, inbox>>
  BY <1>1 DEF Tcp!Connect, Tcp!table, ServerTypeOK
<1>3. ServerTypeOK'
  BY <1>1, <1>2 DEF ServerTypeOK, Tcp!PeerState, Map
<1>4. \A d \in Player : peer'[d] = (IF d = c THEN "open" ELSE peer[d])
  BY <1>1, <1>2 DEF ServerTypeOK
<1>5. /\ DOMAIN backlog = 1 .. Len(backlog) /\ Len(backlog) \in Nat
      /\ DOMAIN backlog' = 1 .. Len(backlog) + 1
      /\ \A k \in DOMAIN backlog : backlog'[k] = backlog[k] /\ backlog[k] \in Player /\ backlog[k] # c
      /\ backlog'[Len(backlog) + 1] = c
  BY <1>1, <1>2
<1>6. \A k \in DOMAIN backlog' :
        /\ peer'[backlog'[k]] \notin {"new", "gone"}
        /\ \A l \in DOMAIN backlog' : backlog'[l] = backlog'[k] => l = k
  BY <1>1, <1>4, <1>5
<1>7. \A i \in Slot : poll_descriptors[i] # None =>
        poll_descriptors[i] \in Player /\ poll_descriptors[i] # c
  BY <1>1, <1>2 DEF TableAgrees, ServerTypeOK
<1>8. \A k \in DOMAIN backlog' : backlog'[k] = c \/ \E l \in DOMAIN backlog : backlog'[k] = backlog[l]
  BY <1>5
<1>9. TableAgrees'
  BY <1>1, <1>2, <1>4, <1>7, <1>8 DEF TableAgrees
<1> QED BY <1>3, <1>6, <1>9 DEF ServerInv

\* Every step of the server keeps the invariant.
LEMMA ServerInvStep == ServerInv /\ [ServerNext]_server_vars => ServerInv'
<1> SUFFICES ASSUME ServerInv, [ServerNext]_server_vars PROVE ServerInv'
  OBVIOUS
<1>1. /\ ServerTypeOK
      /\ revents \subseteq 0 .. conn_max - 1
      /\ inbox \in [Player -> Seq(Message)]
      /\ peer \in [Player -> Tcp!PeerState]
      /\ finish_server \in BOOLEAN /\ polling \in BOOLEAN /\ sending \in BOOLEAN
      /\ process \in Process
  BY DEF ServerInv, ServerTypeOK
<1> USE DEF handler, table, network, Awake
<1>2. CASE Stop
  <2>1. /\ process' = "stopped"
        /\ UNCHANGED <<poll_descriptors, addresses, revents, backlog, finish_server, polling,
                        sending>>
        /\ peer' \in [Player -> Tcp!PeerState]
        /\ inbox' \in [Player -> Seq(Message)]
    BY <1>1, <1>2 DEF Stop, Tcp!close_conn, Tcp!table, Tcp!PeerState
  <2>2. ServerTypeOK' /\ ~Running'
    BY <1>1, <2>1 DEF ServerTypeOK, Process, Running, Map
  <2> QED BY <2>2 DEF ServerInv, TableAgrees
<1>3. CASE StartTurn
  BY <1>1, <1>3, TableKept DEF StartTurn
<1>4. CASE GoToPoll
  BY <1>1, <1>4, TableKept DEF GoToPoll
<1>5. Tcp!Ready \subseteq 0 .. conn_max - 1
  BY GameParams DEF Tcp!Ready, Tcp!Slot
<1>6. CASE PollReturns
  BY <1>1, <1>5, <1>6, TableKept DEF PollReturns, Tcp!poll_exec
<1>7. CASE Internal
  BY <1>1, <1>7, TableKept DEF Internal
<1>8. CASE PollInGame
  BY <1>1, <1>5, <1>8, TableKept DEF PollInGame, Tcp!poll_exec
<1>9. CASE SkipRound
  BY <1>1, <1>9, TableKept DEF SkipRound
<1>10. CASE NobodyNew
  BY <1>1, <1>10, TableKept DEF NobodyNew
<1>11. CASE TableFull
  BY <1>11, TableFullKeeps
<1>12. CASE FinishRound
  <2>1. Sends /\ Running /\ UNCHANGED <<table, backlog, inbox, finish_server, polling>>
    BY <1>12 DEF FinishRound
  <2> QED BY <1>1, <2>1, SendsPeers, TableKept
<1>13. ASSUME NEW i \in Slot, Accept(i) PROVE ServerInv'
  BY <1>13, AcceptKeeps
<1>14. ASSUME NEW i \in Slot, NEW n, Tcp!read_messages(i, n)
       PROVE  /\ UNCHANGED <<poll_descriptors, addresses, backlog>>
              /\ revents' \subseteq 0 .. conn_max - 1
              /\ inbox' \in [Player -> Seq(Message)]
  <2>1. /\ UNCHANGED <<poll_descriptors, addresses, backlog>>
        /\ revents' = revents \ {i}
        /\ n \in DOMAIN inbox[poll_descriptors[i]]
        /\ poll_descriptors[i] # None
        /\ inbox' = [inbox EXCEPT ![poll_descriptors[i]] = SubSeq(@, n + 1, Len(@))]
    BY <1>14 DEF Tcp!read_messages, Tcp!Reads, Tcp!is_message_from
  <2>2. poll_descriptors[i] \in Player
    BY <1>1, <2>1 DEF ServerTypeOK
  <2>3. ASSUME NEW q \in Seq(Message), n \in DOMAIN q
        PROVE  SubSeq(q, n + 1, Len(q)) \in Seq(Message)
    BY <2>3
  <2> QED BY <1>1, <2>1, <2>2, <2>3
<1>15. ASSUME NEW i \in Slot, ServeMessage(i) PROVE ServerInv'
  <2>1. PICK n : Tcp!read_messages(i, n)
    BY <1>15 DEF ServeMessage
  <2>2. Sends /\ Running /\ UNCHANGED <<finish_server, polling>>
    BY <1>15 DEF ServeMessage
  <2> QED BY <1>1, <1>14, <2>1, <2>2, SendsPeers, TableKept
<1>16. ASSUME NEW i \in Slot, ServeThrows(i) PROVE ServerInv'
  <2>1. PICK n : Tcp!read_messages(i, n)
    BY <1>16 DEF ServeThrows
  <2>2. Running /\ process' \in Process /\ UNCHANGED <<peer, finish_server, polling, sending>>
    BY <1>16 DEF ServeThrows, Process
  <2> QED BY <1>1, <1>14, <2>1, <2>2, TableKept
<1>17. ASSUME NEW i \in Slot, ServeFails(i) PROVE ServerInv'
  BY <1>17, ServeFailsKeeps
<1>18. CASE Interrupt
  BY <1>1, <1>18, TableKept DEF Interrupt
<1>19. CASE InterruptedPoll
  BY <1>1, <1>19, TableKept DEF InterruptedPoll, Process
<1>20. ASSUME NEW c \in Player, PeerStep(c) PROVE ServerInv'
  <2>1. CASE Tcp!Connect(c) /\ Elsewhere
    BY <2>1, ConnectKeeps
  <2>2. CASE Tcp!Leave(c) /\ Elsewhere
    <3>1. PICK s \in {"closed", "reset"} : peer' = [peer EXCEPT ![c] = s]
      BY <2>2 DEF Tcp!Leave
    <3>2. UNCHANGED <<poll_descriptors, addresses, revents, backlog, inbox,
                      finish_server, polling, sending, process>> /\ Running
      BY <2>2 DEF Tcp!Leave, Tcp!table, Elsewhere
    <3>3. /\ peer' \in [Player -> Tcp!PeerState]
          /\ \A d \in Player : peer[d] \notin {"new", "gone"} => peer'[d] \notin {"new", "gone"}
      BY <1>1, <3>1 DEF Tcp!PeerState
    <3> QED BY <1>1, <3>2, <3>3, TableKept
  <2>3. CASE Tcp!MakeRoom(c) /\ Elsewhere
    <3>1. /\ peer[c] = "full" /\ peer' = [peer EXCEPT ![c] = "open"]
          /\ UNCHANGED <<poll_descriptors, addresses, revents, backlog, inbox,
                         finish_server, polling, sending, process>> /\ Running
      BY <2>3 DEF Tcp!MakeRoom, Tcp!table, Elsewhere
    <3>2. /\ peer' \in [Player -> Tcp!PeerState]
          /\ \A d \in Player : peer[d] \notin {"new", "gone"} => peer'[d] \notin {"new", "gone"}
      BY <1>1, <3>1 DEF Tcp!PeerState
    <3> QED BY <1>1, <3>1, <3>2, TableKept
  <2>4. ASSUME NEW m \in Message, Tcp!Send(c, m), Elsewhere PROVE ServerInv'
    <3>1. /\ inbox' = [inbox EXCEPT ![c] = Append(@, m)]
          /\ UNCHANGED <<poll_descriptors, addresses, revents, backlog, peer,
                         finish_server, polling, sending, process>> /\ Running
      BY <2>4 DEF Tcp!Send, Tcp!table, Elsewhere
    <3>2. inbox' \in [Player -> Seq(Message)]
      BY <1>1, <3>1
    <3> QED BY <1>1, <3>1, <3>2, TableKept
  <2> QED BY <1>20, <2>1, <2>2, <2>3, <2>4 DEF PeerStep
<1>21. CASE SendReturns
  <2>1. Running /\ sending' = FALSE
        /\ UNCHANGED <<table, backlog, inbox, finish_server, polling>>
    BY <1>21 DEF SendReturns
  <2> QED BY <1>1, <1>21, <2>1, SendReturnsPeers, TableKept
<1>22. CASE UNCHANGED server_vars
  BY <1>22 DEF server_vars, ServerInv, ServerTypeOK, TableAgrees, Running, Map
<1> QED
  BY <1>2, <1>3, <1>4, <1>6, <1>7, <1>8, <1>9, <1>10, <1>11, <1>12, <1>13, <1>15, <1>16,
     <1>17, <1>18, <1>19, <1>20, <1>21, <1>22 DEF ServerNext, LoopStep, Signal

\* In every execution of the server its invariant holds.
THEOREM ServerInvariant == ServerSpec => []ServerInv
BY ServerInvInit, ServerInvStep, PTL DEF ServerSpec

\* The handler's members and the kernel's side of every connection keep
\* values of their types.
THEOREM ServerTypeCorrect == ServerSpec => []ServerTypeOK
<1>1. ServerInv => ServerTypeOK
  BY DEF ServerInv
<1> QED BY <1>1, ServerInvariant, PTL

\* The descriptor table is consistent: two positions never hold one
\* connection, and get_address answers with the address of the client that
\* is connected, however often positions are reused.
THEOREM TableIsConsistent == ServerSpec => []TableAgrees
<1>1. ServerInv => TableAgrees
  BY DEF ServerInv
<1> QED BY <1>1, ServerInvariant, PTL

-----------------------------------------------------------------------------
(* The server implements the engine.                                       *)

\* What handle_msg executes is a step of GameEngine: a Join comes with the
\* address of a connected client, because the table is consistent.
LEMMA ExecuteIsClientStep ==
    ASSUME ServerInv, Running, NEW i \in Slot, NEW n, Tcp!read_messages(i, n),
           Execute(i, Tcp!Executed(i, n))
    PROVE  Next
<1> DEFINE m == Tcp!Executed(i, n)
<1>1. /\ poll_descriptors[i] # None
      /\ n \in DOMAIN inbox[poll_descriptors[i]]
  BY DEF Tcp!read_messages, Tcp!Reads, Tcp!is_message_from
<1>2. poll_descriptors[i] \in Player /\ addresses[i] = poll_descriptors[i]
  BY <1>1 DEF ServerInv, ServerTypeOK, TableAgrees
<1>3. m \in Message
  <2>1. inbox[poll_descriptors[i]] \in Seq(Message)
    BY <1>2 DEF ServerInv, ServerTypeOK
  <2> QED BY <1>1, <2>1 DEF Tcp!Executed
<1>4. Execute(i, m)
  OBVIOUS
<1> HIDE DEF m
<1>5. CASE Join(i, addresses[i])
  BY <1>2, <1>5 DEF Next, ClientStep, HandleMsg
<1>6. CASE JoinRefused(i) \/ ActionRefused(i) \/ PlaceBomb(i) \/ PlaceBlock(i)
  BY <1>6 DEF Next, ClientStep, HandleMsg
<1>7. CASE m.code = "Move" /\ Move(i, m.direction)
  BY <1>3, <1>7, MessageAssumption DEF Next, ClientStep, HandleMsg
<1> QED BY <1>4, <1>5, <1>6, <1>7 DEF Execute

\* A step of the server is a step of the engine or leaves the engine alone.
LEMMA ServerStepIsEngineStep == ServerInv /\ [ServerNext]_server_vars => [Next]_vars
<1> SUFFICES ASSUME ServerInv, [ServerNext]_server_vars PROVE [Next]_vars
  OBVIOUS
<1>1. CASE Stop \/ GoToPoll \/ SendReturns \/ Signal
  BY <1>1 DEF Stop, GoToPoll, SendReturns, Signal, Interrupt, InterruptedPoll
<1>2. CASE StartTurn \/ PollReturns \/ PollInGame \/ SkipRound \/ NobodyNew \/ FinishRound
  <2>1. \/ BeginTurn \/ PollInLobby \/ TurnBegun \/ NoConnection \/ EndRound \/ SummariseTurn
    BY <1>2 DEF StartTurn, PollReturns, PollInGame, SkipRound, NobodyNew, FinishRound
  <2> QED BY <2>1 DEF Next, ServerStep
<1>3. CASE Internal
  <2>1. \/ \E b \in DOMAIN bombs : TickBomb(b)
        \/ EraseBombs \/ EraseBlock \/ \E p \in Board : SeedBlock(p)
    BY <1>3 DEF Internal
  <2> QED BY <2>1 DEF Next, ServerStep
<1>4. CASE TableFull
  BY <1>4 DEF TableFull, Next, ClientStep, HandleMsg
<1>5. ASSUME NEW i \in Slot, Accept(i) PROVE [Next]_vars
  BY <1>5 DEF Accept, Next, ClientStep, HandleMsg
<1>6. ASSUME NEW i \in Slot, ServeMessage(i) PROVE [Next]_vars
  <2>1. PICK n : Tcp!read_messages(i, n) /\ Execute(i, Tcp!Executed(i, n))
    BY <1>6 DEF ServeMessage
  <2>2. Running
    BY <1>6 DEF ServeMessage, Awake
  <2> QED BY <2>1, <2>2, ExecuteIsClientStep
<1>7. ASSUME NEW i \in Slot, ServeThrows(i) PROVE [Next]_vars
  BY <1>7 DEF ServeThrows, Next, ClientStep, HandleMsg
<1>8. ASSUME NEW i \in Slot, ServeFails(i) PROVE [Next]_vars
  BY <1>8 DEF ServeFails
<1>9. ASSUME NEW c \in Player, PeerStep(c) PROVE [Next]_vars
  BY <1>9 DEF PeerStep, Elsewhere
<1>10. CASE UNCHANGED server_vars
  BY <1>10 DEF server_vars
<1> QED
  BY <1>1, <1>2, <1>3, <1>4, <1>5, <1>6, <1>7, <1>8, <1>9, <1>10 DEF ServerNext, LoopStep

\* The composed server implements the specification of the engine.
THEOREM ServerImplementsEngine == ServerSpec => EngineSpec
<1>1. ServerInit => Init
  BY DEF ServerInit
<1> QED
  BY <1>1, ServerInvariant, ServerStepIsEngineStep, PTL DEF ServerSpec, EngineSpec, Spec

\* What is proved of the engine holds of the server: its tables agree, robots
\* stay on the board, and no exception ends a gameplay in progress.
THEOREM ServerKeepsEngineInv == ServerSpec => []EngineInv
BY ServerImplementsEngine, EngineInvariant, PTL DEF EngineSpec
=============================================================================
