------------------------------- MODULE Server -------------------------------
(***************************************************************************)
(* The server process: GameEngine's loop over TcpHandler's descriptors,    *)
(* with SIGINT and the ways the process may end.  A step of the loop is a  *)
(* step of the engine together with the handler calls it makes.            *)
(*                                                                         *)
(* A player_t is the address of the connection that joined; names are left *)
(* out.                                                                    *)
(***************************************************************************)
EXTENDS GameEngine

CONSTANTS None, Message, MaxUnread

\* The descriptor -1 is no connection, and a Move carries a byte.
ASSUME NoneAssumption == None \notin Player
ASSUME MessageAssumption ==
    \A m \in Message : m.code = "Move" => m.direction \in DirectionByte

VARIABLES
    poll_descriptors, addresses, revents, backlog, inbox, peer,  \* TcpHandler
    finish_server,  \* set by the handler of SIGINT
    polling,        \* past the test of finish_server in the lobby: at poll
    sending,        \* in send, with the messages out
    process         \* "running", or how it ended

Tcp == INSTANCE TcpHandler WITH Conn <- Player

table   == <<poll_descriptors, addresses, revents>>
network == <<backlog, inbox, peer>>
handler == <<table, network>>
server_vars == <<vars, handler, finish_server, polling, sending, process>>

Process == {"running", "stopped", "failed", "killed", "terminated"}

ServerInit ==
    /\ Init /\ Tcp!TcpInit
    /\ finish_server = FALSE /\ polling = FALSE /\ sending = FALSE
    /\ process = "running"

Running == process = "running"

\* The loop is not in send, and takes its next step.
Awake == Running /\ ~sending

-----------------------------------------------------------------------------
(* The top of the loop.                                                    *)

\* finish_server ends the loop; close_conn closes what is open.
Stop ==
    /\ Awake /\ phase = "loop" /\ ~polling /\ finish_server
    /\ process' = "stopped" /\ Tcp!close_conn
    /\ UNCHANGED <<vars, finish_server, polling, sending>>

StartTurn ==
    /\ Awake /\ ~finish_server /\ BeginTurn
    /\ UNCHANGED <<handler, finish_server, polling, sending, process>>

\* Slip: finish_server is only looked at in a gameplay.
GoToPoll_untested ==
    /\ Awake /\ phase = "loop" /\ ~gameplay_started /\ ~polling
    /\ polling' = TRUE
    /\ UNCHANGED <<vars, handler, finish_server, sending, process>>

\* In the lobby the server goes to poll and waits there for something to do.
GoToPoll ==
    /\ Awake /\ phase = "loop" /\ ~gameplay_started /\ ~polling /\ ~finish_server
    /\ polling' = TRUE
    /\ UNCHANGED <<vars, handler, finish_server, sending, process>>

PollReturns ==
    /\ Awake /\ polling /\ Tcp!Ready # {}
    /\ PollInLobby /\ Tcp!poll_exec
    /\ polling' = FALSE
    /\ UNCHANGED <<poll_descriptors, addresses, network, finish_server, sending, process>>

\* begin_turn and seed_blocks, which call no operation of the handler.
Internal ==
    /\ Awake
    /\ \/ \E b \in DOMAIN bombs : TickBomb(b)
       \/ EraseBombs \/ EraseBlock
       \/ \E p \in Board : SeedBlock(p)
    /\ UNCHANGED <<handler, finish_server, polling, sending, process>>

\* In a gameplay poll returns at once.
PollInGame ==
    /\ Awake /\ TurnBegun /\ Tcp!poll_exec
    /\ UNCHANGED <<poll_descriptors, addresses, network, finish_server, polling, sending, process>>

-----------------------------------------------------------------------------
(* After poll.                                                             *)

\* The messages of a step, out', are given to send, which may have to wait.
Sends ==
    /\ Tcp!send_begins(poll_descriptors', out')
    /\ sending' = (Tcp!Addressees(poll_descriptors', out') # {})
    /\ UNCHANGED process

\* They reach the peers, or kill the process, when send waits for no peer.
\* What precedes the wait has its effect then too.
SendReturns ==
    /\ Running /\ sending /\ ~Tcp!SendWaits(poll_descriptors, out)
    /\ sending' = FALSE
    /\ \/ Tcp!Survived(poll_descriptors, out) /\ UNCHANGED process
       \/ /\ Tcp!RaisesSigpipe(poll_descriptors, out)
          /\ process' = "killed" /\ UNCHANGED peer
    /\ UNCHANGED <<vars, table, backlog, inbox, finish_server, polling>>

\* finish_server was set before poll returned: nobody is served.
SkipRound ==
    /\ Awake /\ finish_server /\ NoConnection
    /\ revents' = {}
    /\ UNCHANGED <<poll_descriptors, addresses, network, finish_server, polling, sending, process>>

NobodyNew ==
    /\ Awake /\ ~finish_server /\ ~Tcp!is_new_connection /\ NoConnection
    /\ UNCHANGED <<handler, finish_server, polling, sending, process>>

\* The newcomer gets a position, and Hello and the state are sent.
Accept(position) ==
    /\ Awake /\ ~finish_server /\ Tcp!is_new_connection
    /\ Tcp!accept_client(position) \/ Tcp!accept_fails(position)
    /\ AcceptClient(position) /\ Sends
    /\ UNCHANGED <<finish_server, polling>>

TableFull ==
    /\ Awake /\ ~finish_server /\ Tcp!is_new_connection
    /\ Tcp!refuse_client \/ (Tcp!accept_fails(-1) /\ UNCHANGED peer)
    /\ AcceptClient(-1)
    /\ UNCHANGED <<finish_server, polling, sending, process>>

\* handle_msg(i) executes the last of the messages it read.
Execute(i, m) ==
    \/ /\ m.code = "Join"
       /\ Join(i, addresses[i]) \/ JoinRefused(i)
    \/ m.code # "Join" /\ ActionRefused(i)
    \/ m.code = "Place_bomb" /\ PlaceBomb(i)
    \/ m.code = "Place_block" /\ PlaceBlock(i)
    \/ m.code = "Move" /\ Move(i, m.direction)

ServeMessage(i) ==
    /\ Awake
    /\ \E n \in 1 .. MaxUnread :
        Tcp!read_messages(i, n) /\ Execute(i, Tcp!Executed(i, n))
    /\ Sends
    /\ UNCHANGED <<finish_server, polling>>

\* The uncaught exception of an action handler ends the process.
ServeThrows(i) ==
    /\ Awake
    /\ \E n \in 1 .. MaxUnread :
        Tcp!read_messages(i, n) /\ Tcp!Executed(i, n).code # "Join"
    /\ ActionThrows(i)
    /\ process' = "terminated"
    /\ UNCHANGED <<peer, finish_server, polling, sending>>

ServeFails(i) ==
    /\ Awake /\ Serving(i) /\ Tcp!read_fails(i)
    /\ UNCHANGED <<vars, finish_server, polling, sending, process>>

\* No descriptor is left: the round ends.
FinishRound ==
    /\ Awake /\ revents = {}
    /\ EndRound \/ SummariseTurn
    /\ UNCHANGED <<table, backlog, inbox, finish_server, polling>>
    /\ Sends

-----------------------------------------------------------------------------
(* SIGINT.                                                                 *)

\* catch_int runs; every system call but poll is restarted.
Interrupt ==
    /\ Running /\ ~finish_server
    /\ finish_server' = TRUE
    /\ UNCHANGED <<vars, handler, polling, sending, process>>

\* poll has nothing to report and fails with EINTR: the process exits.
InterruptedPoll ==
    /\ Awake /\ ~finish_server /\ Tcp!Ready = {}
    /\ polling \/ (phase = "erase" /\ index > Len(current_blocks_to_erase))
    /\ finish_server' = TRUE /\ process' = "failed"
    /\ UNCHANGED <<vars, handler, polling, sending>>

-----------------------------------------------------------------------------
(* The specification.                                                      *)

LoopStep ==
    \/ Stop \/ StartTurn \/ GoToPoll \/ PollReturns \/ Internal \/ PollInGame
    \/ SkipRound \/ NobodyNew \/ TableFull \/ FinishRound \/ SendReturns
    \/ \E i \in Slot :
        Accept(i) \/ ServeMessage(i) \/ ServeThrows(i) \/ ServeFails(i)

Signal == Interrupt \/ InterruptedPoll

\* The peers of a dead process are of no interest.
Elsewhere == Running /\ UNCHANGED <<vars, finish_server, polling, sending, process>>

PeerStep(c) ==
    \/ Tcp!Connect(c) /\ Elsewhere
    \/ Tcp!Leave(c) /\ Elsewhere
    \/ Tcp!MakeRoom(c) /\ Elsewhere
    \/ \E m \in Message : Tcp!Send(c, m) /\ Elsewhere

ServerNext == LoopStep \/ Signal \/ \E c \in Player : PeerStep(c)

\* The process keeps running: it waits only in poll in the lobby, for a
\* descriptor to become ready, and in send, for a peer to read or to leave.
\* Nothing is assumed of peers and signals: a peer may never do either.
ServerSpec == ServerInit /\ [][ServerNext]_server_vars /\ WF_server_vars(LoopStep)

-----------------------------------------------------------------------------
(* Properties.                                                             *)

\* The handler's members and the kernel's side of a connection have values
\* of their types.
ServerTypeOK ==
    /\ poll_descriptors \in [Slot -> Player \cup {None}]
    /\ Map(addresses, {-1} \cup Slot, Player \cup {None})
    /\ revents \subseteq 0 .. conn_max - 1
    /\ backlog \in Seq(Player)
    /\ inbox \in [Player -> Seq(Message)]
    /\ peer \in [Player -> Tcp!PeerState]
    /\ finish_server \in BOOLEAN /\ polling \in BOOLEAN /\ sending \in BOOLEAN
    /\ process \in Process

\* A position in use holds one connection, accepted and not yet closed by
\* the server, no other position holds it, and the address that get_address
\* gives for the position is its own, although addresses are never erased
\* and positions are reused.
TableAgrees ==
    \A i \in Slot : Running /\ poll_descriptors[i] # None =>
        LET c == poll_descriptors[i]
        IN  /\ peer[c] \notin {"new", "gone"}
            /\ \A k \in DOMAIN backlog : backlog[k] # c
            /\ \A j \in Slot : poll_descriptors[j] = c => j = i
            /\ i \in DOMAIN addresses /\ addresses[i] = c

\* The inductive invariant behind TableAgrees: a connection waits for accept
\* once, and only while its peer has opened it and nobody has closed it here.
ServerInv ==
    /\ ServerTypeOK /\ TableAgrees
    /\ Running => \A k \in DOMAIN backlog :
        /\ peer[backlog[k]] \notin {"new", "gone"}
        /\ \A l \in DOMAIN backlog : backlog[l] = backlog[k] => l = k

\* What the peers do, seen by the engine, is what GameEngine assumes of its
\* descriptors: the composed loop implements the engine's specification.
EngineSpec == Spec

\* The server waits for ever in send, for a connected peer that reads no more.
\* Nothing ends this but the peer: the sockets block, and send is restarted
\* after SIGINT.  Each liveness property names its other exceptions itself.
HangsInSend == <>[](Running /\ \E c \in Player : peer[c] = "full")

\* A gameplay that has started ends, although clients come, act, leave and
\* stop reading for a while, unless the process ends or hangs first.
GameEnds ==
    HangsInSend \/ (gameplay_started ~> (~gameplay_started \/ ~Running))

\* A peer that has left, in order or with a reset, is read to its end and its
\* position freed, although others keep the server busy, unless the process
\* ends or hangs first.
LeaversAreForgotten ==
    HangsInSend \/ \A c \in Player :
        (\E i \in Slot : poll_descriptors[i] = c /\ peer[c] \in {"closed", "reset"})
            ~> (~Running \/ \A i \in Slot : poll_descriptors[i] # c)

\* What a connected client has sent is read, although the others never stop
\* sending, or its connection is closed, unless the process ends or hangs.
ClientsAreServed ==
    HangsInSend \/ \A c \in Player :
        (Len(inbox[c]) = MaxUnread /\ \E i \in Slot : poll_descriptors[i] = c)
            ~> (~Running \/ Len(inbox[c]) < MaxUnread)

\* SIGINT ends the process, in a gameplay after the turn that is open, with two
\* exceptions: it comes when the server has decided to wait in poll for the
\* lobby's clients, or the server hangs in send.
InterruptStops ==
    HangsInSend \/ ((finish_server /\ ~polling) ~> ~Running)

\* "Every player controls their robot." (README.md): the connection whose
\* messages move a robot is the one that joined as its player.
OwnRobotOnly ==
    \A i \in DOMAIN player_ids :
        poll_descriptors[i] \in {None, players[player_ids[i]]}
=============================================================================
