----------------------------- MODULE TcpHandler -----------------------------
(***************************************************************************)
(* Server_tcp_handler: the table of descriptors, the results of poll,      *)
(* accept, read and send, and the closing of a connection, over a network  *)
(* of TCP connections that their peers open, use and leave as they like.   *)
(*                                                                         *)
(* A connection stands for its descriptor, its peer and the peer's         *)
(* address.  active_clients, which nothing reads, is left out.             *)
(***************************************************************************)
EXTENDS Integers, Sequences, FiniteSets

CONSTANTS
    conn_max,       \* length of poll_descriptors; position 0 listens
    Conn,           \* the connections peers may open
    None,           \* the descriptor -1, and an address accept did not fill in
    Message,        \* the client messages, records with a code
    MaxUnread       \* bound: messages waiting to be read on a connection

VARIABLES
    poll_descriptors,   \* the connection at each position, or None
    addresses,          \* the address last stored for a position
    revents,            \* the positions the last poll reported, not yet served
    backlog,            \* connections waiting to be accepted (kernel)
    inbox,              \* messages sent and not read, per connection (kernel)
    peer                \* the state of each connection (kernel)

table == <<poll_descriptors, addresses, revents>>
network == <<backlog, inbox, peer>>

Slot == 1 .. conn_max - 1

\* "full": the peer is connected, but does not read, and a send waits for
\* room; "closed": the peer closed in order; "reset": it answered with RST;
\* "gone": this side closed.
PeerState == {"new", "open", "full", "closed", "reset", "gone"}

TcpInit ==
    /\ poll_descriptors = [i \in Slot |-> None]
    /\ addresses = <<>>
    /\ revents = {}
    /\ backlog = <<>>
    /\ inbox = [c \in Conn |-> <<>>]
    /\ peer = [c \in Conn |-> "new"]

-----------------------------------------------------------------------------
(* The peers.                                                              *)

Connect(c) ==
    /\ peer[c] = "new"
    /\ peer' = [peer EXCEPT ![c] = "open"]
    /\ backlog' = Append(backlog, c)
    /\ UNCHANGED <<table, inbox>>

Connected(c) == peer[c] \in {"open", "full"}

Send(c, m) ==
    /\ Connected(c) /\ Len(inbox[c]) < MaxUnread
    /\ inbox' = [inbox EXCEPT ![c] = Append(@, m)]
    /\ UNCHANGED <<table, backlog, peer>>

\* A peer that closes without having read everything answers with RST.
Leave(c) ==
    /\ Connected(c)
    /\ \E s \in {"closed", "reset"} :
        /\ s = "closed" => peer[c] = "open"
        /\ peer' = [peer EXCEPT ![c] = s]
    /\ UNCHANGED <<table, backlog, inbox>>

\* The peer reads, and there is room for what is being sent to it.
MakeRoom(c) ==
    /\ peer[c] = "full"
    /\ peer' = [peer EXCEPT ![c] = "open"]
    /\ UNCHANGED <<table, backlog, inbox>>

-----------------------------------------------------------------------------
(* poll and accept.                                                        *)

\* Slip: a connection that ends without data is not reported.
Ready_data ==
    {i \in {0} : backlog # <<>>} \cup
    {i \in Slot : poll_descriptors[i] # None /\ inbox[poll_descriptors[i]] # <<>>}

\* Positions on which poll reports POLLIN or POLLERR.
Ready ==
    {i \in {0} : backlog # <<>>} \cup
    {i \in Slot : poll_descriptors[i] # None
                    /\ (inbox[poll_descriptors[i]] # <<>> \/ ~Connected(poll_descriptors[i]))}

poll_exec == revents' = Ready

is_new_connection == 0 \in revents

\* The search for a free descriptor ends with position: the first, or -1.
FreePosition(position) ==
    \/ /\ position \in Slot /\ poll_descriptors[position] = None
       /\ \A i \in Slot : i < position => poll_descriptors[i] # None
    \/ position = -1 /\ \A i \in Slot : poll_descriptors[i] # None

\* Slip: stored one position further.
insert_address_next(position, address) ==
    addresses' = [i \in DOMAIN addresses \cup {position + 1} |->
                    IF i = position + 1 THEN address ELSE addresses[i]]

\* Slip: the address of an earlier client at the position is kept.
insert_address_keeps(position, address) ==
    addresses' = [i \in DOMAIN addresses \cup {position} |->
                    IF i \in DOMAIN addresses THEN addresses[i] ELSE address]

insert_address(position, address) ==
    addresses' = [i \in DOMAIN addresses \cup {position} |->
                    IF i = position THEN address ELSE addresses[i]]

\* Slip: without the break every free descriptor gets the connection.
accept_client_no_break(position) ==
    /\ backlog # <<>>
    /\ \A i \in Slot : poll_descriptors[i] = None => i <= position
    /\ poll_descriptors[position] = None
    /\ poll_descriptors' = [i \in Slot |-> IF poll_descriptors[i] = None THEN Head(backlog)
                                          ELSE poll_descriptors[i]]
    /\ insert_address(position, Head(backlog))
    /\ backlog' = Tail(backlog)
    /\ revents' = revents \ {0}
    /\ UNCHANGED inbox

\* accept_client stores the connection in the first free descriptor.
accept_client(position) ==
    /\ backlog # <<>> /\ FreePosition(position) /\ position # -1
    /\ poll_descriptors' = [poll_descriptors EXCEPT ![position] = Head(backlog)]
    /\ insert_address(position, Head(backlog))
    /\ backlog' = Tail(backlog)
    /\ revents' = revents \ {0}
    /\ UNCHANGED inbox

\* With no free descriptor it closes the connection and returns -1.
refuse_client ==
    /\ backlog # <<>> /\ FreePosition(-1)
    /\ peer' = [peer EXCEPT ![Head(backlog)] = "gone"]
    /\ inbox' = [inbox EXCEPT ![Head(backlog)] = <<>>]
    /\ insert_address(-1, Head(backlog))
    /\ backlog' = Tail(backlog)
    /\ revents' = revents \ {0}
    /\ UNCHANGED poll_descriptors

\* accept itself fails: its -1 is stored in a free descriptor, which stays
\* free, and the address is whatever the buffer held.
accept_fails(position) ==
    /\ FreePosition(position)
    /\ insert_address(position, None)
    /\ revents' = revents \ {0}
    /\ UNCHANGED <<poll_descriptors, backlog, inbox>>

-----------------------------------------------------------------------------
(* Reading, and closing what went wrong.                                   *)

\* is_message_from(i), for the first i of the loop over the descriptors.
is_message_from(i) ==
    /\ i \in revents \cap Slot /\ poll_descriptors[i] # None
    /\ \A j \in revents \cap Slot : i <= j

\* Messages of one byte arrive whole.
Cuttable(m) == m.code \in {"Join", "Move"}

\* One read returns the first n messages that wait on position i.
Reads(i, n) == is_message_from(i) /\ n \in DOMAIN inbox[poll_descriptors[i]]

\* handle_msg decodes them one after the other and keeps the last.
Executed(i, n) == inbox[poll_descriptors[i]][n]

\* Slip: the round ends with the first message.
read_messages_first(i, n) ==
    /\ Reads(i, n)
    /\ LET c == poll_descriptors[i]
       IN  inbox' = [inbox EXCEPT ![c] = SubSeq(@, n + 1, Len(@))]
    /\ revents' = {}
    /\ UNCHANGED <<poll_descriptors, addresses, backlog>>

read_messages(i, n) ==
    /\ Reads(i, n)
    /\ LET c == poll_descriptors[i]
       IN  inbox' = [inbox EXCEPT ![c] = SubSeq(@, n + 1, Len(@))]
    /\ revents' = revents \ {i}
    /\ UNCHANGED <<poll_descriptors, addresses, backlog>>

\* report_msg_status with any status but SUCCESS closes the descriptor.
report_msg_status(i) ==
    /\ peer' = [peer EXCEPT ![poll_descriptors[i]] = "gone"]
    /\ inbox' = [inbox EXCEPT ![poll_descriptors[i]] = <<>>]
    /\ poll_descriptors' = [poll_descriptors EXCEPT ![i] = None]
    /\ revents' = revents \ {i}
    /\ UNCHANGED <<addresses, backlog>>

\* END_CONN or ERROR_CONN: nothing is left to read and the peer is gone.
\* ERROR_MSG: the read ends inside a message.
read_fails(i) ==
    /\ is_message_from(i)
    /\ \/ inbox[poll_descriptors[i]] = <<>>
       \/ \E n \in DOMAIN inbox[poll_descriptors[i]] :
            Cuttable(inbox[poll_descriptors[i]][n])
    /\ report_msg_status(i)

\* close_conn, at the end of the process.
close_conn ==
    LET mine == {poll_descriptors[i] : i \in Slot} \ {None}
    IN  /\ peer' = [c \in Conn |-> IF c \in mine THEN "gone" ELSE peer[c]]
        /\ inbox' = [c \in Conn |-> IF c \in mine THEN <<>> ELSE inbox[c]]
        /\ UNCHANGED <<table, backlog>>

-----------------------------------------------------------------------------
(* send.  The messages of one step, each with the position it goes to or 0 *)
(* for all, go to the descriptors fds.                                     *)

Sent(fds, out, i) ==
    Cardinality({k \in DOMAIN out : out[k].to \in {0, i} /\ fds[i] # None})

Addressees(fds, out) == {fds[i] : i \in {j \in Slot : Sent(fds, out, j) > 0}}

\* Any message may be the one for which the buffers to a peer have no room.
send_begins(fds, out) ==
    \E waits \in SUBSET Addressees(fds, out) :
        /\ \A c \in waits : peer[c] = "open"
        /\ peer' = [c \in Conn |-> IF c \in waits THEN "full" ELSE peer[c]]

\* send blocks until there is room, or the connection has ended.
SendWaits(fds, out) == \E c \in Addressees(fds, out) : peer[c] = "full"

\* A peer that has closed answers data with RST.
Survived(fds, out) ==
    \E hit \in SUBSET Addressees(fds, out) :
        /\ \A c \in hit : peer[c] = "closed"
        /\ peer' = [c \in Conn |-> IF c \in hit THEN "reset" ELSE peer[c]]

\* Data sent after that RST raises SIGPIPE.
RaisesSigpipe(fds, out) ==
    \E i \in Slot :
        \/ Sent(fds, out, i) >= 1 /\ peer[fds[i]] = "reset"
        \/ Sent(fds, out, i) >= 2 /\ peer[fds[i]] = "closed"
=============================================================================
