------------------------------ MODULE EventLoop ------------------------------
(***************************************************************************)
(* The main loop: main() from the test of keep_running to cleanup(), the   *)
(* events of epoll, the acceptance of clients, and the UDP handshake.      *)
(*                                                                         *)
(* epoll_wait copies at most MAX_EVENTS events, one for a descriptor, and  *)
(* the loop handles them later, one after the other.  In between           *)
(* descriptors are closed and given out again, so what matters is whom an  *)
(* event is about by the time it is handled.  Which of the ready           *)
(* descriptors are reported, and in which order, is left open.             *)
(*                                                                         *)
(* What a handler does to the objects of the conference is the matter of   *)
(* Conference; here it may close its own connection, and write to any.     *)
(* The bytes that are read and written are Framing and WritePath.          *)
(***************************************************************************)
EXTENDS Integers, FiniteSets

CONSTANTS
  NULL,
  Clients,             \* each connects once, so they also name connections
  HostOf,              \* the IP address of a client
  Fds,                 \* descriptors that accept() may return
  g_tcp_fd, g_udp_fd,
  MAX_EVENTS,
  MaxDatagrams         \* bound: how many datagrams the network holds

ASSUME LoopNames ==
  /\ NULL \notin Clients /\ g_tcp_fd # g_udp_fd
  /\ g_tcp_fd \notin Fds /\ g_udp_fd \notin Fds

VARIABLES
  pc,             \* where main() is; "undefined": it used a freed connection
  keep_running,
  batch,          \* the events of the last epoll_wait still to be handled
  fresh,          \* clients that have not connected yet
  waiting,        \* clients in the queue of the listening socket
  conn,           \* the connections by descriptor
  udp,            \* the client whose UDP address a connection holds (udp_addr)
  shaken,         \* connections with udp_handshake_complete
  leftover,       \* addresses in the memory of connections that were freed
  armed,          \* descriptors with EPOLLOUT among their events
  events,         \* what epoll has to report of a descriptor
  net             \* handshake datagrams: [from, fd]

addresses == <<udp, shaken, leftover>>
server == <<conn, addresses, armed, batch>>
vars   == <<pc, keep_running, server, fresh, waiting, events, net>>

Events == {"in", "out"}

TypeOK ==
  /\ pc \in {"loop", "wait", "cleanup", "stopped", "undefined"}
  /\ keep_running \in BOOLEAN
  /\ batch \subseteq [fd : Fds \cup {g_tcp_fd, g_udp_fd}, of : Clients \cup {NULL},
                      events : SUBSET Events]
  /\ fresh \subseteq Clients /\ waiting \subseteq Clients
  /\ conn \in [Fds -> Clients \cup {NULL}] /\ udp \in [Fds -> Clients \cup {NULL}]
  /\ shaken \subseteq Fds /\ leftover \subseteq Clients
  /\ armed \subseteq Fds /\ events \in [Fds -> SUBSET Events]
  /\ net \subseteq [from : Clients, fd : Fds]

Init ==
  /\ pc = "loop" /\ keep_running = TRUE /\ batch = {}
  /\ fresh = Clients /\ waiting = {}
  /\ conn = [f \in Fds |-> NULL] /\ udp = [f \in Fds |-> NULL]
  /\ shaken = {} /\ leftover = {}
  /\ armed = {} /\ events = [f \in Fds |-> {}] /\ net = {}

Open == {f \in Fds : conn[f] # NULL}

-----------------------------------------------------------------------------
(***************************************************************************)
(* Clients, network and signals.                                           *)
(***************************************************************************)
Running == pc \notin {"stopped", "undefined"}

Connect(c) ==
  /\ Running /\ c \in fresh
  /\ fresh' = fresh \ {c} /\ waiting' = waiting \cup {c}
  /\ UNCHANGED <<pc, keep_running, server, events, net>>

\* Bytes or the end of the stream arrive, or an armed socket has room again; a
\* reset is both.  So may epoll_modify be, for a socket it finds ready.
Becomes(f, e) ==
  /\ Running /\ f \in Open
  /\ e = "out" => f \in armed
  /\ events' = [events EXCEPT ![f] = @ \cup {e}]
  /\ UNCHANGED <<pc, keep_running, server, fresh, waiting, net>>

\* A client sends the handshake for its own descriptor.  Packet number f of the
\* public stream 0 begins with the same eight bytes, and is the same.
SendDatagram(c, f) ==
  /\ Running /\ \E g \in Fds : conn[g] = c
  /\ Cardinality(net) < MaxDatagrams
  /\ net' = net \cup {[from |-> c, fd |-> f]}
  /\ UNCHANGED <<pc, keep_running, server, fresh, waiting, events>>

Lose(d) ==
  /\ Running /\ d \in net /\ net' = net \ {d}
  /\ UNCHANGED <<pc, keep_running, server, fresh, waiting, events>>

\* handle_signal.  It interrupts epoll_wait (EINTR) if main() is inside; between
\* the test of keep_running and the call it interrupts nothing.
Signal ==
  /\ Running /\ keep_running
  /\ keep_running' = FALSE
  /\ pc' \in {pc} \cup IF pc = "wait" THEN {"loop"} ELSE {}
  /\ UNCHANGED <<server, fresh, waiting, events, net>>

-----------------------------------------------------------------------------
(***************************************************************************)
(* The loop.                                                               *)
(***************************************************************************)
Test ==
  /\ pc = "loop" /\ batch = {}
  /\ pc' = IF keep_running THEN "wait" ELSE "cleanup"
  /\ UNCHANGED <<keep_running, server, fresh, waiting, events, net>>

\* Mutant: the listening socket is registered with EPOLLET as the clients are,
\* so a second client that waits causes no event of its own.
ReadyOnce == {f \in Fds : events[f] # {}} \cup {g_tcp_fd : c \in {w \in waiting : waiting = {w}}}
               \cup {g_udp_fd : d \in net}

\* The server sockets are ready as long as there is something to be read.
Ready == {f \in Fds : events[f] # {}} \cup {g_tcp_fd : c \in waiting} \cup {g_udp_fd : d \in net}

Reported(f) == IF f \in Fds THEN [fd |-> f, of |-> conn[f], events |-> events[f]]
                            ELSE [fd |-> f, of |-> NULL, events |-> {"in"}]

\* A client's event is reported once (EPOLLET).
EpollWait(B) ==
  /\ pc = "wait" /\ B # {} /\ Cardinality(B) <= MAX_EVENTS
  /\ pc' = "loop"
  /\ batch' = {Reported(f) : f \in B}
  /\ events' = [f \in Fds |-> IF f \in B THEN {} ELSE events[f]]
  /\ UNCHANGED <<keep_running, conn, addresses, armed, fresh, waiting, net>>

\* Mutant: epoll_wait is called without a timeout.
NoTimeout == FALSE /\ UNCHANGED vars

\* One second has passed.
Timeout ==
  /\ pc = "wait" /\ Ready = {}
  /\ pc' = "loop"
  /\ UNCHANGED <<keep_running, server, fresh, waiting, events, net>>

Handling(e) == pc = "loop" /\ e \in batch /\ batch' = batch \ {e}

-----------------------------------------------------------------------------
(***************************************************************************)
(* The handlers.                                                           *)
(***************************************************************************)
\* accept_connection takes one of the waiting clients out of the queue.
accept_connection(c, f) == c \in waiting /\ f \in Fds \ Open /\ waiting' = waiting \ {c}

\* udp_receive_packet reads one datagram, which may have been duplicated.
udp_receive_packet(d) == d \in net /\ net' \in {net, net \ {d}}

\* connection_alloc leaves udp_addr as malloc returned it, which may be what a
\* freed connection held.
UdpOfNew(f) == \E a \in leftover \cup {NULL} : udp' = [udp EXCEPT ![f] = a]

\* Mutant: a new client is registered for EPOLLOUT as well.
HandleAcceptOut(e) ==
  /\ Handling(e) /\ e.fd = g_tcp_fd
  /\ \E c \in waiting, f \in Fds \ Open :
       /\ accept_connection(c, f)
       /\ conn' = [conn EXCEPT ![f] = c] /\ events' = [events EXCEPT ![f] = {"out"}]
  /\ UNCHANGED <<pc, keep_running, addresses, armed, fresh, net>>

\* Mutant: connection_alloc does not initialise udp_handshake_complete either.
HandleAcceptShaken(e) ==
  /\ Handling(e) /\ e.fd = g_tcp_fd
  /\ \E c \in waiting, f \in Fds \ Open :
       /\ accept_connection(c, f)
       /\ conn' = [conn EXCEPT ![f] = c]
       /\ UdpOfNew(f) /\ shaken' \in {shaken, shaken \cup {f}}
  /\ UNCHANGED <<pc, keep_running, leftover, armed, fresh, events, net>>

\* handle_tcp_accept accepts one client, unless accept() finds no descriptor for
\* it.  If there is no memory, or epoll_add fails, the client is closed again.
\* SERVER_HANDSHAKE_START always fits in a new socket.
HandleAccept(e) ==
  /\ Handling(e) /\ e.fd = g_tcp_fd
  /\ \/ UNCHANGED <<waiting, conn, udp, shaken>>
     \/ \E c \in waiting, f \in Fds \ Open :
          /\ accept_connection(c, f)
          /\ \/ UNCHANGED <<conn, udp, shaken>>
             \/ /\ conn' = [conn EXCEPT ![f] = c]
                /\ UdpOfNew(f) /\ shaken' = shaken \ {f}
  /\ UNCHANGED <<pc, keep_running, leftover, armed, fresh, events, net>>

\* Mutant: whoever names the descriptor of a connection sets its address.
FromItsHostUnchecked(d) == d.fd \in Open

FromItsHost(d) == d.fd \in Open /\ HostOf[d.from] = HostOf[conn[d.fd]]

\* handle_udp_data, of one datagram.  SERVER_HANDSHAKE_END may be written in part.
HandleUdp(e) ==
  /\ Handling(e) /\ e.fd = g_udp_fd
  /\ \/ net = {} /\ UNCHANGED <<udp, shaken, armed, net>>
     \/ \E d \in net :
          /\ udp_receive_packet(d)
          /\ IF FromItsHost(d)
             THEN /\ udp' = [udp EXCEPT ![d.fd] = d.from] /\ shaken' = shaken \cup {d.fd}
                  /\ armed' \in {armed, armed \cup {d.fd}}
             ELSE UNCHANGED <<udp, shaken, armed>>
  /\ UNCHANGED <<pc, keep_running, conn, leftover, fresh, waiting, events>>

\* Mutant: a handler closes the connections that cannot be written to.
ClosedByAny(e) ==
  {F \in SUBSET Open : F # {} => e.fd \in Open /\ "in" \in e.events}

\* The connections that a handler of e closes: its own, when the client has
\* closed it, or reading fails, or the read buffer overflows.
ClosedBy(e) ==
  {F \in SUBSET Open : F # {} => F = {e.fd} /\ "in" \in e.events}

\* The connections at F are freed; their UDP addresses stay in memory.
FreeAddresses(F) ==
  /\ leftover' = leftover \cup ({udp[f] : f \in F} \ {NULL})
  /\ udp' = [f \in Fds |-> IF f \in F THEN NULL ELSE udp[f]]
  /\ shaken' = shaken \ F

\* handle_tcp_client, and connection_write_data for the same event.  (A descriptor
\* without a connection does not come: EventsNameTheirConnection.)  If it does
\* not close, handle_tcp_client may write to any connection in part.  After
\* closing, connection_write_data has no defined outcome.
HandleClient(e) ==
  /\ Handling(e) /\ e.fd \in Fds
  /\ \E F \in ClosedBy(e) :
       /\ conn' = [f \in Fds |-> IF f \in F THEN NULL ELSE conn[f]]
       /\ FreeAddresses(F)
       /\ events' = [f \in Fds |-> IF f \in F THEN {} ELSE events[f]]
       /\ \E A \in SUBSET Open :
            /\ A # {} => F = {} /\ "in" \in e.events /\ e.fd \in Open
            /\ armed' = (armed \cup A) \ F
       /\ pc' = IF F # {} /\ "out" \in e.events THEN "undefined" ELSE pc
  /\ UNCHANGED <<keep_running, fresh, waiting, net>>

\* cleanup(): connection_close_all, and main() returns.
Cleanup ==
  /\ pc = "cleanup" /\ pc' = "stopped"
  /\ conn' = [f \in Fds |-> NULL] /\ FreeAddresses(Fds)
  /\ armed' = {} /\ events' = [f \in Fds |-> {}]
  /\ UNCHANGED <<keep_running, batch, fresh, waiting, net>>

-----------------------------------------------------------------------------
Handle(e) == HandleAccept(e) \/ HandleUdp(e) \/ HandleClient(e)

Serve == \/ Test \/ Timeout \/ Cleanup
         \/ \E B \in SUBSET Ready : EpollWait(B)
         \/ \E e \in batch : Handle(e)

Environment ==
  \/ \E c \in Clients : Connect(c)
  \/ \E f \in Fds, e \in Events : Becomes(f, e)
  \/ \E c \in Clients, f \in Fds : SendDatagram(c, f)
  \/ \E d \in net : Lose(d)
  \/ Signal

Next == Serve \/ Environment

Spec == Init /\ [][Next]_vars

\* main() goes on, epoll reports the ready descriptors in turn, and accept() does
\* not fail for ever while descriptors of the process are free.
Fairness ==
  /\ WF_vars(Serve)
  /\ SF_vars(\E B \in SUBSET Ready : g_tcp_fd \in B /\ EpollWait(B))
  /\ SF_vars(\E e \in batch : HandleAccept(e) /\ waiting' # waiting)

FairSpec == Spec /\ Fairness

-----------------------------------------------------------------------------
(***************************************************************************)
(* Safety.                                                                 *)
(***************************************************************************)
\* An event is handled for the connection it was reported for, though
\* descriptors are closed and accepted again while it waits in the batch: the
\* branch of main() for an unknown descriptor is never taken, and no client
\* is closed, read or written to for the event of another.
EventsNameTheirConnection ==
  \A e \in batch : e.fd \in Fds => conn[e.fd] = e.of /\ e.of # NULL

\* EPOLLOUT is only reported for a connection with an earlier partial write,
\* whoever had its descriptor before: only such a connection can be used after
\* it was freed.
OutOnlyAfterPartialWrite ==
  /\ \A e \in batch : e.fd \in Fds /\ "out" \in e.events => e.fd \in armed
  /\ \A f \in Fds : "out" \in events[f] => f \in armed

\* The UDP address that goes with a completed handshake, the only one packets are
\* sent to, is one of the connection's own host: a late datagram names a
\* descriptor that somebody else has now, and a new connection starts with
\* whatever address is in its memory.
UdpOfItsHost ==
  \A f \in shaken : f \in Open /\ udp[f] # NULL /\ HostOf[udp[f]] = HostOf[conn[f]]

\* The inductive invariant.
LoopInv ==
  /\ TypeOK
  /\ batch # {} => pc \in {"loop", "undefined"}
  /\ \A e1, e2 \in batch : e1.fd = e2.fd => e1 = e2
  /\ EventsNameTheirConnection /\ OutOnlyAfterPartialWrite /\ UdpOfItsHost
  /\ \A f \in Fds : f \notin Open => f \notin armed /\ events[f] = {}

-----------------------------------------------------------------------------
(***************************************************************************)
(* Liveness.                                                               *)
(***************************************************************************)
\* A signal stops the server, though it may come just before epoll_wait and
\* nobody ever sends anything again: the timeout sees to it.
SignalStops == ~keep_running ~> ~Running

\* A client that waits is accepted, or closed for lack of memory, or there is no
\* descriptor for it, though only one client is accepted for each event.
WaitingIsAccepted ==
  \A c \in Clients : c \in waiting ~> c \notin waiting \/ Fds = Open \/ ~Running
=============================================================================
