-------------------------- MODULE EventLoopProofs --------------------------
(***************************************************************************)
(* For any sets of clients, hosts and descriptors and any MAX_EVENTS, the  *)
(* invariant of the main loop holds: an event still names the connection   *)
(* it was reported for when its turn comes.                                *)
(***************************************************************************)
EXTENDS EventLoop, TLAPS

\* A batch holds one event for a descriptor.
OneEventEach == \A e1, e2 \in batch : e1.fd = e2.fd => e1 = e2

\* The batch is only there while main() works through it.
BatchIsHandled == batch # {} => pc \in {"loop", "undefined"}

\* A descriptor that is not open has no events and waits for none.
ClosedIsQuiet == \A f \in Fds : f \notin Open => f \notin armed /\ events[f] = {}

-----------------------------------------------------------------------------
\* LoopInv is the conjunction of its named parts.
LEMMA LoopParts ==
  LoopInv <=> /\ TypeOK /\ BatchIsHandled /\ OneEventEach
              /\ EventsNameTheirConnection /\ OutOnlyAfterPartialWrite
              /\ UdpOfItsHost /\ ClosedIsQuiet
BY DEF LoopInv, BatchIsHandled, OneEventEach, ClosedIsQuiet

\* The same of the next state.
LEMMA LoopPartsNext ==
  LoopInv' <=> /\ TypeOK' /\ BatchIsHandled' /\ OneEventEach'
               /\ EventsNameTheirConnection' /\ OutOnlyAfterPartialWrite'
               /\ UdpOfItsHost' /\ ClosedIsQuiet'
BY DEF LoopInv, BatchIsHandled, OneEventEach, ClosedIsQuiet

\* The server starts with nothing to do.
LEMMA InitLoop == Init => LoopInv
BY LoopNames
DEF Init, LoopInv, TypeOK, EventsNameTheirConnection, OutOnlyAfterPartialWrite, UdpOfItsHost, Open

-----------------------------------------------------------------------------
(***************************************************************************)
(* Steps of the environment.                                               *)
(***************************************************************************)
\* A client that connects waits, and nothing else changes.
LEMMA ConnectLoop == ASSUME LoopInv, NEW c \in Clients, Connect(c) PROVE LoopInv'
BY DEF Connect, server, addresses, LoopInv, TypeOK, EventsNameTheirConnection,
       OutOnlyAfterPartialWrite, UdpOfItsHost, Open

\* An event becomes due at an open descriptor, a writable one at an armed one.
LEMMA BecomesLoop ==
  ASSUME LoopInv, NEW f \in Fds, NEW e \in Events, Becomes(f, e) PROVE LoopInv'
<1> USE DEF Becomes, server, addresses
<1>1. TypeOK' BY DEF LoopInv, TypeOK
<1>2. BatchIsHandled' /\ OneEventEach' BY DEF LoopInv, BatchIsHandled, OneEventEach
<1>3. EventsNameTheirConnection' BY DEF LoopInv, EventsNameTheirConnection
<1>4. OutOnlyAfterPartialWrite' BY DEF LoopInv, OutOnlyAfterPartialWrite, TypeOK
<1>5. UdpOfItsHost' BY DEF LoopInv, UdpOfItsHost, Open
<1>6. ClosedIsQuiet' BY DEF LoopInv, ClosedIsQuiet, TypeOK, Open
<1> QED BY <1>1, <1>2, <1>3, <1>4, <1>5, <1>6, LoopPartsNext

\* A datagram on the network does not touch the server.
LEMMA SendDatagramLoop ==
  ASSUME LoopInv, NEW c \in Clients, NEW f \in Fds, SendDatagram(c, f) PROVE LoopInv'
BY DEF SendDatagram, server, addresses, LoopInv, TypeOK, EventsNameTheirConnection,
       OutOnlyAfterPartialWrite, UdpOfItsHost, Open

\* Nor does one that is lost.
LEMMA LoseLoop == ASSUME LoopInv, NEW d \in net, Lose(d) PROVE LoopInv'
BY DEF Lose, server, addresses, LoopInv, TypeOK, EventsNameTheirConnection,
       OutOnlyAfterPartialWrite, UdpOfItsHost, Open

\* A signal only clears keep_running and interrupts epoll_wait.
LEMMA SignalLoop == ASSUME LoopInv, Signal PROVE LoopInv'
<1> USE DEF Signal, server, addresses
<1>1. TypeOK' BY DEF LoopInv, TypeOK
<1>2. BatchIsHandled' /\ OneEventEach' BY DEF LoopInv, BatchIsHandled, OneEventEach
<1>3. EventsNameTheirConnection' BY DEF LoopInv, EventsNameTheirConnection
<1>4. OutOnlyAfterPartialWrite' BY DEF LoopInv, OutOnlyAfterPartialWrite
<1>5. UdpOfItsHost' BY DEF LoopInv, UdpOfItsHost, Open
<1>6. ClosedIsQuiet' BY DEF LoopInv, ClosedIsQuiet, Open
<1> QED BY <1>1, <1>2, <1>3, <1>4, <1>5, <1>6, LoopPartsNext

-----------------------------------------------------------------------------
(***************************************************************************)
(* Steps of the loop.                                                      *)
(***************************************************************************)
\* The test of keep_running, with no event to be handled.
LEMMA TestLoop == ASSUME LoopInv, Test PROVE LoopInv'
BY DEF Test, server, addresses, LoopInv, TypeOK, EventsNameTheirConnection,
       OutOnlyAfterPartialWrite, UdpOfItsHost, Open

\* The timeout of epoll_wait.
LEMMA TimeoutLoop == ASSUME LoopInv, Timeout PROVE LoopInv'
BY DEF Timeout, server, addresses, LoopInv, TypeOK, EventsNameTheirConnection,
       OutOnlyAfterPartialWrite, UdpOfItsHost, Open

\* What is reported of a descriptor is about that descriptor.
LEMMA ReportedShape ==
  ASSUME TypeOK, NEW f \in Ready
  PROVE  /\ Reported(f) \in [fd : Fds \cup {g_tcp_fd, g_udp_fd}, of : Clients \cup {NULL},
                             events : SUBSET Events]
         /\ Reported(f).fd = f
         /\ f \in Fds => /\ Reported(f).of = conn[f] /\ Reported(f).events = events[f]
                         /\ events[f] # {}
<1>1. f \in Fds \cup {g_tcp_fd, g_udp_fd} BY DEF Ready
<1>2. f \in Fds => events[f] # {} BY LoopNames DEF Ready
<1> QED BY <1>1, <1>2 DEF Reported, TypeOK, Events

\* epoll_wait reports every descriptor once, with the connection it has now; a
\* batch was there before only if main() was not waiting.
LEMMA EpollWaitLoop ==
  ASSUME LoopInv, NEW B \in SUBSET Ready, EpollWait(B) PROVE LoopInv'
<1>0. TypeOK BY DEF LoopInv
<1>1. batch' = {Reported(f) : f \in B} /\ pc' = "loop" BY DEF EpollWait
<1>2. UNCHANGED <<conn, udp, shaken, leftover, armed>> BY DEF EpollWait, addresses
<1>3. \A e \in batch' : \E f \in B : e = Reported(f) BY <1>1
<1>4. TypeOK'
  <2>1. batch' \subseteq [fd : Fds \cup {g_tcp_fd, g_udp_fd}, of : Clients \cup {NULL},
                          events : SUBSET Events]
    BY <1>0, <1>3, ReportedShape
  <2>2. events' \in [Fds -> SUBSET Events] BY <1>0 DEF EpollWait, TypeOK
  <2> QED BY <1>0, <1>2, <2>1, <2>2 DEF EpollWait, TypeOK
<1>5. BatchIsHandled' BY <1>1 DEF BatchIsHandled
<1>6. OneEventEach' BY <1>0, <1>3, ReportedShape DEF OneEventEach
<1>7. EventsNameTheirConnection'
  <2> SUFFICES ASSUME NEW e \in batch', e.fd \in Fds PROVE conn'[e.fd] = e.of /\ e.of # NULL
      BY DEF EventsNameTheirConnection
  <2>1. PICK f \in B : e = Reported(f) BY <1>3
  <2>2. f \in Fds /\ e.fd = f /\ e.of = conn[f] /\ events[f] # {} BY <1>0, <2>1, ReportedShape
  <2>3. conn[f] # NULL BY <2>2 DEF LoopInv, Open
  <2> QED BY <2>2, <2>3, <1>2
<1>8. OutOnlyAfterPartialWrite'
  <2>1. ASSUME NEW e \in batch', e.fd \in Fds, "out" \in e.events PROVE e.fd \in armed'
    <3>1. PICK f \in B : e = Reported(f) BY <1>3
    <3>2. f \in Fds /\ e.fd = f /\ e.events = events[f] BY <1>0, <2>1, <3>1, ReportedShape
    <3> QED BY <2>1, <3>2, <1>2 DEF LoopInv, OutOnlyAfterPartialWrite
  <2>2. \A f \in Fds : "out" \in events'[f] => f \in armed'
    BY <1>2 DEF EpollWait, LoopInv, OutOnlyAfterPartialWrite
  <2> QED BY <2>1, <2>2 DEF OutOnlyAfterPartialWrite
<1>9. UdpOfItsHost' BY <1>2 DEF LoopInv, UdpOfItsHost, Open
<1>10. ClosedIsQuiet' BY <1>2 DEF EpollWait, LoopInv, ClosedIsQuiet, Open
<1> QED BY <1>4, <1>5, <1>6, <1>7, <1>8, <1>9, <1>10, LoopPartsNext

\* What freed connections leave in memory are addresses of clients.
LEMMA AddressesFreed ==
  ASSUME TypeOK, NEW F \in SUBSET Fds, FreeAddresses(F)
  PROVE  /\ leftover' \subseteq Clients /\ udp' \in [Fds -> Clients \cup {NULL}]
         /\ shaken' \subseteq Fds
BY DEF TypeOK, FreeAddresses

\* Every connection is closed, and the batch is empty.
LEMMA CleanupLoop == ASSUME LoopInv, Cleanup PROVE LoopInv'
<1> USE DEF Cleanup
<1>1. batch = {} /\ batch' = {} BY DEF LoopInv
<1>2. TypeOK' BY <1>1, AddressesFreed DEF LoopInv, TypeOK, Events
<1>3. BatchIsHandled' /\ OneEventEach' /\ EventsNameTheirConnection'
  BY <1>1 DEF BatchIsHandled, OneEventEach, EventsNameTheirConnection
<1>4. OutOnlyAfterPartialWrite' BY <1>1 DEF OutOnlyAfterPartialWrite
<1>5. shaken' = {} BY DEF LoopInv, TypeOK, FreeAddresses
<1>6. UdpOfItsHost' /\ ClosedIsQuiet' BY <1>5 DEF UdpOfItsHost, ClosedIsQuiet, Open
<1> QED BY <1>2, <1>3, <1>4, <1>6, LoopPartsNext

-----------------------------------------------------------------------------
(***************************************************************************)
(* The handlers.                                                           *)
(***************************************************************************)
\* accept() returns a descriptor that is not open, so no event of the batch is
\* about it and it is not armed.  Whatever address is in its memory, its handshake
\* is not complete.
LEMMA HandleAcceptLoop ==
  ASSUME LoopInv, NEW e \in batch, HandleAccept(e) PROVE LoopInv'
<1>1. /\ batch' \subseteq batch /\ pc' = pc
      /\ UNCHANGED <<keep_running, leftover, armed, fresh, events, net>>
  BY DEF HandleAccept, Handling
<1>2. CASE /\ waiting' \subseteq waiting /\ UNCHANGED <<conn, udp, shaken>>
  BY <1>1, <1>2 DEF LoopInv, TypeOK, EventsNameTheirConnection, OutOnlyAfterPartialWrite,
                    UdpOfItsHost, Open
<1>3. CASE \E c \in waiting, f \in Fds \ Open :
             /\ waiting' = waiting \ {c}
             /\ conn' = [conn EXCEPT ![f] = c]
             /\ UdpOfNew(f) /\ shaken' = shaken \ {f}
  <2>1. PICK c \in waiting, f \in Fds \ Open :
             /\ waiting' = waiting \ {c}
             /\ conn' = [conn EXCEPT ![f] = c]
             /\ UdpOfNew(f) /\ shaken' = shaken \ {f}
    BY <1>3
  <2>2. /\ c \in Clients /\ c # NULL /\ conn \in [Fds -> Clients \cup {NULL}]
        /\ conn[f] = NULL
    BY LoopNames DEF LoopInv, TypeOK, Open
  <2>3. udp' \in [Fds -> Clients \cup {NULL}] /\ \A g \in Fds : g # f => udp'[g] = udp[g]
    BY <2>1 DEF UdpOfNew, LoopInv, TypeOK
  <2>4. \A g \in Fds : conn[g] # NULL => conn'[g] = conn[g] BY <2>1, <2>2
  <2>5. TypeOK' BY <1>1, <2>1, <2>2, <2>3 DEF LoopInv, TypeOK
  <2>6. BatchIsHandled' /\ OneEventEach' BY <1>1 DEF LoopInv, BatchIsHandled, OneEventEach
  <2>7. EventsNameTheirConnection' BY <1>1, <2>4 DEF LoopInv, EventsNameTheirConnection
  <2>8. OutOnlyAfterPartialWrite' BY <1>1 DEF LoopInv, OutOnlyAfterPartialWrite
  <2>9. UdpOfItsHost'
    <3> SUFFICES ASSUME NEW g \in shaken'
                 PROVE  g \in Open' /\ udp'[g] # NULL /\ HostOf[udp'[g]] = HostOf[conn'[g]]
        BY DEF UdpOfItsHost
    <3>1. g \in shaken /\ g # f BY <2>1
    <3>2. g \in Fds /\ conn[g] # NULL /\ udp[g] # NULL /\ HostOf[udp[g]] = HostOf[conn[g]]
      BY <3>1 DEF LoopInv, UdpOfItsHost, Open
    <3> QED BY <3>1, <3>2, <2>3, <2>4 DEF Open
  <2>10. ClosedIsQuiet' BY <1>1, <2>4 DEF LoopInv, ClosedIsQuiet, Open
  <2> QED BY <2>5, <2>6, <2>7, <2>8, <2>9, <2>10, LoopPartsNext
<1>4. \/ waiting' \subseteq waiting /\ UNCHANGED <<conn, udp, shaken>>
      \/ \E c \in waiting, f \in Fds \ Open :
             /\ waiting' = waiting \ {c}
             /\ conn' = [conn EXCEPT ![f] = c]
             /\ UdpOfNew(f) /\ shaken' = shaken \ {f}
  BY DEF HandleAccept, accept_connection
<1> QED BY <1>2, <1>3, <1>4

\* The handshake sets the address of an open descriptor, after the comparison of
\* the hosts.
LEMMA HandleUdpLoop ==
  ASSUME LoopInv, NEW e \in batch, HandleUdp(e) PROVE LoopInv'
<1>1. /\ batch' \subseteq batch /\ pc' = pc
      /\ UNCHANGED <<keep_running, conn, leftover, fresh, waiting, events>>
  BY DEF HandleUdp, Handling
<1>2. CASE UNCHANGED <<udp, shaken, armed>> /\ net' \subseteq net
  BY <1>1, <1>2 DEF LoopInv, TypeOK, EventsNameTheirConnection, OutOnlyAfterPartialWrite,
                    UdpOfItsHost, Open
<1>3. CASE \E d \in net : /\ FromItsHost(d) /\ udp' = [udp EXCEPT ![d.fd] = d.from]
                          /\ shaken' = shaken \cup {d.fd}
                          /\ armed' \in {armed, armed \cup {d.fd}} /\ net' \subseteq net
  <2>1. PICK d \in net : /\ FromItsHost(d) /\ udp' = [udp EXCEPT ![d.fd] = d.from]
                         /\ shaken' = shaken \cup {d.fd}
                         /\ armed' \in {armed, armed \cup {d.fd}} /\ net' \subseteq net
    BY <1>3
  <2>2. d.from \in Clients /\ d.fd \in Fds /\ udp \in [Fds -> Clients \cup {NULL}]
    BY DEF LoopInv, TypeOK
  <2>3. d.fd \in Open /\ HostOf[d.from] = HostOf[conn[d.fd]] BY <2>1 DEF FromItsHost
  <2>4. TypeOK' BY <1>1, <2>1, <2>2 DEF LoopInv, TypeOK
  <2>5. BatchIsHandled' /\ OneEventEach' BY <1>1 DEF LoopInv, BatchIsHandled, OneEventEach
  <2>6. EventsNameTheirConnection' BY <1>1 DEF LoopInv, EventsNameTheirConnection
  <2>7. armed \subseteq armed' /\ armed' \subseteq armed \cup {d.fd} BY <2>1
  <2>8. OutOnlyAfterPartialWrite' BY <1>1, <2>7 DEF LoopInv, OutOnlyAfterPartialWrite
  <2>9. UdpOfItsHost'
    <3>1. \A f \in Fds : f # d.fd => udp'[f] = udp[f] BY <2>1, <2>2
    <3>2. udp'[d.fd] = d.from /\ d.from # NULL BY <2>1, <2>2, LoopNames
    <3> QED BY <1>1, <2>1, <2>3, <3>1, <3>2 DEF LoopInv, UdpOfItsHost, Open
  <2>10. ClosedIsQuiet' BY <1>1, <2>3, <2>7 DEF LoopInv, ClosedIsQuiet, Open
  <2> QED BY <2>4, <2>5, <2>6, <2>8, <2>9, <2>10, LoopPartsNext
<1> QED BY <1>2, <1>3 DEF HandleUdp, udp_receive_packet

\* A handler closes no descriptor but that of its event, and the batch has no
\* other event for that one.
LEMMA HandleClientLoop ==
  ASSUME LoopInv, NEW e \in batch, HandleClient(e) PROVE LoopInv'
<1>0. TypeOK BY DEF LoopInv
<1>1. batch' = batch \ {e} /\ UNCHANGED <<keep_running, fresh, waiting, net>> /\ e.fd \in Fds
  BY DEF HandleClient, Handling
<1>2. PICK F \in ClosedBy(e) :
       /\ conn' = [f \in Fds |-> IF f \in F THEN NULL ELSE conn[f]]
       /\ FreeAddresses(F)
       /\ events' = [f \in Fds |-> IF f \in F THEN {} ELSE events[f]]
       /\ \E A \in SUBSET Open :
            /\ A # {} => F = {} /\ "in" \in e.events /\ e.fd \in Open
            /\ armed' = (armed \cup A) \ F
       /\ pc' = IF F # {} /\ "out" \in e.events THEN "undefined" ELSE pc
  BY DEF HandleClient
<1>3. PICK A \in SUBSET Open : armed' = (armed \cup A) \ F BY <1>2
<1>4. F \subseteq {e.fd} /\ F \subseteq Fds BY <1>2 DEF ClosedBy, Open
<1>5. A \subseteq Fds /\ \A f \in A : conn[f] # NULL BY <1>3 DEF Open
<1>6. \A d \in batch' : d \in batch /\ d.fd \notin F BY <1>1, <1>4 DEF LoopInv
<1>7. \A f \in Fds : f \notin F => conn'[f] = conn[f] /\ udp'[f] = udp[f] /\ events'[f] = events[f]
  BY <1>2 DEF FreeAddresses
<1>8. \A f \in Fds : f \in F => conn'[f] = NULL /\ f \notin shaken' /\ events'[f] = {}
  BY <1>2 DEF FreeAddresses
<1>9. pc' \in {pc, "undefined"} BY <1>2
<1>10. TypeOK'
  <2>1. conn' \in [Fds -> Clients \cup {NULL}] /\ events' \in [Fds -> SUBSET Events]
    BY <1>0, <1>2 DEF TypeOK
  <2>2. armed' \subseteq Fds BY <1>0, <1>3, <1>5 DEF TypeOK
  <2>3. /\ leftover' \subseteq Clients /\ udp' \in [Fds -> Clients \cup {NULL}]
        /\ shaken' \subseteq Fds
    BY <1>0, <1>2, <1>4, AddressesFreed
  <2> QED BY <1>0, <1>1, <1>9, <2>1, <2>2, <2>3 DEF TypeOK
<1>11. BatchIsHandled' BY <1>1, <1>9 DEF LoopInv, BatchIsHandled
<1>12. OneEventEach' BY <1>6 DEF LoopInv, OneEventEach
<1>13. EventsNameTheirConnection' BY <1>6, <1>7 DEF LoopInv, EventsNameTheirConnection
<1>14. OutOnlyAfterPartialWrite' BY <1>3, <1>6, <1>7, <1>8 DEF LoopInv, OutOnlyAfterPartialWrite
<1>15. UdpOfItsHost'
  <2>1. shaken' = shaken \ F BY <1>2 DEF FreeAddresses
  <2> QED BY <2>1, <1>7 DEF LoopInv, UdpOfItsHost, Open
<1>16. ClosedIsQuiet' BY <1>3, <1>5, <1>7, <1>8 DEF LoopInv, ClosedIsQuiet, Open
<1> QED BY <1>10, <1>11, <1>12, <1>13, <1>14, <1>15, <1>16, LoopPartsNext

-----------------------------------------------------------------------------
\* Every step preserves the invariant.
LEMMA NextLoop == ASSUME LoopInv, [Next]_vars PROVE LoopInv'
<1>1. CASE UNCHANGED vars
  BY <1>1 DEF vars, server, addresses, LoopInv, TypeOK, EventsNameTheirConnection,
              OutOnlyAfterPartialWrite, UdpOfItsHost, Open
<1>2. CASE Environment
  BY <1>2, ConnectLoop, BecomesLoop, SendDatagramLoop, LoseLoop, SignalLoop DEF Environment
<1>3. CASE Serve
  <2>1. ASSUME NEW e \in batch, Handle(e) PROVE LoopInv'
    BY <2>1, HandleAcceptLoop, HandleUdpLoop, HandleClientLoop DEF Handle
  <2> QED BY <1>3, <2>1, TestLoop, TimeoutLoop, CleanupLoop, EpollWaitLoop DEF Serve
<1> QED BY <1>1, <1>2, <1>3 DEF Next

\* The invariant of the main loop holds, whatever clients, network and signals do.
THEOREM LoopInvariance == Spec => []LoopInv
<1>1. Init => LoopInv BY InitLoop
<1>2. LoopInv /\ [Next]_vars => LoopInv' BY NextLoop
<1> QED BY <1>1, <1>2, PTL DEF Spec

\* No event is ever handled for another connection than the one it was reported
\* for, though descriptors are reused while it waits.
THEOREM EventsKeepTheirConnection == Spec => []EventsNameTheirConnection
<1>1. LoopInv => EventsNameTheirConnection BY DEF LoopInv
<1> QED BY <1>1, LoopInvariance, PTL

\* Only a connection with an earlier partial write can be used after it is freed.
THEOREM OutNeedsPartialWrite == Spec => []OutOnlyAfterPartialWrite
<1>1. LoopInv => OutOnlyAfterPartialWrite BY DEF LoopInv
<1> QED BY <1>1, LoopInvariance, PTL

\* The address of a completed handshake is one of the connection's own host,
\* whatever addresses other connections left in memory.
THEOREM UdpStaysWithItsHost == Spec => []UdpOfItsHost
<1>1. LoopInv => UdpOfItsHost BY DEF LoopInv
<1> QED BY <1>1, LoopInvariance, PTL
=============================================================================
