SPECIFICATION FairSpec
CONSTANTS
  NULL = NULL
  a = a
  b = b
  c = c
  Clients = {a, c}
  HostOf <- MCHostOf
  Fds = {f1, f2}
  g_tcp_fd = g_tcp_fd
  g_udp_fd = g_udp_fd
  MAX_EVENTS = 2
  MaxDatagrams = 1
CHECK_DEADLOCK FALSE
INVARIANTS LoopInv EventsNameTheirConnection OutOnlyAfterPartialWrite UdpOfItsHost
PROPERTIES SignalStops WaitingIsAccepted
