------------------------- MODULE ConnectivityProof -------------------------
(***************************************************************************)
(* Theorems about Connectivity, for any number of sockets, of hang-ups and *)
(* of failures, and any set of clients of the server.                      *)
(***************************************************************************)
EXTENDS Connectivity, FiniteSetTheorems, TLAPS

-----------------------------------------------------------------------------
(* Types.                                                                  *)
LEMMA TypeInit == Init => TypeOK
<1> SUFFICES ASSUME Init PROVE TypeOK
  OBVIOUS
<1>1. event \in BOOLEAN /\ reconnect \in BOOLEAN /\ pausedOn \in BOOLEAN
  BY Zenon DEF Init
<1>2. QED
  BY <1>1 DEF Init, TypeOK

(* The flags.                                                              *)
LEMMA FlagsType ==
  ASSUME TypeOK, [Next]_vars
  PROVE  event' \in BOOLEAN /\ reconnect' \in BOOLEAN /\ pausedOn' \in BOOLEAN
<1> USE DEF TypeOK, history
<1>1. CASE Register \/ LteLost \/ HangUp \/ LteHandler
  BY <1>1, Zenon DEF Register, LteLost, HangUp, LteHandler, link, signals
<1>2. CASE Main \/ ModemConnectFails
  BY <1>2, Zenon
  DEF Main, MainInit, TestReconnect, Offline, ModemConnect, ModemConnected,
      PauseEnds, ModemConnectFails, link, signals
<1>3. CASE Client
  BY <1>3, Zenon
  DEF Client, CreateServer, Socket, Connect, PollError, PollHup, TakeSem, Close,
      Retry, link, signals
<1>4. CASE Server \/ \E p \in Peers : PeerConnects(p) \/ PeerActs(p)
  BY <1>4, Zenon DEF Server, Listen, Accept, Serve, PeerConnects, PeerActs, link, signals
<1>5. CASE UNCHANGED vars
  BY <1>5, Zenon DEF vars, link, signals
<1>6. QED
  BY <1>1, <1>2, <1>3, <1>4, <1>5 DEF Next

(* A semaphore whose limit is 1.                                           *)
LEMMA GiveType ==
  ASSUME TypeOK, Give
  PROVE  /\ lte_connected_sem' \in {0, 1}
         /\ client' \in {client, "create", "close"}
BY DEF TypeOK, Give

(* Where the threads are, and what they count.                             *)
LEMMA ThreadsType ==
  ASSUME TypeOK, [Next]_vars
  PROVE  /\ lte' \in {"off", "searching", "registered"}
         /\ lte_connected_sem' \in {0, 1}
         /\ main' \in {"init", "loop", "offline", "connect", "connecting",
                       "connected", "pause", "returned"}
         /\ client' \in {"start", "create", "socket", "connect", "poll", "take",
                         "wait", "close", "sleep"}
         /\ conn' \in {"none", "open", "up", "hup", "err"}
         /\ hangups' \in Nat /\ fails' \in Nat /\ rounds' \in Nat
<1> USE DEF TypeOK, link, signals, tcp, serving, bounds, history, MayFail, OneFailed
<1>1. CASE Register \/ LteLost \/ HangUp
  BY <1>1 DEF Register, LteLost, HangUp
<1>2. CASE LteHandler
  BY <1>2, GiveType DEF LteHandler
<1>3. CASE MainInit \/ TestReconnect \/ Offline
  BY <1>3 DEF MainInit, TestReconnect, Offline, lte_lc_offline
<1>4. CASE ModemConnect \/ ModemConnectFails \/ PauseEnds
  BY <1>4 DEF ModemConnect, ModemConnectFails, PauseEnds, lte_lc_offline
<1>5. CASE ModemConnected
  BY <1>5, GiveType DEF ModemConnected
<1>6. CASE CreateServer \/ Socket \/ Connect \/ PollError
  BY <1>6 DEF CreateServer, Socket, Connect, PollError
<1>7. CASE PollHup \/ TakeSem \/ Close \/ Retry
  BY <1>7 DEF PollHup, TakeSem, Close, Retry
<1>8. CASE Listen
  BY <1>8 DEF Listen
<1>9. ASSUME NEW p \in Peers, Accept(p) \/ Serve(p) \/ PeerConnects(p) \/ PeerActs(p)
      PROVE  UNCHANGED <<lte, signals, main, client, conn, bounds, rounds>>
  BY <1>9 DEF Accept, Serve, PeerConnects, PeerActs
<1>10. CASE UNCHANGED vars
  BY <1>10 DEF vars
<1>11. QED
  BY <1>1, <1>2, <1>3, <1>4, <1>5, <1>6, <1>7, <1>8, <1>9, <1>10
  DEF Next, Main, Client, Server

-----------------------------------------------------------------------------
(* Who has a socket.  A client of the server that waits has none yet,      *)
(* tcp_client_thread has one when it connects and none before it asks for  *)
(* one, and the server thread is created once.                             *)
SocketOwners ==
  /\ client \in {"start", "create", "socket", "sleep"} => conn = "none"
  /\ client = "connect" => conn # "none"
  /\ client \in {"start", "create"} => server = "none"
  /\ \A p \in accepted : peers[p] \notin {"away", "waiting"}
  /\ IsFiniteSet(accepted)

SocketInv == TypeOK /\ SocketOwners /\ SocketsAccounted

(* The invariant holds when the threads start ...                          *)
LEMMA InitSocketInv == Init => SocketInv
<1> SUFFICES ASSUME Init PROVE SocketInv
  OBVIOUS
<1>1. accepted = {} /\ IsFiniteSet({}) /\ Cardinality({}) = 0
  BY FS_EmptySet DEF Init
<1>2. SocketOwners
  BY <1>1 DEF Init, SocketOwners
<1>3. SocketsAccounted
  BY <1>1 DEF Init, SocketsAccounted, Bit
<1>4. QED
  BY <1>2, <1>3, TypeInit DEF SocketInv

(* The steps of the client and what happens to its connection: a socket is *)
(* counted from the call of socket to the call of close.                   *)
LEMMA ClientSocketStep ==
  ASSUME SocketInv, UNCHANGED <<peers, accepted>>,
         \/ HangUp \/ Offline \/ ModemConnectFails
         \/ CreateServer \/ Socket \/ Connect \/ PollError \/ PollHup \/ Close \/ Retry
  PROVE  SocketOwners' /\ SocketsAccounted' /\ sockets' \in Nat
<1> DEFINE served == Cardinality(accepted)
<1>1. served \in Nat /\ served' = served
  BY FS_CardinalityType DEF SocketInv, SocketOwners
<1> HIDE DEF served
<1>2. sockets = Bit(conn # "none") + Bit(server \in {"accept", "recv"}) + served
  BY DEF SocketInv, SocketsAccounted, served
<1>3. /\ \A p \in accepted' : peers'[p] \notin {"away", "waiting"}
      /\ IsFiniteSet(accepted')
  BY DEF SocketInv, SocketOwners
<1> USE <1>1, <1>2 DEF SocketInv, TypeOK, SocketOwners, Bit
<1>4. /\ client' \in {"start", "create", "socket", "sleep"} => conn' = "none"
      /\ client' = "connect" => conn' # "none"
      /\ client' \in {"start", "create"} => server' = "none"
      /\ sockets' = Bit(conn' # "none") + Bit(server' \in {"accept", "recv"}) + served
      /\ sockets' \in Nat
  <2>1. CASE HangUp \/ Offline \/ ModemConnectFails
    BY <2>1 DEF HangUp, Offline, ModemConnectFails, lte_lc_offline, serving
  <2>2. CASE CreateServer \/ Connect
    BY <2>2 DEF CreateServer, Connect, serving, tcp
  <2>3. CASE PollError \/ PollHup \/ Retry
    BY <2>3 DEF PollError, PollHup, Retry, serving, tcp
  <2>4. CASE Socket
    BY <2>4 DEF Socket, serving, tcp
  <2>5. CASE Close
    BY <2>5 DEF Close, serving
  <2>6. QED BY <2>1, <2>2, <2>3, <2>4, <2>5
<1>5. QED
  BY <1>3, <1>4 DEF SocketsAccounted, served

(* The other steps, which leave the client's connection alone.             *)
LEMMA ServerSocketStep ==
  ASSUME SocketInv, TypeOK', Listen \/ \E p \in Peers : Accept(p)
  PROVE  SocketOwners' /\ SocketsAccounted' /\ sockets' \in Nat
<1> DEFINE served == Cardinality(accepted)
<1>1. served \in Nat /\ IsFiniteSet(accepted)
  BY FS_CardinalityType DEF SocketInv, SocketOwners
<1>2. sockets = Bit(conn # "none") + Bit(server \in {"accept", "recv"}) + served
  BY DEF SocketInv, SocketsAccounted
<1>3. CASE Listen
  <2>1. /\ UNCHANGED <<client, conn, peers, accepted>>
        /\ server = "socket"
        /\ \/ sockets' = sockets + 1 /\ server' = "accept"
           \/ sockets' = sockets /\ server' = "returned"
    BY <1>3 DEF Listen
  <2>2. SocketOwners'
    BY <2>1 DEF SocketInv, SocketOwners
  <2> HIDE DEF served
  <2>3. sockets' = Bit(conn' # "none") + Bit(server' \in {"accept", "recv"}) + served
    BY <1>1, <1>2, <2>1 DEF Bit
  <2>4. served' = served
    BY <2>1 DEF served
  <2>5. QED
    BY <1>1, <2>2, <2>3, <2>4 DEF SocketsAccounted, served, Bit
<1>4. ASSUME NEW p \in Peers, Accept(p)
      PROVE  SocketOwners' /\ SocketsAccounted' /\ sockets' \in Nat
  <2>1. /\ UNCHANGED <<client, conn>>
        /\ server = "accept" /\ server' = "recv" /\ peers[p] = "waiting"
        /\ peers' = [peers EXCEPT ![p] = "connected"]
        /\ accepted' = accepted \cup {p} /\ sockets' = sockets + 1
    BY <1>4 DEF Accept
  <2>2. p \notin accepted
    BY <2>1 DEF SocketInv, SocketOwners
  <2>3. IsFiniteSet(accepted') /\ Cardinality(accepted') = served + 1
    BY <1>1, <2>1, <2>2, FS_AddElement
  <2>4. \A q \in accepted' : peers'[q] \notin {"away", "waiting"}
    BY <2>1 DEF SocketInv, SocketOwners, TypeOK
  <2>5. SocketOwners'
    BY <2>1, <2>3, <2>4 DEF SocketInv, SocketOwners
  <2> HIDE DEF served
  <2>6. sockets' = Bit(conn' # "none") + Bit(server' \in {"accept", "recv"}) + (served + 1)
    BY <1>1, <1>2, <2>1 DEF Bit
  <2>7. sockets' \in Nat
    BY <1>1, <2>6 DEF Bit
  <2>8. QED
    BY <2>3, <2>5, <2>6, <2>7 DEF SocketsAccounted
<1>5. QED
  BY <1>3, <1>4

(* Steps that neither give a socket to anybody nor take one.               *)
LEMMA OtherSocketStep ==
  ASSUME SocketInv, UNCHANGED <<conn, sockets, accepted>>,
         UNCHANGED server \/ (server' \in {"accept", "recv"} /\ server = "recv"),
         client' \in {client, "create", "close", "wait"},
         client' = "create" => client \in {"start", "create"},
         \A p \in accepted : peers'[p] \in {peers[p], "asking", "gone", "answered", "ended"}
  PROVE  SocketOwners' /\ SocketsAccounted' /\ sockets' \in Nat
<1>1. SocketOwners'
  BY DEF SocketInv, SocketOwners
<1>2. SocketsAccounted'
  BY DEF SocketInv, SocketsAccounted, Bit
<1>3. QED
  BY <1>1, <1>2 DEF SocketInv, TypeOK

(* ... and after every step of a thread and of the network, ...            *)
LEMMA NextSocketInv == SocketInv /\ [Next]_vars => SocketInv'
<1> SUFFICES ASSUME SocketInv, [Next]_vars PROVE SocketInv'
  OBVIOUS
<1> DEFINE Kept == SocketOwners' /\ SocketsAccounted' /\ sockets' \in Nat
<1>1. CASE HangUp \/ Offline \/ ModemConnectFails
  <2>1. UNCHANGED <<peers, accepted>>
    BY <1>1 DEF HangUp, Offline, ModemConnectFails, serving
  <2>2. Kept
    BY <1>1, <2>1, ClientSocketStep
  <2>3. UNCHANGED <<server, peers, accepted>>
    BY <1>1 DEF HangUp, Offline, ModemConnectFails, serving
  <2>4. QED
    BY <2>2, <2>3, ThreadsType, FlagsType DEF SocketInv, TypeOK
<1>2. CASE \/ CreateServer \/ Socket \/ Connect \/ PollError \/ PollHup
           \/ Close \/ Retry
  <2>1. UNCHANGED <<peers, accepted>> /\ server' \in {server, "socket"}
    BY <1>2 DEF CreateServer, Socket, Connect, PollError, PollHup, Close, Retry, serving
  <2>2. Kept
    BY <1>2, <2>1, ClientSocketStep
  <2>3. QED
    BY <2>1, <2>2, ThreadsType, FlagsType DEF SocketInv, TypeOK
<1>3. CASE Listen \/ \E p \in Peers : Accept(p)
  <2>1. /\ server' \in {"accept", "recv", "returned"} /\ accepted' \in SUBSET Peers
        /\ peers' \in [Peers -> {"away", "waiting", "connected", "asking", "gone",
                                "answered", "ended"}]
    BY <1>3 DEF Listen, Accept, SocketInv, TypeOK
  <2>2. sockets' \in Nat
    BY <1>3 DEF Listen, Accept, SocketInv, TypeOK
  <2>3. TypeOK'
    BY <2>1, <2>2, ThreadsType, FlagsType DEF SocketInv, TypeOK
  <2>4. Kept
    BY <1>3, <2>3, ServerSocketStep
  <2>5. QED
    BY <2>3, <2>4 DEF SocketInv
<1>4. CASE \/ Register \/ LteLost \/ LteHandler \/ MainInit \/ TestReconnect
           \/ ModemConnect \/ ModemConnected \/ PauseEnds
           \/ TakeSem \/ UNCHANGED vars
  <2>1. UNCHANGED <<conn, sockets, accepted, server, peers>>
    BY <1>4 DEF Register, LteLost, LteHandler, MainInit, TestReconnect, ModemConnect,
                ModemConnected, PauseEnds, TakeSem, tcp, serving, vars
  <2>2. CASE client' = client
    BY <2>1, <2>2, OtherSocketStep, ThreadsType, FlagsType DEF SocketInv, TypeOK
  <2>3. CASE Give \/ TakeSem
    <3>1. /\ client' \in {client, "create", "close", "wait"}
          /\ client' = "create" => client \in {"start", "create"}
      BY <2>3 DEF Give, TakeSem
    <3>2. QED
      BY <2>1, <3>1, OtherSocketStep, ThreadsType, FlagsType DEF SocketInv, TypeOK
  <2>4. QED
    BY <1>4, <2>2, <2>3
    DEF Register, LteLost, LteHandler, MainInit, TestReconnect, ModemConnect,
        ModemConnected, PauseEnds, vars
<1>5. ASSUME NEW p \in Peers, Serve(p) \/ PeerConnects(p) \/ PeerActs(p)
      PROVE  SocketInv'
  <2>1. /\ UNCHANGED <<conn, sockets, accepted, client>>
        /\ UNCHANGED server \/ (server' \in {"accept", "recv"} /\ server = "recv")
    BY <1>5 DEF Serve, PeerConnects, PeerActs, tcp
  <2>2. PICK a \in {"waiting", "asking", "gone", "answered", "ended"} :
          /\ peers' = [peers EXCEPT ![p] = a]
          /\ a = "waiting" => peers[p] = "away"
    BY <1>5 DEF Serve, PeerConnects, PeerActs
  <2>3. \A q \in accepted :
          peers'[q] \in {peers[q], "asking", "gone", "answered", "ended"}
    BY <2>2 DEF SocketInv, SocketOwners, TypeOK
  <2>4. peers' \in [Peers -> {"away", "waiting", "connected", "asking", "gone",
                             "answered", "ended"}]
    BY <2>2 DEF SocketInv, TypeOK
  <2>5. Kept
    BY <2>1, <2>3, OtherSocketStep
  <2>6. QED
    BY <2>1, <2>4, <2>5, ThreadsType, FlagsType DEF SocketInv, TypeOK
<1>6. QED
  BY <1>1, <1>2, <1>3, <1>4, <1>5 DEF Next, Main, Client, Server

(* ... so it holds in every behaviour.                                     *)
LEMMA SocketSafe == Spec => []SocketInv
BY InitSocketInv, NextSocketInv, PTL DEF Spec

(* Every variable keeps its type.                                          *)
THEOREM TypeCorrect == Spec => []TypeOK
<1>1. SocketInv => TypeOK
  BY DEF SocketInv
<1>2. QED BY <1>1, SocketSafe, PTL

(* No socket is leaked or closed twice: the sockets in use are those of    *)
(* the client's connection, whichever of its calls failed, the listening   *)
(* server's, and one of every client the server ever accepted.             *)
THEOREM SocketsNotLeaked == Spec => []SocketsAccounted
<1>1. SocketInv => SocketsAccounted
  BY DEF SocketInv
<1>2. QED BY <1>1, SocketSafe, PTL

-----------------------------------------------------------------------------
(* What main knows of the modem: it calls nothing before the modem is      *)
(* initialized, pauses after a lte_lc_offline that turned the modem off,   *)
(* or that is on record, and lte_lc_connect returns when LTE is            *)
(* registered.                                                             *)
MainInv ==
  /\ main \in {"init", "returned"} => lte = "off"
  /\ main = "pause" => lte = "off" \/ pausedOn
  /\ main = "connecting" => lte = "searching"

(* Who is connected is in poll.  While the client is, main is in its loop  *)
(* or about to return to it; so it is while a request to reconnect is      *)
(* pending, and the client has not gone on to the next attempt.            *)
RequestInv ==
  /\ conn = "up" => client = "poll"
  /\ ~pausedOn =>
       /\ client = "poll" => main \in {"loop", "connected"}
       /\ reconnect => /\ main \in {"loop", "connected"}
                       /\ client \in {"take", "wait", "close", "sleep"}

(* Every round was asked for by a hang-up of its own: one is counted for   *)
(* each that was made, for the one that is asked for, and for the one the  *)
(* client is about to ask for.                                             *)
RoundsInv ==
  ~pausedOn =>
    rounds + Bit(reconnect) + Bit(client = "poll" /\ conn = "hup") <= hangups

(* lte_lc_connect waits for the network, and nothing else registers.       *)
LEMMA MainStep == TypeOK /\ MainInv /\ [Next]_vars => MainInv'
<1> SUFFICES ASSUME TypeOK, MainInv, [Next]_vars PROVE MainInv'
  OBVIOUS
<1> USE DEF MainInv, history
<1>1. CASE Register
  BY <1>1 DEF Register
<1>2. CASE LteLost
  BY <1>2 DEF LteLost
<1>3. CASE MainInit \/ TestReconnect \/ Offline
  BY <1>3 DEF MainInit, TestReconnect, Offline, lte_lc_offline, link
<1>4. CASE ModemConnect \/ ModemConnected \/ ModemConnectFails \/ PauseEnds
  BY <1>4 DEF TypeOK, ModemConnect, ModemConnected, ModemConnectFails, lte_lc_offline,
              PauseEnds, link
<1>5. CASE UNCHANGED <<lte, main, pausedOn>>
  BY <1>5
<1>6. QED
  BY <1>1, <1>2, <1>3, <1>4, <1>5
  DEF Next, Main, Client, Server, HangUp, LteHandler, CreateServer, Socket, Connect,
      PollError, PollHup, TakeSem, Close, Retry, Listen, Accept, Serve,
      PeerConnects, PeerActs, link, vars

(* A connection comes up only while main is in its loop or about to return *)
(* to it, for otherwise LTE is not registered or main's steps come first;  *)
(* and a client that asked for a reconnection sleeps until main's loop has *)
(* seen it.                                                                *)
LEMMA RequestStep == TypeOK /\ MainInv /\ RequestInv /\ [Next]_vars => RequestInv'
<1> SUFFICES ASSUME TypeOK, MainInv, RequestInv, [Next]_vars PROVE RequestInv'
  OBVIOUS
<1> USE DEF RequestInv, history
<1>1. CASE Register
  BY <1>1 DEF Register, MainInv, TypeOK, signals, tcp
<1>2. CASE HangUp
  BY <1>2 DEF HangUp, signals
<1>3. CASE LteHandler
  BY <1>3 DEF LteHandler, Give, tcp
<1>4. CASE MainInit \/ ModemConnect \/ ModemConnectFails \/ PauseEnds
  BY <1>4 DEF MainInit, ModemConnect, ModemConnectFails, lte_lc_offline, PauseEnds,
              TypeOK, signals, tcp
<1>5. CASE TestReconnect
  BY <1>5 DEF TestReconnect, tcp
<1>6. CASE Offline
  BY <1>6 DEF Offline, lte_lc_offline, signals
<1>7. CASE ModemConnected
  BY <1>7 DEF ModemConnected, Give, tcp
<1>8. CASE CreateServer \/ Socket
  BY <1>8 DEF CreateServer, Socket, signals, tcp
<1>9. CASE Connect
  BY <1>9 DEF Connect, MainFirst, MainInv, TypeOK, signals
<1>10. CASE PollHup
  BY <1>10 DEF PollHup, tcp
<1>11. CASE PollError \/ TakeSem \/ Close
  BY <1>11 DEF PollError, TakeSem, Close, signals, tcp
<1>12. CASE Retry
  BY <1>12 DEF Retry, SleepOver, signals, tcp
<1>13. CASE UNCHANGED <<conn, client, main, reconnect, pausedOn>>
  BY <1>13
<1>14. QED
  BY <1>1, <1>2, <1>3, <1>4, <1>5, <1>6, <1>7, <1>8, <1>9, <1>10, <1>11, <1>12, <1>13
  DEF Next, Main, Client, Server, LteLost, Listen, Accept, Serve, PeerConnects,
      PeerActs, signals, tcp, history, vars

(* What is counted moves from the hang-up to the request, and from the     *)
(* request to the round.                                                   *)
LEMMA RoundsStep == TypeOK /\ RequestInv /\ RoundsInv /\ [Next]_vars => RoundsInv'
<1> SUFFICES ASSUME TypeOK, RequestInv, RoundsInv, [Next]_vars PROVE RoundsInv'
  OBVIOUS
<1> USE DEF RoundsInv, Bit, TypeOK, history
<1>1. CASE HangUp
  BY <1>1 DEF HangUp, signals
<1>2. CASE TestReconnect
  BY <1>2 DEF TestReconnect, tcp, bounds
<1>3. CASE Offline \/ ModemConnectFails
  BY <1>3 DEF Offline, ModemConnectFails, lte_lc_offline, RequestInv, signals
<1>4. CASE PollHup
  BY <1>4 DEF PollHup, RequestInv, tcp, bounds
<1>5. CASE /\ UNCHANGED <<reconnect, rounds, hangups, pausedOn>>
           /\ client' = "poll" /\ conn' = "hup" => client = "poll" /\ conn = "hup"
  BY <1>5
<1>6. QED
  BY <1>1, <1>2, <1>3, <1>4, <1>5
  DEF Next, Main, Client, Server, Register, LteLost, LteHandler, Give, MainInit,
      ModemConnect, ModemConnected, PauseEnds, CreateServer,
      Socket, Connect, PollError, TakeSem, Close, Retry, Listen, Accept, Serve,
      PeerConnects, PeerActs, signals, tcp, bounds, vars

(* The link is taken down and up again once for every hang-up and never    *)
(* because of the reconnection itself: main's loop answers every request   *)
(* before the client has a connection that lte_lc_offline could break, as  *)
(* long as modem_connect has not paused with the modem on.                 *)
THEOREM RoundsNotRepeated == Spec => []OneRoundPerHangup
<1>1. Init => MainInv /\ RequestInv /\ RoundsInv
  BY DEF Init, MainInv, RequestInv, RoundsInv, Bit
<1>2. TypeOK /\ RoundsInv => OneRoundPerHangup
  BY DEF TypeOK, RoundsInv, OneRoundPerHangup, Bit
<1>3. QED
  BY <1>1, <1>2, TypeCorrect, MainStep, RequestStep, RoundsStep, PTL DEF Spec
=============================================================================
