---------------------------- MODULE Connectivity ----------------------------
(***************************************************************************)
(* Who is connected to what: LTE and the main loop (src/main.c), the       *)
(* connections that tcp_client_thread sets up and gives up, and the TCP    *)
(* server (src/socket_app.c).                                              *)
(*                                                                         *)
(* main and the client talk through the flag reconnect and the semaphore   *)
(* lte_connected_sem, which the handler of LTE events gives as well; the   *)
(* client and the server share the sockets of the modem.  A step is what a *)
(* thread does up to its next call that waits, of the kernel or the modem. *)
(***************************************************************************)
EXTENDS Naturals, FiniteSets

CONSTANTS
  Peers,       \* clients of the TCP server
  MaxSockets,  \* sockets the modem has
  MaxHangups,  \* bound: times the network or the remote end hangs up
  MaxFails     \* bound: calls that fail and times LTE is lost

ASSUME ConstantsAssumption ==
  MaxSockets \in Nat /\ MaxHangups \in Nat /\ MaxFails \in Nat

VARIABLES
  lte,                \* the modem: "off", "searching", "registered"
  event,              \* a LTE_LC_EVT_NW_REG_STATUS is on its way
  lte_connected_sem,  \* count of the semaphore
  reconnect,
  main,               \* where main is
  client,             \* where tcp_client_thread is
  conn,               \* its socket
  server,             \* where tcp_server_thread is
  peers,              \* what each client of the server is doing
  accepted,           \* clients the server has a socket for
  sockets,            \* sockets in use
  hangups, fails,     \* so far
  rounds,             \* history: times main took the link down and up again,
  pausedOn            \* as long as it has not paused with the modem still on

link    == <<lte, event>>
signals == <<lte_connected_sem, reconnect>>
tcp     == <<conn, sockets>>
serving == <<server, peers, accepted>>
bounds  == <<hangups, fails>>
history == <<rounds, pausedOn>>
vars    == <<link, signals, main, client, tcp, serving, bounds, history>>

Init ==
  /\ lte = "off" /\ event = FALSE
  /\ lte_connected_sem = 0 /\ reconnect = FALSE
  /\ main = "init" /\ client = "start" /\ conn = "none"
  /\ server = "none" /\ peers = [p \in Peers |-> "away"] /\ accepted = {}
  /\ sockets = 0 /\ hangups = 0 /\ fails = 0
  /\ rounds = 0 /\ pausedOn = FALSE

MayFail   == fails < MaxFails
OneFailed == fails' = fails + 1

(* k_sem_give wakes the client if it is waiting, in the first k_sem_take   *)
(* or in the one after POLLHUP; otherwise it counts, up to 1.              *)
GiveUnlimited ==  \* mutant: without the limit of 1
  \/ client = "start" /\ client' = "create" /\ UNCHANGED lte_connected_sem
  \/ client = "wait" /\ client' = "close" /\ UNCHANGED lte_connected_sem
  \/ /\ client \notin {"start", "wait"}
     /\ lte_connected_sem' = lte_connected_sem + 1 /\ UNCHANGED client

Give ==
  \/ client = "start" /\ client' = "create" /\ UNCHANGED lte_connected_sem
  \/ client = "wait" /\ client' = "close" /\ UNCHANGED lte_connected_sem
  \/ client \notin {"start", "wait"} /\ lte_connected_sem' = 1 /\ UNCHANGED client

-----------------------------------------------------------------------------
(* The network and the modem.                                              *)

(* An event tells the application, and lte_lc_connect returns.             *)
Register ==
  /\ lte = "searching"
  /\ lte' = "registered" /\ event' = TRUE
  /\ main' = IF main = "connecting" THEN "connected" ELSE main
  /\ UNCHANGED <<signals, client, tcp, serving, bounds, history>>

(* Coverage is lost; the modem searches by itself.  A TCP connection may   *)
(* survive that.                                                           *)
LteLost ==
  /\ lte = "registered" /\ MayFail /\ OneFailed
  /\ lte' = "searching"
  /\ UNCHANGED <<event, signals, main, client, tcp, serving, hangups, history>>

(* The connection ends, by the remote end or the network: poll will report *)
(* POLLHUP, or an error of another kind.                                   *)
HangUp ==
  /\ conn = "up"
  /\ \/ conn' = "hup" /\ hangups < MaxHangups /\ hangups' = hangups + 1 /\ UNCHANGED fails
     \/ conn' = "err" /\ MayFail /\ OneFailed /\ UNCHANGED hangups
  /\ UNCHANGED <<link, signals, main, client, sockets, serving, history>>

(* lte_handler: registered, at home or roaming.                            *)
LteHandler ==
  /\ event /\ event' = FALSE
  /\ Give
  /\ UNCHANGED <<lte, reconnect, main, tcp, serving, bounds, history>>

-----------------------------------------------------------------------------
(* main.                                                                   *)

(* nrf_modem_lib_init and lte_lc_connect_async, which fail or not; the     *)
(* UART and the FTP client are initialized before the loop.                *)
MainInit ==
  /\ main = "init"
  /\ \/ main' = "loop" /\ lte' = "searching" /\ UNCHANGED fails
     \/ main' = "returned" /\ MayFail /\ OneFailed /\ UNCHANGED lte
  /\ UNCHANGED <<event, signals, client, tcp, serving, hangups, history>>

(* reconnect is tested, at least every two seconds, and cleared; main does *)
(* not wait in between, and its priority is above the client's.            *)
TestReconnect ==
  /\ main = "loop" /\ reconnect
  /\ reconnect' = FALSE
  /\ main' = "offline"
  /\ rounds' = rounds + (IF pausedOn THEN 0 ELSE 1)
  /\ UNCHANGED <<link, lte_connected_sem, client, tcp, serving, bounds, pausedOn>>

(* It takes a connection with it, or fails, after other calls that failed. *)
lte_lc_offline(failed) ==
  \/ /\ lte' = "off"
     /\ conn' \in IF conn = "up" THEN {"hup", "err"} ELSE {conn}
     /\ fails' = fails + failed
  \/ /\ fails + failed < MaxFails /\ fails' = fails + failed + 1
     /\ UNCHANGED <<lte, conn>>

(* A failure of lte_lc_offline is only logged.                             *)
Offline ==
  /\ main = "offline"
  /\ main' = "connect"
  /\ lte_lc_offline(0)
  /\ UNCHANGED <<event, signals, client, sockets, serving, hangups, history>>

(* modem_connect: lte_lc_connect is called, which waits for LTE ...        *)
ModemConnect ==
  /\ main = "connect"
  /\ main' = IF lte = "registered" THEN "connected" ELSE "connecting"
  /\ lte' = IF lte = "off" THEN "searching" ELSE lte
  /\ UNCHANGED <<event, signals, client, tcp, serving, bounds, history>>

(* ... and returns with LTE connected ...                                  *)
ModemConnectedSilently ==  \* mutant: without k_sem_give
  /\ main = "connected"
  /\ main' = "loop"
  /\ UNCHANGED <<link, signals, client, tcp, serving, bounds, history>>

ModemConnected ==
  /\ main = "connected"
  /\ main' = "loop"
  /\ Give
  /\ UNCHANGED <<link, reconnect, tcp, serving, bounds, history>>

(* ... or fails, LTE registered or not: offline, which may fail as well,   *)
(* and again after a minute.                                               *)
ModemConnectFails ==
  /\ main \in {"connect", "connecting"} /\ MayFail
  /\ lte_lc_offline(1)
  /\ main' = "pause"
  /\ pausedOn' = (pausedOn \/ lte' # "off")
  /\ UNCHANGED <<event, signals, client, sockets, serving, hangups, rounds>>

PauseEnds ==
  /\ main = "pause" /\ main' = "connect"
  /\ UNCHANGED <<link, signals, client, tcp, serving, bounds, history>>

-----------------------------------------------------------------------------
(* tcp_client_thread.  main does not wait before it calls lte_lc_connect,  *)
(* and its priority is above the client's.                                 *)

MainFirst == main # "connect"

(* create_tcp_server_thread, once LTE is connected for the first time.     *)
CreateServer ==
  /\ client = "create"
  /\ server' = "socket" /\ client' = "socket"
  /\ UNCHANGED <<link, signals, main, tcp, peers, accepted, bounds, history>>

(* socket, the label retry.                                                *)
Socket ==
  /\ client = "socket"
  /\ \/ /\ sockets < MaxSockets
        /\ sockets' = sockets + 1 /\ conn' = "open" /\ client' = "connect"
     \/ sockets = MaxSockets /\ client' = "close" /\ UNCHANGED tcp
  /\ UNCHANGED <<link, signals, main, serving, bounds, history>>

(* setsockopt and connect; a modem that is going offline does not connect. *)
Connect ==
  /\ client = "connect" /\ MainFirst
  /\ \/ /\ lte = "registered" /\ main # "offline"
        /\ conn' = "up" /\ client' = "poll" /\ UNCHANGED fails
     \/ /\ lte # "registered" \/ main = "offline"
        /\ client' = "close" /\ UNCHANGED <<conn, fails>>
     \/ MayFail /\ OneFailed /\ client' = "close" /\ UNCHANGED conn
  /\ UNCHANGED <<link, signals, main, sockets, serving, hangups, history>>

(* poll reports an error, or sending has failed too often.                 *)
PollError ==
  /\ client = "poll" /\ conn = "err"
  /\ client' = "close"
  /\ UNCHANGED <<link, signals, main, tcp, serving, bounds, history>>

(* POLLHUP: main is asked to reconnect, and its answer is waited for.      *)
PollHup ==
  /\ client = "poll" /\ conn = "hup"
  /\ reconnect' = TRUE
  /\ client' = "take"
  /\ UNCHANGED <<link, lte_connected_sem, main, tcp, serving, bounds, history>>

TakeSem ==
  /\ client = "take"
  /\ \/ /\ lte_connected_sem > 0
        /\ lte_connected_sem' = lte_connected_sem - 1 /\ client' = "close"
     \/ lte_connected_sem = 0 /\ client' = "wait" /\ UNCHANGED lte_connected_sem
  /\ UNCHANGED <<link, reconnect, main, tcp, serving, bounds, history>>

(* error_exit.                                                             *)
CloseConnected ==  \* mutant: a socket that was not connected stays open
  /\ client = "close"
  /\ client' = "sleep"
  /\ conn' = "none"
  /\ sockets' = IF conn \in {"none", "open"} THEN sockets ELSE sockets - 1
  /\ UNCHANGED <<link, signals, main, serving, bounds, history>>

Close ==
  /\ client = "close"
  /\ client' = "sleep"
  /\ conn' = "none"
  /\ sockets' = IF conn = "none" THEN sockets ELSE sockets - 1
  /\ UNCHANGED <<link, signals, main, serving, bounds, history>>

(* The three seconds before the next attempt.  main, in its loop or about  *)
(* to return to it, looks at reconnect every two: it is assumed to see it  *)
(* by then.                                                                *)
SleepShort == TRUE  \* mutant: less than main's two seconds

SleepOver == ~(main \in {"loop", "connected"} /\ reconnect)

Retry ==
  /\ client = "sleep" /\ SleepOver
  /\ client' = "socket"
  /\ UNCHANGED <<link, signals, main, tcp, serving, bounds, history>>

-----------------------------------------------------------------------------
(* tcp_server_thread, and its clients.                                     *)

(* socket, bind, listen: the thread ends when one of them fails.           *)
Listen ==
  /\ server = "socket"
  /\ \/ /\ sockets < MaxSockets
        /\ sockets' = sockets + 1 /\ server' = "accept" /\ UNCHANGED fails
     \/ /\ sockets = MaxSockets \/ MayFail
        /\ fails' = fails + (IF sockets = MaxSockets THEN 0 ELSE 1)
        /\ server' = "returned" /\ UNCHANGED sockets
  /\ UNCHANGED <<link, signals, main, client, conn, peers, accepted, hangups, history>>

PeerConnects(p) ==
  /\ peers[p] = "away" /\ server \in {"accept", "recv"} /\ lte = "registered"
  /\ peers' = [peers EXCEPT ![p] = "waiting"]
  /\ UNCHANGED <<link, signals, main, client, tcp, server, accepted, bounds, history>>

(* accept; without a socket it fails, and is called again.                 *)
Accept(p) ==
  /\ server = "accept" /\ peers[p] = "waiting" /\ sockets < MaxSockets
  /\ server' = "recv"
  /\ peers' = [peers EXCEPT ![p] = "connected"]
  /\ accepted' = accepted \cup {p}
  /\ sockets' = sockets + 1
  /\ UNCHANGED <<link, signals, main, client, conn, bounds, history>>

(* A client sends its request, or hangs up, or does neither.               *)
PeerActs(p) ==
  /\ peers[p] = "connected"
  /\ \E a \in {"asking", "gone"} : peers' = [peers EXCEPT ![p] = a]
  /\ UNCHANGED <<link, signals, main, client, tcp, server, accepted, bounds, history>>

(* recv and handle_client_request.  The socket stays open.                 *)
ServeAndReturn(p) ==  \* mutant: the thread ends when recv returns nothing
  /\ server = "recv" /\ p \in accepted
  /\ \/ /\ peers[p] = "asking" /\ peers' = [peers EXCEPT ![p] = "answered"]
        /\ server' = "accept"
     \/ /\ peers[p] = "gone" /\ peers' = [peers EXCEPT ![p] = "ended"]
        /\ server' = "returned"
  /\ UNCHANGED <<link, signals, main, client, tcp, accepted, bounds, history>>

Serve(p) ==
  /\ server = "recv" /\ p \in accepted
  /\ \/ peers[p] = "asking" /\ peers' = [peers EXCEPT ![p] = "answered"]
     \/ peers[p] = "gone" /\ peers' = [peers EXCEPT ![p] = "ended"]
  /\ server' = "accept"
  /\ UNCHANGED <<link, signals, main, client, tcp, accepted, bounds, history>>

-----------------------------------------------------------------------------
Main ==
  \/ MainInit \/ TestReconnect \/ Offline \/ ModemConnect \/ ModemConnected
  \/ PauseEnds

Client ==
  \/ CreateServer \/ Socket \/ Connect \/ PollError \/ PollHup \/ TakeSem
  \/ Close \/ Retry

Server == Listen \/ \E p \in Peers : Accept(p) \/ Serve(p)

Next ==
  \/ Register \/ LteLost \/ HangUp \/ LteHandler
  \/ Main \/ ModemConnectFails \/ Client \/ Server
  \/ \E p \in Peers : PeerConnects(p) \/ PeerActs(p)

Spec == Init /\ [][Next]_vars

(* The threads run, a modem that searches finds a network, and its events  *)
(* are delivered.  The server calls accept over and over, so it gets the   *)
(* socket that tcp_client_thread does without for three seconds at a time. *)
(* Nothing is assumed of the server's clients.                             *)
FairSpec ==
  /\ Spec
  /\ WF_vars(Register) /\ WF_vars(LteHandler)
  /\ WF_vars(Main) /\ WF_vars(Client) /\ SF_vars(Server)

-----------------------------------------------------------------------------
TypeOK ==
  /\ lte \in {"off", "searching", "registered"} /\ event \in BOOLEAN
  /\ lte_connected_sem \in {0, 1} /\ reconnect \in BOOLEAN
  /\ main \in {"init", "loop", "offline", "connect", "connecting", "connected",
             "pause", "returned"}
  /\ client \in {"start", "create", "socket", "connect", "poll", "take", "wait",
                 "close", "sleep"}
  /\ conn \in {"none", "open", "up", "hup", "err"}
  /\ server \in {"none", "socket", "accept", "recv", "returned"}
  /\ peers \in [Peers -> {"away", "waiting", "connected", "asking", "gone",
                          "answered", "ended"}]
  /\ accepted \in SUBSET Peers
  /\ sockets \in Nat /\ hangups \in Nat /\ fails \in Nat /\ rounds \in Nat
  /\ pausedOn \in BOOLEAN

Bit(c) == IF c THEN 1 ELSE 0

(* Every socket in use belongs to somebody: one at most to the TCP client, *)
(* whichever of its calls failed, one to the listening server, and one to  *)
(* each client it ever accepted.  So the TCP client lacks a socket only    *)
(* when the server has accepted all but one.                               *)
SocketsAccounted ==
  sockets = Bit(conn # "none") + Bit(server \in {"accept", "recv"})
              + Cardinality(accepted)

(* The link is taken down once for every time the connection was hung up,  *)
(* and never again because of that very reconnection: the client, waiting  *)
(* or asleep, has no connection that lte_lc_offline could break (the       *)
(* client's three seconds against the two of main's loop, whatever tokens  *)
(* the semaphore still holds).  Not so once modem_connect has paused with  *)
(* the modem on: the client connects in that minute, and the next try may  *)
(* break its connection.                                                   *)
OneRoundPerHangup == ~pausedOn => rounds <= hangups

(* A client that waits for LTE after POLLHUP is woken, also when           *)
(* lte_lc_offline failed and no event of LTE will come.                    *)
WaitEnds == client = "wait" ~> client # "wait"

(* All sockets but one are gone to the server.                             *)
Starved == Cardinality(accepted) >= MaxSockets - 1

(* A connection that was given up, for whatever reason, is set up again,   *)
(* unless the server has taken the sockets (the loop through retry).       *)
ClientReconnects == client = "close" ~> client = "poll" \/ Starved

(* A client of the server is accepted, unless from some time on the        *)
(* sockets are all in use, or one that is connected keeps silent: recv has *)
(* no time-out, and one silent client keeps all others waiting.            *)
HeldUp == sockets = MaxSockets \/ \E p \in accepted : peers[p] = "connected"

PeerAccepted ==
  \A p \in Peers :
    []<>~HeldUp => (peers[p] = "waiting" ~> peers[p] # "waiting")
=============================================================================
