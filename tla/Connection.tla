----------------------------- MODULE Connection -----------------------------
(***************************************************************************)
(* How the two programs get their sockets: listen and connect              *)
(* (util/connection.cpp) over CSocket (util/socket.h), and the two loops   *)
(* of psi_demonstrator that call them.                                     *)
(*                                                                         *)
(* The server listens on the last entry of sockfds, accepts nconnections   *)
(* connections from it, and stores them in sockfds from the first entry    *)
(* on, so the last accept replaces the listener.  The client connects its  *)
(* sockets one after the other, each with a bounded number of tries.  Both *)
(* go on to the demo whatever listen and connect return.                   *)
(***************************************************************************)
EXTENDS Naturals, Sequences

CONSTANTS
    NTasks,          \* sockets to connect; the demo has ntasks = 1
    RETRY_CONNECT,   \* tries per socket
    Backlog,         \* nQLen, the connections listen(2) queues
    INVALID_SOCKET,
    Listener,        \* the descriptor the server listens on
    Faults           \* calls that may fail: "socket", "bind", "listen",
                     \* "accept", "connect"

ASSUME NTasksAssumption == NTasks \in Nat \ {0}
ASSUME RetryAssumption == RETRY_CONNECT \in Nat \ {0}
ASSUME BacklogAssumption == Backlog \in Nat \ {0}

Tasks == 1..NTasks

\* A connection is named by the descriptor of its client end: the t-th socket
\* made for sockfd[i].
Conn == Tasks \X (1..RETRY_CONNECT)

ASSUME DescriptorAssumption ==
    /\ INVALID_SOCKET \notin Conn \cup {Listener}
    /\ Listener \notin Conn

VARIABLES
    spc,        \* server: "socket", "bind", "listen", "accept" or "demo"
    accepted,   \* loop counter of listen: connections accepted
    sockfds,    \* server: sockfds[i].m_hSock
    listened,   \* what listen returned: "none" before, "true" or "false"
    listening,  \* the kernel accepts connections for the server
    queue,      \* established connections the server has not accepted yet
    cpc,        \* client: "socket", "connect" or "demo"
    task,       \* the socket the client is connecting
    try,        \* loop counter of connect
    sockfd,     \* client: sockfd[i].m_hSock
    copen,      \* descriptors the client process has open
    connected   \* connected[i]: what connect returned for sockfd[i]

serverVars == <<spc, accepted, sockfds, listened, listening>>
clientVars == <<cpc, task, try, sockfd, copen, connected>>
vars == <<serverVars, queue, clientVars>>

Init ==
    /\ spc = "socket" /\ cpc = "socket"
    /\ accepted = 0 /\ task = 1 /\ try = 1
    /\ sockfds = [i \in Tasks |-> INVALID_SOCKET]
    /\ sockfd = [i \in Tasks |-> INVALID_SOCKET]
    /\ listened = "none"
    /\ connected = [i \in Tasks |-> "none"]
    /\ listening = FALSE
    /\ queue = <<>>
    /\ copen = {}

-----------------------------------------------------------------------------
(* The server.                                                             *)

\* Variant: the listener takes the first entry.
LidFirst == 1
\* The entry of sockfds that listens.
Lid == NTasks

\* listen_failure: nothing is closed, and psi_demonstrator goes on.
ListenFails ==
    /\ spc' = "demo"
    /\ listened' = "false"

ServerSocket ==
    /\ spc = "socket"
    /\ \/ /\ sockfds' = [sockfds EXCEPT ![Lid] = Listener]
          /\ spc' = "bind"
          /\ UNCHANGED listened
       \/ "socket" \in Faults /\ ListenFails /\ UNCHANGED sockfds
    /\ UNCHANGED <<accepted, listening, queue, clientVars>>

Bind ==
    /\ spc = "bind"
    /\ \/ spc' = "listen" /\ UNCHANGED listened
       \/ "bind" \in Faults /\ ListenFails
    /\ UNCHANGED <<accepted, sockfds, listening, queue, clientVars>>

Listen ==
    /\ spc = "listen"
    /\ \/ spc' = "accept" /\ listening' = TRUE /\ UNCHANGED listened
       \/ "listen" \in Faults /\ ListenFails /\ UNCHANGED listening
    /\ UNCHANGED <<accepted, sockfds, queue, clientVars>>

\* One turn of the loop; accept(2) blocks on the listener while no connection
\* is there, and fails on a descriptor that does not listen.
Accept ==
    /\ spc = "accept" /\ accepted < NTasks
    /\ \/ /\ sockfds[Lid] = Listener /\ queue # <<>>
          /\ sockfds' = [sockfds EXCEPT ![accepted + 1] = Head(queue)]
          /\ queue' = Tail(queue)
          /\ accepted' = accepted + 1
          /\ UNCHANGED <<spc, listened>>
       \/ /\ sockfds[Lid] # Listener
          /\ ListenFails
          /\ UNCHANGED <<sockfds, queue, accepted>>
    /\ UNCHANGED <<listening, clientVars>>

AcceptFails ==
    /\ "accept" \in Faults
    /\ spc = "accept" /\ accepted < NTasks
    /\ ListenFails
    /\ UNCHANGED <<accepted, sockfds, listening, queue, clientVars>>

ListenReturns ==
    /\ spc = "accept" /\ accepted = NTasks
    /\ spc' = "demo"
    /\ listened' = "true"
    /\ UNCHANGED <<accepted, sockfds, listening, queue, clientVars>>

Server == ServerSocket \/ Bind \/ Listen \/ Accept \/ ListenReturns

-----------------------------------------------------------------------------
(* The client.                                                             *)

\* connect returns for one socket, and the loop of psi_demonstrator takes the
\* next.
ConnectReturns(res) ==
    /\ connected' = [connected EXCEPT ![task] = res]
    /\ task' = task + 1
    /\ try' = 1
    /\ cpc' = IF task = NTasks THEN "demo" ELSE "socket"

\* Socket closes what the CSocket holds and opens a new descriptor.
ClientSocket ==
    /\ cpc = "socket"
    /\ \/ /\ sockfd' = [sockfd EXCEPT ![task] = <<task, try>>]
          /\ copen' = (copen \ {sockfd[task]}) \cup {<<task, try>>}
          /\ cpc' = "connect"
          /\ UNCHANGED <<task, try, connected>>
       \/ /\ "socket" \in Faults
          /\ sockfd' = [sockfd EXCEPT ![task] = INVALID_SOCKET]
          /\ copen' = copen \ {sockfd[task]}
          /\ ConnectReturns("false")
    /\ UNCHANGED <<serverVars, queue>>

\* The kernel completes the connection before the server accepts it.
Connect ==
    /\ cpc = "connect"
    /\ listening /\ Len(queue) < Backlog
    /\ queue' = Append(queue, sockfd[task])
    /\ ConnectReturns("true")
    /\ UNCHANGED <<serverVars, sockfd, copen>>

\* A refused try, or one that timed out.
RefusedThen(fd, open, lastTry, res, next) ==
    /\ cpc = "connect"
    /\ ~listening \/ Len(queue) >= Backlog \/ "connect" \in Faults
    /\ sockfd' = [sockfd EXCEPT ![task] = fd]
    /\ copen' = open
    /\ IF lastTry
       THEN ConnectReturns(res)
       ELSE try' = next /\ cpc' = "socket" /\ UNCHANGED <<task, connected>>
    /\ UNCHANGED <<serverVars, queue>>

\* Variants: the socket of a failed try stays open; a loop that does not
\* count; one try too many; giving up is not reported.
RefusedKeeps == RefusedThen(sockfd[task], copen, try = RETRY_CONNECT, "false", try + 1)
RefusedForever ==
    RefusedThen(INVALID_SOCKET, copen \ {sockfd[task]}, FALSE, "false", try)
RefusedOnceMore ==
    RefusedThen(INVALID_SOCKET, copen \ {sockfd[task]}, try > RETRY_CONNECT, "false", try + 1)
RefusedSilent ==
    RefusedThen(INVALID_SOCKET, copen \ {sockfd[task]}, try = RETRY_CONNECT, "true", try + 1)
\* Close, and again from the top of the loop.
Refused ==
    RefusedThen(INVALID_SOCKET, copen \ {sockfd[task]}, try = RETRY_CONNECT, "false", try + 1)

Client == ClientSocket \/ Connect \/ Refused

\* Both programs go on to the demo.
Demo == spc = "demo" /\ cpc = "demo" /\ UNCHANGED vars

Next == Server \/ AcceptFails \/ Client \/ Demo

Spec == Init /\ [][Next]_vars

\* Both programs run; nothing forces accept(2) to fail.
FairSpec == Spec /\ WF_vars(Server) /\ WF_vars(Client)

-----------------------------------------------------------------------------
(* Properties.                                                             *)

TypeOK ==
    /\ spc \in {"socket", "bind", "listen", "accept", "demo"}
    /\ cpc \in {"socket", "connect", "demo"}
    /\ accepted \in 0..NTasks
    /\ task \in 1..(NTasks + 1)
    /\ try \in 1..RETRY_CONNECT
    /\ sockfds \in [Tasks -> Conn \cup {Listener, INVALID_SOCKET}]
    /\ sockfd \in [Tasks -> Conn \cup {INVALID_SOCKET}]
    /\ listened \in {"none", "true", "false"}
    /\ connected \in [Tasks -> {"none", "true", "false"}]
    /\ listening \in BOOLEAN
    /\ queue \in Seq(Conn)
    /\ copen \subseteq Conn

\* The i-th sockets of the two programs are the two ends of one connection,
\* if connect was true to its word for the sockets up to the i-th: nothing but
\* the order of the calls pairs them.
Paired ==
    \A i \in 1..accepted :
        (\A j \in 1..i : connected[j] # "false") => sockfds[i] = sockfd[i]

\* The listener is there as long as there is a connection left to accept,
\* although the connections are stored in the array that holds it.
ListenerKept == spc = "accept" /\ accepted < NTasks => sockfds[Lid] = Listener

\* The client has open exactly what its CSockets refer to, over all its tries;
\* and a socket is open after connect only when connect succeeded.
NoneLeft ==
    /\ copen = {sockfd[i] : i \in Tasks} \ {INVALID_SOCKET}
    /\ \A i \in Tasks : connected[i] = "false" => sockfd[i] = INVALID_SOCKET

\* The client gets to the demo, with or without a connection.
ClientReturns == <>(cpc = "demo")

\* Unless a call failed or the client ran out of tries, both get to the demo
\* connected; the server does not wait for a connection it already has.
Connects ==
    \/ <>(listened = "false" \/ \E i \in Tasks : connected[i] = "false")
    \/ <>(listened = "true" /\ \A i \in Tasks : connected[i] = "true")
=============================================================================
