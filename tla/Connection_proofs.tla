-------------------------- MODULE Connection_proofs --------------------------
(***************************************************************************)
(* The sockets are paired, the listener is kept and no descriptor is lost, *)
(* for any number of sockets, tries and queued connections.                *)
(***************************************************************************)
EXTENDS Connection, TLAPS

\* The connections the kernel has established, in their order.
Established == accepted + Len(queue)
Nth(k) == IF k <= accepted THEN sockfds[k] ELSE queue[k - accepted]

\* Where the two programs are.
ControlInv ==
    /\ cpc = "demo" <=> task = NTasks + 1
    /\ spc \in {"socket", "bind", "listen"} => accepted = 0
    /\ \A i \in Tasks : connected[i] = "none" <=> i >= task

\* A socket of the client holds a descriptor made for it, or none; the one
\* being connected holds the latest one, those behind it none.
HandleInv ==
    /\ \A i \in Tasks : sockfd[i] # INVALID_SOCKET => \E t \in 1..RETRY_CONNECT : sockfd[i] = <<i, t>>
    /\ cpc = "connect" => sockfd[task] = <<task, try>>
    /\ \A i \in Tasks : i > task \/ (i = task /\ cpc = "socket") => sockfd[i] = INVALID_SOCKET

ListenerInv ==
    spc \in {"bind", "listen"} \/ (spc = "accept" /\ accepted < NTasks) =>
        sockfds[NTasks] = Listener

\* The n-th connection is that of the n-th socket, as long as no try failed;
\* and then none is missing.
OrderInv ==
    /\ Established < task
    /\ \A i \in 1..(task - 1) :
          (\A j \in 1..i : connected[j] = "true") => Established >= i
    /\ \A i \in 1..Established :
          (\A j \in 1..i : connected[j] = "true") => Nth(i) = sockfd[i]

CInv == TypeOK /\ ControlInv /\ HandleInv /\ NoneLeft /\ ListenerInv /\ OrderInv

-----------------------------------------------------------------------------

USE NTasksAssumption, RetryAssumption, BacklogAssumption DEF Tasks

LEMMA InitInv == Init => CInv
  <1> SUFFICES ASSUME Init PROVE CInv
    OBVIOUS
  <1>1. TypeOK
    <2>1. NTasks \in Nat /\ NTasks > 0 /\ RETRY_CONNECT \in Nat /\ RETRY_CONNECT > 0
      OBVIOUS
    <2>2. accepted \in 0..NTasks /\ task \in 1..(NTasks + 1) /\ try \in 1..RETRY_CONNECT
      BY <2>1 DEF Init
    <2>3. queue \in Seq(Conn) /\ copen \subseteq Conn
      BY DEF Init
    <2>4. /\ sockfds \in [Tasks -> Conn \cup {Listener, INVALID_SOCKET}]
          /\ sockfd \in [Tasks -> Conn \cup {INVALID_SOCKET}]
          /\ connected \in [Tasks -> {"none", "true", "false"}]
      BY DEF Init
    <2> QED BY <2>2, <2>3, <2>4 DEF Init, TypeOK
  <1>2. ControlInv /\ HandleInv /\ NoneLeft /\ ListenerInv
    BY DEF Init, ControlInv, HandleInv, NoneLeft, ListenerInv
  <1>3. OrderInv
    BY DEF Init, OrderInv, Established
  <1> QED BY <1>1, <1>2, <1>3 DEF CInv

\* The server's calls before the accept loop, its return and its failures.
LEMMA ServerStep ==
    ASSUME CInv, ServerSocket \/ Bind \/ Listen \/ AcceptFails \/ ListenReturns
    PROVE  CInv'
  <1>1. UNCHANGED <<accepted, queue, clientVars>>
    BY DEF ServerSocket, Bind, Listen, AcceptFails, ListenReturns
  <1>2. UNCHANGED sockfds \/ (accepted = 0 /\ sockfds' = [sockfds EXCEPT ![NTasks] = Listener])
    BY DEF CInv, ControlInv, ServerSocket, Bind, Listen, AcceptFails, ListenReturns, Lid
  <1>3. TypeOK'
    BY <1>1 DEF CInv, TypeOK, clientVars, ServerSocket, Bind, Listen, AcceptFails,
                ListenReturns, ListenFails, Lid
  <1>4. HandleInv' /\ NoneLeft'
    BY <1>1 DEF CInv, HandleInv, NoneLeft, clientVars
  <1>5. ControlInv'
    BY <1>1 DEF CInv, ControlInv, clientVars, ServerSocket, Bind, Listen, AcceptFails,
                ListenReturns, ListenFails
  <1>6. ListenerInv'
    BY DEF CInv, TypeOK, ListenerInv, ServerSocket, Bind, Listen, AcceptFails,
           ListenReturns, ListenFails, Lid
  <1>7. OrderInv'
    <2>1. Established' = Established
      BY <1>1 DEF Established
    <2>2. ASSUME NEW k \in 1..Established PROVE Nth(k)' = Nth(k)
      BY <1>1, <1>2 DEF CInv, TypeOK, Nth, Established
    <2> QED BY <1>1, <2>1, <2>2 DEF CInv, OrderInv, clientVars
  <1> QED BY <1>3, <1>4, <1>5, <1>6, <1>7 DEF CInv

\* accept takes the oldest connection: no position changes.
LEMMA AcceptStep ==
    ASSUME CInv, Accept
    PROVE  CInv'
  <1> USE DEF CInv
  <1>1. /\ sockfds[NTasks] = Listener /\ queue # <<>> /\ accepted < NTasks /\ accepted \in Nat
        /\ sockfds' = [sockfds EXCEPT ![accepted + 1] = queue[1]]
        /\ queue' = Tail(queue) /\ accepted' = accepted + 1
        /\ spc = "accept"
        /\ UNCHANGED <<spc, listened, listening, clientVars>>
    BY DEF Accept, ListenerInv, Lid, TypeOK
  <1>2. /\ queue \in Seq(Conn) /\ Len(queue) \in Nat /\ Len(queue) > 0 /\ queue[1] \in Conn
        /\ queue' \in Seq(Conn) /\ Len(queue') = Len(queue) - 1
        /\ \A k \in 1..Len(queue') : queue'[k] = queue[k + 1]
    BY <1>1 DEF TypeOK
  <1>3. TypeOK'
    BY <1>1, <1>2 DEF TypeOK, clientVars
  <1>4. ControlInv' /\ HandleInv' /\ NoneLeft'
    BY <1>1 DEF ControlInv, HandleInv, NoneLeft, clientVars
  <1>5. ListenerInv'
    BY <1>1 DEF ListenerInv, TypeOK
  <1>6. OrderInv'
    <2>1. Established' = Established /\ Established \in Nat
      BY <1>1, <1>2 DEF Established
    <2>2. ASSUME NEW k \in 1..Established PROVE Nth(k)' = Nth(k)
      <3>1. CASE k <= accepted
        BY <1>1, <2>1, <3>1 DEF Nth, TypeOK
      <3>2. CASE k = accepted + 1
        BY <1>1, <2>1, <3>2 DEF Nth, TypeOK
      <3>3. CASE k > accepted + 1
        <4>1. k - accepted' \in 1..Len(queue') /\ k - accepted' + 1 = k - accepted
          BY <1>1, <1>2, <2>1, <3>3 DEF Established
        <4> QED BY <1>1, <1>2, <2>1, <3>3, <4>1 DEF Nth
      <3> QED BY <1>1, <2>1, <3>1, <3>2, <3>3
    <2> QED BY <1>1, <2>1, <2>2 DEF OrderInv, clientVars
  <1> QED BY <1>3, <1>4, <1>5, <1>6

\* Descriptors of different sockets differ, and none is INVALID_SOCKET.
LEMMA Descriptors ==
    ASSUME CInv, cpc # "demo"
    PROVE  /\ task \in Tasks /\ task \in Nat /\ try \in 1..RETRY_CONNECT
           /\ <<task, try>> \in Conn /\ <<task, try>> # INVALID_SOCKET
           /\ sockfd[task] \in Conn \cup {INVALID_SOCKET}
           /\ INVALID_SOCKET \notin copen
           /\ \A i \in Tasks : i # task => sockfd[i] = INVALID_SOCKET
                                           \/ sockfd[i] \notin {sockfd[task], <<task, try>>}
  <1>1. task \in 1..(NTasks + 1) /\ task # NTasks + 1 /\ NTasks \in Nat
    BY DEF CInv, TypeOK, ControlInv
  <1>2. task \in Tasks /\ task \in Nat /\ try \in 1..RETRY_CONNECT
    BY <1>1 DEF CInv, TypeOK
  <1>3. <<task, try>> \in Conn /\ <<task, try>> # INVALID_SOCKET
    BY <1>2, DescriptorAssumption DEF Conn
  <1>4. sockfd[task] \in Conn \cup {INVALID_SOCKET} /\ INVALID_SOCKET \notin copen
    BY <1>2 DEF CInv, TypeOK, NoneLeft
  <1>5. ASSUME NEW i \in Tasks, i # task, sockfd[i] # INVALID_SOCKET
        PROVE  sockfd[i] \notin {sockfd[task], <<task, try>>}
    <2>1. PICK t \in 1..RETRY_CONNECT : sockfd[i] = <<i, t>>
      BY <1>5 DEF CInv, HandleInv
    <2>2. sockfd[task] # INVALID_SOCKET => \E u \in 1..RETRY_CONNECT : sockfd[task] = <<task, u>>
      BY <1>2 DEF CInv, HandleInv
    <2> QED BY <1>5, <2>1, <2>2
  <1> QED BY <1>2, <1>3, <1>4, <1>5

\* Where no connection is added, positions and handles below task are as before.
LEMMA OrderKept ==
    ASSUME CInv, cpc # "demo", UNCHANGED <<serverVars, queue>>,
           NEW fd, sockfd' = [sockfd EXCEPT ![task] = fd],
           \/ UNCHANGED <<task, connected>>
           \/ task' = task + 1 /\ connected' = [connected EXCEPT ![task] = "false"]
    PROVE  OrderInv'
  <1>1. task \in Tasks /\ task \in Nat
    BY Descriptors
  <1>2. Established \in Nat /\ Established' = Established /\ Established < task
    BY DEF serverVars, Established, CInv, TypeOK, OrderInv
  <1>3. \A k \in 1..Established : Nth(k)' = Nth(k)
    BY DEF serverVars, Nth
  <1>4. \A i \in 1..(task - 1) : sockfd'[i] = sockfd[i] /\ connected'[i] = connected[i]
    BY <1>1 DEF CInv, TypeOK
  <1>5. Established' < task'
    BY <1>1, <1>2
  <1>6. ASSUME NEW i \in 1..(task' - 1), \A j \in 1..i : connected'[j] = "true"
        PROVE  Established' >= i
    <2>1. i # task
      BY <1>1, <1>6 DEF CInv, TypeOK
    <2>2. i \in 1..(task - 1) /\ \A j \in 1..i : j \in 1..(task - 1)
      BY <1>1, <1>6, <2>1
    <2> QED BY <1>2, <1>4, <1>6, <2>2 DEF CInv, OrderInv
  <1>7. ASSUME NEW i \in 1..Established', \A j \in 1..i : connected'[j] = "true"
        PROVE  Nth(i)' = sockfd'[i]
    <2>1. i \in 1..Established /\ i \in 1..(task - 1) /\ \A j \in 1..i : j \in 1..(task - 1)
      BY <1>1, <1>2
    <2> QED BY <1>3, <1>4, <1>7, <2>1 DEF CInv, OrderInv
  <1> QED BY <1>5, <1>6, <1>7 DEF OrderInv

\* A new descriptor for the socket.
LEMMA SocketStep ==
    ASSUME CInv, ClientSocket, cpc' = "connect"
    PROVE  CInv'
  <1>1. /\ cpc = "socket" /\ sockfd' = [sockfd EXCEPT ![task] = <<task, try>>]
        /\ copen' = (copen \ {sockfd[task]}) \cup {<<task, try>>}
        /\ UNCHANGED <<task, try, connected, serverVars, queue>>
    BY DEF ClientSocket, ConnectReturns
  <1>2. /\ task \in Tasks /\ task \in Nat /\ try \in 1..RETRY_CONNECT
        /\ <<task, try>> \in Conn /\ <<task, try>> # INVALID_SOCKET
        /\ INVALID_SOCKET \notin copen /\ sockfd[task] = INVALID_SOCKET
    BY <1>1, Descriptors DEF CInv, HandleInv
  <1>3. sockfd \in [Tasks -> Conn \cup {INVALID_SOCKET}]
    BY DEF CInv, TypeOK
  <1>4. TypeOK'
    BY <1>1, <1>2, <1>3 DEF CInv, TypeOK, serverVars
  <1>5. ControlInv' /\ ListenerInv'
    BY <1>1 DEF CInv, ControlInv, ListenerInv, serverVars
  <1>6. HandleInv'
    BY <1>1, <1>2, <1>3 DEF CInv, HandleInv
  <1>7. NoneLeft'
    <2>1. copen' = {sockfd'[i] : i \in Tasks} \ {INVALID_SOCKET}
      BY <1>1, <1>2, <1>3 DEF CInv, NoneLeft
    <2>2. \A i \in Tasks : connected'[i] = "false" => sockfd'[i] = INVALID_SOCKET
      BY <1>1, <1>2, <1>3 DEF CInv, NoneLeft, ControlInv
    <2> QED BY <2>1, <2>2 DEF NoneLeft
  <1>8. OrderInv'
    BY <1>1, OrderKept
  <1> QED BY <1>4, <1>5, <1>6, <1>7, <1>8 DEF CInv

\* A try that left the socket without a descriptor: another one, or the next
\* socket.
LEMMA ClosedStep ==
    ASSUME CInv, Refused \/ (ClientSocket /\ cpc' # "connect")
    PROVE  CInv'
  <1>1. /\ cpc # "demo" /\ sockfd' = [sockfd EXCEPT ![task] = INVALID_SOCKET]
        /\ copen' = copen \ {sockfd[task]}
        /\ UNCHANGED <<serverVars, queue>>
        /\ \/ /\ try # RETRY_CONNECT /\ try' = try + 1 /\ cpc' = "socket"
              /\ UNCHANGED <<task, connected>>
           \/ /\ connected' = [connected EXCEPT ![task] = "false"]
              /\ task' = task + 1 /\ try' = 1
              /\ cpc' = IF task = NTasks THEN "demo" ELSE "socket"
    BY DEF Refused, RefusedThen, ClientSocket, ConnectReturns
  <1>2. /\ task \in Tasks /\ task \in Nat /\ try \in 1..RETRY_CONNECT
        /\ INVALID_SOCKET \notin copen
        /\ \A i \in Tasks : i # task => sockfd[i] = INVALID_SOCKET \/ sockfd[i] # sockfd[task]
    BY <1>1, Descriptors
  <1>3. /\ sockfd \in [Tasks -> Conn \cup {INVALID_SOCKET}]
        /\ connected \in [Tasks -> {"none", "true", "false"}]
        /\ copen \subseteq Conn
    BY DEF CInv, TypeOK
  <1>4. TypeOK'
    <2>1. task' \in 1..(NTasks + 1) /\ try' \in 1..RETRY_CONNECT /\ cpc' \in {"socket", "connect", "demo"}
      BY <1>1, <1>2
    <2>2. /\ sockfd' \in [Tasks -> Conn \cup {INVALID_SOCKET}]
          /\ connected' \in [Tasks -> {"none", "true", "false"}]
          /\ copen' \subseteq Conn
      BY <1>1, <1>2, <1>3
    <2> QED BY <1>1, <2>1, <2>2 DEF CInv, TypeOK, serverVars
  <1>5. ControlInv' /\ ListenerInv'
    <2>1. cpc' = "demo" <=> task' = NTasks + 1
      BY <1>1, <1>2
    <2>2. \A i \in Tasks : connected'[i] = "none" <=> i >= task'
      BY <1>1, <1>2, <1>3 DEF CInv, ControlInv
    <2> QED BY <1>1, <2>1, <2>2 DEF CInv, ControlInv, ListenerInv, serverVars
  <1>6. HandleInv'
    <2>1. cpc' # "connect"
      BY <1>1
    <2>2. \A i \in Tasks : i # task => sockfd'[i] = sockfd[i]
      BY <1>1, <1>3
    <2>3. sockfd'[task] = INVALID_SOCKET
      BY <1>1, <1>2, <1>3
    <2>4. \A i \in Tasks : i > task' \/ (i = task' /\ cpc' = "socket") => sockfd'[i] = INVALID_SOCKET
      BY <1>1, <1>2, <2>2, <2>3 DEF CInv, HandleInv
    <2> QED BY <2>1, <2>2, <2>3, <2>4 DEF CInv, HandleInv
  <1>7. NoneLeft'
    <2>1. copen' = {sockfd'[i] : i \in Tasks} \ {INVALID_SOCKET}
      BY <1>1, <1>2, <1>3 DEF CInv, NoneLeft
    <2>2. \A i \in Tasks : connected'[i] = "false" => sockfd'[i] = INVALID_SOCKET
      BY <1>1, <1>2, <1>3 DEF CInv, NoneLeft
    <2> QED BY <2>1, <2>2 DEF NoneLeft
  <1>8. OrderInv'
    BY <1>1, OrderKept
  <1> QED BY <1>4, <1>5, <1>6, <1>7, <1>8 DEF CInv

\* An established connection is the last one, that of the socket task.
LEMMA ConnectStep ==
    ASSUME CInv, Connect
    PROVE  CInv'
  <1>1. /\ cpc = "connect" /\ queue' = Append(queue, sockfd[task])
        /\ connected' = [connected EXCEPT ![task] = "true"]
        /\ task' = task + 1 /\ try' = 1
        /\ cpc' = IF task = NTasks THEN "demo" ELSE "socket"
        /\ UNCHANGED <<serverVars, sockfd, copen>>
    BY DEF Connect, ConnectReturns
  <1>2. /\ task \in Tasks /\ task \in Nat /\ try \in 1..RETRY_CONNECT
        /\ sockfd[task] \in Conn
    BY <1>1, Descriptors DEF CInv, HandleInv
  <1>3. /\ queue \in Seq(Conn) /\ Len(queue) \in Nat /\ accepted \in Nat /\ accepted <= NTasks
        /\ connected \in [Tasks -> {"none", "true", "false"}]
    BY DEF CInv, TypeOK
  <1>4. /\ queue' \in Seq(Conn) /\ Len(queue') = Len(queue) + 1
        /\ queue'[Len(queue) + 1] = sockfd[task]
        /\ \A k \in 1..Len(queue) : queue'[k] = queue[k]
    BY <1>1, <1>2, <1>3
  <1>5. TypeOK'
    BY <1>1, <1>2, <1>3, <1>4 DEF CInv, TypeOK, serverVars
  <1>6. ControlInv' /\ ListenerInv'
    BY <1>1, <1>2, <1>3 DEF CInv, ControlInv, ListenerInv, serverVars
  <1>7. HandleInv'
    BY <1>1, <1>2 DEF CInv, HandleInv
  <1>8. NoneLeft'
    BY <1>1, <1>2, <1>3 DEF CInv, NoneLeft
  <1>9. OrderInv'
    <2>1. /\ Established \in Nat /\ Established < task /\ Established' = Established + 1
          /\ accepted' = accepted /\ sockfds' = sockfds /\ sockfd' = sockfd
      BY <1>1, <1>3, <1>4 DEF Established, CInv, OrderInv, serverVars
    <2>2. \A k \in 1..Established : Nth(k)' = Nth(k)
      <3> SUFFICES ASSUME NEW k \in 1..Established PROVE Nth(k)' = Nth(k)
        OBVIOUS
      <3>1. CASE k <= accepted
        BY <2>1, <3>1 DEF Nth
      <3>2. CASE k > accepted
        <4>1. k - accepted \in 1..Len(queue)
          BY <1>3, <3>2 DEF Established
        <4> QED BY <1>3, <1>4, <2>1, <3>2, <4>1 DEF Nth
      <3> QED BY <1>3, <2>1, <3>1, <3>2
    <2>3. ASSUME NEW k, k = Established + 1 PROVE Nth(k)' = sockfd[task]
      <3>1. ~(k <= accepted) /\ k - accepted = Len(queue) + 1
        BY <1>3, <2>3 DEF Established
      <3> QED BY <1>4, <2>1, <3>1 DEF Nth
    <2>4. \A i \in 1..(task - 1) : i \in Tasks /\ connected'[i] = connected[i]
      BY <1>1, <1>2, <1>3
    <2>5. ASSUME NEW i \in 1..(task - 1), \A j \in 1..i : connected'[j] = "true"
          PROVE  Established >= i
      BY <1>2, <2>4, <2>5 DEF CInv, OrderInv
    <2>6. ASSUME NEW i \in 1..(task' - 1), \A j \in 1..i : connected'[j] = "true"
          PROVE  Established' >= i
      <3>1. CASE i < task
        BY <1>1, <1>2, <2>1, <2>5, <2>6, <3>1
      <3>2. CASE i = task /\ task > 1
        BY <1>2, <2>1, <2>5, <2>6, <3>2
      <3>3. CASE i = task /\ task = 1
        BY <2>1, <3>3
      <3> QED BY <1>1, <1>2, <3>1, <3>2, <3>3
    <2>7. ASSUME NEW i \in 1..Established', \A j \in 1..i : connected'[j] = "true"
          PROVE  Nth(i)' = sockfd'[i]
      <3>1. CASE i <= Established
        <4>1. \A j \in 1..i : connected[j] = "true"
          BY <1>2, <2>1, <2>4, <2>7, <3>1
        <4> QED BY <2>1, <2>2, <3>1, <4>1 DEF CInv, OrderInv
      <3>2. CASE i = Established + 1
        <4>1. i = task
          BY <1>2, <2>1, <2>5, <2>7, <3>2
        <4> QED BY <2>1, <2>3, <3>2, <4>1
      <3> QED BY <2>1, <3>1, <3>2
    <2> QED BY <1>1, <1>2, <2>1, <2>6, <2>7 DEF OrderInv
  <1> QED BY <1>5, <1>6, <1>7, <1>8, <1>9 DEF CInv

-----------------------------------------------------------------------------

\* CInv holds throughout, with any number of sockets, tries and queued
\* connections, whatever calls of listen and connect fail.
THEOREM ConnectionInductive == Spec => []CInv
  <1>1. ASSUME CInv, [Next]_vars PROVE CInv'
    <2>1. CASE ServerSocket \/ Bind \/ Listen \/ AcceptFails \/ ListenReturns
      BY <1>1, <2>1, ServerStep
    <2>2. CASE Accept
      BY <1>1, <2>2, AcceptStep
    <2>3. CASE ClientSocket
      BY <1>1, <2>3, SocketStep, ClosedStep
    <2>4. CASE Connect
      BY <1>1, <2>4, ConnectStep
    <2>5. CASE Refused
      BY <1>1, <2>5, ClosedStep
    <2>6. CASE UNCHANGED vars
      BY <1>1, <2>6 DEF vars, serverVars, clientVars, CInv, TypeOK, ControlInv, HandleInv,
                        NoneLeft, ListenerInv, OrderInv, Established, Nth
    <2> QED BY <1>1, <2>1, <2>2, <2>3, <2>4, <2>5, <2>6 DEF Next, Server, Client, Demo
  <1> QED BY <1>1, InitInv, PTL DEF Spec

\* The variables of listen and connect keep their types.
THEOREM ConnectionTypes == Spec => []TypeOK
  <1>1. CInv => TypeOK
    BY DEF CInv
  <1> QED BY <1>1, ConnectionInductive, PTL

\* The i-th sockets of the two programs are the ends of one connection when
\* connect reported no failure up to the i-th (the loops of psi_demonstrator
\* pair them by the order of the calls alone).
THEOREM SocketsPaired == Spec => []Paired
  <1>1. ASSUME CInv PROVE Paired
    <2> SUFFICES ASSUME NEW i \in 1..accepted, \A j \in 1..i : connected[j] # "false"
                 PROVE  sockfds[i] = sockfd[i]
      BY DEF Paired
    <2>1. /\ accepted \in Nat /\ accepted <= NTasks /\ Len(queue) \in Nat /\ task \in Nat
          /\ connected \in [Tasks -> {"none", "true", "false"}]
      BY <1>1 DEF CInv, TypeOK
    <2>2. accepted <= Established /\ Established < task
      BY <1>1, <2>1 DEF CInv, OrderInv, Established
    <2>3. ASSUME NEW j \in 1..i PROVE connected[j] = "true"
      <3>1. j \in Tasks /\ j < task /\ Established \in Nat
        BY <2>1, <2>2 DEF Established
      <3> QED BY <1>1, <2>1, <3>1 DEF CInv, ControlInv
    <2>4. i \in 1..Established /\ Nth(i) = sockfds[i]
      BY <2>1, <2>2 DEF Nth, Established
    <2> QED BY <1>1, <2>3, <2>4 DEF CInv, OrderInv
  <1> QED BY <1>1, ConnectionInductive, PTL

\* Storing accepted connections in sockfds from its first entry on never
\* replaces the listener before the last accept.
THEOREM ListenerStays == Spec => []ListenerKept
  <1>1. CInv => ListenerKept
    BY DEF CInv, ListenerInv, ListenerKept, Lid
  <1> QED BY <1>1, ConnectionInductive, PTL

\* Over all its tries the client neither loses a descriptor nor keeps one for a
\* socket that connect gave up on.
THEOREM NoDescriptorLost == Spec => []NoneLeft
  <1>1. CInv => NoneLeft
    BY DEF CInv
  <1> QED BY <1>1, ConnectionInductive, PTL
=============================================================================
