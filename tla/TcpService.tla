----------------------------- MODULE TcpService -----------------------------
(***************************************************************************)
(* CTcpService (net/src/TcpService.cpp) once it is started: one thread     *)
(* waits on an edge-triggered epoll object, accepts connections and hands  *)
(* each readable socket to a thread of the pool, which reads it until it   *)
(* is empty, delivers what it read or closes the socket.                   *)
(*                                                                         *)
(* Three tables describe a connection and are updated one after another:   *)
(* the kernel's descriptors, m_TcpConnection (host -> connection) and      *)
(* m_Sockfd2InetAddr (descriptor -> host).  Descriptors are reused as soon *)
(* as they are closed, lowest first.                                       *)
(*                                                                         *)
(* Each thread of the pool is taken for what ThreadObject proves it to be: *)
(* a worker that runs its queued tasks in order until it is cancelled.     *)
(* The sockets, the epoll object and the peers are the environment.        *)
(***************************************************************************)
EXTENDS Integers, Sequences, FiniteSets, FiniteSetsExt

CONSTANTS
  Hosts,       \* the peers' addresses, "IP:PORT"
  Fds,         \* the descriptors left for connections
  Workers,     \* the threads of m_RecvThreadPool
  Listen, Wakeup,  \* the descriptors m_socket and m_wakeupfd
  Closed, None,    \* "not an open descriptor", "nothing"
  Ahead,       \* whether a peer may act before its last action was handled
  MaxConnects, \* bound: MaxConnects[h] is how often host h connects
  EventStep,   \* by how much m_object.vEvents starts and grows (1000)
  MaxSent,     \* bound: MaxSent[h] is how much it sends
  MaxQueue     \* the capacity of a worker's queue (50000)

ASSUME ServiceAssumption ==
  /\ Fds \subseteq Nat /\ IsFiniteSet(Fds)
  /\ IsFiniteSet(Hosts) /\ IsFiniteSet(Workers) /\ Workers # {}
  /\ Listen \notin Fds /\ Wakeup \notin Fds /\ Listen # Wakeup
  /\ None \notin Fds \cup Hosts \cup Workers
  /\ Ahead \in BOOLEAN
  /\ MaxConnects \in [Hosts -> Nat]
  /\ EventStep \in Nat \ {0}
  /\ MaxSent \in [Hosts -> Nat]
  /\ MaxQueue \in Nat

VARIABLES
  \* the environment
  sock,        \* sock[f]: the connection open at descriptor f, or Closed
  backlog,     \* the connections that wait to be accepted
  watched,     \* the descriptors in the epoll object
  ready,       \* those with an edge that epoll_pwait has not reported
  connects,    \* connects[h]: how often host h has connected
  sent,        \* sent[h]: how much it has sent
  early,       \* the hosts that connected again before the service had
               \* closed and forgotten their last connection
  refused,     \* those that waited when an accept failed, and still wait
  \* the epoll thread
  ep,          \* the statement it is at
  batch,       \* the reported events it has not looked at yet
  served,      \* i, the number of those it has
  clientfd, szIpAndPort,  \* the descriptor it is accepting, and its address
  maxNumbers,  \* m_object.maxNumbers
  eventSize,   \* m_object.eventSize, the size of vEvents
  bEpollWait,  \* m_bEpollWait
  \* the tables
  tcpConnection,     \* m_TcpConnection: for each host, its descriptor or None
  sockfd2InetAddr,   \* m_Sockfd2InetAddr: for each descriptor, a host or None
  \* the pool
  threads,     \* m_Threads: the workers in the order of their next turn
  tasks,       \* tasks[w]: the descriptors queued for recv_message
  cancelled,   \* the workers that were told to leave
  wpc, fd, szPeerAddr, buff,  \* recv_message's place and variables, per worker
  received     \* received[h]: what was delivered as coming from h

peerVars   == <<backlog, connects, sent, early, refused>>
kernelVars == <<sock, watched, ready>>
accepting  == <<clientfd, szIpAndPort>>
epollVars  == <<ep, batch, served, accepting, eventSize, bEpollWait>>
tables     == <<tcpConnection, sockfd2InetAddr>>
poolVars   == <<threads, tasks, cancelled>>
recvVars   == <<wpc, fd, szPeerAddr, buff>>
vars == <<peerVars, kernelVars, epollVars, maxNumbers, tables, poolVars,
          recvVars, received>>

(* The service as thread_proc leaves it before its loop: both of its own   *)
(* descriptors are in the epoll object.                                    *)
Init ==
  /\ sock = [f \in Fds |-> Closed]
  /\ backlog = <<>>
  /\ watched = {Listen, Wakeup}
  /\ ready = {}
  /\ connects = [h \in Hosts |-> 0]
  /\ sent = [h \in Hosts |-> 0]
  /\ early = {}
  /\ refused = {}
  /\ ep = "loop"
  /\ batch = {}
  /\ served = 0
  /\ clientfd = None
  /\ szIpAndPort = None
  /\ maxNumbers = 2
  /\ eventSize = EventStep
  /\ bEpollWait = TRUE
  /\ tcpConnection = [h \in Hosts |-> None]
  /\ sockfd2InetAddr = [f \in Fds |-> None]
  /\ \E order \in [1..Cardinality(Workers) -> Workers] :
       /\ \A w \in Workers : \E i \in DOMAIN order : order[i] = w
       /\ threads = order
  /\ tasks = [w \in Workers |-> <<>>]
  /\ cancelled = {}
  /\ wpc = [w \in Workers |-> "fetch"]
  /\ fd = [w \in Workers |-> None]
  /\ szPeerAddr = [w \in Workers |-> None]
  /\ buff = [w \in Workers |-> <<>>]
  /\ received = [h \in Hosts |-> <<>>]

-----------------------------------------------------------------------------
(* The environment: peers connect, send, close and reset.                  *)

Peer == [host : Hosts, unread : Seq(Nat), end : {"open", "fin", "rst"}]

ASSUME ClosedAssumption == Closed \notin Peer

OpenFds == {f \in Fds : sock[f] # Closed}

HasData(f) == sock[f] # Closed /\ sock[f].unread # <<>>

Readable(f) ==
  CASE f = Listen -> backlog # <<>>
    [] f = Wakeup -> ~bEpollWait
    [] OTHER      -> HasData(f) \/ (sock[f] # Closed /\ sock[f].end # "open")

(* The server has yet to handle something that happened at f.              *)
Handling == {"peer", "lookup", "read", "deliver", "del", "close"}
Pending(f) ==
  \/ Readable(f)
  \/ f \in ready \cup batch
  \/ \E w \in Workers :
       \/ fd[w] = f /\ wpc[w] \in Handling
       \/ \E i \in 1..Len(tasks[w]) : tasks[w][i] = f

(* A connection of h is open, or a worker that closed it has yet to take   *)
(* it off the tables.                                                      *)
Lingers(h) ==
  \/ \E f \in OpenFds : sock[f].host = h
  \/ \E w \in Workers : szPeerAddr[w] = h /\ wpc[w] \in {"forget", "disconnection"}

(* An address is free again once its connection is closed or was reset.    *)
Connect(h) ==
  /\ ep # "done"
  /\ connects[h] < MaxConnects[h]
  /\ \A f \in OpenFds : sock[f].host = h => sock[f].end = "rst"
  /\ \A i \in 1..Len(backlog) : backlog[i].host # h
  /\ connects' = [connects EXCEPT ![h] = @ + 1]
  /\ backlog' = Append(backlog, [host |-> h, unread |-> <<>>, end |-> "open"])
  /\ ready' = ready \cup {Listen}
  /\ early' = early \cup {k \in {h} : Lingers(k)}
  /\ UNCHANGED <<sock, watched, sent, refused, epollVars, maxNumbers, tables,
                 poolVars, recvVars, received>>

(* What a peer can do to its connection c, and the connection it leaves.   *)
Acted(c) ==
  {[c EXCEPT !.end = "fin"], [c EXCEPT !.end = "rst", !.unread = <<>>]}
    \cup (IF sent[c.host] < MaxSent[c.host]
          THEN {[c EXCEPT !.unread = Append(@, sent[c.host] + 1)]} ELSE {})

Count(c, d) ==
  sent' = [sent EXCEPT ![c.host] = @ + (IF d.end = "open" THEN 1 ELSE 0)]

(* Data, a FIN or a RST at an accepted connection is a new edge.           *)
PeerActs(f) ==
  /\ sock[f] # Closed
  /\ sock[f].end = "open"
  /\ Ahead \/ ~Pending(f)
  /\ \E d \in Acted(sock[f]) :
       /\ sock' = [sock EXCEPT ![f] = d]
       /\ Count(sock[f], d)
  /\ ready' = ready \cup ({f} \cap watched)
  /\ UNCHANGED <<backlog, connects, early, refused, watched, epollVars,
                 maxNumbers, tables, poolVars, recvVars, received>>

PeerActsEarly(i) ==
  /\ i \in 1..Len(backlog)
  /\ backlog[i].end = "open"
  /\ Ahead \/ backlog[i].unread = <<>>
  /\ \E d \in Acted(backlog[i]) :
       /\ backlog' = [backlog EXCEPT ![i] = d]
       /\ Count(backlog[i], d)
  /\ UNCHANGED <<connects, early, refused, kernelVars, epollVars, maxNumbers,
                 tables, poolVars, recvVars, received>>

-----------------------------------------------------------------------------
(* CEpollWatch::EpollCtl: the count changes only if epoll_ctl succeeds.    *)

(* Mutant: the count is changed for a removal only.                        *)
EpollAddForgets(f) ==
  /\ watched' = watched \cup {f}
  /\ ready' = IF Readable(f) THEN ready \cup {f} ELSE ready
  /\ UNCHANGED maxNumbers

EpollAdd(f) ==
  IF sock[f] # Closed /\ f \notin watched
  THEN /\ watched' = watched \cup {f}
       /\ ready' = IF Readable(f) THEN ready \cup {f} ELSE ready
       /\ maxNumbers' = maxNumbers + 1
  ELSE UNCHANGED <<watched, ready, maxNumbers>>

EpollDel(f) ==
  IF f \in watched
  THEN /\ watched' = watched \ {f}
       /\ ready' = ready \ {f}
       /\ maxNumbers' = maxNumbers - 1
  ELSE UNCHANGED <<watched, ready, maxNumbers>>

(* close(): the epoll object forgets the descriptor by itself.             *)
Close(fds) ==
  /\ sock' = [f \in Fds |-> IF f \in fds THEN Closed ELSE sock[f]]
  /\ watched' = watched \ fds
  /\ ready' = ready \ fds

-----------------------------------------------------------------------------
(* IoEpollWait, in the epoll thread.                                       *)

At(from, to) == ep = from /\ ep' = to

Resized ==
  CASE maxNumbers > eventSize             -> eventSize + EventStep
    [] maxNumbers + EventStep < eventSize -> eventSize - EventStep
    [] OTHER                              -> eventSize

(* The loop's test, and SafeChangeEvents.                                  *)
SafeChangeEvents ==
  /\ At("loop", IF bEpollWait THEN "wait" ELSE "clean")
  /\ eventSize' = IF bEpollWait THEN Resized ELSE eventSize
  /\ UNCHANGED <<peerVars, kernelVars, batch, served, accepting, bEpollWait,
                 maxNumbers, tables, poolVars, recvVars, received>>

(* epoll_pwait looks again at each edge before it reports it, and reports  *)
(* as many as it is asked for.                                             *)
epoll_pwait ==
  /\ At("wait", "events")
  /\ \E events \in SUBSET {f \in ready : Readable(f)} :
       /\ events # {}
       /\ Cardinality(events) <= maxNumbers
       /\ Cardinality(events) < maxNumbers
            => events = {f \in ready : Readable(f)}
       /\ batch' = events
       /\ ready' = {f \in ready \ events : Readable(f)}
  /\ served' = 0
  /\ UNCHANGED <<peerVars, sock, watched, accepting, eventSize, bEpollWait,
                 maxNumbers, tables, poolVars, recvVars, received>>

(* The events end when all were looked at, or when as many were as there   *)
(* are descriptors now.                                                    *)
EventsEnd ==
  /\ At("events", "loop")
  /\ batch = {} \/ served >= maxNumbers
  /\ batch' = {}
  /\ UNCHANGED <<peerVars, kernelVars, served, accepting, eventSize, bEpollWait,
                 maxNumbers, tables, poolVars, recvVars, received>>

TakeEvent(f) ==
  /\ f \in batch
  /\ served < maxNumbers
  /\ batch' = batch \ {f}
  /\ served' = served + 1

ListenEvent ==
  /\ At("events", "accept")
  /\ TakeEvent(Listen)
  /\ UNCHANGED <<peerVars, kernelVars, accepting, eventSize, bEpollWait,
                 maxNumbers, tables, poolVars, recvVars, received>>

(* _WakeupEvent.                                                           *)
WakeupEvent ==
  /\ At("events", "events")
  /\ TakeEvent(Wakeup)
  /\ bEpollWait' = FALSE
  /\ UNCHANGED <<peerVars, kernelVars, accepting, eventSize, maxNumbers, tables,
                 poolVars, recvVars, received>>

(* GetBestThread gives the turn to the next thread; AddTask queues the     *)
(* event there, or loses it if the queue is full.                          *)
ReadEvent ==
  /\ At("events", "events")
  /\ \E f \in Fds :
       /\ TakeEvent(f)
       /\ LET w == Head(threads)
          IN  tasks' = IF Len(tasks[w]) < MaxQueue
                       THEN [tasks EXCEPT ![w] = Append(@, f)] ELSE tasks
  /\ threads' = Append(Tail(threads), Head(threads))
  /\ UNCHANGED <<peerVars, kernelVars, accepting, eventSize, bEpollWait,
                 maxNumbers, tables, cancelled, recvVars, received>>

(* The accept loop: SetAsyncSocket and EpollAdd, then the two tables ...   *)
Accept ==
  /\ At("accept", "add")
  /\ backlog # <<>>
  /\ Fds # OpenFds
  /\ clientfd' = Min(Fds \ OpenFds)
  /\ szIpAndPort' = Head(backlog).host
  /\ sock' = [sock EXCEPT ![clientfd'] = Head(backlog)]
  /\ backlog' = Tail(backlog)
  /\ refused' = refused \ {szIpAndPort'}
  /\ UNCHANGED <<connects, early, watched, ready, sent, batch, served, eventSize,
                 bEpollWait, maxNumbers, tables, poolVars, recvVars, received>>

(* ... until nobody waits (EAGAIN), ...                                    *)
AcceptEnds ==
  /\ At("accept", "events")
  /\ backlog = <<>>
  /\ UNCHANGED <<peerVars, kernelVars, batch, served, accepting, eventSize,
                 bEpollWait, maxNumbers, tables, poolVars, recvVars, received>>

(* ... or accept fails: no descriptor is left (EMFILE), a signal came      *)
(* (EINTR), or the connection was reset (ECONNABORTED, EPROTO) and may be  *)
(* gone with it.  The loop ends with peers in the backlog.                 *)
AcceptFails ==
  /\ At("accept", "events")
  /\ backlog # <<>>
  /\ \/ backlog' = backlog
     \/ Head(backlog).end = "rst" /\ backlog' = Tail(backlog)
  /\ refused' = {backlog'[i].host : i \in DOMAIN backlog'}
  /\ UNCHANGED <<connects, sent, early, kernelVars, batch, served, accepting,
                 eventSize, bEpollWait, maxNumbers, tables, poolVars, recvVars,
                 received>>

Watch ==
  /\ At("add", "connection")
  /\ EpollAdd(clientfd)
  /\ UNCHANGED <<peerVars, sock, batch, served, accepting, eventSize, bEpollWait,
                 tables, poolVars, recvVars, received>>

AddTcpConnection ==
  /\ At("connection", "inetaddr")
  /\ tcpConnection' = [tcpConnection EXCEPT ![szIpAndPort] = clientfd]
  /\ UNCHANGED <<peerVars, kernelVars, batch, served, accepting, eventSize,
                 bEpollWait, maxNumbers, sockfd2InetAddr, poolVars, recvVars,
                 received>>

SetSockfd2InetAddr ==
  /\ At("inetaddr", "accept")
  /\ sockfd2InetAddr' = [sockfd2InetAddr EXCEPT ![clientfd] = szIpAndPort]
  /\ UNCHANGED <<peerVars, kernelVars, batch, served, accepting, eventSize,
                 bEpollWait, maxNumbers, tcpConnection, poolVars, recvVars,
                 received>>

-----------------------------------------------------------------------------
(* A worker and recv_message.                                              *)

Move(w, from, to) == wpc[w] = from /\ wpc' = [wpc EXCEPT ![w] = to]

(* A task ends; clean_func drops the others if the worker was cancelled.   *)
Leaves(w, from) ==
  /\ Move(w, from, IF w \in cancelled THEN "exited" ELSE "fetch")
  /\ tasks' = IF w \in cancelled THEN [tasks EXCEPT ![w] = <<>>] ELSE tasks
  /\ UNCHANGED <<threads, cancelled>>

Fetch(w) ==
  /\ Move(w, "fetch", "peer")
  /\ tasks[w] # <<>>
  /\ fd' = [fd EXCEPT ![w] = Head(tasks[w])]
  /\ tasks' = [tasks EXCEPT ![w] = Tail(@)]
  /\ buff' = [buff EXCEPT ![w] = <<>>]
  /\ UNCHANGED <<peerVars, kernelVars, epollVars, maxNumbers, tables, threads,
                 cancelled, szPeerAddr, received>>

Quit(w) ==
  /\ w \in cancelled
  /\ Leaves(w, "fetch")
  /\ UNCHANGED <<peerVars, kernelVars, epollVars, maxNumbers, tables, fd,
                 szPeerAddr, buff, received>>

Connected(f) == sock[f] # Closed /\ sock[f].end # "rst"

(* getPeerAddr fails on a closed or reset socket ...                       *)
getPeerAddr(w) ==
  /\ Move(w, "peer", IF Connected(fd[w]) THEN "read" ELSE "lookup")
  /\ szPeerAddr' = [szPeerAddr EXCEPT ![w] =
       IF Connected(fd[w]) THEN sock[fd[w]].host ELSE None]
  /\ UNCHANGED <<peerVars, kernelVars, epollVars, maxNumbers, tables, poolVars,
                 fd, buff, received>>

(* ... and then the address comes from the table, or the task gives up.    *)
FindInetAddr(w) ==
  /\ Move(w, "lookup", "read")
  /\ sockfd2InetAddr[fd[w]] # None
  /\ szPeerAddr' = [szPeerAddr EXCEPT ![w] = sockfd2InetAddr[fd[w]]]
  /\ UNCHANGED <<peerVars, kernelVars, epollVars, maxNumbers, tables, poolVars,
                 fd, buff, received>>

GiveUp(w) ==
  /\ Leaves(w, "lookup")
  /\ sockfd2InetAddr[fd[w]] = None
  /\ UNCHANGED <<peerVars, kernelVars, epollVars, maxNumbers, tables, fd,
                 szPeerAddr, buff, received>>

(* A read that returns data.                                               *)
Read(w) ==
  LET f == fd[w]
  IN  /\ Move(w, "read", "read")
      /\ HasData(f)
      /\ buff' = [buff EXCEPT ![w] = @ \o sock[f].unread]
      /\ sock' = [sock EXCEPT ![f].unread = <<>>]
      /\ UNCHANGED <<peerVars, watched, ready, epollVars, maxNumbers, tables,
                     poolVars, fd, szPeerAddr, received>>

(* Mutants: the last read alone decides; the end of the stream is not      *)
(* looked for.                                                             *)
ReadEndsCloses(w) ==
  /\ wpc[w] = "read"
  /\ ~HasData(fd[w])
  /\ Move(w, "read", "del")
  /\ UNCHANGED <<peerVars, kernelVars, epollVars, maxNumbers, tables,
                 poolVars, fd, szPeerAddr, buff, received>>
ReadEndsMisses(w) ==
  LET f == fd[w]
      failed == sock[f] = Closed \/ sock[f].end = "rst"
  IN  /\ wpc[w] = "read"
      /\ ~HasData(f)
      /\ Move(w, "read", IF failed THEN "del" ELSE "deliver")
      /\ UNCHANGED <<peerVars, kernelVars, epollVars, maxNumbers, tables,
                     poolVars, fd, szPeerAddr, buff, received>>

(* The read that ends the loop: an error, or no data (EAGAIN or the end).  *)
(* Only an error, or nothing read at all, closes the socket.               *)
ReadEnds(w) ==
  LET f == fd[w]
      failed == sock[f] = Closed \/ sock[f].end = "rst"
  IN  /\ wpc[w] = "read"
      /\ ~HasData(f)
      /\ Move(w, "read", IF failed \/ buff[w] = <<>> THEN "del" ELSE "deliver")
      /\ UNCHANGED <<peerVars, kernelVars, epollVars, maxNumbers, tables,
                     poolVars, fd, szPeerAddr, buff, received>>

(* Mutant: a connection that is not found ends the task.                   *)
MessageRecvNobody(w) ==
  /\ Leaves(w, "deliver")
  /\ UNCHANGED <<peerVars, kernelVars, epollVars, maxNumbers, tables, fd,
                 szPeerAddr, buff, received>>

(* FindTcpConnection and _MessageRecv.                                     *)
MessageRecv(w) ==
  /\ Leaves(w, "deliver")
  /\ received' = [received EXCEPT ![szPeerAddr[w]] = @ \o buff[w]]
  /\ UNCHANGED <<peerVars, kernelVars, epollVars, maxNumbers, tables, fd,
                 szPeerAddr, buff>>

(* Mutant: the socket is not closed.                                       *)
UnwatchOnly(w) ==
  /\ Move(w, "del", "forget")
  /\ EpollDel(fd[w])
  /\ UNCHANGED <<peerVars, sock, epollVars, tables, poolVars, fd, szPeerAddr,
                 buff, received>>

Unwatch(w) ==
  /\ Move(w, "del", "close")
  /\ EpollDel(fd[w])
  /\ UNCHANGED <<peerVars, sock, epollVars, tables, poolVars, fd, szPeerAddr,
                 buff, received>>

CloseClient(w) ==
  /\ Move(w, "close", "forget")
  /\ Close({fd[w]})
  /\ UNCHANGED <<peerVars, epollVars, maxNumbers, tables, poolVars, fd,
                 szPeerAddr, buff, received>>

RemoveSockfd2InetAddr(w) ==
  /\ Move(w, "forget", "disconnection")
  /\ sockfd2InetAddr' = [sockfd2InetAddr EXCEPT ![fd[w]] = None]
  /\ UNCHANGED <<peerVars, kernelVars, epollVars, maxNumbers, tcpConnection,
                 poolVars, fd, szPeerAddr, buff, received>>

(* Mutant: the entry is looked for by descriptor.                          *)
RemovByDescriptor(w) ==
  /\ Leaves(w, "disconnection")
  /\ tcpConnection' = [h \in Hosts |-> IF tcpConnection[h] = fd[w] THEN None
                                       ELSE tcpConnection[h]]
  /\ UNCHANGED <<peerVars, kernelVars, epollVars, maxNumbers, sockfd2InetAddr,
                 fd, szPeerAddr, buff, received>>

RemovTcpConnection(w) ==
  /\ Leaves(w, "disconnection")
  /\ tcpConnection' = [tcpConnection EXCEPT ![szPeerAddr[w]] = None]
  /\ UNCHANGED <<peerVars, kernelVars, epollVars, maxNumbers, sockfd2InetAddr,
                 fd, szPeerAddr, buff, received>>

-----------------------------------------------------------------------------
(* Mutant: a stop that does not wake the epoll thread.                     *)
StopSilently ==
  /\ bEpollWait
  /\ bEpollWait' = FALSE
  /\ UNCHANGED <<peerVars, kernelVars, ep, batch, served, accepting, eventSize,
                 maxNumbers, tables, poolVars, recvVars, received>>

(* Stop, by the main thread, once: the flag, then a write that wakes the   *)
(* epoll thread.                                                           *)
Stop ==
  /\ bEpollWait
  /\ bEpollWait' = FALSE
  /\ ready' = ready \cup {Wakeup}
  /\ UNCHANGED <<peerVars, sock, watched, ep, batch, served, accepting, eventSize,
                 maxNumbers, tables, poolVars, recvVars, received>>

(* clean_func: ClearThreadPool cancels the workers one by one and waits    *)
(* for each; the wait is taken not to run out ...                          *)
ClearThreadPool(w) ==
  /\ ep = "clean"
  /\ \A v \in cancelled : wpc[v] = "exited"
  /\ w \notin cancelled
  /\ cancelled' = cancelled \cup {w}
  /\ threads' = <<>>
  /\ UNCHANGED <<peerVars, kernelVars, epollVars, maxNumbers, tables, tasks,
                 recvVars, received>>

(* Mutant: the table is cleared before its connections are closed.         *)
CloseAllLate ==
  /\ At("clean", "done")
  /\ \A v \in Workers : v \in cancelled /\ wpc[v] = "exited"
  /\ Close({Listen})
  /\ backlog' = <<>>
  /\ tcpConnection' = [h \in Hosts |-> None]
  /\ UNCHANGED <<connects, sent, early, refused, batch, served, accepting,
                 eventSize, bEpollWait, maxNumbers, sockfd2InetAddr, poolVars,
                 recvVars, received>>

(* ... then it closes the listed connections and the listening socket.     *)
CloseAll ==
  /\ At("clean", "done")
  /\ \A v \in Workers : v \in cancelled /\ wpc[v] = "exited"
  /\ Close({Listen} \cup {tcpConnection[h] : h \in Hosts})
  /\ backlog' = <<>>
  /\ tcpConnection' = [h \in Hosts |-> None]
  /\ UNCHANGED <<connects, sent, early, refused, batch, served, accepting,
                 eventSize, bEpollWait, maxNumbers, sockfd2InetAddr, poolVars,
                 recvVars, received>>

-----------------------------------------------------------------------------
EpollThread ==
  \/ SafeChangeEvents \/ epoll_pwait \/ EventsEnd
  \/ ListenEvent \/ WakeupEvent \/ ReadEvent
  \/ Accept \/ AcceptEnds \/ AcceptFails
  \/ Watch \/ AddTcpConnection \/ SetSockfd2InetAddr
  \/ CloseAll \/ \E w \in Workers : ClearThreadPool(w)

Worker(w) ==
  \/ Fetch(w) \/ Quit(w)
  \/ getPeerAddr(w) \/ FindInetAddr(w) \/ GiveUp(w)
  \/ Read(w) \/ ReadEnds(w) \/ MessageRecv(w)
  \/ Unwatch(w) \/ CloseClient(w)
  \/ RemoveSockfd2InetAddr(w) \/ RemovTcpConnection(w)

Environment ==
  \/ \E h \in Hosts : Connect(h)
  \/ \E f \in Fds : PeerActs(f)
  \/ \E i \in 1..Len(backlog) : PeerActsEarly(i)

Next == EpollThread \/ Stop \/ Environment \/ \E w \in Workers : Worker(w)

Spec == Init /\ [][Next]_vars

(***************************************************************************)
(* Fairness: the epoll thread and the workers run whenever they can.  No   *)
(* peer has to act, and nobody has to stop the service.                    *)
(***************************************************************************)
FairSpec ==
  Spec /\ WF_vars(EpollThread) /\ \A w \in Workers : WF_vars(Worker(w))
=============================================================================
