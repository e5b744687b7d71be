--------------------------- MODULE TcpServiceProps --------------------------
(***************************************************************************)
(* What CTcpService owes its peers, and what its tables owe each other.    *)
(***************************************************************************)
EXTENDS TcpService

EpollStatements ==
  {"loop", "wait", "events", "accept", "add", "connection", "inetaddr",
   "clean", "done"}
RecvStatements ==
  {"fetch", "peer", "lookup", "read", "deliver", "del", "close", "forget",
   "disconnection", "exited"}

PeerTypes ==
  /\ backlog \in Seq(Peer)
  /\ connects \in [Hosts -> Nat]
  /\ sent \in [Hosts -> Nat]
  /\ early \subseteq Hosts
  /\ refused \subseteq Hosts

(* The epoll object watches open descriptors only.                         *)
KernelTypes ==
  /\ sock \in [Fds -> Peer \cup {Closed}]
  /\ watched \subseteq OpenFds \cup {Listen, Wakeup}
  /\ ready \subseteq watched

EpollTypes ==
  /\ ep \in EpollStatements
  /\ batch \subseteq Fds \cup {Listen, Wakeup}
  /\ served \in Nat
  /\ clientfd \in Fds \cup {None}
  /\ szIpAndPort \in Hosts \cup {None}
  /\ maxNumbers \in Int
  /\ eventSize \in Nat \ {0}
  /\ bEpollWait \in BOOLEAN

TableTypes ==
  /\ tcpConnection \in [Hosts -> Fds \cup {None}]
  /\ sockfd2InetAddr \in [Fds -> Hosts \cup {None}]

(* Every thread of the pool has one turn in m_Threads until the pool is    *)
(* cleared.                                                                *)
PoolTypes ==
  /\ threads \in Seq(Workers)
  /\ cancelled = {} =>
       \A w \in Workers : Cardinality({i \in DOMAIN threads : threads[i] = w}) = 1
  /\ tasks \in [Workers -> Seq(Fds)]
  /\ cancelled \subseteq Workers

RecvTypes ==
  /\ wpc \in [Workers -> RecvStatements]
  /\ fd \in [Workers -> Fds \cup {None}]
  /\ szPeerAddr \in [Workers -> Hosts \cup {None}]
  /\ buff \in [Workers -> Seq(Nat)]
  /\ received \in [Hosts -> Seq(Nat)]

(* The type invariant.                                                     *)
TypeOK ==
  /\ PeerTypes /\ KernelTypes /\ EpollTypes
  /\ TableTypes /\ PoolTypes /\ RecvTypes

Has(f, h) == sock[f] # Closed /\ sock[f].host = h

(* The connection of h, accepted or not, was reset or is no more.          *)
Lost(h) ==
  /\ \A f \in Fds : Has(f, h) => sock[f].end = "rst"
  /\ \A i \in 1..Len(backlog) : backlog[i].host = h => backlog[i].end = "rst"

-----------------------------------------------------------------------------
(* Whatever the peers do.                                                  *)

(* maxNumbers (EpollWatch.cpp:71, 76) never falls below the number of      *)
(* descriptors in the epoll object, so epoll_pwait is never asked for too  *)
(* few events.                                                             *)
CountCoversWatched == Cardinality(watched) <= maxNumbers

(* An accepted socket is watched, but for the moments before EpollAdd and  *)
(* between EpollDel and close (TcpService.cpp:161, 298).                   *)
OpenIsWatched ==
  \A f \in OpenFds :
    \/ f \in watched
    \/ ep = "add" /\ clientfd = f
    \/ \E w \in Workers : wpc[w] = "close" /\ fd[w] = f

-----------------------------------------------------------------------------
(* When peers wait for their last action to be handled before the next     *)
(* one.                                                                    *)

(* A connection is closed only after its peer closed or reset it, or when  *)
(* the service stops (TcpService.cpp:297).                                 *)
OnlyEndedAreClosed ==
  [][\A f \in Fds :
       sock[f] # Closed /\ sock[f].end = "open" /\ sock'[f] = Closed
         => ep = "clean"]_vars

(* A live connection can be found under its address from the moment its    *)
(* data can be handled (TcpService.cpp:166, 314).  The exception is a host *)
(* that connected again too early: its old connection is taken off the     *)
(* tables by host name, in the place of the new one (TcpService.cpp:301).  *)
LiveIsListed ==
  \A f \in OpenFds :
    sock[f].end = "open" =>
      \/ tcpConnection[sock[f].host] = f
      \/ ep \in {"add", "connection"} /\ clientfd = f
      \/ sock[f].host \in early

(* What is listed is open, and under its own address, but for the moment   *)
(* between close and the removal from the table (TcpService.cpp:299, 301). *)
ListedIsOpen ==
  \A h \in Hosts :
    tcpConnection[h] # None =>
      \/ Has(tcpConnection[h], h)
      \/ \E w \in Workers :
           szPeerAddr[w] = h /\ wpc[w] \in {"forget", "disconnection"}

(* m_TcpConnection and the descriptors that are open describe the same     *)
(* connections, whichever of the workers and the epoll thread is between   *)
(* its updates of the two, however descriptors are reused and hosts come   *)
(* back; only a host that comes back too early loses its own entry, and no *)
(* other host's (TcpService.cpp:166, 301).                                 *)
TablesAgree == LiveIsListed /\ ListedIsOpen

(* A stop leaves no task queued, and no connection open but those a host   *)
(* that connected again too early has lost from the table                  *)
(* (TcpService.cpp:240).                                                   *)
StopClosesListed ==
  ep = "done" =>
    /\ \A f \in OpenFds : sock[f].host \in early
    /\ \A w \in Workers : tasks[w] = <<>>

(* The hosts with a connection, accepted or not, that they have not ended. *)
LivePeers ==
  {h \in Hosts :
     \/ \E f \in OpenFds : sock[f].host = h /\ sock[f].end = "open"
     \/ \E i \in 1..Len(backlog) : backlog[i].host = h /\ backlog[i].end = "open"}

Stream == INSTANCE StreamService WITH live <- LivePeers, up <- ep # "done"

(* Seen by its peers the service is one stream each: descriptors that are  *)
(* reused, events that go to different workers and tables that are updated *)
(* one after another (TcpService.cpp:144, 181, 298) do not show.           *)
ImplementsStreams == Stream!Spec

(* The service is out of something: room in a queue or, with maxNumbers    *)
(* decremented inside its loop, events it will look at.                    *)
Overrun ==
  \/ \E w \in Workers : Len(tasks[w]) = MaxQueue
  \/ ep = "events" /\ batch # {} /\ served >= maxNumbers

(* Everything sent is delivered, unless the peer resets its connection or  *)
(* is left waiting by an accept that failed, the service is overrun or it  *)
(* stops.                                                                  *)
SentIsDelivered ==
  \A h \in Hosts : \A n \in 1..MaxSent[h] :
    sent[h] >= n ~> \/ Len(received[h]) >= n
                    \/ Lost(h) \/ h \in refused \/ Overrun \/ ~bEpollWait

(* A connection its peer has closed is closed and forgotten, unless the    *)
(* service is overrun.                                                     *)
EndedIsForgotten ==
  \A h \in Hosts :
    (\E f \in OpenFds : Has(f, h) /\ sock[f].end = "fin")
      ~> \/ tcpConnection[h] = None /\ \A f \in OpenFds : sock[f].host # h
         \/ Overrun

(* A stop ends, wherever the epoll thread and the workers are              *)
(* (TcpService.cpp:100, 233).                                              *)
StopEnds == ~bEpollWait ~> ep = "done"
=============================================================================
