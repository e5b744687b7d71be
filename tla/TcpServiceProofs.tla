-------------------------- MODULE TcpServiceProofs --------------------------
(***************************************************************************)
(* CTcpService for any hosts, descriptors and workers, in seven parts that *)
(* rest on one another.                                                    *)
(*   1. The epoll bookkeeping, whatever the peers do.                      *)
(*   2. The types of all variables, and that a stop is never slept         *)
(*      through, whatever the peers do.                                    *)
(*   3. Of peers that wait for their turn: each event of a socket is in    *)
(*      one place, so one worker at a time has the socket in hand, and     *)
(*      there is a reason for the event, so only ended sockets are closed. *)
(*   4. A host has one connection that was not reset, and its data is in   *)
(*      one place.                                                         *)
(*   5. The tables: what is listed is open; and what is open is listed, of *)
(*      every host that never came back too early, so a stop closes it.    *)
(*   6. The streams: every step is a step of StreamService or not seen.    *)
(*   7. The events to come: only a service that is overrun, or cleans up,  *)
(*      leaves data, an end or a waiting peer that nobody will look at.    *)
(***************************************************************************)
EXTENDS TcpServiceProps, TLAPS, FiniteSetTheorems, WellFoundedInduction

(* Two ways a step can treat the epoll object and its count.         *)
Kept    == watched' = watched /\ maxNumbers' = maxNumbers
Shrunk  == watched' \subseteq watched /\ maxNumbers' = maxNumbers

CountOK == IsFiniteSet(watched) /\ maxNumbers \in Int /\ CountCoversWatched

LEMMA CountInit == Init => CountOK
<1> SUFFICES ASSUME Init PROVE CountOK
  OBVIOUS
<1>1. watched = {Listen} \cup {Wakeup} /\ maxNumbers = 2
  BY DEF Init
<1>2. IsFiniteSet({Listen}) /\ Cardinality({Listen}) = 1
  BY FS_Singleton
<1>3. Wakeup \notin {Listen}
  BY ServiceAssumption DEF ServiceAssumption
<1>4. IsFiniteSet(watched) /\ Cardinality(watched) = 2
  BY <1>1, <1>2, <1>3, FS_AddElement
<1> QED BY <1>1, <1>4 DEF CountOK, CountCoversWatched

(* Only EpollAdd, EpollDel and close touch the epoll object.               *)
LEMMA StepKinds ==
  ASSUME Next
  PROVE  \/ Kept \/ Shrunk
         \/ ep = "add" /\ EpollAdd(clientfd)
         \/ \E w \in Workers : EpollDel(fd[w])
<1>1. CASE EpollThread
  <2>1. CASE Watch
    BY <2>1 DEF Watch, At
  <2>2. CASE CloseAll
    BY <2>2 DEF CloseAll, Close, Shrunk
  <2>3. CASE \E w \in Workers : ClearThreadPool(w)
    BY <2>3 DEF ClearThreadPool, Kept, kernelVars
  <2>4. CASE \/ SafeChangeEvents \/ epoll_pwait \/ EventsEnd \/ ListenEvent
             \/ WakeupEvent \/ ReadEvent \/ AcceptEnds \/ AcceptFails
    BY <2>4 DEF SafeChangeEvents, epoll_pwait, EventsEnd, ListenEvent,
       WakeupEvent, ReadEvent, AcceptEnds, AcceptFails, Kept, kernelVars
  <2>5. CASE Accept \/ AddTcpConnection \/ SetSockfd2InetAddr
    BY <2>5 DEF Accept, AddTcpConnection, SetSockfd2InetAddr, Kept, kernelVars
  <2> QED BY <1>1, <2>1, <2>2, <2>3, <2>4, <2>5 DEF EpollThread
<1>2. CASE Stop
  BY <1>2 DEF Stop, Kept
<1>3. CASE Environment
  BY <1>3 DEF Environment, Connect, PeerActs, PeerActsEarly, Kept, kernelVars,
     epollVars, peerVars
<1>4. ASSUME NEW w \in Workers, Worker(w)
      PROVE  Kept \/ Shrunk \/ EpollDel(fd[w])
  <2>1. CASE Unwatch(w)
    BY <2>1 DEF Unwatch
  <2>2. CASE CloseClient(w)
    BY <2>2 DEF CloseClient, Close, Shrunk
  <2>3. CASE \/ Fetch(w) \/ Quit(w) \/ getPeerAddr(w) \/ FindInetAddr(w)
             \/ GiveUp(w) \/ Read(w) \/ ReadEnds(w) \/ MessageRecv(w)
             \/ RemoveSockfd2InetAddr(w) \/ RemovTcpConnection(w)
    BY <2>3 DEF Fetch, Quit, getPeerAddr, FindInetAddr, GiveUp, Read, ReadEnds,
       MessageRecv, RemoveSockfd2InetAddr, RemovTcpConnection, Kept, kernelVars
  <2> QED BY <1>4, <2>1, <2>2, <2>3 DEF Worker
<1> QED BY <1>1, <1>2, <1>3, <1>4 DEF Next

LEMMA CountStep == CountOK /\ [Next]_vars => CountOK'
<1> SUFFICES ASSUME CountOK, [Next]_vars PROVE CountOK'
  OBVIOUS
<1> USE DEF CountOK, CountCoversWatched
<1>0. Cardinality(watched) \in Nat
  BY FS_CardinalityType
<1>1. CASE Kept \/ UNCHANGED vars
  BY <1>1 DEF Kept, vars, kernelVars
<1>2. CASE Shrunk
  <2>1. IsFiniteSet(watched') /\ Cardinality(watched') <= Cardinality(watched)
    BY <1>2, FS_Subset DEF Shrunk
  <2>2. Cardinality(watched') \in Nat
    BY <2>1, FS_CardinalityType
  <2> QED BY <1>0, <1>2, <2>1, <2>2 DEF Shrunk
<1>3. ASSUME NEW f, EpollAdd(f) PROVE CountOK'
  <2>1. CASE f \in watched \/ sock[f] = Closed
    BY <1>3, <2>1 DEF EpollAdd
  <2>2. CASE f \notin watched /\ sock[f] # Closed
    <3>1. watched' = watched \cup {f} /\ maxNumbers' = maxNumbers + 1
      BY <1>3, <2>2 DEF EpollAdd
    <3>2. /\ IsFiniteSet(watched \cup {f})
          /\ Cardinality(watched \cup {f}) = Cardinality(watched) + 1
      BY <2>2, FS_AddElement
    <3> QED BY <1>0, <3>1, <3>2
  <2> QED BY <2>1, <2>2
<1>4. ASSUME NEW f, EpollDel(f) PROVE CountOK'
  <2>1. CASE f \notin watched
    BY <1>4, <2>1 DEF EpollDel
  <2>2. CASE f \in watched
    <3>1. watched' = watched \ {f} /\ maxNumbers' = maxNumbers - 1
      BY <1>4, <2>2 DEF EpollDel
    <3>2. /\ IsFiniteSet(watched \ {f})
          /\ Cardinality(watched \ {f}) = Cardinality(watched) - 1
      BY <2>2, FS_RemoveElement
    <3> QED BY <1>0, <3>1, <3>2
  <2> QED BY <2>1, <2>2
<1> QED BY <1>1, <1>2, <1>3, <1>4, StepKinds

(* EpollCtl (EpollWatch.cpp:55) counts only what epoll_ctl did, so         *)
(* epoll_pwait is never asked for fewer events than descriptors could have,*)
(* however often workers delete or close a descriptor that is not theirs.  *)
THEOREM CountCorrect == Spec => []CountCoversWatched
<1>1. Init => CountOK
  BY CountInit
<1>2. CountOK /\ [Next]_vars => CountOK'
  BY CountStep
<1>3. CountOK => CountCoversWatched
  BY DEF CountOK
<1> QED BY <1>1, <1>2, <1>3, PTL DEF Spec

-----------------------------------------------------------------------------
(* Every open socket is watched, or about to be, or about to be closed.    *)

Functions ==
  /\ sock = [f \in Fds |-> sock[f]]
  /\ wpc = [w \in Workers |-> wpc[w]]
  /\ fd = [w \in Workers |-> fd[w]]
  /\ None \notin Fds

WatchOK == Functions /\ OpenIsWatched

(* What excuses an open descriptor that is not watched.                    *)
Adding(f)     == ep = "add" /\ clientfd = f
Closing(f, w) == wpc[w] = "close" /\ fd[w] = f

(* A non-empty set of natural numbers has a smallest element.              *)
LEMMA HasSmallest ==
  ASSUME NEW S, S \subseteq Nat, S # {}
  PROVE  \E n \in S : \A m \in S : n =< m
<1> DEFINE R == OpToRel(<, Nat)
<1>1. IsWellFoundedOn(R, Nat)
  BY NatLessThanWellFounded
<1>2. \A n, m \in Nat : m < n => <<m, n>> \in R
  BY DEF OpToRel
<1> HIDE DEF R
<1>3. \E n \in S : \A m \in S : ~(<<m, n>> \in R)
  BY <1>1, WFMin, Zenon
<1>4. PICK n \in S : \A m \in S : ~(<<m, n>> \in R)
  BY <1>3
<1>5. ASSUME NEW m \in S PROVE n =< m
  <2>1. n \in Nat /\ m \in Nat
    OBVIOUS
  <2>2. ~(m < n)
    BY <1>2, <1>4, <2>1
  <2> QED BY <2>1, <2>2
<1> QED BY <1>5

LEMMA WatchInit == Init => WatchOK
  BY ServiceAssumption
  DEF Init, WatchOK, Functions, OpenIsWatched, OpenFds, ServiceAssumption

(* A step that opens nothing, watches what was watched, and withdraws no   *)
(* excuse.                                                                 *)
LEMMA NothingOpens ==
  ASSUME WatchOK, Functions', watched \subseteq watched',
         OpenFds' \subseteq OpenFds,
         \A f \in Fds : Adding(f) => Adding(f)',
         \A f \in Fds, w \in Workers : Closing(f, w) => Closing(f, w)'
  PROVE  WatchOK'
<1> SUFFICES ASSUME NEW f \in OpenFds'
             PROVE  f \in watched' \/ Adding(f)' \/ \E w \in Workers : Closing(f, w)'
  BY DEF WatchOK, OpenIsWatched, Adding, Closing
<1>1. f \in Fds /\ f \in OpenFds
  BY DEF OpenFds
<1>2. f \in watched \/ Adding(f) \/ \E w \in Workers : Closing(f, w)
  BY <1>1 DEF WatchOK, OpenIsWatched, Adding, Closing
<1> QED BY <1>1, <1>2

LEMMA WatchEpoll == WatchOK /\ EpollThread => WatchOK'
<1> SUFFICES ASSUME WatchOK, EpollThread PROVE WatchOK'
  OBVIOUS
<1>1. ASSUME UNCHANGED <<sock, watched, recvVars>>, ep # "add"
      PROVE  WatchOK'
  BY <1>1, NothingOpens DEF WatchOK, Functions, OpenFds, Adding, Closing, recvVars
<1>2. CASE \/ SafeChangeEvents \/ epoll_pwait \/ EventsEnd \/ ListenEvent
           \/ WakeupEvent \/ ReadEvent \/ AcceptEnds \/ AcceptFails
  BY <1>1, <1>2 DEF SafeChangeEvents, epoll_pwait, EventsEnd, ListenEvent,
     WakeupEvent, ReadEvent, AcceptEnds, AcceptFails, At, kernelVars, recvVars
<1>3. CASE AddTcpConnection \/ SetSockfd2InetAddr \/ \E w \in Workers : ClearThreadPool(w)
  BY <1>1, <1>3 DEF AddTcpConnection, SetSockfd2InetAddr, ClearThreadPool, At,
     kernelVars, recvVars
<1>4. CASE Accept
  <2>1. /\ clientfd' \in Fds /\ ep' = "add" /\ ep = "accept" /\ watched' = watched
        /\ sock' = [sock EXCEPT ![clientfd'] = Head(backlog)]
        /\ UNCHANGED recvVars
    <3>1. Fds \ OpenFds # {} /\ Fds \ OpenFds \subseteq Nat
      BY <1>4, ServiceAssumption DEF Accept, OpenFds, ServiceAssumption
    <3>2. \E n \in Fds \ OpenFds : \A m \in Fds \ OpenFds : n <= m
      BY <3>1, HasSmallest
    <3>3. Min(Fds \ OpenFds) \in Fds
      BY <3>2 DEF Min
    <3> QED BY <1>4, <3>3 DEF Accept, At
  <2>2. \A f \in Fds : f # clientfd' => sock'[f] = sock[f]
    BY <2>1 DEF WatchOK, Functions
  <2>3. Functions'
    BY <2>1 DEF WatchOK, Functions, recvVars
  <2> SUFFICES ASSUME NEW f \in OpenFds'
               PROVE  f \in watched' \/ Adding(f)' \/ \E w \in Workers : Closing(f, w)'
    BY <2>3 DEF WatchOK, OpenIsWatched, Adding, Closing
  <2>4. CASE f = clientfd'
    BY <2>1, <2>4 DEF Adding
  <2>5. CASE f # clientfd'
    <3>1. f \in OpenFds
      BY <2>2, <2>5 DEF OpenFds
    <3>2. f \in watched \/ \E w \in Workers : Closing(f, w)
      BY <2>1, <3>1 DEF WatchOK, OpenIsWatched, Closing
    <3> QED BY <2>1, <3>2 DEF Closing, recvVars
  <2> QED BY <2>4, <2>5
<1>5. CASE Watch
  <2>1. /\ sock' = sock /\ UNCHANGED <<clientfd, recvVars>>
        /\ sock[clientfd] # Closed => watched' = watched \cup {clientfd}
        /\ watched \subseteq watched'
    BY <1>5 DEF Watch, EpollAdd, accepting
  <2> SUFFICES ASSUME NEW f \in OpenFds'
               PROVE  f \in watched' \/ \E w \in Workers : Closing(f, w)'
    BY <2>1 DEF WatchOK, Functions, OpenIsWatched, Closing, recvVars
  <2>2. f \in OpenFds /\ sock[f] # Closed
    BY <2>1 DEF OpenFds
  <2>3. CASE f = clientfd
    BY <2>1, <2>2, <2>3
  <2>4. CASE f # clientfd
    <3>1. f \in watched \/ \E w \in Workers : Closing(f, w)
      BY <2>2, <2>4 DEF WatchOK, OpenIsWatched, Closing
    <3> QED BY <2>1, <3>1 DEF Closing, recvVars
  <2> QED BY <2>3, <2>4
<1>6. CASE CloseAll
  <2>1. PICK fds : /\ sock' = [f \in Fds |-> IF f \in fds THEN Closed ELSE sock[f]]
                   /\ watched' = watched \ fds
                   /\ ep = "clean" /\ UNCHANGED recvVars
    BY <1>6 DEF CloseAll, Close, At, poolVars
  <2>2. \A f \in OpenFds' : f \in OpenFds /\ f \notin fds
    BY <2>1 DEF OpenFds
  <2>3. Functions'
    BY <2>1 DEF WatchOK, Functions, recvVars
  <2> SUFFICES ASSUME NEW f \in OpenFds'
               PROVE  f \in watched' \/ \E w \in Workers : Closing(f, w)'
    BY <2>3 DEF WatchOK, OpenIsWatched, Closing
  <2>4. f \in watched \/ \E w \in Workers : Closing(f, w)
    BY <2>1, <2>2 DEF WatchOK, OpenIsWatched, Closing
  <2> QED BY <2>1, <2>2, <2>4 DEF Closing, recvVars
<1> QED BY <1>2, <1>3, <1>4, <1>5, <1>6 DEF EpollThread

LEMMA WatchWorker ==
  ASSUME WatchOK, NEW w \in Workers, Worker(w)
  PROVE  WatchOK'
<1>1. ASSUME UNCHANGED <<epollVars, watched>>, OpenFds' \subseteq OpenFds, Functions',
             wpc[w] # "close", \A v \in Workers \ {w} : wpc'[v] = wpc[v] /\ fd'[v] = fd[v]
      PROVE  WatchOK'
  BY <1>1, NothingOpens DEF Adding, Closing, epollVars, accepting
<1>2. ASSUME NEW from, NEW to, Move(w, from, to)
      PROVE  /\ wpc[w] = from /\ wpc' = [v \in Workers |-> wpc'[v]]
             /\ wpc'[w] = to
             /\ \A v \in Workers \ {w} : wpc'[v] = wpc[v]
  BY <1>2 DEF Move, WatchOK, Functions
<1>3. ASSUME NEW from, from # "close", Leaves(w, from), UNCHANGED <<sock, watched, epollVars, fd>>
      PROVE  WatchOK'
  <2>1. PICK to : Move(w, from, to)
    BY <1>3 DEF Leaves
  <2> QED BY <1>1, <1>2, <1>3, <2>1 DEF WatchOK, Functions, OpenFds
<1>4. ASSUME NEW from, NEW to, from # "close", Move(w, from, to),
             UNCHANGED <<sock, watched, epollVars, fd>>
      PROVE  WatchOK'
  BY <1>1, <1>2, <1>4 DEF WatchOK, Functions, OpenFds
<1>5. CASE Quit(w) \/ GiveUp(w) \/ MessageRecv(w) \/ RemovTcpConnection(w)
  <2>1. UNCHANGED <<sock, watched, epollVars, fd>>
    BY <1>5 DEF Quit, GiveUp, MessageRecv, RemovTcpConnection, kernelVars
  <2>2. \E from \in {"fetch", "lookup", "deliver", "disconnection"} : Leaves(w, from)
    BY <1>5 DEF Quit, GiveUp, MessageRecv, RemovTcpConnection
  <2> QED BY <1>3, <2>1, <2>2
<1>6. CASE getPeerAddr(w) \/ FindInetAddr(w) \/ ReadEnds(w) \/ RemoveSockfd2InetAddr(w)
  <2>1. UNCHANGED <<sock, watched, epollVars, fd>>
    BY <1>6 DEF getPeerAddr, FindInetAddr, ReadEnds, RemoveSockfd2InetAddr, kernelVars
  <2>2. \E from \in {"peer", "lookup", "read", "forget"} :
          \E to : Move(w, from, to)
    BY <1>6 DEF getPeerAddr, FindInetAddr, ReadEnds, RemoveSockfd2InetAddr
  <2> QED BY <1>4, <2>1, <2>2
<1>7. CASE Fetch(w)
  <2>1. /\ Move(w, "fetch", "peer") /\ UNCHANGED <<sock, watched, epollVars>>
        /\ fd' = [fd EXCEPT ![w] = Head(tasks[w])]
    BY <1>7 DEF Fetch, kernelVars
  <2> QED BY <1>1, <1>2, <2>1 DEF WatchOK, Functions, OpenFds
<1>8. CASE Read(w)
  <2>1. /\ Move(w, "read", "read") /\ UNCHANGED <<watched, epollVars, fd>>
        /\ sock[fd[w]] # Closed
        /\ sock' = [sock EXCEPT ![fd[w]].unread = <<>>]
    BY <1>8 DEF Read, HasData
  <2>2. OpenFds' \subseteq OpenFds
    BY <2>1 DEF WatchOK, Functions, OpenFds
  <2> QED BY <1>1, <1>2, <2>1, <2>2 DEF WatchOK, Functions
<1>9. CASE Unwatch(w)
  <2>1. /\ Move(w, "del", "close") /\ UNCHANGED <<sock, epollVars, fd>>
        /\ watched \ {fd[w]} \subseteq watched'
    BY <1>9 DEF Unwatch, EpollDel
  <2> SUFFICES ASSUME NEW f \in OpenFds'
               PROVE  f \in watched' \/ Adding(f)' \/ \E v \in Workers : Closing(f, v)'
    BY <1>2, <2>1 DEF WatchOK, Functions, OpenIsWatched, Adding, Closing
  <2>2. f \in watched \/ Adding(f) \/ \E v \in Workers : Closing(f, v)
    BY <2>1 DEF WatchOK, OpenIsWatched, OpenFds, Adding, Closing
  <2>3. CASE f = fd[w]
    BY <1>2, <2>1, <2>3 DEF Closing
  <2>4. CASE f # fd[w]
    BY <1>2, <2>1, <2>2, <2>4 DEF Adding, Closing, epollVars, accepting
  <2> QED BY <2>3, <2>4
<1>10. CASE CloseClient(w)
  <2>1. /\ Move(w, "close", "forget") /\ UNCHANGED <<epollVars, fd>>
        /\ watched' = watched \ {fd[w]}
        /\ sock' = [f \in Fds |-> IF f \in {fd[w]} THEN Closed ELSE sock[f]]
    BY <1>10 DEF CloseClient, Close
  <2>2. Functions'
    BY <1>2, <2>1 DEF WatchOK, Functions
  <2> SUFFICES ASSUME NEW f \in OpenFds'
               PROVE  f \in watched' \/ Adding(f)' \/ \E v \in Workers : Closing(f, v)'
    BY <2>2 DEF WatchOK, OpenIsWatched, Adding, Closing
  <2>3. f \in OpenFds /\ f # fd[w]
    BY <2>1 DEF OpenFds
  <2>4. f \in watched \/ Adding(f) \/ \E v \in Workers : Closing(f, v)
    BY <2>3 DEF WatchOK, OpenIsWatched, Adding, Closing
  <2> QED BY <1>2, <2>1, <2>3, <2>4 DEF Adding, Closing, epollVars, accepting
<1> QED BY <1>5, <1>6, <1>7, <1>8, <1>9, <1>10 DEF Worker

LEMMA WatchEnvironment == WatchOK /\ (Environment \/ Stop) => WatchOK'
<1> SUFFICES ASSUME WatchOK, Environment \/ Stop PROVE WatchOK'
  OBVIOUS
<1>1. /\ UNCHANGED <<ep, clientfd, recvVars, watched>>
      /\ Functions' /\ OpenFds' \subseteq OpenFds
  <2>1. CASE Stop \/ (\E h \in Hosts : Connect(h)) \/ \E i \in 1..Len(backlog) : PeerActsEarly(i)
    BY <2>1 DEF Stop, Connect, PeerActsEarly, WatchOK, Functions, OpenFds,
       epollVars, accepting, recvVars, kernelVars
  <2>2. ASSUME NEW f \in Fds, PeerActs(f)
        PROVE  /\ UNCHANGED <<ep, clientfd, recvVars, watched>>
               /\ Functions' /\ OpenFds' \subseteq OpenFds
    <3>1. PICK d : /\ sock[f] # Closed /\ sock' = [sock EXCEPT ![f] = d]
                   /\ UNCHANGED <<watched, epollVars, recvVars>>
      BY <2>2 DEF PeerActs
    <3>2. Functions' /\ OpenFds' \subseteq OpenFds
      BY <3>1 DEF WatchOK, Functions, OpenFds, recvVars
    <3> QED BY <3>1, <3>2 DEF epollVars, accepting
  <2> QED BY <2>1, <2>2 DEF Environment
<1> QED BY <1>1, NothingOpens DEF Adding, Closing, recvVars

(* A socket the service has accepted is watched until it is closed, but    *)
(* for the two moments named in OpenIsWatched (TcpService.cpp:161, 298).   *)
THEOREM OpenIsWatchedCorrect == Spec => []OpenIsWatched
<1>1. Init => WatchOK
  BY WatchInit
<1>2. WatchOK /\ [Next]_vars => WatchOK'
  <2>1. WatchOK /\ UNCHANGED vars => WatchOK'
    BY DEF WatchOK, Functions, OpenIsWatched, OpenFds, vars, kernelVars,
       epollVars, accepting, recvVars
  <2> QED BY <2>1, WatchEpoll, WatchWorker, WatchEnvironment DEF Next
<1>3. WatchOK => OpenIsWatched
  BY DEF WatchOK
<1> QED BY <1>1, <1>2, <1>3, PTL DEF Spec

-----------------------------------------------------------------------------
(***************************************************************************)
(* 2. The types.                                                           *)
(***************************************************************************)
(* What the statements say of the variables around them: the descriptors   *)
(* in hand, the reported events, and who has left.                         *)
Taking == {"add", "connection", "inetaddr"}

PlacesOK ==
  /\ ep \in Taking => clientfd \in Fds /\ szIpAndPort \in Hosts
  /\ ep \in {"loop", "wait", "clean", "done"} => batch = {}
  /\ ep \notin {"clean", "done"} => cancelled = {}
  /\ bEpollWait => ep \notin {"clean", "done"}
  /\ ep # "done" => Listen \in watched /\ Wakeup \in watched
  /\ ep = "done" => \A w \in Workers : wpc[w] = "exited"
  /\ \A w \in Workers : wpc[w] = "exited" => w \in cancelled /\ tasks[w] = <<>>
  /\ \A w \in Workers : wpc[w] \notin {"fetch", "exited"} => fd[w] \in Fds

TypeInv == TypeOK /\ PlacesOK

LEMMA Descriptors ==
  /\ None \notin Fds /\ None \notin Hosts
  /\ \A f \in Fds : f # Listen /\ f # Wakeup
  /\ Listen # Wakeup
  /\ EventStep \in Nat \ {0}
  /\ Closed \notin Peer
  BY ServiceAssumption, ClosedAssumption DEF ServiceAssumption

(* A worker has one turn if there is one place in m_Threads that is its.   *)
OnlyTurn(s, w, k) ==
  k \in 1..Len(s) /\ s[k] = w /\ \A i \in 1..Len(s) : s[i] = w => i = k

LEMMA OneTurn ==
  ASSUME NEW s \in Seq(Workers), NEW w
  PROVE  Cardinality({i \in DOMAIN s : s[i] = w}) = 1 <=> \E k : OnlyTurn(s, w, k)
<1> DEFINE P == {i \in DOMAIN s : s[i] = w}
<1>1. DOMAIN s = 1..Len(s) /\ Len(s) \in Nat
  OBVIOUS
<1>2. IsFiniteSet(P)
  <2>1. IsFiniteSet(1..Len(s))
    BY <1>1, FS_Interval
  <2> QED BY <1>1, <2>1, FS_Subset
<1>3. Cardinality(P) = 1 <=> \E k : P = {k}
  BY <1>2, FS_Singleton
<1>4. \A i : i \in P <=> i \in 1..Len(s) /\ s[i] = w
  BY <1>1
<1>5. ASSUME NEW k PROVE P = {k} <=> OnlyTurn(s, w, k)
  <2> HIDE DEF P
  <2>1. P = {k} <=> \A i : i \in P <=> i = k
    OBVIOUS
  <2> QED BY <1>4, <2>1 DEF OnlyTurn
<1> QED BY <1>3, <1>5

LEMMA TurnGoesRound ==
  ASSUME NEW s \in Seq(Workers), NEW w, s # <<>>,
         Cardinality({i \in DOMAIN s : s[i] = w}) = 1
  PROVE  Cardinality({i \in DOMAIN Append(Tail(s), Head(s)) :
                        Append(Tail(s), Head(s))[i] = w}) = 1
<1> DEFINE r == Append(Tail(s), Head(s))
<1>1. /\ r \in Seq(Workers) /\ Len(r) = Len(s) /\ Len(s) \in Nat \ {0}
      /\ \A i \in 1..Len(s) : r[i] = IF i = Len(s) THEN s[1] ELSE s[i + 1]
  OBVIOUS
<1>2. PICK k : OnlyTurn(s, w, k)
  BY OneTurn
<1> HIDE DEF r
<1>3. \E j : OnlyTurn(r, w, j)
  <2> DEFINE j == IF k = 1 THEN Len(s) ELSE k - 1
  <2>1. j \in 1..Len(r) /\ r[j] = w
    BY <1>1, <1>2 DEF OnlyTurn
  <2>2. ASSUME NEW i \in 1..Len(r), r[i] = w PROVE i = j
    <3>1. CASE i = Len(s)
      BY <1>1, <1>2, <2>2, <3>1 DEF OnlyTurn
    <3>2. CASE i # Len(s)
      <4>1. i + 1 \in 1..Len(s) /\ s[i + 1] = w
        BY <1>1, <2>2, <3>2
      <4> QED BY <1>1, <1>2, <4>1 DEF OnlyTurn
    <3> QED BY <3>1, <3>2
  <2> HIDE DEF j
  <2> QED BY <2>1, <2>2 DEF OnlyTurn
<1>4. Cardinality({i \in DOMAIN r : r[i] = w}) = 1
  BY <1>1, <1>3, OneTurn
<1> QED BY <1>4 DEF r

LEMMA TypeInit == Init => TypeInv
<1> SUFFICES ASSUME Init PROVE TypeInv
  OBVIOUS
<1>1. \A w \in Workers : Cardinality({i \in DOMAIN threads : threads[i] = w}) = 1
  <2> DEFINE n == Cardinality(Workers)
  <2>1. IsFiniteSet(Workers) /\ n \in Nat
    BY ServiceAssumption, FS_CardinalityType DEF ServiceAssumption
  <2>2. threads \in [1..n -> Workers] /\ \A w \in Workers : \E i \in 1..n : threads[i] = w
    BY DEF Init
  <2>3. threads \in Surjection(1..n, Workers)
    BY <2>2 DEF Surjection
  <2>4. IsFiniteSet(1..n) /\ Cardinality(1..n) = n
    BY <2>1, FS_Interval
  <2>5. threads \in Injection(1..n, Workers)
    BY <2>1, <2>3, <2>4, FS_SurjSameCardinalityImpliesInj
  <2>6. \A i, j \in 1..n : threads[i] = threads[j] => i = j
    BY <2>5 DEF Injection, IsInjective
  <2>7. threads \in Seq(Workers) /\ Len(threads) = n
    BY <2>1, <2>2
  <2> TAKE w \in Workers
  <2>8. PICK k \in 1..n : threads[k] = w
    BY <2>2
  <2>9. OnlyTurn(threads, w, k)
    BY <2>6, <2>7, <2>8 DEF OnlyTurn
  <2> QED BY <2>7, <2>9, OneTurn
<1>2. threads \in Seq(Workers)
  <2>1. Cardinality(Workers) \in Nat
    BY ServiceAssumption, FS_CardinalityType DEF ServiceAssumption
  <2> QED BY <2>1 DEF Init
<1>3. TypeOK
  BY <1>1, <1>2, Descriptors
     DEF Init, TypeOK, PeerTypes, KernelTypes, EpollTypes, TableTypes, PoolTypes,
         RecvTypes, OpenFds, EpollStatements, RecvStatements
<1>4. PlacesOK
  BY DEF Init, PlacesOK, Taking
<1> QED BY <1>3, <1>4 DEF TypeInv

LEMMA ExceptType ==
  ASSUME NEW S, NEW T, NEW f \in [S -> T], NEW x, NEW v \in T
  PROVE  [f EXCEPT ![x] = v] \in [S -> T]
  OBVIOUS

LEMMA MinIsIn ==
  ASSUME NEW S \in SUBSET Nat, S # {}
  PROVE  Min(S) \in S
<1>1. \E n \in S : \A m \in S : n <= m
  BY HasSmallest
<1> QED BY <1>1 DEF Min

(* A step keeps the types of what it leaves alone.                         *)
LEMMA SameTypes ==
  /\ UNCHANGED peerVars /\ PeerTypes => PeerTypes'
  /\ UNCHANGED kernelVars /\ KernelTypes => KernelTypes'
  /\ UNCHANGED <<epollVars, maxNumbers>> /\ EpollTypes => EpollTypes'
  /\ UNCHANGED tables /\ TableTypes => TableTypes'
  /\ UNCHANGED poolVars /\ PoolTypes => PoolTypes'
  /\ UNCHANGED <<recvVars, received>> /\ RecvTypes => RecvTypes'
  BY DEF peerVars, kernelVars, epollVars, accepting, tables, poolVars, recvVars,
     PeerTypes, KernelTypes, EpollTypes, TableTypes, PoolTypes, RecvTypes, OpenFds

LEMMA TypeEvents ==
  ASSUME TypeInv, CountOK,
         \/ SafeChangeEvents \/ epoll_pwait \/ EventsEnd
         \/ ListenEvent \/ WakeupEvent \/ ReadEvent
  PROVE  TypeOK'
<1> USE Descriptors, SameTypes DEF TypeInv, TypeOK, At
<1>1. CASE SafeChangeEvents
  <2>1. Cardinality(watched) \in Nat
    BY FS_CardinalityType DEF CountOK
  <2>2. eventSize' \in Nat \ {0}
    BY <1>1, <2>1
       DEF SafeChangeEvents, Resized, CountOK, CountCoversWatched, EpollTypes
  <2>3. EpollTypes'
    BY <1>1, <2>2 DEF SafeChangeEvents, EpollTypes, EpollStatements, accepting
  <2> QED BY <1>1, <2>3 DEF SafeChangeEvents
<1>2. CASE epoll_pwait
  <2>1. KernelTypes'
    BY <1>2 DEF epoll_pwait, KernelTypes, OpenFds
  <2>2. EpollTypes'
    BY <1>2 DEF epoll_pwait, KernelTypes, EpollTypes, EpollStatements, accepting, OpenFds
  <2> QED BY <1>2, <2>1, <2>2 DEF epoll_pwait
<1>3. CASE EventsEnd
  <2>1. EpollTypes'
    BY <1>3 DEF EventsEnd, EpollTypes, EpollStatements, accepting
  <2> QED BY <1>3, <2>1 DEF EventsEnd
<1>4. CASE ListenEvent
  <2>1. EpollTypes'
    BY <1>4 DEF ListenEvent, TakeEvent, EpollTypes, EpollStatements, accepting
  <2> QED BY <1>4, <2>1 DEF ListenEvent
<1>5. CASE WakeupEvent
  <2>1. UNCHANGED <<accepting, eventSize, maxNumbers>> /\ bEpollWait' = FALSE
    BY <1>5 DEF WakeupEvent
  <2>2. /\ ep' \in EpollStatements /\ served' \in Nat
        /\ batch' \subseteq Fds \cup {Listen, Wakeup}
    BY <1>5 DEF WakeupEvent, TakeEvent, EpollTypes, EpollStatements
  <2>3. EpollTypes'
    BY <2>1, <2>2 DEF EpollTypes, accepting
  <2> QED BY <1>5, <2>3 DEF WakeupEvent
<1>6. CASE ReadEvent
  <2>1. EpollTypes'
    BY <1>6 DEF ReadEvent, TakeEvent, EpollTypes, EpollStatements, accepting
  <2>2. cancelled = {}
    BY <1>6 DEF ReadEvent, PlacesOK
  <2>3. threads # <<>>
    <3>1. PICK w \in Workers : TRUE
      BY ServiceAssumption DEF ServiceAssumption
    <3>2. \E k : OnlyTurn(threads, w, k)
      BY <2>2, <3>1, OneTurn DEF PoolTypes
    <3> QED BY <3>2 DEF OnlyTurn, PoolTypes
  <2>4. Head(threads) \in Workers /\ threads' \in Seq(Workers)
    BY <1>6, <2>3 DEF ReadEvent, PoolTypes
  <2>5. \A w \in Workers : Cardinality({i \in DOMAIN threads' : threads'[i] = w}) = 1
    <3>1. threads' = Append(Tail(threads), Head(threads))
      BY <1>6 DEF ReadEvent
    <3>2. ASSUME NEW w \in Workers
          PROVE  Cardinality({i \in DOMAIN Append(Tail(threads), Head(threads)) :
                                Append(Tail(threads), Head(threads))[i] = w}) = 1
      BY <2>2, <2>3, TurnGoesRound DEF PoolTypes
    <3> QED BY <3>1, <3>2
  <2>6. tasks' \in [Workers -> Seq(Fds)]
    BY <1>6, <2>4 DEF ReadEvent, PoolTypes
  <2>7. PoolTypes'
    BY <1>6, <2>4, <2>5, <2>6 DEF ReadEvent, PoolTypes
  <2> QED BY <1>6, <2>1, <2>7 DEF ReadEvent
<1> QED BY <1>1, <1>2, <1>3, <1>4, <1>5, <1>6

LEMMA Behead ==
  ASSUME NEW S, NEW s \in Seq(S), s # <<>>
  PROVE  /\ Head(s) \in S /\ Head(s) = s[1] /\ 1 \in 1..Len(s)
         /\ Tail(s) \in Seq(S) /\ Len(Tail(s)) = Len(s) - 1
         /\ \A i \in 1..Len(Tail(s)) : i + 1 \in 1..Len(s) /\ Tail(s)[i] = s[i + 1]
  OBVIOUS

LEMMA HostsOf ==
  ASSUME NEW s \in Seq(Peer)
  PROVE  {s[i].host : i \in DOMAIN s} \subseteq Hosts
<1>1. \A i \in DOMAIN s : s[i] \in Peer
  OBVIOUS
<1> QED BY <1>1 DEF Peer

LEMMA TypeAccept ==
  ASSUME TypeInv, Accept \/ AcceptEnds \/ AcceptFails \/ Watch \/ AddTcpConnection \/ SetSockfd2InetAddr
  PROVE  TypeOK'
<1> USE Descriptors, SameTypes DEF TypeInv, TypeOK, At
<1>1. CASE Accept
  <2>1. Min(Fds \ OpenFds) \in Fds
    BY <1>1, MinIsIn, ServiceAssumption DEF Accept, OpenFds, ServiceAssumption
  <2>2. Head(backlog) \in Peer /\ Tail(backlog) \in Seq(Peer)
    BY <1>1 DEF Accept, PeerTypes
  <2>3. Head(backlog).host \in Hosts
    BY <2>2 DEF Peer
  <2>4. PeerTypes'
    BY <1>1, <2>2 DEF Accept, PeerTypes
  <2>5. sock' \in [Fds -> Peer \cup {Closed}]
    BY <1>1, <2>2 DEF Accept, KernelTypes
  <2>6. \A f \in OpenFds : f \in OpenFds'
    BY <1>1, <2>2 DEF Accept, KernelTypes, OpenFds
  <2>7. KernelTypes'
    BY <1>1, <2>5, <2>6 DEF Accept, KernelTypes
  <2>8. EpollTypes'
    BY <1>1, <2>1, <2>3 DEF Accept, EpollTypes, EpollStatements
  <2> QED BY <1>1, <2>4, <2>7, <2>8 DEF Accept
<1>2. CASE AcceptEnds
  <2>1. EpollTypes'
    BY <1>2 DEF AcceptEnds, EpollTypes, EpollStatements, accepting
  <2> QED BY <1>2, <2>1 DEF AcceptEnds
<1>3. CASE AcceptFails
  <2>1. EpollTypes'
    BY <1>3 DEF AcceptFails, EpollTypes, EpollStatements, accepting
  <2>2. backlog' \in Seq(Peer)
    <3>1. backlog' = backlog \/ (backlog # <<>> /\ backlog' = Tail(backlog))
      BY <1>3 DEF AcceptFails
    <3> QED BY <3>1, Behead DEF PeerTypes
  <2>3. {backlog'[i].host : i \in DOMAIN backlog'} \subseteq Hosts
    BY <2>2, HostsOf
  <2>4. PeerTypes'
    BY <1>3, <2>2, <2>3 DEF AcceptFails, PeerTypes
  <2> QED BY <1>3, <2>1, <2>4 DEF AcceptFails
<1>4. CASE Watch
  <2>1. KernelTypes'
    BY <1>4 DEF Watch, EpollAdd, KernelTypes, PlacesOK, Taking, OpenFds
  <2>2. EpollTypes'
    BY <1>4 DEF Watch, EpollAdd, EpollTypes, EpollStatements, accepting
  <2> QED BY <1>4, <2>1, <2>2 DEF Watch
<1>5. CASE AddTcpConnection
  <2>1. EpollTypes'
    BY <1>5 DEF AddTcpConnection, EpollTypes, EpollStatements, accepting
  <2>2. tcpConnection' \in [Hosts -> Fds \cup {None}]
    BY <1>5, ExceptType DEF AddTcpConnection, TableTypes, EpollTypes
  <2>3. TableTypes'
    BY <1>5, <2>2 DEF AddTcpConnection, TableTypes
  <2> QED BY <1>5, <2>1, <2>3 DEF AddTcpConnection
<1>6. CASE SetSockfd2InetAddr
  <2>1. EpollTypes'
    BY <1>6 DEF SetSockfd2InetAddr, EpollTypes, EpollStatements, accepting
  <2>2. sockfd2InetAddr' \in [Fds -> Hosts \cup {None}]
    BY <1>6, ExceptType DEF SetSockfd2InetAddr, TableTypes, EpollTypes
  <2>3. TableTypes'
    BY <1>6, <2>2 DEF SetSockfd2InetAddr, TableTypes
  <2> QED BY <1>6, <2>1, <2>3 DEF SetSockfd2InetAddr
<1> QED BY <1>1, <1>2, <1>3, <1>4, <1>5, <1>6

LEMMA TypeClean ==
  ASSUME TypeInv, CloseAll \/ Stop \/ \E w \in Workers : ClearThreadPool(w)
  PROVE  TypeOK'
<1> USE Descriptors, SameTypes DEF TypeInv, TypeOK, At
<1>1. CASE CloseAll
  <2>1. PICK fds : /\ sock' = [f \in Fds |-> IF f \in fds THEN Closed ELSE sock[f]]
                   /\ watched' = watched \ fds /\ ready' = ready \ fds
    BY <1>1 DEF CloseAll, Close
  <2>2. KernelTypes'
    BY <2>1 DEF KernelTypes, OpenFds
  <2>3. EpollTypes'
    BY <1>1 DEF CloseAll, EpollTypes, EpollStatements, accepting
  <2>4. TableTypes'
    BY <1>1 DEF CloseAll, TableTypes
  <2>5. PeerTypes'
    BY <1>1 DEF CloseAll, PeerTypes
  <2> QED BY <1>1, <2>2, <2>3, <2>4, <2>5 DEF CloseAll
<1>2. CASE Stop
  <2>1. KernelTypes'
    BY <1>2 DEF Stop, KernelTypes, OpenFds, PlacesOK
  <2>2. EpollTypes'
    BY <1>2 DEF Stop, EpollTypes, EpollStatements, accepting
  <2> QED BY <1>2, <2>1, <2>2 DEF Stop
<1>3. ASSUME NEW w \in Workers, ClearThreadPool(w) PROVE TypeOK'
  <2>1. PoolTypes'
    BY <1>3 DEF ClearThreadPool, PoolTypes
  <2> QED BY <1>3, <2>1 DEF ClearThreadPool
<1> QED BY <1>1, <1>2, <1>3

(* A connection can be changed field by field ...                          *)
LEMMA PeerFields ==
  ASSUME NEW c \in Peer
  PROVE  /\ c.host \in Hosts /\ c.unread \in Seq(Nat) /\ c.end \in {"open", "fin", "rst"}
         /\ c = [host |-> c.host, unread |-> c.unread, end |-> c.end]
  BY DEF Peer

LEMMA PeerExcept ==
  ASSUME NEW c \in Peer, NEW u \in Seq(Nat), NEW e \in {"open", "fin", "rst"}
  PROVE  /\ [c EXCEPT !.unread = u] = [host |-> c.host, unread |-> u, end |-> c.end]
         /\ [c EXCEPT !.end = e] = [host |-> c.host, unread |-> c.unread, end |-> e]
         /\ [c EXCEPT !.end = e, !.unread = u] = [host |-> c.host, unread |-> u, end |-> e]
<1> DEFINE d == [c EXCEPT !.end = e]
<1>1. /\ [c EXCEPT !.unread = u] = [host |-> c.host, unread |-> u, end |-> c.end]
      /\ d = [host |-> c.host, unread |-> c.unread, end |-> e]
  BY PeerFields DEF Peer
<1>2. [c EXCEPT !.end = e, !.unread = u] = [d EXCEPT !.unread = u]
  BY DEF Peer
<1>3. d \in Peer
  BY DEF Peer
<1> HIDE DEF d
<1>4. [d EXCEPT !.unread = u] = [host |-> d.host, unread |-> u, end |-> d.end]
  BY <1>3, PeerFields DEF Peer
<1>5. d.host = c.host /\ d.end = e
  BY <1>1
<1>6. [c EXCEPT !.end = e, !.unread = u] = [host |-> c.host, unread |-> u, end |-> e]
  BY <1>2, <1>4, <1>5
<1> QED BY <1>1, <1>6 DEF d

LEMMA PeerIs ==
  ASSUME NEW h \in Hosts, NEW u \in Seq(Nat), NEW e \in {"open", "fin", "rst"}
  PROVE  [host |-> h, unread |-> u, end |-> e] \in Peer
  BY DEF Peer

LEMMA Drained ==
  ASSUME NEW c \in Peer
  PROVE  /\ [c EXCEPT !.unread = <<>>] = [host |-> c.host, unread |-> <<>>, end |-> c.end]
         /\ [c EXCEPT !.unread = <<>>] \in Peer
<1>1. <<>> \in Seq(Nat)
  OBVIOUS
<1>2. [c EXCEPT !.unread = <<>>] = [host |-> c.host, unread |-> <<>>, end |-> c.end]
  BY <1>1, PeerExcept DEF Peer
<1>3. c.host \in Hosts /\ c.end \in {"open", "fin", "rst"}
  BY PeerFields
<1>4. [host |-> c.host, unread |-> <<>>, end |-> c.end] \in Peer
  BY <1>1, <1>3, PeerIs
<1> QED BY <1>2, <1>4

(* ... and what its peer does to it ends it, or adds the next number.      *)
LEMMA ActedIs ==
  ASSUME NEW c \in Peer, c.end = "open", NEW d \in Acted(c), sent \in [Hosts -> Nat]
  PROVE  /\ d \in Peer /\ d.host = c.host
         /\ d.end # "open" => d.unread \in {c.unread, <<>>}
         /\ d.end = "open" => d.unread = Append(c.unread, sent[c.host] + 1)
<1>1. /\ c.host \in Hosts /\ c.unread \in Seq(Nat) /\ sent[c.host] \in Nat
      /\ c.end \in {"open", "fin", "rst"}
  BY PeerFields, Descriptors
<1>2. <<>> \in Seq(Nat)
  OBVIOUS
<1>3. CASE d = [c EXCEPT !.end = "fin"]
  <2>1. d = [host |-> c.host, unread |-> c.unread, end |-> "fin"]
    BY <1>1, <1>3, PeerExcept
  <2>2. d \in Peer
    BY <1>1, <2>1, PeerIs
  <2> QED BY <2>1, <2>2
<1>4. CASE d = [c EXCEPT !.end = "rst", !.unread = <<>>]
  <2>1. d = [host |-> c.host, unread |-> <<>>, end |-> "rst"]
    BY <1>2, <1>4, PeerExcept
  <2>2. d \in Peer
    BY <1>1, <1>2, <2>1, PeerIs
  <2> QED BY <2>1, <2>2
<1>5. CASE d = [c EXCEPT !.unread = Append(@, sent[c.host] + 1)]
  <2> DEFINE u == Append(c.unread, sent[c.host] + 1)
  <2>1. u \in Seq(Nat)
    BY <1>1
  <2>2. d = [c EXCEPT !.unread = u]
    BY <1>5, PeerFields
  <2> HIDE DEF u
  <2>3. d = [host |-> c.host, unread |-> u, end |-> c.end]
    BY <2>1, <2>2, PeerExcept
  <2>4. d \in Peer
    BY <1>1, <2>1, <2>3, PeerIs
  <2> QED BY <1>5, <2>3, <2>4 DEF u
<1> QED BY <1>3, <1>4, <1>5 DEF Acted

LEMMA TypeEnvironment ==
  ASSUME TypeInv, Environment
  PROVE  TypeOK'
<1> USE Descriptors, SameTypes DEF TypeInv, TypeOK
<1>1. ASSUME NEW h \in Hosts, Connect(h) PROVE TypeOK'
  <2>1. [host |-> h, unread |-> <<>>, end |-> "open"] \in Peer
    BY DEF Peer
  <2>2. PeerTypes'
    BY <1>1, <2>1 DEF Connect, PeerTypes
  <2>3. KernelTypes'
    BY <1>1 DEF Connect, KernelTypes, OpenFds, PlacesOK
  <2> QED BY <1>1, <2>2, <2>3 DEF Connect
<1>2. ASSUME NEW c \in Peer, c.end = "open", NEW d \in Acted(c), Count(c, d),
             sent \in [Hosts -> Nat]
      PROVE  d \in Peer /\ sent' \in [Hosts -> Nat]
  <2>1. d \in Peer
    BY <1>2, ActedIs
  <2>2. c.host \in Hosts /\ sent[c.host] \in Nat
    BY <1>2 DEF Peer
  <2>3. sent[c.host] + (IF d.end = "open" THEN 1 ELSE 0) \in Nat
    BY <2>2
  <2> QED BY <1>2, <2>1, <2>3, ExceptType DEF Count
<1>3. ASSUME NEW f \in Fds, PeerActs(f) PROVE TypeOK'
  <2>1. PICK d \in Acted(sock[f]) : sock' = [sock EXCEPT ![f] = d] /\ Count(sock[f], d)
    BY <1>3 DEF PeerActs
  <2>2. sock[f] \in Peer
    BY <1>3 DEF PeerActs, KernelTypes
  <2>3. d \in Peer /\ PeerTypes'
    BY <1>2, <1>3, <2>1, <2>2 DEF PeerTypes, PeerActs
  <2>4. KernelTypes'
    BY <1>3, <2>1, <2>3 DEF PeerActs, KernelTypes, OpenFds
  <2> QED BY <1>3, <2>3, <2>4 DEF PeerActs
<1>4. ASSUME NEW i \in 1..Len(backlog), PeerActsEarly(i) PROVE TypeOK'
  <2>1. PICK d \in Acted(backlog[i]) :
          backlog' = [backlog EXCEPT ![i] = d] /\ Count(backlog[i], d)
    BY <1>4 DEF PeerActsEarly
  <2>2. backlog[i] \in Peer
    BY DEF PeerTypes
  <2>3. PeerTypes'
    BY <1>2, <1>4, <2>1, <2>2 DEF PeerTypes, PeerActsEarly
  <2> QED BY <1>4, <2>3 DEF PeerActsEarly
<1> QED BY <1>1, <1>3, <1>4 DEF Environment

(* What a step of worker w does to the variables of recv_message.          *)
LEMMA MoveTypes ==
  ASSUME TypeOK, NEW w \in Workers, NEW from, NEW to \in RecvStatements, Move(w, from, to)
  PROVE  wpc' \in [Workers -> RecvStatements]
  BY DEF Move, TypeOK, RecvTypes

LEMMA LeavesTypes ==
  ASSUME TypeOK, NEW w \in Workers, NEW from, Leaves(w, from)
  PROVE  wpc' \in [Workers -> RecvStatements] /\ PoolTypes'
  BY DEF Leaves, Move, TypeOK, RecvTypes, PoolTypes, RecvStatements

LEMMA TypeWorker ==
  ASSUME TypeInv, NEW w \in Workers, Worker(w)
  PROVE  TypeOK'
<1> USE Descriptors, SameTypes DEF TypeInv, TypeOK
<1>1. CASE Fetch(w)
  <2>1. Head(tasks[w]) \in Fds /\ Tail(tasks[w]) \in Seq(Fds)
    BY <1>1 DEF Fetch, PoolTypes
  <2>2. PoolTypes'
    BY <1>1, <2>1 DEF Fetch, PoolTypes
  <2>3. RecvTypes'
    BY <1>1, <2>1, MoveTypes DEF Fetch, RecvTypes, RecvStatements
  <2> QED BY <1>1, <2>2, <2>3 DEF Fetch
<1>2. CASE Quit(w) \/ GiveUp(w)
  <2>1. RecvTypes' /\ PoolTypes'
    BY <1>2, LeavesTypes DEF Quit, GiveUp, RecvTypes
  <2> QED BY <1>2, <2>1 DEF Quit, GiveUp
<1>3. CASE getPeerAddr(w)
  <2>1. wpc' \in [Workers -> RecvStatements]
    BY <1>3, MoveTypes DEF getPeerAddr, RecvStatements
  <2>2. fd[w] \in Fds
    BY <1>3 DEF getPeerAddr, Move, PlacesOK
  <2>3. (IF Connected(fd[w]) THEN sock[fd[w]].host ELSE None) \in Hosts \cup {None}
    BY <2>2 DEF Connected, KernelTypes, Peer
  <2>4. RecvTypes'
    BY <1>3, <2>1, <2>3, ExceptType DEF getPeerAddr, RecvTypes
  <2> QED BY <1>3, <2>4 DEF getPeerAddr
<1>4. CASE FindInetAddr(w)
  <2>1. wpc' \in [Workers -> RecvStatements]
    BY <1>4, MoveTypes DEF FindInetAddr, RecvStatements
  <2>2. sockfd2InetAddr[fd[w]] \in Hosts \cup {None}
    BY <1>4 DEF FindInetAddr, Move, PlacesOK, TableTypes
  <2>3. RecvTypes'
    BY <1>4, <2>1, <2>2, ExceptType DEF FindInetAddr, RecvTypes
  <2> QED BY <1>4, <2>3 DEF FindInetAddr
<1>5. CASE Read(w)
  <2>1. wpc' \in [Workers -> RecvStatements]
    BY <1>5, MoveTypes DEF Read, RecvStatements
  <2>2. fd[w] \in Fds /\ sock[fd[w]] \in Peer
    BY <1>5 DEF Read, Move, PlacesOK, HasData, KernelTypes
  <2>3. sock[fd[w]].unread \in Seq(Nat) /\ [sock[fd[w]] EXCEPT !.unread = <<>>] \in Peer
    BY <2>2, PeerFields, Drained
  <2>4. buff[w] \o sock[fd[w]].unread \in Seq(Nat)
    BY <2>3 DEF RecvTypes
  <2>5. RecvTypes'
    BY <1>5, <2>1, <2>4 DEF Read, RecvTypes
  <2>6. sock' = [sock EXCEPT ![fd[w]] = [sock[fd[w]] EXCEPT !.unread = <<>>]]
    BY <1>5 DEF Read
  <2>7. KernelTypes'
    <3>1. /\ sock' \in [Fds -> Peer \cup {Closed}]
          /\ \A f \in Fds : sock[f] # Closed => sock'[f] # Closed
      BY <2>2, <2>3, <2>6 DEF KernelTypes
    <3>2. OpenFds \subseteq OpenFds'
      BY <3>1 DEF OpenFds
    <3> QED BY <1>5, <3>1, <3>2 DEF Read, KernelTypes
  <2> QED BY <1>5, <2>5, <2>7 DEF Read
<1>6. CASE ReadEnds(w)
  <2>1. RecvTypes'
    BY <1>6, MoveTypes DEF ReadEnds, RecvStatements, RecvTypes
  <2> QED BY <1>6, <2>1 DEF ReadEnds
<1>7. CASE MessageRecv(w)
  <2>1. /\ PoolTypes' /\ wpc' \in [Workers -> RecvStatements]
        /\ UNCHANGED <<fd, szPeerAddr, buff>>
    BY <1>7, LeavesTypes DEF MessageRecv
  <2>2. received' \in [Hosts -> Seq(Nat)]
    <3>1. received' = [received EXCEPT ![szPeerAddr[w]] = @ \o buff[w]]
      BY <1>7 DEF MessageRecv
    <3>2. szPeerAddr[w] \in Hosts => received[szPeerAddr[w]] \o buff[w] \in Seq(Nat)
      BY DEF RecvTypes
    <3> QED BY <3>1, <3>2 DEF RecvTypes
  <2>3. RecvTypes'
    BY <2>1, <2>2 DEF RecvTypes
  <2> QED BY <1>7, <2>1, <2>3 DEF MessageRecv
<1>8. CASE Unwatch(w)
  <2>1. RecvTypes'
    BY <1>8, MoveTypes DEF Unwatch, RecvStatements, RecvTypes
  <2>2. KernelTypes' /\ maxNumbers' \in Int
    BY <1>8 DEF Unwatch, EpollDel, KernelTypes, OpenFds, EpollTypes
  <2>3. EpollTypes'
    BY <1>8, <2>2 DEF Unwatch, EpollTypes, epollVars, accepting
  <2> QED BY <1>8, <2>1, <2>2, <2>3 DEF Unwatch
<1>9. CASE CloseClient(w)
  <2>1. RecvTypes'
    BY <1>9, MoveTypes DEF CloseClient, RecvStatements, RecvTypes
  <2>2. KernelTypes'
    BY <1>9 DEF CloseClient, Close, KernelTypes, OpenFds
  <2> QED BY <1>9, <2>1, <2>2 DEF CloseClient
<1>10. CASE RemoveSockfd2InetAddr(w)
  <2>1. RecvTypes'
    BY <1>10, MoveTypes DEF RemoveSockfd2InetAddr, RecvStatements, RecvTypes
  <2>2. TableTypes'
    BY <1>10, ExceptType DEF RemoveSockfd2InetAddr, TableTypes
  <2> QED BY <1>10, <2>1, <2>2 DEF RemoveSockfd2InetAddr
<1>11. CASE RemovTcpConnection(w)
  <2>1. RecvTypes' /\ PoolTypes'
    BY <1>11, LeavesTypes DEF RemovTcpConnection, RecvTypes
  <2>2. TableTypes'
    BY <1>11, ExceptType DEF RemovTcpConnection, TableTypes
  <2> QED BY <1>11, <2>1, <2>2 DEF RemovTcpConnection
<1> QED BY <1>1, <1>2, <1>3, <1>4, <1>5, <1>6, <1>7, <1>8, <1>9, <1>10, <1>11 DEF Worker

(* A step that leaves the workers, who is cancelled and the epoll thread   *)
(* alone, and withdraws neither of the service's descriptors.              *)
LEMMA PlacesKept ==
  ASSUME TypeInv, UNCHANGED <<ep, batch, cancelled, clientfd, szIpAndPort, tasks, wpc, fd>>,
         bEpollWait' => bEpollWait,
         ep # "done" => \A f \in {Listen, Wakeup} : f \in watched => f \in watched'
  PROVE  PlacesOK'
  BY DEF TypeInv, PlacesOK

(* ... and one in which the epoll thread moves.                            *)
LEMMA PlacesMoved ==
  ASSUME TypeInv, ep \notin {"clean", "done"},
         UNCHANGED <<cancelled, wpc, fd>>,
         \A w \in Workers : wpc[w] = "exited" => tasks'[w] = tasks[w],
         watched \subseteq watched',
         ep' # "done", ep' = "clean" => ~bEpollWait',
         ep' \in {"loop", "wait", "clean"} => batch' = {},
         ep' \in Taking => clientfd' \in Fds /\ szIpAndPort' \in Hosts
  PROVE  PlacesOK'
  BY DEF TypeInv, PlacesOK

LEMMA PlacesEpoll ==
  ASSUME TypeInv, EpollThread
  PROVE  PlacesOK'
<1> USE DEF At
<1>1. CASE SafeChangeEvents \/ epoll_pwait \/ EventsEnd \/ ListenEvent \/ WakeupEvent
  <2>1. /\ ep \notin {"clean", "done"} /\ ep' # "done"
        /\ UNCHANGED <<cancelled, wpc, fd, tasks, watched>>
        /\ ep' \notin Taking
    BY <1>1 DEF SafeChangeEvents, epoll_pwait, EventsEnd, ListenEvent, WakeupEvent,
       kernelVars, poolVars, recvVars, Taking
  <2>2. ep' = "clean" => ~bEpollWait'
    BY <1>1 DEF SafeChangeEvents, epoll_pwait, EventsEnd, ListenEvent, WakeupEvent
  <2>3. ep' \in {"loop", "wait", "clean"} => batch' = {}
    BY <1>1 DEF SafeChangeEvents, epoll_pwait, EventsEnd, ListenEvent, WakeupEvent,
       TypeInv, PlacesOK
  <2> QED BY <2>1, <2>2, <2>3, PlacesMoved
<1>2. CASE ReadEvent
  <2>1. /\ ep = "events" /\ ep' = "events"
        /\ UNCHANGED <<cancelled, wpc, fd, watched>>
    BY <1>2 DEF ReadEvent, kernelVars, recvVars
  <2>2. \A w \in Workers : wpc[w] # "exited"
    BY <2>1 DEF TypeInv, PlacesOK
  <2> QED BY <2>1, <2>2, PlacesMoved DEF Taking
<1>3. CASE Accept
  <2>1. TypeOK'
    BY <1>3, TypeAccept
  <2>2. clientfd' \in Fds
    BY <1>3, MinIsIn, ServiceAssumption DEF Accept, OpenFds, ServiceAssumption
  <2>3. Head(backlog) \in Peer
    BY <1>3 DEF Accept, TypeInv, TypeOK, PeerTypes
  <2>4. szIpAndPort' \in Hosts
    BY <1>3, <2>3, PeerFields DEF Accept
  <2>5. /\ ep = "accept" /\ ep' = "add"
        /\ UNCHANGED <<cancelled, wpc, fd, watched, tasks>>
    BY <1>3 DEF Accept, poolVars, recvVars
  <2> QED BY <2>2, <2>4, <2>5, PlacesMoved
<1>4. CASE AcceptEnds \/ AcceptFails \/ Watch \/ AddTcpConnection \/ SetSockfd2InetAddr
  <2>1. /\ ep \in {"accept"} \cup Taking /\ ep' \in {"events", "connection", "inetaddr", "accept"}
        /\ UNCHANGED <<cancelled, wpc, fd, tasks, clientfd, szIpAndPort>>
        /\ ep' \in Taking => ep \in Taking
    BY <1>4 DEF AcceptEnds, AcceptFails, Watch, AddTcpConnection, SetSockfd2InetAddr,
       poolVars, recvVars, accepting, Taking
  <2>2. watched \subseteq watched'
    BY <1>4 DEF AcceptEnds, AcceptFails, Watch, EpollAdd, AddTcpConnection, SetSockfd2InetAddr, kernelVars
  <2> QED BY <2>1, <2>2, PlacesMoved DEF TypeInv, PlacesOK, Taking
<1>5. CASE CloseAll
  <2>1. /\ ep' = "done" /\ ep = "clean" /\ UNCHANGED <<cancelled, wpc, fd, tasks, batch, bEpollWait>>
        /\ \A v \in Workers : v \in cancelled /\ wpc[v] = "exited"
    BY <1>5 DEF CloseAll, poolVars, recvVars
  <2> QED BY <2>1 DEF TypeInv, PlacesOK, Taking
<1>6. ASSUME NEW w \in Workers, ClearThreadPool(w) PROVE PlacesOK'
  <2>1. /\ ep = "clean" /\ cancelled \subseteq cancelled'
        /\ UNCHANGED <<ep, batch, bEpollWait, clientfd, tasks, watched, wpc, fd>>
    BY <1>6 DEF ClearThreadPool, epollVars, accepting, kernelVars, recvVars
  <2> QED BY <2>1 DEF TypeInv, PlacesOK, Taking
<1> QED BY <1>1, <1>2, <1>3, <1>4, <1>5, <1>6 DEF EpollThread

LEMMA PlacesEnvironment ==
  ASSUME TypeInv, Environment \/ Stop
  PROVE  PlacesOK'
<1>1. UNCHANGED <<ep, batch, cancelled, clientfd, szIpAndPort, tasks, wpc, fd, watched>>
  BY DEF Environment, Stop, Connect, PeerActs, PeerActsEarly, epollVars, accepting,
     poolVars, recvVars, kernelVars
<1>2. CASE Environment
  <2>1. bEpollWait' = bEpollWait
    BY <1>2 DEF Environment, Connect, PeerActs, PeerActsEarly, epollVars
  <2> QED BY <1>1, <2>1, PlacesKept
<1>3. CASE Stop
  <2>1. bEpollWait' = FALSE
    BY <1>3 DEF Stop
  <2> QED BY <1>1, <2>1, PlacesKept
<1> QED BY <1>2, <1>3

LEMMA PlacesWorker ==
  ASSUME TypeInv, NEW w \in Workers, Worker(w)
  PROVE  PlacesOK'
<1> DEFINE Others == \A v \in Workers \ {w} :
                       wpc'[v] = wpc[v] /\ fd'[v] = fd[v] /\ tasks'[v] = tasks[v]
<1>1. ep # "done"
  <2>1. wpc[w] # "exited"
    BY DEF Worker, Fetch, Quit, getPeerAddr, FindInetAddr, GiveUp, Read, ReadEnds,
       MessageRecv, Unwatch, CloseClient, RemoveSockfd2InetAddr, RemovTcpConnection,
       Move, Leaves
  <2> QED BY <2>1 DEF TypeInv, PlacesOK
<1>2. UNCHANGED <<ep, batch, cancelled, clientfd, szIpAndPort, bEpollWait>>
  BY DEF Worker, Fetch, Quit, getPeerAddr, FindInetAddr, GiveUp, Read, ReadEnds,
     MessageRecv, Unwatch, CloseClient, RemoveSockfd2InetAddr, RemovTcpConnection,
     Leaves, epollVars, accepting, poolVars
<1>3. ASSUME Listen \in watched', Wakeup \in watched', Others,
             wpc'[w] = "exited" => w \in cancelled /\ tasks'[w] = <<>>,
             wpc'[w] \notin {"fetch", "exited"} => fd'[w] \in Fds
      PROVE  PlacesOK'
  BY <1>1, <1>2, <1>3 DEF TypeInv, PlacesOK
<1>4. Listen \in watched' /\ Wakeup \in watched'
  <2>1. CASE Unwatch(w) \/ CloseClient(w)
    <3>1. watched \ {fd[w]} \subseteq watched' /\ fd[w] \in Fds
      BY <2>1 DEF Unwatch, CloseClient, EpollDel, Close, Move, TypeInv, PlacesOK
    <3> QED BY <1>1, <3>1, Descriptors DEF TypeInv, PlacesOK
  <2>2. CASE ~(Unwatch(w) \/ CloseClient(w))
    <3>1. watched' = watched
      BY <2>2 DEF Worker, Fetch, Quit, getPeerAddr, FindInetAddr, GiveUp, Read, ReadEnds,
         MessageRecv, RemoveSockfd2InetAddr, RemovTcpConnection, kernelVars
    <3> QED BY <1>1, <3>1 DEF TypeInv, PlacesOK
  <2> QED BY <2>1, <2>2
<1>5. CASE Fetch(w)
  <2>1. /\ wpc' = [wpc EXCEPT ![w] = "peer"]
        /\ fd' = [fd EXCEPT ![w] = Head(tasks[w])]
        /\ tasks' = [tasks EXCEPT ![w] = Tail(@)] /\ tasks[w] # <<>>
    BY <1>5 DEF Fetch, Move
  <2>2. Head(tasks[w]) \in Fds
    BY <2>1 DEF TypeInv, TypeOK, PoolTypes
  <2> QED BY <1>3, <1>4, <2>1, <2>2 DEF TypeInv, TypeOK, RecvTypes, PoolTypes
<1>6. CASE Quit(w) \/ GiveUp(w) \/ MessageRecv(w) \/ RemovTcpConnection(w)
  <2>1. fd' = fd
    BY <1>6 DEF Quit, GiveUp, MessageRecv, RemovTcpConnection
  <2>2. PICK from : Leaves(w, from)
    BY <1>6 DEF Quit, GiveUp, MessageRecv, RemovTcpConnection
  <2> QED BY <1>3, <1>4, <2>1, <2>2 DEF Leaves, Move, TypeInv, TypeOK, RecvTypes, PoolTypes
<1>7. CASE \/ getPeerAddr(w) \/ FindInetAddr(w) \/ Read(w) \/ ReadEnds(w)
           \/ Unwatch(w) \/ CloseClient(w) \/ RemoveSockfd2InetAddr(w)
  <2>1. UNCHANGED <<fd, tasks>>
    BY <1>7 DEF getPeerAddr, FindInetAddr, Read, ReadEnds, Unwatch, CloseClient,
       RemoveSockfd2InetAddr, poolVars
  <2>2. /\ wpc[w] \notin {"fetch", "exited"}
        /\ \E to : wpc' = [wpc EXCEPT ![w] = to] /\ to # "exited"
    <3>1. CASE getPeerAddr(w) \/ FindInetAddr(w) \/ Read(w)
      BY <3>1 DEF getPeerAddr, FindInetAddr, Read, Move
    <3>2. CASE ReadEnds(w) \/ Unwatch(w) \/ CloseClient(w) \/ RemoveSockfd2InetAddr(w)
      BY <3>2 DEF ReadEnds, Unwatch, CloseClient, RemoveSockfd2InetAddr, Move
    <3> QED BY <1>7, <3>1, <3>2
  <2> QED BY <1>3, <1>4, <2>1, <2>2 DEF TypeInv, TypeOK, RecvTypes, PoolTypes, PlacesOK
<1> QED BY <1>5, <1>6, <1>7 DEF Worker

LEMMA TypeStep == TypeInv /\ CountOK /\ [Next]_vars => TypeInv'
<1> SUFFICES ASSUME TypeInv, CountOK, [Next]_vars PROVE TypeInv'
  OBVIOUS
<1>1. CASE EpollThread
  <2>1. TypeOK'
    BY <1>1, TypeEvents, TypeAccept, TypeClean DEF EpollThread
  <2> QED BY <1>1, <2>1, PlacesEpoll DEF TypeInv
<1>2. CASE Environment \/ Stop
  BY <1>2, TypeEnvironment, TypeClean, PlacesEnvironment DEF TypeInv
<1>3. ASSUME NEW w \in Workers, Worker(w) PROVE TypeInv'
  BY <1>3, TypeWorker, PlacesWorker DEF TypeInv
<1>4. CASE UNCHANGED vars
  <2>1. TypeOK'
    BY <1>4, SameTypes DEF vars, TypeInv, TypeOK
  <2>2. PlacesOK'
    BY <1>4 DEF vars, epollVars, accepting, poolVars, recvVars, kernelVars, TypeInv, PlacesOK
  <2> QED BY <2>1, <2>2 DEF TypeInv
<1> QED BY <1>1, <1>2, <1>3, <1>4 DEF Next

LEMMA CountAlways == Spec => []CountOK
  BY CountInit, CountStep, PTL DEF Spec

LEMMA TypesAlways == Spec => []TypeInv
<1>1. TypeInv /\ CountOK /\ [Next]_vars => TypeInv'
  BY TypeStep
<1> QED BY <1>1, TypeInit, CountAlways, PTL DEF Spec

(* Every variable keeps its type, and every thread of the pool has one     *)
(* turn in m_Threads until the pool is cleared, whatever the peers do      *)
(* (ThreadPool.cpp:20).                                                      *)
THEOREM ServiceTypeCorrect == Spec => []TypeOK
<1>1. TypeInv => TypeOK
  BY DEF TypeInv
<1> QED BY <1>1, TypesAlways, PTL

(* Whatever peers and workers do to the epoll object, the epoll thread     *)
(* does not sleep through a stop: if it waits after one, the write to      *)
(* m_wakeupfd is there for epoll_pwait to report.                          *)
StopIsSeen ==
  ~bEpollWait /\ ep = "wait" => Wakeup \in {f \in ready : Readable(f)} /\ maxNumbers > 0

(* A step of the epoll thread is a statement further, or cancels a worker. *)
LEMMA EpollMoves ==
  ASSUME EpollThread
  PROVE  /\ ep = "wait" => ep' # "wait"
         /\ ep' = "wait" => bEpollWait'
<1>1. CASE SafeChangeEvents \/ epoll_pwait \/ EventsEnd
  BY <1>1 DEF SafeChangeEvents, epoll_pwait, EventsEnd, At
<1>2. CASE ListenEvent \/ WakeupEvent \/ ReadEvent
  BY <1>2 DEF ListenEvent, WakeupEvent, ReadEvent, At
<1>3. CASE Accept \/ AcceptEnds \/ AcceptFails \/ Watch \/ AddTcpConnection \/ SetSockfd2InetAddr
  BY <1>3 DEF Accept, AcceptEnds, AcceptFails, Watch, AddTcpConnection, SetSockfd2InetAddr, At
<1>4. CASE CloseAll \/ \E w \in Workers : ClearThreadPool(w)
  BY <1>4 DEF CloseAll, ClearThreadPool, At, epollVars
<1> QED BY <1>1, <1>2, <1>3, <1>4 DEF EpollThread

(* While it waits, its edge of m_wakeupfd stays: workers delete and close  *)
(* descriptors of connections only.                                        *)
LEMMA WakeupStays ==
  ASSUME TypeInv, [Next]_vars, ~EpollThread, Wakeup \in ready
  PROVE  Wakeup \in ready'
<1>1. \A f \in Fds : f # Wakeup
  BY Descriptors
<1>2. CASE Stop \/ Environment \/ UNCHANGED vars
  BY <1>2 DEF Stop, Environment, Connect, PeerActs, PeerActsEarly, vars, kernelVars
<1>3. ASSUME NEW w \in Workers, Worker(w) PROVE Wakeup \in ready'
  <2>1. CASE Unwatch(w) \/ CloseClient(w)
    <3>1. fd[w] \in Fds
      BY <2>1 DEF Unwatch, CloseClient, Move, TypeInv, PlacesOK
    <3> QED BY <1>1, <2>1, <3>1 DEF Unwatch, EpollDel, CloseClient, Close
  <2>2. CASE ~Unwatch(w) /\ ~CloseClient(w)
    BY <1>3, <2>2 DEF Worker, Fetch, Quit, getPeerAddr, FindInetAddr, GiveUp, Read, ReadEnds,
       MessageRecv, RemoveSockfd2InetAddr, RemovTcpConnection, kernelVars
  <2> QED BY <2>1, <2>2
<1> QED BY <1>2, <1>3 DEF Next

Woken == ~bEpollWait /\ ep = "wait" => Wakeup \in ready

LEMMA WokenStep ==
  ASSUME TypeInv, Woken, [Next]_vars
  PROVE  Woken'
<1>1. CASE EpollThread
  BY <1>1, EpollMoves DEF Woken
<1>2. CASE Stop
  BY <1>2 DEF Stop, Woken
<1>3. CASE ~EpollThread /\ ~Stop
  <2>1. CASE Environment \/ UNCHANGED vars
    BY <1>3, <2>1, WakeupStays
       DEF Environment, Connect, PeerActs, PeerActsEarly, vars, epollVars, Woken
  <2>2. ASSUME NEW w \in Workers, Worker(w) PROVE ep' = ep /\ bEpollWait' = bEpollWait
    BY <2>2 DEF Worker, Fetch, Quit, getPeerAddr, FindInetAddr, GiveUp, Read, ReadEnds,
       MessageRecv, Unwatch, CloseClient, RemoveSockfd2InetAddr, RemovTcpConnection, epollVars
  <2> QED BY <1>3, <2>1, <2>2, WakeupStays DEF Next, Woken
<1> QED BY <1>1, <1>2, <1>3

LEMMA WokenIsSeen ==
  ASSUME TypeInv, CountOK, Woken
  PROVE  StopIsSeen
<1>1. ASSUME ep = "wait" PROVE maxNumbers > 0
  <2>1. Wakeup \in watched /\ IsFiniteSet(watched)
    BY <1>1 DEF TypeInv, PlacesOK, CountOK
  <2>2. Cardinality(watched) \in Nat /\ Cardinality(watched) # 0
    BY <2>1, FS_CardinalityType, FS_EmptySet
  <2> QED BY <2>2 DEF CountOK, CountCoversWatched
<1>2. ~bEpollWait => Readable(Wakeup)
  BY Descriptors DEF Readable
<1> QED BY <1>1, <1>2 DEF Woken, StopIsSeen

(* The safety of StopEnds (TcpService.cpp:107-108, 139): after a stop,     *)
(* epoll_pwait always has something to report and room to report it.       *)
THEOREM StopIsSeenCorrect == Spec => []StopIsSeen
<1>1. Init => Woken
  BY DEF Init, Woken
<1>2. TypeInv /\ Woken /\ [Next]_vars => Woken'
  BY WokenStep
<1>3. TypeInv /\ CountOK /\ Woken => StopIsSeen
  BY WokenIsSeen
<1> QED BY <1>1, <1>2, <1>3, TypesAlways, CountAlways, PTL DEF Spec

-----------------------------------------------------------------------------
(***************************************************************************)
(* 3. The events of a socket.                                              *)
(***************************************************************************)
(* Where an event of socket f can be: reported, queued, or in the hand of  *)
(* a worker.                                                               *)
Reported(f)  == f \in ready \cup batch
Queued(w, f) == \E i \in 1..Len(tasks[w]) : tasks[w][i] = f
InHand(w, f) == fd[w] = f /\ wpc[w] \in Handling
Idle(f)      == \A w \in Workers : ~Queued(w, f) /\ ~InHand(w, f)

(* It is in one place only ...                                             *)
OneEvent(f) ==
  /\ f \in ready => f \notin batch
  /\ Reported(f) => Idle(f)
  /\ \A w, v \in Workers :
       /\ Queued(w, f) => ~InHand(v, f)
       /\ Queued(w, f) /\ Queued(v, f) => w = v
       /\ InHand(w, f) /\ InHand(v, f) => w = v
  /\ \A w \in Workers : \A i, j \in 1..Len(tasks[w]) :
       tasks[w][i] = f /\ tasks[w][j] = f => i = j

(* ... and until a worker has read the socket there is a reason for it.    *)
Owed(f) == sock[f] # Closed /\ (sock[f].unread # <<>> \/ sock[f].end # "open")

EventsOK ==
  \A f \in Fds :
    /\ OneEvent(f)
    /\ Reported(f) \/ (\E w \in Workers : Queued(w, f)) => Owed(f)

(* What a worker knows of the socket it has in hand.                       *)
HandOK(w) ==
  LET c == sock[fd[w]]
  IN  /\ wpc[w] \in Handling => c # Closed
      /\ wpc[w] = "peer" => Owed(fd[w]) /\ buff[w] = <<>>
      /\ wpc[w] = "lookup" => c.end = "rst" /\ buff[w] = <<>>
      /\ wpc[w] \in {"read", "deliver", "del", "close"} => szPeerAddr[w] = c.host
      /\ wpc[w] = "read" /\ buff[w] = <<>> => Owed(fd[w])
      /\ wpc[w] = "deliver" => buff[w] # <<>>
      /\ wpc[w] \in {"read", "deliver"} /\ buff[w] # <<>> =>
           c.unread = <<>> /\ c.end = "open"
      /\ wpc[w] \in {"del", "close"} => c.end # "open"

HandsOK == \A w \in Workers : HandOK(w)

(* A peer that waits does not end a connection with data under way.        *)
Whole(c) == c.unread # <<>> => c.end = "open"
WholeOK ==
  /\ \A f \in OpenFds : Whole(sock[f])
  /\ \A i \in 1..Len(backlog) : Whole(backlog[i])

(* The socket that is being accepted is nobody else's.                     *)
TakingOK ==
  ep \in Taking =>
    Has(clientfd, szIpAndPort) /\ clientfd \notin batch /\ Idle(clientfd)

(* The address of a descriptor is right, if it is not gone.                *)
NamedOK ==
  \A f \in OpenFds : \/ sockfd2InetAddr[f] \in {None, sock[f].host}
                     \/ ep \in Taking /\ clientfd = f

Flow == EventsOK /\ HandsOK /\ WholeOK /\ TakingOK /\ NamedOK

LEMMA FlowInit == Init => Flow
  BY Descriptors DEF Init, Flow, EventsOK, OneEvent, Reported, Queued, InHand, Idle, Owed,
     HandsOK, HandOK, Handling, WholeOK, TakingOK, Taking, NamedOK, OpenFds

(* The events of a socket stay in order when some are withdrawn ...        *)
LEMMA FewerEvents ==
  ASSUME NEW f, OneEvent(f),
         f \in ready' => f \in ready, f \in batch' => f \in batch,
         \A w \in Workers : tasks'[w] = tasks[w] \/ tasks'[w] = <<>>,
         \A w \in Workers : InHand(w, f)' => InHand(w, f)
  PROVE  /\ OneEvent(f)'
         /\ Reported(f)' => Reported(f)
         /\ \A w \in Workers : Queued(w, f)' => Queued(w, f)
<1>1. \A w \in Workers : Queued(w, f)' => Queued(w, f)
  BY DEF Queued
<1>2. Reported(f)' => Reported(f)
  BY DEF Reported
<1>3. \A w \in Workers : \A i, j \in 1..Len(tasks'[w]) :
        tasks'[w][i] = f /\ tasks'[w][j] = f => i = j
  BY DEF OneEvent
<1> QED BY <1>1, <1>2, <1>3 DEF OneEvent, Idle

(* ... a worker that is elsewhere, or whose socket is left alone, knows    *)
(* what it knew.                                                           *)
LEMMA HandKept ==
  ASSUME NEW w \in Workers, HandOK(w),
         wpc'[w] = wpc[w], fd'[w] = fd[w], buff'[w] = buff[w], szPeerAddr'[w] = szPeerAddr[w],
         wpc[w] \in Handling => sock'[fd[w]] = sock[fd[w]]
  PROVE  HandOK(w)'
  BY DEF HandOK, Handling, Owed

(* Steps of the epoll thread and the environment that only move on or take *)
(* note.                                                                   *)
LEMMA FlowQuiet ==
  ASSUME TypeInv, Flow,
         UNCHANGED <<sock, recvVars, sockfd2InetAddr, clientfd, szIpAndPort, tasks>>,
         batch' \subseteq batch, ready' \subseteq ready \cup {Listen, Wakeup},
         ep' \in Taking <=> ep \in Taking,
         \A i \in 1..Len(backlog') : Whole(backlog'[i])
  PROVE  Flow'
<1> USE DEF Flow, recvVars
<1>1. \A f, w : InHand(w, f)' <=> InHand(w, f)
  BY DEF InHand
<1>2. EventsOK'
  BY <1>1, FewerEvents, Descriptors DEF EventsOK, Owed
<1>3. HandsOK'
  BY HandKept DEF HandsOK
<1>4. WholeOK'
  BY DEF WholeOK, OpenFds
<1>5. TakingOK'
  BY <1>1 DEF TakingOK, Has, Idle, Queued
<1>6. NamedOK'
  BY DEF NamedOK, OpenFds
<1> QED BY <1>2, <1>3, <1>4, <1>5, <1>6

LEMMA FlowMovesOn ==
  ASSUME TypeInv, Flow,
         \/ SafeChangeEvents \/ EventsEnd \/ ListenEvent \/ WakeupEvent \/ AcceptEnds
         \/ AddTcpConnection \/ Stop \/ \E w \in Workers : ClearThreadPool(w)
  PROVE  Flow'
<1>1. UNCHANGED <<sock, recvVars, sockfd2InetAddr, clientfd, szIpAndPort, tasks, backlog>>
  BY DEF SafeChangeEvents, EventsEnd, ListenEvent, WakeupEvent, AcceptEnds,
     AddTcpConnection, Stop, ClearThreadPool, kernelVars, peerVars, epollVars,
     accepting, tables, poolVars
<1>2. batch' \subseteq batch /\ ready' \subseteq ready \cup {Listen, Wakeup}
  BY DEF SafeChangeEvents, EventsEnd, ListenEvent, WakeupEvent, TakeEvent, AcceptEnds,
     AddTcpConnection, Stop, ClearThreadPool, kernelVars, epollVars
<1>3. ep' \in Taking <=> ep \in Taking
  BY DEF SafeChangeEvents, EventsEnd, ListenEvent, WakeupEvent, AcceptEnds,
     AddTcpConnection, Stop, ClearThreadPool, epollVars, At, Taking
<1>4. \A i \in 1..Len(backlog') : Whole(backlog'[i])
  BY <1>1 DEF Flow, WholeOK
<1> QED BY <1>1, <1>2, <1>3, <1>4, FlowQuiet

LEMMA FlowReports ==
  ASSUME TypeInv, Flow, epoll_pwait
  PROVE  Flow'
<1>1. /\ UNCHANGED <<sock, recvVars, sockfd2InetAddr, clientfd, szIpAndPort, tasks, backlog>>
      /\ ep = "wait" /\ ep' = "events" /\ batch = {}
      /\ batch' \subseteq ready /\ ready' \subseteq ready \ batch'
  BY DEF epoll_pwait, At, accepting, tables, poolVars, peerVars, TypeInv, PlacesOK
<1>2. \A f, w : /\ InHand(w, f)' <=> InHand(w, f)
                /\ Queued(w, f)' <=> Queued(w, f)
  BY <1>1 DEF InHand, Queued, recvVars
<1>3. EventsOK'
  <2> SUFFICES ASSUME NEW f \in Fds
               PROVE  /\ OneEvent(f)'
                      /\ Reported(f)' \/ (\E w \in Workers : Queued(w, f)') => Owed(f)'
    BY DEF EventsOK
  <2>1. OneEvent(f)'
    BY <1>1, <1>2 DEF Flow, EventsOK, OneEvent, Reported, Idle
  <2> QED BY <1>1, <1>2, <2>1 DEF Flow, EventsOK, Reported, Owed
<1>4. HandsOK'
  BY <1>1, HandKept DEF Flow, HandsOK, recvVars
<1>5. WholeOK' /\ TakingOK' /\ NamedOK'
  BY <1>1 DEF Flow, WholeOK, TakingOK, NamedOK, OpenFds, Taking
<1> QED BY <1>3, <1>4, <1>5 DEF Flow

(* A reported event is queued at a worker, or lost.                        *)
LEMMA FlowQueues ==
  ASSUME TypeInv, Flow, ReadEvent
  PROVE  Flow'
<1>1. PICK f \in Fds, w \in Workers :
        /\ f \in batch /\ batch' = batch \ {f}
        /\ tasks' \in {tasks, [tasks EXCEPT ![w] = Append(@, f)]}
  <2>1. Head(threads) \in Workers
    <3>1. cancelled = {}
      BY DEF ReadEvent, At, TypeInv, PlacesOK
    <3>2. PICK v \in Workers : TRUE
      BY ServiceAssumption DEF ServiceAssumption
    <3>3. \E k : OnlyTurn(threads, v, k)
      BY <3>1, OneTurn DEF TypeInv, TypeOK, PoolTypes
    <3> QED BY <3>3 DEF OnlyTurn, TypeInv, TypeOK, PoolTypes
  <2> QED BY <2>1 DEF ReadEvent, TakeEvent
<1>2. /\ UNCHANGED <<sock, recvVars, sockfd2InetAddr, clientfd, szIpAndPort, backlog, ready>>
      /\ ep = "events" /\ ep' = "events"
  BY DEF ReadEvent, At, accepting, tables, kernelVars, peerVars
<1>3. \A g, v : InHand(v, g)' <=> InHand(v, g)
  BY <1>2 DEF InHand, recvVars
<1>4. Owed(f) /\ Idle(f) /\ f \notin ready /\ f \notin batch'
  BY <1>1 DEF Flow, EventsOK, OneEvent, Reported
<1>5. \A v \in Workers : tasks[v] \in Seq(Fds)
  BY DEF TypeInv, TypeOK, PoolTypes
<1>6. EventsOK'
  <2> SUFFICES ASSUME NEW g \in Fds
               PROVE  /\ OneEvent(g)'
                      /\ Reported(g)' \/ (\E v \in Workers : Queued(v, g)') => Owed(g)'
    BY DEF EventsOK
  <2>1. \A v \in Workers : /\ Queued(v, g)' => Queued(v, g) \/ (v = w /\ g = f)
                           /\ tasks'[v] = tasks[v] \/ (v = w /\ tasks'[v] = Append(tasks[v], f))
    <3> TAKE v \in Workers
    <3>1. tasks'[v] = tasks[v] \/ (v = w /\ tasks'[v] = Append(tasks[v], f))
      BY <1>1 DEF TypeInv, TypeOK, PoolTypes
    <3>2. ASSUME v = w, tasks'[v] = Append(tasks[v], f), NEW i \in 1..Len(tasks'[v])
          PROVE  tasks'[v][i] = f \/ (i \in 1..Len(tasks[v]) /\ tasks'[v][i] = tasks[v][i])
      BY <1>5, <3>2
    <3> QED BY <3>1, <3>2 DEF Queued
  <2>2. \A v \in Workers : \A i, j \in 1..Len(tasks'[v]) :
          tasks'[v][i] = g /\ tasks'[v][j] = g => i = j
    <3> SUFFICES ASSUME NEW v \in Workers, NEW i \in 1..Len(tasks'[v]), NEW j \in 1..Len(tasks'[v]),
                        tasks'[v][i] = g, tasks'[v][j] = g
                 PROVE  i = j
      OBVIOUS
    <3>1. CASE tasks'[v] = tasks[v]
      BY <3>1 DEF Flow, EventsOK, OneEvent
    <3>2. CASE v = w /\ tasks'[v] = Append(tasks[v], f)
      <4>1. \A k \in 1..Len(tasks[v]) : tasks[v][k] # f
        BY <1>4 DEF Idle, Queued
      <4>2. /\ Len(tasks'[v]) = Len(tasks[v]) + 1 /\ tasks'[v][Len(tasks[v]) + 1] = f
            /\ \A k \in 1..Len(tasks[v]) : tasks'[v][k] = tasks[v][k]
            /\ Len(tasks[v]) \in Nat
        BY <1>5, <3>2
      <4>3. \A k, l \in 1..Len(tasks[v]) : tasks[v][k] = g /\ tasks[v][l] = g => k = l
        BY DEF Flow, EventsOK, OneEvent
      <4>4. CASE g = f
        <5>1. i = Len(tasks[v]) + 1 /\ j = Len(tasks[v]) + 1
          BY <3>2, <4>1, <4>2, <4>4
        <5> QED BY <5>1
      <4>5. CASE g # f
        <5>1. i \in 1..Len(tasks[v]) /\ j \in 1..Len(tasks[v])
          BY <4>2, <4>5
        <5> QED BY <4>2, <4>3, <5>1
      <4> QED BY <4>4, <4>5
    <3> QED BY <2>1, <3>1, <3>2
  <2>3. OneEvent(g)'
    BY <1>1, <1>2, <1>3, <1>4, <2>1, <2>2 DEF Flow, EventsOK, OneEvent, Reported, Idle
  <2> QED BY <1>1, <1>2, <1>4, <2>1, <2>3 DEF Flow, EventsOK, Reported, Owed
<1>7. HandsOK'
  BY <1>2, HandKept DEF Flow, HandsOK, recvVars
<1>8. WholeOK' /\ TakingOK' /\ NamedOK'
  BY <1>2 DEF Flow, WholeOK, TakingOK, NamedOK, OpenFds, Taking
<1> QED BY <1>6, <1>7, <1>8 DEF Flow

(* The descriptor that accept returns was closed, so nobody has an event   *)
(* of it.                                                                  *)
LEMMA ClosedIsIdle ==
  ASSUME TypeInv, Flow, NEW f \in Fds, sock[f] = Closed
  PROVE  f \notin ready /\ f \notin batch /\ Idle(f)
  BY DEF Flow, EventsOK, Owed, Reported, Idle, HandsOK, HandOK, InHand

LEMMA FlowAccepts ==
  ASSUME TypeInv, Flow, Accept
  PROVE  Flow'
<1>1. /\ UNCHANGED <<recvVars, sockfd2InetAddr, tasks, batch, ready>>
      /\ sock' = [sock EXCEPT ![clientfd'] = Head(backlog)]
      /\ backlog # <<>> /\ backlog' = Tail(backlog)
      /\ szIpAndPort' = Head(backlog).host
      /\ ep = "accept" /\ ep' = "add"
  BY DEF Accept, At, tables, poolVars
<1>2. clientfd' \in Fds /\ sock[clientfd'] = Closed
  <2>1. clientfd' \in Fds \ OpenFds
    BY MinIsIn, ServiceAssumption DEF Accept, OpenFds, ServiceAssumption
  <2> QED BY <2>1 DEF OpenFds
<1>3. Head(backlog) \in Peer /\ Head(backlog) = backlog[1] /\ 1 \in 1..Len(backlog)
  BY <1>1 DEF TypeInv, TypeOK, PeerTypes
<1>4. /\ sock'[clientfd'] = Head(backlog) /\ Head(backlog) # Closed
      /\ \A f \in Fds : f # clientfd' => sock'[f] = sock[f]
  BY <1>1, <1>2, <1>3, Descriptors DEF TypeInv, TypeOK, KernelTypes
<1>5. clientfd' \notin ready /\ clientfd' \notin batch /\ Idle(clientfd')
  BY <1>2, ClosedIsIdle
<1>6. \A f, w : /\ InHand(w, f)' <=> InHand(w, f)
                /\ Queued(w, f)' <=> Queued(w, f)
  BY <1>1 DEF InHand, Queued, recvVars
<1>7. EventsOK'
  <2> SUFFICES ASSUME NEW f \in Fds
               PROVE  /\ OneEvent(f)'
                      /\ Reported(f)' \/ (\E w \in Workers : Queued(w, f)') => Owed(f)'
    BY DEF EventsOK
  <2>1. OneEvent(f)'
    BY <1>1, <1>6 DEF Flow, EventsOK, OneEvent, Reported, Idle
  <2>2. CASE f = clientfd'
    BY <1>1, <1>5, <1>6, <2>1, <2>2 DEF Reported, Idle
  <2>3. CASE f # clientfd'
    BY <1>1, <1>4, <1>6, <2>1, <2>3 DEF Flow, EventsOK, Reported, Owed
  <2> QED BY <2>2, <2>3
<1>8. HandsOK'
  <2> SUFFICES ASSUME NEW w \in Workers PROVE HandOK(w)'
    BY DEF HandsOK
  <2>1. wpc[w] \in Handling => fd[w] \in Fds /\ fd[w] # clientfd'
    BY <1>5 DEF Idle, InHand, TypeInv, PlacesOK, Handling
  <2> QED BY <1>1, <1>4, <2>1, HandKept DEF Flow, HandsOK, recvVars
<1>9. WholeOK'
  <2>1. \A i \in 1..Len(backlog') : i + 1 \in 1..Len(backlog) /\ backlog'[i] = backlog[i + 1]
    BY <1>1 DEF TypeInv, TypeOK, PeerTypes
  <2>2. \A f \in OpenFds' : f = clientfd' \/ f \in OpenFds
    BY <1>4 DEF OpenFds
  <2>3. \A f \in OpenFds' : Whole(sock'[f])
    BY <1>3, <1>4, <2>2 DEF Flow, WholeOK, OpenFds
  <2>4. \A i \in 1..Len(backlog') : Whole(backlog'[i])
    BY <2>1 DEF Flow, WholeOK
  <2> QED BY <2>3, <2>4 DEF WholeOK, Whole
<1>10. TakingOK'
  BY <1>1, <1>4, <1>5, <1>6 DEF TakingOK, Has, Idle
<1>11. NamedOK'
  BY <1>1, <1>4 DEF Flow, NamedOK, OpenFds, Taking
<1> QED BY <1>7, <1>8, <1>9, <1>10, <1>11 DEF Flow

(* EpollAdd reports what is already there.                                 *)
LEMMA FlowWatches ==
  ASSUME TypeInv, Flow, Watch
  PROVE  Flow'
<1>1. /\ UNCHANGED <<sock, recvVars, sockfd2InetAddr, clientfd, szIpAndPort, tasks, batch, backlog>>
      /\ ep = "add" /\ ep' = "connection"
      /\ ready' \subseteq ready \cup (IF Readable(clientfd) THEN {clientfd} ELSE {})
  BY DEF Watch, EpollAdd, At, accepting, tables, poolVars, peerVars
<1>2. clientfd \in Fds /\ Idle(clientfd) /\ clientfd \notin batch
  BY <1>1 DEF Flow, TakingOK, TypeInv, PlacesOK, Taking
<1>3. Readable(clientfd) => Owed(clientfd)
  BY <1>2, Descriptors DEF Readable, HasData, Owed
<1>4. \A f, w : /\ InHand(w, f)' <=> InHand(w, f)
                /\ Queued(w, f)' <=> Queued(w, f)
  BY <1>1 DEF InHand, Queued, recvVars
<1>5. EventsOK'
  <2> SUFFICES ASSUME NEW f \in Fds
               PROVE  /\ OneEvent(f)'
                      /\ Reported(f)' \/ (\E w \in Workers : Queued(w, f)') => Owed(f)'
    BY DEF EventsOK
  <2>1. OneEvent(f)'
    BY <1>1, <1>2, <1>4 DEF Flow, EventsOK, OneEvent, Reported, Idle
  <2> QED BY <1>1, <1>3, <1>4, <2>1 DEF Flow, EventsOK, Reported, Owed
<1>6. HandsOK'
  BY <1>1, HandKept DEF Flow, HandsOK, recvVars
<1>7. WholeOK' /\ TakingOK' /\ NamedOK'
  BY <1>1, <1>4 DEF Flow, WholeOK, TakingOK, NamedOK, OpenFds, Taking, Has, Idle
<1> QED BY <1>5, <1>6, <1>7 DEF Flow

LEMMA FlowNames ==
  ASSUME TypeInv, Flow, SetSockfd2InetAddr
  PROVE  Flow'
<1>1. /\ UNCHANGED <<sock, recvVars, clientfd, szIpAndPort, tasks, batch, ready, backlog>>
      /\ ep = "inetaddr" /\ ep' = "accept"
      /\ sockfd2InetAddr' = [sockfd2InetAddr EXCEPT ![clientfd] = szIpAndPort]
  BY DEF SetSockfd2InetAddr, At, accepting, poolVars, peerVars, kernelVars
<1>2. \A f, w : InHand(w, f)' <=> InHand(w, f)
  BY <1>1 DEF InHand, recvVars
<1>3. EventsOK'
  BY <1>1, <1>2, FewerEvents DEF Flow, EventsOK, Owed
<1>4. HandsOK'
  BY <1>1, HandKept DEF Flow, HandsOK, recvVars
<1>5. WholeOK' /\ TakingOK'
  BY <1>1 DEF Flow, WholeOK, TakingOK, OpenFds, Taking
<1>6. sock[clientfd].host = szIpAndPort
  BY <1>1 DEF Flow, TakingOK, Has, Taking
<1>7. NamedOK'
  BY <1>1, <1>6 DEF Flow, NamedOK, OpenFds, TypeInv, TypeOK, TableTypes
<1> QED BY <1>3, <1>4, <1>5, <1>7 DEF Flow

LEMMA FlowClosesAll ==
  ASSUME TypeInv, Flow, CloseAll
  PROVE  Flow'
<1>1. PICK fds :
        /\ sock' = [f \in Fds |-> IF f \in fds THEN Closed ELSE sock[f]]
        /\ ready' = ready \ fds
        /\ UNCHANGED <<recvVars, sockfd2InetAddr, clientfd, szIpAndPort, tasks, batch>>
        /\ backlog' = <<>> /\ ep = "clean" /\ ep' = "done"
        /\ \A w \in Workers : wpc[w] = "exited"
  BY DEF CloseAll, Close, At, accepting, poolVars
<1>2. \A f, w : InHand(w, f)' <=> InHand(w, f)
  BY <1>1 DEF InHand, recvVars
<1>3. EventsOK'
  <2> SUFFICES ASSUME NEW f \in Fds
               PROVE  /\ OneEvent(f)'
                      /\ Reported(f)' \/ (\E w \in Workers : Queued(w, f)') => Owed(f)'
    BY DEF EventsOK
  <2>1. OneEvent(f)'
    BY <1>1, <1>2, FewerEvents DEF Flow, EventsOK
  <2>2. batch = {} /\ \A w \in Workers : tasks[w] = <<>>
    BY <1>1 DEF TypeInv, PlacesOK
  <2> QED BY <1>1, <2>1, <2>2 DEF Flow, EventsOK, Owed, Reported, Queued
<1>4. HandsOK'
  BY <1>1, HandKept DEF Flow, HandsOK, recvVars, Handling
<1>5. WholeOK' /\ TakingOK' /\ NamedOK'
  BY <1>1 DEF Flow, WholeOK, TakingOK, NamedOK, OpenFds, Taking
<1> QED BY <1>3, <1>4, <1>5 DEF Flow

LEMMA FlowConnects ==
  ASSUME TypeInv, Flow, NEW h \in Hosts, Connect(h)
  PROVE  Flow'
<1>1. /\ UNCHANGED <<sock, recvVars, sockfd2InetAddr, clientfd, szIpAndPort, tasks, batch, ep>>
      /\ ready' = ready \cup {Listen}
      /\ backlog' = Append(backlog, [host |-> h, unread |-> <<>>, end |-> "open"])
  BY DEF Connect, epollVars, accepting, tables, poolVars
<1>2. \A i \in 1..Len(backlog') : Whole(backlog'[i])
  BY <1>1 DEF Flow, WholeOK, Whole, TypeInv, TypeOK, PeerTypes
<1> QED BY <1>1, <1>2, FlowQuiet

(* A peer that waits acts on a socket that is idle and has nothing to      *)
(* read, so it adds one number or ends the connection.                     *)
LEMMA WaitingPeerActs ==
  ASSUME TypeInv, NEW c \in Peer, c.end = "open", c.unread = <<>>, NEW d \in Acted(c)
  PROVE  /\ d \in Peer /\ d.host = c.host /\ Whole(d)
         /\ d.unread # <<>> \/ d.end # "open"
         /\ d.end = "open" => d.unread = <<sent[c.host] + 1>>
         /\ d.end # "open" => d.unread = <<>>
<1>1. sent \in [Hosts -> Nat]
  BY DEF TypeInv, TypeOK, PeerTypes
<1> QED BY <1>1, ActedIs DEF Whole

LEMMA FlowActsEarly ==
  ASSUME TypeInv, Flow, ~Ahead, NEW k \in 1..Len(backlog), PeerActsEarly(k)
  PROVE  Flow'
<1>1. PICK d \in Acted(backlog[k]) : backlog' = [backlog EXCEPT ![k] = d]
  BY DEF PeerActsEarly
<1>2. backlog[k] \in Peer /\ backlog[k].end = "open" /\ backlog[k].unread = <<>>
  BY DEF PeerActsEarly, TypeInv, TypeOK, PeerTypes
<1>3. Whole(d)
  BY <1>2, WaitingPeerActs
<1>4. \A i \in 1..Len(backlog') : Whole(backlog'[i])
  BY <1>1, <1>3 DEF Flow, WholeOK, TypeInv, TypeOK, PeerTypes
<1>5. UNCHANGED <<sock, recvVars, sockfd2InetAddr, clientfd, szIpAndPort, tasks, batch, ep, ready>>
  BY DEF PeerActsEarly, kernelVars, epollVars, accepting, tables, poolVars
<1> QED BY <1>4, <1>5, FlowQuiet

LEMMA FlowActs ==
  ASSUME TypeInv, Flow, ~Ahead, NEW f \in Fds, PeerActs(f)
  PROVE  Flow'
<1>1. PICK d \in Acted(sock[f]) : sock' = [sock EXCEPT ![f] = d]
  BY DEF PeerActs
<1>2. /\ UNCHANGED <<recvVars, sockfd2InetAddr, clientfd, szIpAndPort, tasks, batch, ep, backlog>>
      /\ ready' \subseteq ready \cup {f}
  BY DEF PeerActs, epollVars, accepting, tables, poolVars
<1>3. /\ f \notin ready /\ f \notin batch
      /\ \A w \in Workers : ~Queued(w, f) /\ ~InHand(w, f)
      /\ ~Readable(f) /\ sock[f] # Closed /\ sock[f].end = "open"
  BY DEF PeerActs, Pending, Queued, InHand
<1>4. sock[f] \in Peer /\ sock[f].unread = <<>>
  BY <1>3, Descriptors DEF Readable, HasData, TypeInv, TypeOK, KernelTypes
<1>5. /\ d \in Peer /\ d.host = sock[f].host /\ Whole(d)
      /\ d.unread # <<>> \/ d.end # "open"
  BY <1>3, <1>4, WaitingPeerActs
<1>6. /\ sock'[f] = d /\ d # Closed
      /\ \A g \in Fds : g # f => sock'[g] = sock[g]
  BY <1>1, <1>5, Descriptors DEF TypeInv, TypeOK, KernelTypes
<1>7. \A g, w : /\ InHand(w, g)' <=> InHand(w, g)
                /\ Queued(w, g)' <=> Queued(w, g)
  BY <1>2 DEF InHand, Queued, recvVars
<1>8. EventsOK'
  <2> SUFFICES ASSUME NEW g \in Fds
               PROVE  /\ OneEvent(g)'
                      /\ Reported(g)' \/ (\E w \in Workers : Queued(w, g)') => Owed(g)'
    BY DEF EventsOK
  <2>1. CASE g = f
    <3>1. Owed(g)'
      BY <1>5, <1>6, <2>1 DEF Owed
    <3>2. OneEvent(g)'
      BY <1>2, <1>3, <1>7, <2>1 DEF Flow, EventsOK, OneEvent, Reported, Idle
    <3> QED BY <3>1, <3>2
  <2>2. CASE g # f
    <3>1. OneEvent(g)'
      BY <1>2, <1>7, <2>2 DEF Flow, EventsOK, OneEvent, Reported, Idle
    <3> QED BY <1>2, <1>6, <1>7, <2>2, <3>1 DEF Flow, EventsOK, Reported, Owed
  <2> QED BY <2>1, <2>2
<1>9. HandsOK'
  <2> SUFFICES ASSUME NEW w \in Workers PROVE HandOK(w)'
    BY DEF HandsOK
  <2>1. wpc[w] \in Handling => fd[w] \in Fds /\ fd[w] # f
    BY <1>3 DEF InHand, TypeInv, PlacesOK, Handling
  <2> QED BY <1>2, <1>6, <2>1, HandKept DEF Flow, HandsOK, recvVars
<1>10. WholeOK'
  BY <1>2, <1>5, <1>6 DEF Flow, WholeOK, OpenFds
<1>11. TakingOK'
  BY <1>2, <1>3, <1>5, <1>6, <1>7
     DEF Flow, TakingOK, Has, Idle, TypeInv, PlacesOK, Taking
<1>12. NamedOK'
  BY <1>2, <1>3, <1>5, <1>6 DEF Flow, NamedOK, OpenFds, Taking
<1> QED BY <1>8, <1>9, <1>10, <1>11, <1>12 DEF Flow

(* Worker w moves on: the sockets and the other workers stay as they are.  *)
Alone(w) ==
  \A v \in Workers \ {w} :
    /\ wpc'[v] = wpc[v] /\ fd'[v] = fd[v] /\ buff'[v] = buff[v]
    /\ szPeerAddr'[v] = szPeerAddr[v] /\ tasks'[v] = tasks[v]

MovesOn(w) ==
  /\ Alone(w) /\ fd'[w] = fd[w] /\ tasks'[w] \in {tasks[w], <<>>}
  /\ UNCHANGED <<sock, batch, ep, clientfd, szIpAndPort, backlog>>
  /\ ready' \subseteq ready
  /\ wpc'[w] \in Handling => wpc[w] \in Handling
  /\ \A f \in Fds : sockfd2InetAddr'[f] \in {None, sockfd2InetAddr[f]}

LEMMA FlowWorkerMoves ==
  ASSUME TypeInv, Flow, NEW w \in Workers, MovesOn(w), HandOK(w)'
  PROVE  Flow'
<1> USE DEF MovesOn, Alone
<1>1. \A f : \A v \in Workers : InHand(v, f)' => InHand(v, f)
  BY DEF InHand
<1>2. \A v \in Workers : tasks'[v] = tasks[v] \/ tasks'[v] = <<>>
  OBVIOUS
<1>3. \A f \in Fds : /\ OneEvent(f)'
                     /\ Reported(f)' => Reported(f)
                     /\ \A v \in Workers : Queued(v, f)' => Queued(v, f)
  BY <1>1, <1>2, FewerEvents DEF Flow, EventsOK
<1>4. EventsOK'
  BY <1>3 DEF Flow, EventsOK, Owed
<1>5. HandsOK'
  BY HandKept DEF Flow, HandsOK
<1>6. WholeOK' /\ NamedOK'
  BY DEF Flow, WholeOK, NamedOK, OpenFds
<1>7. TakingOK'
  BY <1>1, <1>3 DEF Flow, TakingOK, Has, Idle, TypeInv, PlacesOK
<1> QED BY <1>4, <1>5, <1>6, <1>7 DEF Flow

LEMMA LeavesMoves ==
  ASSUME TypeInv, NEW w \in Workers, NEW from, Leaves(w, from),
         UNCHANGED <<kernelVars, epollVars, backlog, fd, szPeerAddr, buff, sockfd2InetAddr>>
  PROVE  MovesOn(w) /\ wpc'[w] \in {"fetch", "exited"}
  BY DEF Leaves, Move, MovesOn, Alone, kernelVars, epollVars, accepting, Handling,
     TypeInv, TypeOK, RecvTypes, PoolTypes

LEMMA StaysMoves ==
  ASSUME TypeInv, NEW w \in Workers, NEW from, NEW to, Move(w, from, to),
         to \in Handling => from \in Handling,
         \A v \in Workers \ {w} : szPeerAddr'[v] = szPeerAddr[v],
         UNCHANGED <<sock, epollVars, backlog, fd, buff, poolVars>>,
         ready' \subseteq ready,
         \A f \in Fds : sockfd2InetAddr'[f] \in {None, sockfd2InetAddr[f]}
  PROVE  MovesOn(w) /\ wpc[w] = from /\ wpc'[w] = to
  BY DEF Move, MovesOn, Alone, epollVars, accepting, poolVars, TypeInv, TypeOK, RecvTypes

LEMMA FlowLeaves ==
  ASSUME TypeInv, Flow, NEW w \in Workers,
         Quit(w) \/ GiveUp(w) \/ MessageRecv(w) \/ RemovTcpConnection(w)
  PROVE  Flow'
<1>1. /\ \E from : Leaves(w, from)
      /\ UNCHANGED <<kernelVars, epollVars, backlog, fd, szPeerAddr, buff, sockfd2InetAddr>>
  BY DEF Quit, GiveUp, MessageRecv, RemovTcpConnection, tables, peerVars
<1>2. MovesOn(w) /\ wpc'[w] \in {"fetch", "exited"}
  BY <1>1, LeavesMoves
<1>3. HandOK(w)'
  BY <1>2 DEF HandOK, Handling
<1> QED BY <1>2, <1>3, FlowWorkerMoves

LEMMA FlowAsks ==
  ASSUME TypeInv, Flow, NEW w \in Workers, getPeerAddr(w) \/ FindInetAddr(w) \/ ReadEnds(w)
  PROVE  Flow'
<1>1. /\ UNCHANGED <<sock, epollVars, backlog, fd, buff, poolVars, ready, sockfd2InetAddr>>
      /\ wpc[w] \in {"peer", "lookup", "read"} /\ fd[w] \in Fds
  BY DEF getPeerAddr, FindInetAddr, ReadEnds, Move, kernelVars, tables, peerVars,
     TypeInv, PlacesOK
<1>2. sock[fd[w]] # Closed /\ sock[fd[w]].end \in {"open", "fin", "rst"}
  BY <1>1, PeerFields DEF Flow, HandsOK, HandOK, Handling, TypeInv, TypeOK, KernelTypes
<1>3. CASE getPeerAddr(w)
  <2> DEFINE c == Connected(fd[w])
  <2>1. /\ Move(w, "peer", IF c THEN "read" ELSE "lookup")
        /\ szPeerAddr' = [szPeerAddr EXCEPT ![w] = IF c THEN sock[fd[w]].host ELSE None]
    BY <1>3 DEF getPeerAddr
  <2>2. MovesOn(w) /\ wpc[w] = "peer" /\ wpc'[w] = IF c THEN "read" ELSE "lookup"
    BY <1>1, <2>1, StaysMoves DEF Handling, TypeInv, TypeOK, RecvTypes
  <2>3. szPeerAddr'[w] = IF c THEN sock[fd[w]].host ELSE None
    BY <2>1 DEF TypeInv, TypeOK, RecvTypes
  <2>4. ~c => sock[fd[w]].end = "rst"
    BY <1>2 DEF Connected
  <2>5. Owed(fd[w]) /\ buff[w] = <<>>
    BY <2>2 DEF Flow, HandsOK, HandOK
  <2>6. HandOK(w)'
    BY <1>1, <1>2, <2>2, <2>3, <2>4, <2>5 DEF HandOK, Owed, Handling
  <2> QED BY <2>2, <2>6, FlowWorkerMoves
<1>4. CASE FindInetAddr(w)
  <2>1. /\ Move(w, "lookup", "read")
        /\ sockfd2InetAddr[fd[w]] # None
        /\ szPeerAddr' = [szPeerAddr EXCEPT ![w] = sockfd2InetAddr[fd[w]]]
    BY <1>4 DEF FindInetAddr
  <2>2. MovesOn(w) /\ wpc[w] = "lookup" /\ wpc'[w] = "read"
    BY <1>1, <2>1, StaysMoves DEF Handling, TypeInv, TypeOK, RecvTypes
  <2>3. szPeerAddr'[w] = sockfd2InetAddr[fd[w]]
    BY <2>1 DEF TypeInv, TypeOK, RecvTypes
  <2>4. sockfd2InetAddr[fd[w]] = sock[fd[w]].host
    <3>1. ~(ep \in Taking /\ clientfd = fd[w])
      BY <2>2 DEF Flow, TakingOK, Idle, InHand, Handling
    <3> QED BY <1>1, <1>2, <2>1, <3>1 DEF Flow, NamedOK, OpenFds
  <2>5. sock[fd[w]].end = "rst" /\ buff[w] = <<>>
    BY <2>2 DEF Flow, HandsOK, HandOK
  <2>6. HandOK(w)'
    BY <1>1, <1>2, <2>2, <2>3, <2>4, <2>5 DEF HandOK, Owed, Handling
  <2> QED BY <2>2, <2>6, FlowWorkerMoves
<1>5. CASE ReadEnds(w)
  <2> DEFINE ends == sock[fd[w]] = Closed \/ sock[fd[w]].end = "rst" \/ buff[w] = <<>>
  <2>1. /\ Move(w, "read", IF ends THEN "del" ELSE "deliver")
        /\ ~HasData(fd[w]) /\ szPeerAddr' = szPeerAddr
    BY <1>5 DEF ReadEnds
  <2>2. MovesOn(w) /\ wpc[w] = "read" /\ wpc'[w] = IF ends THEN "del" ELSE "deliver"
    BY <1>1, <2>1, StaysMoves DEF Handling
  <2>3. HandOK(w)
    BY DEF Flow, HandsOK
  <2>4. HandOK(w)'
    BY <1>1, <1>2, <2>1, <2>2, <2>3 DEF HandOK, Owed, HasData, Handling
  <2> QED BY <2>2, <2>4, FlowWorkerMoves
<1> QED BY <1>3, <1>4, <1>5

LEMMA FlowUnwatches ==
  ASSUME TypeInv, Flow, NEW w \in Workers, Unwatch(w) \/ RemoveSockfd2InetAddr(w)
  PROVE  Flow'
<1>1. CASE Unwatch(w)
  <2>1. /\ Move(w, "del", "close")
        /\ UNCHANGED <<sock, epollVars, backlog, fd, buff, poolVars, szPeerAddr, sockfd2InetAddr>>
        /\ ready' \subseteq ready
    BY <1>1 DEF Unwatch, EpollDel, tables, peerVars
  <2>2. MovesOn(w) /\ wpc[w] = "del" /\ wpc'[w] = "close"
    BY <2>1, StaysMoves DEF Handling
  <2>3. HandOK(w)'
    BY <2>1, <2>2 DEF Flow, HandsOK, HandOK, Handling
  <2> QED BY <2>2, <2>3, FlowWorkerMoves
<1>2. CASE RemoveSockfd2InetAddr(w)
  <2>1. /\ Move(w, "forget", "disconnection")
        /\ UNCHANGED <<sock, epollVars, backlog, fd, buff, poolVars, szPeerAddr, ready>>
        /\ sockfd2InetAddr' = [sockfd2InetAddr EXCEPT ![fd[w]] = None]
    BY <1>2 DEF RemoveSockfd2InetAddr, kernelVars, peerVars
  <2>2. \A f \in Fds : sockfd2InetAddr'[f] \in {None, sockfd2InetAddr[f]}
    BY <2>1 DEF TypeInv, TypeOK, TableTypes
  <2>3. MovesOn(w) /\ wpc'[w] = "disconnection"
    BY <2>1, <2>2, StaysMoves DEF Handling
  <2>4. HandOK(w)'
    BY <2>3 DEF HandOK, Handling
  <2> QED BY <2>3, <2>4, FlowWorkerMoves
<1> QED BY <1>1, <1>2

(* A failed accept leaves the queue as it is, or drops its first           *)
(* connection, which was reset.                                            *)
LEMMA WhatFails ==
  ASSUME TypeInv, AcceptFails
  PROVE  /\ ep = "accept" /\ ep' = "events"
         /\ UNCHANGED <<sock, ready, batch, recvVars, sockfd2InetAddr, accepting, tasks,
                        sent, received, early>>
         /\ \E n \in {0, 1} :
              /\ \A i \in 1..Len(backlog') :
                   i \in Nat /\ i + n \in 1..Len(backlog) /\ backlog'[i] = backlog[i + n]
              /\ \A i \in 1..Len(backlog) :
                   \/ backlog[i].end = "rst"
                   \/ i - n \in 1..Len(backlog') /\ backlog'[i - n] = backlog[i]
<1>1. /\ ep = "accept" /\ ep' = "events"
      /\ UNCHANGED <<sock, ready, batch, recvVars, sockfd2InetAddr, accepting, tasks,
                     sent, received, early>>
      /\ backlog # <<>> /\ backlog \in Seq(Peer) /\ Len(backlog) \in Nat
  BY DEF AcceptFails, At, kernelVars, tables, poolVars, TypeInv, TypeOK, PeerTypes
<1>2. CASE backlog' = backlog
  <2>1. /\ \A i \in 1..Len(backlog') :
             i \in Nat /\ i + 0 \in 1..Len(backlog) /\ backlog'[i] = backlog[i + 0]
        /\ \A i \in 1..Len(backlog) : i - 0 \in 1..Len(backlog') /\ backlog'[i - 0] = backlog[i]
    BY <1>1, <1>2
  <2> QED BY <1>1, <2>1
<1>3. CASE Head(backlog).end = "rst" /\ backlog' = Tail(backlog)
  <2>0. /\ \A i \in 1..Len(backlog') : i + 1 \in 1..Len(backlog) /\ backlog'[i] = backlog[i + 1]
        /\ Len(backlog') = Len(backlog) - 1 /\ Head(backlog) = backlog[1]
    BY <1>1, <1>3, Behead, Zenon
  <2>1. /\ \A i \in 1..Len(backlog') : i + 1 \in 1..Len(backlog) /\ backlog'[i] = backlog[i + 1]
        /\ Len(backlog') = Len(backlog) - 1 /\ backlog[1].end = "rst"
    BY <1>3, <2>0
  <2>2. \A i \in 1..Len(backlog) : i = 1 \/ (i - 1 \in 1..Len(backlog') /\ (i - 1) + 1 = i)
    BY <1>1, <2>1
  <2>3. /\ \A i \in 1..Len(backlog') : i \in Nat
        /\ \A i \in 1..Len(backlog) :
             backlog[i].end = "rst" \/ (i - 1 \in 1..Len(backlog') /\ backlog'[i - 1] = backlog[i])
    BY <2>1, <2>2
  <2> QED BY <1>1, <2>1, <2>3
<1> QED BY <1>2, <1>3 DEF AcceptFails

LEMMA FlowFails ==
  ASSUME TypeInv, Flow, AcceptFails
  PROVE  Flow'
<1>1. /\ UNCHANGED <<sock, recvVars, sockfd2InetAddr, clientfd, szIpAndPort, tasks, batch, ready>>
      /\ ep = "accept" /\ ep' = "events"
  BY WhatFails DEF accepting
<1>2. \A i \in 1..Len(backlog') : Whole(backlog'[i])
  BY WhatFails DEF Flow, WholeOK
<1>3. ep' \in Taking <=> ep \in Taking
  BY <1>1 DEF Taking
<1> QED BY <1>1, <1>2, <1>3, FlowQuiet

(* A worker takes the first event of its queue in hand.                    *)
LEMMA FlowFetches ==
  ASSUME TypeInv, Flow, NEW w \in Workers, Fetch(w)
  PROVE  Flow'
<1>0. tasks[w] # <<>> /\ tasks[w] \in Seq(Fds)
  BY DEF Fetch, TypeInv, TypeOK, PoolTypes
<1> PICK f \in Fds : f = Head(tasks[w])
  BY <1>0, Behead
<1>1. /\ tasks' = [tasks EXCEPT ![w] = Tail(@)]
      /\ wpc[w] = "fetch" /\ wpc' = [wpc EXCEPT ![w] = "peer"]
      /\ fd' = [fd EXCEPT ![w] = f]
      /\ buff' = [buff EXCEPT ![w] = <<>>]
      /\ UNCHANGED <<sock, batch, ep, clientfd, szIpAndPort, backlog, ready,
                     sockfd2InetAddr, szPeerAddr>>
  BY DEF Fetch, Move, kernelVars, epollVars, accepting, tables, peerVars,
     TypeInv, TypeOK, PoolTypes
<1>2. /\ Alone(w) /\ wpc'[w] = "peer" /\ fd'[w] = f /\ buff'[w] = <<>>
      /\ tasks'[w] = Tail(tasks[w])
  BY <1>1 DEF Alone, TypeInv, TypeOK, RecvTypes, PoolTypes
<1>3. /\ f = tasks[w][1] /\ 1 \in 1..Len(tasks[w])
      /\ \A i \in 1..Len(tasks'[w]) : i + 1 \in 1..Len(tasks[w]) /\ tasks'[w][i] = tasks[w][i + 1]
      /\ Len(tasks[w]) \in Nat /\ Len(tasks'[w]) \in Nat
  BY <1>0, <1>2, Behead
<1>4. Queued(w, f)
  BY <1>3 DEF Queued
<1>5. OneEvent(f) /\ Owed(f)
  BY <1>3, <1>4 DEF Flow, EventsOK
<1>6. ~Queued(w, f)'
  <2> SUFFICES ASSUME NEW i \in 1..Len(tasks'[w]), tasks'[w][i] = f PROVE FALSE
    BY DEF Queued
  <2>1. i + 1 \in 1..Len(tasks[w]) /\ tasks[w][i + 1] = f /\ i \in Nat /\ i >= 1
    BY <1>3
  <2>2. i + 1 = 1
    BY <1>3, <1>5, <2>1 DEF OneEvent
  <2> QED BY <2>1, <2>2
<1>7. \A g : \A v \in Workers :
        /\ Queued(v, g)' => Queued(v, g)
        /\ InHand(v, g)' <=> InHand(v, g) \/ (v = w /\ g = f)
  <2> TAKE g
  <2> TAKE v \in Workers
  <2>1. Queued(v, g)' => Queued(v, g)
    <3>1. CASE v = w
      BY <1>3, <3>1 DEF Queued
    <3>2. CASE v # w
      BY <1>2, <3>2 DEF Queued, Alone
    <3> QED BY <3>1, <3>2
  <2>2. InHand(v, g)' <=> InHand(v, g) \/ (v = w /\ g = f)
    BY <1>1, <1>2 DEF InHand, Alone, Handling
  <2> QED BY <2>1, <2>2
<1>8. \A g \in Fds : \A v \in Workers : \A i, j \in 1..Len(tasks'[v]) :
        tasks'[v][i] = g /\ tasks'[v][j] = g => i = j
  <2> SUFFICES ASSUME NEW g \in Fds, NEW v \in Workers, NEW i \in 1..Len(tasks'[v]),
                      NEW j \in 1..Len(tasks'[v]), tasks'[v][i] = g, tasks'[v][j] = g
               PROVE  i = j
    OBVIOUS
  <2>1. CASE v = w
    <3>1. /\ i + 1 \in 1..Len(tasks[w]) /\ tasks[w][i + 1] = g
          /\ j + 1 \in 1..Len(tasks[w]) /\ tasks[w][j + 1] = g
      BY <1>3, <2>1
    <3>2. i + 1 = j + 1
      BY <3>1 DEF Flow, EventsOK, OneEvent
    <3>3. i \in Nat /\ j \in Nat
      BY <1>3, <2>1
    <3> QED BY <3>2, <3>3
  <2>2. CASE v # w
    BY <1>2, <2>2 DEF Alone, Flow, EventsOK, OneEvent
  <2> QED BY <2>1, <2>2
<1>9. EventsOK'
  <2> SUFFICES ASSUME NEW g \in Fds
               PROVE  /\ OneEvent(g)'
                      /\ Reported(g)' \/ (\E v \in Workers : Queued(v, g)') => Owed(g)'
    BY DEF EventsOK
  <2>1. Reported(g)' <=> Reported(g)
    BY <1>1 DEF Reported
  <2>2. CASE g = f
    <3>1. ~Reported(f) /\ \A v \in Workers : ~Queued(v, f)' /\ ~InHand(v, f)
      BY <1>4, <1>5, <1>6, <1>7 DEF OneEvent, Idle
    <3> QED BY <1>7, <1>8, <2>1, <2>2, <3>1 DEF OneEvent, Reported
  <2>3. CASE g # f
    <3>1. OneEvent(g)
      BY DEF Flow, EventsOK
    <3>2. OneEvent(g)'
      BY <1>1, <1>7, <1>8, <2>1, <2>3, <3>1 DEF OneEvent, Idle
    <3> QED BY <1>1, <1>7, <2>1, <3>2 DEF Flow, EventsOK, Owed
  <2> QED BY <2>2, <2>3
<1>10. HandsOK'
  <2>1. HandOK(w)'
    BY <1>1, <1>2, <1>5 DEF HandOK, Owed
  <2>2. \A v \in Workers \ {w} : HandOK(v)'
    BY <1>1, <1>2, HandKept DEF Flow, HandsOK, Alone
  <2> QED BY <2>1, <2>2 DEF HandsOK
<1>11. WholeOK' /\ NamedOK'
  BY <1>1 DEF Flow, WholeOK, NamedOK, OpenFds
<1>12. TakingOK'
  <2>1. ep \in Taking => clientfd # f
    BY <1>4 DEF Flow, TakingOK, Idle
  <2> QED BY <1>1, <1>7, <2>1 DEF Flow, TakingOK, Has, Idle
<1> QED BY <1>9, <1>10, <1>11, <1>12 DEF Flow

(* It alone has the socket in hand, so what it does to it is seen by       *)
(* nobody else.                                                            *)
LEMMA HandIsAlone ==
  ASSUME TypeInv, Flow, NEW w \in Workers, wpc[w] \in Handling
  PROVE  /\ fd[w] \in Fds /\ sock[fd[w]] # Closed /\ sock[fd[w]] \in Peer
         /\ ~Reported(fd[w])
         /\ \A v \in Workers : ~Queued(v, fd[w])
         /\ \A v \in Workers \ {w} : wpc[v] \in Handling => fd[v] # fd[w]
         /\ ep \in Taking => clientfd # fd[w]
<1>1. fd[w] \in Fds /\ InHand(w, fd[w])
  BY DEF InHand, Handling, TypeInv, PlacesOK
<1>2. sock[fd[w]] # Closed /\ sock[fd[w]] \in Peer
  BY <1>1 DEF Flow, HandsOK, HandOK, TypeInv, TypeOK, KernelTypes
<1>3. OneEvent(fd[w])
  BY <1>1 DEF Flow, EventsOK
<1> QED BY <1>1, <1>2, <1>3 DEF OneEvent, Idle, InHand, Flow, TakingOK

LEMMA FlowReads ==
  ASSUME TypeInv, Flow, NEW w \in Workers, Read(w)
  PROVE  Flow'
<1> DEFINE f == fd[w]
<1>1. /\ wpc[w] = "read" /\ HasData(f)
      /\ UNCHANGED <<wpc, fd, szPeerAddr, tasks, batch, ep, clientfd, szIpAndPort, backlog,
                     ready, sockfd2InetAddr>>
      /\ buff' = [buff EXCEPT ![w] = @ \o sock[f].unread]
      /\ sock' = [sock EXCEPT ![f] = [sock[f] EXCEPT !.unread = <<>>]]
  BY DEF Read, Move, epollVars, accepting, tables, peerVars, poolVars,
     TypeInv, TypeOK, RecvTypes
<1>2. /\ f \in Fds /\ sock[f] # Closed /\ sock[f] \in Peer /\ ~Reported(f)
      /\ \A v \in Workers : ~Queued(v, f)
      /\ \A v \in Workers \ {w} : wpc[v] \in Handling => fd[v] # f
      /\ ep \in Taking => clientfd # f
  BY <1>1, HandIsAlone DEF Handling
<1> HIDE DEF f
<1>3. /\ sock[f].unread # <<>> /\ sock[f].unread \in Seq(Nat)
      /\ sock[f].end = "open"
  BY <1>1, <1>2, PeerFields DEF HasData, Flow, WholeOK, Whole, OpenFds
<1>4. /\ sock'[f] = [host |-> sock[f].host, unread |-> <<>>, end |-> sock[f].end]
      /\ sock'[f] # Closed
      /\ \A g \in Fds : g # f => sock'[g] = sock[g]
  <2>1. /\ sock'[f] = [sock[f] EXCEPT !.unread = <<>>]
        /\ \A g \in Fds : g # f => sock'[g] = sock[g]
    BY <1>1, <1>2 DEF TypeInv, TypeOK, KernelTypes
  <2> QED BY <1>2, <2>1, Drained, Descriptors
<1>5. \A g, v : /\ InHand(v, g)' <=> InHand(v, g)
                /\ Queued(v, g)' <=> Queued(v, g)
  BY <1>1 DEF InHand, Queued
<1>6. EventsOK'
  <2> SUFFICES ASSUME NEW g \in Fds
               PROVE  /\ OneEvent(g)'
                      /\ Reported(g)' \/ (\E v \in Workers : Queued(v, g)') => Owed(g)'
    BY DEF EventsOK
  <2>1. OneEvent(g)'
    BY <1>1, <1>5 DEF Flow, EventsOK, OneEvent, Reported, Idle
  <2>2. Reported(g)' <=> Reported(g)
    BY <1>1 DEF Reported
  <2>3. CASE g = f
    BY <1>2, <1>5, <2>1, <2>2, <2>3
  <2>4. CASE g # f
    BY <1>4, <1>5, <2>1, <2>2, <2>4 DEF Flow, EventsOK, Owed
  <2> QED BY <2>3, <2>4
<1>7. HandsOK'
  <2>1. HandOK(w)'
    <3>1. buff'[w] = buff[w] \o sock[f].unread /\ buff[w] \in Seq(Nat)
      BY <1>1 DEF TypeInv, TypeOK, RecvTypes
    <3>2. buff'[w] # <<>>
      BY <1>3, <3>1
    <3>3. szPeerAddr[w] = sock[f].host
      BY <1>1 DEF Flow, HandsOK, HandOK, f
    <3> QED BY <1>1, <1>3, <1>4, <3>2, <3>3 DEF HandOK, f
  <2>2. ASSUME NEW v \in Workers \ {w} PROVE HandOK(v)'
    <3>1. buff'[v] = buff[v]
      BY <1>1 DEF TypeInv, TypeOK, RecvTypes
    <3>2. wpc[v] \in Handling => sock'[fd[v]] = sock[fd[v]]
      BY <1>2, <1>4 DEF TypeInv, PlacesOK, Handling
    <3> QED BY <1>1, <3>1, <3>2, HandKept DEF Flow, HandsOK
  <2> QED BY <2>1, <2>2 DEF HandsOK
<1>8. WholeOK'
  <2>1. \A g \in OpenFds' : g \in Fds /\ (g = f \/ (g \in OpenFds /\ sock'[g] = sock[g]))
    BY <1>4 DEF OpenFds
  <2>2. Whole(sock'[f])
    BY <1>4 DEF Whole
  <2> QED BY <1>1, <2>1, <2>2 DEF Flow, WholeOK, Whole
<1>9. TakingOK'
  BY <1>1, <1>2, <1>4, <1>5 DEF Flow, TakingOK, Has, Idle, TypeInv, PlacesOK
<1>10. NamedOK'
  BY <1>1, <1>2, <1>4 DEF Flow, NamedOK, OpenFds
<1> QED BY <1>6, <1>7, <1>8, <1>9, <1>10 DEF Flow

LEMMA FlowCloses ==
  ASSUME TypeInv, Flow, NEW w \in Workers, CloseClient(w)
  PROVE  Flow'
<1> DEFINE f == fd[w]
<1>1. /\ wpc[w] = "close" /\ wpc' = [wpc EXCEPT ![w] = "forget"]
      /\ UNCHANGED <<fd, szPeerAddr, buff, tasks, batch, ep, clientfd, szIpAndPort, backlog,
                     sockfd2InetAddr>>
      /\ ready' \subseteq ready
      /\ sock' = [g \in Fds |-> IF g = f THEN Closed ELSE sock[g]]
  BY DEF CloseClient, Close, Move, epollVars, accepting, tables, peerVars, poolVars
<1>2. /\ f \in Fds /\ sock[f] # Closed /\ ~Reported(f)
      /\ \A v \in Workers : ~Queued(v, f)
      /\ \A v \in Workers \ {w} : wpc[v] \in Handling => fd[v] # f
      /\ ep \in Taking => clientfd # f
  BY <1>1, HandIsAlone DEF Handling
<1>3. /\ wpc'[w] = "forget"
      /\ \A v \in Workers \ {w} : wpc'[v] = wpc[v]
  BY <1>1 DEF TypeInv, TypeOK, RecvTypes
<1>4. \A g : \A v \in Workers : InHand(v, g)' => InHand(v, g)
  BY <1>1, <1>3 DEF InHand, Handling
<1>5. EventsOK'
  <2> SUFFICES ASSUME NEW g \in Fds
               PROVE  /\ OneEvent(g)'
                      /\ Reported(g)' \/ (\E v \in Workers : Queued(v, g)') => Owed(g)'
    BY DEF EventsOK
  <2>1. /\ OneEvent(g)'
        /\ Reported(g)' => Reported(g)
        /\ \A v \in Workers : Queued(v, g)' => Queued(v, g)
    BY <1>1, <1>4, FewerEvents DEF Flow, EventsOK
  <2>2. CASE g = f
    BY <1>2, <2>1, <2>2
  <2>3. CASE g # f
    <3>1. Owed(g)' <=> Owed(g)
      BY <1>1, <2>3 DEF Owed
    <3> QED BY <2>1, <3>1 DEF Flow, EventsOK
  <2> QED BY <2>2, <2>3
<1>6. HandsOK'
  <2>1. HandOK(w)'
    BY <1>3 DEF HandOK, Handling
  <2>2. ASSUME NEW v \in Workers \ {w} PROVE HandOK(v)'
    BY <1>1, <1>2, <1>3, HandKept DEF Flow, HandsOK, TypeInv, PlacesOK, Handling
  <2> QED BY <2>1, <2>2 DEF HandsOK
<1>7. WholeOK' /\ NamedOK'
  BY <1>1 DEF Flow, WholeOK, NamedOK, OpenFds
<1>8. TakingOK'
  BY <1>1, <1>2, <1>4 DEF Flow, TakingOK, Has, Idle, Queued, TypeInv, PlacesOK
<1> QED BY <1>5, <1>6, <1>7, <1>8 DEF Flow

LEMMA FlowStep == ~Ahead /\ TypeInv /\ Flow /\ [Next]_vars => Flow'
<1> SUFFICES ASSUME ~Ahead, TypeInv, Flow, [Next]_vars PROVE Flow'
  OBVIOUS
<1>1. CASE EpollThread
  BY <1>1, FlowMovesOn, FlowReports, FlowQueues, FlowAccepts, FlowWatches, FlowNames,
     FlowClosesAll, FlowFails DEF EpollThread
<1>2. CASE Environment \/ Stop
  BY <1>2, FlowMovesOn, FlowConnects, FlowActs, FlowActsEarly DEF Environment
<1>3. ASSUME NEW w \in Workers, Worker(w) PROVE Flow'
  BY <1>3, FlowFetches, FlowLeaves, FlowAsks, FlowReads, FlowUnwatches, FlowCloses DEF Worker
<1>4. CASE UNCHANGED vars
  <2>1. /\ UNCHANGED <<sock, recvVars, sockfd2InetAddr, clientfd, szIpAndPort, tasks, batch,
                       ready, ep, backlog>>
    BY <1>4 DEF vars, kernelVars, epollVars, accepting, tables, poolVars, peerVars
  <2> QED BY <2>1, FlowQuiet DEF Flow, WholeOK
<1> QED BY <1>1, <1>2, <1>3, <1>4 DEF Next

LEMMA FlowAlways ==
  ASSUME ~Ahead
  PROVE  Spec => [](TypeInv /\ Flow)
<1>1. TypeInv /\ Flow /\ [Next]_vars => Flow'
  BY FlowStep
<1> QED BY <1>1, FlowInit, TypesAlways, PTL DEF Spec

(* Only recv_message and the end of the service close a socket.            *)
LEMMA WhoCloses ==
  ASSUME TypeInv, Next, NEW f \in Fds, sock[f] # Closed, sock'[f] = Closed
  PROVE  ep = "clean" \/ \E w \in Workers : wpc[w] = "close" /\ fd[w] = f
<1>1. CASE EpollThread
  <2>1. CASE CloseAll
    BY <2>1 DEF CloseAll, At
  <2>2. CASE Accept
    <3>1. clientfd' \in Fds \ OpenFds
      BY <2>2, MinIsIn, ServiceAssumption DEF Accept, OpenFds, ServiceAssumption
    <3>2. sock'[f] = sock[f]
      BY <2>2, <3>1 DEF Accept, OpenFds, TypeInv, TypeOK, KernelTypes
    <3> QED BY <3>2
  <2>3. CASE ~(CloseAll \/ Accept)
    BY <1>1, <2>3 DEF EpollThread, SafeChangeEvents, epoll_pwait, EventsEnd, ListenEvent,
       WakeupEvent, ReadEvent, AcceptEnds, AcceptFails, Watch, AddTcpConnection, SetSockfd2InetAddr,
       ClearThreadPool, kernelVars
  <2> QED BY <2>1, <2>2, <2>3
<1>2. CASE Environment \/ Stop
  <2>1. CASE Stop \/ (\E h \in Hosts : Connect(h)) \/ \E i \in 1..Len(backlog) : PeerActsEarly(i)
    BY <2>1 DEF Stop, Connect, PeerActsEarly, kernelVars
  <2>2. ASSUME NEW g \in Fds, PeerActs(g) PROVE FALSE
    <3>1. PICK d \in Acted(sock[g]) : sock' = [sock EXCEPT ![g] = d]
      BY <2>2 DEF PeerActs
    <3>2. sock[g] \in Peer /\ sock[g].end = "open" /\ sent \in [Hosts -> Nat]
      BY <2>2 DEF PeerActs, TypeInv, TypeOK, KernelTypes, PeerTypes
    <3>3. d \in Peer
      BY <3>2, ActedIs
    <3> QED BY <3>1, <3>3, Descriptors DEF TypeInv, TypeOK, KernelTypes
  <2> QED BY <1>2, <2>1, <2>2 DEF Environment
<1>3. ASSUME NEW w \in Workers, Worker(w)
      PROVE  wpc[w] = "close" /\ fd[w] = f
  <2>1. CASE CloseClient(w)
    BY <2>1 DEF CloseClient, Close, Move
  <2>2. CASE Read(w)
    <3>1. TypeOK' /\ fd[w] \in Fds /\ HasData(fd[w])
          /\ sock' = [sock EXCEPT ![fd[w]] = [sock[fd[w]] EXCEPT !.unread = <<>>]]
      BY <1>3, <2>2, TypeWorker DEF Read, Move, TypeInv, PlacesOK
    <3>2. [sock[fd[w]] EXCEPT !.unread = <<>>] \in Peer
      BY <3>1, Drained DEF HasData, TypeInv, TypeOK, KernelTypes
    <3> QED BY <3>1, <3>2, Descriptors DEF TypeInv, TypeOK, KernelTypes
  <2>3. CASE ~(CloseClient(w) \/ Read(w))
    BY <1>3, <2>3 DEF Worker, Fetch, Quit, getPeerAddr, FindInetAddr, GiveUp, ReadEnds,
       MessageRecv, Unwatch, RemoveSockfd2InetAddr, RemovTcpConnection, kernelVars
  <2> QED BY <2>1, <2>2, <2>3
<1> QED BY <1>1, <1>2, <1>3 DEF Next

(* Of peers that wait for their turn, no connection is closed before its   *)
(* peer ended it (TcpService.cpp:297).                                     *)
THEOREM OnlyEndedAreClosedCorrect ==
  ASSUME ~Ahead
  PROVE  Spec => OnlyEndedAreClosed
<1> DEFINE Step == \A f \in Fds :
             sock[f] # Closed /\ sock[f].end = "open" /\ sock'[f] = Closed => ep = "clean"
<1>1. TypeInv /\ Flow /\ [Next]_vars => [Step]_vars
  <2> SUFFICES ASSUME TypeInv, Flow, Next, NEW f \in Fds,
                      sock[f] # Closed, sock[f].end = "open", sock'[f] = Closed
               PROVE  ep = "clean"
    OBVIOUS
  <2>1. ASSUME NEW w \in Workers, wpc[w] = "close", fd[w] = f PROVE FALSE
    BY <2>1 DEF Flow, HandsOK, HandOK
  <2> QED BY <2>1, WhoCloses
<1>2. Spec => [](TypeInv /\ Flow)
  BY FlowAlways
<1> QED BY <1>1, <1>2, PTL DEF Spec, OnlyEndedAreClosed

-----------------------------------------------------------------------------
(***************************************************************************)
(* 4. The data of a host.                                                  *)
(***************************************************************************)
(* A host has one connection that was not reset.                           *)
OneLive ==
  /\ \A i, j \in 1..Len(backlog) : backlog[i].host = backlog[j].host => i = j
  /\ \A f, g \in OpenFds :
       sock[f].host = sock[g].host => f = g \/ sock[f].end = "rst" \/ sock[g].end = "rst"
  /\ \A f \in OpenFds, i \in 1..Len(backlog) :
       sock[f].host = backlog[i].host => sock[f].end = "rst"

LEMMA LiveKept ==
  ASSUME OneLive,
         \A f \in OpenFds' : /\ f \in OpenFds /\ sock'[f].host = sock[f].host
                             /\ sock[f].end = "rst" => sock'[f].end = "rst",
         \A i \in 1..Len(backlog') : i \in 1..Len(backlog) /\ backlog'[i].host = backlog[i].host
  PROVE  OneLive'
  BY DEF OneLive

LEMMA LiveStep == TypeInv /\ OneLive /\ [Next]_vars => OneLive'
<1> SUFFICES ASSUME TypeInv, OneLive, [Next]_vars PROVE OneLive'
  OBVIOUS
<1>1. ASSUME UNCHANGED <<sock, backlog>> PROVE OneLive'
  BY <1>1 DEF OneLive, OpenFds
<1>2. CASE EpollThread
  <2>1. CASE Accept
    <3>1. /\ sock' = [sock EXCEPT ![clientfd'] = Head(backlog)]
          /\ backlog # <<>> /\ backlog' = Tail(backlog)
      BY <2>1 DEF Accept
    <3>2. clientfd' \in Fds \ OpenFds
      BY <2>1, MinIsIn, ServiceAssumption DEF Accept, OpenFds, ServiceAssumption
    <3> PICK k \in Fds \ OpenFds : k = clientfd'
      BY <3>2
    <3>3. /\ sock'[k] = backlog[1] /\ 1 \in 1..Len(backlog)
          /\ \A f \in OpenFds' : f = k \/ (f \in OpenFds /\ sock'[f] = sock[f])
      BY <3>1, Behead DEF OpenFds, TypeInv, TypeOK, PeerTypes, KernelTypes
    <3>4. \A i \in 1..Len(backlog') :
            i + 1 \in 1..Len(backlog) /\ backlog'[i] = backlog[i + 1] /\ i + 1 # 1 /\ i \in Nat
      BY <3>1, Behead DEF TypeInv, TypeOK, PeerTypes
    <3>5. \A i, j \in 1..Len(backlog') : backlog'[i].host = backlog'[j].host => i = j
      <4> TAKE i, j \in 1..Len(backlog')
      <4>1. backlog'[i].host = backlog'[j].host => i + 1 = j + 1
        BY <3>4 DEF OneLive
      <4> QED BY <3>4, <4>1
    <3>6. \A f, g \in OpenFds' : sock'[f].host = sock'[g].host =>
            f = g \/ sock'[f].end = "rst" \/ sock'[g].end = "rst"
      BY <3>3 DEF OneLive
    <3>7. \A f \in OpenFds', i \in 1..Len(backlog') :
            sock'[f].host = backlog'[i].host => sock'[f].end = "rst"
      BY <3>3, <3>4 DEF OneLive
    <3> QED BY <3>5, <3>6, <3>7 DEF OneLive
  <2>2. CASE CloseAll
    <3>1. /\ \A f \in OpenFds' : f \in OpenFds /\ sock'[f] = sock[f]
          /\ backlog' = <<>>
      BY <2>2 DEF CloseAll, Close, OpenFds
    <3> QED BY <3>1, LiveKept
  <2>3. CASE AcceptFails
    <3>1. PICK n \in {0, 1} : \A i \in 1..Len(backlog') :
            i \in Nat /\ i + n \in 1..Len(backlog) /\ backlog'[i] = backlog[i + n]
      BY <2>3, WhatFails
    <3>2. sock' = sock
      BY <2>3, WhatFails
    <3>3. \A i, j \in 1..Len(backlog') : backlog'[i].host = backlog'[j].host => i = j
      <4> TAKE i, j \in 1..Len(backlog')
      <4>1. backlog'[i].host = backlog'[j].host => i + n = j + n
        BY <3>1 DEF OneLive
      <4> QED BY <3>1, <4>1
    <3>4. \A f \in OpenFds', i \in 1..Len(backlog') :
            sock'[f].host = backlog'[i].host => sock'[f].end = "rst"
      BY <3>1, <3>2 DEF OneLive, OpenFds
    <3> QED BY <3>2, <3>3, <3>4 DEF OneLive, OpenFds
  <2>4. CASE ~(Accept \/ CloseAll \/ AcceptFails)
    <3>1. UNCHANGED <<sock, backlog>>
      BY <1>2, <2>4 DEF EpollThread, SafeChangeEvents, epoll_pwait, EventsEnd, ListenEvent,
         WakeupEvent, ReadEvent, AcceptEnds, Watch, AddTcpConnection, SetSockfd2InetAddr,
         ClearThreadPool, kernelVars, peerVars
    <3> QED BY <1>1, <3>1
  <2> QED BY <2>1, <2>2, <2>3, <2>4
<1>3. CASE Stop
  BY <1>1, <1>3 DEF Stop, peerVars
<1>4. ASSUME NEW h \in Hosts, Connect(h) PROVE OneLive'
  <2>1. /\ \A f \in OpenFds : sock[f].host = h => sock[f].end = "rst"
        /\ \A i \in 1..Len(backlog) : backlog[i].host # h
        /\ backlog' = Append(backlog, [host |-> h, unread |-> <<>>, end |-> "open"])
        /\ sock' = sock
    BY <1>4 DEF Connect
  <2>2. \A i \in 1..Len(backlog') :
          \/ i \in 1..Len(backlog) /\ backlog'[i] = backlog[i]
          \/ i = Len(backlog) + 1 /\ backlog'[i].host = h
    BY <2>1 DEF TypeInv, TypeOK, PeerTypes
  <2> QED BY <2>1, <2>2 DEF OneLive, OpenFds
<1>5. ASSUME NEW k \in 1..Len(backlog), PeerActsEarly(k) PROVE OneLive'
  <2>1. PICK d \in Acted(backlog[k]) : backlog' = [backlog EXCEPT ![k] = d]
    BY <1>5 DEF PeerActsEarly
  <2>2. backlog[k] \in Peer /\ backlog[k].end = "open" /\ sent \in [Hosts -> Nat]
    BY <1>5 DEF PeerActsEarly, TypeInv, TypeOK, PeerTypes
  <2>3. d.host = backlog[k].host
    BY <2>2, ActedIs
  <2>4. \A i \in 1..Len(backlog') : i \in 1..Len(backlog) /\ backlog'[i].host = backlog[i].host
    BY <2>1, <2>3 DEF TypeInv, TypeOK, PeerTypes
  <2>5. sock' = sock
    BY <1>5 DEF PeerActsEarly, kernelVars
  <2> QED BY <2>4, <2>5, LiveKept DEF OpenFds
<1>6. ASSUME NEW k \in Fds, PeerActs(k) PROVE OneLive'
  <2>1. PICK d \in Acted(sock[k]) : sock' = [sock EXCEPT ![k] = d]
    BY <1>6 DEF PeerActs
  <2>2. sock[k] \in Peer /\ sock[k].end = "open" /\ sent \in [Hosts -> Nat]
    BY <1>6 DEF PeerActs, TypeInv, TypeOK, PeerTypes, KernelTypes
  <2>3. d.host = sock[k].host
    BY <2>2, ActedIs
  <2>4. \A f \in OpenFds' : /\ f \in OpenFds /\ sock'[f].host = sock[f].host
                            /\ sock[f].end = "rst" => sock'[f].end = "rst"
    BY <1>6, <2>1, <2>2, <2>3 DEF OpenFds, PeerActs, TypeInv, TypeOK, KernelTypes
  <2>5. backlog' = backlog
    BY <1>6 DEF PeerActs
  <2> QED BY <2>4, <2>5, LiveKept
<1>7. ASSUME NEW w \in Workers, Worker(w) PROVE OneLive'
  <2>1. CASE CloseClient(w)
    <3>1. /\ \A f \in OpenFds' : f \in OpenFds /\ sock'[f] = sock[f]
          /\ backlog' = backlog
      BY <2>1 DEF CloseClient, Close, OpenFds, peerVars
    <3> QED BY <3>1, LiveKept
  <2>2. CASE Read(w)
    <3>1. /\ fd[w] \in Fds /\ sock[fd[w]] # Closed /\ backlog' = backlog
          /\ sock' = [sock EXCEPT ![fd[w]] = [sock[fd[w]] EXCEPT !.unread = <<>>]]
      BY <2>2 DEF Read, Move, HasData, TypeInv, PlacesOK, peerVars
    <3>2. [sock[fd[w]] EXCEPT !.unread = <<>>] =
            [host |-> sock[fd[w]].host, unread |-> <<>>, end |-> sock[fd[w]].end]
      BY <3>1, Drained DEF TypeInv, TypeOK, KernelTypes
    <3>3. \A f \in OpenFds' : /\ f \in OpenFds /\ sock'[f].host = sock[f].host
                              /\ sock[f].end = "rst" => sock'[f].end = "rst"
      BY <3>1, <3>2 DEF OpenFds, TypeInv, TypeOK, KernelTypes
    <3> QED BY <3>1, <3>3, LiveKept
  <2>3. CASE ~(CloseClient(w) \/ Read(w))
    <3>1. UNCHANGED <<sock, backlog>>
      BY <1>7, <2>3 DEF Worker, Fetch, Quit, getPeerAddr, FindInetAddr, GiveUp, ReadEnds,
         MessageRecv, Unwatch, RemoveSockfd2InetAddr, RemovTcpConnection, kernelVars, peerVars
    <3> QED BY <1>1, <3>1
  <2> QED BY <2>1, <2>2, <2>3
<1>8. CASE UNCHANGED vars
  BY <1>1, <1>8 DEF vars, kernelVars, peerVars
<1> QED BY <1>2, <1>3, <1>4, <1>5, <1>6, <1>7, <1>8 DEF Next, Environment

LEMMA LiveAlways == Spec => []OneLive
<1>1. Init => OneLive
  BY DEF Init, OneLive, OpenFds
<1>2. TypeInv /\ OneLive /\ [Next]_vars => OneLive'
  BY LiveStep
<1> QED BY <1>1, <1>2, TypesAlways, PTL DEF Spec

(* Where data of host h can be on its way: at a socket, at a connection    *)
(* that waits, or in the buffer of a worker.                               *)
AtSocket(f, h)  == Has(f, h) /\ sock[f].unread # <<>>
AtBacklog(i, h) == backlog[i].host = h /\ backlog[i].unread # <<>>
AtWorker(w, h)  ==
  szPeerAddr[w] = h /\ wpc[w] \in {"read", "deliver"} /\ buff[w] # <<>>

UnderWay(h) ==
  \/ \E f \in Fds : AtSocket(f, h)
  \/ \E i \in 1..Len(backlog) : AtBacklog(i, h)
  \/ \E w \in Workers : AtWorker(w, h)

(* It is the last number h has sent, and the next to deliver.              *)
Due(h, data) == data = <<sent[h]>> /\ sent[h] = Len(received[h]) + 1

InOrder(h) ==
  Len(received[h]) <= sent[h] /\ \A i \in 1..Len(received[h]) : received[h][i] = i

Carried(h) ==
  /\ UnderWay(h) \/ sent[h] = Len(received[h])
  /\ \A f \in Fds : AtSocket(f, h) => Due(h, sock[f].unread)
  /\ \A i \in 1..Len(backlog) : AtBacklog(i, h) => Due(h, backlog[i].unread)
  /\ \A w \in Workers : AtWorker(w, h) => Due(h, buff[w])

DataOK == \A h \in Hosts : InOrder(h) /\ (ep # "done" => Carried(h))

DataInv == TypeInv /\ Flow /\ OneLive /\ DataOK

LEMMA DataInit == Init => DataOK
<1> SUFFICES ASSUME Init, NEW h \in Hosts PROVE InOrder(h) /\ Carried(h)
  BY DEF DataOK
<1>1. received[h] = <<>> /\ sent[h] = 0 /\ Len(received[h]) = 0
  BY DEF Init
<1> QED BY <1>1 DEF Init, InOrder, Carried, UnderWay, AtSocket, AtBacklog, AtWorker, Has

(* A worker that has data of h under way has it from the one live          *)
(* connection of h, whose data is nowhere else.                            *)
LEMMA WorkerHasLive ==
  ASSUME TypeInv, Flow, NEW w \in Workers, NEW h, AtWorker(w, h)
  PROVE  /\ fd[w] \in OpenFds /\ sock[fd[w]].host = h /\ sock[fd[w]].end = "open"
         /\ sock[fd[w]].unread = <<>> /\ InHand(w, fd[w])
<1>1. wpc[w] \in Handling /\ InHand(w, fd[w])
  BY DEF AtWorker, Handling, InHand
<1> QED BY <1>1, HandIsAlone DEF AtWorker, Flow, HandsOK, HandOK, OpenFds

LEMMA OnlyAtWorker ==
  ASSUME TypeInv, Flow, OneLive, NEW w \in Workers, NEW h, AtWorker(w, h)
  PROVE  /\ \A f \in Fds : ~AtSocket(f, h)
         /\ \A i \in 1..Len(backlog) : ~AtBacklog(i, h)
         /\ \A v \in Workers \ {w} : ~AtWorker(v, h)
<1>1. /\ fd[w] \in OpenFds /\ sock[fd[w]].host = h /\ sock[fd[w]].end = "open"
      /\ sock[fd[w]].unread = <<>> /\ InHand(w, fd[w])
  BY WorkerHasLive
<1>2. ASSUME NEW f \in Fds, AtSocket(f, h) PROVE FALSE
  <2>1. f \in OpenFds /\ sock[f].host = h /\ sock[f].end = "open"
    BY <1>2 DEF AtSocket, Has, OpenFds, Flow, WholeOK, Whole
  <2> QED BY <1>1, <1>2, <2>1 DEF AtSocket, OneLive
<1>3. ASSUME NEW i \in 1..Len(backlog), AtBacklog(i, h) PROVE FALSE
  BY <1>1, <1>3 DEF AtBacklog, OneLive
<1>4. ASSUME NEW v \in Workers \ {w}, AtWorker(v, h) PROVE FALSE
  <2>1. /\ fd[v] \in OpenFds /\ sock[fd[v]].host = h /\ sock[fd[v]].end = "open"
        /\ InHand(v, fd[v])
    BY <1>4, WorkerHasLive
  <2>2. fd[v] = fd[w]
    BY <1>1, <2>1 DEF OneLive
  <2> QED BY <1>1, <2>1, <2>2 DEF Flow, EventsOK, OneEvent, OpenFds
<1> QED BY <1>2, <1>3, <1>4

(* A peer that may act has nothing under way.                              *)
LEMMA NothingAtIdle ==
  ASSUME TypeInv, Flow, OneLive, NEW f \in OpenFds, sock[f].end = "open",
         sock[f].unread = <<>>, \A w \in Workers : ~InHand(w, f)
  PROVE  ~UnderWay(sock[f].host)
<1>1. ASSUME NEW g \in Fds, AtSocket(g, sock[f].host) PROVE FALSE
  <2>1. g \in OpenFds /\ sock[g].host = sock[f].host /\ sock[g].end = "open" /\ g # f
    BY <1>1 DEF AtSocket, Has, OpenFds, Flow, WholeOK, Whole
  <2> QED BY <2>1 DEF OneLive
<1>2. ASSUME NEW i \in 1..Len(backlog), AtBacklog(i, sock[f].host) PROVE FALSE
  BY <1>2 DEF AtBacklog, OneLive
<1>3. ASSUME NEW w \in Workers, AtWorker(w, sock[f].host) PROVE FALSE
  <2>1. /\ fd[w] \in OpenFds /\ sock[fd[w]].host = sock[f].host /\ sock[fd[w]].end = "open"
        /\ InHand(w, fd[w])
    BY <1>3, WorkerHasLive
  <2>2. fd[w] = f
    BY <2>1 DEF OneLive
  <2> QED BY <2>1, <2>2
<1> QED BY <1>1, <1>2, <1>3 DEF UnderWay

LEMMA NothingAtWaiting ==
  ASSUME TypeInv, Flow, OneLive, NEW k \in 1..Len(backlog), backlog[k].unread = <<>>
  PROVE  ~UnderWay(backlog[k].host)
<1>1. ASSUME NEW g \in Fds, AtSocket(g, backlog[k].host) PROVE FALSE
  <2>1. g \in OpenFds /\ sock[g].host = backlog[k].host /\ sock[g].end = "open"
    BY <1>1 DEF AtSocket, Has, OpenFds, Flow, WholeOK, Whole
  <2> QED BY <2>1 DEF OneLive
<1>2. ASSUME NEW i \in 1..Len(backlog), AtBacklog(i, backlog[k].host) PROVE FALSE
  BY <1>2 DEF AtBacklog, OneLive
<1>3. ASSUME NEW w \in Workers, AtWorker(w, backlog[k].host) PROVE FALSE
  BY <1>3, WorkerHasLive DEF OneLive
<1> QED BY <1>1, <1>2, <1>3 DEF UnderWay

(* What is under way stays where it is, or nothing of h is.                *)
StaysUnderWay(h) ==
  /\ \A f \in Fds :
       /\ AtSocket(f, h)' <=> AtSocket(f, h)
       /\ AtSocket(f, h) => sock'[f].unread = sock[f].unread
  /\ \A i \in 1..Len(backlog) : AtBacklog(i, h) => i \in 1..Len(backlog') /\ AtBacklog(i, h)'
  /\ \A i \in 1..Len(backlog') : AtBacklog(i, h)' =>
       i \in 1..Len(backlog) /\ AtBacklog(i, h) /\ backlog'[i].unread = backlog[i].unread
  /\ \A w \in Workers :
       /\ AtWorker(w, h)' <=> AtWorker(w, h)
       /\ AtWorker(w, h) => buff'[w] = buff[w]

LEMMA CarriedKept ==
  ASSUME NEW h, Carried(h), StaysUnderWay(h), sent'[h] = sent[h], received'[h] = received[h]
  PROVE  Carried(h)'
<1>1. UnderWay(h)' \/ sent'[h] = Len(received'[h])
  <2>1. UnderWay(h) => UnderWay(h)'
    BY DEF UnderWay, StaysUnderWay
  <2> QED BY <2>1 DEF Carried
<1>2. \A f \in Fds : AtSocket(f, h)' => Due(h, sock[f].unread)'
  BY DEF Carried, StaysUnderWay, Due
<1>3. \A i \in 1..Len(backlog') : AtBacklog(i, h)' => Due(h, backlog[i].unread)'
  BY DEF Carried, StaysUnderWay, Due
<1>4. \A w \in Workers : AtWorker(w, h)' => Due(h, buff[w])'
  BY DEF Carried, StaysUnderWay, Due
<1> QED BY <1>1, <1>2, <1>3, <1>4 DEF Carried

(* The steps that move no data.                                            *)
LEMMA StillUnderWay ==
  ASSUME NEW h, UNCHANGED <<sock, backlog>>,
         \A w \in Workers :
           \/ /\ wpc[w] \in {"read", "deliver"} /\ wpc'[w] \in {"read", "deliver"}
              /\ buff'[w] = buff[w] /\ szPeerAddr'[w] = szPeerAddr[w]
           \/ ~AtWorker(w, h) /\ ~AtWorker(w, h)'
  PROVE  StaysUnderWay(h)
<1>1. \A f \in Fds : AtSocket(f, h)' <=> AtSocket(f, h)
  BY DEF AtSocket, Has
<1>2. \A i : AtBacklog(i, h)' <=> AtBacklog(i, h)
  BY DEF AtBacklog
<1>3. \A w \in Workers : /\ AtWorker(w, h)' <=> AtWorker(w, h)
                         /\ AtWorker(w, h) => buff'[w] = buff[w]
  BY DEF AtWorker
<1> QED BY <1>1, <1>2, <1>3 DEF StaysUnderWay

LEMMA WorkerIsElsewhere ==
  ASSUME TypeInv, Flow, NEW w \in Workers, NEW h,
         \/ Fetch(w) \/ Quit(w) \/ getPeerAddr(w) \/ FindInetAddr(w) \/ GiveUp(w)
         \/ Unwatch(w) \/ RemoveSockfd2InetAddr(w) \/ RemovTcpConnection(w) \/ CloseClient(w)
  PROVE  /\ ~AtWorker(w, h) /\ ~AtWorker(w, h)'
         /\ \A v \in Workers \ {w} : /\ wpc'[v] = wpc[v] /\ buff'[v] = buff[v]
                                     /\ szPeerAddr'[v] = szPeerAddr[v]
<1>1. /\ wpc \in [Workers -> RecvStatements] /\ buff \in [Workers -> Seq(Nat)]
      /\ szPeerAddr \in [Workers -> Hosts \cup {None}]
  BY DEF TypeInv, TypeOK, RecvTypes
<1>2. HandOK(w)
  BY DEF Flow, HandsOK
<1>3. CASE getPeerAddr(w) \/ FindInetAddr(w)
  <2>1. wpc[w] \in {"peer", "lookup"} /\ buff' = buff
    BY <1>3 DEF getPeerAddr, FindInetAddr, Move
  <2>2. buff[w] = <<>>
    BY <1>2, <2>1 DEF HandOK
  <2>3. \A v \in Workers \ {w} : wpc'[v] = wpc[v] /\ szPeerAddr'[v] = szPeerAddr[v]
    BY <1>1, <1>3 DEF getPeerAddr, FindInetAddr, Move
  <2> QED BY <2>1, <2>2, <2>3 DEF AtWorker
<1>4. CASE ~(getPeerAddr(w) \/ FindInetAddr(w))
  <2>1. /\ wpc[w] \in {"fetch", "lookup", "del", "close", "forget", "disconnection"}
        /\ wpc'[w] \in {"fetch", "peer", "close", "forget", "disconnection", "exited"}
        /\ \A v \in Workers \ {w} : wpc'[v] = wpc[v]
    BY <1>1, <1>4 DEF Fetch, Quit, GiveUp, Unwatch, RemoveSockfd2InetAddr,
       RemovTcpConnection, CloseClient, Leaves, Move
  <2>2. \A v \in Workers \ {w} : buff'[v] = buff[v] /\ szPeerAddr'[v] = szPeerAddr[v]
    BY <1>1, <1>4 DEF Fetch, Quit, GiveUp, Unwatch, RemoveSockfd2InetAddr,
       RemovTcpConnection, CloseClient
  <2> QED BY <2>1, <2>2 DEF AtWorker
<1> QED BY <1>3, <1>4

LEMMA WorkerKeepsData ==
  ASSUME TypeInv, Flow, NEW w \in Workers, NEW h,
         \/ Fetch(w) \/ Quit(w) \/ getPeerAddr(w) \/ FindInetAddr(w) \/ GiveUp(w)
         \/ Unwatch(w) \/ RemoveSockfd2InetAddr(w) \/ RemovTcpConnection(w)
  PROVE  StaysUnderWay(h)
<1>1. UNCHANGED <<sock, backlog>>
  BY DEF Fetch, Quit, getPeerAddr, FindInetAddr, GiveUp, Unwatch, RemoveSockfd2InetAddr,
     RemovTcpConnection, kernelVars, peerVars
<1>2. /\ ~AtWorker(w, h) /\ ~AtWorker(w, h)'
      /\ \A v \in Workers \ {w} : /\ wpc'[v] = wpc[v] /\ buff'[v] = buff[v]
                                  /\ szPeerAddr'[v] = szPeerAddr[v]
  BY WorkerIsElsewhere
<1>3. \A v \in Workers \ {w} :
        \/ /\ wpc[v] \in {"read", "deliver"} /\ wpc'[v] \in {"read", "deliver"}
           /\ buff'[v] = buff[v] /\ szPeerAddr'[v] = szPeerAddr[v]
        \/ ~AtWorker(v, h) /\ ~AtWorker(v, h)'
  BY <1>2 DEF AtWorker
<1> QED BY <1>1, <1>2, <1>3, StillUnderWay

LEMMA EndOfReadKeepsData ==
  ASSUME TypeInv, Flow, NEW w \in Workers, NEW h, ReadEnds(w)
  PROVE  StaysUnderWay(h)
<1>1. /\ UNCHANGED <<sock, backlog, buff, szPeerAddr>> /\ wpc[w] = "read"
      /\ \A v \in Workers \ {w} : wpc'[v] = wpc[v]
      /\ wpc'[w] = IF sock[fd[w]] = Closed \/ sock[fd[w]].end = "rst" \/ buff[w] = <<>>
                   THEN "del" ELSE "deliver"
  BY DEF ReadEnds, Move, kernelVars, peerVars, TypeInv, TypeOK, RecvTypes
<1>2. buff[w] # <<>> => sock[fd[w]] # Closed /\ sock[fd[w]].end = "open"
  BY <1>1 DEF Flow, HandsOK, HandOK, Handling
<1>3. \A v \in Workers :
        \/ /\ wpc[v] \in {"read", "deliver"} /\ wpc'[v] \in {"read", "deliver"}
           /\ buff'[v] = buff[v] /\ szPeerAddr'[v] = szPeerAddr[v]
        \/ ~AtWorker(v, h) /\ ~AtWorker(v, h)'
  BY <1>1, <1>2 DEF AtWorker
<1> QED BY <1>1, <1>3, StillUnderWay

(* The socket a worker closes has nothing to read.                         *)
LEMMA CloseKeepsData ==
  ASSUME TypeInv, Flow, NEW w \in Workers, NEW h, CloseClient(w)
  PROVE  StaysUnderWay(h)
<1>1. /\ wpc[w] = "close" /\ backlog' = backlog
      /\ sock' = [g \in Fds |-> IF g = fd[w] THEN Closed ELSE sock[g]]
  BY DEF CloseClient, Close, Move, peerVars
<1>2. sock[fd[w]].unread = <<>>
  <2>1. fd[w] \in OpenFds /\ sock[fd[w]].end # "open"
    BY <1>1, HandIsAlone DEF Flow, HandsOK, HandOK, OpenFds, Handling
  <2> QED BY <2>1 DEF Flow, WholeOK, Whole
<1>3. \A f \in Fds : /\ AtSocket(f, h)' <=> AtSocket(f, h)
                     /\ AtSocket(f, h) => sock'[f].unread = sock[f].unread
  BY <1>1, <1>2 DEF AtSocket, Has
<1>4. \A i : AtBacklog(i, h)' <=> AtBacklog(i, h)
  BY <1>1 DEF AtBacklog
<1>5. /\ ~AtWorker(w, h) /\ ~AtWorker(w, h)'
      /\ \A v \in Workers \ {w} : /\ wpc'[v] = wpc[v] /\ buff'[v] = buff[v]
                                  /\ szPeerAddr'[v] = szPeerAddr[v]
  BY WorkerIsElsewhere
<1>6. \A v \in Workers : /\ AtWorker(v, h)' <=> AtWorker(v, h)
                         /\ AtWorker(v, h) => buff'[v] = buff[v]
  BY <1>5 DEF AtWorker
<1> QED BY <1>1, <1>3, <1>4, <1>6 DEF StaysUnderWay

LEMMA ConnectKeepsData ==
  ASSUME TypeInv, NEW h, NEW k \in Hosts, Connect(k)
  PROVE  StaysUnderWay(h)
<1>1. /\ UNCHANGED <<sock, recvVars>>
      /\ backlog' = Append(backlog, [host |-> k, unread |-> <<>>, end |-> "open"])
      /\ backlog \in Seq(Peer)
  BY DEF Connect, TypeInv, TypeOK, PeerTypes
<1>2. /\ \A i \in 1..Len(backlog) : i \in 1..Len(backlog') /\ backlog'[i] = backlog[i]
      /\ \A i \in 1..Len(backlog') :
           \/ i \in 1..Len(backlog) /\ backlog'[i] = backlog[i]
           \/ backlog'[i].unread = <<>>
  BY <1>1
<1>3. \A f \in Fds : AtSocket(f, h)' <=> AtSocket(f, h)
  BY <1>1 DEF AtSocket, Has
<1>4. \A w \in Workers : AtWorker(w, h)' <=> AtWorker(w, h)
  BY <1>1 DEF AtWorker, recvVars
<1> QED BY <1>1, <1>2, <1>3, <1>4 DEF StaysUnderWay, AtBacklog, recvVars

(* Data of an accepted connection has gone from the queue to a socket.     *)
LEMMA AcceptCarries ==
  ASSUME TypeInv, Flow, NEW h, Carried(h), Accept
  PROVE  Carried(h)'
<1>1. /\ sock' = [sock EXCEPT ![clientfd'] = Head(backlog)]
      /\ backlog # <<>> /\ backlog' = Tail(backlog)
      /\ UNCHANGED <<sent, received, recvVars>>
  BY DEF Accept
<1>2. clientfd' \in Fds \ OpenFds
  BY MinIsIn, ServiceAssumption DEF Accept, OpenFds, ServiceAssumption
<1> PICK k \in Fds \ OpenFds : k = clientfd'
  BY <1>2
<1>3. /\ sock'[k] = backlog[1] /\ backlog[1] # Closed /\ 1 \in 1..Len(backlog)
      /\ sock[k] = Closed
      /\ \A f \in Fds : f # k => sock'[f] = sock[f]
  BY <1>1, Behead, Descriptors DEF OpenFds, TypeInv, TypeOK, PeerTypes, KernelTypes
<1>4. /\ \A i \in 1..Len(backlog') : i + 1 \in 1..Len(backlog) /\ backlog'[i] = backlog[i + 1]
      /\ \A i \in 1..Len(backlog) : i = 1 \/ (i - 1 \in 1..Len(backlog') /\ backlog'[i - 1] = backlog[i])
  <2>1. /\ Len(backlog') = Len(backlog) - 1 /\ Len(backlog) \in Nat
        /\ \A i \in 1..Len(backlog') : i + 1 \in 1..Len(backlog) /\ backlog'[i] = backlog[i + 1]
    BY <1>1, Behead DEF TypeInv, TypeOK, PeerTypes
  <2>2. \A i \in 1..Len(backlog) : i = 1 \/ (i - 1 \in 1..Len(backlog') /\ (i - 1) + 1 = i)
    BY <2>1
  <2> QED BY <2>1, <2>2
<1>5. \A f \in Fds : f # k => (AtSocket(f, h)' <=> AtSocket(f, h))
  BY <1>3 DEF AtSocket, Has
<1>6. (AtSocket(k, h)' <=> AtBacklog(1, h)) /\ ~AtSocket(k, h)
  BY <1>3 DEF AtSocket, AtBacklog, Has
<1>7. \A w \in Workers : AtWorker(w, h)' <=> AtWorker(w, h)
  BY <1>1 DEF AtWorker, recvVars
<1>8. UnderWay(h) => UnderWay(h)'
  <2>1. ASSUME NEW f \in Fds, AtSocket(f, h) PROVE UnderWay(h)'
    BY <1>5, <1>6, <2>1 DEF UnderWay
  <2>2. ASSUME NEW i \in 1..Len(backlog), AtBacklog(i, h) PROVE UnderWay(h)'
    <3>1. CASE i = 1
      BY <1>6, <2>2, <3>1 DEF UnderWay
    <3>2. CASE i # 1
      <4>1. i - 1 \in 1..Len(backlog') /\ backlog'[i - 1] = backlog[i]
        BY <1>4, <3>2
      <4>2. AtBacklog(i - 1, h)'
        BY <2>2, <4>1 DEF AtBacklog
      <4> QED BY <4>1, <4>2 DEF UnderWay
    <3> QED BY <3>1, <3>2
  <2>3. ASSUME NEW w \in Workers, AtWorker(w, h) PROVE UnderWay(h)'
    BY <1>7, <2>3 DEF UnderWay
  <2> QED BY <2>1, <2>2, <2>3 DEF UnderWay
<1>9. \A f \in Fds : AtSocket(f, h)' => Due(h, sock[f].unread)'
  <2> SUFFICES ASSUME NEW f \in Fds, AtSocket(f, h)' PROVE Due(h, sock[f].unread)'
    OBVIOUS
  <2>1. CASE f = k
    BY <1>1, <1>3, <1>6, <2>1 DEF Carried, Due
  <2>2. CASE f # k
    BY <1>1, <1>3, <1>5, <2>2 DEF Carried, Due
  <2> QED BY <2>1, <2>2
<1>10. \A i \in 1..Len(backlog') : AtBacklog(i, h)' => Due(h, backlog[i].unread)'
  <2> SUFFICES ASSUME NEW i \in 1..Len(backlog'), AtBacklog(i, h)' PROVE Due(h, backlog[i].unread)'
    OBVIOUS
  <2>1. i + 1 \in 1..Len(backlog) /\ AtBacklog(i + 1, h) /\ backlog'[i] = backlog[i + 1]
    BY <1>4 DEF AtBacklog
  <2>2. Due(h, backlog[i + 1].unread)
    BY <2>1 DEF Carried
  <2> QED BY <1>1, <2>1, <2>2 DEF Due
<1>11. \A w \in Workers : AtWorker(w, h)' => Due(h, buff[w])'
  BY <1>1, <1>7 DEF Carried, Due, recvVars
<1> QED BY <1>1, <1>8, <1>9, <1>10, <1>11 DEF Carried

(* A connection dropped by a failed accept was reset and carried nothing.  *)
LEMMA FailCarries ==
  ASSUME TypeInv, Flow, NEW h, Carried(h), AcceptFails
  PROVE  Carried(h)'
<1>1. UNCHANGED <<sock, sent, received, recvVars>>
  BY WhatFails
<1>2. PICK n \in {0, 1} :
        /\ \A i \in 1..Len(backlog') :
             i \in Nat /\ i + n \in 1..Len(backlog) /\ backlog'[i] = backlog[i + n]
        /\ \A i \in 1..Len(backlog) :
             \/ backlog[i].end = "rst"
             \/ i - n \in 1..Len(backlog') /\ backlog'[i - n] = backlog[i]
  BY WhatFails
<1>3. /\ \A f \in Fds : AtSocket(f, h)' <=> AtSocket(f, h)
      /\ \A w \in Workers : AtWorker(w, h)' <=> AtWorker(w, h)
  BY <1>1 DEF AtSocket, AtWorker, Has, recvVars
<1>4. \A i \in 1..Len(backlog') : AtBacklog(i, h)' => AtBacklog(i + n, h)
  BY <1>2 DEF AtBacklog
<1>5. ASSUME NEW i \in 1..Len(backlog), AtBacklog(i, h)
      PROVE  i - n \in 1..Len(backlog') /\ AtBacklog(i - n, h)'
  <2>1. backlog[i].end = "open"
    BY <1>5 DEF AtBacklog, Flow, WholeOK, Whole
  <2>2. i - n \in 1..Len(backlog') /\ backlog'[i - n] = backlog[i]
    BY <1>2, <2>1
  <2> QED BY <1>5, <2>2 DEF AtBacklog
<1>6. UnderWay(h) => UnderWay(h)'
  BY <1>3, <1>5 DEF UnderWay
<1>7. \A f \in Fds : AtSocket(f, h)' => Due(h, sock[f].unread)'
  BY <1>1, <1>3 DEF Carried, Due
<1>8. \A i \in 1..Len(backlog') : AtBacklog(i, h)' => Due(h, backlog[i].unread)'
  BY <1>1, <1>2, <1>4 DEF Carried, Due
<1>9. \A w \in Workers : AtWorker(w, h)' => Due(h, buff[w])'
  BY <1>1, <1>3 DEF Carried, Due, recvVars
<1> QED BY <1>1, <1>6, <1>7, <1>8, <1>9 DEF Carried

(* What a worker reads goes on in its buffer.                              *)
LEMMA ReadCarries ==
  ASSUME TypeInv, Flow, NEW h, Carried(h), NEW w \in Workers, Read(w)
  PROVE  Carried(h)'
<1>1. /\ wpc[w] = "read" /\ HasData(fd[w])
      /\ UNCHANGED <<wpc, szPeerAddr, backlog, sent, received>>
      /\ buff' = [buff EXCEPT ![w] = @ \o sock[fd[w]].unread]
      /\ sock' = [sock EXCEPT ![fd[w]] = [sock[fd[w]] EXCEPT !.unread = <<>>]]
  BY DEF Read, Move, peerVars, TypeInv, TypeOK, RecvTypes
<1>2. fd[w] \in Fds /\ sock[fd[w]] # Closed /\ sock[fd[w]] \in Peer
  BY <1>1, HandIsAlone DEF Handling
<1> PICK f \in Fds : f = fd[w]
  BY <1>2
<1>3. /\ sock'[f] = [host |-> sock[f].host, unread |-> <<>>, end |-> sock[f].end]
      /\ \A g \in Fds : g # f => sock'[g] = sock[g]
  <2>1. /\ sock'[f] = [sock[f] EXCEPT !.unread = <<>>]
        /\ \A g \in Fds : g # f => sock'[g] = sock[g]
    BY <1>1, <1>2 DEF TypeInv, TypeOK, KernelTypes
  <2> QED BY <1>2, <2>1, Drained
<1>4. /\ sock[f].unread # <<>> /\ sock[f].unread \in Seq(Nat)
      /\ buff[w] = <<>> /\ szPeerAddr[w] = sock[f].host
  <2>1. sock[f].unread # <<>> /\ sock[f].unread \in Seq(Nat)
    BY <1>1, <1>2, PeerFields DEF HasData
  <2>2. HandOK(w)
    BY DEF Flow, HandsOK
  <2> QED BY <1>1, <2>1, <2>2 DEF HandOK
<1>5. /\ buff'[w] = sock[f].unread
      /\ \A v \in Workers : v # w => buff'[v] = buff[v]
  <2>1. /\ buff'[w] = <<>> \o sock[f].unread
        /\ \A v \in Workers : v # w => buff'[v] = buff[v]
    BY <1>1, <1>4 DEF TypeInv, TypeOK, RecvTypes
  <2> QED BY <1>4, <2>1
<1>6. \A g \in Fds : AtSocket(g, h)' => g # f /\ AtSocket(g, h) /\ sock'[g] = sock[g]
  BY <1>3 DEF AtSocket, Has
<1>7. \A g \in Fds : AtSocket(g, h) => AtSocket(g, h)' \/ AtWorker(w, h)'
  <2> SUFFICES ASSUME NEW g \in Fds, AtSocket(g, h) PROVE AtSocket(g, h)' \/ AtWorker(w, h)'
    OBVIOUS
  <2>1. CASE g = f
    BY <1>1, <1>4, <1>5, <2>1 DEF AtSocket, AtWorker, Has
  <2>2. CASE g # f
    BY <1>3, <2>2 DEF AtSocket, Has
  <2> QED BY <2>1, <2>2
<1>8. \A i : AtBacklog(i, h)' <=> AtBacklog(i, h)
  BY <1>1 DEF AtBacklog
<1>9. \A v \in Workers : v # w => (AtWorker(v, h)' <=> AtWorker(v, h))
  BY <1>1, <1>5 DEF AtWorker
<1>10. ~AtWorker(w, h)
  BY <1>4 DEF AtWorker
<1>11. UnderWay(h) => UnderWay(h)'
  BY <1>1, <1>7, <1>8, <1>9, <1>10 DEF UnderWay
<1>12. \A g \in Fds : AtSocket(g, h)' => Due(h, sock[g].unread)'
  BY <1>1, <1>6 DEF Carried, Due
<1>13. \A i \in 1..Len(backlog') : AtBacklog(i, h)' => Due(h, backlog[i].unread)'
  BY <1>1, <1>8 DEF Carried, Due
<1>14. \A v \in Workers : AtWorker(v, h)' => Due(h, buff[v])'
  <2> SUFFICES ASSUME NEW v \in Workers, AtWorker(v, h)' PROVE Due(h, buff[v])'
    OBVIOUS
  <2>1. CASE v = w
    <3>1. AtSocket(f, h)
      BY <1>1, <1>2, <1>4, <2>1 DEF AtSocket, AtWorker, Has
    <3>2. Due(h, sock[f].unread)
      BY <3>1 DEF Carried
    <3> QED BY <1>1, <1>5, <2>1, <3>2 DEF Due
  <2>2. CASE v # w
    BY <1>1, <1>5, <1>9, <2>2 DEF Carried, Due
  <2> QED BY <2>1, <2>2
<1> QED BY <1>1, <1>11, <1>12, <1>13, <1>14 DEF Carried

LEMMA OneMore ==
  ASSUME NEW s \in Seq(Nat), NEW n \in Nat
  PROVE  /\ Len(s \o <<n>>) = Len(s) + 1
         /\ \A i \in 1..Len(s) + 1 :
              \/ i \in 1..Len(s) /\ (s \o <<n>>)[i] = s[i]
              \/ i = Len(s) + 1 /\ (s \o <<n>>)[i] = n
<1>1. <<n>> \in Seq(Nat) /\ Len(<<n>>) = 1 /\ <<n>>[1] = n
  OBVIOUS
<1>2. Len(s \o <<n>>) = Len(s) + 1
  BY <1>1
<1>3. \A i \in 1..Len(s) + 1 :
        (s \o <<n>>)[i] = IF i <= Len(s) THEN s[i] ELSE <<n>>[i - Len(s)]
  BY <1>1
<1> QED BY <1>1, <1>2, <1>3

(* What is delivered is the next number of its host, and the only one      *)
(* under way.                                                              *)
LEMMA DeliveryInOrder ==
  ASSUME TypeInv, Flow, OneLive, NEW h \in Hosts, InOrder(h), Carried(h),
         NEW w \in Workers, MessageRecv(w)
  PROVE  InOrder(h)' /\ Carried(h)'
<1>1. /\ wpc[w] = "deliver" /\ wpc'[w] \in {"fetch", "exited"}
      /\ \A v \in Workers \ {w} : wpc'[v] = wpc[v]
      /\ received' = [received EXCEPT ![szPeerAddr[w]] = @ \o buff[w]]
      /\ UNCHANGED <<sock, backlog, sent, buff, szPeerAddr>>
  BY DEF MessageRecv, Leaves, Move, peerVars, kernelVars, TypeInv, TypeOK, RecvTypes
<1>2. buff[w] # <<>>
  BY <1>1 DEF Flow, HandsOK, HandOK
<1>3. /\ received \in [Hosts -> Seq(Nat)] /\ sent[h] \in Nat
      /\ received[h] \in Seq(Nat) /\ Len(received[h]) \in Nat
  BY Descriptors DEF TypeInv, TypeOK, RecvTypes, PeerTypes
<1>4. \A f \in Fds : AtSocket(f, h)' <=> AtSocket(f, h)
  BY <1>1 DEF AtSocket, Has
<1>5. \A i : AtBacklog(i, h)' <=> AtBacklog(i, h)
  BY <1>1 DEF AtBacklog
<1>6. /\ \A v \in Workers : v # w => (AtWorker(v, h)' <=> AtWorker(v, h))
      /\ ~AtWorker(w, h)'
  BY <1>1 DEF AtWorker
<1>7. CASE szPeerAddr[w] = h
  <2>1. AtWorker(w, h)
    BY <1>1, <1>2, <1>7 DEF AtWorker
  <2>2. /\ \A f \in Fds : ~AtSocket(f, h)'
        /\ \A i \in 1..Len(backlog') : ~AtBacklog(i, h)'
        /\ \A v \in Workers : ~AtWorker(v, h)'
    BY <1>1, <1>4, <1>5, <1>6, <2>1, OnlyAtWorker
  <2>3. buff[w] = <<sent[h]>> /\ sent[h] = Len(received[h]) + 1
    BY <2>1 DEF Carried, Due
  <2>4. received'[h] = received[h] \o <<sent[h]>>
    BY <1>1, <1>3, <1>7, <2>3
  <2>5. /\ Len(received'[h]) = Len(received[h]) + 1
        /\ \A i \in 1..Len(received'[h]) :
             \/ i \in 1..Len(received[h]) /\ received'[h][i] = received[h][i]
             \/ i = Len(received[h]) + 1 /\ received'[h][i] = sent[h]
    BY <1>3, <2>4, OneMore
  <2>6. InOrder(h)'
    <3>1. \A i \in 1..Len(received'[h]) : received'[h][i] = i
      BY <2>3, <2>5 DEF InOrder
    <3>2. Len(received'[h]) <= sent'[h]
      BY <1>1, <1>3, <2>3, <2>5
    <3> QED BY <3>1, <3>2 DEF InOrder
  <2> QED BY <1>1, <2>2, <2>3, <2>5, <2>6 DEF Carried
<1>8. CASE szPeerAddr[w] # h
  <2>1. received'[h] = received[h]
    BY <1>1, <1>3, <1>8
  <2>2. ~AtWorker(w, h)
    BY <1>8 DEF AtWorker
  <2>3. StaysUnderWay(h)
    BY <1>1, <1>4, <1>5, <1>6, <2>2 DEF StaysUnderWay
  <2> QED BY <1>1, <2>1, <2>3, CarriedKept DEF InOrder
<1> QED BY <1>7, <1>8

(* What a peer that waits sends is the only data of its host under way.    *)
LEMMA SendCarries ==
  ASSUME TypeInv, Flow, OneLive, ~Ahead, NEW h \in Hosts, Carried(h),
         NEW f \in Fds, PeerActs(f)
  PROVE  Carried(h)'
<1>1. PICK d \in Acted(sock[f]) : sock' = [sock EXCEPT ![f] = d] /\ Count(sock[f], d)
  BY DEF PeerActs
<1>2. UNCHANGED <<recvVars, received, backlog>>
  BY DEF PeerActs
<1>3. /\ \A w \in Workers : ~InHand(w, f)
      /\ ~Readable(f) /\ sock[f] # Closed /\ sock[f].end = "open"
  BY DEF PeerActs, Pending, InHand
<1>4. sock[f] \in Peer /\ sock[f].unread = <<>> /\ sock[f].host \in Hosts
  BY <1>3, Descriptors, PeerFields DEF Readable, HasData, TypeInv, TypeOK, KernelTypes
<1>5. /\ d \in Peer /\ d.host = sock[f].host
      /\ d.end = "open" => d.unread = <<sent[sock[f].host] + 1>>
      /\ d.end # "open" => d.unread = <<>>
  BY <1>3, <1>4, WaitingPeerActs
<1>6. /\ sock'[f] = d /\ d # Closed
      /\ \A g \in Fds : g # f => sock'[g] = sock[g]
  BY <1>1, <1>5, Descriptors DEF TypeInv, TypeOK, KernelTypes
<1>7. sent \in [Hosts -> Nat] /\ sent[h] \in Nat
  BY Descriptors DEF TypeInv, TypeOK, PeerTypes
<1>8. sent' = [sent EXCEPT ![sock[f].host] = @ + (IF d.end = "open" THEN 1 ELSE 0)]
  BY <1>1 DEF Count
<1>9. \A g \in Fds : g # f => (AtSocket(g, h)' <=> AtSocket(g, h))
  BY <1>6 DEF AtSocket, Has
<1>10. \A i : AtBacklog(i, h)' <=> AtBacklog(i, h)
  BY <1>2 DEF AtBacklog
<1>11. \A w \in Workers : AtWorker(w, h)' <=> AtWorker(w, h)
  BY <1>2 DEF AtWorker, recvVars
<1>12. CASE sock[f].host # h
  <2>1. sent'[h] = sent[h]
    BY <1>7, <1>8, <1>12
  <2>2. ~AtSocket(f, h) /\ ~AtSocket(f, h)'
    BY <1>5, <1>6, <1>12 DEF AtSocket, Has
  <2>3. \A g \in Fds : /\ AtSocket(g, h)' <=> AtSocket(g, h)
                       /\ AtSocket(g, h) => sock'[g].unread = sock[g].unread
    BY <1>6, <1>9, <2>2
  <2>4. StaysUnderWay(h)
    BY <1>2, <1>10, <1>11, <2>3 DEF StaysUnderWay, recvVars
  <2> QED BY <1>2, <1>7, <2>1, <2>4, CarriedKept
<1>13. CASE sock[f].host = h
  <2>1. ~UnderWay(h)
    BY <1>3, <1>4, <1>13, NothingAtIdle DEF OpenFds
  <2>2. /\ \A g \in Fds : g # f => ~AtSocket(g, h)'
        /\ \A i \in 1..Len(backlog') : ~AtBacklog(i, h)'
        /\ \A w \in Workers : ~AtWorker(w, h)'
        /\ sent[h] = Len(received[h])
    BY <1>2, <1>9, <1>10, <1>11, <2>1 DEF UnderWay, Carried
  <2>3. CASE d.end = "open"
    <3>1. sent'[h] = sent[h] + 1 /\ sock'[f].unread = <<sent'[h]>>
      BY <1>5, <1>6, <1>7, <1>8, <1>13, <2>3
    <3>2. AtSocket(f, h)' /\ Due(h, sock[f].unread)'
      BY <1>2, <1>5, <1>6, <1>13, <2>2, <3>1 DEF AtSocket, Has, Due
    <3> QED BY <1>7, <2>2, <3>1, <3>2 DEF Carried, UnderWay
  <2>4. CASE d.end # "open"
    <3>1. sent'[h] = sent[h]
      BY <1>7, <1>8, <1>13, <2>4
    <3>2. ~AtSocket(f, h)'
      BY <1>5, <1>6, <2>4 DEF AtSocket
    <3> QED BY <1>2, <1>7, <2>2, <3>1, <3>2 DEF Carried
  <2> QED BY <2>3, <2>4
<1> QED BY <1>12, <1>13

LEMMA SendEarlyCarries ==
  ASSUME TypeInv, Flow, OneLive, ~Ahead, NEW h \in Hosts, Carried(h),
         NEW k \in 1..Len(backlog), PeerActsEarly(k)
  PROVE  Carried(h)'
<1>1. PICK d \in Acted(backlog[k]) : backlog' = [backlog EXCEPT ![k] = d] /\ Count(backlog[k], d)
  BY DEF PeerActsEarly
<1>2. UNCHANGED <<recvVars, received, sock>>
  BY DEF PeerActsEarly, kernelVars
<1>3. /\ backlog[k] \in Peer /\ backlog[k].unread = <<>> /\ backlog[k].end = "open"
      /\ backlog[k].host \in Hosts
  BY PeerFields DEF PeerActsEarly, TypeInv, TypeOK, PeerTypes
<1>4. /\ d \in Peer /\ d.host = backlog[k].host
      /\ d.end = "open" => d.unread = <<sent[backlog[k].host] + 1>>
      /\ d.end # "open" => d.unread = <<>>
  BY <1>3, WaitingPeerActs
<1>5. /\ backlog'[k] = d /\ Len(backlog') = Len(backlog)
      /\ \A i \in 1..Len(backlog) : i # k => backlog'[i] = backlog[i]
  BY <1>1 DEF TypeInv, TypeOK, PeerTypes
<1>6. sent \in [Hosts -> Nat] /\ sent[h] \in Nat
  BY Descriptors DEF TypeInv, TypeOK, PeerTypes
<1>7. sent' = [sent EXCEPT ![backlog[k].host] = @ + (IF d.end = "open" THEN 1 ELSE 0)]
  BY <1>1 DEF Count
<1>8. \A g \in Fds : AtSocket(g, h)' <=> AtSocket(g, h)
  BY <1>2 DEF AtSocket, Has
<1>9. \A i \in 1..Len(backlog) : i # k => (AtBacklog(i, h)' <=> AtBacklog(i, h))
  BY <1>5 DEF AtBacklog
<1>10. \A w \in Workers : AtWorker(w, h)' <=> AtWorker(w, h)
  BY <1>2 DEF AtWorker, recvVars
<1>11. CASE backlog[k].host # h
  <2>1. sent'[h] = sent[h]
    BY <1>6, <1>7, <1>11
  <2>2. ~AtBacklog(k, h) /\ ~AtBacklog(k, h)'
    BY <1>4, <1>5, <1>11 DEF AtBacklog
  <2>3. StaysUnderWay(h)
    BY <1>2, <1>5, <1>8, <1>9, <1>10, <2>2 DEF StaysUnderWay, recvVars
  <2> QED BY <1>2, <1>6, <2>1, <2>3, CarriedKept
<1>12. CASE backlog[k].host = h
  <2>1. ~UnderWay(h)
    BY <1>3, <1>12, NothingAtWaiting
  <2>2. /\ \A g \in Fds : ~AtSocket(g, h)'
        /\ \A i \in 1..Len(backlog') : i # k => ~AtBacklog(i, h)'
        /\ \A w \in Workers : ~AtWorker(w, h)'
        /\ sent[h] = Len(received[h])
    BY <1>2, <1>5, <1>8, <1>9, <1>10, <2>1 DEF UnderWay, Carried
  <2>3. CASE d.end = "open"
    <3>1. sent'[h] = sent[h] + 1 /\ backlog'[k].unread = <<sent'[h]>>
      BY <1>4, <1>5, <1>6, <1>7, <1>12, <2>3
    <3>2. AtBacklog(k, h)' /\ Due(h, backlog[k].unread)'
      BY <1>2, <1>4, <1>5, <1>12, <2>2, <3>1 DEF AtBacklog, Due
    <3>3. UnderWay(h)'
      BY <1>5, <3>2 DEF UnderWay
    <3>4. \A i \in 1..Len(backlog') : AtBacklog(i, h)' => i = k
      BY <2>2
    <3> QED BY <2>2, <3>2, <3>3, <3>4 DEF Carried
  <2>4. CASE d.end # "open"
    <3>1. sent'[h] = sent[h]
      BY <1>6, <1>7, <1>12, <2>4
    <3>2. ~AtBacklog(k, h)'
      BY <1>4, <1>5, <2>4 DEF AtBacklog
    <3> QED BY <1>2, <1>6, <2>2, <3>1, <3>2 DEF Carried
  <2> QED BY <2>3, <2>4
<1> QED BY <1>11, <1>12

LEMMA DataStep == ~Ahead /\ DataInv /\ [Next]_vars => DataOK'
<1> SUFFICES ASSUME ~Ahead, TypeInv, Flow, OneLive, DataOK, [Next]_vars, NEW h \in Hosts
             PROVE  InOrder(h)' /\ (ep' # "done" => Carried(h)')
  BY DEF DataInv, DataOK
<1>1. InOrder(h) /\ (ep # "done" => Carried(h))
  BY DEF DataOK
<1>2. sent[h] \in Nat /\ Len(received[h]) \in Nat
  BY Descriptors DEF TypeInv, TypeOK, PeerTypes, RecvTypes
<1>3. ASSUME UNCHANGED <<sent, received>> PROVE InOrder(h)'
  BY <1>1, <1>3 DEF InOrder
<1>4. ASSUME UNCHANGED <<sent, received>>, StaysUnderWay(h), ep' # "done" => ep # "done"
      PROVE  InOrder(h)' /\ (ep' # "done" => Carried(h)')
  BY <1>1, <1>3, <1>4, CarriedKept
<1>5. CASE EpollThread
  <2>1. CASE Accept
    <3>1. UNCHANGED <<sent, received>> /\ ep # "done"
      BY <2>1 DEF Accept, At
    <3> QED BY <1>1, <1>3, <2>1, <3>1, AcceptCarries
  <2>2. CASE CloseAll
    BY <1>3, <2>2 DEF CloseAll, At
  <2>3. CASE AcceptFails
    <3>1. UNCHANGED <<sent, received>> /\ ep # "done"
      BY <2>3, WhatFails
    <3> QED BY <1>1, <1>3, <2>3, <3>1, FailCarries
  <2>4. CASE ~(Accept \/ CloseAll \/ AcceptFails)
    <3>1. UNCHANGED <<sock, backlog, sent, received, recvVars>> /\ ep # "done"
      BY <1>5, <2>4 DEF EpollThread, SafeChangeEvents, epoll_pwait, EventsEnd, ListenEvent,
         WakeupEvent, ReadEvent, AcceptEnds, Watch, AddTcpConnection, SetSockfd2InetAddr,
         ClearThreadPool, kernelVars, peerVars, At
    <3>2. StaysUnderWay(h)
      BY <3>1, StillUnderWay DEF recvVars, AtWorker
    <3> QED BY <1>4, <3>1, <3>2
  <2> QED BY <2>1, <2>2, <2>3, <2>4
<1>6. CASE Stop
  <2>1. UNCHANGED <<sock, backlog, sent, received, recvVars, ep>>
    BY <1>6 DEF Stop, peerVars
  <2>2. StaysUnderWay(h)
    BY <2>1, StillUnderWay DEF recvVars, AtWorker
  <2> QED BY <1>4, <2>1, <2>2
<1>7. CASE Environment
  <2>1. ASSUME NEW k \in Hosts, Connect(k)
        PROVE  InOrder(h)' /\ (ep' # "done" => Carried(h)')
    <3>1. UNCHANGED <<sent, received, ep>>
      BY <2>1 DEF Connect, epollVars
    <3> QED BY <1>4, <2>1, <3>1, ConnectKeepsData
  <2>2. ASSUME received' = received, sent'[h] >= sent[h], sent'[h] \in Int PROVE InOrder(h)'
    BY <1>1, <1>2, <2>2 DEF InOrder
  <2>3. ASSUME NEW c, NEW d, Count(c, d) PROVE sent'[h] >= sent[h] /\ sent'[h] \in Int
    <3>1. sent'[h] \in {sent[h], sent[h] + 1, sent[h] + 0}
      BY <2>3, Descriptors DEF Count, TypeInv, TypeOK, PeerTypes
    <3> QED BY <1>2, <3>1
  <2>4. ASSUME NEW f \in Fds, PeerActs(f)
        PROVE  InOrder(h)' /\ (ep' # "done" => Carried(h)')
    <3>1. received' = received /\ ep' = ep /\ \E d : Count(sock[f], d)
      BY <2>4 DEF PeerActs, epollVars
    <3> QED BY <1>1, <2>2, <2>3, <2>4, <3>1, SendCarries
  <2>5. ASSUME NEW k \in 1..Len(backlog), PeerActsEarly(k)
        PROVE  InOrder(h)' /\ (ep' # "done" => Carried(h)')
    <3>1. received' = received /\ ep' = ep /\ \E d : Count(backlog[k], d)
      BY <2>5 DEF PeerActsEarly, epollVars
    <3> QED BY <1>1, <2>2, <2>3, <2>5, <3>1, SendEarlyCarries
  <2> QED BY <1>7, <2>1, <2>4, <2>5 DEF Environment
<1>8. ASSUME NEW w \in Workers, Worker(w)
      PROVE  InOrder(h)' /\ (ep' # "done" => Carried(h)')
  <2>1. ep # "done" /\ ep' = ep
    <3>1. wpc[w] # "exited" /\ ep' = ep
      BY <1>8 DEF Worker, Fetch, Quit, getPeerAddr, FindInetAddr, GiveUp, Read, ReadEnds,
         MessageRecv, Unwatch, CloseClient, RemoveSockfd2InetAddr, RemovTcpConnection,
         Leaves, Move, epollVars
    <3> QED BY <3>1 DEF TypeInv, PlacesOK
  <2>2. CASE MessageRecv(w)
    BY <1>1, <2>1, <2>2, DeliveryInOrder
  <2>3. CASE ~MessageRecv(w)
    <3>1. UNCHANGED <<sent, received>>
      BY <1>8, <2>3 DEF Worker, Fetch, Quit, getPeerAddr, FindInetAddr, GiveUp, Read, ReadEnds,
         Unwatch, CloseClient, RemoveSockfd2InetAddr, RemovTcpConnection, peerVars
    <3>2. CASE Read(w)
      BY <1>1, <1>3, <2>1, <3>1, <3>2, ReadCarries
    <3>3. CASE ~Read(w)
      <4>1. StaysUnderWay(h)
        BY <1>8, <2>3, <3>3, WorkerKeepsData, EndOfReadKeepsData, CloseKeepsData DEF Worker
      <4> QED BY <1>4, <2>1, <3>1, <4>1
    <3> QED BY <3>2, <3>3
  <2> QED BY <2>2, <2>3
<1>9. CASE UNCHANGED vars
  <2>1. UNCHANGED <<sock, backlog, sent, received, recvVars, ep>>
    BY <1>9 DEF vars, kernelVars, peerVars, epollVars
  <2>2. StaysUnderWay(h)
    BY <2>1, StillUnderWay DEF recvVars, AtWorker
  <2> QED BY <1>4, <2>1, <2>2
<1> QED BY <1>5, <1>6, <1>7, <1>8, <1>9 DEF Next

LEMMA DataAlways ==
  ASSUME ~Ahead
  PROVE  Spec => []DataOK
<1>1. DataInv /\ [Next]_vars => DataOK'
  BY DataStep
<1>2. Spec => [](TypeInv /\ Flow)
  BY FlowAlways
<1> QED BY <1>1, <1>2, DataInit, LiveAlways, PTL DEF Spec, DataInv

-----------------------------------------------------------------------------
(***************************************************************************)
(* 5. The tables.                                                          *)
(***************************************************************************)
(* Accept, its failure, Connect and the two kinds of close apart, no step  *)
(* opens, closes, drops or renames a connection.                           *)
SameHosts ==
  /\ \A f \in Fds : /\ f \in OpenFds' <=> f \in OpenFds
                    /\ f \in OpenFds => sock'[f].host = sock[f].host
  /\ Len(backlog') = Len(backlog)
  /\ \A i \in 1..Len(backlog) : backlog'[i].host = backlog[i].host

LEMMA HostsStay ==
  ASSUME TypeInv, [Next]_vars, ~Accept, ~AcceptFails, ~CloseAll,
         \A h \in Hosts : ~Connect(h), \A w \in Workers : ~CloseClient(w)
  PROVE  SameHosts
<1>1. ASSUME UNCHANGED <<sock, backlog>> PROVE SameHosts
  BY <1>1 DEF SameHosts, OpenFds
<1>2. CASE EpollThread
  <2>1. UNCHANGED <<sock, backlog>>
    BY <1>2 DEF EpollThread, SafeChangeEvents, epoll_pwait, EventsEnd, ListenEvent,
       WakeupEvent, ReadEvent, AcceptEnds, Watch, AddTcpConnection, SetSockfd2InetAddr,
       ClearThreadPool, kernelVars, peerVars
  <2> QED BY <1>1, <2>1
<1>3. CASE Stop
  BY <1>1, <1>3 DEF Stop, peerVars
<1>4. ASSUME NEW k \in 1..Len(backlog), PeerActsEarly(k) PROVE SameHosts
  <2>1. PICK d \in Acted(backlog[k]) : backlog' = [backlog EXCEPT ![k] = d]
    BY <1>4 DEF PeerActsEarly
  <2>2. backlog[k] \in Peer /\ backlog[k].end = "open" /\ sent \in [Hosts -> Nat]
    BY <1>4 DEF PeerActsEarly, TypeInv, TypeOK, PeerTypes
  <2>3. d.host = backlog[k].host
    BY <2>2, ActedIs
  <2>4. sock' = sock
    BY <1>4 DEF PeerActsEarly, kernelVars
  <2> QED BY <2>1, <2>3, <2>4 DEF SameHosts, OpenFds, TypeInv, TypeOK, PeerTypes
<1>5. ASSUME NEW k \in Fds, PeerActs(k) PROVE SameHosts
  <2>1. PICK d \in Acted(sock[k]) : sock' = [sock EXCEPT ![k] = d]
    BY <1>5 DEF PeerActs
  <2>2. sock[k] \in Peer /\ sock[k].end = "open" /\ sent \in [Hosts -> Nat]
    BY <1>5 DEF PeerActs, TypeInv, TypeOK, PeerTypes, KernelTypes
  <2>3. d \in Peer /\ d.host = sock[k].host
    BY <2>2, ActedIs
  <2>4. backlog' = backlog
    BY <1>5 DEF PeerActs
  <2> QED BY <2>1, <2>2, <2>3, <2>4, Descriptors
          DEF SameHosts, OpenFds, TypeInv, TypeOK, KernelTypes
<1>6. ASSUME NEW w \in Workers, Worker(w) PROVE SameHosts
  <2>1. CASE Read(w)
    <3>1. /\ fd[w] \in Fds /\ sock[fd[w]] # Closed /\ sock[fd[w]] \in Peer
          /\ backlog' = backlog
          /\ sock' = [sock EXCEPT ![fd[w]] = [sock[fd[w]] EXCEPT !.unread = <<>>]]
      BY <2>1 DEF Read, Move, HasData, TypeInv, TypeOK, KernelTypes, PlacesOK, peerVars
    <3>2. PICK d \in Peer :
            /\ d = [sock[fd[w]] EXCEPT !.unread = <<>>]
            /\ d = [host |-> sock[fd[w]].host, unread |-> <<>>, end |-> sock[fd[w]].end]
      BY <3>1, Drained
    <3>3. d.host = sock[fd[w]].host
      BY <3>2
    <3> QED BY <3>3, <3>1, <3>2, Descriptors DEF SameHosts, OpenFds, TypeInv, TypeOK, KernelTypes
  <2>2. CASE ~Read(w)
    <3>1. UNCHANGED <<sock, backlog>>
      BY <1>6, <2>2 DEF Worker, Fetch, Quit, getPeerAddr, FindInetAddr, GiveUp, ReadEnds,
         MessageRecv, Unwatch, RemoveSockfd2InetAddr, RemovTcpConnection, kernelVars, peerVars
    <3> QED BY <1>1, <3>1
  <2> QED BY <2>1, <2>2
<1>7. CASE UNCHANGED vars
  BY <1>1, <1>7 DEF vars, kernelVars, peerVars
<1> QED BY <1>2, <1>3, <1>4, <1>5, <1>6, <1>7 DEF Next, Environment

(* A worker that closed a connection has yet to take it off the tables.    *)
Ending(w) == wpc[w] \in {"forget", "disconnection"}

LEMMA EndingStays ==
  ASSUME TypeInv, [Next]_vars, NEW w \in Workers
  PROVE  /\ Ending(w)' /\ ~CloseClient(w) => Ending(w)
         /\ Ending(w) /\ ~RemovTcpConnection(w) => Ending(w)'
         /\ Ending(w) => szPeerAddr'[w] = szPeerAddr[w]
<1>1. wpc \in [Workers -> RecvStatements] /\ szPeerAddr \in [Workers -> Hosts \cup {None}]
  BY DEF TypeInv, TypeOK, RecvTypes
<1>2. ASSUME wpc'[w] = wpc[w], szPeerAddr'[w] = szPeerAddr[w]
      PROVE  (Ending(w)' <=> Ending(w)) /\ szPeerAddr'[w] = szPeerAddr[w]
  BY <1>2 DEF Ending
<1>3. CASE EpollThread \/ Stop \/ Environment \/ UNCHANGED vars
  <2>1. UNCHANGED recvVars
    BY <1>3 DEF EpollThread, SafeChangeEvents, epoll_pwait, EventsEnd, ListenEvent,
       WakeupEvent, ReadEvent, Accept, AcceptEnds, AcceptFails, Watch, AddTcpConnection,
       SetSockfd2InetAddr, ClearThreadPool, CloseAll, Stop, Environment, Connect,
       PeerActs, PeerActsEarly, vars
  <2> QED BY <1>2, <2>1 DEF recvVars
<1>4. ASSUME NEW v \in Workers, Worker(v), v # w
      PROVE  wpc'[w] = wpc[w] /\ szPeerAddr'[w] = szPeerAddr[w]
  BY <1>1, <1>4 DEF Worker, Fetch, Quit, getPeerAddr, FindInetAddr, GiveUp, Read, ReadEnds,
     MessageRecv, Unwatch, CloseClient, RemoveSockfd2InetAddr, RemovTcpConnection, Leaves, Move
<1>5. CASE Worker(w)
  <2>1. CASE getPeerAddr(w) \/ FindInetAddr(w)
    <3>1. wpc[w] \in {"peer", "lookup"} /\ wpc'[w] \in {"read", "lookup"}
      BY <1>1, <2>1 DEF getPeerAddr, FindInetAddr, Move
    <3> QED BY <3>1 DEF Ending
  <2>2. CASE RemovTcpConnection(w)
    BY <1>1, <2>2 DEF RemovTcpConnection, Leaves, Move, Ending
  <2>3. CASE CloseClient(w)
    BY <1>1, <2>3 DEF CloseClient, Move, Ending
  <2>4. CASE RemoveSockfd2InetAddr(w)
    BY <1>1, <2>4 DEF RemoveSockfd2InetAddr, Move, Ending
  <2>5. CASE ~(\/ getPeerAddr(w) \/ FindInetAddr(w) \/ RemovTcpConnection(w)
               \/ CloseClient(w) \/ RemoveSockfd2InetAddr(w))
    <3>1. /\ wpc[w] \in {"fetch", "lookup", "read", "deliver", "del"}
          /\ wpc'[w] \in {"peer", "fetch", "exited", "read", "del", "deliver", "close"}
      BY <1>1, <1>5, <2>5 DEF Worker, Fetch, Quit, GiveUp, Read, ReadEnds, MessageRecv,
         Unwatch, Leaves, Move
    <3> QED BY <3>1 DEF Ending
  <2> QED BY <2>1, <2>2, <2>3, <2>4, <2>5
<1> QED BY <1>2, <1>3, <1>4, <1>5 DEF Next

LEMMA WhoLists ==
  ASSUME [Next]_vars, ~AddTcpConnection, ~CloseAll, \A w \in Workers : ~RemovTcpConnection(w)
  PROVE  tcpConnection' = tcpConnection
<1>1. CASE EpollThread
  BY <1>1 DEF EpollThread, SafeChangeEvents, epoll_pwait, EventsEnd, ListenEvent,
     WakeupEvent, ReadEvent, Accept, AcceptEnds, AcceptFails, Watch, SetSockfd2InetAddr,
     ClearThreadPool, tables
<1>2. CASE Stop \/ Environment \/ UNCHANGED vars
  BY <1>2 DEF Stop, Environment, Connect, PeerActs, PeerActsEarly, vars, tables
<1>3. ASSUME NEW w \in Workers, Worker(w) PROVE tcpConnection' = tcpConnection
  BY <1>3 DEF Worker, Fetch, Quit, getPeerAddr, FindInetAddr, GiveUp, Read, ReadEnds,
     MessageRecv, Unwatch, CloseClient, RemoveSockfd2InetAddr, tables
<1> QED BY <1>1, <1>2, <1>3 DEF Next

(* The closes and the connections, from the tables' side.                  *)
LEMMA WhatCloses ==
  ASSUME TypeInv, Flow, NEW w \in Workers, CloseClient(w)
  PROVE  /\ fd[w] \in Fds /\ sock[fd[w]] # Closed /\ szPeerAddr[w] = sock[fd[w]].host
         /\ szPeerAddr[w] \in Hosts
         /\ sock' = [f \in Fds |-> IF f = fd[w] THEN Closed ELSE sock[f]]
         /\ Ending(w)' /\ UNCHANGED <<backlog, early, szPeerAddr, tcpConnection, ep, clientfd>>
         /\ \A v \in Workers \ {w} : wpc'[v] = wpc[v]
<1>1. /\ wpc[w] = "close" /\ UNCHANGED <<backlog, early, szPeerAddr, tcpConnection, ep, clientfd>>
      /\ sock' = [f \in Fds |-> IF f = fd[w] THEN Closed ELSE sock[f]]
      /\ wpc'[w] = "forget" /\ \A v \in Workers \ {w} : wpc'[v] = wpc[v]
  BY DEF CloseClient, Close, Move, peerVars, tables, epollVars, accepting,
     TypeInv, TypeOK, RecvTypes
<1>2. /\ fd[w] \in Fds /\ sock[fd[w]] # Closed /\ sock[fd[w]] \in Peer
      /\ szPeerAddr[w] = sock[fd[w]].host
  BY <1>1, HandIsAlone DEF Handling, Flow, HandsOK, HandOK
<1> QED BY <1>1, <1>2, PeerFields DEF Ending

LEMMA WhatOpens ==
  ASSUME TypeInv, Accept
  PROVE  /\ ep = "accept" /\ ep' = "add" /\ UNCHANGED <<early, tcpConnection, recvVars>>
         /\ \E k \in Fds \ OpenFds :
              /\ k = clientfd' /\ sock'[k] = backlog[1] /\ sock'[k] # Closed
              /\ \A f \in Fds : f # k => sock'[f] = sock[f]
         /\ 1 \in 1..Len(backlog)
         /\ \A i \in 1..Len(backlog') :
              i \in Nat /\ i + 1 \in 1..Len(backlog) /\ i + 1 # 1 /\ backlog'[i] = backlog[i + 1]
<1>1. /\ ep = "accept" /\ ep' = "add" /\ UNCHANGED <<early, tcpConnection, recvVars>>
      /\ sock' = [sock EXCEPT ![clientfd'] = Head(backlog)]
      /\ backlog # <<>> /\ backlog' = Tail(backlog) /\ backlog \in Seq(Peer)
  BY DEF Accept, At, tables, TypeInv, TypeOK, PeerTypes
<1>2. clientfd' \in Fds \ OpenFds
  BY MinIsIn, ServiceAssumption DEF Accept, OpenFds, ServiceAssumption
<1> PICK k \in Fds \ OpenFds : k = clientfd'
  BY <1>2
<1>3. backlog[1] \in Peer /\ Head(backlog) = backlog[1] /\ 1 \in 1..Len(backlog)
  BY <1>1, Behead
<1>4. sock'[k] = backlog[1] /\ sock'[k] # Closed /\ \A f \in Fds : f # k => sock'[f] = sock[f]
  BY <1>1, <1>3, Descriptors DEF TypeInv, TypeOK, KernelTypes
<1>5. \A i \in 1..Len(backlog') :
        i \in Nat /\ i + 1 \in 1..Len(backlog) /\ i + 1 # 1 /\ backlog'[i] = backlog[i + 1]
  BY <1>1, Behead
<1> QED BY <1>1, <1>3, <1>4, <1>5

LEMMA ListedStep ==
  ASSUME TypeInv, Flow, ListedIsOpen, [Next]_vars
  PROVE  ListedIsOpen'
<1> SUFFICES ASSUME NEW h \in Hosts, tcpConnection'[h] # None
             PROVE  \/ Has(tcpConnection[h], h)'
                    \/ \E w \in Workers : szPeerAddr'[w] = h /\ Ending(w)'
  BY DEF ListedIsOpen, Ending
<1>1. tcpConnection \in [Hosts -> Fds \cup {None}]
  BY DEF TypeInv, TypeOK, TableTypes
<1>2. tcpConnection[h] # None =>
        \/ Has(tcpConnection[h], h)
        \/ \E w \in Workers : szPeerAddr[w] = h /\ Ending(w)
  BY DEF ListedIsOpen, Ending
<1>3. CASE CloseAll
  BY <1>3 DEF CloseAll
<1>4. CASE AddTcpConnection
  <2>1. /\ tcpConnection' = [tcpConnection EXCEPT ![szIpAndPort] = clientfd]
        /\ Has(clientfd, szIpAndPort) /\ UNCHANGED <<sock, recvVars>>
    BY <1>4 DEF AddTcpConnection, At, Flow, TakingOK, Taking, kernelVars
  <2>2. CASE h = szIpAndPort
    BY <1>1, <2>1, <2>2 DEF Has
  <2>3. CASE h # szIpAndPort
    <3>1. tcpConnection'[h] = tcpConnection[h]
      BY <1>1, <2>1, <2>3
    <3> QED BY <1>2, <2>1, <3>1 DEF Has, Ending, recvVars
  <2> QED BY <2>2, <2>3
<1>5. ASSUME NEW w \in Workers, CloseClient(w)
      PROVE  \/ Has(tcpConnection[h], h)'
             \/ \E v \in Workers : szPeerAddr'[v] = h /\ Ending(v)'
  <2>1. /\ szPeerAddr[w] = sock[fd[w]].host
        /\ sock' = [f \in Fds |-> IF f = fd[w] THEN Closed ELSE sock[f]]
        /\ Ending(w)' /\ UNCHANGED <<szPeerAddr, tcpConnection>>
        /\ \A v \in Workers \ {w} : wpc'[v] = wpc[v]
    BY <1>5, WhatCloses
  <2>2. tcpConnection[h] \in Fds
    BY <1>1, <2>1
  <2>3. CASE Has(tcpConnection[h], h)
    BY <2>1, <2>2, <2>3 DEF Has
  <2>4. CASE ~Has(tcpConnection[h], h)
    <3>1. PICK v \in Workers : szPeerAddr[v] = h /\ Ending(v)
      BY <1>2, <2>1, <2>4
    <3>2. Ending(v)'
      BY <2>1, <3>1 DEF Ending
    <3> QED BY <2>1, <3>1, <3>2
  <2> QED BY <2>3, <2>4
<1>6. ASSUME NEW w \in Workers, RemovTcpConnection(w)
      PROVE  \/ Has(tcpConnection[h], h)'
             \/ \E v \in Workers : szPeerAddr'[v] = h /\ Ending(v)'
  <2>1. /\ tcpConnection' = [tcpConnection EXCEPT ![szPeerAddr[w]] = None]
        /\ UNCHANGED <<sock, szPeerAddr>>
        /\ \A v \in Workers \ {w} : wpc'[v] = wpc[v]
    BY <1>6 DEF RemovTcpConnection, kernelVars, Leaves, Move, TypeInv, TypeOK, RecvTypes
  <2>2. h # szPeerAddr[w] /\ tcpConnection'[h] = tcpConnection[h]
    BY <1>1, <2>1
  <2>3. CASE Has(tcpConnection[h], h)
    BY <2>1, <2>2, <2>3 DEF Has
  <2>4. ASSUME NEW v \in Workers, szPeerAddr[v] = h, Ending(v)
        PROVE  szPeerAddr'[v] = h /\ Ending(v)'
    BY <2>1, <2>2, <2>4 DEF Ending
  <2> QED BY <1>2, <2>2, <2>3, <2>4
<1>7. CASE /\ ~CloseAll /\ ~AddTcpConnection
           /\ \A w \in Workers : ~CloseClient(w) /\ ~RemovTcpConnection(w)
  <2>1. tcpConnection'[h] = tcpConnection[h] /\ tcpConnection[h] \in Fds
    BY <1>1, <1>7, WhoLists
  <2>2. \A f \in OpenFds : f \in OpenFds' /\ sock'[f].host = sock[f].host
    <3>1. CASE Accept
      <4>1. PICK k \in Fds \ OpenFds : \A f \in Fds : f # k => sock'[f] = sock[f]
        BY <3>1, WhatOpens
      <4> QED BY <4>1 DEF OpenFds
    <3>2. ASSUME NEW k \in Hosts, Connect(k) PROVE sock' = sock
      BY <3>2 DEF Connect
    <3>3. ASSUME AcceptFails PROVE sock' = sock
      BY <3>3 DEF AcceptFails, kernelVars
    <3>4. CASE ~Accept /\ ~AcceptFails /\ \A k \in Hosts : ~Connect(k)
      <4>1. SameHosts
        BY <1>7, <3>4, HostsStay
      <4> QED BY <4>1 DEF SameHosts, OpenFds
    <3> QED BY <3>1, <3>2, <3>3, <3>4 DEF OpenFds
  <2>3. CASE Has(tcpConnection[h], h)
    BY <2>1, <2>2, <2>3 DEF Has, OpenFds
  <2>4. CASE ~Has(tcpConnection[h], h)
    <3>1. PICK w \in Workers : szPeerAddr[w] = h /\ Ending(w)
      BY <1>2, <2>1, <2>4
    <3> QED BY <1>7, <3>1, EndingStays
  <2> QED BY <2>3, <2>4
<1> QED BY <1>3, <1>4, <1>5, <1>6, <1>7

(* What is listed is open, also of hosts that connect again.               *)
LEMMA ListedAlways ==
  ASSUME ~Ahead
  PROVE  Spec => []ListedIsOpen
<1>1. Init => ListedIsOpen
  BY DEF Init, ListedIsOpen
<1>2. TypeInv /\ Flow /\ ListedIsOpen /\ [Next]_vars => ListedIsOpen'
  BY ListedStep
<1>3. Spec => [](TypeInv /\ Flow)
  BY FlowAlways
<1> QED BY <1>1, <1>2, <1>3, PTL DEF Spec

(* A host that waited, each time it came back, until its last connection   *)
(* was closed and forgotten, has one connection at most: it waits, or it   *)
(* is open, or a worker has closed it.                                     *)
Settled == Hosts \ early

Once ==
  /\ \A w \in Workers : Ending(w) /\ szPeerAddr[w] \in Settled =>
       /\ \A f \in OpenFds : sock[f].host # szPeerAddr[w]
       /\ \A i \in 1..Len(backlog) : backlog[i].host # szPeerAddr[w]
  /\ \A f, g \in OpenFds :
       sock[f].host \in Settled /\ sock[f].host = sock[g].host => f = g
  /\ \A f \in OpenFds, i \in 1..Len(backlog) :
       sock[f].host \in Settled => sock[f].host # backlog[i].host
  /\ \A i, j \in 1..Len(backlog) :
       backlog[i].host \in Settled /\ backlog[i].host = backlog[j].host => i = j

(* A host that is settled was settled before.                              *)
LEMMA SettledStays ==
  ASSUME [Next]_vars
  PROVE  /\ Settled' \subseteq Settled
         /\ (\A h \in Hosts : ~Connect(h)) => early' = early
<1>1. ASSUME NEW h \in Hosts, Connect(h) PROVE Settled' \subseteq Settled
  BY <1>1 DEF Connect, Settled
<1>2. CASE \A h \in Hosts : ~Connect(h)
  <2>1. ASSUME EpollThread PROVE early' = early
    BY <2>1 DEF EpollThread, SafeChangeEvents, epoll_pwait, EventsEnd, ListenEvent,
       WakeupEvent, ReadEvent, Accept, AcceptEnds, AcceptFails, Watch, AddTcpConnection,
       SetSockfd2InetAddr, ClearThreadPool, CloseAll, peerVars
  <2>2. ASSUME Stop \/ Environment \/ UNCHANGED vars PROVE early' = early
    BY <1>2, <2>2 DEF Stop, Environment, PeerActs, PeerActsEarly, peerVars, vars
  <2>3. ASSUME NEW w \in Workers, Worker(w) PROVE early' = early
    BY <2>3 DEF Worker, Fetch, Quit, getPeerAddr, FindInetAddr, GiveUp, Read, ReadEnds,
       MessageRecv, Unwatch, CloseClient, RemoveSockfd2InetAddr, RemovTcpConnection, peerVars
  <2>4. early' = early
    BY <2>1, <2>2, <2>3 DEF Next
  <2> QED BY <2>4 DEF Settled
<1> QED BY <1>1, <1>2

LEMMA OnceKept ==
  ASSUME Once, early' = early,
         \A f \in OpenFds' : f \in OpenFds /\ sock'[f].host = sock[f].host,
         \A i \in 1..Len(backlog') : i \in 1..Len(backlog) /\ backlog'[i].host = backlog[i].host,
         \A w \in Workers : Ending(w)' => Ending(w) /\ szPeerAddr'[w] = szPeerAddr[w]
  PROVE  Once'
<1>1. Settled' = Settled
  BY DEF Settled
<1> QED BY <1>1 DEF Once

LEMMA OnceStep ==
  ASSUME TypeInv, Flow, Once, [Next]_vars
  PROVE  Once'
<1>1. \A w \in Workers : ~CloseClient(w) /\ Ending(w)' =>
        Ending(w) /\ szPeerAddr'[w] = szPeerAddr[w]
  BY EndingStays
<1>2. CASE Accept
  <2>1. PICK k \in Fds \ OpenFds :
          /\ sock'[k] = backlog[1] /\ sock'[k] # Closed
          /\ \A f \in Fds : f # k => sock'[f] = sock[f]
    BY <1>2, WhatOpens
  <2>2. /\ early' = early /\ UNCHANGED recvVars /\ 1 \in 1..Len(backlog)
        /\ \A i \in 1..Len(backlog') :
             i \in Nat /\ i + 1 \in 1..Len(backlog) /\ i + 1 # 1 /\ backlog'[i] = backlog[i + 1]
    BY <1>2, WhatOpens
  <2>3. \A f \in OpenFds' : f = k \/ (f \in OpenFds /\ sock'[f] = sock[f])
    BY <2>1 DEF OpenFds
  <2>4. Settled' = Settled
    BY <2>2 DEF Settled
  <2>5. \A w \in Workers : (Ending(w)' <=> Ending(w)) /\ szPeerAddr'[w] = szPeerAddr[w]
    BY <2>2 DEF Ending, recvVars
  <2>7. \A w \in Workers : Ending(w)' /\ szPeerAddr'[w] \in Settled' =>
          /\ \A f \in OpenFds' : sock'[f].host # szPeerAddr'[w]
          /\ \A i \in 1..Len(backlog') : backlog'[i].host # szPeerAddr'[w]
    BY <2>1, <2>2, <2>3, <2>4, <2>5 DEF Once
  <2>8. /\ \A f, g \in OpenFds' :
             sock'[f].host \in Settled' /\ sock'[f].host = sock'[g].host => f = g
        /\ \A f \in OpenFds', i \in 1..Len(backlog') :
             sock'[f].host \in Settled' => sock'[f].host # backlog'[i].host
    <3>1. \A f \in OpenFds : sock[f].host \in Settled => sock[f].host # backlog[1].host
      BY <2>2 DEF Once
    <3>2. \A f, g \in OpenFds' :
            sock'[f].host \in Settled' /\ sock'[f].host = sock'[g].host => f = g
      BY <2>1, <2>3, <2>4, <3>1 DEF Once
    <3>3. \A i \in 1..Len(backlog') :
            backlog[1].host \in Settled => backlog'[i].host # backlog[1].host
      BY <2>2 DEF Once
    <3>4. ASSUME NEW f \in OpenFds', sock'[f].host \in Settled', NEW i \in 1..Len(backlog')
          PROVE  sock'[f].host # backlog'[i].host
      <4>1. CASE f = k
        BY <2>1, <2>4, <3>3, <3>4, <4>1
      <4>2. CASE f # k
        BY <2>2, <2>3, <2>4, <3>4, <4>2 DEF Once
      <4> QED BY <4>1, <4>2
    <3> QED BY <3>2, <3>4
  <2>9. \A i, j \in 1..Len(backlog') :
          backlog'[i].host \in Settled' /\ backlog'[i].host = backlog'[j].host => i = j
    <3> TAKE i, j \in 1..Len(backlog')
    <3>1. backlog'[i].host \in Settled /\ backlog'[i].host = backlog'[j].host => i + 1 = j + 1
      BY <2>2 DEF Once
    <3> QED BY <2>2, <2>4, <3>1
  <2> QED BY <2>7, <2>8, <2>9 DEF Once
<1>3. CASE CloseAll
  <2>1. /\ \A f \in OpenFds' : f \in OpenFds /\ sock'[f] = sock[f]
        /\ backlog' = <<>> /\ UNCHANGED <<early, recvVars>>
    BY <1>3 DEF CloseAll, Close, OpenFds
  <2>2. \A w \in Workers : Ending(w)' => Ending(w) /\ szPeerAddr'[w] = szPeerAddr[w]
    BY <2>1 DEF Ending, recvVars
  <2> QED BY <2>1, <2>2, OnceKept
<1>4. ASSUME NEW h \in Hosts, Connect(h) PROVE Once'
  <2>1. /\ early' = early \cup {k \in {h} : Lingers(k)}
        /\ UNCHANGED <<sock, recvVars>>
        /\ backlog' = Append(backlog, [host |-> h, unread |-> <<>>, end |-> "open"])
        /\ backlog \in Seq(Peer)
        /\ \A i \in 1..Len(backlog) : backlog[i].host # h
    BY <1>4 DEF Connect, TypeInv, TypeOK, PeerTypes
  <2>2. /\ Settled' \subseteq Settled
        /\ h \in Settled' => /\ \A f \in OpenFds : sock[f].host # h
                             /\ \A w \in Workers : Ending(w) => szPeerAddr[w] # h
    BY <2>1 DEF Settled, Lingers, Ending
  <2>3. \A i \in 1..Len(backlog') :
          \/ i \in 1..Len(backlog) /\ backlog'[i] = backlog[i]
          \/ i = Len(backlog) + 1 /\ backlog'[i].host = h
    BY <2>1
  <2>4. OpenFds' = OpenFds
    BY <2>1 DEF OpenFds
  <2>5. \A w \in Workers : (Ending(w)' <=> Ending(w)) /\ szPeerAddr'[w] = szPeerAddr[w]
    BY <2>1 DEF Ending, recvVars
  <2>7. ASSUME NEW w \in Workers, Ending(w)', szPeerAddr'[w] \in Settled'
        PROVE  /\ \A f \in OpenFds' : sock'[f].host # szPeerAddr'[w]
               /\ \A i \in 1..Len(backlog') : backlog'[i].host # szPeerAddr'[w]
    <3>1. szPeerAddr[w] \in Settled /\ szPeerAddr[w] # h
      BY <2>2, <2>5, <2>7
    <3>2. /\ \A f \in OpenFds : sock[f].host # szPeerAddr[w]
          /\ \A i \in 1..Len(backlog) : backlog[i].host # szPeerAddr[w]
      BY <2>5, <2>7, <3>1 DEF Once
    <3> QED BY <2>1, <2>3, <2>4, <2>5, <3>1, <3>2
  <2>8. /\ \A f, g \in OpenFds' :
             sock'[f].host \in Settled' /\ sock'[f].host = sock'[g].host => f = g
        /\ \A f \in OpenFds', i \in 1..Len(backlog') :
             sock'[f].host \in Settled' => sock'[f].host # backlog'[i].host
    <3>1. \A f \in OpenFds : sock[f].host \in Settled' => sock[f].host \in Settled /\ sock[f].host # h
      BY <2>2
    <3>2. \A f, g \in OpenFds : sock[f].host \in Settled' /\ sock[f].host = sock[g].host => f = g
      BY <3>1 DEF Once
    <3>3. \A f \in OpenFds, i \in 1..Len(backlog') :
            sock[f].host \in Settled' => sock[f].host # backlog'[i].host
      BY <2>3, <3>1 DEF Once
    <3> QED BY <2>1, <2>4, <3>2, <3>3
  <2>9. ASSUME NEW i \in 1..Len(backlog'), NEW j \in 1..Len(backlog'),
               backlog'[i].host \in Settled', backlog'[i].host = backlog'[j].host
        PROVE  i = j
    <3>1. \A k \in 1..Len(backlog) :
            backlog[k].host \in Settled' => backlog[k].host \in Settled /\ backlog[k].host # h
      BY <2>1, <2>2
    <3>2. CASE i \in 1..Len(backlog) /\ backlog'[i] = backlog[i]
      <4>1. backlog[i].host \in Settled /\ backlog[i].host # h
        BY <2>9, <3>1, <3>2
      <4>2. j \in 1..Len(backlog) /\ backlog'[j] = backlog[j]
        BY <2>3, <2>9, <3>2, <4>1
      <4> QED BY <2>9, <3>2, <4>1, <4>2 DEF Once
    <3>3. CASE i = Len(backlog) + 1 /\ backlog'[i].host = h
      <4>1. ~(j \in 1..Len(backlog) /\ backlog'[j] = backlog[j])
        BY <2>9, <3>1, <3>3
      <4> QED BY <2>3, <3>3, <4>1
    <3> QED BY <2>3, <3>2, <3>3
  <2> QED BY <2>7, <2>8, <2>9 DEF Once
<1>5. ASSUME NEW w \in Workers, CloseClient(w) PROVE Once'
  <2>1. /\ fd[w] \in Fds /\ sock[fd[w]] # Closed /\ szPeerAddr[w] = sock[fd[w]].host
        /\ sock' = [f \in Fds |-> IF f = fd[w] THEN Closed ELSE sock[f]]
        /\ UNCHANGED <<backlog, early, szPeerAddr>>
        /\ \A v \in Workers \ {w} : wpc'[v] = wpc[v]
    BY <1>5, WhatCloses
  <2>2. /\ \A f \in OpenFds' : f \in OpenFds /\ f # fd[w] /\ sock'[f] = sock[f]
        /\ fd[w] \in OpenFds
    BY <2>1 DEF OpenFds
  <2>3. Settled' = Settled /\ backlog' = backlog
    BY <2>1 DEF Settled
  <2>4. \A v \in Workers : Ending(v)' => v = w \/ Ending(v)
    BY <2>1 DEF Ending
  <2>5. \A f, g \in OpenFds' :
          sock'[f].host \in Settled' /\ sock'[f].host = sock'[g].host => f = g
    BY <2>2, <2>3 DEF Once
  <2>6. \A f \in OpenFds', i \in 1..Len(backlog') :
          sock'[f].host \in Settled' => sock'[f].host # backlog'[i].host
    BY <2>2, <2>3 DEF Once
  <2>7. \A i, j \in 1..Len(backlog') :
          backlog'[i].host \in Settled' /\ backlog'[i].host = backlog'[j].host => i = j
    BY <2>3 DEF Once
  <2>8. ASSUME NEW v \in Workers, Ending(v)', szPeerAddr'[v] \in Settled'
        PROVE  /\ \A f \in OpenFds' : sock'[f].host # szPeerAddr'[v]
               /\ \A i \in 1..Len(backlog') : backlog'[i].host # szPeerAddr'[v]
    <3>1. CASE v = w
      <4>1. szPeerAddr'[v] = szPeerAddr[w] /\ szPeerAddr[w] \in Settled
        BY <2>1, <2>3, <2>8, <3>1
      <4>2. \A f \in OpenFds' : sock'[f].host # szPeerAddr[w]
        <5>1. sock[fd[w]].host \in Settled /\ szPeerAddr[w] = sock[fd[w]].host
          BY <2>1, <4>1
        <5>2. \A f \in OpenFds : sock[fd[w]].host = sock[f].host => fd[w] = f
          BY <2>2, <5>1 DEF Once
        <5> QED BY <2>2, <5>1, <5>2
      <4>3. \A i \in 1..Len(backlog') : backlog'[i].host # szPeerAddr[w]
        BY <2>1, <2>2, <2>3, <4>1 DEF Once
      <4> QED BY <4>1, <4>2, <4>3
    <3>2. CASE Ending(v)
      <4>1. szPeerAddr'[v] = szPeerAddr[v] /\ szPeerAddr[v] \in Settled
        BY <2>1, <2>3, <2>8
      <4>2. \A f \in OpenFds' : sock'[f].host # szPeerAddr[v]
        BY <2>2, <3>2, <4>1 DEF Once
      <4>3. \A i \in 1..Len(backlog') : backlog'[i].host # szPeerAddr[v]
        BY <2>3, <3>2, <4>1 DEF Once
      <4> QED BY <4>1, <4>2, <4>3
    <3> QED BY <2>4, <2>8, <3>1, <3>2
  <2> QED BY <2>5, <2>6, <2>7, <2>8 DEF Once
<1>6. CASE /\ ~Accept /\ ~AcceptFails /\ ~CloseAll /\ \A h \in Hosts : ~Connect(h)
           /\ \A w \in Workers : ~CloseClient(w)
  <2>1. SameHosts
    BY <1>6, HostsStay
  <2>2. early' = early
    BY <1>6, SettledStays
  <2>3. /\ \A f \in OpenFds' : f \in OpenFds /\ sock'[f].host = sock[f].host
        /\ \A i \in 1..Len(backlog') : i \in 1..Len(backlog) /\ backlog'[i].host = backlog[i].host
    BY <2>1 DEF SameHosts, OpenFds
  <2> QED BY <1>1, <1>6, <2>2, <2>3, OnceKept
<1>7. CASE AcceptFails
  <2>1. UNCHANGED <<early, sock, recvVars>>
    BY <1>7, WhatFails
  <2>2. /\ Settled' = Settled /\ OpenFds' = OpenFds
        /\ \A w \in Workers : (Ending(w)' <=> Ending(w)) /\ szPeerAddr'[w] = szPeerAddr[w]
    BY <2>1 DEF Settled, OpenFds, Ending, recvVars
  <2>3. PICK n \in {0, 1} : \A i \in 1..Len(backlog') :
          i \in Nat /\ i + n \in 1..Len(backlog) /\ backlog'[i] = backlog[i + n]
    BY <1>7, WhatFails
  <2>4. \A w \in Workers : Ending(w)' /\ szPeerAddr'[w] \in Settled' =>
          /\ \A f \in OpenFds' : sock'[f].host # szPeerAddr'[w]
          /\ \A i \in 1..Len(backlog') : backlog'[i].host # szPeerAddr'[w]
    BY <2>1, <2>2, <2>3 DEF Once
  <2>5. /\ \A f, g \in OpenFds' :
             sock'[f].host \in Settled' /\ sock'[f].host = sock'[g].host => f = g
        /\ \A f \in OpenFds', i \in 1..Len(backlog') :
             sock'[f].host \in Settled' => sock'[f].host # backlog'[i].host
    BY <2>1, <2>2, <2>3 DEF Once
  <2>6. \A i, j \in 1..Len(backlog') :
          backlog'[i].host \in Settled' /\ backlog'[i].host = backlog'[j].host => i = j
    <3> TAKE i, j \in 1..Len(backlog')
    <3>1. backlog'[i].host \in Settled /\ backlog'[i].host = backlog'[j].host => i + n = j + n
      BY <2>3 DEF Once
    <3> QED BY <2>2, <2>3, <3>1
  <2> QED BY <2>4, <2>5, <2>6 DEF Once
<1> QED BY <1>2, <1>3, <1>4, <1>5, <1>6, <1>7

(* Then the open connection of a settled host is listed but for the moment *)
(* between its accept and its listing, and a stop, which closes what is    *)
(* listed, closes it, whatever other hosts do: a host can only lose its    *)
(* own entry, by connecting again before a worker has removed it.          *)
OnceIsListed ==
  \A f \in OpenFds : sock[f].host \in Settled =>
    \/ tcpConnection[sock[f].host] = f
    \/ ep \in {"add", "connection"} /\ clientfd = f

StopClosesOnce ==
  ep = "done" => \A f \in OpenFds : sock[f].host \notin Settled

LEMMA WhereEpollIs ==
  ASSUME [Next]_vars, ~Accept, ~AddTcpConnection, ~CloseAll
  PROVE  /\ ep \in {"add", "connection"} => ep' \in {"add", "connection"}
         /\ ep' = "done" => ep = "done"
         /\ clientfd' = clientfd
<1>1. CASE EpollThread
  BY <1>1 DEF EpollThread, SafeChangeEvents, epoll_pwait, EventsEnd, ListenEvent, WakeupEvent,
     ReadEvent, AcceptEnds, AcceptFails, Watch, SetSockfd2InetAddr, ClearThreadPool, At, epollVars, accepting
<1>2. CASE Stop \/ Environment \/ UNCHANGED vars
  BY <1>2 DEF Stop, Environment, Connect, PeerActs, PeerActsEarly, vars, epollVars, accepting
<1>3. ASSUME NEW w \in Workers, Worker(w) PROVE ep' = ep /\ clientfd' = clientfd
  BY <1>3 DEF Worker, Fetch, Quit, getPeerAddr, FindInetAddr, GiveUp, Read, ReadEnds,
     MessageRecv, Unwatch, CloseClient, RemoveSockfd2InetAddr, RemovTcpConnection,
     epollVars, accepting
<1> QED BY <1>1, <1>2, <1>3 DEF Next

LEMMA OnceListedStep ==
  ASSUME TypeInv, Flow, Once, OnceIsListed, StopClosesOnce, [Next]_vars
  PROVE  OnceIsListed' /\ StopClosesOnce'
<1>1. /\ tcpConnection \in [Hosts -> Fds \cup {None}]
      /\ \A f \in OpenFds : sock[f].host \in Hosts
  BY PeerFields DEF TypeInv, TypeOK, TableTypes, KernelTypes, OpenFds
<1>2. Settled' \subseteq Settled
  BY SettledStays
<1>3. CASE Accept
  <2>1. PICK k \in Fds \ OpenFds :
          /\ k = clientfd' /\ \A f \in Fds : f # k => sock'[f] = sock[f]
    BY <1>3, WhatOpens
  <2>2. ep = "accept" /\ ep' = "add" /\ tcpConnection' = tcpConnection
    BY <1>3, WhatOpens
  <2> QED BY <1>2, <2>1, <2>2 DEF OnceIsListed, StopClosesOnce, OpenFds
<1>4. CASE CloseAll
  <2>1. /\ ep = "clean"
        /\ sock' = [f \in Fds |-> IF f \in {Listen} \cup {tcpConnection[h] : h \in Hosts}
                                  THEN Closed ELSE sock[f]]
    BY <1>4 DEF CloseAll, At, Close
  <2>2. \A f \in OpenFds : sock[f].host \in Settled => f \in {tcpConnection[h] : h \in Hosts}
    BY <1>1, <2>1 DEF OnceIsListed
  <2>3. \A f \in OpenFds' : sock'[f].host \notin Settled
    BY <2>1, <2>2 DEF OpenFds
  <2> QED BY <1>2, <2>3 DEF OnceIsListed, StopClosesOnce
<1>5. CASE AddTcpConnection
  <2>1. /\ tcpConnection' = [tcpConnection EXCEPT ![szIpAndPort] = clientfd]
        /\ Has(clientfd, szIpAndPort) /\ sock' = sock /\ ep' = "inetaddr"
        /\ clientfd \in Fds /\ szIpAndPort \in Hosts
    BY <1>5 DEF AddTcpConnection, At, Flow, TakingOK, Taking, kernelVars, TypeInv, PlacesOK
  <2>2. \A f \in OpenFds :
          sock[f].host \in Settled /\ f # clientfd => sock[f].host # szIpAndPort
    BY <2>1 DEF Once, Has, OpenFds
  <2>3. \A f \in OpenFds : sock[f].host \in Settled => tcpConnection'[sock[f].host] = f
    BY <1>1, <2>1, <2>2 DEF OnceIsListed, Has
  <2> QED BY <1>2, <2>1, <2>3 DEF OnceIsListed, StopClosesOnce, OpenFds
<1>6. CASE ~Accept /\ ~CloseAll /\ ~AddTcpConnection
  <2>1. /\ ep \in {"add", "connection"} => ep' \in {"add", "connection"}
        /\ ep' = "done" => ep = "done"
        /\ clientfd' = clientfd
    BY <1>6, WhereEpollIs
  <2>2. \A f \in OpenFds' : f \in OpenFds /\ sock'[f].host = sock[f].host
    <3>1. ASSUME NEW h \in Hosts, Connect(h) PROVE sock' = sock
      BY <3>1 DEF Connect
    <3>2. ASSUME NEW w \in Workers, CloseClient(w)
          PROVE  \A f \in OpenFds' : f \in OpenFds /\ sock'[f].host = sock[f].host
      BY <3>2, WhatCloses DEF OpenFds
    <3>3. ASSUME AcceptFails PROVE sock' = sock
      BY <3>3 DEF AcceptFails, kernelVars
    <3>4. CASE /\ ~AcceptFails /\ \A h \in Hosts : ~Connect(h)
               /\ \A w \in Workers : ~CloseClient(w)
      <4>1. SameHosts
        BY <1>6, <3>4, HostsStay
      <4> QED BY <4>1 DEF SameHosts, OpenFds
    <3> QED BY <3>1, <3>2, <3>3, <3>4 DEF OpenFds
  <2>3. \A f \in OpenFds' : sock[f].host \in Settled =>
          tcpConnection'[sock[f].host] = tcpConnection[sock[f].host]
    <3>1. ASSUME NEW w \in Workers, RemovTcpConnection(w), NEW f \in OpenFds,
                 sock[f].host \in Settled
          PROVE  tcpConnection'[sock[f].host] = tcpConnection[sock[f].host]
      <4>1. /\ tcpConnection' = [tcpConnection EXCEPT ![szPeerAddr[w]] = None]
            /\ Ending(w)
        BY <3>1 DEF RemovTcpConnection, Leaves, Move, Ending
      <4>2. sock[f].host # szPeerAddr[w]
        BY <3>1, <4>1 DEF Once
      <4> QED BY <1>1, <4>1, <4>2
    <3>2. CASE \A w \in Workers : ~RemovTcpConnection(w)
      BY <1>6, <3>2, WhoLists
    <3> QED BY <2>2, <3>1, <3>2
  <2> QED BY <1>2, <2>1, <2>2, <2>3 DEF OnceIsListed, StopClosesOnce
<1> QED BY <1>3, <1>4, <1>5, <1>6

LEMMA OnceAlways ==
  ASSUME ~Ahead
  PROVE  Spec => [](Once /\ OnceIsListed /\ StopClosesOnce)
<1>1. Init => Once /\ OnceIsListed /\ StopClosesOnce
  BY DEF Init, Once, OnceIsListed, StopClosesOnce, OpenFds, Ending
<1>2. TypeInv /\ Flow /\ Once /\ [Next]_vars => Once'
  BY OnceStep
<1>3. TypeInv /\ Flow /\ Once /\ OnceIsListed /\ StopClosesOnce /\ [Next]_vars
        => OnceIsListed' /\ StopClosesOnce'
  BY OnceListedStep
<1>4. Spec => [](TypeInv /\ Flow)
  BY FlowAlways
<1> QED BY <1>1, <1>2, <1>3, <1>4, PTL DEF Spec

(* m_TcpConnection and the open descriptors describe the same connections, *)
(* whichever of the workers and the epoll thread is between its updates of *)
(* the two and however hosts come back and descriptors are reused: a host  *)
(* that comes back too early loses its own entry and no other host's       *)
(* (TcpService.cpp:166, 301).                                              *)
THEOREM TablesAgreeCorrect ==
  ASSUME ~Ahead
  PROVE  Spec => []TablesAgree
<1>1. TypeInv /\ OnceIsListed => LiveIsListed
  <2>1. TypeInv => \A f \in OpenFds : sock[f].host \in Hosts
    BY PeerFields DEF TypeInv, TypeOK, KernelTypes, OpenFds
  <2> QED BY <2>1 DEF OnceIsListed, LiveIsListed, Settled
<1> QED BY <1>1, OnceAlways, ListedAlways, TypesAlways, PTL DEF TablesAgree

(* A stop leaves no task queued, and open only the connections of hosts    *)
(* that came back before their last one was forgotten (TcpService.cpp:240).*)
THEOREM StopClosesListedCorrect ==
  ASSUME ~Ahead
  PROVE  Spec => []StopClosesListed
<1>1. TypeInv /\ StopClosesOnce => StopClosesListed
  <2>1. TypeInv => \A f \in OpenFds : sock[f].host \in Hosts
    BY PeerFields DEF TypeInv, TypeOK, KernelTypes, OpenFds
  <2>2. TypeInv /\ ep = "done" => \A w \in Workers : tasks[w] = <<>>
    BY DEF TypeInv, PlacesOK
  <2> QED BY <2>1, <2>2 DEF StopClosesOnce, StopClosesListed, Settled
<1> QED BY <1>1, OnceAlways, TypesAlways, PTL

-----------------------------------------------------------------------------
(***************************************************************************)
(* 6. The streams.                                                         *)
(***************************************************************************)
OpenAt(f, h)     == f \in OpenFds /\ sock[f].host = h /\ sock[f].end = "open"
OpenWaits(i, h)  == backlog[i].host = h /\ backlog[i].end = "open"

LEMMA LiveAre ==
  ASSUME NEW h \in Hosts
  PROVE  /\ h \in LivePeers <=> \/ \E f \in Fds : OpenAt(f, h)
                                \/ \E i \in 1..Len(backlog) : OpenWaits(i, h)
         /\ h \in LivePeers' <=> \/ \E f \in Fds : OpenAt(f, h)'
                                 \/ \E i \in 1..Len(backlog') : OpenWaits(i, h)'
<1>1. h \in LivePeers <=> \/ \E f \in Fds : OpenAt(f, h)
                          \/ \E i \in 1..Len(backlog) : OpenWaits(i, h)
  BY DEF LivePeers, OpenAt, OpenWaits, OpenFds
<1>2. h \in LivePeers' <=> \/ \E f \in Fds : OpenAt(f, h)'
                           \/ \E i \in 1..Len(backlog') : OpenWaits(i, h)'
  BY DEF LivePeers, OpenAt, OpenWaits, OpenFds
<1> QED BY <1>1, <1>2

LEMMA SameLive ==
  ASSUME \A h \in Hosts : h \in LivePeers' <=> h \in LivePeers
  PROVE  LivePeers' = LivePeers
<1>1. LivePeers \subseteq Hosts /\ LivePeers' \subseteq Hosts
  BY DEF LivePeers
<1> QED BY <1>1

(* The steps that leave every connection as it is, or change only one that *)
(* its peer has ended.                                                     *)
LEMMA PeersStay ==
  ASSUME backlog' = backlog,
         \A f \in Fds, h \in Hosts : OpenAt(f, h)' <=> OpenAt(f, h)
  PROVE  LivePeers' = LivePeers
<1>1. \A i, h : OpenWaits(i, h)' <=> OpenWaits(i, h)
  BY DEF OpenWaits
<1>2. \A h \in Hosts : h \in LivePeers' <=> h \in LivePeers
  BY <1>1, LiveAre
<1> QED BY <1>2, SameLive

(* What the epoll thread does is not seen, but for its last step.          *)
LEMMA EpollRefines ==
  ASSUME TypeInv, EpollThread
  PROVE  [Stream!Next]_Stream!vars
<1>1. CASE Accept
  <2>1. /\ ep = "accept" /\ ep' = "add"
        /\ 1 \in 1..Len(backlog)
        /\ \A i \in 1..Len(backlog') :
             i \in Nat /\ i + 1 \in 1..Len(backlog) /\ i + 1 # 1 /\ backlog'[i] = backlog[i + 1]
    BY <1>1, WhatOpens
  <2>2. PICK k \in Fds \ OpenFds :
          /\ k = clientfd' /\ sock'[k] = backlog[1] /\ sock'[k] # Closed
          /\ \A f \in Fds : f # k => sock'[f] = sock[f]
    BY <1>1, WhatOpens
  <2>3. \A f \in Fds : f # k => \A h : OpenAt(f, h)' <=> OpenAt(f, h)
    BY <2>2 DEF OpenAt, OpenFds
  <2>4. \A h : ~OpenAt(k, h) /\ (OpenAt(k, h)' <=> OpenWaits(1, h))
    BY <2>2 DEF OpenAt, OpenWaits, OpenFds
  <2>5. \A i \in 1..Len(backlog') : \A h : OpenWaits(i, h)' <=> OpenWaits(i + 1, h)
    BY <2>1 DEF OpenWaits
  <2>6. \A j \in 1..Len(backlog) : j # 1 => \E i \in 1..Len(backlog') : j = i + 1
    <3>1. backlog \in Seq(Peer) /\ backlog # <<>> /\ backlog' = Tail(backlog)
      BY <1>1 DEF Accept, TypeInv, TypeOK, PeerTypes
    <3>2. Len(backlog') = Len(backlog) - 1 /\ Len(backlog) \in Nat
      BY <3>1
    <3>3. ASSUME NEW j \in 1..Len(backlog), j # 1
          PROVE  j - 1 \in 1..Len(backlog') /\ j = (j - 1) + 1
      BY <3>2, <3>3
    <3> QED BY <3>3
  <2>7. ASSUME NEW h \in Hosts PROVE h \in LivePeers' <=> h \in LivePeers
    <3>1. h \in LivePeers => h \in LivePeers'
      <4>1. ASSUME NEW f \in Fds, OpenAt(f, h) PROVE h \in LivePeers'
        BY <2>3, <2>4, <4>1, LiveAre
      <4>2. ASSUME NEW j \in 1..Len(backlog), OpenWaits(j, h) PROVE h \in LivePeers'
        <5>1. CASE j = 1
          BY <2>4, <4>2, <5>1, LiveAre
        <5>2. CASE j # 1
          BY <2>5, <2>6, <4>2, <5>2, LiveAre
        <5> QED BY <5>1, <5>2
      <4> QED BY <4>1, <4>2, LiveAre
    <3>2. h \in LivePeers' => h \in LivePeers
      <4>1. ASSUME NEW f \in Fds, OpenAt(f, h)' PROVE h \in LivePeers
        BY <2>1, <2>3, <2>4, <4>1, LiveAre
      <4>2. ASSUME NEW i \in 1..Len(backlog'), OpenWaits(i, h)' PROVE h \in LivePeers
        BY <2>1, <2>5, <4>2, LiveAre
      <4> QED BY <4>1, <4>2, LiveAre
    <3> QED BY <3>1, <3>2
  <2>8. UNCHANGED <<sent, received>>
    BY <1>1 DEF Accept
  <2> QED BY <2>1, <2>7, <2>8, SameLive DEF Stream!vars
<1>2. CASE CloseAll
  <2>1. /\ ep = "clean" /\ ep' = "done" /\ backlog' = <<>> /\ UNCHANGED <<sent, received>>
        /\ \A f \in Fds : sock'[f] = Closed \/ sock'[f] = sock[f]
    BY <1>2 DEF CloseAll, At, Close
  <2>2. LivePeers' \subseteq LivePeers
    BY <2>1 DEF LivePeers, OpenFds
  <2>3. Stream!Stop
    BY <2>1, <2>2 DEF Stream!Stop
  <2> QED BY <2>3 DEF Stream!Next
<1>3. CASE AcceptFails
  <2>1. /\ ep = "accept" /\ ep' = "events" /\ UNCHANGED <<sock, sent, received>>
    BY <1>3, WhatFails
  <2>2. PICK n \in {0, 1} :
          /\ \A i \in 1..Len(backlog') :
               i \in Nat /\ i + n \in 1..Len(backlog) /\ backlog'[i] = backlog[i + n]
          /\ \A i \in 1..Len(backlog) :
               \/ backlog[i].end = "rst"
               \/ i - n \in 1..Len(backlog') /\ backlog'[i - n] = backlog[i]
    BY <1>3, WhatFails
  <2>3. \A f \in Fds : \A h : OpenAt(f, h)' <=> OpenAt(f, h)
    BY <2>1 DEF OpenAt, OpenFds
  <2>4. ASSUME NEW h \in Hosts PROVE h \in LivePeers' <=> h \in LivePeers
    <3>1. ASSUME NEW i \in 1..Len(backlog), OpenWaits(i, h) PROVE h \in LivePeers'
      <4>1. i - n \in 1..Len(backlog') /\ OpenWaits(i - n, h)'
        BY <2>2, <3>1 DEF OpenWaits
      <4> QED BY <4>1, LiveAre
    <3>2. ASSUME NEW i \in 1..Len(backlog'), OpenWaits(i, h)' PROVE h \in LivePeers
      <4>1. i + n \in 1..Len(backlog) /\ OpenWaits(i + n, h)
        BY <2>2, <3>2 DEF OpenWaits
      <4> QED BY <4>1, LiveAre
    <3> QED BY <2>3, <3>1, <3>2, LiveAre
  <2> QED BY <2>1, <2>4, SameLive DEF Stream!vars
<1>4. CASE ~(Accept \/ CloseAll \/ AcceptFails)
  <2>1. UNCHANGED <<sock, backlog, sent, received>> /\ ep # "done" /\ ep' # "done"
    BY <1>4, EpollThread DEF EpollThread, SafeChangeEvents, epoll_pwait, EventsEnd, ListenEvent,
       WakeupEvent, ReadEvent, AcceptEnds, Watch, AddTcpConnection, SetSockfd2InetAddr,
       ClearThreadPool, kernelVars, peerVars, epollVars, At
  <2>2. LivePeers' = LivePeers
    BY <2>1 DEF LivePeers, OpenFds
  <2> QED BY <2>1, <2>2 DEF Stream!vars
<1> QED BY <1>1, <1>2, <1>3, <1>4

(* A new connection is of a host that has none.                            *)
LEMMA ConnectRefines ==
  ASSUME TypeInv, NEW h \in Hosts, Connect(h)
  PROVE  Stream!Connect(h)
<1>1. /\ ep # "done" /\ ep' = ep /\ sock' = sock /\ UNCHANGED <<sent, received>>
      /\ \A f \in OpenFds : sock[f].host = h => sock[f].end = "rst"
      /\ \A i \in 1..Len(backlog) : backlog[i].host # h
      /\ backlog' = Append(backlog, [host |-> h, unread |-> <<>>, end |-> "open"])
  BY DEF Connect, epollVars
<1>2. h \notin LivePeers
  BY <1>1 DEF LivePeers
<1>3. \A f \in Fds, g \in Hosts : OpenAt(f, g)' <=> OpenAt(f, g)
  BY <1>1 DEF OpenAt, OpenFds
<1>4. /\ Len(backlog) \in Nat /\ Len(backlog') = Len(backlog) + 1
      /\ \A i \in 1..Len(backlog) : backlog'[i] = backlog[i]
      /\ backlog'[Len(backlog) + 1] = [host |-> h, unread |-> <<>>, end |-> "open"]
  BY <1>1 DEF TypeInv, TypeOK, PeerTypes
<1>5. \A i \in 1..Len(backlog), g \in Hosts : OpenWaits(i, g)' <=> OpenWaits(i, g)
  BY <1>4 DEF OpenWaits
<1> PICK n \in Nat : n = Len(backlog) + 1
  BY <1>4
<1>6. \A g \in Hosts : OpenWaits(n, g)' <=> g = h
  BY <1>4 DEF OpenWaits
<1>7. \A g \in Hosts : g \in LivePeers' <=> g \in LivePeers \/ g = h
  <2> TAKE g \in Hosts
  <2>1. \A i \in 1..Len(backlog') : i \in 1..Len(backlog) \/ i = n
    BY <1>4
  <2>2. \A i \in 1..Len(backlog) : i \in 1..Len(backlog')
    BY <1>4
  <2>3. n \in 1..Len(backlog')
    BY <1>4
  <2>4. g \in LivePeers \/ g = h => g \in LivePeers'
    BY <1>3, <1>5, <1>6, <2>2, <2>3, LiveAre
  <2>5. ASSUME NEW i \in 1..Len(backlog'), OpenWaits(i, g)' PROVE g \in LivePeers \/ g = h
    <3>1. CASE i \in 1..Len(backlog)
      BY <1>5, <2>5, <3>1, LiveAre
    <3>2. CASE i = n
      BY <1>6, <2>5, <3>2
    <3> QED BY <2>1, <3>1, <3>2
  <2> QED BY <1>3, <2>4, <2>5, LiveAre
<1>8. LivePeers' = LivePeers \cup {h}
  BY <1>7 DEF LivePeers
<1> QED BY <1>1, <1>2, <1>8 DEF Stream!Connect

(* A peer that waits has its turn when it acts.                            *)
LEMMA PeerActsRefines ==
  ASSUME DataInv, ~Ahead, NEW f \in Fds, PeerActs(f)
  PROVE  Stream!Send(sock[f].host) \/ Stream!Leave(sock[f].host)
<1> USE DEF DataInv
<1>1. PICK d \in Acted(sock[f]) : sock' = [sock EXCEPT ![f] = d] /\ Count(sock[f], d)
  BY DEF PeerActs
<1>2. /\ \A w \in Workers : ~InHand(w, f)
      /\ ~Readable(f) /\ sock[f] # Closed /\ sock[f].end = "open"
      /\ ep' = ep /\ UNCHANGED <<backlog, received>>
  BY DEF PeerActs, Pending, InHand, epollVars
<1>3. sock[f] \in Peer /\ sock[f].unread = <<>>
  BY <1>2, Descriptors DEF Readable, HasData, TypeInv, TypeOK, KernelTypes
<1> DEFINE h == sock[f].host
<1>4. h \in Hosts /\ OpenAt(f, h) /\ h \in LivePeers
  BY <1>2, <1>3, PeerFields, LiveAre DEF OpenAt, OpenFds
<1>5. Stream!HasTurn(h)
  <2>1. ~UnderWay(h)
    BY <1>2, <1>3, NothingAtIdle DEF OpenFds
  <2> QED BY <1>4, <2>1 DEF DataOK, Carried, Stream!HasTurn
<1>6. d \in Peer /\ d.host = h /\ d # Closed
  BY <1>2, <1>3, WaitingPeerActs, Descriptors
<1>7. sock'[f] = d /\ \A g \in Fds : g # f => sock'[g] = sock[g]
  BY <1>1 DEF TypeInv, TypeOK, KernelTypes
<1>8. \A g \in Fds : g # f => \A k : OpenAt(g, k)' <=> OpenAt(g, k)
  BY <1>7 DEF OpenAt, OpenFds
<1>9. \A k : OpenAt(f, k)' <=> k = h /\ d.end = "open"
  BY <1>6, <1>7 DEF OpenAt, OpenFds
<1>10. CASE d.end = "open"
  <2>1. LivePeers' = LivePeers
    <3>1. \A k : OpenAt(f, k)' <=> OpenAt(f, k)
      BY <1>2, <1>9, <1>10 DEF OpenAt, OpenFds
    <3> QED BY <1>2, <1>8, <3>1, PeersStay
  <2>2. sent' = [sent EXCEPT ![h] = @ + 1]
    BY <1>1, <1>10 DEF Count
  <2> QED BY <1>2, <1>4, <1>5, <2>1, <2>2 DEF Stream!Send
<1>11. CASE d.end # "open"
  <2>1. sent' = sent
    BY <1>1, <1>4, <1>11, Descriptors DEF Count, TypeInv, TypeOK, PeerTypes
  <2>2. \A g \in Fds : g # f => ~OpenAt(g, h)
    BY <1>2, <1>4 DEF OpenAt, OneLive
  <2>3. \A i \in 1..Len(backlog) : ~OpenWaits(i, h)
    BY <1>2, <1>4 DEF OpenAt, OpenWaits, OneLive
  <2>4. \A i, k : OpenWaits(i, k)' <=> OpenWaits(i, k)
    BY <1>2 DEF OpenWaits
  <2>5. \A k \in Hosts : k \in LivePeers' <=> k \in LivePeers /\ k # h
    <3> TAKE k \in Hosts
    <3>1. CASE k = h
      BY <1>2, <1>8, <1>9, <1>11, <2>2, <2>3, <2>4, <3>1, LiveAre
    <3>2. CASE k # h
      <4>1. ~OpenAt(f, k)
        BY <3>2 DEF OpenAt
      <4> QED BY <1>2, <1>8, <1>9, <2>4, <3>2, <4>1, LiveAre
    <3> QED BY <3>1, <3>2
  <2>6. LivePeers' = LivePeers \ {h}
    BY <2>5 DEF LivePeers
  <2> QED BY <1>2, <1>4, <1>5, <2>1, <2>6 DEF Stream!Leave
<1> QED BY <1>10, <1>11

LEMMA PeerActsEarlyRefines ==
  ASSUME DataInv, ~Ahead, NEW n \in 1..Len(backlog), PeerActsEarly(n)
  PROVE  Stream!Send(backlog[n].host) \/ Stream!Leave(backlog[n].host)
<1> USE DEF DataInv
<1>1. PICK d \in Acted(backlog[n]) : backlog' = [backlog EXCEPT ![n] = d] /\ Count(backlog[n], d)
  BY DEF PeerActsEarly
<1>2. /\ backlog[n].unread = <<>> /\ backlog[n].end = "open"
      /\ ep' = ep /\ UNCHANGED <<sock, received>>
  BY DEF PeerActsEarly, epollVars, kernelVars
<1>3. backlog[n] \in Peer /\ backlog \in Seq(Peer)
  BY DEF TypeInv, TypeOK, PeerTypes
<1> DEFINE h == backlog[n].host
<1>4. h \in Hosts /\ OpenWaits(n, h) /\ h \in LivePeers
  BY <1>2, <1>3, PeerFields, LiveAre DEF OpenWaits
<1>5. Stream!HasTurn(h)
  <2>1. ~UnderWay(h)
    BY <1>2, NothingAtWaiting
  <2> QED BY <1>4, <2>1 DEF DataOK, Carried, Stream!HasTurn
<1>6. d \in Peer /\ d.host = h
  BY <1>2, <1>3, WaitingPeerActs
<1>7. /\ Len(backlog') = Len(backlog) /\ backlog'[n] = d
      /\ \A i \in 1..Len(backlog) : i # n => backlog'[i] = backlog[i]
  BY <1>1, <1>3
<1>8. \A g, k : OpenAt(g, k)' <=> OpenAt(g, k)
  BY <1>2 DEF OpenAt, OpenFds
<1>9. \A i \in 1..Len(backlog) : i # n => \A k : OpenWaits(i, k)' <=> OpenWaits(i, k)
  BY <1>7 DEF OpenWaits
<1>10. \A k : OpenWaits(n, k)' <=> k = h /\ d.end = "open"
  BY <1>6, <1>7 DEF OpenWaits
<1>11. CASE d.end = "open"
  <2>1. LivePeers' = LivePeers
    <3>1. \A k : OpenWaits(n, k)' <=> OpenWaits(n, k)
      BY <1>2, <1>10, <1>11 DEF OpenWaits
    <3>2. \A k \in Hosts : k \in LivePeers' <=> k \in LivePeers
      BY <1>7, <1>8, <1>9, <3>1, LiveAre
    <3> QED BY <3>2, SameLive
  <2>2. sent' = [sent EXCEPT ![h] = @ + 1]
    BY <1>1, <1>11 DEF Count
  <2> QED BY <1>2, <1>4, <1>5, <2>1, <2>2 DEF Stream!Send
<1>12. CASE d.end # "open"
  <2>1. sent' = sent
    BY <1>1, <1>4, <1>12, Descriptors DEF Count, TypeInv, TypeOK, PeerTypes
  <2>2. \A g \in Fds : ~OpenAt(g, h)
    BY <1>2, <1>4 DEF OpenAt, OneLive
  <2>3. \A i \in 1..Len(backlog) : i # n => ~OpenWaits(i, h)
    BY <1>2, <1>4 DEF OpenWaits, OneLive
  <2>4. \A k \in Hosts : k \in LivePeers' <=> k \in LivePeers /\ k # h
    <3> TAKE k \in Hosts
    <3>1. CASE k = h
      BY <1>7, <1>8, <1>9, <1>10, <1>12, <2>2, <2>3, <3>1, LiveAre
    <3>2. CASE k # h
      <4>1. ~OpenWaits(n, k)
        BY <3>2 DEF OpenWaits
      <4> QED BY <1>7, <1>8, <1>9, <1>10, <3>2, <4>1, LiveAre
    <3> QED BY <3>1, <3>2
  <2>5. LivePeers' = LivePeers \ {h}
    BY <2>4 DEF LivePeers
  <2> QED BY <1>2, <1>4, <1>5, <2>1, <2>5 DEF Stream!Leave
<1> QED BY <1>11, <1>12

(* Of a worker's steps the delivery is seen, and nothing else: not the     *)
(* read, and not the close of a connection its peer has ended.             *)
LEMMA DeliveryRefines ==
  ASSUME DataInv, NEW w \in Workers, MessageRecv(w), ep # "done"
  PROVE  szPeerAddr[w] \in Hosts /\ Stream!Deliver(szPeerAddr[w])
<1> USE DEF DataInv
<1>1. /\ wpc[w] = "deliver"
      /\ received' = [received EXCEPT ![szPeerAddr[w]] = @ \o buff[w]]
      /\ UNCHANGED <<sock, backlog, sent, ep>>
  BY DEF MessageRecv, Leaves, Move, peerVars, kernelVars, epollVars
<1> PICK h \in Hosts : h = szPeerAddr[w]
  BY <1>1, HandIsAlone, PeerFields DEF Handling, Flow, HandsOK, HandOK
<1>2. AtWorker(w, h)
  BY <1>1 DEF AtWorker, Flow, HandsOK, HandOK
<1>3. buff[w] = <<sent[h]>> /\ sent[h] = Len(received[h]) + 1
  BY <1>2 DEF DataOK, Carried, Due
<1>4. h \in LivePeers
  BY <1>2, WorkerHasLive, LiveAre DEF OpenAt, OpenFds
<1>5. LivePeers' = LivePeers
  BY <1>1, PeersStay DEF OpenAt, OpenFds
<1>6. received' = [received EXCEPT ![h] = Append(@, sent[h])]
  <2>1. received \in [Hosts -> Seq(Nat)] /\ sent[h] \in Nat
    BY Descriptors DEF TypeInv, TypeOK, RecvTypes, PeerTypes
  <2>2. received[h] \o <<sent[h]>> = Append(received[h], sent[h])
    BY <2>1
  <2> QED BY <1>1, <1>3, <2>1, <2>2
<1> QED BY <1>1, <1>3, <1>4, <1>5, <1>6 DEF Stream!Deliver

LEMMA WorkerRefines ==
  ASSUME DataInv, NEW w \in Workers, Worker(w)
  PROVE  [Stream!Next]_Stream!vars
<1> USE DEF DataInv
<1>1. ep # "done" /\ ep' = ep
  <2>1. wpc[w] # "exited" /\ ep' = ep
    BY DEF Worker, Fetch, Quit, getPeerAddr, FindInetAddr, GiveUp, Read, ReadEnds,
       MessageRecv, Unwatch, CloseClient, RemoveSockfd2InetAddr, RemovTcpConnection,
       Leaves, Move, epollVars
  <2> QED BY <2>1 DEF TypeInv, PlacesOK
<1>2. CASE MessageRecv(w)
  BY <1>1, <1>2, DeliveryRefines DEF Stream!Next
<1>3. CASE ~MessageRecv(w)
  <2>1. UNCHANGED <<backlog, sent, received>>
    BY <1>3 DEF Worker, Fetch, Quit, getPeerAddr, FindInetAddr, GiveUp, Read, ReadEnds,
       Unwatch, CloseClient, RemoveSockfd2InetAddr, RemovTcpConnection, peerVars
  <2>2. \A f \in Fds, h \in Hosts : OpenAt(f, h)' <=> OpenAt(f, h)
    <3>1. CASE Read(w)
      <4>1. /\ fd[w] \in Fds /\ sock[fd[w]] # Closed /\ sock[fd[w]] \in Peer
            /\ sock' = [sock EXCEPT ![fd[w]] = [sock[fd[w]] EXCEPT !.unread = <<>>]]
        BY <3>1 DEF Read, Move, HasData, TypeInv, TypeOK, KernelTypes, PlacesOK
      <4>2. PICK d \in Peer :
              /\ d = [sock[fd[w]] EXCEPT !.unread = <<>>]
              /\ d = [host |-> sock[fd[w]].host, unread |-> <<>>, end |-> sock[fd[w]].end]
        BY <4>1, Drained
      <4>3. d # Closed /\ d.host = sock[fd[w]].host /\ d.end = sock[fd[w]].end
        BY <4>2, Descriptors
      <4> QED BY <4>1, <4>2, <4>3 DEF OpenAt, OpenFds, TypeInv, TypeOK, KernelTypes
    <3>2. CASE CloseClient(w)
      <4>1. sock[fd[w]].end # "open"
        BY <3>2 DEF CloseClient, Move, Flow, HandsOK, HandOK
      <4>2. sock' = [f \in Fds |-> IF f = fd[w] THEN Closed ELSE sock[f]]
        BY <3>2, WhatCloses
      <4> QED BY <4>1, <4>2 DEF OpenAt, OpenFds
    <3>3. CASE ~(Read(w) \/ CloseClient(w))
      <4>1. sock' = sock
        BY <1>3, <3>3 DEF Worker, Fetch, Quit, getPeerAddr, FindInetAddr, GiveUp, ReadEnds,
           Unwatch, RemoveSockfd2InetAddr, RemovTcpConnection, kernelVars
      <4> QED BY <4>1 DEF OpenAt, OpenFds
    <3> QED BY <3>1, <3>2, <3>3
  <2> QED BY <1>1, <2>1, <2>2, PeersStay DEF Stream!vars
<1> QED BY <1>2, <1>3

LEMMA StreamStep ==
  ASSUME ~Ahead, DataInv, [Next]_vars
  PROVE  [Stream!Next]_Stream!vars
<1> USE DEF DataInv
<1>1. CASE EpollThread
  BY <1>1, EpollRefines
<1>2. CASE Stop \/ UNCHANGED vars
  <2>1. UNCHANGED <<sock, backlog, sent, received, ep>>
    BY <1>2 DEF Stop, vars, kernelVars, peerVars, epollVars
  <2> QED BY <2>1, PeersStay DEF OpenAt, OpenFds, Stream!vars
<1>3. CASE Environment
  <2>1. ASSUME NEW f \in Fds, PeerActs(f) PROVE Stream!Next
    <3>1. sock[f].host \in Hosts
      BY <2>1, PeerFields DEF PeerActs, TypeInv, TypeOK, KernelTypes
    <3> QED BY <2>1, <3>1, PeerActsRefines DEF Stream!Next
  <2>2. ASSUME NEW n \in 1..Len(backlog), PeerActsEarly(n) PROVE Stream!Next
    <3>1. backlog[n].host \in Hosts
      BY PeerFields DEF TypeInv, TypeOK, PeerTypes
    <3> QED BY <2>2, <3>1, PeerActsEarlyRefines DEF Stream!Next
  <2> QED BY <1>3, <2>1, <2>2, ConnectRefines DEF Environment, Stream!Next
<1> QED BY <1>1, <1>2, <1>3, WorkerRefines DEF Next

(* To peers that wait for their turn, however many they are and however    *)
(* often they reconnect, the service is one stream each: a message is      *)
(* delivered whole and once, in the order of its host, before the host's   *)
(* next turn and while it is connected, and nothing but a stop ends a      *)
(* connection its peer has not ended (TcpService.cpp:144, 181, 298).       *)
THEOREM ImplementsStreamsCorrect ==
  ASSUME ~Ahead
  PROVE  Spec => ImplementsStreams
<1>1. Init => Stream!Init
  BY DEF Init, Stream!Init, LivePeers, OpenFds
<1>2. DataInv /\ [Next]_vars => [Stream!Next]_Stream!vars
  BY StreamStep
<1>3. Spec => []DataInv
  BY DataAlways, FlowAlways, LiveAlways, PTL DEF DataInv
<1> QED BY <1>1, <1>2, <1>3, PTL DEF Spec, ImplementsStreams, Stream!Spec

-----------------------------------------------------------------------------
(***************************************************************************)
(* 7. The events that are still to come.                                   *)
(***************************************************************************)
(* Whatever happens to a connection, it is its peer's doing, a read or the *)
(* end of the descriptor.                                                  *)
Acts(f) ==
  /\ sock[f] # Closed /\ sock[f].end = "open" /\ sock'[f] \in Acted(sock[f])
  /\ watched' = watched /\ (f \in watched => f \in ready')
Accepts(f) ==
  /\ backlog # <<>> /\ sock[f] = Closed /\ sock'[f] = Head(backlog)
  /\ watched' = watched
Drains(f) ==
  sock[f] # Closed /\ sock'[f] = [sock[f] EXCEPT !.unread = <<>>]

LEMMA SocketChanges ==
  ASSUME TypeInv, [Next]_vars, NEW f \in Fds
  PROVE  sock'[f] \in {sock[f], Closed} \/ Acts(f) \/ Accepts(f) \/ Drains(f)
<1> USE DEF TypeInv, TypeOK, KernelTypes
<1>1. CASE EpollThread
  <2>1. CASE CloseAll
    BY <2>1 DEF CloseAll, Close
  <2>2. CASE Accept
    <3>1. clientfd' \in Fds \ OpenFds
      BY <2>2, MinIsIn, ServiceAssumption DEF Accept, OpenFds, ServiceAssumption
    <3> QED BY <2>2, <3>1 DEF Accept, OpenFds, Accepts
  <2>3. CASE ~(CloseAll \/ Accept)
    BY <1>1, <2>3 DEF EpollThread, SafeChangeEvents, epoll_pwait, EventsEnd, ListenEvent,
       WakeupEvent, ReadEvent, AcceptEnds, AcceptFails, Watch, AddTcpConnection, SetSockfd2InetAddr,
       ClearThreadPool, kernelVars
  <2> QED BY <2>1, <2>2, <2>3
<1>2. CASE Environment \/ Stop
  <2>1. CASE Stop \/ (\E h \in Hosts : Connect(h)) \/ \E i \in 1..Len(backlog) : PeerActsEarly(i)
    BY <2>1 DEF Stop, Connect, PeerActsEarly, kernelVars
  <2>2. ASSUME NEW g \in Fds, PeerActs(g)
        PROVE  sock'[f] = sock[f] \/ Acts(f)
    <3>1. PICK d \in Acted(sock[g]) : sock' = [sock EXCEPT ![g] = d]
      BY <2>2 DEF PeerActs
    <3> QED BY <2>2, <3>1 DEF PeerActs, Acts
  <2> QED BY <1>2, <2>1, <2>2 DEF Environment
<1>3. ASSUME NEW w \in Workers, Worker(w)
      PROVE  sock'[f] \in {sock[f], Closed} \/ Drains(f)
  <2>1. CASE CloseClient(w)
    BY <2>1 DEF CloseClient, Close
  <2>2. CASE Read(w)
    BY <2>2 DEF Read, HasData, Drains
  <2>3. CASE ~(CloseClient(w) \/ Read(w))
    BY <1>3, <2>3 DEF Worker, Fetch, Quit, getPeerAddr, FindInetAddr, GiveUp, ReadEnds,
       MessageRecv, Unwatch, RemoveSockfd2InetAddr, RemovTcpConnection, kernelVars
  <2> QED BY <2>1, <2>2, <2>3
<1>4. CASE UNCHANGED vars
  BY <1>4 DEF vars, kernelVars
<1> QED BY <1>1, <1>2, <1>3, <1>4 DEF Next

(* The same of a connection that waits to be accepted.                     *)
LEMMA BacklogChanges ==
  ASSUME TypeInv, [Next]_vars, NEW i \in 1..Len(backlog')
  PROVE  \/ \E j \in 1..Len(backlog) :
              \/ backlog'[i] = backlog[j]
              \/ backlog[j].end = "open" /\ backlog'[i] \in Acted(backlog[j])
         \/ backlog'[i].end = "open"
<1>0. backlog \in Seq(Peer)
  BY DEF TypeInv, TypeOK, PeerTypes
<1>1. CASE backlog' = backlog
  BY <1>1
<1>2. CASE EpollThread /\ backlog' # backlog
  <2>1. CASE CloseAll
    BY <2>1 DEF CloseAll
  <2>2. CASE Accept
    <3>1. backlog # <<>> /\ backlog' = Tail(backlog)
      BY <2>2 DEF Accept
    <3> QED BY <1>0, <3>1, Behead
  <2>3. CASE AcceptFails
    BY <2>3, WhatFails
  <2> QED BY <1>2, <2>1, <2>2, <2>3 DEF EpollThread, SafeChangeEvents, epoll_pwait, EventsEnd,
       ListenEvent, WakeupEvent, ReadEvent, AcceptEnds, Watch, AddTcpConnection,
       SetSockfd2InetAddr, ClearThreadPool, peerVars
<1>3. ASSUME NEW h \in Hosts, Connect(h)
      PROVE  (i \in 1..Len(backlog) /\ backlog'[i] = backlog[i]) \/ backlog'[i].end = "open"
  <2> DEFINE c == [host |-> h, unread |-> <<>>, end |-> "open"]
  <2>1. backlog' = Append(backlog, c) /\ c.end = "open"
    BY <1>3 DEF Connect
  <2> HIDE DEF c
  <2> QED BY <1>0, <2>1
<1>4. ASSUME NEW k \in 1..Len(backlog), PeerActsEarly(k)
      PROVE  \E j \in 1..Len(backlog) :
              \/ backlog'[i] = backlog[j]
              \/ backlog[j].end = "open" /\ backlog'[i] \in Acted(backlog[j])
  <2>1. PICK d \in Acted(backlog[k]) : backlog' = [backlog EXCEPT ![k] = d]
    BY <1>4 DEF PeerActsEarly
  <2>2. i \in 1..Len(backlog) /\ backlog'[i] = IF i = k THEN d ELSE backlog[i]
    BY <1>0, <2>1
  <2> QED BY <1>4, <2>2 DEF PeerActsEarly
<1>5. CASE Stop \/ UNCHANGED vars \/ (\E f \in Fds : PeerActs(f)) \/ \E w \in Workers : Worker(w)
  <2>1. backlog' = backlog
    BY <1>5 DEF Stop, vars, PeerActs, Worker, Fetch, Quit, getPeerAddr, FindInetAddr, GiveUp,
       Read, ReadEnds, MessageRecv, Unwatch, CloseClient, RemoveSockfd2InetAddr,
       RemovTcpConnection, peerVars
  <2> QED BY <1>1, <2>1
<1> QED BY <1>1, <1>2, <1>3, <1>4, <1>5 DEF Next, Environment

(* A connection that was reset has nothing to read.                        *)
Reset(c) == c.end = "rst" => c.unread = <<>>
ResetsOK ==
  /\ \A f \in OpenFds : Reset(sock[f])
  /\ \A i \in 1..Len(backlog) : Reset(backlog[i])

LEMMA ActedResets ==
  ASSUME NEW c \in Peer, c.end = "open", NEW d \in Acted(c)
  PROVE  Reset(d)
<1>1. /\ c.host \in Hosts /\ c.unread \in Seq(Nat)
      /\ <<>> \in Seq(Nat)
  BY PeerFields
<1>2. CASE d = [c EXCEPT !.end = "fin"]
  <2>1. d = [host |-> c.host, unread |-> c.unread, end |-> "fin"]
    BY <1>1, <1>2, PeerExcept
  <2> QED BY <2>1 DEF Reset
<1>3. CASE d = [c EXCEPT !.end = "rst", !.unread = <<>>]
  <2>1. d = [host |-> c.host, unread |-> <<>>, end |-> "rst"]
    BY <1>1, <1>3, PeerExcept
  <2> QED BY <2>1 DEF Reset
<1>4. CASE d = [c EXCEPT !.unread = Append(@, sent[c.host] + 1)]
  <2>1. d.end = c.end
    BY <1>4 DEF Peer
  <2> QED BY <2>1 DEF Reset
<1> QED BY <1>2, <1>3, <1>4 DEF Acted

LEMMA ResetsStep ==
  ASSUME TypeInv, ResetsOK, [Next]_vars
  PROVE  ResetsOK'
<1>0. /\ sock \in [Fds -> Peer \cup {Closed}] /\ backlog \in Seq(Peer)
  BY DEF TypeInv, TypeOK, KernelTypes, PeerTypes
<1>1. ASSUME NEW f \in Fds, sock'[f] # Closed PROVE Reset(sock'[f])
  <2>1. CASE sock'[f] = sock[f]
    BY <1>1, <2>1 DEF ResetsOK, OpenFds
  <2>2. CASE Acts(f)
    BY <1>0, <2>2, ActedResets DEF Acts
  <2>3. CASE Accepts(f)
    <3>1. 1 \in 1..Len(backlog) /\ Head(backlog) = backlog[1]
      BY <1>0, <2>3 DEF Accepts
    <3> QED BY <2>3, <3>1 DEF Accepts, ResetsOK
  <2>4. CASE Drains(f)
    <3>1. sock'[f].unread = <<>>
      BY <1>0, <2>4, Drained DEF Drains
    <3> QED BY <3>1 DEF Reset
  <2> QED BY <1>1, <2>1, <2>2, <2>3, <2>4, SocketChanges
<1>2. ASSUME NEW i \in 1..Len(backlog') PROVE Reset(backlog'[i])
  <2>1. ASSUME NEW j \in 1..Len(backlog), backlog[j].end = "open",
               backlog'[i] \in Acted(backlog[j])
        PROVE  Reset(backlog'[i])
    BY <1>0, <2>1, ActedResets
  <2>2. ASSUME NEW j \in 1..Len(backlog), backlog'[i] = backlog[j] PROVE Reset(backlog'[i])
    BY <2>2 DEF ResetsOK
  <2>3. backlog'[i].end = "open" => Reset(backlog'[i])
    BY DEF Reset
  <2> QED BY <2>1, <2>2, <2>3, BacklogChanges
<1> QED BY <1>1, <1>2 DEF ResetsOK, OpenFds, Reset

(* The queues of the pool hold no more than they may.                      *)
QueuesFit == \A w \in Workers : Len(tasks[w]) <= MaxQueue

LEMMA QueuesStep ==
  ASSUME TypeInv, QueuesFit, [Next]_vars
  PROVE  QueuesFit'
<1>0. MaxQueue \in Nat /\ tasks \in [Workers -> Seq(Fds)]
  BY ServiceAssumption DEF ServiceAssumption, TypeInv, TypeOK, PoolTypes
<1>1. CASE ReadEvent
  <2>1. PICK f \in Fds :
          tasks' = IF Len(tasks[Head(threads)]) < MaxQueue
                   THEN [tasks EXCEPT ![Head(threads)] = Append(@, f)] ELSE tasks
    BY <1>1 DEF ReadEvent
  <2> DEFINE u == Head(threads)
  <2>2. ASSUME NEW v \in Workers PROVE Len(tasks'[v]) <= MaxQueue
    <3>1. CASE Len(tasks[u]) < MaxQueue /\ v = u
      <4>1. tasks'[v] = Append(tasks[v], f) /\ tasks[v] \in Seq(Fds)
        BY <1>0, <2>1, <3>1
      <4> QED BY <1>0, <3>1, <4>1
    <3>2. CASE ~(Len(tasks[u]) < MaxQueue /\ v = u)
      <4>1. tasks'[v] = tasks[v]
        BY <1>0, <2>1, <3>2
      <4> QED BY <4>1 DEF QueuesFit
    <3> QED BY <3>1, <3>2
  <2> QED BY <2>2 DEF QueuesFit
<1>2. CASE EpollThread /\ ~ReadEvent
  BY <1>2 DEF EpollThread, SafeChangeEvents, epoll_pwait, EventsEnd, ListenEvent, WakeupEvent,
     Accept, AcceptEnds, AcceptFails, Watch, AddTcpConnection, SetSockfd2InetAddr, CloseAll,
     ClearThreadPool, poolVars, QueuesFit
<1>3. ASSUME NEW w \in Workers, Worker(w) PROVE QueuesFit'
  <2>1. \A v \in Workers : Len(tasks'[v]) <= Len(tasks[v])
    <3>1. CASE Fetch(w)
      <4>1. tasks[w] # <<>> /\ tasks' = [tasks EXCEPT ![w] = Tail(@)] /\ tasks[w] \in Seq(Fds)
        BY <1>0, <3>1 DEF Fetch
      <4>2. Len(Tail(tasks[w])) = Len(tasks[w]) - 1 /\ Len(tasks[w]) \in Nat
        BY <4>1, Behead
      <4> QED BY <1>0, <4>1, <4>2
    <3>2. ASSUME NEW from, Leaves(w, from) PROVE \A v \in Workers : Len(tasks'[v]) <= Len(tasks[v])
      <4>1. \A v \in Workers : tasks'[v] \in {tasks[v], <<>>}
        BY <1>0, <3>2 DEF Leaves
      <4> QED BY <1>0, <4>1
    <3>3. CASE ~Fetch(w) /\ tasks' = tasks
      BY <1>0, <3>3
    <3> QED BY <1>3, <3>1, <3>2, <3>3 DEF Worker, Quit, getPeerAddr, FindInetAddr, GiveUp, Read,
         ReadEnds, MessageRecv, Unwatch, CloseClient, RemoveSockfd2InetAddr,
         RemovTcpConnection, poolVars
  <2>2. \A v \in Workers : Len(tasks[v]) \in Nat /\ Len(tasks'[v]) \in Nat
    <3>1. TypeOK'
      BY <1>3, TypeWorker
    <3> QED BY <1>0, <3>1 DEF TypeOK, PoolTypes
  <2> QED BY <1>0, <2>1, <2>2 DEF QueuesFit
<1>4. CASE Stop \/ Environment \/ UNCHANGED vars
  BY <1>4 DEF Stop, Environment, Connect, PeerActs, PeerActsEarly, vars, poolVars, QueuesFit
<1> QED BY <1>1, <1>2, <1>3, <1>4 DEF Next

EventInv == TypeInv /\ ResetsOK /\ QueuesFit

LEMMA EventAlways == Spec => []EventInv
<1>1. Init => ResetsOK /\ QueuesFit
  BY ServiceAssumption DEF Init, ResetsOK, QueuesFit, OpenFds, ServiceAssumption
<1>2. TypeInv /\ ResetsOK /\ QueuesFit /\ [Next]_vars => ResetsOK' /\ QueuesFit'
  BY ResetsStep, QueuesStep
<1> QED BY <1>1, <1>2, TypesAlways, PTL DEF Spec, EventInv

(* The event of socket f is reported, queued, or with a worker that is at  *)
(* one of the statements of here.                                          *)
Held(f, here) ==
  \/ Reported(f)
  \/ \E w \in Workers : Queued(w, f) \/ (fd[w] = f /\ wpc[w] \in here)

(* The epoll thread hands it on, unless it is out of room or ends.         *)
LEMMA EpollHands ==
  ASSUME TypeInv, QueuesFit, EpollThread, ~Overrun, ep # "clean",
         NEW f \in Fds, NEW here, Held(f, here), Readable(f)
  PROVE  Held(f, here)'
<1>1. UNCHANGED recvVars
  BY DEF EpollThread, SafeChangeEvents, epoll_pwait, EventsEnd, ListenEvent, WakeupEvent,
     ReadEvent, Accept, AcceptEnds, AcceptFails, Watch, AddTcpConnection, SetSockfd2InetAddr, CloseAll,
     ClearThreadPool
<1>2. ASSUME tasks' = tasks, Reported(f) => Reported(f)' PROVE Held(f, here)'
  BY <1>1, <1>2 DEF Held, Queued, recvVars
<1>3. CASE epoll_pwait
  BY <1>2, <1>3 DEF epoll_pwait, Reported, poolVars, At, TypeInv, PlacesOK
<1>4. CASE EventsEnd
  <2>1. batch = {}
    BY <1>4 DEF EventsEnd, At, Overrun
  <2> QED BY <1>2, <1>4, <2>1 DEF EventsEnd, Reported, kernelVars, poolVars
<1>5. CASE ListenEvent \/ WakeupEvent
  BY <1>2, <1>5, Descriptors DEF ListenEvent, WakeupEvent, TakeEvent, Reported, kernelVars, poolVars
<1>6. CASE ReadEvent
  <2>1. Head(threads) \in Workers
    <3>1. cancelled = {}
      BY <1>6 DEF ReadEvent, At, TypeInv, PlacesOK
    <3>2. PICK v \in Workers : TRUE
      BY ServiceAssumption DEF ServiceAssumption
    <3>3. \E k : OnlyTurn(threads, v, k)
      BY <3>1, OneTurn DEF TypeInv, TypeOK, PoolTypes
    <3> QED BY <3>3 DEF OnlyTurn, TypeInv, TypeOK, PoolTypes
  <2> PICK w \in Workers : w = Head(threads)
    BY <2>1
  <2>2. tasks \in [Workers -> Seq(Fds)] /\ Len(tasks[w]) \in Nat /\ MaxQueue \in Nat
    BY ServiceAssumption DEF ServiceAssumption, TypeInv, TypeOK, PoolTypes
  <2>3. Len(tasks[w]) < MaxQueue
    BY <2>2 DEF QueuesFit, Overrun
  <2>4. PICK g \in Fds : batch' = batch \ {g} /\ tasks' = [tasks EXCEPT ![w] = Append(@, g)]
    BY <1>6, <2>3 DEF ReadEvent, TakeEvent
  <2>5. ready' = ready
    BY <1>6 DEF ReadEvent, kernelVars
  <2>6. /\ Len(tasks'[w]) = Len(tasks[w]) + 1 /\ tasks'[w][Len(tasks[w]) + 1] = g
        /\ \A i \in 1..Len(tasks[w]) : tasks'[w][i] = tasks[w][i]
        /\ \A v \in Workers \ {w} : tasks'[v] = tasks[v]
    BY <2>2, <2>4
  <2>7. Queued(w, g)'
    <3>1. Len(tasks[w]) + 1 \in 1..Len(tasks'[w])
      BY <2>2, <2>6
    <3> QED BY <2>6, <3>1 DEF Queued
  <2>8. ASSUME NEW v \in Workers, Queued(v, f) PROVE Queued(v, f)'
    <3>1. PICK i \in 1..Len(tasks[v]) : tasks[v][i] = f
      BY <2>8 DEF Queued
    <3>2. i \in 1..Len(tasks'[v]) /\ tasks'[v][i] = f
      BY <2>2, <2>6, <3>1
    <3> QED BY <3>2 DEF Queued
  <2>9. Reported(f) => Reported(f)' \/ Queued(w, f)'
    BY <2>4, <2>5, <2>7 DEF Reported
  <2> QED BY <1>1, <2>8, <2>9 DEF Held, recvVars
<1>7. CASE Watch
  BY <1>2, <1>7 DEF Watch, EpollAdd, Reported, poolVars
<1>8. CASE \/ SafeChangeEvents \/ Accept \/ AcceptEnds \/ AcceptFails
           \/ AddTcpConnection \/ SetSockfd2InetAddr
  BY <1>2, <1>8 DEF SafeChangeEvents, Accept, AcceptEnds, AcceptFails, AddTcpConnection, SetSockfd2InetAddr,
     Reported, kernelVars, poolVars
<1>9. ~CloseAll /\ ~\E w \in Workers : ClearThreadPool(w)
  BY DEF CloseAll, ClearThreadPool, At
<1> QED BY <1>3, <1>4, <1>5, <1>6, <1>7, <1>8, <1>9 DEF EpollThread

(* A worker takes it in hand, and keeps it while it is at these            *)
(* statements; a socket that is not watched any more needs no event.       *)
LEMMA WorkerHands ==
  ASSUME TypeInv, NEW w \in Workers, Worker(w), ep # "clean",
         NEW f \in Fds, NEW here \in SUBSET Handling, "peer" \in here, Held(f, here)
  PROVE  \/ Held(f, here)'
         \/ f \notin watched'
         \/ fd[w] = f /\ wpc[w] \in here /\ wpc'[w] \notin here
<1>0. /\ tasks \in [Workers -> Seq(Fds)] /\ wpc \in [Workers -> RecvStatements]
      /\ fd \in [Workers -> Fds \cup {None}]
  BY DEF TypeInv, TypeOK, PoolTypes, RecvTypes
<1>1. batch' = batch
  BY DEF Worker, Fetch, Quit, getPeerAddr, FindInetAddr, GiveUp, Read, ReadEnds, MessageRecv,
     Unwatch, CloseClient, RemoveSockfd2InetAddr, RemovTcpConnection, epollVars
<1>2. Reported(f) => Reported(f)' \/ f \notin watched'
  <2>1. CASE Unwatch(w) \/ CloseClient(w)
    BY <1>1, <2>1 DEF Unwatch, EpollDel, CloseClient, Close, Reported
  <2>2. CASE ~(Unwatch(w) \/ CloseClient(w))
    <3>1. ready' = ready
      BY <2>2 DEF Worker, Fetch, Quit, getPeerAddr, FindInetAddr, GiveUp, Read, ReadEnds,
         MessageRecv, RemoveSockfd2InetAddr, RemovTcpConnection, kernelVars
    <3> QED BY <1>1, <3>1 DEF Reported
  <2> QED BY <2>1, <2>2
<1>3. \A v \in Workers \ {w} : wpc'[v] = wpc[v] /\ fd'[v] = fd[v]
  BY <1>0 DEF Worker, Fetch, Quit, getPeerAddr, FindInetAddr, GiveUp, Read, ReadEnds, MessageRecv,
     Unwatch, CloseClient, RemoveSockfd2InetAddr, RemovTcpConnection, Leaves, Move
<1>4. CASE Fetch(w)
  <2>1. /\ tasks[w] # <<>> /\ tasks' = [tasks EXCEPT ![w] = Tail(@)]
        /\ wpc[w] = "fetch" /\ wpc' = [wpc EXCEPT ![w] = "peer"]
        /\ fd' = [fd EXCEPT ![w] = Head(tasks[w])]
    BY <1>4 DEF Fetch, Move
  <2>2. /\ wpc'[w] = "peer" /\ fd'[w] = tasks[w][1] /\ Len(tasks[w]) \in Nat
        /\ Len(tasks'[w]) = Len(tasks[w]) - 1
        /\ \A i \in 1..Len(tasks'[w]) : tasks'[w][i] = tasks[w][i + 1]
        /\ \A v \in Workers \ {w} : tasks'[v] = tasks[v]
    BY <1>0, <2>1, Behead
  <2>3. ASSUME Queued(w, f) PROVE Queued(w, f)' \/ fd'[w] = f
    <3>1. PICK i \in 1..Len(tasks[w]) : tasks[w][i] = f
      BY <2>3 DEF Queued
    <3>2. CASE i = 1
      BY <2>2, <3>1, <3>2
    <3>3. CASE i # 1
      <4>1. i - 1 \in 1..Len(tasks'[w]) /\ (i - 1) + 1 = i
        BY <2>2, <3>3
      <4>2. tasks'[w][i - 1] = f
        BY <2>2, <3>1, <4>1
      <4> QED BY <4>1, <4>2 DEF Queued
    <3> QED BY <3>2, <3>3
  <2>4. ASSUME NEW v \in Workers, Queued(v, f)
        PROVE  Queued(v, f)' \/ (fd'[w] = f /\ wpc'[w] = "peer")
    BY <2>2, <2>3, <2>4 DEF Queued
  <2>5. \A v \in Workers : wpc[v] \in here => v # w
    BY <2>1 DEF Handling
  <2> QED BY <1>2, <1>3, <2>4, <2>5 DEF Held
<1>5. CASE ~Fetch(w)
  <2>1. cancelled = {}
    BY DEF TypeInv, PlacesOK, Worker, Fetch, Quit, getPeerAddr, FindInetAddr, GiveUp, Read,
       ReadEnds, MessageRecv, Unwatch, CloseClient, RemoveSockfd2InetAddr,
       RemovTcpConnection, Leaves, Move
  <2>2. UNCHANGED <<tasks, fd>>
    BY <1>5, <2>1 DEF Worker, Quit, getPeerAddr, FindInetAddr, GiveUp, Read, ReadEnds,
       MessageRecv, Unwatch, CloseClient, RemoveSockfd2InetAddr, RemovTcpConnection, Leaves,
       poolVars
  <2>3. \A v \in Workers : Queued(v, f) => Queued(v, f)'
    BY <2>2 DEF Queued
  <2> QED BY <1>2, <1>3, <2>2, <2>3 DEF Held
<1> QED BY <1>4, <1>5

LEMMA EnvironmentHands ==
  ASSUME Stop \/ Environment \/ UNCHANGED vars, NEW f \in Fds, NEW here, Held(f, here)
  PROVE  Held(f, here)'
<1>1. ready \subseteq ready' /\ UNCHANGED <<batch, tasks, recvVars>>
  BY DEF Stop, Environment, Connect, PeerActs, PeerActsEarly, vars, kernelVars, epollVars,
     poolVars
<1> QED BY <1>1 DEF Held, Reported, Queued, recvVars

LEMMA WatchedGrows ==
  ASSUME [Next]_vars, NEW f \in Fds, f \in watched', f \notin watched
  PROVE  Watch
<1>1. CASE EpollThread
  BY <1>1 DEF EpollThread, SafeChangeEvents, epoll_pwait, EventsEnd, ListenEvent, WakeupEvent,
     ReadEvent, Accept, AcceptEnds, AcceptFails, AddTcpConnection, SetSockfd2InetAddr, CloseAll, Close,
     ClearThreadPool, kernelVars
<1>2. CASE Stop \/ Environment \/ UNCHANGED vars
  BY <1>2 DEF Stop, Environment, Connect, PeerActs, PeerActsEarly, vars, kernelVars
<1>3. ASSUME NEW w \in Workers, Worker(w) PROVE FALSE
  BY <1>3 DEF Worker, Fetch, Quit, getPeerAddr, FindInetAddr, GiveUp, Read, ReadEnds, MessageRecv,
     Unwatch, EpollDel, CloseClient, Close, RemoveSockfd2InetAddr, RemovTcpConnection, kernelVars
<1> QED BY <1>1, <1>2, <1>3 DEF Next

(* What is new at a watched socket, or new to the epoll object, is an edge.*)
LEMMA NewsIsAnEdge ==
  ASSUME TypeInv, [Next]_vars, NEW f \in Fds, f \in watched', Readable(f)'
  PROVE  \/ f \in ready'
         \/ f \in watched /\ sock[f] # Closed /\ (sock'[f] = sock[f] \/ Drains(f))
<1>0. f # Listen /\ f # Wakeup
  BY Descriptors
<1>1. sock'[f] # Closed
  BY <1>0 DEF Readable, HasData
<1>2. CASE f \notin watched
  <2>1. Watch
    BY <1>2, WatchedGrows
  <2>2. sock' = sock /\ EpollAdd(clientfd)
    BY <2>1 DEF Watch
  <2>3. Readable(f)
    BY <1>0, <2>2 DEF Readable, HasData
  <2> QED BY <1>2, <2>2, <2>3 DEF EpollAdd
<1>3. CASE f \in watched
  <2>1. sock[f] # Closed
    BY <1>0, <1>3 DEF TypeInv, TypeOK, KernelTypes, OpenFds
  <2> QED BY <1>1, <1>3, <2>1, SocketChanges DEF Acts, Accepts
<1> QED BY <1>2, <1>3

(* Only these statements take a worker from the socket it has in hand.     *)
LEMMA WhoHandsOver ==
  ASSUME NEW w \in Workers, Worker(w), wpc[w] \in {"peer", "read", "del", "close"}
  PROVE  \/ wpc[w] = "peer" /\ getPeerAddr(w)
         \/ wpc[w] = "read" /\ (Read(w) \/ ReadEnds(w))
         \/ wpc[w] = "del" /\ Unwatch(w)
         \/ wpc[w] = "close" /\ CloseClient(w)
  BY DEF Worker, Fetch, Quit, getPeerAddr, FindInetAddr, GiveUp, Read, ReadEnds, MessageRecv,
     Unwatch, CloseClient, RemoveSockfd2InetAddr, RemovTcpConnection, Leaves, Move

-----------------------------------------------------------------------------
(* The data of a watched socket is known: the socket has an edge, is among *)
(* the events, is queued for a worker, or is with one that has yet to read *)
(* it until it is empty.                                                   *)
DataComes(f) ==
  f \in watched /\ HasData(f) => Held(f, {"peer", "read"})

LEMMA DataComesStep ==
  ASSUME EventInv, [Next]_vars, NEW f \in Fds, DataComes(f), ~Overrun, ep # "clean"
  PROVE  DataComes(f)'
<1> DEFINE here == {"peer", "read"}
<1> USE DEF EventInv
<1> SUFFICES ASSUME f \in watched', HasData(f)' PROVE Held(f, here)'
  BY DEF DataComes
<1>1. Readable(f)'
  BY Descriptors DEF Readable
<1>2. CASE f \in ready'
  BY <1>2 DEF Held, Reported
<1>3. CASE f \notin ready'
  <2>1. sock[f] \in Peer /\ f \in watched
    BY <1>1, <1>3, NewsIsAnEdge DEF TypeInv, TypeOK, KernelTypes
  <2>2. ~Drains(f)
    BY <2>1, Drained DEF Drains, HasData
  <2>3. sock'[f] = sock[f] /\ HasData(f) /\ Readable(f)
    BY <1>1, <1>3, <2>1, <2>2, NewsIsAnEdge, Descriptors DEF HasData, Readable
  <2>4. Held(f, here)
    BY <2>1, <2>3 DEF DataComes
  <2>5. CASE EpollThread
    BY <2>3, <2>4, <2>5, EpollHands
  <2>6. CASE Stop \/ Environment \/ UNCHANGED vars
    BY <2>4, <2>6, EnvironmentHands
  <2>7. ASSUME NEW w \in Workers, Worker(w) PROVE Held(f, here)'
    <3>1. here \in SUBSET Handling /\ "peer" \in here
      BY DEF Handling
    <3>2. ASSUME fd[w] = f, wpc[w] \in here, wpc'[w] \notin here PROVE FALSE
      <4>1. wpc \in [Workers -> RecvStatements]
        BY DEF TypeInv, TypeOK, RecvTypes
      <4>2. CASE getPeerAddr(w)
        <5>1. sock[f].end = "rst"
          BY <2>3, <3>2, <4>1, <4>2 DEF getPeerAddr, Connected, Move, HasData
        <5> QED BY <2>3, <5>1 DEF HasData, ResetsOK, Reset, OpenFds
      <4>3. CASE Read(w) \/ ReadEnds(w)
        BY <2>3, <3>2, <4>1, <4>3 DEF Read, ReadEnds, Move
      <4> QED BY <2>7, <3>2, <4>2, <4>3, WhoHandsOver
    <3> QED BY <2>4, <2>7, <3>1, <3>2, WorkerHands
  <2> QED BY <2>5, <2>6, <2>7 DEF Next
<1> QED BY <1>2, <1>3

(* The safety of SentIsDelivered, whatever peers do: no step of the epoll  *)
(* thread, a worker or a peer leaves data in a watched socket that nobody  *)
(* is going to read, unless the service is overrun or has begun to clean   *)
(* up (TcpService.cpp:144, 181, 285).                                      *)
THEOREM DataComesCorrect ==
  ASSUME NEW f \in Fds
  PROVE  Spec => /\ DataComes(f)
                 /\ [][DataComes(f) => DataComes(f)' \/ Overrun \/ ep = "clean"]_vars
<1> DEFINE Step == DataComes(f) => DataComes(f)' \/ Overrun \/ ep = "clean"
<1>1. Init => DataComes(f)
  BY DEF Init, DataComes, HasData
<1>2. EventInv /\ [Next]_vars => [Step]_vars
  BY DataComesStep
<1> QED BY <1>1, <1>2, EventAlways, PTL DEF Spec

(* The end of a connection is known in the same way, until the worker that *)
(* finds nothing to read has closed the socket.                            *)
EndComes(f) ==
  f \in watched /\ sock[f].end = "fin" => Held(f, {"peer", "read", "del", "close"})

LEMMA EndComesStep ==
  ASSUME EventInv, CountOK, Flow, [Next]_vars,
         NEW f \in Fds, EndComes(f), ~Overrun, ep # "clean"
  PROVE  EndComes(f)'
<1> DEFINE here == {"peer", "read", "del", "close"}
<1> USE DEF EventInv
<1>0. ASSUME f \in watched' PROVE sock'[f] # Closed
  <2>1. TypeInv'
    BY TypeStep
  <2> QED BY <1>0, <2>1, Descriptors DEF TypeInv, TypeOK, KernelTypes, OpenFds
<1> SUFFICES ASSUME f \in watched', sock'[f].end = "fin" PROVE Held(f, here)'
  BY DEF EndComes
<1>1. Readable(f)'
  BY <1>0, Descriptors DEF Readable
<1>2. CASE f \in ready'
  BY <1>2 DEF Held, Reported
<1>3. CASE f \notin ready'
  <2>1. sock[f] \in Peer /\ f \in watched /\ sock[f] # Closed
    BY <1>1, <1>3, NewsIsAnEdge DEF TypeInv, TypeOK, KernelTypes
  <2>2. sock[f].end = "fin"
    <3>1. Drains(f) => sock'[f].end = sock[f].end
      BY <2>1, Drained DEF Drains
    <3> QED BY <1>1, <1>3, <3>1, NewsIsAnEdge
  <2>3. Readable(f)
    BY <2>1, <2>2, Descriptors DEF Readable
  <2>4. Held(f, here)
    BY <2>1, <2>2 DEF EndComes
  <2>5. CASE EpollThread
    BY <2>3, <2>4, <2>5, EpollHands
  <2>6. CASE Stop \/ Environment \/ UNCHANGED vars
    BY <2>4, <2>6, EnvironmentHands
  <2>7. ASSUME NEW w \in Workers, Worker(w) PROVE Held(f, here)'
    <3>1. here \in SUBSET Handling /\ "peer" \in here
      BY DEF Handling
    <3>2. ASSUME fd[w] = f, wpc[w] \in here, wpc'[w] \notin here PROVE FALSE
      <4>1. wpc \in [Workers -> RecvStatements]
        BY DEF TypeInv, TypeOK, RecvTypes
      <4>2. CASE getPeerAddr(w)
        BY <2>1, <2>2, <3>2, <4>1, <4>2 DEF getPeerAddr, Connected, Move
      <4>3. CASE Read(w) \/ Unwatch(w)
        BY <3>2, <4>1, <4>3 DEF Read, Unwatch, Move
      <4>4. CASE ReadEnds(w)
        <5>1. buff[w] # <<>> /\ wpc[w] = "read"
          BY <3>2, <4>1, <4>4 DEF ReadEnds, Move
        <5> QED BY <2>2, <3>2, <5>1 DEF Flow, HandsOK, HandOK
      <4>5. CASE CloseClient(w)
        BY <3>2, <4>5 DEF CloseClient, Close
      <4> QED BY <2>7, <3>2, <4>2, <4>3, <4>4, <4>5, WhoHandsOver
    <3> QED BY <2>4, <2>7, <3>1, <3>2, WorkerHands
  <2> QED BY <2>5, <2>6, <2>7 DEF Next
<1> QED BY <1>2, <1>3

(* The safety of EndedIsForgotten, of peers that wait for their turn: a    *)
(* connection its peer has closed is not forgotten in the epoll object,    *)
(* with the same exceptions (TcpService.cpp:294-300).                      *)
THEOREM EndComesCorrect ==
  ASSUME ~Ahead, NEW f \in Fds
  PROVE  Spec => /\ EndComes(f)
                 /\ [][EndComes(f) => EndComes(f)' \/ Overrun \/ ep = "clean"]_vars
<1> DEFINE Step == EndComes(f) => EndComes(f)' \/ Overrun \/ ep = "clean"
<1>1. Init => EndComes(f)
  BY Descriptors DEF Init, EndComes
<1>2. EventInv /\ CountOK /\ Flow /\ [Next]_vars => [Step]_vars
  BY EndComesStep
<1>3. Spec => [](EventInv /\ CountOK /\ Flow)
  BY EventAlways, CountAlways, FlowAlways, PTL
<1> QED BY <1>1, <1>2, <1>3, PTL DEF Spec

(* Peers that wait to be accepted are known: the listening socket has an   *)
(* edge, is among the events, or the epoll thread is in its accept loop.   *)
(* Those that an accept failed to take wait for the next peer's edge.      *)
Awaited == \E i \in 1..Len(backlog) : backlog[i].host \notin refused
PeersCome == Awaited => Listen \in ready \cup batch \/ ep \in Taking \cup {"accept"}

LEMMA PeersComeStep ==
  ASSUME TypeInv, [Next]_vars, PeersCome, ~Overrun
  PROVE  PeersCome'
<1> SUFFICES ASSUME Awaited'
             PROVE  Listen \in ready' \cup batch' \/ ep' \in Taking \cup {"accept"}
  BY DEF PeersCome
<1>0. \A f \in Fds : f # Listen
  BY Descriptors
<1>1. ASSUME UNCHANGED <<backlog, refused>>
      PROVE  Awaited /\ (Listen \in ready \cup batch \/ ep \in Taking \cup {"accept"})
  <2>1. Awaited
    BY <1>1 DEF Awaited
  <2> QED BY <2>1 DEF PeersCome
<1>2. CASE EpollThread
  <2>1. CASE SafeChangeEvents
    BY <1>1, <2>1 DEF SafeChangeEvents, At, Taking, peerVars, kernelVars
  <2>2. CASE epoll_pwait
    <3>1. /\ UNCHANGED <<backlog, refused>> /\ ep = "wait"
          /\ \E events : batch' = events /\ ready' = {f \in ready \ events : Readable(f)}
      BY <2>2 DEF epoll_pwait, At, peerVars
    <3>2. Listen \in ready
      BY <1>1, <3>1 DEF Taking, TypeInv, PlacesOK
    <3>3. Readable(Listen)
      <4>1. backlog # <<>>
        BY <1>1, <3>1 DEF Awaited, TypeInv, TypeOK, PeerTypes
      <4> QED BY <4>1, Descriptors DEF Readable
    <3> QED BY <3>1, <3>2, <3>3
  <2>3. CASE EventsEnd
    BY <1>1, <2>3 DEF EventsEnd, At, Taking, Overrun, peerVars, kernelVars
  <2>4. CASE ListenEvent
    BY <2>4 DEF ListenEvent, At
  <2>5. CASE WakeupEvent \/ ReadEvent
    BY <1>0, <1>1, <2>5, Descriptors
       DEF WakeupEvent, ReadEvent, TakeEvent, At, Taking, peerVars, kernelVars
  <2>6. CASE Accept \/ Watch \/ AddTcpConnection \/ SetSockfd2InetAddr
    BY <2>6 DEF Accept, Watch, AddTcpConnection, SetSockfd2InetAddr, At, Taking
  <2>7. CASE AcceptEnds
    <3>1. backlog = <<>> /\ backlog' = backlog
      BY <2>7 DEF AcceptEnds, peerVars
    <3> QED BY <3>1 DEF Awaited
  <2>8. CASE AcceptFails
    <3>1. refused' = {backlog'[i].host : i \in DOMAIN backlog'}
      BY <2>8 DEF AcceptFails
    <3>2. DOMAIN backlog' = 1..Len(backlog')
      <4>1. backlog' \in Seq(Peer)
        BY <2>8, Behead DEF AcceptFails, TypeInv, TypeOK, PeerTypes
      <4> QED BY <4>1
    <3> QED BY <3>1, <3>2 DEF Awaited
  <2>9. CASE CloseAll
    BY <2>9 DEF CloseAll, Awaited
  <2>10. CASE \E w \in Workers : ClearThreadPool(w)
    BY <1>1, <2>10 DEF ClearThreadPool, peerVars, kernelVars, epollVars
  <2> QED BY <1>2, <2>1, <2>2, <2>3, <2>4, <2>5, <2>6, <2>7, <2>8, <2>9, <2>10 DEF EpollThread
<1>3. CASE Stop \/ Environment \/ UNCHANGED vars
  <2>1. ASSUME NEW k \in 1..Len(backlog), PeerActsEarly(k)
        PROVE  Listen \in ready' \cup batch' \/ ep' \in Taking \cup {"accept"}
    <3>1. UNCHANGED <<ready, batch, ep, refused>>
      BY <2>1 DEF PeerActsEarly, kernelVars, epollVars
    <3>2. PICK d \in Acted(backlog[k]) : backlog' = [backlog EXCEPT ![k] = d]
      BY <2>1 DEF PeerActsEarly
    <3>3. backlog[k] \in Peer /\ backlog[k].end = "open" /\ sent \in [Hosts -> Nat]
      BY <2>1 DEF PeerActsEarly, TypeInv, TypeOK, PeerTypes
    <3>4. d.host = backlog[k].host
      BY <3>3, ActedIs
    <3>5. \A i \in 1..Len(backlog') : i \in 1..Len(backlog) /\ backlog'[i].host = backlog[i].host
      BY <3>2, <3>4 DEF TypeInv, TypeOK, PeerTypes
    <3>6. Awaited
      BY <3>1, <3>5 DEF Awaited
    <3> QED BY <3>1, <3>6 DEF PeersCome
  <2>2. CASE \E h \in Hosts : Connect(h)
    BY <2>2 DEF Connect
  <2>3. CASE Stop \/ UNCHANGED vars \/ \E f \in Fds : PeerActs(f)
    BY <1>1, <2>3 DEF Stop, PeerActs, vars, peerVars, kernelVars, epollVars
  <2> QED BY <1>3, <2>1, <2>2, <2>3 DEF Environment
<1>4. ASSUME NEW w \in Workers, Worker(w)
      PROVE  Listen \in ready' \cup batch' \/ ep' \in Taking \cup {"accept"}
  <2>1. UNCHANGED <<backlog, refused, batch, ep>>
    BY <1>4 DEF Worker, Fetch, Quit, getPeerAddr, FindInetAddr, GiveUp, Read, ReadEnds,
       MessageRecv, Unwatch, CloseClient, RemoveSockfd2InetAddr, RemovTcpConnection,
       peerVars, epollVars
  <2>2. Listen \in ready => Listen \in ready'
    <3>1. CASE Unwatch(w) \/ CloseClient(w)
      <4>1. fd[w] \in Fds
        BY <3>1 DEF Unwatch, CloseClient, Move, TypeInv, PlacesOK
      <4> QED BY <1>0, <3>1, <4>1 DEF Unwatch, EpollDel, CloseClient, Close
    <3>2. CASE ~(Unwatch(w) \/ CloseClient(w))
      BY <1>4, <3>2 DEF Worker, Fetch, Quit, getPeerAddr, FindInetAddr, GiveUp, Read, ReadEnds,
         MessageRecv, RemoveSockfd2InetAddr, RemovTcpConnection, kernelVars
    <3> QED BY <3>1, <3>2
  <2> QED BY <1>1, <2>1, <2>2
<1> QED BY <1>2, <1>3, <1>4 DEF Next

(* No step leaves a peer in the backlog that nobody is going to accept,    *)
(* unless an accept fails (the peers it leaves are refused) or the service *)
(* has no room for events left (TcpService.cpp:149, 156-175).              *)
THEOREM PeersComeCorrect ==
  Spec => /\ PeersCome
          /\ [][PeersCome => PeersCome' \/ Overrun]_vars
<1> DEFINE Step == PeersCome => PeersCome' \/ Overrun
<1>1. Init => PeersCome
  BY DEF Init, PeersCome, Awaited
<1>2. TypeInv /\ [Next]_vars => [Step]_vars
  BY PeersComeStep
<1> QED BY <1>1, <1>2, TypesAlways, PTL DEF Spec
=============================================================================
