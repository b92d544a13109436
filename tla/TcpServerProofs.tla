-------------------------- MODULE TcpServerProofs ---------------------------
(***************************************************************************)
(* For every number of workers and clients: a connection is never in two   *)
(* places nor lost, and the threads of TcpServer do what ConnectionQueue   *)
(* promises.                                                               *)
(***************************************************************************)
EXTENDS TcpServer, FiniteSetTheorems, SequenceTheorems, TLAPS

-----------------------------------------------------------------------------
(* What stands for induction over the natural numbers.                       *)

(* A set of natural numbers has a least element: what stands for induction
   where a proof needs one.                                                  *)
LEMMA LeastNumber ==
  ASSUME NEW T \in SUBSET Nat, T # {}
  PROVE  \E x \in T : \A y \in T : x <= y
<1>1. IsWellFoundedOn(OpToRel(<, Nat), Nat)
  BY NatLessThanWellFounded
<1>2. PICK x \in T : \A y \in T : ~ (<<y, x>> \in OpToRel(<, Nat))
  BY <1>1, WFMin
<1>3. \A y \in T : ~(y < x)
  BY <1>2 DEF OpToRel
<1> QED
  BY <1>3

LEMMA InductiveSet ==
  ASSUME NEW T \in SUBSET Nat, 0 \in T, \A n \in T : n + 1 \in T
  PROVE  T = Nat
<1> SUFFICES ASSUME Nat \ T # {}
             PROVE  FALSE
  OBVIOUS
<1>1. PICK x \in Nat \ T : \A y \in Nat \ T : x <= y
  BY LeastNumber
<1>2. x # 0 /\ x - 1 \in Nat
  BY <1>1
<1>3. x - 1 \in T
  BY <1>1, <1>2
<1> QED
  BY <1>1, <1>3

-----------------------------------------------------------------------------
(* The inductive invariant.                                                  *)

Typed ==
  /\ client \in [Client -> {"new", "connected", "answered", "gone", "reset", "cut"}]
  /\ backlog \in Seq(Client)
  /\ fds \in [Fd -> Client \cup {Nobody}]
  /\ queue \in Seq(Fd \cup {NoFd})
  /\ waiting \subseteq Worker
  /\ mainPc \in {"accept", "lock", "push", "notify"}
  /\ mainFd \in Fd \cup {NoFd}
  /\ pc \in [Worker -> {"lock", "check", "wait", "recv", "send", "close"}]
  /\ fd \in [Worker -> Fd \cup {NoFd}]

(* A worker has a connection from Dequeue to close only, and notify_one and a
   timeout reach none that has one.                                           *)
IdleAreEmpty ==
  /\ \A w \in Worker : pc[w] \in {"lock", "check", "wait"} => fd[w] = NoFd
  /\ \A w \in waiting : pc[w] = "wait"

(* A client connects once and is at one place of the kernel: without it there
   need not be a free descriptor for the next one.                            *)
OncePerClient ==
  /\ \A c \in Client : client[c] = "new" =>
       /\ \A i \in DOMAIN backlog : backlog[i] # c
       /\ \A n \in Fd : fds[n] # c
  /\ \A i, j \in DOMAIN backlog : backlog[i] = backlog[j] => i = j
  /\ \A i \in DOMAIN backlog, n \in Fd : fds[n] # backlog[i]
  /\ \A m, n \in Fd : fds[m] = fds[n] /\ fds[n] # Nobody => m = n

\* Where a descriptor can be.
InQueue(n)  == \E i \in DOMAIN queue : queue[i] = n
AtWorker(n) == \E w \in Worker : fd[w] = n

(* OneHolder without counting: no place holds a descriptor twice, no two places
   share one, and the open ones are those some place holds.                   *)
OnePlace ==
  /\ \A n \in Fd : \A i, j \in DOMAIN queue : queue[i] = n /\ queue[j] = n => i = j
  /\ \A n \in Fd : \A v, w \in Worker : fd[v] = n /\ fd[w] = n => v = w
  /\ \A n \in Fd : /\ ~(InQueue(n) /\ AtWorker(n))
                   /\ ~(InQueue(n) /\ InRun(n))
                   /\ ~(AtWorker(n) /\ InRun(n))
  /\ \A n \in Fd : fds[n] # Nobody <=> InQueue(n) \/ AtWorker(n) \/ InRun(n)

IInv == Typed /\ IdleAreEmpty /\ OncePerClient /\ OnePlace


LEMMA ThreadFacts ==
  /\ Nobody \notin Client /\ Nobody # Main /\ Nobody \notin Worker
  /\ IsFiniteSet(Client) /\ IsFiniteSet(Worker)
  /\ Cardinality(Client) \in Nat /\ Cardinality(Worker) \in Nat
  /\ \A n \in Fd : n \in Nat /\ n # NoFd
BY ServerAssumption, FS_CardinalityType DEF Fd, NoFd

-----------------------------------------------------------------------------
(* The clients and accept.                                                   *)

LEMMA InitEstablishes == Init => IInv
BY ThreadFacts
DEF Init, IInv, Typed, IdleAreEmpty, OncePerClient, OnePlace, InQueue, AtWorker, InRun

LEMMA ConnectKeeps ==
  ASSUME IInv, NEW c \in Client, Connect(c)
  PROVE  IInv'
<1>1. Typed'
  BY DEF IInv, Typed, Connect, server
<1>2. IdleAreEmpty'
  BY DEF IInv, IdleAreEmpty, Connect, server
<1>3. OncePerClient'
  <2>1. /\ backlog \in Seq(Client) /\ backlog' = Append(backlog, c) /\ client[c] = "new"
        /\ client' = [client EXCEPT ![c] = "connected"] /\ fds' = fds
        /\ client \in [Client -> {"new", "connected", "answered", "gone", "reset", "cut"}]
    BY DEF IInv, Typed, Connect, server
  <2>2. /\ Len(backlog) \in Nat
        /\ DOMAIN backlog = 1 .. Len(backlog) /\ DOMAIN backlog' = 1 .. (Len(backlog) + 1)
        /\ \A i \in DOMAIN backlog : backlog'[i] = backlog[i]
        /\ backlog'[Len(backlog) + 1] = c
    BY <2>1
  <2>3. \A i \in DOMAIN backlog' : i \in DOMAIN backlog \/ i = Len(backlog) + 1
    BY <2>2
  <2>4. \A d \in Client : client'[d] = "new" => client[d] = "new" /\ d # c
    BY <2>1
  <2> QED
    BY <2>1, <2>2, <2>3, <2>4 DEF IInv, OncePerClient
<1>4. OnePlace'
  BY DEF IInv, OnePlace, InQueue, AtWorker, InRun, Connect, server
<1> QED
  BY <1>1, <1>2, <1>3, <1>4 DEF IInv

LEMMA RequestKeeps ==
  ASSUME IInv, NEW c \in Client, Request(c) \/ HangUp(c)
  PROVE  IInv'
<1>1. Typed'
  BY DEF IInv, Typed, Request, HangUp, server
<1>2. IdleAreEmpty'
  BY DEF IInv, IdleAreEmpty, Request, HangUp, server
<1>3. OncePerClient'
  BY DEF IInv, Typed, OncePerClient, Request, HangUp, server
<1>4. OnePlace'
  BY DEF IInv, OnePlace, InQueue, AtWorker, InRun, Request, HangUp, server
<1> QED
  BY <1>1, <1>2, <1>3, <1>4 DEF IInv

(* A client in the backlog has no descriptor yet, and there are as many
   descriptors as clients.                                                    *)
LEMMA FreeDescriptor ==
  ASSUME IInv, backlog # <<>>
  PROVE  LowestFree \in Fd /\ fds[LowestFree] = Nobody
<1> DEFINE c == Head(backlog)
           Free == {n \in Fd : fds[n] = Nobody}
<1>1. c \in Client /\ \A n \in Fd : fds[n] # c
  BY DEF IInv, Typed, OncePerClient
<1>2. Free # {}
  <2> SUFFICES ASSUME \A n \in Fd : fds[n] # Nobody
               PROVE  FALSE
    OBVIOUS
  <2> DEFINE g == [d \in Fd |-> fds[d]]
  <2>1. IsFiniteSet(Fd) /\ Cardinality(Fd) = Cardinality(Client)
    BY ThreadFacts, FS_Interval DEF Fd
  <2>2. IsFiniteSet(Client \ {c}) /\ Cardinality(Client \ {c}) = Cardinality(Client) - 1
    BY <1>1, ThreadFacts, FS_RemoveElement
  <2>3. g \in [Fd -> Client \ {c}]
    BY <1>1 DEF IInv, Typed
  <2>4. Cardinality(Client \ {c}) < Cardinality(Fd)
    BY <2>1, <2>2, ThreadFacts
  <2> HIDE DEF g, c
  <2>5. PICK d \in Fd, e \in Fd : d # e /\ g[d] = g[e]
    BY <2>1, <2>2, <2>3, <2>4, FS_PigeonHole
  <2> QED
    BY <2>5 DEF g, IInv, OncePerClient
<1>3. PICK low \in Free : \A k \in Free : low <= k
  <2>1. Free \in SUBSET Nat
    BY DEF Fd
  <2> HIDE DEF Free
  <2> QED
    BY <1>2, <2>1, LeastNumber
<1>4. \E n \in Fd : fds[n] = Nobody /\ \A k \in Fd : fds[k] = Nobody => n <= k
  BY <1>3
<1> QED
  BY <1>4 DEF LowestFree

LEMMA AcceptKeeps ==
  ASSUME IInv, Accept
  PROVE  IInv'
<1> DEFINE n == LowestFree
           c == Head(backlog)
<1>1. n \in Fd /\ fds[n] = Nobody
  BY FreeDescriptor DEF Accept
<1> HIDE DEF n
<1>2. /\ backlog \in Seq(Client) /\ backlog # <<>> /\ backlog' = Tail(backlog)
      /\ fds \in [Fd -> Client \cup {Nobody}] /\ fds' = [fds EXCEPT ![n] = c]
      /\ mainPc = "accept" /\ mainPc' = "lock" /\ mainFd' = n
      /\ UNCHANGED <<client, queue, waiting, pc, fd>>
  BY DEF IInv, Typed, Accept, n
<1>3. /\ Len(backlog) \in Nat \ {0} /\ c \in Client /\ c = backlog[1]
      /\ DOMAIN backlog = 1 .. Len(backlog) /\ DOMAIN backlog' = 1 .. (Len(backlog) - 1)
      /\ \A i \in DOMAIN backlog' : backlog'[i] = backlog[i + 1] /\ i + 1 \in DOMAIN backlog
  BY <1>2
<1> HIDE DEF c
<1>4. Typed'
  BY <1>1, <1>2, <1>3 DEF IInv, Typed
<1>5. IdleAreEmpty'
  BY <1>2 DEF IInv, IdleAreEmpty
<1>6. OncePerClient'
  <2>1. \A i \in DOMAIN backlog' : backlog'[i] # c
    BY <1>3 DEF IInv, OncePerClient
  <2>2. \A m \in Fd : fds[m] # c
    BY <1>3 DEF IInv, OncePerClient
  <2>3. client[c] # "new"
    BY <1>3 DEF IInv, OncePerClient
  <2>4. \A m \in Fd : fds'[m] = IF m = n THEN c ELSE fds[m]
    BY <1>1, <1>2
  <2>5. \A d \in Client : client'[d] = "new" =>
          /\ \A i \in DOMAIN backlog' : backlog'[i] # d
          /\ \A m \in Fd : fds'[m] # d
    BY <1>2, <1>3, <2>3, <2>4 DEF IInv, OncePerClient
  <2>6. \A i, j \in DOMAIN backlog' : backlog'[i] = backlog'[j] => i = j
    <3>1. \A i, j \in DOMAIN backlog' : backlog'[i] = backlog'[j] => i + 1 = j + 1
      BY <1>3 DEF IInv, OncePerClient
    <3> QED
      BY <1>3, <3>1
  <2>7. \A i \in DOMAIN backlog', m \in Fd : fds'[m] # backlog'[i]
    BY <1>3, <2>1, <2>4 DEF IInv, OncePerClient
  <2>8. \A k, m \in Fd : fds'[k] = fds'[m] /\ fds'[m] # Nobody => k = m
    BY <2>2, <2>4 DEF IInv, OncePerClient
  <2> QED
    BY <2>5, <2>6, <2>7, <2>8 DEF OncePerClient
<1>7. OnePlace'
  <2>1. ~InQueue(n) /\ ~AtWorker(n)
    BY <1>1 DEF IInv, OnePlace
  <2>2. \A m \in Fd : (InRun(m)' <=> m = n) /\ ~InRun(m)
    BY <1>2 DEF InRun
  <2>3. \A m \in Fd : (InQueue(m)' <=> InQueue(m)) /\ (AtWorker(m)' <=> AtWorker(m))
    BY <1>2 DEF InQueue, AtWorker
  <2>4. \A m \in Fd : fds'[m] # Nobody <=> m = n \/ fds[m] # Nobody
    BY <1>2, <1>3, ThreadFacts
  <2> QED
    BY <1>2, <2>1, <2>2, <2>3, <2>4 DEF IInv, OnePlace
<1> QED
  BY <1>4, <1>5, <1>6, <1>7 DEF IInv

LEMMA AcceptFailsKeeps ==
  ASSUME IInv, AcceptFails
  PROVE  IInv'
<1>1. Typed'
  BY DEF IInv, Typed, AcceptFails
<1>2. IdleAreEmpty'
  BY DEF IInv, IdleAreEmpty, AcceptFails
<1>3. OncePerClient'
  BY DEF IInv, OncePerClient, AcceptFails
<1>4. OnePlace'
  BY ThreadFacts DEF IInv, OnePlace, InQueue, AtWorker, InRun, AcceptFails
<1> QED
  BY <1>1, <1>2, <1>3, <1>4 DEF IInv

-----------------------------------------------------------------------------
(* Queue and Dequeue.                                                        *)

LEMMA MainLockKeeps ==
  ASSUME IInv, MainLock
  PROVE  IInv'
<1>1. Typed' /\ IdleAreEmpty' /\ OncePerClient'
  BY DEF IInv, Typed, IdleAreEmpty, OncePerClient, MainLock, external
<1>2. OnePlace'
  BY DEF IInv, OnePlace, InQueue, AtWorker, InRun, MainLock, external
<1> QED
  BY <1>1, <1>2 DEF IInv

LEMMA PushKeeps ==
  ASSUME IInv, Push
  PROVE  IInv'
<1>1. /\ queue \in Seq(Fd \cup {NoFd}) /\ mainFd \in Fd \cup {NoFd}
      /\ queue' = Append(queue, mainFd)
      /\ mainPc = "push" /\ mainPc' = "notify"
      /\ UNCHANGED <<client, backlog, fds, waiting, mainFd, pc, fd>>
  BY DEF IInv, Typed, Push, external
<1>2. /\ Len(queue) \in Nat
      /\ DOMAIN queue = 1 .. Len(queue) /\ DOMAIN queue' = 1 .. (Len(queue) + 1)
      /\ \A i \in DOMAIN queue : queue'[i] = queue[i]
      /\ queue'[Len(queue) + 1] = mainFd
      /\ queue' \in Seq(Fd \cup {NoFd})
  BY <1>1
<1>3. \A i \in DOMAIN queue' : i \in DOMAIN queue \/ i = Len(queue) + 1
  BY <1>2
<1>4. Typed' /\ IdleAreEmpty' /\ OncePerClient'
  BY <1>1, <1>2 DEF IInv, Typed, IdleAreEmpty, OncePerClient
<1>5. OnePlace'
  <2>1. \A n \in Fd : InQueue(n)' <=> InQueue(n) \/ n = mainFd
    BY <1>2, <1>3 DEF InQueue
  <2>2. \A n \in Fd : (InRun(n) <=> n = mainFd) /\ ~InRun(n)'
    BY <1>1 DEF InRun
  <2>3. \A n \in Fd : AtWorker(n)' <=> AtWorker(n)
    BY <1>1 DEF AtWorker
  <2>4. \A n \in Fd : \A i, j \in DOMAIN queue' : queue'[i] = n /\ queue'[j] = n => i = j
    BY <1>2, <1>3, <2>2 DEF IInv, OnePlace, InQueue
  <2> QED
    BY <1>1, <2>1, <2>2, <2>3, <2>4 DEF IInv, OnePlace
<1> QED
  BY <1>4, <1>5 DEF IInv

LEMMA NotifyKeeps ==
  ASSUME IInv, Notify
  PROVE  IInv'
<1>1. /\ mainPc = "notify" /\ mainPc' = "accept"
      /\ UNCHANGED <<client, backlog, fds, queue, mainFd, fd>>
      /\ \/ UNCHANGED <<waiting, pc>>
         \/ \E w \in waiting : /\ waiting' = waiting \ {w}
                               /\ pc' = [pc EXCEPT ![w] = "lock"]
  BY DEF Notify, external
<1>2. Typed' /\ IdleAreEmpty'
  BY <1>1 DEF IInv, Typed, IdleAreEmpty
<1>3. OncePerClient'
  BY <1>1 DEF IInv, OncePerClient
<1>4. OnePlace'
  BY <1>1 DEF IInv, OnePlace, InQueue, AtWorker, InRun
<1> QED
  BY <1>2, <1>3, <1>4 DEF IInv

\* Lock, Wait and TimeOut move a worker that has no connection.
LEMMA IdleStepKeeps ==
  ASSUME IInv, NEW w \in Worker, Lock(w) \/ Wait(w) \/ TimeOut(w)
  PROVE  IInv'
<1>1. /\ pc[w] \in {"lock", "check", "wait"}
      /\ \/ waiting' = waiting
         \/ waiting' = waiting \cup {w}
         \/ waiting' = waiting \ {w}
      /\ w \in waiting' => pc' = [pc EXCEPT ![w] = "wait"]
      /\ \E l \in {"lock", "check", "wait"} : pc' = [pc EXCEPT ![w] = l]
      /\ UNCHANGED <<client, backlog, fds, queue, mainPc, mainFd, fd>>
  BY DEF IInv, IdleAreEmpty, Lock, Wait, TimeOut, external
<1>2. Typed'
  BY <1>1 DEF IInv, Typed
<1>3. IdleAreEmpty'
  BY <1>1 DEF IInv, Typed, IdleAreEmpty
<1>4. OncePerClient'
  BY <1>1 DEF IInv, OncePerClient
<1>5. OnePlace'
  BY <1>1 DEF IInv, OnePlace, InQueue, AtWorker, InRun
<1> QED
  BY <1>2, <1>3, <1>4, <1>5 DEF IInv

LEMMA TakeKeeps ==
  ASSUME IInv, NEW w \in Worker, Take(w)
  PROVE  IInv'
<1> DEFINE q == Head(queue)
<1>1. /\ queue \in Seq(Fd \cup {NoFd}) /\ queue # <<>> /\ queue' = Tail(queue)
      /\ pc[w] = "check" /\ pc' = [pc EXCEPT ![w] = "recv"]
      /\ fd \in [Worker -> Fd \cup {NoFd}] /\ fd' = [fd EXCEPT ![w] = q]
      /\ UNCHANGED <<client, backlog, fds, waiting, mainPc, mainFd>>
  BY DEF IInv, Typed, Take, external
<1>2. /\ Len(queue) \in Nat \ {0} /\ q \in Fd \cup {NoFd} /\ q = queue[1]
      /\ DOMAIN queue = 1 .. Len(queue) /\ DOMAIN queue' = 1 .. (Len(queue) - 1)
      /\ \A i \in DOMAIN queue' : queue'[i] = queue[i + 1] /\ i + 1 \in DOMAIN queue
      /\ queue' \in Seq(Fd \cup {NoFd})
  BY <1>1
<1> HIDE DEF q
<1>3. fd[w] = NoFd /\ w \notin waiting
  BY <1>1 DEF IInv, IdleAreEmpty
<1>4. Typed' /\ IdleAreEmpty'
  BY <1>1, <1>2, <1>3 DEF IInv, Typed, IdleAreEmpty
<1>5. OncePerClient'
  BY <1>1 DEF IInv, OncePerClient
<1>6. OnePlace'
  <2>1. \A n \in Fd : AtWorker(n)' <=> AtWorker(n) \/ n = q
    BY <1>1, <1>3, ThreadFacts DEF AtWorker
  <2>2. \A n \in Fd : InQueue(n) => InQueue(n)' \/ n = q
    <3> SUFFICES ASSUME NEW n \in Fd, NEW i \in DOMAIN queue, queue[i] = n, n # q
                 PROVE  \E j \in DOMAIN queue' : queue'[j] = n
      BY DEF InQueue
    <3>1. i - 1 \in DOMAIN queue'
      BY <1>2
    <3>2. queue'[i - 1] = n
      BY <1>2, <3>1
    <3> QED
      BY <3>1, <3>2
  <2>3. \A n \in Fd : InQueue(n)' => InQueue(n) /\ n # q
    <3> SUFFICES ASSUME NEW n \in Fd, NEW i \in DOMAIN queue', queue'[i] = n
                 PROVE  InQueue(n) /\ n # q
      BY DEF InQueue
    <3>1. i + 1 \in DOMAIN queue /\ queue[i + 1] = n /\ 1 \in DOMAIN queue /\ i + 1 # 1
      BY <1>2
    <3> QED
      BY <1>2, <3>1 DEF InQueue, IInv, OnePlace
  <2>4. q \in Fd => InQueue(q)
    BY <1>2 DEF InQueue
  <2>5. \A n \in Fd : InRun(n)' <=> InRun(n)
    BY <1>1 DEF InRun
  <2>6. \A n \in Fd : \A i, j \in DOMAIN queue' : queue'[i] = n /\ queue'[j] = n => i = j
    <3>1. \A n \in Fd : \A i, j \in DOMAIN queue' :
            queue'[i] = n /\ queue'[j] = n => i + 1 = j + 1
      BY <1>2 DEF IInv, OnePlace
    <3> QED
      BY <1>2, <3>1
  <2>7. \A n \in Fd : \A u, v \in Worker : fd'[u] = n /\ fd'[v] = n => u = v
    BY <1>1, <2>4, ThreadFacts DEF IInv, OnePlace, AtWorker
  <2> QED
    BY <1>1, <2>1, <2>2, <2>3, <2>4, <2>5, <2>6, <2>7 DEF IInv, OnePlace
<1> QED
  BY <1>4, <1>5, <1>6 DEF IInv

-----------------------------------------------------------------------------
(* Handling a connection.                                                    *)

LEMMA RecvKeeps ==
  ASSUME IInv, NEW w \in Worker, Recv(w)
  PROVE  IInv'
<1>1. Typed' /\ IdleAreEmpty' /\ OncePerClient'
  BY DEF IInv, Typed, IdleAreEmpty, OncePerClient, Recv, external
<1>2. OnePlace'
  BY DEF IInv, OnePlace, InQueue, AtWorker, InRun, Recv, external
<1> QED
  BY <1>1, <1>2 DEF IInv

LEMMA SendKeeps ==
  ASSUME IInv, NEW w \in Worker, Send(w)
  PROVE  IInv'
<1>1. /\ pc[w] = "send" /\ pc' = [pc EXCEPT ![w] = "close"]
      /\ \/ client' = client
         \/ \E c : client[c] = "connected" /\ client' = [client EXCEPT ![c] = "answered"]
      /\ UNCHANGED <<backlog, fds, queue, waiting, mainPc, mainFd, fd>>
  BY DEF Send
<1>2. Typed' /\ IdleAreEmpty' /\ OncePerClient'
  BY <1>1 DEF IInv, Typed, IdleAreEmpty, OncePerClient
<1>3. OnePlace'
  BY <1>1 DEF IInv, OnePlace, InQueue, AtWorker, InRun
<1> QED
  BY <1>2, <1>3 DEF IInv

\* The end of the process moves nothing but the clients it cuts off.
LEMMA DieKeeps ==
  ASSUME IInv, Die
  PROVE  IInv'
<1>1. /\ client' \in [Client -> {"new", "connected", "answered", "gone", "reset", "cut"}]
      /\ \A c \in Client : client'[c] = "new" => client[c] = "new"
      /\ UNCHANGED <<backlog, fds, queue, waiting, mainPc, mainFd, pc, fd>>
  BY DEF IInv, Typed, Die
<1>2. Typed' /\ IdleAreEmpty' /\ OncePerClient'
  BY <1>1 DEF IInv, Typed, IdleAreEmpty, OncePerClient
<1>3. OnePlace'
  BY <1>1 DEF IInv, OnePlace, InQueue, AtWorker, InRun
<1> QED
  BY <1>2, <1>3 DEF IInv

LEMMA CloseKeeps ==
  ASSUME IInv, NEW w \in Worker, Close(w)
  PROVE  IInv'
<1> DEFINE n == fd[w]
<1>1. /\ pc[w] = "close" /\ pc' = [pc EXCEPT ![w] = "lock"]
      /\ fd \in [Worker -> Fd \cup {NoFd}] /\ fd' = [fd EXCEPT ![w] = NoFd]
      /\ fds \in [Fd -> Client \cup {Nobody}]
      /\ fds' = IF n = NoFd THEN fds ELSE [fds EXCEPT ![n] = Nobody]
      /\ UNCHANGED <<client, backlog, queue, waiting, mainPc, mainFd>>
      /\ n \in Fd \cup {NoFd}
  BY DEF IInv, Typed, Close
<1> HIDE DEF n
<1>2. \A m \in Fd : fds'[m] = IF m = n THEN Nobody ELSE fds[m]
  BY <1>1, ThreadFacts
<1>3. Typed'
  BY <1>1 DEF IInv, Typed
<1>4. IdleAreEmpty'
  BY <1>1 DEF IInv, Typed, IdleAreEmpty
<1>5. OncePerClient'
  <2>1. \A m \in Fd : fds'[m] = fds[m] \/ fds'[m] = Nobody
    BY <1>2
  <2>2. \A i \in DOMAIN backlog : backlog[i] \in Client
    BY DEF IInv, Typed
  <2> QED
    BY <1>1, <2>1, <2>2, ThreadFacts DEF IInv, OncePerClient
<1>6. OnePlace'
  <2>1. \A m \in Fd : AtWorker(m)' <=> AtWorker(m) /\ m # n
    BY <1>1, ThreadFacts DEF IInv, OnePlace, AtWorker, n
  <2>2. n \in Fd => AtWorker(n)
    BY DEF AtWorker, n
  <2>3. \A m \in Fd : (InQueue(m)' <=> InQueue(m)) /\ (InRun(m)' <=> InRun(m))
    BY <1>1 DEF InQueue, InRun
  <2>4. \A m \in Fd : \A u, v \in Worker : fd'[u] = m /\ fd'[v] = m => u = v
    BY <1>1, ThreadFacts DEF IInv, OnePlace
  <2> QED
    BY <1>1, <1>2, <2>1, <2>2, <2>3, <2>4 DEF IInv, OnePlace
<1> QED
  BY <1>3, <1>4, <1>5, <1>6 DEF IInv

LEMMA StepKeeps == IInv /\ [Next]_vars => IInv'
<1> SUFFICES ASSUME IInv, [Next]_vars
             PROVE  IInv'
  OBVIOUS
<1>1. CASE \E c \in Client : Connect(c) \/ Request(c) \/ HangUp(c)
  BY <1>1, ConnectKeeps, RequestKeeps
<1>2. CASE Run
  BY <1>2, AcceptKeeps, MainLockKeeps, PushKeeps, NotifyKeeps DEF Run
<1>3. CASE AcceptFails
  BY <1>3, AcceptFailsKeeps
<1>4. CASE \E w \in Worker : HandleConnections(w) \/ TimeOut(w)
  BY <1>4, IdleStepKeeps, TakeKeeps, RecvKeeps, SendKeeps, CloseKeeps, DieKeeps
  DEF HandleConnections, Handle, Abort, BrokenPipe
<1>5. CASE UNCHANGED vars
  <2>1. Typed' /\ IdleAreEmpty' /\ OncePerClient'
    BY <1>5 DEF IInv, Typed, IdleAreEmpty, OncePerClient, vars, external, server
  <2>2. OnePlace'
    BY <1>5 DEF IInv, OnePlace, InQueue, AtWorker, InRun, vars, external, server
  <2> QED
    BY <2>1, <2>2 DEF IInv
<1> QED
  BY <1>1, <1>2, <1>3, <1>4, <1>5 DEF Next

LEMMA Invariance == Spec => []IInv
BY InitEstablishes, StepKeeps, PTL DEF Spec

-----------------------------------------------------------------------------
(* One holder.                                                               *)

\* What holds for at most one element has as many as there is one.
LEMMA AtMostOne ==
  ASSUME NEW S, \A x, y \in S : x = y
  PROVE  Cardinality(S) = IF S = {} THEN 0 ELSE 1
<1>1. CASE S = {}
  BY <1>1, FS_EmptySet
<1>2. CASE S # {}
  <2>1. PICK x \in S : S = {x}
    BY <1>2
  <2> QED
    BY <1>2, <2>1, FS_Singleton
<1> QED
  BY <1>1, <1>2

(* An open descriptor is in one place and a closed one in none, however Run and
   the workers interleave, clients hang up and accept fails.                  *)
THEOREM OneHolderAlways == Spec => []OneHolder
<1>1. IInv => OneHolder
  <2> SUFFICES ASSUME IInv, NEW n \in Fd
               PROVE  Cardinality(Queued(n)) + Cardinality(Holders(n)) + (IF InRun(n) THEN 1 ELSE 0)
                        = IF fds[n] = Nobody THEN 0 ELSE 1
    BY DEF OneHolder
  <2>1. Cardinality(Queued(n)) = IF InQueue(n) THEN 1 ELSE 0
    <3>1. \A i, j \in Queued(n) : i = j
      BY DEF IInv, OnePlace, Queued
    <3>2. Queued(n) = {} <=> ~InQueue(n)
      BY DEF Queued, InQueue
    <3> QED
      BY <3>1, <3>2, AtMostOne
  <2>2. Cardinality(Holders(n)) = IF AtWorker(n) THEN 1 ELSE 0
    <3>1. \A v, w \in Holders(n) : v = w
      BY DEF IInv, OnePlace, Holders
    <3>2. Holders(n) = {} <=> ~AtWorker(n)
      BY DEF Holders, AtWorker
    <3> QED
      BY <3>1, <3>2, AtMostOne
  <2>3. /\ ~(InQueue(n) /\ AtWorker(n))
        /\ ~(InQueue(n) /\ InRun(n))
        /\ ~(AtWorker(n) /\ InRun(n))
        /\ fds[n] # Nobody <=> InQueue(n) \/ AtWorker(n) \/ InRun(n)
    BY DEF IInv, OnePlace
  <2> QED
    BY <2>1, <2>2, <2>3
<1> QED
  BY <1>1, Invariance, PTL

-----------------------------------------------------------------------------
(* The queue without the descriptors that accept failed to give.             *)

\* The recursion of Kept has a solution, so Kept is one.
LEMMA KeptDef ==
  ASSUME NEW s, Len(s) \in Nat
  PROVE  Kept(s) = [n \in 0 .. Len(s) |-> IF n = 0 THEN <<>>
                                          ELSE IF s[n] = NoFd THEN Kept(s)[n - 1]
                                          ELSE Append(Kept(s)[n - 1], s[n])]
<1> DEFINE Solves(g, m) ==
             g = [n \in 0 .. m |-> IF n = 0 THEN <<>>
                                   ELSE IF s[n] = NoFd THEN g[n - 1]
                                   ELSE Append(g[n - 1], s[n])]
           Solved == {m \in Nat : \E g : Solves(g, m)}
<1>1. 0 \in Solved
  <2>1. Solves([n \in 0 .. 0 |-> <<>>], 0)
    OBVIOUS
  <2> QED
    BY <2>1
<1>2. ASSUME NEW m \in Solved
      PROVE  m + 1 \in Solved
  <2>1. PICK g : Solves(g, m)
    OBVIOUS
  <2> DEFINE new == IF s[m + 1] = NoFd THEN g[m] ELSE Append(g[m], s[m + 1])
             h   == [n \in 0 .. (m + 1) |-> IF n = m + 1 THEN new ELSE g[n]]
  <2>2. \A n \in 0 .. m : g[n] = IF n = 0 THEN <<>>
                                 ELSE IF s[n] = NoFd THEN g[n - 1]
                                 ELSE Append(g[n - 1], s[n])
    BY <2>1
  <2> HIDE DEF new
  <2>3. ASSUME NEW n \in 0 .. (m + 1)
        PROVE  h[n] = IF n = 0 THEN <<>>
                      ELSE IF s[n] = NoFd THEN h[n - 1]
                      ELSE Append(h[n - 1], s[n])
    <3>1. CASE n = m + 1
      <4>1. h[n] = new /\ n # 0 /\ n - 1 = m /\ h[n - 1] = g[m]
        BY <3>1
      <4> HIDE DEF h
      <4> QED
        BY <3>1, <4>1 DEF new
    <3>2. CASE n \in 0 .. m /\ n # 0
      <4>1. h[n] = g[n] /\ h[n - 1] = g[n - 1]
        BY <3>2
      <4> HIDE DEF h
      <4> QED
        BY <2>2, <3>2, <4>1
    <3>3. CASE n = 0
      BY <2>2, <3>3
    <3> QED
      BY <3>1, <3>2, <3>3
  <2>4. Solves(h, m + 1)
    <3>1. h = [n \in 0 .. (m + 1) |-> h[n]]
      OBVIOUS
    <3> HIDE DEF h
    <3> QED
      BY <2>3, <3>1
  <2> HIDE DEF Solves, h
  <2> QED
    BY <2>4
<1>3. Solved = Nat
  <2> HIDE DEF Solved
  <2>1. Solved \in SUBSET Nat
    BY DEF Solved
  <2> QED
    BY <1>1, <1>2, <2>1, InductiveSet
<1>4. \E g : Solves(g, Len(s))
  BY <1>3
<1> QED
  BY <1>4 DEF Kept

\* Step by step.
LEMMA KeptStep ==
  ASSUME NEW S, NEW s \in Seq(S)
  PROVE  /\ Kept(s)[0] = <<>>
         /\ \A n \in 1 .. Len(s) :
              Kept(s)[n] = IF s[n] = NoFd THEN Kept(s)[n - 1]
                           ELSE Append(Kept(s)[n - 1], s[n])
<1>1. Len(s) \in Nat
  OBVIOUS
<1> DEFINE k == Kept(s)
<1>2. k = [n \in 0 .. Len(s) |-> IF n = 0 THEN <<>>
                                ELSE IF s[n] = NoFd THEN k[n - 1]
                                ELSE Append(k[n - 1], s[n])]
  BY <1>1, KeptDef
<1> HIDE DEF k
<1>3. k[0] = <<>>
  BY <1>1, <1>2
<1>4. ASSUME NEW n \in 1 .. Len(s)
      PROVE  k[n] = IF s[n] = NoFd THEN k[n - 1] ELSE Append(k[n - 1], s[n])
  <2>1. n \in 0 .. Len(s) /\ n # 0
    BY <1>1
  <2> QED
    BY <1>2, <2>1, Zenon
<1> QED
  BY <1>3, <1>4 DEF k

\* What is kept are descriptors of the queue, without NoFd.
LEMMA KeptType ==
  ASSUME NEW S, NEW s \in Seq(S), NEW n \in 0 .. Len(s)
  PROVE  Kept(s)[n] \in Seq(S \ {NoFd})
<1> DEFINE k == Kept(s)
           T == {m \in Nat : m <= Len(s) => k[m] \in Seq(S \ {NoFd})}
<1>1. k[0] = <<>> /\ \A m \in 1 .. Len(s) :
         k[m] = IF s[m] = NoFd THEN k[m - 1] ELSE Append(k[m - 1], s[m])
  BY KeptStep
<1> HIDE DEF k
<1>2. 0 \in T
  <2>1. <<>> \in Seq(S \ {NoFd})
    OBVIOUS
  <2>2. k[0] \in Seq(S \ {NoFd})
    BY <1>1, <2>1
  <2> QED
    BY <2>2
<1>3. ASSUME NEW m \in T
      PROVE  m + 1 \in T
  <2> SUFFICES ASSUME m + 1 <= Len(s)
               PROVE  k[m + 1] \in Seq(S \ {NoFd})
    OBVIOUS
  <2>1. k[m] \in Seq(S \ {NoFd}) /\ m + 1 \in 1 .. Len(s) /\ s[m + 1] \in S
    OBVIOUS
  <2>2. k[m + 1] = IF s[m + 1] = NoFd THEN k[m] ELSE Append(k[m], s[m + 1])
    BY <1>1, <2>1
  <2> QED
    BY <2>1, <2>2
<1>4. T = Nat
  <2>1. T \in SUBSET Nat
    OBVIOUS
  <2> HIDE DEF T
  <2> QED
    BY <1>2, <1>3, <2>1, InductiveSet
<1> QED
  BY <1>4 DEF k

\* All that is kept of a queue.
Real(s) == Kept(s)[Len(s)]

LEMMA RealType ==
  ASSUME NEW S, NEW s \in Seq(S)
  PROVE  Real(s) \in Seq(S \ {NoFd})
<1>1. Len(s) \in 0 .. Len(s)
  OBVIOUS
<1> QED
  BY <1>1, KeptType DEF Real

\* A descriptor put at the end is kept at the end.
LEMMA RealAppend ==
  ASSUME NEW S, NEW s \in Seq(S), NEW x \in S
  PROVE  Real(Append(s, x)) = IF x = NoFd THEN Real(s) ELSE Append(Real(s), x)
<1> DEFINE t == Append(s, x)
           k == Kept(s)
           l == Kept(t)
           T == {m \in Nat : m <= Len(s) => l[m] = k[m]}
<1>1. k[0] = <<>> /\ \A m \in 1 .. Len(s) :
         k[m] = IF s[m] = NoFd THEN k[m - 1] ELSE Append(k[m - 1], s[m])
  BY KeptStep
<1>2. t \in Seq(S) /\ Len(t) = Len(s) + 1 /\ t[Len(s) + 1] = x /\ Len(s) \in Nat
      /\ \A i \in 1 .. Len(s) : t[i] = s[i]
  OBVIOUS
<1> HIDE DEF t
<1>3. l[0] = <<>> /\ \A m \in 1 .. Len(t) :
         l[m] = IF t[m] = NoFd THEN l[m - 1] ELSE Append(l[m - 1], t[m])
  BY <1>2, KeptStep
<1> HIDE DEF k, l
<1>4. 0 \in T
  BY <1>1, <1>3
<1>5. ASSUME NEW m \in T
      PROVE  m + 1 \in T
  <2> SUFFICES ASSUME m + 1 <= Len(s)
               PROVE  l[m + 1] = k[m + 1]
    OBVIOUS
  <2>1. l[m] = k[m] /\ m + 1 \in 1 .. Len(s) /\ m + 1 \in 1 .. Len(t) /\ t[m + 1] = s[m + 1]
    BY <1>2
  <2>2. (m + 1) - 1 = m
    OBVIOUS
  <2> QED
    BY <1>1, <1>3, <2>1, <2>2
<1>6. T = Nat
  <2>1. T \in SUBSET Nat
    OBVIOUS
  <2> HIDE DEF T
  <2> QED
    BY <1>4, <1>5, <2>1, InductiveSet
<1>7. l[Len(s)] = k[Len(s)]
  BY <1>2, <1>6
<1>8. l[Len(t)] = IF x = NoFd THEN l[Len(s)] ELSE Append(l[Len(s)], x)
  <2>1. Len(t) \in 1 .. Len(t) /\ Len(t) - 1 = Len(s)
    BY <1>2
  <2> QED
    BY <1>2, <1>3, <2>1
<1> QED
  BY <1>7, <1>8 DEF Real, k, l, t

\* Taking the oldest descriptor takes the oldest of those kept, if it is one.
LEMMA RealTail ==
  ASSUME NEW S, NEW s \in Seq(S), s # <<>>
  PROVE  IF Head(s) = NoFd
           THEN Real(Tail(s)) = Real(s)
           ELSE /\ Real(s) # <<>>
                /\ Head(Real(s)) = Head(s)
                /\ Real(Tail(s)) = Tail(Real(s))
<1> DEFINE x == Head(s)
           t == Tail(s)
           k == Kept(s)
           l == Kept(t)
           From(m) == IF x = NoFd
                        THEN l[m] = k[m + 1]
                        ELSE k[m + 1] # <<>> /\ Head(k[m + 1]) = x /\ l[m] = Tail(k[m + 1])
           T == {m \in Nat : m <= Len(t) => From(m)}
<1>1. k[0] = <<>> /\ \A m \in 1 .. Len(s) :
         k[m] = IF s[m] = NoFd THEN k[m - 1] ELSE Append(k[m - 1], s[m])
  BY KeptStep
<1>2. /\ t \in Seq(S) /\ x \in S /\ x = s[1]
      /\ Len(t) \in Nat /\ Len(s) = Len(t) + 1
      /\ \A i \in 1 .. Len(t) : t[i] = s[i + 1] /\ t[i] \in S
  OBVIOUS
<1> HIDE DEF t, x
<1>3. l[0] = <<>> /\ \A m \in 1 .. Len(t) :
         l[m] = IF t[m] = NoFd THEN l[m - 1] ELSE Append(l[m - 1], t[m])
  BY <1>2, KeptStep
<1>4. \A m \in 0 .. Len(s) : k[m] \in Seq(S \ {NoFd})
  BY KeptType
<1> HIDE DEF k, l
<1>5. 0 \in T
  <2>1. 1 \in 1 .. Len(s) /\ 1 - 1 = 0
    BY <1>2
  <2>2. k[1] = IF x = NoFd THEN <<>> ELSE <<x>>
    <3>1. k[1] = IF x = NoFd THEN <<>> ELSE Append(<<>>, x)
      BY <1>1, <1>2, <2>1
    <3>2. Append(<<>>, x) = <<x>>
      OBVIOUS
    <3> QED
      BY <3>1, <3>2
  <2>3. From(0)
    <3>1. <<x>> # <<>> /\ Head(<<x>>) = x /\ Tail(<<x>>) = <<>>
      OBVIOUS
    <3>2. 0 + 1 = 1
      OBVIOUS
    <3> QED
      BY <1>3, <2>2, <3>1, <3>2
  <2> QED
    BY <2>3
<1>6. ASSUME NEW m \in T
      PROVE  m + 1 \in T
  <2> SUFFICES ASSUME m + 1 <= Len(t)
               PROVE  From(m + 1)
    OBVIOUS
  <2> DEFINE y == t[m + 1]
             a == k[m + 1]
  <2>1. /\ From(m) /\ m + 1 \in 1 .. Len(t) /\ y = s[m + 2]
        /\ m + 2 \in 1 .. Len(s) /\ m + 1 \in 0 .. Len(s)
    BY <1>2
  <2>2. l[m + 1] = IF y = NoFd THEN l[m] ELSE Append(l[m], y)
    BY <1>3, <2>1
  <2>3. k[m + 2] = IF y = NoFd THEN a ELSE Append(a, y)
    BY <1>1, <2>1
  <2>4. a \in Seq(S \ {NoFd}) /\ y \in S
    BY <1>2, <1>4, <2>1
  <2>5. (m + 1) + 1 = m + 2
    OBVIOUS
  <2> HIDE DEF y, a
  <2>6. CASE x = NoFd
    BY <2>1, <2>2, <2>3, <2>5, <2>6 DEF a
  <2>7. CASE x # NoFd
    <3>1. a # <<>> /\ Head(a) = x /\ l[m] = Tail(a)
      BY <2>1, <2>7 DEF a
    <3>2. Append(a, y) # <<>> /\ Head(Append(a, y)) = x /\ Tail(Append(a, y)) = Append(l[m], y)
      BY <2>4, <3>1, HeadTailAppend
    <3> QED
      BY <2>2, <2>3, <2>5, <2>7, <3>1, <3>2
  <2> QED
    BY <2>6, <2>7
<1>7. T = Nat
  <2>1. T \in SUBSET Nat
    OBVIOUS
  <2> HIDE DEF T
  <2> QED
    BY <1>5, <1>6, <2>1, InductiveSet
<1>8. From(Len(t))
  BY <1>2, <1>7
<1> QED
  BY <1>2, <1>8 DEF Real, k, l, t, x

-----------------------------------------------------------------------------
(* The clients of a sequence of descriptors.                                 *)

Ends(F, r) == [i \in DOMAIN r |-> F[r[i]]]

LEMMA EndsLen ==
  ASSUME NEW D, NEW F, NEW r \in Seq(D)
  PROVE  Len(Ends(F, r)) = Len(r)
BY DEF Ends

LEMMA EndsType ==
  ASSUME NEW D, NEW X, NEW F \in [D -> X], NEW r \in Seq(D)
  PROVE  Ends(F, r) \in Seq(X)
<1>1. DOMAIN r = 1 .. Len(r) /\ Len(r) \in Nat
  OBVIOUS
<1>2. \A i \in 1 .. Len(r) : F[r[i]] \in X
  BY ElementOfSeq
<1> QED
  BY <1>1, <1>2, IsASeq DEF Ends

LEMMA EndsAppend ==
  ASSUME NEW D, NEW X, NEW F \in [D -> X], NEW r \in Seq(D), NEW d \in D
  PROVE  Ends(F, Append(r, d)) = Append(Ends(F, r), F[d])
<1> DEFINE a == Ends(F, Append(r, d))
           b == Append(Ends(F, r), F[d])
<1>1. /\ Append(r, d) \in Seq(D) /\ Len(Append(r, d)) = Len(r) + 1 /\ Len(r) \in Nat
      /\ \A i \in 1 .. Len(r) : Append(r, d)[i] = r[i]
      /\ Append(r, d)[Len(r) + 1] = d
  OBVIOUS
<1>2. a \in Seq(X) /\ Len(a) = Len(r) + 1
  <2>1. ASSUME NEW t \in Seq(D)
        PROVE  Ends(F, t) \in Seq(X) /\ Len(Ends(F, t)) = Len(t)
    <3>1. Ends(F, t) \in Seq(X)
      BY EndsType
    <3>2. Len(Ends(F, t)) = Len(t)
      BY EndsLen
    <3> QED
      BY <3>1, <3>2
  <2> QED
    BY <1>1, <2>1
<1>3. Ends(F, r) \in Seq(X) /\ Len(Ends(F, r)) = Len(r)
  <2>1. Ends(F, r) \in Seq(X)
    BY EndsType
  <2>2. Len(Ends(F, r)) = Len(r)
    BY EndsLen
  <2> QED
    BY <2>1, <2>2
<1>4. /\ b \in Seq(X) /\ Len(b) = Len(r) + 1
      /\ \A i \in 1 .. Len(r) : b[i] = Ends(F, r)[i]
      /\ b[Len(r) + 1] = F[d]
  BY <1>3, AppendProperties
<1>5. \A i \in 1 .. Len(r) : Ends(F, r)[i] = F[r[i]]
  BY DEF Ends
<1>6. \A i \in 1 .. (Len(r) + 1) : a[i] = F[Append(r, d)[i]]
  BY <1>1 DEF Ends
<1> HIDE DEF a, b
<1>7. \A i \in 1 .. (Len(r) + 1) : a[i] = b[i]
  <2>1. \A i \in 1 .. Len(r) : a[i] = b[i]
    BY <1>1, <1>4, <1>5, <1>6
  <2>2. a[Len(r) + 1] = b[Len(r) + 1]
    BY <1>1, <1>4, <1>6
  <2> QED
    BY <1>1, <2>1, <2>2
<1>8. a = b
  BY <1>2, <1>4, <1>7, SeqEqual
<1> QED
  BY <1>8 DEF a, b

LEMMA EndsTail ==
  ASSUME NEW D, NEW X, NEW F \in [D -> X], NEW r \in Seq(D), r # <<>>
  PROVE  /\ Ends(F, r) # <<>>
         /\ Head(Ends(F, r)) = F[Head(r)]
         /\ Ends(F, Tail(r)) = Tail(Ends(F, r))
<1> DEFINE e == Ends(F, r)
           a == Ends(F, Tail(r))
<1>1. /\ Tail(r) \in Seq(D) /\ Len(Tail(r)) = Len(r) - 1 /\ Len(r) \in Nat \ {0}
      /\ \A i \in 1 .. (Len(r) - 1) : Tail(r)[i] = r[i + 1]
      /\ Head(r) = r[1]
  OBVIOUS
<1>2. a \in Seq(X) /\ Len(a) = Len(r) - 1
  <2>1. ASSUME NEW t \in Seq(D)
        PROVE  Ends(F, t) \in Seq(X) /\ Len(Ends(F, t)) = Len(t)
    <3>1. Ends(F, t) \in Seq(X)
      BY EndsType
    <3>2. Len(Ends(F, t)) = Len(t)
      BY EndsLen
    <3> QED
      BY <3>1, <3>2
  <2> QED
    BY <1>1, <2>1
<1>3. e \in Seq(X) /\ Len(e) = Len(r)
  <2>1. e \in Seq(X)
    BY EndsType
  <2>2. Len(e) = Len(r)
    BY EndsLen
  <2> QED
    BY <2>1, <2>2
<1>4. \A i \in 1 .. Len(r) : e[i] = F[r[i]]
  BY DEF Ends
<1>5. \A i \in 1 .. (Len(r) - 1) : a[i] = F[Tail(r)[i]]
  BY <1>1 DEF Ends
<1> HIDE DEF a, e
<1>6. /\ e # <<>> /\ Head(e) = e[1]
      /\ Tail(e) \in Seq(X) /\ Len(Tail(e)) = Len(r) - 1
      /\ \A i \in 1 .. (Len(r) - 1) : Tail(e)[i] = e[i + 1]
  BY <1>1, <1>3
<1>7. \A i \in 1 .. (Len(r) - 1) : a[i] = Tail(e)[i]
  BY <1>1, <1>4, <1>5, <1>6
<1>8. a = Tail(e)
  BY <1>2, <1>6, <1>7, SeqEqual
<1>9. Head(e) = F[Head(r)]
  BY <1>1, <1>4, <1>6
<1> QED
  BY <1>6, <1>8, <1>9 DEF a, e

LEMMA EndsSame ==
  ASSUME NEW D, NEW F, NEW G, NEW r \in Seq(D), \A d \in D : F[d] = G[d]
  PROVE  Ends(F, r) = Ends(G, r)
<1>1. \A i \in DOMAIN r : r[i] \in D
  OBVIOUS
<1> QED
  BY <1>1 DEF Ends

-----------------------------------------------------------------------------
(* The threads do what ConnectionQueue promises.                             *)

LEMMA AcceptedIsEnds == Accepted = Ends(fds, Real(Coming))
BY DEF Accepted, Ends, Real

LEMMA ComingType ==
  ASSUME IInv
  PROVE  /\ Coming \in Seq(Fd \cup {NoFd})
         /\ Real(Coming) \in Seq(Fd)
         /\ fds \in [Fd -> Client \cup {Nobody}]
<1>1. Coming \in Seq(Fd \cup {NoFd})
  BY DEF IInv, Typed, Coming
<1>2. (Fd \cup {NoFd}) \ {NoFd} = Fd
  BY ThreadFacts
<1>3. Real(Coming) \in Seq((Fd \cup {NoFd}) \ {NoFd})
  BY <1>1, RealType
<1> QED
  BY <1>1, <1>2, <1>3 DEF IInv, Typed

\* A descriptor that is not in the queue nor with Run plays no part in Accepted.
LEMMA ComingWithout ==
  ASSUME IInv, NEW n \in Fd, ~InQueue(n), ~InRun(n)
  PROVE  Real(Coming) \in Seq(Fd \ {n})
<1> DEFINE S == (Fd \cup {NoFd}) \ {n}
<1>1. queue \in Seq(S)
  <2>1. queue \in Seq(Fd \cup {NoFd}) /\ \A i \in DOMAIN queue : queue[i] # n
    BY DEF IInv, Typed, InQueue
  <2>2. \A i \in 1 .. Len(queue) : queue[i] \in S
    BY <2>1, ElementOfSeq
  <2> HIDE DEF S
  <2>3. queue = [i \in 1 .. Len(queue) |-> queue[i]] /\ Len(queue) \in Nat
    BY <2>1
  <2> QED
    BY <2>2, <2>3, IsASeq
<1>2. Coming \in Seq(S)
  <2>1. mainPc \in {"lock", "push"} => mainFd \in S
    BY DEF IInv, Typed, InRun
  <2> HIDE DEF S
  <2> QED
    BY <1>1, <2>1 DEF Coming
<1>3. S \ {NoFd} = Fd \ {n}
  BY ThreadFacts
<1>4. Real(Coming) \in Seq(S \ {NoFd})
  <2> HIDE DEF S
  <2> QED
    BY <1>2, RealType
<1> QED
  BY <1>3, <1>4

LEMMA InitRefines == Init => Promise!Init
<1> SUFFICES ASSUME Init
             PROVE  Accepted = <<>> /\ Handled = {}
  BY DEF Promise!Init
<1>1. Coming = <<>>
  BY DEF Init, Coming
<1>2. Kept(<<>>)[0] = <<>>
  <2>1. <<>> \in Seq(Fd)
    OBVIOUS
  <2> QED
    BY <2>1, KeptStep
<1>3. Accepted = <<>>
  BY <1>1, <1>2 DEF Accepted
<1>4. Handled = {}
  BY DEF Init, Handled
<1> QED
  BY <1>3, <1>4

\* What neither moves a connection nor closes one changes nothing that is promised.
LEMMA Unmoved ==
  ASSUME Real(Coming)' = Real(Coming), fds' = fds, fd' = fd
  PROVE  UNCHANGED Promise!vars
<1>1. Accepted' = Accepted
  BY AcceptedIsEnds DEF Ends, Accepted, Real
<1>2. Handled' = Handled
  BY DEF Handled
<1> QED
  BY <1>1, <1>2 DEF Promise!vars

LEMMA AcceptRefines ==
  ASSUME IInv, Accept
  PROVE  Promise!Accept
<1> DEFINE n == LowestFree
           c == Head(backlog)
<1>1. n \in Fd /\ fds[n] = Nobody
  BY FreeDescriptor DEF Accept
<1> HIDE DEF n
<1>2. /\ fds \in [Fd -> Client \cup {Nobody}] /\ fds' = [fds EXCEPT ![n] = c]
      /\ mainPc = "accept" /\ mainPc' = "lock" /\ mainFd' = n
      /\ UNCHANGED <<queue, fd>> /\ fd \in [Worker -> Fd \cup {NoFd}]
      /\ queue \in Seq(Fd \cup {NoFd})
  BY DEF IInv, Typed, Accept, n
<1>3. c \in Client /\ \A m \in Fd : fds[m] # c
  BY DEF IInv, Typed, OncePerClient, Accept
<1> HIDE DEF c
<1>4. ~InQueue(n) /\ ~AtWorker(n) /\ ~InRun(n)
  BY <1>1 DEF IInv, OnePlace
<1>5. Handled' = Handled
  <2>1. \A w \in Worker : fd[w] # NoFd => fd[w] \in Fd /\ fds'[fd[w]] = fds[fd[w]]
    BY <1>1, <1>2, <1>4 DEF AtWorker
  <2> QED
    BY <1>2, <2>1 DEF Handled
<1>6. c \notin Handled
  BY <1>2, <1>3 DEF Handled
<1>7. Coming = queue /\ Coming' = Append(queue, n)
  BY <1>2 DEF Coming
<1>8. Real(Coming') = Append(Real(queue), n)
  BY <1>1, <1>2, <1>7, RealAppend, ThreadFacts
<1>9. Real(queue) \in Seq(Fd) /\ Real(queue) \in Seq(Fd \ {n})
  BY <1>1, <1>4, <1>7, ComingType, ComingWithout
<1> DEFINE r == Real(queue)
<1>10. Accepted = Ends(fds, r)
  BY <1>7, AcceptedIsEnds
<1>11. Accepted' = Ends(fds', Append(r, n))
  <2>1. Accepted' = Ends(fds', Real(Coming'))
    BY DEF Accepted, Ends, Real
  <2> QED
    BY <1>8, <2>1
<1> HIDE DEF r
<1>12. Accepted' = Append(Accepted, c)
  <2>1. fds' \in [Fd -> Client \cup {Nobody}]
    BY <1>2, <1>3
  <2>2. Ends(fds', Append(r, n)) = Append(Ends(fds', r), fds'[n])
    <3>1. r \in Seq(Fd)
      BY <1>9 DEF r
    <3>2. ASSUME NEW X, NEW F \in [Fd -> X]
          PROVE  Ends(F, Append(r, n)) = Append(Ends(F, r), F[n])
      BY <1>1, <3>1, EndsAppend
    <3> QED
      BY <2>1, <3>2
  <2>3. Ends(fds', r) = Ends(fds, r)
    <3>1. \A m \in Fd \ {n} : fds'[m] = fds[m]
      BY <1>1, <1>2
    <3> QED
      BY <1>9, <3>1, EndsSame DEF r
  <2>4. fds'[n] = c
    BY <1>1, <1>2
  <2> QED
    BY <1>10, <1>11, <2>2, <2>3, <2>4
<1>13. \A i \in DOMAIN Accepted : Accepted[i] # c
  <2>1. r \in Seq(Fd)
    BY <1>9 DEF r
  <2>2. \A i \in DOMAIN r : r[i] \in Fd
    BY <2>1
  <2> QED
    BY <1>3, <1>10, <2>2 DEF Ends
<1> QED
  BY <1>3, <1>5, <1>6, <1>12, <1>13 DEF Promise!Accept

LEMMA AcceptFailsRefines ==
  ASSUME IInv, AcceptFails
  PROVE  UNCHANGED Promise!vars
<1>1. Coming = queue /\ Coming' = Append(queue, NoFd)
  BY DEF AcceptFails, Coming
<1>2. Real(Append(queue, NoFd)) = Real(queue)
  <2>1. queue \in Seq(Fd \cup {NoFd})
    BY DEF IInv, Typed
  <2> QED
    BY <2>1, RealAppend
<1>3. Real(Coming)' = Real(Coming)
  BY <1>1, <1>2 DEF Real
<1> QED
  BY <1>3, Unmoved DEF AcceptFails

LEMMA QueueRefines ==
  ASSUME IInv, MainLock \/ Push \/ Notify
  PROVE  UNCHANGED Promise!vars
<1>1. Coming' = Coming /\ UNCHANGED <<fds, fd>>
  BY DEF MainLock, Push, Notify, Coming, external
<1>2. Real(Coming)' = Real(Coming)
  BY <1>1 DEF Real
<1> QED
  BY <1>1, <1>2, Unmoved

LEMMA TakeRefines ==
  ASSUME IInv, NEW w \in Worker, Take(w)
  PROVE  Promise!Take \/ UNCHANGED Promise!vars
<1> DEFINE q == Head(queue)
           r == Real(Coming)
<1>1. /\ queue \in Seq(Fd \cup {NoFd}) /\ queue # <<>> /\ queue' = Tail(queue)
      /\ fd \in [Worker -> Fd \cup {NoFd}] /\ fd' = [fd EXCEPT ![w] = q]
      /\ UNCHANGED <<fds, mainPc, mainFd>> /\ mainFd \in Fd \cup {NoFd}
      /\ q \in Fd \cup {NoFd}
  BY DEF IInv, Typed, Take, external
<1>2. fd[w] = NoFd
  BY DEF IInv, IdleAreEmpty, Take
<1>3. Coming # <<>> /\ Head(Coming) = q /\ Coming' = Tail(Coming)
  <2>1. CASE mainPc \in {"lock", "push"}
    <3>1. Coming = Append(queue, mainFd) /\ Coming' = Append(Tail(queue), mainFd)
      BY <1>1, <2>1 DEF Coming
    <3>2. /\ Append(queue, mainFd) # <<>>
          /\ Head(Append(queue, mainFd)) = q
          /\ Tail(Append(queue, mainFd)) = Append(Tail(queue), mainFd)
      BY <1>1, HeadTailAppend, AppendProperties
    <3> QED
      BY <3>1, <3>2
  <2>2. CASE mainPc \notin {"lock", "push"}
    BY <1>1, <2>2 DEF Coming
  <2> QED
    BY <2>1, <2>2
<1> HIDE DEF q
<1>4. IF q = NoFd
        THEN Real(Tail(Coming)) = r
        ELSE r # <<>> /\ Head(r) = q /\ Real(Tail(Coming)) = Tail(r)
  BY <1>3, ComingType, RealTail
<1>5. CASE q = NoFd
  <2>1. fd' = fd
    BY <1>1, <1>2, <1>5
  <2>2. Real(Coming)' = Real(Coming)
    BY <1>3, <1>4, <1>5 DEF Real
  <2> QED
    BY <1>1, <2>1, <2>2, Unmoved
<1>6. CASE q # NoFd
  <2>1. Accepted # <<>> /\ Head(Accepted) = fds[q] /\ Accepted' = Tail(Accepted)
    <3>1. r # <<>> /\ Head(r) = q /\ Real(Coming)' = Tail(r)
      BY <1>3, <1>4, <1>6 DEF Real
    <3>2. Accepted' = Ends(fds, Tail(r))
      BY <1>1, <3>1 DEF Accepted, Ends, Real
    <3>3. /\ Ends(fds, r) # <<>>
          /\ Head(Ends(fds, r)) = fds[Head(r)]
          /\ Ends(fds, Tail(r)) = Tail(Ends(fds, r))
      <4>1. ASSUME NEW X, fds \in [Fd -> X]
            PROVE  /\ Ends(fds, r) # <<>>
                   /\ Head(Ends(fds, r)) = fds[Head(r)]
                   /\ Ends(fds, Tail(r)) = Tail(Ends(fds, r))
        <5>1. r \in Seq(Fd)
          BY ComingType
        <5> HIDE DEF r
        <5> QED
          BY <3>1, <4>1, <5>1, EndsTail
      <4> QED
        BY <4>1, ComingType
    <3> QED
      BY <3>1, <3>2, <3>3, AcceptedIsEnds
  <2>2. Handled' = Handled \cup {fds[q]}
    BY <1>1, <1>2, <1>6 DEF Handled
  <2>3. Cardinality(Handled) < Cardinality(Worker)
    <3> DEFINE Busy == {v \in Worker : fd[v] # NoFd}
               g    == [v \in Busy |-> fds[fd[v]]]
    <3>1. IsFiniteSet(Worker \ {w}) /\ Cardinality(Worker \ {w}) = Cardinality(Worker) - 1
      BY ThreadFacts, FS_RemoveElement
    <3>2. Busy \subseteq Worker \ {w}
      BY <1>2
    <3>3. IsFiniteSet(Busy) /\ Cardinality(Busy) <= Cardinality(Worker \ {w})
      BY <3>1, <3>2, FS_Subset
    <3>4. g \in Surjection(Busy, Handled)
      BY DEF Handled, Surjection
    <3> HIDE DEF Busy, g
    <3>5. IsFiniteSet(Handled) /\ Cardinality(Handled) <= Cardinality(Busy)
      BY <3>3, <3>4, FS_Surjection
    <3> QED
      BY <3>1, <3>3, <3>5, ThreadFacts, FS_CardinalityType
  <2> QED
    BY <2>1, <2>2, <2>3 DEF Promise!Take, Promise!Cardinality, Cardinality
<1> QED
  BY <1>5, <1>6

LEMMA CloseRefines ==
  ASSUME IInv, NEW w \in Worker, Close(w)
  PROVE  Promise!Finish \/ UNCHANGED Promise!vars
<1> DEFINE n == fd[w]
<1>1. /\ fd \in [Worker -> Fd \cup {NoFd}] /\ fd' = [fd EXCEPT ![w] = NoFd]
      /\ fds \in [Fd -> Client \cup {Nobody}]
      /\ fds' = IF n = NoFd THEN fds ELSE [fds EXCEPT ![n] = Nobody]
      /\ n \in Fd \cup {NoFd}
  BY DEF IInv, Typed, Close
<1>2. Coming' = Coming
  BY DEF Close, Coming
<1>3. CASE n = NoFd
  <2>1. fd' = fd /\ fds' = fds
    BY <1>1, <1>3
  <2>2. Real(Coming)' = Real(Coming)
    BY <1>2 DEF Real
  <2> QED
    BY <2>1, <2>2, Unmoved
<1>4. CASE n # NoFd
  <2>1. n \in Fd /\ ~InQueue(n) /\ ~InRun(n) /\ fds[n] # Nobody
    BY <1>1, <1>4 DEF IInv, OnePlace, AtWorker
  <2>2. Accepted' = Accepted
    <3>1. Real(Coming) \in Seq(Fd \ {n})
      BY <2>1, ComingWithout
    <3>2. \A m \in Fd \ {n} : fds'[m] = fds[m]
      BY <1>1
    <3>3. Ends(fds, Real(Coming)) = Ends(fds', Real(Coming))
      BY <3>1, <3>2, EndsSame
    <3>4. Accepted' = Ends(fds', Real(Coming))
      BY <1>2 DEF Accepted, Ends, Real
    <3> QED
      BY <3>3, <3>4, AcceptedIsEnds
  <2>3. fds[n] \in Handled
    BY <1>4 DEF Handled
  <2>4. Handled' = Handled \ {fds[n]}
    <3>1. ASSUME NEW v \in Worker, v # w, fd[v] # NoFd
          PROVE  fds'[fd[v]] = fds[fd[v]] /\ fds[fd[v]] # fds[n] /\ fd'[v] = fd[v]
      <4>1. fd[v] \in Fd /\ fd[v] # n /\ AtWorker(fd[v])
        BY <1>1, <2>1, <3>1 DEF IInv, OnePlace, AtWorker
      <4> QED
        BY <1>1, <2>1, <3>1, <4>1 DEF IInv, OncePerClient
    <3>2. fd'[w] = NoFd
      BY <1>1
    <3>3. Handled' = {fds'[fd'[v]] : v \in {u \in Worker : fd'[u] # NoFd}}
      BY DEF Handled
    <3>4. {u \in Worker : fd'[u] # NoFd} = {u \in Worker : fd[u] # NoFd} \ {w}
      BY <1>1
    <3>5. Handled' = {fds[fd[v]] : v \in {u \in Worker : fd[u] # NoFd} \ {w}}
      BY <3>1, <3>3, <3>4
    <3> QED
      BY <1>4, <3>1, <3>5 DEF Handled
  <2> QED
    BY <2>2, <2>3, <2>4 DEF Promise!Finish
<1> QED
  BY <1>3, <1>4

LEMMA StepRefines == IInv /\ [Next]_vars => [Promise!Next]_(Promise!vars)
<1> SUFFICES ASSUME IInv, [Next]_vars
             PROVE  Promise!Next \/ UNCHANGED Promise!vars
  OBVIOUS
<1>1. ASSUME UNCHANGED <<fds, fd, queue, mainPc, mainFd>>
      PROVE  UNCHANGED Promise!vars
  <2>1. Real(Coming)' = Real(Coming)
    BY <1>1 DEF Real, Coming
  <2> QED
    BY <1>1, <2>1, Unmoved
<1>2. CASE \E c \in Client : Connect(c) \/ Request(c) \/ HangUp(c)
  BY <1>1, <1>2 DEF Connect, Request, HangUp, server
<1>3. CASE Run
  BY <1>3, AcceptRefines, QueueRefines DEF Run, Promise!Next
<1>4. CASE AcceptFails
  BY <1>4, AcceptFailsRefines
<1>5. CASE \E w \in Worker : Lock(w) \/ Wait(w) \/ Handle(w) \/ TimeOut(w)
  BY <1>1, <1>5
  DEF Lock, Wait, Handle, Recv, Send, Abort, BrokenPipe, Die, TimeOut, external
<1>6. CASE \E w \in Worker : Take(w) \/ Close(w)
  BY <1>6, TakeRefines, CloseRefines DEF Promise!Next
<1>7. CASE UNCHANGED vars
  BY <1>1, <1>7 DEF vars, external, server
<1> QED
  BY <1>2, <1>3, <1>4, <1>5, <1>6, <1>7 DEF Next, HandleConnections

(* Whatever the threads, the clients and accept do, connections are taken up in
   the order of their acceptance, each by one worker, no more at a time than
   there are workers, and each is finished once.                              *)
THEOREM ServerKeepsPromise == Spec => HandledInOrder
BY InitRefines, StepRefines, Invariance, PTL DEF Spec, HandledInOrder, Promise!Spec

=============================================================================
