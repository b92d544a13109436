----------------------------- MODULE TcpServer ------------------------------
(***************************************************************************)
(* src/obsequi/server.cc: one thread accepts connections and queues them,  *)
(* detached worker threads take them from the queue and handle them, as    *)
(* main.cc does: receive once, answer, close.  A request can end the whole *)
(* process, and so can a client that breaks its connection off.            *)
(*                                                                         *)
(* The clients and the kernel's tables (listen backlog, descriptors) are   *)
(* external: accept returns the lowest free descriptor, recv blocks until  *)
(* the client has sent something, hung up or reset the connection; send on *)
(* a connection whose reset recv has reported raises SIGPIPE.              *)
(***************************************************************************)
EXTENDS Integers, Sequences, FiniteSets

CONSTANTS
  Worker,       \* the worker threads (num_worker_threads)
  Main,         \* the thread of Run
  Client,       \* one connection each
  Rough,        \* clients that may break off or send what ends the process
  Prompt,       \* clients whose request is there when they are connected
  Nobody,
  Pending,      \* PENDING_CONNECTIONS, the length of the backlog
  MaxFailures   \* how often accept may fail

ASSUME ServerAssumption ==
  /\ IsFiniteSet(Worker) /\ IsFiniteSet(Client) /\ Rough \subseteq Client /\ Prompt \subseteq Client
  /\ Main \notin Worker /\ Nobody \notin Worker \cup {Main} \cup Client
  /\ Pending \in Nat \ {0} /\ MaxFailures \in Nat

VARIABLES
  \* external
  client,    \* "new", "connected", "answered", "gone", "reset" or "cut"
  wrote,     \* what it has sent: "nothing", a request, or a "fatal" one
  backlog,   \* connections the kernel holds for accept
  fds,       \* the client at the other end of each open descriptor
  failures,  \* how often accept has failed
  \* the server
  queue,     \* queue_, of descriptors
  mutex,     \* the thread that holds mutex_
  waiting,   \* the workers waiting on notifier_
  process,   \* "up" or "down"
  mainPc, mainFd,  \* Run and its connection
  pc, fd,          \* the workers and theirs
  got              \* what recv has returned to each worker

external == <<client, wrote, backlog, fds, failures>>
server   == <<queue, mutex, waiting, process, mainPc, mainFd, pc, fd, got>>
vars     == <<external, server>>

NoFd == -1   \* what accept returns when it fails
Fd   == 1 .. Cardinality(Client)

Init ==
  /\ client = [c \in Client |-> "new"]
  /\ wrote = [c \in Client |-> "nothing"]
  /\ backlog = <<>>
  /\ fds = [n \in Fd |-> Nobody]
  /\ failures = 0
  /\ queue = <<>>
  /\ mutex = Nobody
  /\ waiting = {}
  /\ process = "up"
  /\ mainPc = "accept" /\ mainFd = NoFd
  /\ pc = [w \in Worker |-> "lock"]
  /\ fd = [w \in Worker |-> NoFd]
  /\ got = [w \in Worker |-> "nothing"]

-----------------------------------------------------------------------------
(* The clients.                                                              *)

Connect(c) ==
  /\ process = "up"
  /\ client[c] = "new"
  /\ Len(backlog) < Pending
  /\ client' = [client EXCEPT ![c] = "connected"]
  /\ backlog' = Append(backlog, c)
  /\ wrote' = IF c \in Prompt THEN [wrote EXCEPT ![c] = "request"] ELSE wrote
  /\ UNCHANGED <<fds, failures, server>>

(* What is sent is a request that is answered, be it empty, or one that ends
   the process: its content does not parse, perhaps because recv returns the
   header alone (main.cc:38), or asks for a board that Board refuses
   (board.cc:34, 39).                                                         *)
Request(c) ==
  /\ client[c] = "connected" /\ wrote[c] = "nothing"
  /\ \/ wrote' = [wrote EXCEPT ![c] = "request"]
     \/ c \in Rough /\ wrote' = [wrote EXCEPT ![c] = "fatal"]
  /\ UNCHANGED <<client, backlog, fds, failures, server>>

\* The client closes its side in order, or breaks the connection off.
HangUp(c) ==
  /\ c \in Rough
  /\ \/ client[c] = "connected" /\ client' = [client EXCEPT ![c] = "gone"]
     \/ client[c] \in {"connected", "gone"} /\ client' = [client EXCEPT ![c] = "reset"]
  /\ UNCHANGED <<wrote, backlog, fds, failures, server>>

-----------------------------------------------------------------------------
(* Run.                                                                      *)

LowestFree == CHOOSE n \in Fd : /\ fds[n] = Nobody
                                /\ \A k \in Fd : fds[k] = Nobody => n <= k

Accept ==
  /\ mainPc = "accept"
  /\ backlog # <<>>
  /\ mainFd' = LowestFree
  /\ fds' = [fds EXCEPT ![LowestFree] = Head(backlog)]
  /\ backlog' = Tail(backlog)
  /\ mainPc' = "lock"
  /\ UNCHANGED <<client, wrote, failures, queue, mutex, waiting, pc, fd, process, got>>

\* The result of accept is not looked at.  (Without a connection it blocks.)
AcceptFails ==
  /\ mainPc = "accept"
  /\ backlog # <<>>
  /\ failures < MaxFailures
  /\ failures' = failures + 1
  /\ mainFd' = NoFd
  /\ mainPc' = "lock"
  /\ UNCHANGED <<client, wrote, backlog, fds, queue, mutex, waiting, pc, fd, process, got>>

\* Queue: the lock_guard.
MainLock ==
  /\ mainPc = "lock"
  /\ mutex = Nobody
  /\ mutex' = Main
  /\ mainPc' = "push"
  /\ UNCHANGED <<external, queue, waiting, mainFd, pc, fd, process, got>>

Push ==
  /\ mainPc = "push"
  /\ queue' = Append(queue, mainFd)
  /\ mainPc' = "notify"
  /\ UNCHANGED <<external, mutex, waiting, mainFd, pc, fd, process, got>>

\* Mutant: nobody is told.
NoNotification ==
  /\ mainPc = "notify"
  /\ mutex' = Nobody
  /\ mainPc' = "accept"
  /\ UNCHANGED <<external, queue, waiting, mainFd, pc, fd, process, got>>

(* notify_one: one waiting worker, if there is one, goes for the lock, which
   is given up on return.                                                    *)
Notify ==
  /\ mainPc = "notify"
  /\ \/ waiting = {} /\ UNCHANGED <<waiting, pc>>
     \/ \E w \in waiting : /\ waiting' = waiting \ {w}
                           /\ pc' = [pc EXCEPT ![w] = "lock"]
  /\ mutex' = Nobody
  /\ mainPc' = "accept"
  /\ UNCHANGED <<external, queue, mainFd, fd, process, got>>

-----------------------------------------------------------------------------
(* A worker: HandleConnections.                                              *)

\* Dequeue takes the lock, at its start and whenever wait_for returns.
Lock(w) ==
  /\ pc[w] = "lock"
  /\ mutex = Nobody
  /\ mutex' = w
  /\ pc' = [pc EXCEPT ![w] = "check"]
  /\ UNCHANGED <<external, queue, waiting, mainPc, mainFd, fd, process, got>>

\* wait_for gives up the lock and waits, in one step.
Wait(w) ==
  /\ pc[w] = "check"
  /\ queue = <<>>
  /\ mutex' = Nobody
  /\ waiting' = waiting \cup {w}
  /\ pc' = [pc EXCEPT ![w] = "wait"]
  /\ UNCHANGED <<external, queue, mainPc, mainFd, fd, process, got>>

\* The second is over, or the wait ends for no reason.
TimeOut(w) ==
  /\ w \in waiting
  /\ waiting' = waiting \ {w}
  /\ pc' = [pc EXCEPT ![w] = "lock"]
  /\ UNCHANGED <<external, queue, mutex, mainPc, mainFd, fd, process, got>>

\* Mutant: the newest connection is taken.
TakeNewest(w) ==
  /\ pc[w] = "check"
  /\ queue # <<>>
  /\ fd' = [fd EXCEPT ![w] = queue[Len(queue)]]
  /\ queue' = SubSeq(queue, 1, Len(queue) - 1)
  /\ mutex' = Nobody
  /\ pc' = [pc EXCEPT ![w] = "recv"]
  /\ UNCHANGED <<external, waiting, mainPc, mainFd, process, got>>

\* Dequeue returns the oldest connection and gives up the lock.
Take(w) ==
  /\ pc[w] = "check"
  /\ queue # <<>>
  /\ fd' = [fd EXCEPT ![w] = Head(queue)]
  /\ queue' = Tail(queue)
  /\ mutex' = Nobody
  /\ pc' = [pc EXCEPT ![w] = "recv"]
  /\ UNCHANGED <<external, waiting, mainPc, mainFd, process, got>>

\* What recv may return on the connection of a worker; "nothing" is end of file,
\* or an error for -1.  Nothing at all: it blocks.
Received(w) ==
  IF fd[w] = NoFd THEN {"nothing"}
  ELSE LET c == fds[fd[w]]
       IN  CASE client[c] = "connected" -> {wrote[c]} \ {"nothing"}
             [] client[c] = "reset"     -> {"reset"} \cup ({wrote[c]} \ {"nothing"})
             [] OTHER                   -> {wrote[c]}

\* HttpRequest::parse
Recv(w) ==
  /\ pc[w] = "recv"
  /\ \E what \in Received(w) : got' = [got EXCEPT ![w] = what]
  /\ pc' = [pc EXCEPT ![w] = "send"]
  /\ UNCHANGED <<external, queue, mutex, waiting, process, mainPc, mainFd, fd>>

\* The process ends with all its threads, whatever they are doing, and every
\* client still connected is cut off.
Die ==
  /\ process' = "down"
  /\ client' = [c \in Client |-> IF client[c] = "connected" THEN "cut" ELSE client[c]]
  /\ UNCHANGED <<wrote, backlog, fds, failures, queue, mutex, waiting, mainPc, mainFd, pc, fd, got>>

\* processXhr: the assert that the content parses, or fatal_error in Board.
Abort(w) ==
  /\ pc[w] = "send" /\ got[w] = "fatal"
  /\ Die

\* HttpResponse::Send on a connection that was reset: SIGPIPE is neither handled
\* nor ignored, and send is called without MSG_NOSIGNAL.
BrokenPipe(w) ==
  /\ pc[w] = "send" /\ got[w] # "fatal"
  /\ fd[w] # NoFd /\ client[fds[fd[w]]] = "reset"
  /\ Die

\* HttpResponse::Send otherwise; a reset that recv has not reported may also make
\* it return an error, which is not looked at.
Send(w) ==
  /\ pc[w] = "send" /\ got[w] \in {"nothing", "request"}
  /\ client' = IF fd[w] # NoFd /\ client[fds[fd[w]]] = "connected"
                 THEN [client EXCEPT ![fds[fd[w]]] = "answered"]
                 ELSE client
  /\ pc' = [pc EXCEPT ![w] = "close"]
  /\ UNCHANGED <<wrote, backlog, fds, failures, queue, mutex, waiting, process,
                 mainPc, mainFd, fd, got>>

\* Mutant: the connection is left open.
LeaveOpen(w) ==
  /\ pc[w] = "close"
  /\ fd' = [fd EXCEPT ![w] = NoFd]
  /\ pc' = [pc EXCEPT ![w] = "lock"]
  /\ UNCHANGED <<external, queue, mutex, waiting, mainPc, mainFd, process, got>>

\* close, which fails for -1; the local connection and request go out of scope.
Close(w) ==
  /\ pc[w] = "close"
  /\ fds' = IF fd[w] = NoFd THEN fds ELSE [fds EXCEPT ![fd[w]] = Nobody]
  /\ fd' = [fd EXCEPT ![w] = NoFd]
  /\ got' = [got EXCEPT ![w] = "nothing"]
  /\ pc' = [pc EXCEPT ![w] = "lock"]
  /\ UNCHANGED <<client, wrote, backlog, failures, queue, mutex, waiting, process, mainPc, mainFd>>

-----------------------------------------------------------------------------
Run == Accept \/ MainLock \/ Push \/ Notify

Handle(w) == Recv(w) \/ Abort(w) \/ BrokenPipe(w) \/ Send(w)

HandleConnections(w) == Lock(w) \/ Wait(w) \/ Take(w) \/ Handle(w) \/ Close(w)

Next ==
  \/ \E c \in Client : Connect(c) \/ Request(c) \/ HangUp(c)
  \/ /\ process = "up"
     /\ \/ Run \/ AcceptFails
        \/ \E w \in Worker : HandleConnections(w) \/ TimeOut(w)

(* The threads run.  Between two rounds of timed-out waits the mutex is free
   for a second, so a thread blocked on it gets it.  That a wait times out, that
   accept fails or that a client does anything is never assumed.             *)
Fairness ==
  /\ WF_vars(process = "up" /\ (Accept \/ Push \/ Notify))
  /\ SF_vars(process = "up" /\ MainLock)
  /\ \A w \in Worker : /\ WF_vars(process = "up" /\ (Wait(w) \/ Take(w) \/ Handle(w) \/ Close(w)))
                       /\ SF_vars(process = "up" /\ Lock(w))

Spec     == Init /\ [][Next]_vars
FairSpec == Spec /\ Fairness

-----------------------------------------------------------------------------
(* Properties.                                                               *)

Queued(n)  == {i \in DOMAIN queue : queue[i] = n}
Holders(n) == {w \in Worker : fd[w] = n}
InRun(n)   == mainFd = n /\ mainPc \in {"lock", "push"}

(* An open descriptor is in exactly one place - with Run, in the queue or with
   one worker - and a closed one in none, though the kernel gives the number of
   a closed one to the next client at once: no answer goes to another client
   and no connection is left open.                                            *)
OneHolder ==
  \A n \in Fd :
    LET places == Cardinality(Queued(n)) + Cardinality(Holders(n)) + (IF InRun(n) THEN 1 ELSE 0)
    IN  places = IF fds[n] = Nobody THEN 0 ELSE 1

\* The descriptors among the first n that accept did not fail to give, in order.
Kept(s) ==
  LET kept[n \in 0 .. Len(s)] == IF n = 0 THEN <<>>
                                 ELSE IF s[n] = NoFd THEN kept[n - 1]
                                 ELSE Append(kept[n - 1], s[n])
  IN  kept

\* The queue with the connection Run is about to put into it.
Coming == IF mainPc \in {"lock", "push"} THEN Append(queue, mainFd) ELSE queue

\* The clients accepted and not yet taken up.
Accepted ==
  LET real == Kept(Coming)[Len(Coming)]
  IN  [i \in DOMAIN real |-> fds[real[i]]]

Handled == {fds[fd[w]] : w \in {v \in Worker : fd[v] # NoFd}}

Promise == INSTANCE ConnectionQueue WITH
             Workers <- Cardinality(Worker), waiting <- Accepted, handled <- Handled

\* Whatever the threads do, connections are handled once and in order.
HandledInOrder == Promise!Spec

\* Every worker is in recv on the connection of a client that has sent nothing.
AllHeld ==
  \A w \in Worker : /\ pc[w] = "recv" /\ fd[w] # NoFd
                     /\ client[fds[fd[w]]] = "connected" /\ wrote[fds[fd[w]]] = "nothing"

\* A client that may end the process.
Disruptive(c) == client[c] = "reset" \/ wrote[c] = "fatal"

(* A client that has sent its request and does not hang up is answered, although
   waiting workers may never time out and clients that keep silent hold workers:
   no notification is lost and no connection is forgotten.  Two things may keep it
   from its answer: there is no time-out for recv, so clients that are silent for
   ever can hold every worker; and a client that resets its connection, or whose
   request ends the process, takes all the others with it.                    *)
ClientsAreAnswered ==
  []<> ~ AllHeld =>
    \A c \in Client \ Rough :
      (client[c] = "connected" /\ wrote[c] = "request") ~>
         \/ client[c] = "answered"
         \/ process = "down" /\ \E d \in Rough : Disruptive(d)

=============================================================================
