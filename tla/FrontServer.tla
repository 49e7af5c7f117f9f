------------------------------ MODULE FrontServer ------------------------------
(***************************************************************************)
(* The front server (master/src/server.h, main.cpp): the main thread waits *)
(* in epoll_wait, accepts connections and pushes the ones with a request   *)
(* into the queue; worker threads pop, answer and close them; a signal     *)
(* handler sets have_signal, which every loop tests.                       *)
(*                                                                         *)
(* The queue is the one of LockFreeQueue by its abstract specification: a  *)
(* buffer with one place (SlotBuffer), so that a push is refused while the *)
(* socket before it waits.  The listening socket and the accepted ones are *)
(* edge-triggered, the accepted ones also one-shot.                        *)
(***************************************************************************)
EXTENDS Naturals, FiniteSets

CONSTANTS MAX_THREAD,   \* the threads one sopen creates
          Clients,      \* connections
          NoClient,
          MaxOpens,     \* bound: calls of sopen
          MaxSends,     \* bound: pieces a client sends
          MaxResets,    \* bound: clients that go away with a reset
          MaxErrors     \* bound: system calls that fail

ASSUME FrontServerAssumption ==
  /\ MAX_THREAD \in Nat \ {0}
  /\ NoClient \notin Clients
  /\ MaxOpens \in Nat /\ MaxSends \in Nat
  /\ MaxResets \in Nat /\ MaxErrors \in Nat

Workers == 0 .. MAX_THREAD - 1        \* places in the array `worker'
Threads == (1..MaxOpens) \X Workers   \* a thread and the sopen that made it

VARIABLES
  mpc,          \* where the main thread is
  ret,          \* what srun returned
  have_signal,
  opens,        \* calls of sopen; `worker' points to the threads of the last
  failed,       \* history: those that returned false
  joined,       \* the threads of `worker' that sclose has joined
  listening,    \* the listening socket is open
  edge,         \* epoll will report the listening socket
  armed,        \* accepted sockets epoll watches
  ready,        \* watched sockets epoll will report
  events,       \* what epoll_wait returned and is not yet handled
  slot, taken,  \* the queue, and the sockets the workers hold
  wpc,          \* where the workers are
  client,       \* the connections: none, backlog, open, stray, closed
  broken,       \* connections the client has reset
  sent,         \* pieces each client has sent
  errors

tries == <<opens, failed, joined>>
main == <<mpc, ret, tries, listening, events>>
pool == <<slot, taken, wpc>>
poll == <<edge, armed, ready>>
conns == <<client, broken, sent>>
vars == <<mpc, ret, have_signal, tries, listening, edge, armed, ready, events,
          slot, taken, wpc, client, broken, sent, errors>>

Queue == INSTANCE SlotBuffer WITH
  Takers <- Threads, Items <- Clients, None <- NoClient

Listener == NoClient   \* the event of the listening socket

Init ==
  /\ mpc = "open" /\ ret = FALSE /\ listening = FALSE
  /\ opens = 0 /\ failed = {} /\ joined = 0
  /\ have_signal = FALSE
  /\ edge = FALSE /\ armed = {} /\ ready = {} /\ events = {}
  /\ Queue!Init
  /\ wpc = [t \in Threads |-> "none"]
  /\ client = [c \in Clients |-> "none"]
  /\ broken = {}
  /\ sent = [c \in Clients |-> 0]
  /\ errors = 0

-------------------------------------------------------------------------------
(* The main thread: sopen, srun and sclose.                                *)

\* sopen creates the workers first ...
SpawnWorkers ==
  /\ mpc = "open"
  /\ opens < MaxOpens
  /\ opens' = opens + 1
  /\ wpc' = [t \in Threads |-> IF t[1] = opens' THEN "test" ELSE wpc[t]]
  /\ mpc' = "bind"
  /\ UNCHANGED <<ret, have_signal, failed, joined, listening, poll, events,
                 slot, taken, conns, errors>>

\* ... then it binds, listens and makes the epoll descriptor.
Bind ==
  /\ mpc = "bind"
  /\ listening' = TRUE
  /\ mpc' = "test"
  /\ UNCHANGED <<ret, have_signal, tries, poll, events, pool, conns, errors>>

\* One of these fails: sopen returns false and leaves its workers running.
BindFails ==
  /\ mpc = "bind"
  /\ errors < MaxErrors
  /\ errors' = errors + 1
  /\ failed' = failed \cup {opens}
  /\ mpc' = "sleep"
  /\ UNCHANGED <<ret, have_signal, opens, joined, listening, poll, events, pool,
                 conns>>

\* sleep(1); continue - which in a do loop goes to its condition.
Retry ==
  /\ mpc = "sleep"
  /\ mpc' = IF ~ret /\ ~have_signal THEN "open" ELSE "quit"
  /\ UNCHANGED <<ret, have_signal, tries, listening, poll, events, pool, conns,
                 errors>>

\* while(!have_signal) of srun.
TestSignal ==
  /\ mpc = "test"
  /\ ret' = have_signal
  /\ mpc' = IF have_signal THEN "close" ELSE "enter"
  /\ UNCHANGED <<have_signal, tries, listening, poll, events, pool, conns,
                 errors>>

\* The call of epoll_wait without a time limit.  A signal between the test
\* and this call does not end it.
EnterWait ==
  /\ mpc = "enter"
  /\ mpc' = "wait"
  /\ UNCHANGED <<ret, have_signal, tries, listening, poll, events, pool, conns,
                 errors>>

\* What epoll_wait fills the array with: a socket and whether it is broken.
Event == [fd : Clients \cup {Listener}, bad : BOOLEAN]
Reported ==
  {e \in Event : IF e.fd = Listener THEN edge /\ ~e.bad
                 ELSE e.fd \in ready /\ (e.bad <=> e.fd \in broken)}

\* Mutant: a socket is not one-shot, it stays armed when it is reported.
WaitReturnsArmed ==
  /\ mpc = "wait"
  /\ edge \/ ready # {}
  /\ events' = Reported
  /\ edge' = FALSE
  /\ ready' = {}
  /\ mpc' = "events"
  /\ UNCHANGED <<ret, have_signal, tries, listening, armed, pool, conns, errors>>

\* epoll_wait returns what is ready; a one-shot socket is disarmed.
WaitReturns ==
  /\ mpc = "wait"
  /\ edge \/ ready # {}
  /\ events' = Reported
  /\ edge' = FALSE
  /\ ready' = {}
  /\ armed' = armed \ ready
  /\ mpc' = "events"
  /\ UNCHANGED <<ret, have_signal, tries, listening, pool, conns, errors>>

EventsDone ==
  /\ mpc = "events"
  /\ events = {}
  /\ mpc' = "test"
  /\ UNCHANGED <<ret, have_signal, tries, listening, poll, events, pool, conns,
                 errors>>

\* EPOLLERR, EPOLLHUP or no EPOLLIN: close the socket.
CloseBroken(c) ==
  /\ mpc = "events"
  /\ [fd |-> c, bad |-> TRUE] \in events
  /\ events' = events \ {[fd |-> c, bad |-> TRUE]}
  /\ client' = [client EXCEPT ![c] = "closed"]
  /\ UNCHANGED <<mpc, ret, have_signal, tries, listening, poll, pool, broken,
                 sent, errors>>

\* The listening socket is readable: go and accept.
AcceptBegins ==
  /\ mpc = "events"
  /\ [fd |-> Listener, bad |-> FALSE] \in events
  /\ events' = events \ {[fd |-> Listener, bad |-> FALSE]}
  /\ mpc' = "accept"
  /\ UNCHANGED <<ret, have_signal, tries, listening, poll, pool, conns, errors>>

\* Mutant: one connection is accepted per event.
AcceptOne(c) ==
  /\ mpc = "accept" /\ ~have_signal
  /\ client[c] = "backlog"
  /\ client' = [client EXCEPT ![c] = "open"]
  /\ armed' = armed \cup {c}
  /\ ready' = IF sent[c] > 0 \/ c \in broken THEN ready \cup {c} ELSE ready
  /\ mpc' = "events"
  /\ UNCHANGED <<ret, tries, listening, events, have_signal, edge, pool, broken,
                 sent, errors>>

\* Mutant: what arrived before the registration is not asked for.
AcceptUnasked(c) ==
  /\ mpc = "accept" /\ ~have_signal
  /\ client[c] = "backlog"
  /\ client' = [client EXCEPT ![c] = "open"]
  /\ armed' = armed \cup {c}
  /\ UNCHANGED <<main, have_signal, edge, ready, pool, broken, sent, errors>>

\* accept, make_socket_blocking and EPOLL_CTL_ADD, which reports at once what
\* arrived before.
Accept(c) ==
  /\ mpc = "accept" /\ ~have_signal
  /\ client[c] = "backlog"
  /\ client' = [client EXCEPT ![c] = "open"]
  /\ armed' = armed \cup {c}
  /\ ready' = IF sent[c] > 0 \/ c \in broken THEN ready \cup {c} ELSE ready
  /\ UNCHANGED <<main, have_signal, edge, pool, broken, sent, errors>>

\* EAGAIN, or the signal.
AcceptEnds ==
  /\ mpc = "accept"
  /\ have_signal \/ \A c \in Clients : client[c] # "backlog"
  /\ mpc' = "events"
  /\ UNCHANGED <<ret, have_signal, tries, listening, poll, events, pool, conns,
                 errors>>

\* Another error of accept leaves the loop, and the edge is gone.
AcceptFails ==
  /\ mpc = "accept" /\ ~have_signal
  /\ errors < MaxErrors
  /\ errors' = errors + 1
  /\ mpc' = "events"
  /\ UNCHANGED <<ret, have_signal, tries, listening, poll, events, pool, conns>>

\* fcntl or epoll_ctl fails for the accepted socket: srun returns false, and
\* nobody will look at it or at the events that were not handled yet.
RegisterFails(c) ==
  /\ mpc = "accept" /\ ~have_signal
  /\ client[c] = "backlog"
  /\ errors < MaxErrors
  /\ errors' = errors + 1
  /\ client' = [d \in Clients |-> IF d = c \/ \E e \in events : e.fd = d
                                  THEN "stray" ELSE client[d]]
  /\ events' = {}
  /\ ret' = FALSE
  /\ mpc' = "close"
  /\ UNCHANGED <<have_signal, tries, listening, poll, pool, broken, sent>>

Push(c) ==
  /\ mpc = "events"
  /\ [fd |-> c, bad |-> FALSE] \in events
  /\ events' = events \ {[fd |-> c, bad |-> FALSE]}
  /\ Queue!Put(c)
  /\ UNCHANGED <<mpc, ret, have_signal, tries, listening, poll, wpc, conns,
                 errors>>

\* push returns false: the main thread sends result.log and closes the
\* socket.  If sendfile fails, because there is no such file or the client is
\* gone, the process exits.
PushRefused(c) ==
  /\ mpc = "events"
  /\ [fd |-> c, bad |-> FALSE] \in events
  /\ slot # NoClient
  /\ \/ /\ client' = [client EXCEPT ![c] = "closed"]
        /\ events' = events \ {[fd |-> c, bad |-> FALSE]}
        /\ UNCHANGED mpc
     \/ mpc' = "exit" /\ UNCHANGED <<client, events>>
  /\ UNCHANGED <<ret, have_signal, tries, listening, poll, pool, broken, sent,
                 errors>>

\* sclose closes the listening socket, which resets what is in the backlog ...
CloseListener ==
  /\ mpc = "close"
  /\ listening' = FALSE
  /\ edge' = FALSE
  /\ client' = [c \in Clients |->
                  IF client[c] = "backlog" THEN "closed" ELSE client[c]]
  /\ joined' = 0
  /\ mpc' = "join"
  /\ UNCHANGED <<ret, have_signal, opens, failed, events, armed, ready, pool,
                 broken, sent, errors>>

\* ... and waits for the threads of the last sopen, one after the other.
Join ==
  /\ mpc = "join"
  /\ joined < MAX_THREAD
  /\ wpc[<<opens, joined>>] = "left"
  /\ joined' = joined + 1
  /\ UNCHANGED <<mpc, ret, have_signal, opens, failed, listening, poll, events,
                 pool, conns, errors>>

\* Mutant: the loop of joins stops one short.
JoinAllButOne ==
  /\ mpc = "join"
  /\ joined + 1 >= MAX_THREAD
  /\ mpc' = IF ~ret /\ ~have_signal THEN "open" ELSE "gone"
  /\ UNCHANGED <<ret, have_signal, tries, listening, poll, events, pool, conns,
                 errors>>

\* The loop is done: sclose returns, to the condition of the do loop.
CloseReturns ==
  /\ mpc = "join"
  /\ joined = MAX_THREAD
  /\ mpc' = IF ~ret /\ ~have_signal THEN "open" ELSE "gone"
  /\ UNCHANGED <<ret, have_signal, tries, listening, poll, events, pool, conns,
                 errors>>

Main ==
  \/ SpawnWorkers \/ Bind \/ BindFails \/ Retry
  \/ TestSignal \/ EnterWait \/ WaitReturns \/ EventsDone
  \/ AcceptBegins \/ AcceptEnds \/ AcceptFails
  \/ \E c \in Clients :
       CloseBroken(c) \/ Accept(c) \/ RegisterFails(c) \/ Push(c) \/ PushRefused(c)
  \/ CloseListener \/ Join \/ CloseReturns

-------------------------------------------------------------------------------
(* The workers (worker_func), until the process ends.                      *)

Running == mpc \notin {"gone", "quit", "exit"}

\* Mutant: a worker does not look at the signal.
WorkerTestsNothing(t) ==
  /\ Running
  /\ wpc[t] = "test"
  /\ wpc' = [wpc EXCEPT ![t] = "pop"]
  /\ UNCHANGED <<main, have_signal, poll, slot, taken, conns, errors>>

\* while(!have_signal).
WorkerTests(t) ==
  /\ Running
  /\ wpc[t] = "test"
  /\ wpc' = [wpc EXCEPT ![t] = IF have_signal THEN "left" ELSE "pop"]
  /\ UNCHANGED <<main, have_signal, poll, slot, taken, conns, errors>>

\* Mutant: a worker that finds nothing to do leaves.
PopEmptyLeaves(t) ==
  /\ Running
  /\ wpc[t] = "pop"
  /\ slot = NoClient
  /\ wpc' = [wpc EXCEPT ![t] = "left"]
  /\ UNCHANGED <<main, have_signal, poll, slot, taken, conns, errors>>

PopEmpty(t) ==
  /\ Running
  /\ wpc[t] = "pop"
  /\ slot = NoClient
  /\ wpc' = [wpc EXCEPT ![t] = "test"]
  /\ UNCHANGED <<main, have_signal, poll, slot, taken, conns, errors>>

Pop(t) ==
  /\ Running
  /\ wpc[t] = "pop"
  /\ Queue!Take(t)
  /\ wpc' = [wpc EXCEPT ![t] = "answer"]
  /\ UNCHANGED <<main, have_signal, poll, conns, errors>>

\* Read a request, write it back, close.  The test of its size is never true,
\* so that an empty request is answered like any other.
Answer(t) ==
  /\ Running
  /\ wpc[t] = "answer"
  /\ client' = [client EXCEPT ![taken[t]] = "closed"]
  /\ armed' = armed \ {taken[t]}
  /\ ready' = ready \ {taken[t]}
  /\ Queue!Finish(t)
  /\ wpc' = [wpc EXCEPT ![t] = "test"]
  /\ UNCHANGED <<main, have_signal, edge, broken, sent, errors>>

Worker(t) == WorkerTests(t) \/ PopEmpty(t) \/ Pop(t) \/ Answer(t)

-------------------------------------------------------------------------------
(* Clients, and the operator.                                              *)

\* The kernel completes a connection while somebody listens.
Connect(c) ==
  /\ Running /\ listening
  /\ client[c] = "none"
  /\ client' = [client EXCEPT ![c] = "backlog"]
  /\ edge' = TRUE
  /\ UNCHANGED <<main, have_signal, armed, ready, pool, broken, sent, errors>>

\* A piece of a request; epoll reports it if it watches the socket.
Send(c) ==
  /\ Running
  /\ client[c] \in {"backlog", "open"}
  /\ c \notin broken
  /\ sent[c] < MaxSends
  /\ sent' = [sent EXCEPT ![c] = @ + 1]
  /\ ready' = IF c \in armed THEN ready \cup {c} ELSE ready
  /\ UNCHANGED <<main, have_signal, edge, armed, pool, client, broken, errors>>

\* The client goes away with a reset.
Break(c) ==
  /\ Running
  /\ client[c] \in {"backlog", "open"}
  /\ c \notin broken
  /\ Cardinality(broken) < MaxResets
  /\ broken' = broken \cup {c}
  /\ ready' = IF c \in armed THEN ready \cup {c} ELSE ready
  /\ UNCHANGED <<main, have_signal, edge, armed, pool, client, sent, errors>>

\* SIGTERM or SIGINT, in the main thread: the handler sets have_signal, and
\* epoll_wait, if it was entered, returns -1, which handles no event.
Signal ==
  /\ Running
  /\ ~have_signal \/ mpc = "wait"
  /\ have_signal' = TRUE
  /\ mpc' = IF mpc = "wait" THEN "test" ELSE mpc
  /\ UNCHANGED <<ret, tries, listening, poll, events, pool, conns, errors>>

Outside == \E c \in Clients : Connect(c) \/ Send(c) \/ Break(c)

Next == Main \/ (\E t \in Threads : Worker(t)) \/ Outside \/ Signal

Spec == Init /\ [][Next]_vars

\* The threads run.  An operator who has begun to stop the server repeats the
\* signal as long as the server sleeps; nobody need begin.
FairSpec ==
  /\ Spec
  /\ WF_vars(Main)
  /\ \A t \in Threads : WF_vars(Worker(t))
  /\ WF_vars(have_signal /\ Signal)

-------------------------------------------------------------------------------
(* Properties.                                                             *)

\* Every variable keeps its type, the queue its capacity.
TypeOK ==
  /\ mpc \in {"open", "bind", "sleep", "test", "enter", "wait", "events",
              "accept", "close", "join", "gone", "quit", "exit"}
  /\ ret \in BOOLEAN /\ have_signal \in BOOLEAN /\ listening \in BOOLEAN
  /\ edge \in BOOLEAN
  /\ opens \in 0..MaxOpens /\ errors \in 0..MaxErrors
  /\ failed \subseteq 1..MaxOpens /\ joined \in 0..MAX_THREAD
  /\ armed \subseteq Clients /\ ready \subseteq armed
  /\ broken \subseteq Clients
  /\ events \subseteq Event
  /\ slot \in Clients \cup {NoClient}
  /\ taken \in [Threads -> Clients \cup {NoClient}]
  /\ wpc \in [Threads -> {"none", "test", "pop", "answer", "left"}]
  /\ client \in [Clients -> {"none", "backlog", "open", "stray", "closed"}]
  /\ sent \in [Clients -> 0..MaxSends]

\* Those who may go on to use a socket.
Watched(c)  == c \in armed                       \* epoll
InHand(c)   == \E e \in events : e.fd = c        \* the main thread
Queued(c)   == slot = c                          \* the queue
Held(c)     == \E t \in Threads : taken[t] = c   \* a worker

\* A socket that is open has one owner and a closed one has none: it is
\* pushed once, closed once and never used after that, although its client
\* may send more while a worker holds it.  This is what LockFreeQueue assumes
\* of its callers (EPOLLONESHOT, server.h:147).
OneOwner ==
  \A c \in Clients :
    /\ client[c] = "open" <=> Watched(c) \/ InHand(c) \/ Queued(c) \/ Held(c)
    /\ Watched(c) => ~InHand(c) /\ ~Queued(c) /\ ~Held(c)
    /\ InHand(c)  => ~Queued(c) /\ ~Held(c)
    /\ Queued(c)  => ~Held(c)
    /\ \A d, e \in events : d.fd = c /\ e.fd = c => d = e
    /\ \A t, u \in Threads : taken[t] = c /\ taken[u] = c => t = u

\* The main thread never sleeps over a connection it has been told of, unless
\* accept failed: an edge is reported once, so srun must accept until EAGAIN.
NoEdgeLost ==
  mpc = "wait" /\ (\E c \in Clients : client[c] = "backlog") =>
    edge \/ errors > 0

\* When main2 returns, the threads that still use the queue it is about to
\* destroy are those of calls of sopen that failed.  sclose joins the threads of
\* one sopen only, so no sopen may succeed and then be followed by another.
OnlyLeakedThreadsOutlive ==
  mpc \in {"gone", "quit"} =>
    \A t \in Threads : wpc[t] \in {"none", "left"} \/ t[1] \in failed

\* sclose returns only after a signal: the loop of main2 never opens again
\* after srun failed, it hangs in pthread_join.
CloseWaitsForASignal == [][mpc = "join" /\ mpc' # "join" => have_signal]_vars

\* A server that is told to stop stops, if the operator repeats the signal that
\* fell between the test and epoll_wait.
StopEnds == have_signal ~> ~Running

\* A client with something to say is answered or closed, whatever the order of
\* its pieces and of the others, unless the server is stopped, a system call
\* fails, or the process exits over a refused push.
EveryRequestIsAnswered ==
  \A c \in Clients :
    client[c] \in {"backlog", "open"} /\ (sent[c] > 0 \/ c \in broken)
      ~> client[c] = "closed" \/ have_signal \/ errors > 0 \/ mpc = "exit"

===============================================================================
