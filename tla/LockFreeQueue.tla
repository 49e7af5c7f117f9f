---------------------------- MODULE LockFreeQueue -----------------------------
(***************************************************************************)
(* The queue between the epoll loop and the worker threads of the front    *)
(* server (master/src/lock_free_queue.h, used by master/src/server.h): one *)
(* producer pushes sockets without a lock, the workers pop under a         *)
(* test-and-set lock.  One action per load or store of shared memory, as   *)
(* the unoptimised x86 build orders them.                                  *)
(*                                                                         *)
(* m_size counts downwards (push decrements it, pop increments it) while   *)
(* size() converts it to an unsigned word.                                 *)
(***************************************************************************)
EXTENDS Integers

CONSTANTS Workers,    \* the worker threads (MAX_THREAD of server.h)
          Sockets,    \* descriptors of accepted connections
          NoSocket,
          Capacity,   \* length of m_head: 2*1024 in the code
          Limit,      \* push refuses from this size on: 1*1024 in the code
          Word        \* number of values of uint64_t

ASSUME QueueAssumption ==
  /\ NoSocket \notin Sockets
  /\ Capacity \in Nat \ {0}
  /\ Limit \in Nat \ {0}
  /\ Word \in Nat /\ Word > Limit

VARIABLES m_head, head, tail, m_size, tas_lock,
          ppc, pfd, preg, pushed,   \* the epoll thread
          wpc, wfd, wreg, popped,   \* the workers
          owned    \* sockets pushed and not yet closed by a worker

queue  == <<m_head, head, tail, m_size, tas_lock>>
prod   == <<ppc, pfd, preg, pushed>>
cons   == <<wpc, wfd, wreg, popped>>
vars   == <<m_head, head, tail, m_size, tas_lock, ppc, pfd, preg, pushed,
            wpc, wfd, wreg, popped, owned>>

Slots == 0..(Capacity - 1)

Succ(i) == IF i + 1 = Capacity THEN 0 ELSE i + 1

\* Mutant: size counts the sockets under way, however many they are.
sizeAbsolute == IF m_size < 0 THEN -m_size ELSE m_size

\* size(): the int m_size as an unsigned word.
size == IF m_size < 0 THEN m_size + Word ELSE m_size

Init ==
  /\ m_head = [i \in Slots |-> NoSocket]
  /\ head = 0 /\ tail = 0 /\ m_size = 0 /\ tas_lock = 0
  /\ ppc = "idle" /\ pfd = NoSocket /\ preg = 0 /\ pushed = FALSE
  /\ wpc = [w \in Workers |-> "lock"]
  /\ wfd = [w \in Workers |-> NoSocket]
  /\ wreg = [w \in Workers |-> 0]
  /\ popped = [w \in Workers |-> FALSE]
  /\ owned = {}

-------------------------------------------------------------------------------
(* push, by the epoll thread.  A socket is armed once (EPOLLONESHOT) and    *)
(* pushed once until it is closed.                                          *)

PushBegin(f) ==
  /\ ppc = "idle"
  /\ f \notin owned
  /\ size < Limit
  /\ ppc' = "slot"
  /\ pfd' = f
  /\ owned' = owned \cup {f}
  /\ UNCHANGED <<queue, cons, preg, pushed>>

\* The caller answers by itself and closes the socket.
PushRefused(f) ==
  /\ ppc = "idle"
  /\ f \notin owned
  /\ size >= Limit
  /\ pushed' = FALSE
  /\ UNCHANGED <<queue, cons, ppc, pfd, preg, owned>>

PushSlot ==
  /\ ppc = "slot"
  /\ m_head' = [m_head EXCEPT ![tail] = pfd]
  /\ ppc' = "tail"
  /\ UNCHANGED <<head, tail, m_size, tas_lock, cons, pfd, preg, pushed, owned>>

PushTail ==
  /\ ppc = "tail"
  /\ tail' = Succ(tail)
  /\ ppc' = "load"
  /\ UNCHANGED <<m_head, head, m_size, tas_lock, cons, pfd, preg, pushed, owned>>

PushLoad ==
  /\ ppc = "load"
  /\ preg' = m_size
  /\ ppc' = "dec"
  /\ UNCHANGED <<queue, cons, pfd, pushed, owned>>

PushDecrement ==
  /\ ppc = "dec"
  /\ m_size' = preg - 1
  /\ pushed' = TRUE
  /\ ppc' = "idle"
  /\ UNCHANGED <<m_head, head, tail, tas_lock, cons, pfd, preg, owned>>

Producer ==
  \/ \E f \in Sockets : PushBegin(f) \/ PushRefused(f)
  \/ PushSlot \/ PushTail \/ PushLoad \/ PushDecrement

-------------------------------------------------------------------------------
(* pop and the rest of worker_func, by worker w.                            *)

\* Mutant: the result of test_and_set is ignored.
PopLockIgnored(w) ==
  /\ wpc[w] = "lock"
  /\ tas_lock' = 1
  /\ wpc' = [wpc EXCEPT ![w] = "check"]
  /\ UNCHANGED <<m_head, head, tail, m_size, prod, wfd, wreg, popped, owned>>

PopLock(w) ==
  /\ wpc[w] = "lock"
  /\ tas_lock' = 1
  /\ wpc' = [wpc EXCEPT ![w] = IF tas_lock = 1 THEN "lock" ELSE "check"]
  /\ UNCHANGED <<m_head, head, tail, m_size, prod, wfd, wreg, popped, owned>>

PopCheck(w) ==
  /\ wpc[w] = "check"
  /\ popped' = [popped EXCEPT ![w] = FALSE]
  /\ wpc' = [wpc EXCEPT ![w] = IF size >= 1 THEN "read" ELSE "unlock"]
  /\ UNCHANGED <<queue, prod, wfd, wreg, owned>>

\* Mutant: the socket is read at the other end.
PopReadTail(w) ==
  /\ wpc[w] = "read"
  /\ wfd' = [wfd EXCEPT ![w] = m_head[tail]]
  /\ wpc' = [wpc EXCEPT ![w] = "head"]
  /\ UNCHANGED <<queue, prod, wreg, popped, owned>>

PopRead(w) ==
  /\ wpc[w] = "read"
  /\ wfd' = [wfd EXCEPT ![w] = m_head[head]]
  /\ wpc' = [wpc EXCEPT ![w] = "head"]
  /\ UNCHANGED <<queue, prod, wreg, popped, owned>>

\* Mutant: head stays.
PopHeadStays(w) ==
  /\ wpc[w] = "head"
  /\ wpc' = [wpc EXCEPT ![w] = "load"]
  /\ UNCHANGED <<queue, prod, wfd, wreg, popped, owned>>

PopHead(w) ==
  /\ wpc[w] = "head"
  /\ head' = Succ(head)
  /\ wpc' = [wpc EXCEPT ![w] = "load"]
  /\ UNCHANGED <<m_head, tail, m_size, tas_lock, prod, wfd, wreg, popped, owned>>

PopLoad(w) ==
  /\ wpc[w] = "load"
  /\ wreg' = [wreg EXCEPT ![w] = m_size]
  /\ wpc' = [wpc EXCEPT ![w] = "inc"]
  /\ UNCHANGED <<queue, prod, wfd, popped, owned>>

PopIncrement(w) ==
  /\ wpc[w] = "inc"
  /\ m_size' = wreg[w] + 1
  /\ popped' = [popped EXCEPT ![w] = TRUE]
  /\ wpc' = [wpc EXCEPT ![w] = "unlock"]
  /\ UNCHANGED <<m_head, head, tail, tas_lock, prod, wfd, wreg, owned>>

\* Mutant: only the path of an empty queue resets the lock.
PopUnlockEmptyOnly(w) ==
  /\ wpc[w] = "unlock"
  /\ tas_lock' = IF popped[w] THEN tas_lock ELSE 0
  /\ wpc' = [wpc EXCEPT ![w] = IF popped[w] THEN "serve" ELSE "lock"]
  /\ UNCHANGED <<m_head, head, tail, m_size, prod, wfd, wreg, popped, owned>>

PopUnlock(w) ==
  /\ wpc[w] = "unlock"
  /\ tas_lock' = 0
  /\ wpc' = [wpc EXCEPT ![w] = IF popped[w] THEN "serve" ELSE "lock"]
  /\ UNCHANGED <<m_head, head, tail, m_size, prod, wfd, wreg, popped, owned>>

\* worker_func answers the connection and closes the socket.
ServeSocket(w) ==
  /\ wpc[w] = "serve"
  /\ owned' = owned \ {wfd[w]}
  /\ wfd' = [wfd EXCEPT ![w] = NoSocket]
  /\ wpc' = [wpc EXCEPT ![w] = "lock"]
  /\ UNCHANGED <<queue, prod, wreg, popped>>

Worker(w) ==
  \/ PopLock(w) \/ PopCheck(w) \/ PopRead(w) \/ PopHead(w) \/ PopLoad(w)
  \/ PopIncrement(w) \/ PopUnlock(w) \/ ServeSocket(w)

Next == Producer \/ \E w \in Workers : Worker(w)

Spec == Init /\ [][Next]_vars

\* The threads run; connections need not come, but a push that began ends.
Fairness ==
  /\ WF_vars(PushSlot \/ PushTail \/ PushLoad \/ PushDecrement)
  /\ \A w \in Workers : WF_vars(Worker(w))

FairSpec == Spec /\ Fairness

-------------------------------------------------------------------------------
(* Properties.                                                             *)

\* Every variable holds a value of its type.
TypeOK ==
  /\ m_head \in [Slots -> Sockets \cup {NoSocket}]
  /\ head \in Slots /\ tail \in Slots
  /\ m_size \in Int
  /\ tas_lock \in {0, 1}
  /\ ppc \in {"idle", "slot", "tail", "load", "dec"}
  /\ pfd \in Sockets \cup {NoSocket}
  /\ preg \in Int
  /\ pushed \in BOOLEAN
  /\ wpc \in [Workers -> {"lock", "check", "read", "head", "load", "inc",
                          "unlock", "serve"}]
  /\ wfd \in [Workers -> Sockets \cup {NoSocket}]
  /\ wreg \in [Workers -> Int]
  /\ popped \in [Workers -> BOOLEAN]
  /\ owned \subseteq Sockets

InPop(w) == wpc[w] \notin {"lock", "serve"}

\* pop's "make it like single customer": one worker at a time is between the
\* test-and-set and the reset.
OneCustomer ==
  \A v, w \in Workers : InPop(v) /\ InPop(w) => v = w

\* The producer and the popping worker never update m_size concurrently: a
\* push runs only while the counter is 0, a pop takes only while it is -1,
\* so the unlocked decrement of push loses no update.
NoRaceOnSize ==
  /\ m_size \in {-1, 0}
  /\ ppc # "idle" => m_size = 0
  /\ \A w \in Workers : wpc[w] \in {"read", "head", "load", "inc"} =>
       m_size = -1 /\ ppc = "idle"

\* Whoever holds a socket holds it alone: no socket is answered by two
\* workers, or answered while it is still in the queue.
SocketHasOneOwner ==
  \A v, w \in Workers :
    /\ wpc[v] = "serve" =>
         /\ wfd[v] \in owned
         /\ (ppc # "idle" \/ m_size = -1) => pfd # wfd[v]
    /\ v # w /\ wpc[v] = "serve" /\ wpc[w] = "serve" => wfd[v] # wfd[w]

\* The queue is a buffer with one place, not with Limit places.
Buffer == INSTANCE SlotBuffer WITH
  Takers <- Workers, Items <- Sockets, None <- NoSocket,
  slot  <- IF m_size = -1 THEN pfd ELSE NoSocket,
  taken <- [w \in Workers |->
              IF popped[w] /\ wpc[w] \in {"unlock", "serve"} THEN wfd[w]
              ELSE NoSocket]
BufferSpec == Buffer!Spec

\* A socket that was pushed is answered and closed.
EverySocketIsServed == \A f \in Sockets : f \in owned ~> f \notin owned

===============================================================================
