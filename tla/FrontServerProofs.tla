-------------------------- MODULE FrontServerProofs ---------------------------
(***************************************************************************)
(* Proofs about the front server, for any number of workers, clients,      *)
(* calls of sopen and errors.                                              *)
(***************************************************************************)
EXTENDS FrontServer, TLAPS

-------------------------------------------------------------------------------
(* The inductive invariant.                                                *)

\* Events are there while they are handled, and when the process has exited.
EventsOK == mpc \notin {"events", "accept", "exit"} => events = {}

\* A worker holds a socket exactly while it answers.
HoldOK == \A t \in Threads : wpc[t] = "answer" <=> taken[t] # NoClient

\* Threads leave after a signal, and there are none of a sopen to come.
LeftOK ==
  /\ \A t \in Threads : wpc[t] = "left" => have_signal
  /\ \A t \in Threads : t[1] > opens => wpc[t] = "none"
  /\ mpc # "open" => opens >= 1

\* The threads sclose has joined have left; every sopen before the last has
\* failed, and so has the last when there is to be another or main2 gives up.
JoinOK ==
  /\ mpc \in {"join", "gone"} =>
       \A w \in Workers : w < joined => wpc[<<opens, w>>] = "left"
  /\ mpc = "gone" => joined = MAX_THREAD
  /\ \A k \in 1..MaxOpens : k < opens => k \in failed
  /\ mpc \in {"open", "sleep", "quit"} => opens = 0 \/ opens \in failed

IInv == TypeOK /\ EventsOK /\ HoldOK /\ LeftOK /\ JoinOK /\ OneOwner

-------------------------------------------------------------------------------

LEMMA ThreadType ==
  \A t \in Threads :
    t = <<t[1], t[2]>> /\ t[1] \in 1..MaxOpens /\ t[2] \in Workers
BY DEF Threads

LEMMA WorkerType ==
  /\ 0 \in Workers
  /\ \A w \in Workers : w \in Nat /\ w < MAX_THREAD
  /\ \A k \in 1..MaxOpens, w \in Workers : <<k, w>> \in Threads
BY FrontServerAssumption DEF Workers, Threads

LEMMA ReportedType ==
  ASSUME ready \subseteq Clients
  PROVE  Reported \subseteq Event
BY DEF Reported

\* A ready socket is reported once, and no other one.
LEMMA ReportedOnce ==
  ASSUME NEW c \in Clients
  PROVE  /\ (\E e \in Reported : e.fd = c) <=> c \in ready
         /\ \A d, e \in Reported : d.fd = c /\ e.fd = c => d = e
<1>1. c # Listener
  BY FrontServerAssumption DEF Listener
<1>2. ASSUME c \in ready
      PROVE  \E e \in Reported : e.fd = c
  <2>1. CASE c \in broken
    <3>1. [fd |-> c, bad |-> TRUE] \in Reported
      BY <1>1, <1>2, <2>1 DEF Reported, Event
    <3> QED BY <3>1
  <2>2. CASE c \notin broken
    <3>1. [fd |-> c, bad |-> FALSE] \in Reported
      BY <1>1, <1>2, <2>2 DEF Reported, Event
    <3> QED BY <3>1
  <2> QED BY <2>1, <2>2
<1>3. \A e \in Reported : e.fd = c => c \in ready
  BY <1>1 DEF Reported
<1>4. ASSUME NEW d \in Reported, NEW e \in Reported, d.fd = c, e.fd = c
      PROVE  d = e
  <2>1. d.bad <=> e.bad
    BY <1>1, <1>4 DEF Reported
  <2>2. /\ d \in [fd : Clients \cup {Listener}, bad : BOOLEAN]
        /\ e \in [fd : Clients \cup {Listener}, bad : BOOLEAN]
    BY DEF Reported, Event
  <2> QED BY <1>4, <2>1, <2>2
<1> QED BY <1>2, <1>3, <1>4

LEMMA InitInv == Init => IInv
<1> SUFFICES ASSUME Init PROVE IInv
  OBVIOUS
<1> USE FrontServerAssumption
<1>1. TypeOK
  <2>1. /\ mpc \in {"open", "bind", "sleep", "test", "enter", "wait", "events",
              "accept", "close", "join", "gone", "quit", "exit"}
        /\ opens \in 0..MaxOpens /\ errors \in 0..MaxErrors
        /\ failed \subseteq 1..MaxOpens /\ joined \in 0..MAX_THREAD
        /\ armed \subseteq Clients /\ ready \subseteq armed
        /\ broken \subseteq Clients
        /\ events \subseteq Event
    BY DEF Init
  <2>2. /\ ret \in BOOLEAN /\ have_signal \in BOOLEAN /\ listening \in BOOLEAN
        /\ edge \in BOOLEAN
    BY Zenon DEF Init
  <2>3. /\ slot \in Clients \cup {NoClient}
        /\ taken \in [Threads -> Clients \cup {NoClient}]
    BY DEF Init, Queue!Init
  <2>4. wpc \in [Threads -> {"none", "test", "pop", "answer", "left"}]
    BY DEF Init
  <2>5. client \in [Clients -> {"none", "backlog", "open", "stray", "closed"}]
    BY DEF Init
  <2>6. sent \in [Clients -> 0..MaxSends]
    BY DEF Init
  <2> QED BY <2>1, <2>2, <2>3, <2>4, <2>5, <2>6 DEF TypeOK
<1>2. EventsOK
  BY DEF Init, EventsOK
<1>3. HoldOK
  BY DEF Init, HoldOK, Queue!Init
<1>4. LeftOK
  BY DEF Init, LeftOK
<1>5. OneOwner
  BY DEF Init, OneOwner, Watched, InHand, Queued, Held, Queue!Init
<1>6. JoinOK
  BY DEF Init, JoinOK
<1> QED BY <1>1, <1>2, <1>3, <1>4, <1>5, <1>6 DEF IInv


-------------------------------------------------------------------------------
(* Types.                                                                    *)

LEMMA TypeOKStep ==
  ASSUME IInv, Next
  PROVE  TypeOK'
<1>0. TypeOK /\ (mpc # "open" => opens >= 1)
  BY DEF IInv, LeftOK
<1> USE <1>0, FrontServerAssumption DEF TypeOK, tries
<1>1. CASE Bind \/ BindFails \/ Retry \/ TestSignal \/ EnterWait
  <2>1. CASE Bind
    BY <1>1, <2>1 DEF Bind, vars, main, pool, poll, conns
  <2>2. CASE BindFails
    <3>1. opens \in 1..MaxOpens
      BY <1>0, <2>2 DEF BindFails
    <3> QED BY <1>1, <2>2, <3>1 DEF BindFails, vars, main, pool, poll, conns
  <2>3. CASE Retry
    BY <1>1, <2>3 DEF Retry, vars, main, pool, poll, conns
  <2>4. CASE TestSignal
    BY <1>1, <2>4 DEF TestSignal, vars, main, pool, poll, conns
  <2>5. CASE EnterWait
    BY <1>1, <2>5 DEF EnterWait, vars, main, pool, poll, conns
  <2> QED BY <1>1, <2>1, <2>2, <2>3, <2>4, <2>5
<1>2. CASE EventsDone \/ AcceptBegins \/ AcceptEnds \/ AcceptFails
           \/ Join \/ CloseReturns
  <2>1. CASE EventsDone \/ AcceptEnds
    BY <2>1 DEF EventsDone, AcceptEnds, pool, poll, conns
  <2>2. CASE AcceptBegins \/ AcceptFails
    <3>1. /\ events' \subseteq events /\ errors' \in {errors, errors + 1}
          /\ errors' \in 0..MaxErrors /\ mpc' \in {"events", "accept"}
          /\ UNCHANGED <<ret, have_signal, tries, listening, poll, pool, conns>>
      BY <2>2 DEF AcceptBegins, AcceptFails
    <3> QED BY <3>1 DEF pool, poll, conns
  <2>3. CASE Join
    BY <1>2, <2>3 DEF Join, pool, poll, conns
  <2>4. CASE CloseReturns
    BY <1>2, <2>4 DEF CloseReturns, pool, poll, conns
  <2> QED BY <1>2, <2>1, <2>2, <2>3, <2>4
<1>3. CASE Signal
  BY <1>3 DEF Signal, vars, main, pool, poll, conns
<1>4. ASSUME NEW c \in Clients, CloseBroken(c) \/ Accept(c) \/ PushRefused(c)
      PROVE  TypeOK'
  <2>1. CASE CloseBroken(c)
    BY <1>4, <2>1 DEF CloseBroken, vars, main, pool, poll, conns
  <2>2. CASE Accept(c)
    BY <1>4, <2>2 DEF Accept, vars, main, pool, poll, conns
  <2>3. CASE PushRefused(c)
    BY <1>4, <2>3 DEF PushRefused, vars, main, pool, poll, conns
  <2> QED BY <1>4, <2>1, <2>2, <2>3
<1>5. ASSUME NEW c \in Clients, Connect(c) \/ Send(c) \/ Break(c)
      PROVE  TypeOK'
  <2>1. CASE Connect(c)
    BY <1>5, <2>1 DEF Connect, vars, main, pool, poll, conns
  <2>2. CASE Send(c)
    BY <1>5, <2>2 DEF Send, vars, main, pool, poll, conns
  <2>3. CASE Break(c)
    BY <1>5, <2>3 DEF Break, vars, main, pool, poll, conns
  <2> QED BY <1>5, <2>1, <2>2, <2>3
<1>6. ASSUME NEW t \in Threads, WorkerTests(t) \/ PopEmpty(t)
      PROVE  TypeOK'
  <2>1. CASE WorkerTests(t)
    BY <2>1 DEF WorkerTests, vars, main, pool, poll, conns
  <2>2. CASE PopEmpty(t)
    BY <2>2 DEF PopEmpty, vars, main, pool, poll, conns
  <2> QED BY <1>6, <2>1, <2>2
<1>7. CASE SpawnWorkers
  BY <1>7 DEF SpawnWorkers, vars, main, pool, poll, conns
<1>8. CASE WaitReturns
  <2>1. events' \subseteq Event
    BY <1>8, ReportedType DEF WaitReturns
  <2> QED BY <1>8, <2>1 DEF WaitReturns, pool, conns
<1>9. CASE CloseListener
  <2>1. client' \in [Clients -> {"none", "backlog", "open", "stray", "closed"}]
    BY <1>9 DEF CloseListener
  <2>2. joined' \in 0..MAX_THREAD
    BY <1>9 DEF CloseListener
  <2> QED BY <1>9, <2>1, <2>2 DEF CloseListener, pool
<1>10. ASSUME NEW c \in Clients, RegisterFails(c)
      PROVE  TypeOK'
  <2>1. client' \in [Clients -> {"none", "backlog", "open", "stray", "closed"}]
    BY <1>10 DEF RegisterFails
  <2>2. ret' \in BOOLEAN
    BY <1>10 DEF RegisterFails
  <2>3. UNCHANGED <<have_signal, opens, failed, joined, listening, edge, armed,
                    ready, slot, taken, wpc, broken, sent>>
    BY <1>10 DEF RegisterFails, poll, pool
  <2>4. mpc' = "close" /\ events' = {} /\ errors' \in 0..MaxErrors
    BY <1>10 DEF RegisterFails
  <2> QED BY <2>1, <2>2, <2>3, <2>4
<1>11. ASSUME NEW c \in Clients, Push(c)
      PROVE  TypeOK'
  BY <1>11 DEF Push, Queue!Put, vars, main, pool, poll, conns
<1>12. ASSUME NEW t \in Threads, Pop(t)
      PROVE  TypeOK'
  BY <1>12 DEF Pop, Queue!Take, vars, main, pool, poll, conns
<1>13. ASSUME NEW t \in Threads, Answer(t)
      PROVE  TypeOK'
  BY <1>13 DEF Answer, Queue!Finish, vars, main, pool, poll, conns
<1> QED BY <1>1, <1>2, <1>3, <1>4, <1>5, <1>6, <1>7, <1>8, <1>9, <1>10, <1>11, <1>12, <1>13 DEF Next, Main, Worker, Outside

-------------------------------------------------------------------------------
(* Events.                                                                   *)

LEMMA EventsOKStep ==
  ASSUME IInv, Next
  PROVE  EventsOK'
<1> USE FrontServerAssumption DEF IInv, EventsOK, tries
<1>1. CASE SpawnWorkers \/ Bind \/ BindFails \/ Retry \/ TestSignal
  BY <1>1 DEF SpawnWorkers, Bind, BindFails, Retry, TestSignal, vars, main, pool,
           poll, conns
<1>2. CASE EnterWait \/ EventsDone \/ AcceptBegins \/ AcceptEnds \/
           AcceptFails
  BY <1>2 DEF EnterWait, EventsDone, AcceptBegins, AcceptEnds, AcceptFails, vars,
           main, pool, poll, conns
<1>3. CASE CloseListener \/ Join \/ CloseReturns \/ Signal
  BY <1>3 DEF CloseListener, Join, CloseReturns, Signal, vars, main, pool, poll,
           conns
<1>4. ASSUME NEW c \in Clients, CloseBroken(c) \/ Accept(c) \/ RegisterFails(c)
      PROVE  EventsOK'
  BY <1>4 DEF CloseBroken, Accept, RegisterFails, vars, main, pool, poll, conns
<1>5. ASSUME NEW c \in Clients, Push(c) \/ PushRefused(c) \/ Connect(c)
      PROVE  EventsOK'
  BY <1>5 DEF Push, PushRefused, Connect, Queue!Put, vars, main, pool, poll,
           conns
<1>6. ASSUME NEW c \in Clients, Send(c) \/ Break(c)
      PROVE  EventsOK'
  BY <1>6 DEF Send, Break, vars, main, pool, poll, conns
<1>7. ASSUME NEW t \in Threads, WorkerTests(t) \/ PopEmpty(t) \/ Pop(t)
      PROVE  EventsOK'
  BY <1>7 DEF WorkerTests, PopEmpty, Pop, Queue!Take, vars, main, pool, poll,
           conns
<1>8. ASSUME NEW t \in Threads, Answer(t)
      PROVE  EventsOK'
  BY <1>8 DEF Answer, Queue!Finish, vars, main, pool, poll, conns
<1>9. CASE WaitReturns
  BY <1>9 DEF WaitReturns, vars, main, pool, poll, conns
<1> QED BY <1>1, <1>2, <1>3, <1>4, <1>5, <1>6, <1>7, <1>8, <1>9 DEF Next, Main, Worker, Outside

-------------------------------------------------------------------------------
(* What the workers hold.                                                    *)

LEMMA HoldOKStep ==
  ASSUME IInv, Next
  PROVE  HoldOK'
<1> USE FrontServerAssumption DEF IInv, TypeOK, HoldOK, tries
<1>1. CASE Bind \/ BindFails \/ Retry \/ TestSignal \/ EnterWait
  BY <1>1 DEF Bind, BindFails, Retry, TestSignal, EnterWait, vars, main, pool,
           poll, conns
<1>2. CASE WaitReturns \/ EventsDone \/ AcceptBegins \/ AcceptEnds \/
           AcceptFails
  BY <1>2 DEF WaitReturns, EventsDone, AcceptBegins, AcceptEnds, AcceptFails,
           vars, main, pool, poll, conns
<1>3. CASE CloseListener \/ Join \/ CloseReturns \/ Signal
  BY <1>3 DEF CloseListener, Join, CloseReturns, Signal, vars, main, pool, poll,
           conns
<1>4. ASSUME NEW c \in Clients, CloseBroken(c) \/ Accept(c) \/ RegisterFails(c)
      PROVE  HoldOK'
  BY <1>4 DEF CloseBroken, Accept, RegisterFails, vars, main, pool, poll, conns
<1>5. ASSUME NEW c \in Clients, Push(c) \/ PushRefused(c) \/ Connect(c)
      PROVE  HoldOK'
  BY <1>5 DEF Push, PushRefused, Connect, Queue!Put, vars, main, pool, poll,
           conns
<1>6. ASSUME NEW c \in Clients, Send(c) \/ Break(c)
      PROVE  HoldOK'
  BY <1>6 DEF Send, Break, vars, main, pool, poll, conns
<1>7. CASE SpawnWorkers
  <2>1. \A t \in Threads : t[1] = opens' => wpc[t] = "none" /\ wpc'[t] = "test"
    BY <1>7, ThreadType DEF LeftOK, SpawnWorkers
  <2>2. \A t \in Threads : t[1] # opens' => wpc'[t] = wpc[t]
    BY <1>7 DEF SpawnWorkers
  <2> QED BY <1>7, <2>1, <2>2 DEF SpawnWorkers
<1>8. ASSUME NEW t \in Threads, WorkerTests(t)
      PROVE  HoldOK'
  BY <1>8 DEF WorkerTests, vars, main, pool, poll, conns
<1>9. ASSUME NEW t \in Threads, PopEmpty(t)
      PROVE  HoldOK'
  BY <1>9 DEF PopEmpty, vars, main, pool, poll, conns
<1>10. ASSUME NEW t \in Threads, Pop(t)
      PROVE  HoldOK'
  BY <1>10 DEF Pop, Queue!Take, vars, main, pool, poll, conns
<1>11. ASSUME NEW t \in Threads, Answer(t)
      PROVE  HoldOK'
  BY <1>11 DEF Answer, Queue!Finish, vars, main, pool, poll, conns
<1> QED BY <1>1, <1>2, <1>3, <1>4, <1>5, <1>6, <1>7, <1>8, <1>9, <1>10, <1>11 DEF Next, Main, Worker, Outside

-------------------------------------------------------------------------------
(* Threads that left.                                                        *)

LEMMA LeftOKStep ==
  ASSUME IInv, Next
  PROVE  LeftOK'
<1> USE FrontServerAssumption DEF IInv, TypeOK, LeftOK, tries
<1>1. CASE Bind \/ BindFails \/ Retry \/ TestSignal \/ EnterWait
  BY <1>1 DEF Bind, BindFails, Retry, TestSignal, EnterWait, vars, main, pool,
           poll, conns
<1>2. CASE WaitReturns \/ EventsDone \/ AcceptBegins \/ AcceptEnds \/
           AcceptFails
  BY <1>2 DEF WaitReturns, EventsDone, AcceptBegins, AcceptEnds, AcceptFails,
           vars, main, pool, poll, conns
<1>3. CASE CloseListener \/ Signal
  BY <1>3 DEF CloseListener, Signal, vars, main, pool, poll, conns
<1>4. ASSUME NEW c \in Clients, CloseBroken(c) \/ Accept(c) \/ RegisterFails(c)
      PROVE  LeftOK'
  BY <1>4 DEF CloseBroken, Accept, RegisterFails, vars, main, pool, poll, conns
<1>5. ASSUME NEW c \in Clients, Push(c) \/ PushRefused(c) \/ Connect(c)
      PROVE  LeftOK'
  BY <1>5 DEF Push, PushRefused, Connect, Queue!Put, vars, main, pool, poll,
           conns
<1>6. ASSUME NEW c \in Clients, Send(c) \/ Break(c)
      PROVE  LeftOK'
  BY <1>6 DEF Send, Break, vars, main, pool, poll, conns
<1>7. CASE SpawnWorkers
  <2>1. \A t \in Threads : t[1] = opens' => wpc'[t] = "test"
    BY <1>7 DEF SpawnWorkers
  <2>2. \A t \in Threads : t[1] # opens' => wpc'[t] = wpc[t]
    BY <1>7 DEF SpawnWorkers
  <2>3. \A t \in Threads : t[1] > opens' => t[1] > opens
    BY <1>7, ThreadType DEF SpawnWorkers
  <2> QED BY <1>7, <2>1, <2>2, <2>3 DEF SpawnWorkers
<1>8. CASE Join \/ CloseReturns
  BY <1>8 DEF Join, CloseReturns, poll, pool, conns
<1>9. ASSUME NEW t \in Threads, WorkerTests(t)
      PROVE  LeftOK'
  BY <1>9 DEF WorkerTests, vars, main, pool, poll, conns
<1>10. ASSUME NEW t \in Threads, PopEmpty(t)
      PROVE  LeftOK'
  BY <1>10 DEF PopEmpty, vars, main, pool, poll, conns
<1>11. ASSUME NEW t \in Threads, Pop(t)
      PROVE  LeftOK'
  BY <1>11 DEF Pop, Queue!Take, vars, main, pool, poll, conns
<1>12. ASSUME NEW t \in Threads, Answer(t)
      PROVE  LeftOK'
  BY <1>12 DEF Answer, Queue!Finish, vars, main, pool, poll, conns
<1> QED BY <1>1, <1>2, <1>3, <1>4, <1>5, <1>6, <1>7, <1>8, <1>9, <1>10, <1>11, <1>12 DEF Next, Main, Worker, Outside

-------------------------------------------------------------------------------
(* Threads that are joined.                                                *)

\* All the workers of an sopen have left, so there was a signal.
LEMMA JoinedAll ==
  ASSUME IInv, mpc = "join", joined = MAX_THREAD
  PROVE  have_signal
<1>1. opens \in 1..MaxOpens
  BY DEF IInv, TypeOK, LeftOK
<1>2. wpc[<<opens, 0>>] = "left"
  BY WorkerType DEF IInv, JoinOK
<1> QED BY <1>1, <1>2, WorkerType DEF IInv, LeftOK

\* A step of a worker, a client or the operator takes back no thread that left.
LEMMA JoinOKKept ==
  ASSUME IInv, UNCHANGED tries,
         mpc' = mpc \/ (mpc' \notin {"open", "sleep", "join", "gone", "quit"}),
         \A t \in Threads : wpc[t] = "left" => wpc'[t] = "left"
  PROVE  JoinOK'
<1>1. mpc \in {"join", "gone"} => opens \in 1..MaxOpens
  BY DEF IInv, TypeOK, LeftOK
<1>2. ASSUME mpc' \in {"join", "gone"}, NEW w \in Workers, w < joined'
      PROVE  wpc'[<<opens', w>>] = "left"
  BY <1>1, <1>2, WorkerType DEF IInv, JoinOK, tries
<1> QED BY <1>2 DEF IInv, JoinOK, tries

LEMMA JoinOKStep ==
  ASSUME IInv, Next
  PROVE  JoinOK'
<1>0. /\ opens \in 0..MaxOpens /\ failed \subseteq 1..MaxOpens
      /\ joined \in 0..MAX_THREAD /\ MAX_THREAD \in Nat \ {0}
      /\ wpc \in [Threads -> {"none", "test", "pop", "answer", "left"}]
      /\ JoinOK
  BY FrontServerAssumption DEF IInv, TypeOK
<1>1. CASE SpawnWorkers
  BY <1>0, <1>1 DEF SpawnWorkers, JoinOK
<1>2. CASE BindFails \/ Retry
  BY <1>0, <1>2 DEF BindFails, Retry, JoinOK, tries
<1>3. CASE CloseListener
  BY <1>0, <1>3, WorkerType DEF CloseListener, JoinOK
<1>4. CASE Join
  BY <1>0, <1>4, WorkerType DEF Join, JoinOK, pool
<1>5. CASE CloseReturns
  <2>1. have_signal
    BY <1>5, JoinedAll DEF CloseReturns
  <2> QED BY <1>0, <1>5, <2>1 DEF CloseReturns, JoinOK, tries, pool
<1>6. CASE Bind \/ TestSignal \/ EnterWait \/ WaitReturns \/ EventsDone
           \/ AcceptBegins \/ AcceptEnds \/ AcceptFails
  <2>1. UNCHANGED <<tries, wpc>>
        /\ mpc' \in {"test", "close", "enter", "wait", "events", "accept"}
    BY <1>6 DEF Bind, TestSignal, EnterWait, WaitReturns, EventsDone,
                AcceptBegins, AcceptEnds, AcceptFails, pool
  <2> QED BY <2>1, JoinOKKept
<1>7. ASSUME NEW c \in Clients,
             \/ CloseBroken(c) \/ Accept(c) \/ RegisterFails(c) \/ Push(c)
             \/ PushRefused(c)
      PROVE  JoinOK'
  <2>1. UNCHANGED <<tries, wpc>> /\ mpc' \in {mpc, "close", "exit"}
    BY <1>7 DEF CloseBroken, Accept, RegisterFails, Push, PushRefused, main, pool
  <2> QED BY <2>1, JoinOKKept
<1>8. ASSUME NEW t \in Threads, Worker(t)
      PROVE  JoinOK'
  <2>1. /\ UNCHANGED main /\ wpc[t] # "left"
        /\ \A u \in Threads \ {t} : wpc'[u] = wpc[u]
    BY <1>0, <1>8 DEF Worker, WorkerTests, PopEmpty, Pop, Answer
  <2>2. UNCHANGED <<tries, mpc>>
    BY <2>1 DEF main
  <2> QED BY <2>1, <2>2, JoinOKKept
<1>9. CASE Outside \/ Signal
  <2>1. UNCHANGED <<tries, wpc>> /\ mpc' \in {mpc, "test"}
    BY <1>9 DEF Outside, Connect, Send, Break, Signal, main, pool
  <2> QED BY <2>1, JoinOKKept
<1> QED
  BY <1>1, <1>2, <1>3, <1>4, <1>5, <1>6, <1>7, <1>8, <1>9 DEF Next, Main

-------------------------------------------------------------------------------
(* The owner of a socket.                                                    *)

LEMMA OneOwnerStep ==
  ASSUME IInv, Next
  PROVE  OneOwner'
<1> USE FrontServerAssumption
    DEF IInv, TypeOK, OneOwner, Watched, InHand, Queued, Held, tries
<1>1. CASE SpawnWorkers \/ Bind \/ BindFails \/ Retry \/ TestSignal
  <2>1. CASE SpawnWorkers
    BY <1>1, <2>1 DEF SpawnWorkers, vars, main, pool, poll, conns
  <2>2. CASE Bind
    BY <1>1, <2>2 DEF Bind, vars, main, pool, poll, conns
  <2>3. CASE BindFails
    BY <1>1, <2>3 DEF BindFails, vars, main, pool, poll, conns
  <2>4. CASE Retry
    BY <1>1, <2>4 DEF Retry, vars, main, pool, poll, conns
  <2>5. CASE TestSignal
    BY <1>1, <2>5 DEF TestSignal, vars, main, pool, poll, conns
  <2> QED BY <1>1, <2>1, <2>2, <2>3, <2>4, <2>5
<1>2. CASE EnterWait \/ EventsDone \/ AcceptBegins \/ AcceptEnds \/
           AcceptFails
  <2>1. CASE EnterWait
    BY <1>2, <2>1 DEF EnterWait, vars, main, pool, poll, conns
  <2>2. CASE EventsDone
    BY <1>2, <2>2 DEF EventsDone, vars, main, pool, poll, conns
  <2>3. CASE AcceptBegins
    <3>1. /\ events' \subseteq events
          /\ \A e \in events : e.fd \in Clients => e \in events'
      BY <1>2, <2>3 DEF AcceptBegins, Listener
    <3>2. UNCHANGED <<armed, slot, taken, client>>
      BY <1>2, <2>3 DEF AcceptBegins, pool, poll, conns
    <3> QED BY <3>1, <3>2
  <2>4. CASE AcceptEnds
    BY <1>2, <2>4 DEF AcceptEnds, vars, main, pool, poll, conns
  <2>5. CASE AcceptFails
    BY <1>2, <2>5 DEF AcceptFails, vars, main, pool, poll, conns
  <2> QED BY <1>2, <2>1, <2>2, <2>3, <2>4, <2>5
<1>3. CASE CloseListener \/ Join \/ CloseReturns \/ Signal
  BY <1>3 DEF CloseListener, Join, CloseReturns, Signal, vars, main, pool, poll,
           conns
<1>4. ASSUME NEW c \in Clients, Connect(c) \/ Send(c) \/ Break(c)
      PROVE  OneOwner'
  BY <1>4 DEF Connect, Send, Break, vars, main, pool, poll, conns
<1>5. ASSUME NEW t \in Threads, WorkerTests(t) \/ PopEmpty(t)
      PROVE  OneOwner'
  BY <1>5 DEF WorkerTests, PopEmpty, vars, main, pool, poll, conns
<1>6. CASE WaitReturns
  <2>1. events = {} /\ events' = Reported
    BY <1>6 DEF EventsOK, WaitReturns
  <2>2. UNCHANGED <<client, slot, taken>> /\ armed' = armed \ ready
    BY <1>6 DEF WaitReturns, pool, conns
  <2> QED BY <2>1, <2>2, ReportedOnce
<1>7. ASSUME NEW c \in Clients, CloseBroken(c)
      PROVE  OneOwner'
  BY <1>7 DEF CloseBroken, vars, main, pool, poll, conns
<1>8. ASSUME NEW c \in Clients, Accept(c)
      PROVE  OneOwner'
  BY <1>8 DEF Accept, vars, main, pool, poll, conns
<1>9. ASSUME NEW c \in Clients, RegisterFails(c)
      PROVE  OneOwner'
  BY <1>9 DEF RegisterFails, vars, main, pool, poll, conns
<1>10. ASSUME NEW c \in Clients, Push(c)
      PROVE  OneOwner'
  BY <1>10 DEF Push, Queue!Put, vars, main, pool, poll, conns
<1>11. ASSUME NEW c \in Clients, PushRefused(c)
      PROVE  OneOwner'
  BY <1>11 DEF PushRefused, vars, main, pool, poll, conns
<1>12. ASSUME NEW t \in Threads, Pop(t)
      PROVE  OneOwner'
  BY <1>12 DEF Pop, Queue!Take, vars, main, pool, poll, conns
<1>13. ASSUME NEW t \in Threads, Answer(t)
      PROVE  OneOwner'
  BY <1>13 DEF Answer, Queue!Finish, vars, main, pool, poll, conns
<1> QED BY <1>1, <1>2, <1>3, <1>4, <1>5, <1>6, <1>7, <1>8, <1>9, <1>10, <1>11, <1>12, <1>13 DEF Next, Main, Worker, Outside

-------------------------------------------------------------------------------
(* The edges of the listening socket.                                      *)

\* A connection that waits to be accepted is about to be reported, or the main
\* thread is on its way to accept it, or an error or the end keeps it from that.
Backlog == \E c \in Clients : client[c] = "backlog"
ListenerEvent == [fd |-> Listener, bad |-> FALSE]
EdgeOK ==
  Backlog => \/ edge \/ errors > 0
             \/ ListenerEvent \in events \/ mpc = "accept"
             \/ have_signal /\ mpc \notin {"enter", "wait"}

LEMMA EdgeOKStep ==
  ASSUME IInv, EdgeOK, Next
  PROVE  EdgeOK'
<1> USE DEF Backlog, main, tries, pool, poll, conns
<1>1. errors \in Nat /\ (mpc \notin {"events", "accept", "exit"} => events = {})
  BY FrontServerAssumption DEF IInv, TypeOK, EventsOK
<1>2. CASE \/ SpawnWorkers \/ Bind \/ Retry \/ Join \/ CloseReturns
           \/ TestSignal
  BY <1>2 DEF EdgeOK, SpawnWorkers, Bind, Retry, Join, CloseReturns, TestSignal
<1>3. CASE BindFails \/ AcceptFails
  BY <1>1, <1>3 DEF EdgeOK, BindFails, AcceptFails
<1>4. ASSUME NEW c \in Clients, RegisterFails(c)
      PROVE  EdgeOK'
  BY <1>1, <1>4 DEF EdgeOK, RegisterFails
<1>5. CASE EnterWait
  BY <1>1, <1>5 DEF EdgeOK, EnterWait
<1>6. CASE WaitReturns
  <2>1. edge => ListenerEvent \in events'
    BY <1>6 DEF WaitReturns, Reported, Event, ListenerEvent
  <2>2. /\ mpc = "wait" /\ events = {} /\ mpc' = "events"
        /\ UNCHANGED <<client, errors>>
    BY <1>1, <1>6 DEF WaitReturns
  <2> QED BY <2>1, <2>2 DEF EdgeOK
<1>7. CASE EventsDone
  BY <1>7 DEF EdgeOK, EventsDone
<1>8. CASE AcceptBegins \/ AcceptEnds
  BY <1>8 DEF EdgeOK, AcceptBegins, AcceptEnds, ListenerEvent
<1>9. ASSUME NEW c \in Clients,
             CloseBroken(c) \/ Accept(c) \/ Push(c) \/ PushRefused(c)
      PROVE  EdgeOK'
  <2>1. c # Listener
    BY FrontServerAssumption DEF Listener
  <2>2. ListenerEvent \in events => ListenerEvent \in events'
    BY <1>9, <2>1 DEF CloseBroken, Accept, Push, PushRefused, ListenerEvent
  <2>3. Backlog' => Backlog
    BY <1>9 DEF CloseBroken, Accept, Push, PushRefused, IInv, TypeOK
  <2>4. /\ UNCHANGED <<edge, errors, have_signal>>
        /\ (mpc' = mpc \/ (mpc = "events" /\ mpc' = "exit"))
    BY <1>9 DEF CloseBroken, Accept, Push, PushRefused
  <2> HIDE DEF Backlog
  <2> QED BY <2>2, <2>3, <2>4 DEF EdgeOK
<1>10. CASE CloseListener
  BY <1>10 DEF CloseListener, IInv, TypeOK, EdgeOK
<1>11. ASSUME NEW t \in Threads, Worker(t)
       PROVE  EdgeOK'
  <2>1. Backlog' => Backlog
    BY <1>11
       DEF Worker, WorkerTests, PopEmpty, Pop, Answer, IInv, TypeOK
  <2>2. UNCHANGED <<edge, errors, have_signal, mpc, events>>
    BY <1>11 DEF Worker, WorkerTests, PopEmpty, Pop, Answer
  <2> HIDE DEF Backlog
  <2> QED BY <2>1, <2>2 DEF EdgeOK
<1>12. ASSUME NEW c \in Clients, Connect(c) \/ Send(c) \/ Break(c)
       PROVE  EdgeOK'
  BY <1>12 DEF EdgeOK, Connect, Send, Break
<1>13. CASE Signal
  BY <1>13 DEF EdgeOK, Signal
<1> QED
  BY <1>2, <1>3, <1>4, <1>5, <1>6, <1>7, <1>8, <1>9, <1>10, <1>11, <1>12, <1>13
     DEF Next, Main, Outside

-------------------------------------------------------------------------------

LEMMA Invariance == Spec => []IInv
<1>1. ASSUME IInv, [Next]_vars
      PROVE  IInv'
  <2>1. CASE Next
    BY <1>1, <2>1, TypeOKStep, EventsOKStep, HoldOKStep, LeftOKStep, JoinOKStep,
       OneOwnerStep
       DEF IInv
  <2>2. CASE UNCHANGED vars
    BY <1>1, <2>2
       DEF IInv, TypeOK, EventsOK, HoldOK, LeftOK, JoinOK, OneOwner, Watched,
           InHand, Queued, Held, vars, tries
  <2> QED BY <1>1, <2>1, <2>2
<1> QED BY <1>1, InitInv, PTL DEF Spec

\* The state of the main thread, the workers, epoll and the clients keeps its
\* types.
THEOREM TypeCorrect == Spec => []TypeOK
BY Invariance, PTL DEF IInv

\* A socket that is open is in one pair of hands, for any clients that send and
\* go away as they like, and any number of threads, leaked ones included.
THEOREM OneOwnerEach == Spec => []OneOwner
BY Invariance, PTL DEF IInv

\* srun sleeps over no connection it was told of unless a call has failed, for
\* any number of clients that connect while it accepts (EPOLLET, server.h).
THEOREM EveryEdgeIsUsed == Spec => []NoEdgeLost
<1>1. Init => EdgeOK
  BY DEF Init, EdgeOK, Backlog
<1>2. EdgeOK /\ UNCHANGED vars => EdgeOK'
  BY DEF EdgeOK, Backlog, vars, main, tries, pool, poll, conns
<1>3. IInv /\ EdgeOK => NoEdgeLost
  BY DEF IInv, EventsOK, EdgeOK, Backlog, NoEdgeLost
<1>4. IInv /\ EdgeOK /\ [Next]_vars => EdgeOK'
  BY <1>2, EdgeOKStep
<1> QED BY <1>1, <1>3, <1>4, Invariance, PTL DEF Spec

\* Threads that use the queue after main2 returned are those of an sopen that
\* had failed: sclose has joined all of the last one, and none before the last
\* has succeeded, for any number of threads, calls and errors.
THEOREM OnlyLeakedOutlive == Spec => []OnlyLeakedThreadsOutlive
<1>1. ASSUME IInv, mpc \in {"gone", "quit"}, NEW t \in Threads,
             wpc[t] \notin {"none", "left"}
      PROVE  t[1] \in failed
  <2>1. /\ t = <<t[1], t[2]>> /\ t[1] \in 1..MaxOpens /\ t[2] \in Workers
        /\ t[1] <= opens /\ opens \in 0..MaxOpens
    BY <1>1, ThreadType DEF IInv, TypeOK, LeftOK
  <2>2. CASE t[1] < opens
    BY <1>1, <2>1, <2>2 DEF IInv, JoinOK
  <2>3. CASE t[1] = opens /\ mpc = "gone"
    <3>1. wpc[<<opens, t[2]>>] = "left"
      BY <1>1, <2>1, <2>3, WorkerType DEF IInv, JoinOK
    <3> QED BY <1>1, <2>1, <2>3, <3>1
  <2>4. CASE t[1] = opens /\ mpc = "quit"
    BY <1>1, <2>1, <2>4 DEF IInv, JoinOK
  <2> QED BY <1>1, <2>1, <2>2, <2>3, <2>4
<1>2. IInv => OnlyLeakedThreadsOutlive
  BY <1>1 DEF OnlyLeakedThreadsOutlive
<1> QED BY <1>2, Invariance, PTL

\* sclose does not return before there was a signal.
THEOREM CloseWaits == Spec => CloseWaitsForASignal
<1>1. ASSUME IInv, [Next]_vars
      PROVE  [mpc = "join" /\ mpc' # "join" => have_signal]_vars
  <2>1. CloseReturns => have_signal
    BY <1>1, JoinedAll DEF CloseReturns
  <2>2. mpc = "join" /\ mpc' # "join" /\ Next => CloseReturns
    BY DEF Next, Main, Worker, Outside, SpawnWorkers, Bind, BindFails, Retry,
           TestSignal, EnterWait, WaitReturns, EventsDone, AcceptBegins,
           AcceptEnds, AcceptFails, CloseBroken, Accept, RegisterFails, Push,
           PushRefused, CloseListener, Join, WorkerTests, PopEmpty, Pop, Answer,
           Connect, Send, Break, Signal, main
  <2> QED BY <1>1, <2>1, <2>2
<1> QED BY <1>1, Invariance, PTL DEF Spec, CloseWaitsForASignal
===============================================================================
