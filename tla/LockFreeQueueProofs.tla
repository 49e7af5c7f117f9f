-------------------------- MODULE LockFreeQueueProofs --------------------------
(***************************************************************************)
(* Proofs about the queue, for any number of workers and sockets and any   *)
(* length of the ring.                                                     *)
(***************************************************************************)
EXTENDS LockFreeQueue, TLAPS

-------------------------------------------------------------------------------
(* The inductive invariant.                                                *)

Taking(w)  == wpc[w] \in {"load", "inc"}
Holding(w) == popped[w] /\ wpc[w] \in {"unlock", "serve"}
InFlight   == ppc # "idle" \/ m_size = -1

LockOK ==
  /\ OneCustomer
  /\ \A w \in Workers : InPop(w) => tas_lock = 1
  /\ \A w \in Workers : wpc[w] = "serve" => popped[w]

\* The socket under way is in the slot at head once it has been stored there,
\* until a worker has moved head past it.
SlotOK ==
  /\ InFlight => pfd \in Sockets /\ pfd \in owned
  /\ ~InFlight => head = tail
  /\ ppc = "slot" => head = tail
  /\ ppc = "tail" => head = tail /\ m_head[head] = pfd
  /\ ppc \in {"load", "dec"} => tail = Succ(head) /\ m_head[head] = pfd
  /\ ppc = "dec" => preg = 0
  /\ m_size = -1 /\ (\A w \in Workers : ~Taking(w)) =>
       tail = Succ(head) /\ m_head[head] = pfd

TakeOK ==
  \A w \in Workers :
    /\ wpc[w] = "head" => wfd[w] = pfd
    /\ Taking(w) => wfd[w] = pfd /\ head = tail
    /\ wpc[w] = "inc" => wreg[w] = -1

HoldOK ==
  \A w \in Workers : Holding(w) =>
    /\ wfd[w] \in Sockets /\ wfd[w] \in owned
    /\ InFlight => pfd # wfd[w]
    /\ \A v \in Workers : v # w /\ Holding(v) => wfd[v] # wfd[w]

IInv == TypeOK /\ LockOK /\ NoRaceOnSize /\ SlotOK /\ TakeOK /\ HoldOK

-------------------------------------------------------------------------------
LEMMA SuccType == \A i \in Slots : Succ(i) \in Slots
BY QueueAssumption DEF Slots, Succ

\* What size() tells: there is room exactly when nothing is under way.
LEMMA SizeTells ==
  ASSUME m_size \in {-1, 0}
  PROVE  /\ size < Limit <=> m_size = 0
         /\ size >= 1 <=> m_size = -1
BY QueueAssumption DEF size

LEMMA InitInv == Init => IInv
<1> SUFFICES ASSUME Init PROVE IInv
  OBVIOUS
<1>0. 0 \in Slots
  BY QueueAssumption DEF Slots
<1>1. TypeOK
  <2>1. m_head \in [Slots -> Sockets \cup {NoSocket}]
    BY DEF Init
  <2>2. wpc \in [Workers -> {"lock", "check", "read", "head", "load", "inc",
                             "unlock", "serve"}]
    BY DEF Init
  <2>3. /\ wfd \in [Workers -> Sockets \cup {NoSocket}]
        /\ wreg \in [Workers -> Int]
        /\ popped \in [Workers -> BOOLEAN]
    BY DEF Init
  <2>4. /\ head \in Slots /\ tail \in Slots /\ m_size \in Int
        /\ tas_lock \in {0, 1}
    BY <1>0 DEF Init
  <2>5. /\ ppc \in {"idle", "slot", "tail", "load", "dec"}
        /\ pfd \in Sockets \cup {NoSocket} /\ preg \in Int
        /\ owned \subseteq Sockets
    BY DEF Init
  <2>6. pushed \in BOOLEAN
    BY Zenon DEF Init
  <2>7. QED
    BY <2>1, <2>2, <2>3, <2>4, <2>5, <2>6 DEF TypeOK
<1>2. LockOK /\ NoRaceOnSize
  BY DEF Init, LockOK, OneCustomer, InPop, NoRaceOnSize
<1>3. SlotOK /\ TakeOK /\ HoldOK
  BY DEF Init, SlotOK, TakeOK, HoldOK, InFlight, Taking, Holding
<1>4. QED
  BY <1>1, <1>2, <1>3 DEF IInv

LEMMA ProducerInv == ASSUME IInv, Producer PROVE IInv'
<1> USE DEF InFlight, Taking, Holding, InPop
<1>1. TypeOK /\ LockOK /\ NoRaceOnSize /\ SlotOK /\ TakeOK /\ HoldOK
  BY DEF IInv
<1>2. ASSUME NEW f \in Sockets, PushBegin(f) PROVE IInv'
  <2>1. m_size = 0 /\ ppc = "idle"
    BY <1>1, <1>2, SizeTells DEF PushBegin, NoRaceOnSize
  <2>2. TypeOK' /\ LockOK' /\ NoRaceOnSize'
    BY <1>1, <1>2, <2>1
       DEF PushBegin, queue, cons, TypeOK, LockOK, OneCustomer, NoRaceOnSize
  <2>3. SlotOK'
    BY <1>1, <1>2, <2>1 DEF PushBegin, queue, cons, SlotOK
  <2>4. TakeOK'
    BY <1>1, <1>2, <2>1 DEF PushBegin, queue, cons, TakeOK, NoRaceOnSize
  <2>5. HoldOK'
    BY <1>1, <1>2, <2>1 DEF PushBegin, queue, cons, HoldOK
  <2>6. QED
    BY <2>2, <2>3, <2>4, <2>5 DEF IInv
<1>3. ASSUME NEW f \in Sockets, PushRefused(f) PROVE IInv'
  <2>1. TypeOK' /\ LockOK' /\ NoRaceOnSize'
    BY <1>1, <1>3
       DEF PushRefused, queue, cons, TypeOK, LockOK, OneCustomer, NoRaceOnSize
  <2>2. SlotOK' /\ TakeOK' /\ HoldOK'
    BY <1>1, <1>3 DEF PushRefused, queue, cons, SlotOK, TakeOK, HoldOK
  <2>3. QED
    BY <2>1, <2>2 DEF IInv
<1>4. CASE PushSlot
  <2>1. m_size = 0 /\ pfd \in Sockets /\ head = tail /\ tail \in Slots
    BY <1>1, <1>4 DEF PushSlot, NoRaceOnSize, SlotOK, TypeOK
  <2>2. TypeOK' /\ LockOK' /\ NoRaceOnSize'
    BY <1>1, <1>4, <2>1
       DEF PushSlot, cons, TypeOK, LockOK, OneCustomer, NoRaceOnSize
  <2>3. SlotOK'
    BY <1>1, <1>4, <2>1 DEF PushSlot, cons, SlotOK, TypeOK
  <2>4. TakeOK' /\ HoldOK'
    BY <1>1, <1>4, <2>1 DEF PushSlot, cons, TakeOK, HoldOK
  <2>5. QED
    BY <2>2, <2>3, <2>4 DEF IInv
<1>5. CASE PushTail
  <2>1. m_size = 0 /\ head = tail /\ tail \in Slots
    BY <1>1, <1>5 DEF PushTail, NoRaceOnSize, SlotOK, TypeOK
  <2>2. TypeOK' /\ LockOK' /\ NoRaceOnSize'
    BY <1>1, <1>5, <2>1, SuccType
       DEF PushTail, cons, TypeOK, LockOK, OneCustomer, NoRaceOnSize
  <2>3. SlotOK'
    BY <1>1, <1>5, <2>1 DEF PushTail, cons, SlotOK
  <2>4. TakeOK'
    BY <1>1, <1>5, <2>1 DEF PushTail, cons, TakeOK, NoRaceOnSize
  <2>5. HoldOK'
    BY <1>1, <1>5, <2>1 DEF PushTail, cons, HoldOK
  <2>6. QED
    BY <2>2, <2>3, <2>4, <2>5 DEF IInv
<1>6. CASE PushLoad
  <2>1. m_size = 0
    BY <1>1, <1>6 DEF PushLoad, NoRaceOnSize
  <2>2. TypeOK' /\ LockOK' /\ NoRaceOnSize'
    BY <1>1, <1>6, <2>1
       DEF PushLoad, queue, cons, TypeOK, LockOK, OneCustomer, NoRaceOnSize
  <2>3. SlotOK' /\ TakeOK' /\ HoldOK'
    BY <1>1, <1>6, <2>1 DEF PushLoad, queue, cons, SlotOK, TakeOK, HoldOK
  <2>4. QED
    BY <2>2, <2>3 DEF IInv
<1>7. CASE PushDecrement
  <2>1. m_size = 0 /\ m_size' = -1 /\ ppc' = "idle"
    BY <1>1, <1>7 DEF PushDecrement, NoRaceOnSize, SlotOK
  <2>2. TypeOK' /\ LockOK' /\ NoRaceOnSize'
    BY <1>1, <1>7, <2>1
       DEF PushDecrement, cons, TypeOK, LockOK, OneCustomer, NoRaceOnSize
  <2>3. SlotOK' /\ TakeOK' /\ HoldOK'
    BY <1>1, <1>7, <2>1 DEF PushDecrement, cons, SlotOK, TakeOK, HoldOK
  <2>4. QED
    BY <2>2, <2>3 DEF IInv
<1>8. QED
  BY <1>2, <1>3, <1>4, <1>5, <1>6, <1>7 DEF Producer

LEMMA WorkerInv == ASSUME IInv, NEW w \in Workers, Worker(w) PROVE IInv'
<1> USE DEF InFlight, Taking, Holding, InPop
<1>1. TypeOK /\ LockOK /\ NoRaceOnSize /\ SlotOK /\ TakeOK /\ HoldOK
  BY DEF IInv
<1>2. CASE PopLock(w)
  <2>1. TypeOK'
    BY <1>1, <1>2 DEF PopLock, prod, TypeOK
  <2>2. LockOK'
    BY <1>1, <1>2 DEF PopLock, LockOK, OneCustomer, TypeOK
  <2>3. NoRaceOnSize' /\ SlotOK' /\ TakeOK' /\ HoldOK'
    BY <1>1, <1>2
       DEF PopLock, prod, TypeOK, NoRaceOnSize, SlotOK, TakeOK, HoldOK
  <2>4. QED
    BY <2>1, <2>2, <2>3 DEF IInv
<1>3. CASE PopCheck(w)
  <2>1. size >= 1 <=> m_size = -1
    BY <1>1, SizeTells DEF NoRaceOnSize
  <2>2. TypeOK'
    BY <1>1, <1>3 DEF PopCheck, prod, queue, TypeOK
  <2>3. LockOK'
    BY <1>1, <1>3 DEF PopCheck, queue, LockOK, OneCustomer, TypeOK
  <2>4. NoRaceOnSize'
    BY <1>1, <1>3, <2>1 DEF PopCheck, prod, queue, TypeOK, NoRaceOnSize
  <2>5. SlotOK' /\ TakeOK' /\ HoldOK'
    BY <1>1, <1>3 DEF PopCheck, prod, queue, TypeOK, SlotOK, TakeOK, HoldOK
  <2>6. QED
    BY <2>2, <2>3, <2>4, <2>5 DEF IInv
<1>4. CASE PopRead(w)
  <2>1. m_size = -1 /\ \A v \in Workers : v # w => ~InPop(v)
    BY <1>1, <1>4 DEF PopRead, NoRaceOnSize, LockOK, OneCustomer
  <2>2. m_head[head] = pfd
    BY <1>1, <1>4, <2>1 DEF PopRead, SlotOK
  <2>3. TypeOK' /\ LockOK'
    BY <1>1, <1>4 DEF PopRead, prod, queue, TypeOK, LockOK, OneCustomer
  <2>4. NoRaceOnSize' /\ SlotOK'
    BY <1>1, <1>4 DEF PopRead, prod, queue, TypeOK, NoRaceOnSize, SlotOK
  <2>5. TakeOK' /\ HoldOK'
    BY <1>1, <1>4, <2>2 DEF PopRead, prod, queue, TypeOK, TakeOK, HoldOK
  <2>6. QED
    BY <2>3, <2>4, <2>5 DEF IInv
<1>5. CASE PopHead(w)
  <2>1. m_size = -1 /\ ppc = "idle" /\ \A v \in Workers : v # w => ~InPop(v)
    BY <1>1, <1>5 DEF PopHead, NoRaceOnSize, LockOK, OneCustomer
  <2>2. tail = Succ(head) /\ m_head[head] = pfd
    BY <1>1, <1>5, <2>1 DEF PopHead, SlotOK
  <2>3. TypeOK' /\ LockOK'
    BY <1>1, <1>5, SuccType DEF PopHead, prod, TypeOK, LockOK, OneCustomer
  <2>4. NoRaceOnSize'
    BY <1>1, <1>5 DEF PopHead, prod, TypeOK, NoRaceOnSize
  <2>5. SlotOK'
    BY <1>1, <1>5, <2>1, <2>2 DEF PopHead, prod, TypeOK, SlotOK
  <2>6. TakeOK'
    BY <1>1, <1>5, <2>1, <2>2 DEF PopHead, prod, TypeOK, TakeOK
  <2>7. HoldOK'
    BY <1>1, <1>5 DEF PopHead, prod, TypeOK, HoldOK
  <2>8. QED
    BY <2>3, <2>4, <2>5, <2>6, <2>7 DEF IInv
<1>6. CASE PopLoad(w)
  <2>1. m_size = -1
    BY <1>1, <1>6 DEF PopLoad, NoRaceOnSize
  <2>2. TypeOK' /\ LockOK'
    BY <1>1, <1>6 DEF PopLoad, prod, queue, TypeOK, LockOK, OneCustomer
  <2>3. NoRaceOnSize' /\ SlotOK'
    BY <1>1, <1>6 DEF PopLoad, prod, queue, TypeOK, NoRaceOnSize, SlotOK
  <2>4. TakeOK' /\ HoldOK'
    BY <1>1, <1>6, <2>1 DEF PopLoad, prod, queue, TypeOK, TakeOK, HoldOK
  <2>5. QED
    BY <2>2, <2>3, <2>4 DEF IInv
<1>7. CASE PopIncrement(w)
  <2>1. /\ m_size = -1 /\ m_size' = 0 /\ ppc = "idle"
        /\ wfd[w] = pfd /\ head = tail
        /\ pfd \in Sockets /\ pfd \in owned
        /\ \A v \in Workers : v # w => ~InPop(v)
    BY <1>1, <1>7
       DEF PopIncrement, NoRaceOnSize, LockOK, OneCustomer, TakeOK, SlotOK
  <2>2. TypeOK' /\ LockOK'
    BY <1>1, <1>7, <2>1 DEF PopIncrement, prod, TypeOK, LockOK, OneCustomer
  <2>3. NoRaceOnSize' /\ SlotOK'
    BY <1>1, <1>7, <2>1 DEF PopIncrement, prod, TypeOK, NoRaceOnSize, SlotOK
  <2>4. TakeOK' /\ HoldOK'
    BY <1>1, <1>7, <2>1 DEF PopIncrement, prod, TypeOK, TakeOK, HoldOK
  <2>5. QED
    BY <2>2, <2>3, <2>4 DEF IInv
<1>8. CASE PopUnlock(w)
  <2>1. TypeOK'
    BY <1>1, <1>8 DEF PopUnlock, prod, TypeOK
  <2>2. LockOK'
    BY <1>1, <1>8 DEF PopUnlock, TypeOK, LockOK, OneCustomer
  <2>3. NoRaceOnSize' /\ SlotOK' /\ TakeOK' /\ HoldOK'
    BY <1>1, <1>8
       DEF PopUnlock, prod, TypeOK, NoRaceOnSize, SlotOK, TakeOK, HoldOK
  <2>4. QED
    BY <2>1, <2>2, <2>3 DEF IInv
<1>9. CASE ServeSocket(w)
  <2>1. Holding(w)
    BY <1>1, <1>9 DEF ServeSocket, LockOK
  <2>2. TypeOK' /\ LockOK'
    BY <1>1, <1>9 DEF ServeSocket, prod, queue, TypeOK, LockOK, OneCustomer
  <2>3. NoRaceOnSize'
    BY <1>1, <1>9 DEF ServeSocket, prod, queue, TypeOK, NoRaceOnSize
  <2>4. SlotOK'
    BY <1>1, <1>9, <2>1 DEF ServeSocket, prod, queue, TypeOK, SlotOK, HoldOK
  <2>5. TakeOK' /\ HoldOK'
    BY <1>1, <1>9, <2>1 DEF ServeSocket, prod, queue, TypeOK, TakeOK, HoldOK
  <2>6. QED
    BY <2>2, <2>3, <2>4, <2>5 DEF IInv
<1>10. QED
  BY <1>2, <1>3, <1>4, <1>5, <1>6, <1>7, <1>8, <1>9 DEF Worker

LEMMA NextInv == ASSUME IInv, [Next]_vars PROVE IInv'
<1>1. CASE Next
  BY <1>1, ProducerInv, WorkerInv DEF Next
<1>2. CASE UNCHANGED vars
  BY <1>2 DEF vars, IInv, TypeOK, LockOK, OneCustomer, InPop, NoRaceOnSize,
              SlotOK, TakeOK, HoldOK, InFlight, Taking, Holding
<1>3. QED
  BY <1>1, <1>2

-------------------------------------------------------------------------------
(* Safety.                                                                 *)

\* The strengthened invariant holds in every reachable state.
THEOREM Invariance == Spec => []IInv
<1>1. IInv /\ [Next]_vars => IInv'
  BY NextInv
<1>2. QED
  BY InitInv, <1>1, PTL DEF Spec

\* Every variable of the queue keeps its type.
THEOREM TypeCorrect == Spec => []TypeOK
<1>1. IInv => TypeOK
  BY DEF IInv
<1>2. QED
  BY Invariance, <1>1, PTL

\* test_and_set makes the many customers like one, for any number of workers.
THEOREM MutualExclusion == Spec => []OneCustomer
<1>1. IInv => OneCustomer
  BY DEF IInv, LockOK
<1>2. QED
  BY Invariance, <1>1, PTL

\* The unlocked m_size-- of push and the m_size++ of pop never overlap.
THEOREM NoRace == Spec => []NoRaceOnSize
<1>1. IInv => NoRaceOnSize
  BY DEF IInv
<1>2. QED
  BY Invariance, <1>1, PTL

\* No connection is answered by two workers, or answered while still queued.
THEOREM OneOwner == Spec => []SocketHasOneOwner
<1>1. IInv => SocketHasOneOwner
  <2> SUFFICES ASSUME IInv PROVE SocketHasOneOwner
    OBVIOUS
  <2>1. HoldOK /\ LockOK
    BY DEF IInv
  <2>2. \A w \in Workers : wpc[w] = "serve" => Holding(w)
    BY <2>1 DEF LockOK, Holding
  <2>3. QED
    BY <2>1, <2>2 DEF HoldOK, InFlight, SocketHasOneOwner
<1>2. QED
  BY Invariance, <1>1, PTL

-------------------------------------------------------------------------------
(* The queue implements a buffer with one place.                           *)

Slot  == IF m_size = -1 THEN pfd ELSE NoSocket
Taken == [w \in Workers |->
            IF popped[w] /\ wpc[w] \in {"unlock", "serve"} THEN wfd[w]
            ELSE NoSocket]

\* A step that leaves the slot and the takers alone is a stutter.
LEMMA Stutter ==
  ASSUME Slot' = Slot, Taken' = Taken PROVE [Buffer!Next]_<<Slot, Taken>>
OBVIOUS

LEMMA InitBuffer == Init => Buffer!Init
BY DEF Init, Buffer!Init

LEMMA PutStep ==
  ASSUME IInv, PushDecrement PROVE Buffer!Put(pfd) /\ pfd \in Sockets
<1>1. TypeOK /\ NoRaceOnSize /\ SlotOK /\ HoldOK
  BY DEF IInv
<1>2. m_size = 0 /\ m_size' = -1 /\ pfd' = pfd /\ pfd \in Sockets
  BY <1>1 DEF PushDecrement, NoRaceOnSize, SlotOK, InFlight
<1>3. popped' = popped /\ wpc' = wpc /\ wfd' = wfd
  BY DEF PushDecrement, cons
<1>4. \A w \in Workers : Taken[w] # pfd
  BY <1>1, <1>2, QueueAssumption
     DEF PushDecrement, Taken, HoldOK, Holding, InFlight
<1>5. Taken' = Taken
  BY <1>3 DEF Taken
<1>6. QED
  BY <1>2, <1>4, <1>5 DEF Buffer!Put, Taken

LEMMA TakeStep ==
  ASSUME IInv, NEW w \in Workers, PopIncrement(w) PROVE Buffer!Take(w)
<1>1. TypeOK /\ NoRaceOnSize /\ SlotOK /\ TakeOK
  BY DEF IInv
<1>2. /\ m_size = -1 /\ m_size' = 0 /\ wfd' = wfd
      /\ pfd \in Sockets /\ wfd[w] = pfd /\ pfd # NoSocket
  BY <1>1, QueueAssumption
     DEF PopIncrement, NoRaceOnSize, SlotOK, InFlight, TakeOK, Taking
<1>3. /\ popped' = [popped EXCEPT ![w] = TRUE]
      /\ wpc' = [wpc EXCEPT ![w] = "unlock"] /\ wpc[w] = "inc"
  BY DEF PopIncrement
<1>4. Taken[w] = NoSocket
  BY <1>3 DEF Taken
<1>5. Taken' = [Taken EXCEPT ![w] = pfd]
  BY <1>1, <1>2, <1>3 DEF Taken, TypeOK
<1>6. QED
  BY <1>2, <1>4, <1>5 DEF Buffer!Take, Taken

LEMMA FinishStep ==
  ASSUME IInv, NEW w \in Workers, ServeSocket(w) PROVE Buffer!Finish(w)
<1>1. TypeOK /\ LockOK /\ HoldOK
  BY DEF IInv
<1>2. wpc[w] = "serve" /\ popped[w]
  BY <1>1 DEF ServeSocket, LockOK
<1>3. wfd[w] # NoSocket
  BY <1>1, <1>2, QueueAssumption DEF HoldOK, Holding
<1>4. /\ m_size' = m_size /\ pfd' = pfd /\ popped' = popped
      /\ wpc' = [wpc EXCEPT ![w] = "lock"]
      /\ wfd' = [wfd EXCEPT ![w] = NoSocket]
  BY DEF ServeSocket, queue, prod
<1>5. Taken[w] # NoSocket
  BY <1>2, <1>3 DEF Taken
<1>6. Taken' = [Taken EXCEPT ![w] = NoSocket]
  BY <1>1, <1>4 DEF Taken, TypeOK
<1>7. Slot' = Slot
  BY <1>4 DEF Slot
<1>8. QED
  BY <1>5, <1>6, <1>7 DEF Buffer!Finish, Taken, Slot
LEMMA BufferStep == ASSUME IInv, [Next]_vars PROVE [Buffer!Next]_<<Slot, Taken>>
<1>1. TypeOK /\ NoRaceOnSize
  BY DEF IInv
<1>2. CASE UNCHANGED vars
  <2>1. Slot' = Slot /\ Taken' = Taken
    BY <1>2 DEF vars, Slot, Taken
  <2>2. QED
    BY <2>1
<1>3. CASE Producer
  <2>1. CASE PushDecrement
    BY <2>1, PutStep DEF Buffer!Next
  <2>2. CASE PushSlot \/ PushTail \/ PushLoad
               \/ \E f \in Sockets : PushBegin(f) \/ PushRefused(f)
    <3>1. m_size' = m_size /\ (m_size = -1 => pfd' = pfd)
      BY <1>1, <2>2, SizeTells
         DEF PushBegin, PushRefused, PushSlot, PushTail, PushLoad, queue,
             NoRaceOnSize
    <3>2. popped' = popped /\ wpc' = wpc /\ wfd' = wfd
      BY <2>2
         DEF PushBegin, PushRefused, PushSlot, PushTail, PushLoad, cons
    <3>3. Slot' = Slot /\ Taken' = Taken
      BY <3>1, <3>2 DEF Slot, Taken
    <3>4. QED
      BY <3>3
  <2>3. QED
    BY <1>3, <2>1, <2>2 DEF Producer
<1>4. ASSUME NEW w \in Workers, Worker(w)
      PROVE  [Buffer!Next]_<<Slot, Taken>>
  <2>1. CASE PopIncrement(w)
    BY <2>1, TakeStep DEF Buffer!Next
  <2>2. CASE ServeSocket(w)
    BY <2>2, FinishStep DEF Buffer!Next
  <2>3. CASE PopLock(w) \/ PopCheck(w) \/ PopRead(w) \/ PopHead(w)
               \/ PopLoad(w) \/ PopUnlock(w)
    <3>1. m_size' = m_size /\ pfd' = pfd
      BY <2>3 DEF PopLock, PopCheck, PopRead, PopHead, PopLoad, PopUnlock,
                  queue, prod
    <3>2. Slot' = Slot
      BY <3>1 DEF Slot
    <3>3. ASSUME NEW v \in Workers
          PROVE  (IF popped'[v] /\ wpc'[v] \in {"unlock", "serve"}
                    THEN wfd'[v] ELSE NoSocket) = Taken[v]
      BY <1>1, <2>3, <3>3
         DEF PopLock, PopCheck, PopRead, PopHead, PopLoad, PopUnlock,
             TypeOK, Taken
    <3>4. Taken' = Taken
      BY <3>3 DEF Taken
    <3>5. QED
      BY <3>2, <3>4
  <2>4. QED
    BY <1>4, <2>1, <2>2, <2>3 DEF Worker
<1>5. QED
  BY <1>2, <1>3, <1>4 DEF Next

\* The ring with its lock implements a buffer with exactly one place.
THEOREM Refinement == Spec => BufferSpec
<1>1. Init => Buffer!Init
  BY InitBuffer
<1>2. IInv /\ [Next]_vars => [Buffer!Next]_<<Slot, Taken>>
  BY BufferStep
<1>3. QED
  BY <1>1, <1>2, Invariance, PTL DEF Spec, BufferSpec, Buffer!Spec, Slot, Taken

===============================================================================
