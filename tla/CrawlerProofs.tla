---------------------------- MODULE CrawlerProofs -----------------------------
(***************************************************************************)
(* Proofs about the master and its slaves together, from the invariants    *)
(* that MasterProofs and SlaveProofs show of each of them alone, for any   *)
(* master, slaves, web and queue of connections: they grab no page twice;  *)
(* worker_site_tb counts at most one outcome too many for each delay or    *)
(* loss; and without any it counts each outcome once at most, on its site. *)
(***************************************************************************)
EXTENDS Crawler, SequenceTheorems, FiniteSetTheorems, TLAPS

MP == INSTANCE MasterProofs
SP == INSTANCE SlaveProofs WITH given <- issued

-------------------------------------------------------------------------------
(* The inductive invariant.                                                *)

\* On every connection a slave of the system has put a request of its own.
Sound == {c \in Conn : /\ MP!ValidRequest(c.req)
                       /\ c.req.commd_id = M!S2M_REQUEST
                       /\ c.req.slave_id = c.slave}
ConnsOK == queue \in Seq(Sound) /\ serving \subseteq Sound

\* The slaves run versions the master knows.
VersionsOK == app_version \in [Slaves -> Versions]

\* URLs travel only with the command to grab them.
ReplyOK == response.commd_id # M!M2S_URL => response.urls = {}

IInv == MP!IInv /\ SP!IInv /\ ConnsOK /\ VersionsOK /\ ReplyOK

-------------------------------------------------------------------------------
(* Crawler's instances of Master and Slave are those of the proofs.        *)

LEMMA MasterAssumed == MP!MasterAssumption
<1>1. M!PossibleOutcomes = MP!PossibleOutcomes
  BY DEF MP!PossibleOutcomes, M!PossibleOutcomes, M!M2S_SLEEP, MP!M2S_SLEEP,
         M!M2S_URL, MP!M2S_URL, M!M2S_STORE, MP!M2S_STORE
<1>2. \A T : IsFiniteSet(T) <=> MP!IsFiniteSet(T)
  BY DEF IsFiniteSet, MP!IsFiniteSet
<1> QED
  BY <1>1, <1>2, CrawlerAssumption DEF M!Nobody, MP!Nobody, MP!MasterAssumption

LEMMA SlaveAssumed == SP!SlaveAssumption
BY CrawlerAssumption
   DEF SP!SlaveAssumption, S!PossibleWebAnswers, SP!PossibleWebAnswers, Batches

LEMMA SameHandRequest == \A r : M!HandRequest(r) <=> MP!HandRequest(r)
<1> USE DEF M!NoSite, MP!NoSite, M!Absent, MP!Absent, M!ACK, MP!ACK,
            M!S2M_REQUEST, MP!S2M_REQUEST, M!M2S_SLEEP, MP!M2S_SLEEP,
            M!M2S_UPDATE, MP!M2S_UPDATE, M!M2S_URL, MP!M2S_URL, M!BAD, MP!BAD,
            M!R2S_FEEDBACK, MP!R2S_FEEDBACK, M!M2S_STORE, MP!M2S_STORE,
            M!Respond, MP!Respond
<1>1. M!NoSlave = MP!NoSlave
  BY DEF M!NoSlave, MP!NoSlave
<1>2. \A r : M!Tally(r) = MP!Tally(r)
  BY <1>1 DEF M!Tally, MP!Tally
<1>3. \A r : M!TallyDb(r) = MP!TallyDb(r)
  BY DEF M!TallyDb, MP!TallyDb
<1>4. M!Unfinished = MP!Unfinished
  BY DEF M!Unfinished, MP!Unfinished
<1>5. \A w, s : M!MinBadSite(w, s) <=> MP!MinBadSite(w, s)
  BY <1>4 DEF M!MinBadSite, MP!MinBadSite
<1>6. \A s, p, q : M!Between(s, p, q) = MP!Between(s, p, q)
  BY DEF M!Between, MP!Between
<1>7. \A T : M!Cardinality(T) = MP!Cardinality(T)
  BY DEF M!Cardinality, MP!Cardinality
<1>8. \A s, p, q : M!ReadStopsAt(s, p, q) <=> MP!ReadStopsAt(s, p, q)
  BY <1>6, <1>7 DEF M!ReadStopsAt, MP!ReadStopsAt
<1>9. \A s, p : M!ReadMeetsEof(s, p) <=> MP!ReadMeetsEof(s, p)
  BY <1>6, <1>7 DEF M!ReadMeetsEof, MP!ReadMeetsEof
<1>10. \A r : M!Store(r) <=> MP!Store(r)
  BY <1>2 DEF M!Store, MP!Store
<1>11. \A r, i : M!Sleep(r, i) <=> MP!Sleep(r, i)
  BY <1>2 DEF M!Sleep, MP!Sleep
<1>12. \A r, i : M!Awake(r, i) <=> MP!Awake(r, i)
  BY DEF M!Awake, MP!Awake
<1>13. \A r, i : M!Update(r, i) <=> MP!Update(r, i)
  BY <1>2, <1>12 DEF M!Update, MP!Update
<1>14. \A r, i : M!NothingToAssign(r, i) <=> MP!NothingToAssign(r, i)
  BY <1>2, <1>4, <1>12 DEF M!NothingToAssign, MP!NothingToAssign
<1>15. \A r, i, s : M!AssignEof(r, i, s) <=> MP!AssignEof(r, i, s)
  BY <1>2, <1>5, <1>9, <1>12 DEF M!AssignEof, MP!AssignEof
<1>16. \A r, i, s, q : M!AssignBatch(r, i, s, q) <=> MP!AssignBatch(r, i, s, q)
  BY <1>2, <1>5, <1>6, <1>8, <1>12 DEF M!AssignBatch, MP!AssignBatch
<1>17. \A r, i : M!HandSlaveRequest(r, i) <=> MP!HandSlaveRequest(r, i)
  BY <1>10, <1>11, <1>13, <1>14, <1>15, <1>16
     DEF M!HandSlaveRequest, MP!HandSlaveRequest
<1> QED
  BY <1>3, <1>17
     DEF M!HandRequest, MP!HandRequest, M!Toggle, MP!Toggle, M!mem, MP!mem

LEMMA SameMaster ==
  /\ M!Init <=> MP!Init
  /\ M!Accept <=> MP!Accept
  /\ M!TruncateConf <=> MP!TruncateConf
  /\ M!SaveConf <=> MP!SaveConf
  /\ \A received : M!Reply(received) <=> MP!Reply(received)
  /\ M!Crash <=> MP!Crash
  /\ M!Restart <=> MP!Restart
  /\ M!Garbage = MP!Garbage
<1> USE DEF M!NoSite, MP!NoSite, M!Absent, MP!Absent, M!ACK, MP!ACK, M!BAD,
            MP!BAD, M!Nobody, MP!Nobody, M!mem, MP!mem
<1>1. M!Garbage = MP!Garbage
  BY DEF M!Garbage, MP!Garbage, M!Simple, MP!Simple
<1>2. M!NoResponse = MP!NoResponse
  BY DEF M!NoResponse, MP!NoResponse
<1>3. M!NoSlave = MP!NoSlave
  BY DEF M!NoSlave, MP!NoSlave
<1>4. M!NoCursors = MP!NoCursors
  BY DEF M!NoCursors, MP!NoCursors
<1>5. \A c : M!LoadCursors(c) = MP!LoadCursors(c)
  BY DEF M!LoadCursors, MP!LoadCursors
<1>6. M!SavedCursors = MP!SavedCursors
  BY DEF M!SavedCursors, MP!SavedCursors
<1>7. M!Init <=> MP!Init
  BY <1>1, <1>2, <1>3, <1>4, <1>5 DEF M!Init, MP!Init
<1>8. M!Crash <=> MP!Crash
  BY <1>1, <1>2, <1>3, <1>4, <1>5 DEF M!Crash, MP!Crash
<1>9. M!Restart <=> MP!Restart
  BY <1>5 DEF M!Restart, MP!Restart
<1>10. /\ M!TruncateConf <=> MP!TruncateConf
       /\ M!SaveConf <=> MP!SaveConf
  BY <1>4, <1>6 DEF M!TruncateConf, MP!TruncateConf, M!SaveConf, MP!SaveConf
<1>11. \A received : M!Reply(received) <=> MP!Reply(received)
  BY <1>2 DEF M!Reply, MP!Reply
<1>12. M!Accept <=> MP!Accept
  BY DEF M!Accept, MP!Accept
<1> QED BY <1>1, <1>7, <1>8, <1>9, <1>10, <1>11, <1>12

LEMMA SameSlave ==
  /\ S!Init <=> SP!Init
  /\ S!GrabbedOnce <=> SP!GrabbedOnce
  /\ \A w, state : S!End(w, state) <=> SP!End(w, state)
  /\ \A w : /\ S!SlaveCrash(w) <=> SP!SlaveCrash(w)
            /\ S!Start(w) <=> SP!Start(w)
            /\ S!SendRequest(w) <=> SP!SendRequest(w)
            /\ S!RequestFails(w) <=> SP!RequestFails(w)
            /\ S!HandSleep(w) <=> SP!HandSleep(w)
            /\ S!HandStore(w) <=> SP!HandStore(w)
            /\ S!HandUnknown(w) <=> SP!HandUnknown(w)
            /\ S!EndGrab(w) <=> SP!EndGrab(w)
  /\ \A w, urls : S!HandGrab(w, urls) <=> SP!HandGrab(w, urls)
<1> USE DEF S!SLEEP, SP!SLEEP, S!STORE, SP!STORE, S!UNKNOWN, SP!UNKNOWN,
            S!GRABPAGE, SP!GRABPAGE, S!disk, SP!disk, S!batch, SP!batch,
            S!report, SP!report
<1>1. S!Init <=> SP!Init
  BY DEF S!Init, SP!Init
<1>2. S!GrabbedOnce <=> SP!GrabbedOnce
  BY DEF S!GrabbedOnce, SP!GrabbedOnce
<1>3. \A w, state : S!End(w, state) <=> SP!End(w, state)
  BY DEF S!End, SP!End
<1>4. \A w : /\ S!SlaveCrash(w) <=> SP!SlaveCrash(w)
             /\ S!Start(w) <=> SP!Start(w)
             /\ S!SendRequest(w) <=> SP!SendRequest(w)
             /\ S!RequestFails(w) <=> SP!RequestFails(w)
  BY <1>3 DEF S!SlaveCrash, SP!SlaveCrash, S!Start, SP!Start, S!SendRequest,
              SP!SendRequest, S!RequestFails, SP!RequestFails
<1>5. \A w : /\ S!HandSleep(w) <=> SP!HandSleep(w)
             /\ S!HandStore(w) <=> SP!HandStore(w)
             /\ S!HandUnknown(w) <=> SP!HandUnknown(w)
             /\ S!EndGrab(w) <=> SP!EndGrab(w)
  BY DEF S!HandSleep, SP!HandSleep, S!HandStore, SP!HandStore, S!HandUnknown,
         SP!HandUnknown, S!EndGrab, SP!EndGrab
<1>6. \A w, urls : S!HandGrab(w, urls) <=> SP!HandGrab(w, urls)
  BY <1>3 DEF S!HandGrab, SP!HandGrab
<1> QED BY <1>1, <1>2, <1>3, <1>4, <1>5, <1>6

LEMMA SameWork ==
  \A w : /\ S!GrabStep(w) <=> SP!GrabStep(w)
         /\ S!SendFile(w) <=> SP!SendFile(w)
         /\ S!RemoveFile(w) <=> SP!RemoveFile(w)
         /\ S!StoreDone(w) <=> SP!StoreDone(w)
         /\ S!StoreGivesUp(w) <=> SP!StoreGivesUp(w)
<1> USE DEF S!disk, SP!disk, S!batch, SP!batch, S!report, SP!report
<1>1. \A w, u : /\ S!NextUrl(w, u) <=> SP!NextUrl(w, u)
                /\ S!Pass(w, u) <=> SP!Pass(w, u)
                /\ \A answer :
                     S!Resolved(w, u, answer) <=> SP!Resolved(w, u, answer)
  BY DEF S!NextUrl, SP!NextUrl, S!Pass, SP!Pass, S!Resolved, SP!Resolved
<1>2. \A w, u : /\ S!NameUnknown(w, u) <=> SP!NameUnknown(w, u)
                /\ S!NoAddress(w, u) <=> SP!NoAddress(w, u)
                /\ S!Unreachable(w, u) <=> SP!Unreachable(w, u)
  BY <1>1, SameSlave
     DEF S!NameUnknown, SP!NameUnknown, S!NoAddress, SP!NoAddress,
         S!Unreachable, SP!Unreachable
<1>3. \A w, u, answer : S!SavePage(w, u, answer) <=> SP!SavePage(w, u, answer)
  BY <1>1 DEF S!SavePage, SP!SavePage
<1>4. \A w : S!GrabStep(w) <=> SP!GrabStep(w)
  BY <1>2, <1>3 DEF S!GrabStep, SP!GrabStep
<1>5. \A w, t : S!File(w, t) = SP!File(w, t)
  BY DEF S!File, SP!File
<1>6. \A w : /\ S!SendFile(w) <=> SP!SendFile(w)
             /\ S!RemoveFile(w) <=> SP!RemoveFile(w)
  BY <1>5 DEF S!SendFile, SP!SendFile, S!RemoveFile, SP!RemoveFile
<1>7. \A w : /\ S!StoreDone(w) <=> SP!StoreDone(w)
             /\ S!StoreGivesUp(w) <=> SP!StoreGivesUp(w)
  BY DEF S!StoreDone, SP!StoreDone, S!StoreGivesUp, SP!StoreGivesUp,
         S!StoreEnds, SP!StoreEnds
<1> QED BY <1>4, <1>6, <1>7

-------------------------------------------------------------------------------
(* The master and the slaves by themselves.                                *)

\* A step that leaves the master alone.
LEMMA MasterKept ==
  ASSUME MP!IInv, ReplyOK, UNCHANGED masterVars
  PROVE  MP!IInv' /\ ReplyOK'
<1>1. UNCHANGED MP!vars
  BY DEF masterVars, MP!vars
<1>2. MP!IInv'
  BY <1>1, MP!NextInv, MasterAssumed
<1>3. ReplyOK'
  BY DEF ReplyOK, masterVars
<1> QED BY <1>2, <1>3

\* A step that leaves the slaves and what they were given alone.
LEMMA SlavesKept ==
  ASSUME SP!IInv, VersionsOK, UNCHANGED <<slaveOnly, issued>>
  PROVE  SP!IInv' /\ VersionsOK'
<1>1. UNCHANGED SP!slaveVars
  BY DEF slaveOnly, SP!slaveVars
<1>2. SP!IInv'
  BY <1>1, SP!StepInv, SlaveAssumed
<1>3. VersionsOK'
  BY DEF VersionsOK, slaveOnly
<1> QED BY <1>2, <1>3

\* The master takes a request.
LEMMA MasterServes ==
  ASSUME MP!IInv, NEW r, MP!ValidRequest(r), M!Accept, M!HandRequest(r)
  PROVE  MP!IInv' /\ ReplyOK' /\ UNCHANGED issued
<1>1. MP!IInv'
  <2>1. MP!Accept /\ MP!HandRequest(r)
    BY SameMaster, SameHandRequest
  <2> QED BY <2>1, MP!ServeInv, MasterAssumed
<1>2. ReplyOK'
  <2> USE DEF M!Respond, ReplyOK, M!M2S_URL, M!M2S_STORE, M!M2S_SLEEP,
              M!M2S_UPDATE
  <2>1. CASE r.commd_id # M!S2M_REQUEST
    BY <2>1 DEF M!HandRequest
  <2>2. ASSUME NEW i \in BOOLEAN, M!HandSlaveRequest(r, i)
        PROVE  ReplyOK'
    <3>1. CASE M!Store(r) \/ M!Sleep(r, i) \/ M!Update(r, i)
               \/ M!NothingToAssign(r, i)
      BY <3>1 DEF M!Store, M!Sleep, M!Update, M!NothingToAssign
    <3>2. CASE \E s \in Sites : M!AssignEof(r, i, s)
      BY <3>2 DEF M!AssignEof
    <3>3. ASSUME NEW u \in Urls, M!AssignBatch(r, i, u[1], u[2])
          PROVE  ReplyOK'
      BY <3>3 DEF M!AssignBatch
    <3> QED BY <2>2, <3>1, <3>2, <3>3 DEF M!HandSlaveRequest
  <2> QED BY <2>1, <2>2 DEF M!HandRequest
<1>3. UNCHANGED issued
  BY DEF M!Accept
<1> QED BY <1>1, <1>2, <1>3

\* A slave works by itself.
LEMMA SlaveWorks ==
  ASSUME SP!IInv, VersionsOK, UNCHANGED issued, NEW w \in Slaves,
         \/ S!SlaveCrash(w) \/ S!Start(w) \/ S!SendRequest(w)
         \/ S!RequestFails(w) \/ S!GrabStep(w) \/ S!EndGrab(w)
         \/ S!SendFile(w) \/ S!RemoveFile(w) \/ S!StoreDone(w)
         \/ S!StoreGivesUp(w)
  PROVE  SP!IInv' /\ VersionsOK'
<1>1. SP!Next
  BY SameSlave, SameWork DEF SP!Next
<1>2. SP!IInv'
  BY <1>1, SP!StepInv, SlaveAssumed
<1>3. CASE S!Start(w)
  BY <1>2, <1>3, CrawlerAssumption DEF S!Start, VersionsOK
<1>4. CASE ~S!Start(w)
  <2>1. UNCHANGED app_version
    <3> USE DEF S!End
    <3>1. CASE S!GrabStep(w)
      BY <3>1 DEF S!GrabStep, S!NameUnknown, S!NoAddress, S!Unreachable,
                  S!SavePage
    <3>2. CASE ~S!GrabStep(w)
      BY <1>4, <3>2
         DEF S!SlaveCrash, S!SendRequest, S!RequestFails, S!EndGrab,
             S!SendFile, S!RemoveFile, S!StoreDone, S!StoreGivesUp, S!StoreEnds
    <3> QED BY <3>1, <3>2
  <2> QED BY <1>2, <2>1 DEF VersionsOK
<1> QED BY <1>2, <1>3, <1>4

-------------------------------------------------------------------------------
(* Connections.                                                            *)

\* The request of a slave is one the master knows.
LEMMA RequestIsValid ==
  ASSUME SP!IInv, VersionsOK, NEW w \in Slaves
  PROVE  [slave |-> w, req |-> Request(w), open |-> TRUE] \in Sound
<1>1. /\ last_cmd_id[w] \in {-1, 0, 2, 4, 7}
      /\ last_task_status[w] \in {-1, 0, 1}
  BY DEF SP!IInv, SP!TypeOK, SP!UNKNOWN, SP!SLEEP, SP!GRABPAGE, SP!STORE
<1>2. app_version[w] \in Versions
  BY DEF VersionsOK
<1>3. Request(w) \in M!Request /\ MP!ValidRequest(Request(w))
  BY <1>1, <1>2
     DEF Request, M!Request, MP!Request, MP!ValidRequest, M!S2M_REQUEST,
         MP!S2M_REQUEST, M!M2S_SLEEP, MP!M2S_SLEEP, M!M2S_URL, MP!M2S_URL,
         M!M2S_STORE, MP!M2S_STORE
<1> QED BY <1>3 DEF Sound, Conn, Request

LEMMA HangUpKeeps ==
  ASSUME ConnsOK, NEW w \in Slaves, HangUp(w)
  PROVE  ConnsOK'
<1>1. \A c \in Sound : Shut(w, c) \in Sound
  BY DEF Shut, Sound, Conn
<1>2. Len(queue) \in Nat /\ DOMAIN queue = 1..Len(queue)
      /\ \A i \in 1..Len(queue) : queue[i] \in Sound
  BY DEF ConnsOK
<1>3. queue' \in [1..Len(queue) -> Sound]
  BY <1>1, <1>2 DEF HangUp
<1>4. queue' \in Seq(Sound)
  BY <1>2, <1>3, SeqDef
<1>5. serving' \subseteq Sound
  BY <1>1 DEF HangUp, ConnsOK
<1> QED BY <1>4, <1>5 DEF ConnsOK

LEMMA AcceptKeeps ==
  ASSUME ConnsOK, MasterAccepts
  PROVE  ConnsOK' /\ MP!ValidRequest(Head(queue).req)
<1>1. queue \in Seq(Sound) /\ queue # <<>>
      /\ queue' = Tail(queue) /\ serving' = {Head(queue)}
  BY DEF ConnsOK, MasterAccepts
<1>2. Head(queue) \in Sound /\ Tail(queue) \in Seq(Sound)
  BY <1>1, HeadTailProperties
<1> QED BY <1>1, <1>2 DEF ConnsOK, Sound

-------------------------------------------------------------------------------
(* The reply of the master and the slave that takes it.                    *)

LEMMA DeliverKeeps ==
  ASSUME IInv, NEW c, Deliver(c)
  PROVE  SP!IInv' /\ VersionsOK'
<1> DEFINE w == c.slave
           urls == response.urls
<1>1. w \in Slaves
  BY DEF Deliver, IInv, ConnsOK, Sound, Conn
<1>2. issued' = issued \cup urls /\ S!HandTask(w, response.commd_id, urls)
  BY DEF Deliver, M!Reply
<1>3. urls \in SUBSET Urls /\ issued \subseteq Urls
  BY DEF IInv, MP!IInv, MP!TypeOK, MP!Response
<1>4. urls \cap issued = {}
  BY DEF IInv, MP!IInv, MP!NoReissue, MP!Pending
<1>5. ASSUME response.commd_id # 4
      PROVE  UNCHANGED issued
  BY <1>2, <1>5 DEF IInv, ReplyOK, M!M2S_URL
<1>6. SP!IInv
  BY DEF IInv
<1> HIDE DEF w, urls
<1>7. CASE S!HandSleep(w) /\ response.commd_id = S!SLEEP
  <2>1. SP!HandSleep(w) /\ UNCHANGED issued
    BY <1>5, <1>7, SameSlave DEF S!SLEEP
  <2>2. SP!IInv'
    BY <1>1, <1>6, <2>1, SP!CommandPreserves, SlaveAssumed
  <2> QED BY <1>7, <2>2 DEF S!HandSleep, IInv, VersionsOK
<1>8. CASE S!HandUpdate(w)
  <2>1. SP!End(w, "updated")
    BY <1>8, SameSlave DEF S!HandUpdate
  <2>2. SP!IInv'
    BY <1>1, <1>2, <1>3, <1>6, <2>1, SP!EndKeeps, SlaveAssumed
  <2> QED BY <1>8, <2>2 DEF S!HandUpdate, S!End, IInv, VersionsOK
<1>9. CASE S!HandGrab(w, urls)
  <2>1. SP!HandGrab(w, urls)
    BY <1>9, SameSlave
  <2>2. SP!IInv'
    BY <1>1, <1>2, <1>3, <1>4, <1>6, <2>1, SP!GrabPreserves, SlaveAssumed
  <2> QED BY <1>9, <2>2 DEF S!HandGrab, S!End, IInv, VersionsOK
<1>10. CASE S!HandStore(w) /\ response.commd_id = S!STORE
  <2>1. SP!HandStore(w) /\ UNCHANGED issued
    BY <1>5, <1>10, SameSlave DEF S!STORE
  <2>2. SP!IInv'
    BY <1>1, <1>6, <2>1, SP!CommandPreserves, SlaveAssumed
  <2> QED BY <1>10, <2>2 DEF S!HandStore, IInv, VersionsOK
<1>11. CASE S!HandUnknown(w) /\ response.commd_id # S!GRABPAGE
  <2>1. SP!HandUnknown(w) /\ UNCHANGED issued
    BY <1>5, <1>11, SameSlave DEF S!GRABPAGE
  <2>2. SP!IInv'
    BY <1>1, <1>6, <2>1, SP!CommandPreserves, SlaveAssumed
  <2> QED BY <1>11, <2>2 DEF S!HandUnknown, IInv, VersionsOK
<1> QED BY <1>2, <1>7, <1>8, <1>9, <1>10, <1>11 DEF S!HandTask

LEMMA ReplySent ==
  ASSUME MP!IInv, NEW received \in BOOLEAN, M!Reply(received)
  PROVE  MP!IInv' /\ ReplyOK'
<1>1. MP!Reply(received)
  BY SameMaster
<1>2. MP!IInv'
  BY <1>1, MP!ReplyInv, MasterAssumed
<1>3. ReplyOK'
  BY DEF M!Reply, M!NoResponse, ReplyOK
<1> QED BY <1>2, <1>3

-------------------------------------------------------------------------------
LEMMA InitInv == Init => IInv
<1> SUFFICES ASSUME Init PROVE IInv
  OBVIOUS
<1>1. MP!IInv
  <2>1. MP!Init
    BY SameMaster DEF Init
  <2> QED BY <2>1, MP!InitInv, MasterAssumed
<1>2. SP!IInv
  <2>1. SP!Init
    BY SameSlave DEF Init
  <2> QED BY <2>1, SP!InitInv, SlaveAssumed
<1>3. ConnsOK
  BY DEF Init, ConnsOK
<1>4. VersionsOK
  BY CrawlerAssumption DEF Init, S!Init, VersionsOK
<1>5. ReplyOK
  BY DEF Init, M!Init, M!NoResponse, ReplyOK
<1> QED BY <1>1, <1>2, <1>3, <1>4, <1>5 DEF IInv

\* Whatever is read from a connection, the master handles a valid request.
LEMMA RequestIsHandled ==
  ASSUME IInv, Serve \/ ServeLate
  PROVE  \E r : MP!ValidRequest(r) /\ M!Accept /\ M!HandRequest(r)
<1>1. MP!IInv /\ ConnsOK /\ MasterAccepts
  BY DEF IInv, Serve, ServeLate
<1>2. MP!ValidRequest(Head(queue).req) /\ MP!ValidRequest(buff)
      /\ MP!ValidRequest(MP!Garbage)
  BY <1>1, AcceptKeeps, MP!RequestsAreValid, MasterAssumed
     DEF MP!IInv, MP!TypeOK, MP!BuffOK, MP!ValidRequest
<1>3. \A r : MP!ValidRequest(r) => MP!ValidRequest(M!Tail(r))
  BY DEF M!Tail, MP!ValidRequest, MP!Request
<1> QED
  BY <1>2, <1>3, SameMaster
     DEF Serve, ServeLate, M!ServeWhole, M!ServeSplit, M!ServeGarbage,
         M!ServeSilent

\* The steps in which the master takes part.
LEMMA MasterStepInv ==
  ASSUME IInv, MasterStep \/ ServeLate \/ MasterCrash
  PROVE  IInv'
<1>1. /\ MP!IInv /\ SP!IInv /\ ConnsOK /\ VersionsOK /\ ReplyOK
  BY DEF IInv
<1>2. CASE Serve \/ ServeLate
  <2>1. MasterAccepts
    BY <1>2 DEF Serve, ServeLate
  <2>2. PICK r : MP!ValidRequest(r) /\ M!Accept /\ M!HandRequest(r)
    BY <1>2, RequestIsHandled
  <2>3. MP!IInv' /\ ReplyOK' /\ UNCHANGED issued
    BY <1>1, <2>2, MasterServes
  <2>4. SP!IInv' /\ VersionsOK'
    BY <1>1, <2>1, <2>3, SlavesKept DEF MasterAccepts
  <2>5. ConnsOK'
    BY <1>1, <2>1, AcceptKeeps
  <2> QED BY <2>3, <2>4, <2>5 DEF IInv
<1>3. CASE MasterSaves
  <2>1. MP!TruncateConf \/ MP!SaveConf
    BY <1>3, SameMaster DEF MasterSaves
  <2>2. MP!IInv'
    BY <1>1, <2>1, MP!TruncateInv, MP!SaveInv, MasterAssumed
  <2>3. UNCHANGED <<slaveOnly, issued, queue, serving, response>>
    BY <1>3 DEF MasterSaves, M!TruncateConf, M!SaveConf
  <2>4. SP!IInv' /\ VersionsOK'
    BY <1>1, <2>3, SlavesKept
  <2> QED BY <1>1, <2>2, <2>3, <2>4 DEF IInv, ConnsOK, ReplyOK
<1>4. CASE MasterRestart
  <2>1. MP!Restart
    BY <1>4, SameMaster DEF MasterRestart
  <2>2. MP!IInv'
    BY <1>1, <2>1, MP!RestartInv, MasterAssumed
  <2>3. UNCHANGED <<slaveOnly, issued, queue, serving, response>>
    BY <1>4 DEF MasterRestart, M!Restart
  <2>4. SP!IInv' /\ VersionsOK'
    BY <1>1, <2>3, SlavesKept
  <2> QED BY <1>1, <2>2, <2>3, <2>4 DEF IInv, ConnsOK, ReplyOK
<1>5. CASE MasterCrash
  <2>1. MP!Crash
    BY <1>5, SameMaster DEF MasterCrash
  <2>2. MP!IInv'
    BY <1>1, <2>1, MP!CrashInv, MasterAssumed
  <2>3. ReplyOK' /\ ConnsOK' /\ UNCHANGED <<slaveOnly, issued>>
    BY <1>5 DEF MasterCrash, M!Crash, M!NoResponse, ReplyOK, ConnsOK
  <2>4. SP!IInv' /\ VersionsOK'
    BY <1>1, <2>3, SlavesKept
  <2> QED BY <2>2, <2>3, <2>4 DEF IInv
<1>6. ASSUME NEW c \in serving, Deliver(c)
      PROVE  IInv'
  <2>1. SP!IInv' /\ VersionsOK'
    BY <1>6, DeliverKeeps
  <2>2. MP!IInv' /\ ReplyOK'
    BY <1>1, <1>6, ReplySent DEF Deliver
  <2>3. ConnsOK'
    BY <1>1, <1>6 DEF Deliver, ConnsOK
  <2> QED BY <2>1, <2>2, <2>3 DEF IInv
<1>7. ASSUME NEW c \in serving, ReplyToNobody(c)
      PROVE  IInv'
  <2>1. MP!IInv' /\ ReplyOK'
    BY <1>1, <1>7, ReplySent DEF ReplyToNobody
  <2>2. ConnsOK' /\ UNCHANGED <<slaveOnly, issued>>
    BY <1>1, <1>7 DEF ReplyToNobody, M!Reply, ConnsOK
  <2>3. SP!IInv' /\ VersionsOK'
    BY <1>1, <2>2, SlavesKept
  <2> QED BY <2>1, <2>2, <2>3 DEF IInv
<1> QED BY <1>2, <1>3, <1>4, <1>5, <1>6, <1>7 DEF MasterStep

\* The steps a slave takes without the master.
LEMMA SlaveStepInv ==
  ASSUME IInv, NEW w \in Slaves, SlaveStep(w) \/ Trouble(w)
  PROVE  IInv'
<1>1. MP!IInv /\ SP!IInv /\ ConnsOK /\ VersionsOK /\ ReplyOK
  BY DEF IInv
<1>2. /\ UNCHANGED masterVars
      /\ \/ S!SlaveCrash(w) \/ S!Start(w) \/ S!SendRequest(w)
         \/ S!RequestFails(w) \/ S!GrabStep(w) \/ S!EndGrab(w)
         \/ S!SendFile(w) \/ S!RemoveFile(w) \/ S!StoreDone(w)
         \/ S!StoreGivesUp(w)
  BY DEF SlaveStep, Trouble, Ask, AskAgain, SlaveStarts, Grab, EndGrab, Store,
         LosePatience, SlaveDies, StoreGivesUp
<1>3. MP!IInv' /\ ReplyOK'
  BY <1>1, <1>2, MasterKept
<1>4. SP!IInv' /\ VersionsOK'
  <2>1. UNCHANGED issued
    BY <1>2 DEF masterVars
  <2> QED BY <1>1, <1>2, <2>1, SlaveWorks
<1>5. ConnsOK'
  <2>1. CASE Ask(w)
    <3>1. queue \in Seq(Sound)
      BY <1>1 DEF ConnsOK
    <3>2. [slave |-> w, req |-> Request(w), open |-> TRUE] \in Sound
      BY <1>1, RequestIsValid
    <3>3. queue' \in Seq(Sound)
      BY <2>1, <3>1, <3>2, AppendProperties DEF Ask
    <3> QED BY <1>1, <2>1, <3>3 DEF Ask, ConnsOK
  <2>2. CASE LosePatience(w) \/ SlaveDies(w)
    BY <1>1, <2>2, HangUpKeeps DEF LosePatience, SlaveDies
  <2>3. CASE UNCHANGED <<queue, serving>>
    BY <1>1, <2>3 DEF ConnsOK
  <2> QED
    BY <2>1, <2>2, <2>3
       DEF SlaveStep, Trouble, AskAgain, SlaveStarts, Grab, EndGrab, Store,
           StoreGivesUp
<1> QED BY <1>3, <1>4, <1>5 DEF IInv

LEMMA Invariance == Spec => []IInv
<1>1. ASSUME IInv, UNCHANGED vars PROVE IInv'
  <2>1. UNCHANGED <<masterVars, slaveOnly, issued, queue, serving>>
    BY <1>1 DEF vars, masterVars
  <2>2. MP!IInv' /\ ReplyOK'
    BY <1>1, <2>1, MasterKept DEF IInv
  <2>3. SP!IInv' /\ VersionsOK'
    BY <1>1, <2>1, SlavesKept DEF IInv
  <2> QED BY <1>1, <2>1, <2>2, <2>3 DEF IInv, ConnsOK
<1>2. ASSUME IInv, Next PROVE IInv'
  BY <1>2, MasterStepInv, SlaveStepInv DEF Next
<1> QED BY <1>1, <1>2, InitInv, PTL DEF Spec

-------------------------------------------------------------------------------
\* The ledger of Crawler's instance is that of the proofs.
LEMMA SameLedger ==
  /\ M!LedgerState = MP!LedgerState
  /\ M!LedgerState' = MP!LedgerState'
  /\ M!Ledger!Init <=> MP!Ledger!Init
  /\ M!Ledger!Next <=> MP!Ledger!Next
<1>1. M!LedgerState = MP!LedgerState /\ M!LedgerState' = MP!LedgerState'
  BY DEF M!LedgerState, MP!LedgerState, M!Pending, MP!Pending, M!SavedCursor,
         MP!SavedCursor, M!Absent, MP!Absent
<1>2. M!Ledger!Init <=> MP!Ledger!Init
  BY <1>1 DEF M!Ledger!Init, MP!Ledger!Init
<1>3. M!Ledger!Todo = MP!Ledger!Todo
  BY <1>1 DEF M!Ledger!Todo, MP!Ledger!Todo
<1>4. \A T : M!Ledger!Cardinality(T) = MP!Ledger!Cardinality(T)
  BY DEF M!Ledger!Cardinality, MP!Ledger!Cardinality
<1>5. M!Ledger!Next <=> MP!Ledger!Next
  BY <1>1, <1>3, <1>4
     DEF M!Ledger!Next, MP!Ledger!Next, M!Ledger!Give, MP!Ledger!Give,
         M!Ledger!Drop, MP!Ledger!Drop
<1> QED BY <1>1, <1>2, <1>5

\* What happens to the catalogue in the whole is what the master alone does.
LEMMA StepRefines ==
  ASSUME IInv, [Next]_vars
  PROVE  [MP!Ledger!Next]_(MP!LedgerState)
<1>1. MP!IInv
  BY DEF IInv
<1>2. CASE Serve \/ ServeLate
  <2>1. PICK r : MP!ValidRequest(r) /\ M!Accept /\ M!HandRequest(r)
    BY <1>2, RequestIsHandled
  <2>2. MP!Accept /\ MP!HandRequest(r)
    BY <2>1, SameMaster, SameHandRequest
  <2> QED BY <1>1, <2>1, <2>2, MP!ServeRefines, MasterAssumed
<1>3. CASE MasterSaves
  <2>1. MP!TruncateConf \/ MP!SaveConf
    BY <1>3, SameMaster DEF MasterSaves
  <2> QED BY <1>1, <2>1, MP!TruncateRefines, MP!SaveRefines, MasterAssumed
<1>4. CASE MasterRestart \/ MasterCrash
  <2>1. MP!Restart \/ MP!Crash
    BY <1>4, SameMaster DEF MasterRestart, MasterCrash
  <2> QED BY <1>1, <2>1, MP!CrashRefines, MP!RestartRefines, MasterAssumed
<1>5. ASSUME NEW c \in serving, Deliver(c) \/ ReplyToNobody(c)
      PROVE  [MP!Ledger!Next]_(MP!LedgerState)
  <2>1. PICK received \in BOOLEAN : MP!Reply(received)
    BY <1>5, SameMaster DEF Deliver, ReplyToNobody
  <2> QED BY <1>1, <2>1, MP!ReplyRefines, MasterAssumed
<1>6. CASE UNCHANGED masterVars
  <2>1. UNCHANGED MP!vars
    BY <1>6 DEF masterVars, MP!vars
  <2> QED BY <1>1, <2>1, MP!NextRefines, MasterAssumed
<1>7. ASSUME NEW w \in Slaves, SlaveStep(w) \/ Trouble(w)
      PROVE  UNCHANGED masterVars
  BY <1>7 DEF SlaveStep, Trouble, Ask, AskAgain, SlaveStarts, Grab, EndGrab,
              Store, LosePatience, SlaveDies, StoreGivesUp, masterVars
<1>8. CASE UNCHANGED vars
  BY <1>6, <1>8 DEF vars
<1> QED
  BY <1>2, <1>3, <1>4, <1>5, <1>6, <1>7, <1>8 DEF Next, MasterStep

\* The master implements the ledger among its slaves too, with the requests
\* they really send: no URL is given to two of them or given again, and it is
\* dropped only in batches or in a crash between truncate and save.
THEOREM CrawlerRefinesLedger == Spec => M!LedgerSpec
<1>1. Init => M!Ledger!Init
  BY MP!InitRefines, MasterAssumed, SameMaster, SameLedger DEF Init
<1>2. IInv /\ [Next]_vars => [M!Ledger!Next]_(M!LedgerState)
  BY StepRefines, SameLedger
<1>3. QED
  BY <1>1, <1>2, Invariance, PTL DEF Spec, M!LedgerSpec, M!Ledger!Spec

\* No URL is grabbed twice by all the slaves together, whoever crashes, however
\* requests are cut, repeated or served late, and whomever replies miss.
THEOREM GrabbedAtMostOnce == Spec => []GrabbedOnce
<1>1. IInv => GrabbedOnce
  BY SameSlave DEF IInv, SP!IInv, GrabbedOnce
<1> QED BY <1>1, Invariance, PTL

-------------------------------------------------------------------------------
(* What a table counts.                                                    *)

Tables == [Sites -> [sucess : Nat, failed : Nat]]

\* u counts one outcome more than t, on site s, a success if good.
OneMore(t, u, s, good) ==
  /\ u[s] = IF good THEN [sucess |-> t[s].sucess + 1, failed |-> t[s].failed]
            ELSE [sucess |-> t[s].sucess, failed |-> t[s].failed + 1]
  /\ \A r \in Sites \ {s} : u[r] = t[r]

LEMMA InCounted ==
  ASSUME NEW t
  PROVE  \A x : x \in Counted(t) <=>
           \E s \in Sites : \/ \E n \in 1..t[s].sucess : x = <<s, "sucess", n>>
                            \/ \E n \in 1..t[s].failed : x = <<s, "failed", n>>
BY DEF Counted

LEMMA NothingCounted ==
  ASSUME NEW t, t = [s \in Sites |-> [sucess |-> 0, failed |-> 0]]
  PROVE  Counted(t) = {}
<1>1. \A s \in Sites : 1..t[s].sucess = {} /\ 1..t[s].failed = {}
  OBVIOUS
<1> QED BY <1>1, InCounted

LEMMA OneMoreCounted ==
  ASSUME NEW t \in Tables, NEW u \in Tables, NEW s \in Sites,
         NEW good \in BOOLEAN, OneMore(t, u, s, good), IsFiniteSet(Counted(t))
  PROVE  /\ IsFiniteSet(Counted(u))
         /\ Cardinality(Counted(u)) = Cardinality(Counted(t)) + 1
<1> DEFINE x == IF good THEN <<s, "sucess", t[s].sucess + 1>>
                ELSE <<s, "failed", t[s].failed + 1>>
<1>0. /\ t[s].sucess \in Nat /\ t[s].failed \in Nat
  BY DEF Tables
<1>1. x \notin Counted(t)
  <2>1. ASSUME NEW r \in Sites, NEW n \in 1..t[r].sucess, x = <<r, "sucess", n>>
        PROVE  FALSE
    BY <1>0, <2>1
  <2>2. ASSUME NEW r \in Sites, NEW n \in 1..t[r].failed, x = <<r, "failed", n>>
        PROVE  FALSE
    BY <1>0, <2>2
  <2> QED BY <2>1, <2>2, InCounted
<1>2. \A y : y \in Counted(u) <=> y \in Counted(t) \/ y = x
  <2>1. /\ good => 1..u[s].sucess = 1..t[s].sucess \cup {t[s].sucess + 1}
                   /\ u[s].failed = t[s].failed
        /\ ~good => 1..u[s].failed = 1..t[s].failed \cup {t[s].failed + 1}
                    /\ u[s].sucess = t[s].sucess
    BY <1>0 DEF OneMore
  <2>2. ASSUME NEW y, y \in Counted(u)
        PROVE  y \in Counted(t) \/ y = x
    <3>1. PICK r \in Sites :
             \/ \E n \in 1..u[r].sucess : y = <<r, "sucess", n>>
             \/ \E n \in 1..u[r].failed : y = <<r, "failed", n>>
      BY <2>2, InCounted
    <3>2. CASE r # s
      BY <3>1, <3>2, InCounted DEF OneMore
    <3>3. CASE r = s
      BY <2>1, <3>1, <3>3, InCounted
    <3> QED BY <3>2, <3>3
  <2>3. ASSUME NEW y, y \in Counted(t)
        PROVE  y \in Counted(u)
    <3>1. PICK r \in Sites :
             \/ \E n \in 1..t[r].sucess : y = <<r, "sucess", n>>
             \/ \E n \in 1..t[r].failed : y = <<r, "failed", n>>
      BY <2>3, InCounted
    <3>2. CASE r # s
      BY <3>1, <3>2, InCounted DEF OneMore
    <3>3. CASE r = s
      BY <2>1, <3>1, <3>3, InCounted
    <3> QED BY <3>2, <3>3
  <2>4. x \in Counted(u)
    <3>1. CASE good
      BY <3>1, <2>1, InCounted
    <3>2. CASE ~good
      BY <3>2, <2>1, InCounted
    <3> QED BY <3>1, <3>2
  <2> QED BY <2>2, <2>3, <2>4
<1> HIDE DEF x
<1>3. Counted(u) = Counted(t) \cup {x}
  BY <1>2
<1> QED BY <1>1, <1>3, FS_AddElement

-------------------------------------------------------------------------------
(* The connections, in the order in which they were made.                  *)

Conns == serving \cup {queue[i] : i \in DOMAIN queue}

\* The request reports a grab.
ReportsGrab(c) == c.req.last_cmd_id = M!M2S_URL

ServesOne ==
  /\ pc \in {"accept", "down"} => serving = {}
  /\ \A c, d \in serving : c = d
  /\ \A c \in serving, i \in DOMAIN queue : c.open => queue[i].slave # c.slave

\* Only the last connection of a slave can be open, while it waits for the
\* answer; a slave that has reported a grab to deaf ears reports it again.
LineOK ==
  /\ \A c \in Conns : c.open => spc[c.slave] = "wait"
  /\ \A i, j \in DOMAIN queue :
       i < j /\ queue[i].slave = queue[j].slave =>
         /\ ~queue[i].open
         /\ ReportsGrab(queue[j]) => ReportsGrab(queue[i])
  /\ \A i \in DOMAIN queue :
       LET c == queue[i]
       IN /\ ReportsGrab(c) => c.req.last_task_status # -1
          /\ spc[c.slave] # "grab"
          /\ last_cmd_id[c.slave] = M!M2S_URL => ReportsGrab(c)
  /\ \A w \in Slaves : last_cmd_id[w] = M!M2S_URL => last_task_status[w] # -1

QInv == IInv /\ ServesOne /\ LineOK

LEMMA QueueShape ==
  ASSUME ConnsOK
  PROVE  /\ Len(queue) \in Nat /\ DOMAIN queue = 1..Len(queue)
         /\ \A i \in DOMAIN queue : queue[i] \in Sound
BY DEF ConnsOK

LEMMA AskQueue ==
  ASSUME ConnsOK, NEW w \in Slaves, Ask(w)
  PROVE  LET c == [slave |-> w, req |-> Request(w), open |-> TRUE]
         IN /\ DOMAIN queue' = 1..(Len(queue) + 1)
            /\ \A i \in DOMAIN queue : queue'[i] = queue[i]
            /\ queue'[Len(queue) + 1] = c
            /\ Conns' = Conns \cup {c}
<1> DEFINE c == [slave |-> w, req |-> Request(w), open |-> TRUE]
<1> HIDE DEF c
<1>1. queue' = Append(queue, c) /\ serving' = serving
  BY DEF Ask, c
<1>2. queue \in Seq(Sound \cup {c}) /\ c \in Sound \cup {c}
  BY DEF ConnsOK
<1>3. /\ DOMAIN queue' = 1..(Len(queue) + 1)
      /\ \A i \in DOMAIN queue : queue'[i] = queue[i]
      /\ queue'[Len(queue) + 1] = c
      /\ DOMAIN queue = 1..Len(queue) /\ Len(queue) \in Nat
  BY <1>1, <1>2, AppendProperties
<1>4. Conns' = Conns \cup {c}
  BY <1>1, <1>3 DEF Conns
<1> QED BY <1>3, <1>4 DEF c

LEMMA TailQueue ==
  ASSUME ConnsOK, serving = {}, MasterAccepts
  PROVE  /\ Len(queue) \in Nat \ {0} /\ Head(queue) = queue[1]
         /\ DOMAIN queue' = 1..(Len(queue) - 1)
         /\ \A i \in DOMAIN queue' : queue'[i] = queue[i + 1]
         /\ Conns' = Conns
<1>1. queue \in Seq(Sound) /\ queue # <<>>
      /\ queue' = Tail(queue) /\ serving' = {Head(queue)}
  BY DEF ConnsOK, MasterAccepts
<1>2. /\ Len(queue) \in Nat \ {0} /\ Head(queue) = queue[1]
      /\ DOMAIN queue' = 1..(Len(queue) - 1)
      /\ \A i \in DOMAIN queue' : queue'[i] = queue[i + 1]
      /\ DOMAIN queue = 1..Len(queue)
  BY <1>1, HeadTailProperties, EmptySeq, LenProperties
<1>3. Conns = {queue[i] : i \in 1..Len(queue)}
  BY <1>2 DEF Conns
<1>4. Conns' = {queue[1]} \cup {queue[i + 1] : i \in 1..(Len(queue) - 1)}
  <2>1. {queue'[i] : i \in DOMAIN queue'}
          = {queue[i + 1] : i \in 1..(Len(queue) - 1)}
    BY <1>2
  <2>2. serving' = {queue[1]}
    BY <1>1, <1>2
  <2> QED BY <2>1, <2>2 DEF Conns
<1>5. \A i \in 1..Len(queue) : i = 1 \/ \E j \in 1..(Len(queue) - 1) : i = j + 1
  <2> TAKE i \in 1..Len(queue)
  <2>1. i = 1 \/ (i - 1 \in 1..(Len(queue) - 1) /\ i = (i - 1) + 1)
    BY <1>2
  <2> QED BY <2>1
<1>6. \A j \in 1..(Len(queue) - 1) : j + 1 \in 1..Len(queue)
  BY <1>2
<1>7. 1 \in 1..Len(queue)
  BY <1>2
<1>8. Conns' = Conns
  BY <1>3, <1>4, <1>5, <1>6, <1>7
<1> QED BY <1>2, <1>8

LEMMA HangUpQueue ==
  ASSUME ConnsOK, NEW w \in Slaves, HangUp(w)
  PROVE  /\ DOMAIN queue' = DOMAIN queue
         /\ \A i \in DOMAIN queue : queue'[i] = Shut(w, queue[i])
         /\ Conns' = {Shut(w, c) : c \in Conns}
BY DEF HangUp, Conns

LEMMA ShutConn ==
  ASSUME NEW w, NEW c \in Sound
  PROVE  /\ Shut(w, c).slave = c.slave /\ Shut(w, c).req = c.req
         /\ c.slave = w => ~Shut(w, c).open
         /\ c.slave # w => Shut(w, c) = c
BY DEF Shut, Sound, Conn

LEMMA SlaveFacts ==
  ASSUME IInv
  PROVE  /\ spc \in [Slaves -> {"down", "updated", "ask", "wait", "grab", "store",
                                "remove"}]
         /\ last_cmd_id \in [Slaves -> {-1, 0, 2, 4, 7}]
         /\ last_task_status \in [Slaves -> {-1, 0, 1}]
         /\ task \in [Slaves -> SUBSET Urls]
         /\ \A w \in Slaves :
              /\ spc[w] \in {"down", "updated"} => last_cmd_id[w] = -1
              /\ spc[w] = "grab" => last_cmd_id[w] = 4
              /\ spc[w] \in {"store", "remove"} => last_cmd_id[w] = 7
BY DEF IInv, SP!IInv, SP!TypeOK, SP!StatusOK, SP!UNKNOWN, SP!SLEEP,
       SP!GRABPAGE, SP!STORE

-------------------------------------------------------------------------------
LEMMA InitQ == Init => ServesOne /\ LineOK
BY DEF Init, M!Init, S!Init, ServesOne, LineOK, Conns, M!M2S_URL


\* What a slave may do while its connections stay as they are.
Steady ==
  \A w \in Slaves :
    /\ spc[w] = "wait" => spc'[w] = "wait" \/ ~Connected(w)
    /\ spc'[w] = "grab" => spc[w] = "grab"
    /\ last_cmd_id'[w] = M!M2S_URL =>
         last_cmd_id[w] = M!M2S_URL /\ last_task_status'[w] # -1

LEMMA SteadyQ ==
  ASSUME QInv, Steady, UNCHANGED <<queue, serving>>,
         pc' \in {"accept", "down"} => pc \in {"accept", "down"}
  PROVE  ServesOne' /\ LineOK'
<1>1. ServesOne'
  BY DEF QInv, ServesOne
<1>2. Conns' = Conns /\ \A c \in Conns : c.slave \in Slaves
  BY DEF Conns, QInv, IInv, ConnsOK, Sound, Conn
<1>3. \A c \in Conns : c.open => Connected(c.slave)
  BY DEF Connected, Conns
<1>4. \A i \in DOMAIN queue : queue[i].slave \in Slaves
  BY <1>2 DEF Conns
<1>5. \A c \in Conns' : c.open => spc'[c.slave] = "wait"
  BY <1>2, <1>3 DEF QInv, LineOK, Steady
<1>6. LineOK'
  BY <1>4, <1>5 DEF QInv, LineOK, Steady, ReportsGrab
<1> QED BY <1>1, <1>6

\* The steps a slave takes by itself.
LEMMA LocalSteady ==
  ASSUME QInv, NEW w \in Slaves,
         \/ AskAgain(w) \/ SlaveStarts(w) \/ Grab(w) \/ EndGrab(w) \/ Store(w)
         \/ StoreGivesUp(w)
  PROVE  Steady /\ UNCHANGED <<queue, serving, pc>>
<1>1. /\ spc \in [Slaves -> {"down", "updated", "ask", "wait", "grab", "store",
                             "remove"}]
      /\ last_cmd_id \in [Slaves -> {-1, 0, 2, 4, 7}]
      /\ last_task_status \in [Slaves -> {-1, 0, 1}]
      /\ spc[w] \in {"store", "remove"} => last_cmd_id[w] = 7
  BY SlaveFacts DEF QInv
<1>2. \A v \in Slaves : last_cmd_id[v] = 4 => last_task_status[v] # -1
  BY DEF QInv, LineOK, M!M2S_URL
<1>3. UNCHANGED <<queue, serving, pc>>
  BY DEF AskAgain, SlaveStarts, Grab, EndGrab, Store, StoreGivesUp, masterVars
<1> SUFFICES Steady
  BY <1>3
<1> USE DEF Steady, M!M2S_URL
<1>4. CASE AskAgain(w)
  BY <1>1, <1>2, <1>4 DEF AskAgain, S!RequestFails, S!report
<1>5. CASE SlaveStarts(w) \/ EndGrab(w)
  BY <1>1, <1>2, <1>5 DEF SlaveStarts, S!Start, EndGrab, S!EndGrab, S!report
<1>6. CASE S!SendFile(w) \/ S!RemoveFile(w)
  BY <1>1, <1>2, <1>6 DEF S!SendFile, S!RemoveFile, S!report
<1>7. CASE S!StoreDone(w) \/ S!StoreGivesUp(w)
  <2>1. /\ spc[w] = "store" /\ spc' = [spc EXCEPT ![w] = "ask"]
        /\ \E status \in {0, 1} :
             last_task_status' = [last_task_status EXCEPT ![w] = status]
        /\ UNCHANGED last_cmd_id
    BY <1>7 DEF S!StoreDone, S!StoreGivesUp, S!StoreEnds
  <2> QED BY <1>1, <1>2, <2>1
<1>8. CASE Grab(w)
  <2>1. PICK u \in Urls :
          \/ S!NameUnknown(w, u) \/ S!NoAddress(w, u) \/ S!Unreachable(w, u)
          \/ \E answer \in WebAnswers \cap {"page", "error", "torn"} :
               S!SavePage(w, u, answer)
    BY <1>8 DEF Grab, S!GrabStep
  <2>2. CASE S!NameUnknown(w, u)
    BY <1>1, <1>2, <2>2 DEF S!NameUnknown, S!NextUrl, S!End
  <2>3. CASE S!NoAddress(w, u) \/ S!Unreachable(w, u)
    BY <1>1, <1>2, <2>3 DEF S!NoAddress, S!Unreachable, S!report
  <2>4. ASSUME NEW answer, S!SavePage(w, u, answer)
        PROVE Steady
    BY <1>1, <1>2, <2>4 DEF S!SavePage
  <2> QED BY <2>1, <2>2, <2>3, <2>4
<1> QED
  BY <1>4, <1>5, <1>6, <1>7, <1>8 DEF Store, StoreGivesUp

LEMMA AskQ ==
  ASSUME QInv, NEW w \in Slaves, Ask(w)
  PROVE  ServesOne' /\ LineOK'
<1> DEFINE c == [slave |-> w, req |-> Request(w), open |-> TRUE]
           n == Len(queue)
<1>0. IInv /\ ServesOne /\ LineOK /\ ConnsOK
  BY DEF QInv, IInv
<1>1. /\ DOMAIN queue' = 1..(n + 1)
      /\ \A i \in DOMAIN queue : queue'[i] = queue[i]
      /\ queue'[n + 1] = c
      /\ Conns' = Conns \cup {c}
  BY <1>0, AskQueue
<1>2. n \in Nat /\ DOMAIN queue = 1..n
  BY <1>0, QueueShape
<1>3. c.slave = w /\ c.req.last_cmd_id = last_cmd_id[w]
      /\ c.req.last_task_status = last_task_status[w]
  BY DEF Request
<1>4. \A x \in Conns : x.slave \in Slaves /\ x.open \in BOOLEAN
  BY <1>0 DEF ConnsOK, Conns, Sound, Conn
<1>5. spc[w] = "ask" /\ spc' = [spc EXCEPT ![w] = "wait"]
      /\ UNCHANGED <<serving, pc, last_cmd_id, last_task_status>>
  BY DEF Ask, S!SendRequest, S!report, masterVars
<1>6. \A x \in Conns : x.slave = w => ~x.open
  BY <1>0, <1>5 DEF LineOK
<1> HIDE DEF c, n
<1>7. \A i \in 1..(n + 1) : i \in 1..n \/ i = n + 1
  BY <1>2
<1>8. ServesOne'
  <2>1. \A x \in serving, i \in 1..(n + 1) : x.open => queue'[i].slave # x.slave
    BY <1>0, <1>1, <1>2, <1>3, <1>6, <1>7 DEF ServesOne, Conns
  <2> QED BY <1>0, <1>1, <1>5, <2>1 DEF ServesOne
<1>9. \A x \in Conns' : x.open => spc'[x.slave] = "wait"
  BY <1>0, <1>1, <1>3, <1>4, <1>5, <1>6, SlaveFacts DEF LineOK
<1>10. \A i \in 1..n : queue[i] \in Conns
  BY <1>2 DEF Conns
<1>11. ASSUME NEW i \in 1..(n + 1), NEW j \in 1..(n + 1), i < j,
              queue'[i].slave = queue'[j].slave
       PROVE  ~queue'[i].open
              /\ (ReportsGrab(queue'[j]) => ReportsGrab(queue'[i]))
  <2>1. i \in 1..n /\ queue'[i] = queue[i]
    BY <1>1, <1>2, <1>11
  <2>2. CASE j \in 1..n
    BY <1>0, <1>1, <1>2, <1>11, <2>1, <2>2 DEF LineOK
  <2>3. CASE j = n + 1
    BY <1>0, <1>1, <1>2, <1>3, <1>6, <1>10, <1>11, <2>1, <2>3 DEF LineOK, ReportsGrab
  <2> QED BY <1>7, <2>2, <2>3
<1>12. ASSUME NEW i \in 1..(n + 1)
       PROVE  LET x == queue'[i]
              IN /\ ReportsGrab(x) => x.req.last_task_status # -1
                 /\ spc'[x.slave] # "grab"
                 /\ last_cmd_id'[x.slave] = M!M2S_URL => ReportsGrab(x)
  <2>1. CASE i \in 1..n
    BY <1>0, <1>1, <1>2, <1>4, <1>5, <1>10, <2>1, SlaveFacts DEF LineOK
  <2>2. CASE i = n + 1
    BY <1>0, <1>1, <1>3, <1>5, <2>2, SlaveFacts DEF LineOK, ReportsGrab
  <2> QED BY <1>7, <2>1, <2>2
<1>13. \A v \in Slaves : last_cmd_id'[v] = M!M2S_URL => last_task_status'[v] # -1
  BY <1>0, <1>5 DEF LineOK
<1>14. LineOK'
  BY <1>1, <1>9, <1>11, <1>12, <1>13 DEF LineOK, ReportsGrab
<1> QED BY <1>8, <1>14

LEMMA HangUpQ ==
  ASSUME QInv, NEW w \in Slaves, LosePatience(w) \/ SlaveDies(w)
  PROVE  ServesOne' /\ LineOK'
<1>0. IInv /\ ServesOne /\ LineOK /\ ConnsOK
  BY DEF QInv, IInv
<1>1. HangUp(w) /\ pc' = pc
  BY DEF LosePatience, SlaveDies, masterVars
<1>2. /\ DOMAIN queue' = DOMAIN queue
      /\ \A i \in DOMAIN queue : queue'[i] = Shut(w, queue[i])
      /\ Conns' = {Shut(w, c) : c \in Conns}
      /\ serving' = {Shut(w, c) : c \in serving}
  BY <1>0, <1>1, HangUpQueue DEF HangUp
<1>3. \A c \in Conns : c \in Sound /\ c.slave \in Slaves
  BY <1>0 DEF ConnsOK, Conns, Sound, Conn
<1>4. \A c \in Conns :
        /\ Shut(w, c).slave = c.slave /\ Shut(w, c).req = c.req
        /\ Shut(w, c).open => c.open /\ c.slave # w
  BY <1>3, ShutConn
<1>5. (\A i \in DOMAIN queue : queue[i] \in Conns) /\ serving \subseteq Conns
  BY DEF Conns
<1>6. \A v \in Slaves :
        /\ v # w => spc'[v] = spc[v]
        /\ spc'[v] = "grab" => spc[v] = "grab"
        /\ last_cmd_id'[v] = 4 => last_cmd_id[v] = 4
                                  /\ last_task_status'[v] = last_task_status[v]
  <2>1. CASE LosePatience(w)
    BY <1>0, <2>1, SlaveFacts DEF LosePatience, S!RequestFails, S!report
  <2>2. CASE SlaveDies(w)
    BY <1>0, <2>2, SlaveFacts DEF SlaveDies, S!SlaveCrash, S!End
  <2> QED BY <2>1, <2>2
<1>7. ServesOne'
  BY <1>0, <1>1, <1>2, <1>4, <1>5 DEF ServesOne
<1>8. \A c \in Conns' : c.open => spc'[c.slave] = "wait"
  BY <1>0, <1>2, <1>3, <1>4, <1>6 DEF LineOK
<1>9. LineOK'
  BY <1>0, <1>2, <1>3, <1>4, <1>5, <1>6, <1>8 DEF LineOK, ReportsGrab, M!M2S_URL
<1> QED BY <1>7, <1>9

LEMMA AcceptQ ==
  ASSUME QInv, MasterAccepts, pc = "accept", pc' \in {"reply", "truncate"}
  PROVE  ServesOne' /\ LineOK'
<1> DEFINE n == Len(queue)
<1>0. IInv /\ ServesOne /\ LineOK /\ ConnsOK /\ serving = {}
  BY DEF QInv, IInv, ServesOne
<1>1. /\ n \in Nat \ {0} /\ Head(queue) = queue[1]
      /\ DOMAIN queue' = 1..(n - 1)
      /\ \A i \in DOMAIN queue' : queue'[i] = queue[i + 1]
      /\ Conns' = Conns
  BY <1>0, TailQueue
<1>2. DOMAIN queue = 1..n
  BY <1>0, QueueShape
<1>3. serving' = {queue[1]}
      /\ UNCHANGED <<spc, last_cmd_id, last_task_status>>
  BY <1>1 DEF MasterAccepts, slaveOnly
<1> HIDE DEF n
<1>4. \A i \in 1..(n - 1) : i + 1 \in 1..n
  BY <1>1
<1>5. 1 \in 1..n
  BY <1>1
<1>6. ServesOne'
  <2>1. \A i \in 1..(n - 1) : 1 < i + 1
    BY <1>1
  <2>2. \A i \in 1..(n - 1) : queue[1].open => queue[i + 1].slave # queue[1].slave
    BY <1>0, <1>2, <1>4, <1>5, <2>1 DEF LineOK
  <2> QED BY <1>1, <1>3, <2>2 DEF ServesOne
<1>7. LineOK'
  <2>1. \A i, j \in 1..(n - 1) : i < j => i + 1 < j + 1
    BY <1>1
  <2>2. \A c \in Conns' : c.open => spc'[c.slave] = "wait"
    BY <1>0, <1>1, <1>3 DEF LineOK
  <2>3. \A i, j \in 1..(n - 1) :
          i < j /\ queue'[i].slave = queue'[j].slave =>
            /\ ~queue'[i].open
            /\ ReportsGrab(queue'[j]) => ReportsGrab(queue'[i])
    BY <1>0, <1>1, <1>2, <1>4, <2>1 DEF LineOK
  <2>4. \A i \in 1..(n - 1) :
          LET c == queue'[i]
          IN /\ ReportsGrab(c) => c.req.last_task_status # -1
             /\ spc[c.slave] # "grab"
             /\ last_cmd_id[c.slave] = M!M2S_URL => ReportsGrab(c)
    BY <1>0, <1>1, <1>2, <1>4 DEF LineOK
  <2>5. \A w \in Slaves : last_cmd_id[w] = M!M2S_URL => last_task_status[w] # -1
    BY <1>0 DEF LineOK
  <2> QED BY <1>1, <1>3, <2>2, <2>3, <2>4, <2>5 DEF LineOK, ReportsGrab
<1> QED BY <1>6, <1>7

LEMMA CrashQ ==
  ASSUME QInv, MasterCrash
  PROVE  ServesOne' /\ LineOK'
<1>1. queue' = <<>> /\ serving' = {}
      /\ UNCHANGED <<last_cmd_id, last_task_status>>
  BY DEF MasterCrash, slaveOnly
<1>2. DOMAIN queue' = {} /\ Conns' = {}
  BY <1>1 DEF Conns
<1> QED BY <1>1, <1>2 DEF QInv, LineOK, ServesOne

\* What the command of the master makes of the slave that gets it.
LEMMA HandTaskFacts ==
  ASSUME IInv, NEW w \in Slaves, NEW cmd, NEW urls, S!HandTask(w, cmd, urls)
  PROVE  /\ spc[w] = "wait" /\ spc'[w] \in {"ask", "updated", "down", "grab", "store"}
         /\ \A v \in Slaves \ {w} :
              UNCHANGED <<spc[v], last_cmd_id[v], last_task_status[v], task[v]>>
         /\ last_cmd_id'[w] = 4 => spc'[w] = "grab"
         /\ spc'[w] = "grab" => /\ cmd = 4 /\ task'[w] = urls
                                /\ last_task_status'[w] = 0
<1>1. /\ spc \in [Slaves -> {"down", "updated", "ask", "wait", "grab", "store",
                             "remove"}]
      /\ last_cmd_id \in [Slaves -> {-1, 0, 2, 4, 7}]
      /\ last_task_status \in [Slaves -> {-1, 0, 1}]
      /\ task \in [Slaves -> SUBSET Urls]
      /\ spc[w] = "wait"
  BY SlaveFacts DEF S!HandTask
<1> USE DEF S!SLEEP, S!UPDATE, S!GRABPAGE, S!STORE, S!UNKNOWN
<1>2. CASE S!HandSleep(w) \/ S!HandStore(w) \/ S!HandUnknown(w)
  BY <1>1, <1>2 DEF S!HandSleep, S!HandStore, S!HandUnknown, S!batch
<1>3. CASE S!HandUpdate(w)
  BY <1>1, <1>3 DEF S!HandUpdate, S!End
<1>4. CASE S!HandGrab(w, urls) /\ cmd = 4
  <2>1. CASE S!End(w, "down")
    BY <1>1, <2>1 DEF S!End
  <2>2. CASE ~S!End(w, "down")
    BY <1>1, <1>4, <2>2 DEF S!HandGrab
  <2> QED BY <2>1, <2>2
<1> QED BY <1>2, <1>3, <1>4 DEF S!HandTask

LEMMA DeliverQ ==
  ASSUME QInv, NEW c, Deliver(c)
  PROVE  ServesOne' /\ LineOK'
<1> DEFINE w == c.slave
<1>0. IInv /\ ServesOne /\ LineOK /\ ConnsOK /\ c \in serving /\ c.open
      /\ serving' = {} /\ queue' = queue
  BY DEF QInv, IInv, Deliver
<1>1. w \in Slaves /\ \A x \in Conns : x.slave \in Slaves
  BY <1>0 DEF ConnsOK, Conns, Sound, Conn
<1>2. S!HandTask(w, response.commd_id, response.urls)
  BY DEF Deliver
<1>3. \A i \in DOMAIN queue : queue[i].slave # w
  BY <1>0 DEF ServesOne
<1>4. Conns' = {queue[i] : i \in DOMAIN queue} /\ Conns' \subseteq Conns
  BY <1>0 DEF Conns
<1>5. \A v \in Slaves \ {w} :
        UNCHANGED <<spc[v], last_cmd_id[v], last_task_status[v]>>
  BY <1>0, <1>1, <1>2, HandTaskFacts
<1>6. last_cmd_id'[w] = 4 => last_task_status'[w] # -1
  BY <1>0, <1>1, <1>2, HandTaskFacts
<1> HIDE DEF w
<1>7. \A i \in DOMAIN queue : queue[i].slave \in Slaves \ {w}
  BY <1>1, <1>3 DEF Conns
<1>8. ServesOne'
  BY <1>0 DEF ServesOne
<1>9. \A x \in Conns' : x.open => spc'[x.slave] = "wait"
  BY <1>0, <1>4, <1>5, <1>7 DEF LineOK
<1>10. LineOK'
  BY <1>0, <1>1, <1>5, <1>6, <1>7, <1>9 DEF LineOK, ReportsGrab, M!M2S_URL
<1> QED BY <1>8, <1>10

LEMMA NobodyQ ==
  ASSUME QInv, NEW c, ReplyToNobody(c)
  PROVE  ServesOne' /\ LineOK'
<1>1. serving' = {} /\ queue' = queue
      /\ UNCHANGED <<spc, last_cmd_id, last_task_status>>
  BY DEF ReplyToNobody, slaveOnly
<1>2. Conns' \subseteq Conns
  BY <1>1 DEF Conns
<1> QED BY <1>1, <1>2 DEF QInv, ServesOne, LineOK, ReportsGrab

\* The request the master handles when it takes the first connection: the one
\* on it, in whole or but for its first piece, or garbage, or what was left in
\* the buffer.
LEMMA AcceptHandles ==
  ASSUME IInv, Serve \/ ServeLate
  PROVE  /\ MasterAccepts /\ M!Accept
         /\ \E r : /\ MP!ValidRequest(r) /\ M!HandRequest(r)
                   /\ \/ r = Head(queue).req
                      \/ r = M!Tail(Head(queue).req) /\ faults' = faults + 1
                      \/ r.commd_id # M!S2M_REQUEST /\ faults' = faults + 1
                      \/ r = buff /\ faults' = faults + 1
         /\ Serve => M!HandRequest(Head(queue).req)
         /\ faults' \in {faults, faults + 1} /\ (Serve => faults' = faults)
<1>1. MasterAccepts /\ (Serve => faults' = faults)
      /\ (ServeLate => faults' = faults + 1)
  BY DEF Serve, ServeLate, Fault
<1>2. MP!ValidRequest(Head(queue).req)
  BY <1>1, AcceptKeeps DEF IInv
<1>3. /\ MP!ValidRequest(buff)
      /\ MP!ValidRequest(M!Garbage) /\ M!Garbage.commd_id # M!S2M_REQUEST
      /\ MP!ValidRequest(M!Tail(Head(queue).req))
  <2>1. MP!ValidRequest(MP!Garbage)
    BY MP!RequestsAreValid, MasterAssumed
  <2>2. MP!ValidRequest(M!Garbage)
    BY <2>1, SameMaster
  <2>3. MP!ValidRequest(buff)
    BY DEF IInv, MP!IInv, MP!TypeOK, MP!BuffOK, MP!ValidRequest
  <2>4. M!Garbage.commd_id # M!S2M_REQUEST
    BY DEF M!Garbage, M!Simple, M!BAD, M!S2M_REQUEST
  <2>5. MP!ValidRequest(M!Tail(Head(queue).req))
    BY <1>2 DEF M!Tail, MP!ValidRequest, MP!Request
  <2> QED BY <2>2, <2>3, <2>4, <2>5
<1>4. CASE Serve
  BY <1>1, <1>2, <1>4 DEF Serve, M!ServeWhole
<1>5. CASE ServeLate /\ M!ServeSplit(Head(queue).req)
  BY <1>1, <1>3, <1>5 DEF M!ServeSplit, ServeLate, Serve, M!ServeWhole
<1>6. CASE ServeLate /\ M!ServeGarbage
  BY <1>1, <1>3, <1>6 DEF M!ServeGarbage, Serve, M!ServeWhole
<1>7. CASE ServeLate /\ M!ServeSilent
  BY <1>1, <1>3, <1>7 DEF M!ServeSilent, Serve, M!ServeWhole
<1> QED BY <1>4, <1>5, <1>6, <1>7 DEF ServeLate

\* What handling a request makes of the site assigned last and the outcomes.
LEMMA HandlesFacts ==
  ASSUME IInv, NEW r, MP!ValidRequest(r), M!HandRequest(r)
  PROVE  /\ pc' \in {"reply", "truncate"}
         /\ r.commd_id # M!S2M_REQUEST =>
              /\ UNCHANGED <<db, slave_map>> /\ response'.commd_id # M!M2S_URL
         /\ r.commd_id = M!S2M_REQUEST =>
              /\ r.slave_id \in Slaves /\ db' = M!TallyDb(r)
              /\ \A w \in Slaves \ {r.slave_id} : slave_map'[w] = slave_map[w]
              /\ response'.commd_id = M!M2S_URL =>
                   /\ response'.urls # {}
                   /\ \A u \in response'.urls :
                        u[1] = slave_map'[r.slave_id].last_task_site
<1>0. slave_map \in [Slaves -> M!SlaveStatus]
  <2>1. MP!SlaveStatus = M!SlaveStatus
    BY DEF MP!SlaveStatus, M!SlaveStatus, MP!NoSite, M!NoSite
  <2> QED BY <2>1 DEF IInv, MP!IInv, MP!TypeOK
<1> USE DEF M!Respond, M!M2S_URL, M!M2S_SLEEP, M!M2S_STORE, M!M2S_UPDATE,
            M!ACK, M!BAD
<1>1. CASE r.commd_id # M!S2M_REQUEST
  BY <1>1 DEF M!HandRequest, M!mem
<1>2. CASE r.commd_id = M!S2M_REQUEST
  <2> DEFINE id == r.slave_id
  <2>1. id \in Slaves /\ db' = M!TallyDb(r)
    BY <1>2 DEF MP!ValidRequest, MP!S2M_REQUEST, M!S2M_REQUEST, M!HandRequest
  <2>2. PICK isworktime \in BOOLEAN : M!HandSlaveRequest(r, isworktime)
    BY <1>2 DEF M!HandRequest
  <2>3. /\ M!Tally(r) \in [Slaves -> {M!Tally(r)[w] : w \in Slaves}]
        /\ \A w \in Slaves \ {id} : M!Tally(r)[w] = slave_map[w]
    BY <1>0, <2>1 DEF M!Tally
  <2>4. CASE M!Store(r) \/ M!Sleep(r, isworktime) \/ M!Update(r, isworktime)
             \/ M!NothingToAssign(r, isworktime)
    BY <1>2, <2>1, <2>3, <2>4
       DEF M!Store, M!Sleep, M!Update, M!NothingToAssign
  <2>5. CASE \E s \in Sites : M!AssignEof(r, isworktime, s)
    BY <1>2, <2>1, <2>3, <2>5 DEF M!AssignEof
  <2>6. ASSUME NEW u \in Urls, M!AssignBatch(r, isworktime, u[1], u[2])
        PROVE  /\ pc' \in {"reply", "truncate"}
               /\ \A w \in Slaves \ {id} : slave_map'[w] = slave_map[w]
               /\ response'.urls # {}
               /\ \A v \in response'.urls : v[1] = slave_map'[id].last_task_site
    <3> DEFINE s == u[1]
               p == url_map[s].finished_length
    <3>1. /\ slave_map' = [M!Tally(r) EXCEPT ![id].last_task_site = s]
          /\ response'.urls = M!Between(s, p, u[2])
          /\ <<s, u[2]>> \in M!Between(s, p, u[2])
          /\ pc' = "truncate"
      BY <2>6 DEF M!AssignBatch, M!ReadStopsAt
    <3>2. M!Tally(r)[id] \in M!SlaveStatus
      <4>1. slave_map[id] \in M!SlaveStatus
        BY <1>0, <2>1
      <4>2. [M!NoSlave EXCEPT !.known = TRUE] \in M!SlaveStatus
        BY DEF M!NoSlave, M!SlaveStatus
      <4> DEFINE x == slave_map[id]
                 s1 == x.last_task_site
      <4>3. s1 \in Sites \cup {M!NoSite} /\ x.good[s1] \in Nat /\ x.bad[s1] \in Nat
        BY <4>1 DEF M!SlaveStatus
      <4>4. /\ [x EXCEPT !.good[s1] = @ + 1] \in M!SlaveStatus
            /\ [x EXCEPT !.bad[s1] = @ + 1] \in M!SlaveStatus
        <5>1. x \in M!SlaveStatus
          BY <4>1
        <5> HIDE DEF x, s1
        <5>2. [x EXCEPT !.good[s1] = @ + 1] \in M!SlaveStatus
          BY <4>3, <5>1 DEF M!SlaveStatus
        <5>3. [x EXCEPT !.bad[s1] = @ + 1] \in M!SlaveStatus
          BY <4>3, <5>1 DEF M!SlaveStatus
        <5> QED BY <5>2, <5>3
      <4>5. M!Tally(r)[id] \in {[M!NoSlave EXCEPT !.known = TRUE],
                                [x EXCEPT !.good[s1] = @ + 1],
                                [x EXCEPT !.bad[s1] = @ + 1]}
        BY <1>0, <2>1 DEF M!Tally
      <4> QED BY <4>2, <4>4, <4>5
    <3>3. slave_map'[id].last_task_site = s
      BY <2>1, <2>3, <3>1, <3>2 DEF M!SlaveStatus
    <3>4. \A w \in Slaves \ {id} : slave_map'[w] = slave_map[w]
      BY <2>3, <3>1
    <3>5. \A v \in M!Between(s, p, u[2]) : v[1] = s
      BY DEF M!Between
    <3> HIDE DEF s, p
    <3> QED BY <3>1, <3>3, <3>4, <3>5
  <2> QED BY <1>2, <2>1, <2>2, <2>4, <2>5, <2>6 DEF M!HandSlaveRequest
<1> QED BY <1>1, <1>2

LEMMA MasterStepQ ==
  ASSUME QInv, MasterStep \/ ServeLate \/ MasterCrash
  PROVE  QInv'
<1>0. IInv
  BY DEF QInv
<1>1. IInv'
  BY <1>0, MasterStepInv
<1>2. CASE Serve \/ ServeLate
  <2>1. MasterAccepts /\ pc = "accept" /\ pc' \in {"reply", "truncate"}
    BY <1>0, <1>2, AcceptHandles, HandlesFacts DEF M!Accept
  <2> QED BY <1>1, <2>1, AcceptQ DEF QInv
<1>3. CASE MasterSaves \/ MasterRestart
  <2>1. UNCHANGED <<slaveOnly, queue, serving>>
    BY <1>3 DEF MasterSaves, MasterRestart
  <2>2. pc' \in {"accept", "down"} => pc \in {"accept", "down"}
    BY <1>3 DEF MasterSaves, MasterRestart, M!TruncateConf, M!SaveConf, M!Restart
  <2>3. Steady
    BY <2>1 DEF Steady, slaveOnly, QInv, LineOK
  <2> QED BY <1>1, <2>1, <2>2, <2>3, SteadyQ DEF QInv
<1>4. CASE MasterCrash
  BY <1>1, <1>4, CrashQ DEF QInv
<1>5. CASE \E c \in serving : Deliver(c) \/ ReplyToNobody(c)
  BY <1>1, <1>5, DeliverQ, NobodyQ DEF QInv
<1> QED BY <1>2, <1>3, <1>4, <1>5 DEF MasterStep

LEMMA SlaveStepQ ==
  ASSUME QInv, NEW w \in Slaves, SlaveStep(w) \/ Trouble(w)
  PROVE  QInv'
<1>1. IInv'
  BY SlaveStepInv DEF QInv
<1>2. CASE Ask(w)
  BY <1>1, <1>2, AskQ DEF QInv
<1>3. CASE LosePatience(w) \/ SlaveDies(w)
  BY <1>1, <1>3, HangUpQ DEF QInv
<1>4. CASE \/ AskAgain(w) \/ SlaveStarts(w) \/ Grab(w) \/ EndGrab(w) \/ Store(w)
           \/ StoreGivesUp(w)
  BY <1>1, <1>4, LocalSteady, SteadyQ DEF QInv
<1> QED BY <1>2, <1>3, <1>4 DEF SlaveStep, Trouble

-------------------------------------------------------------------------------
(* Reports of grabs.                                                       *)

\* The reports of w's grabs that wait for the master, by their places.
Bookable(w) ==
  {i \in DOMAIN queue : queue[i].slave = w /\ ReportsGrab(queue[i])}

\* w has a grab to report and no connection to report it on.
Unsent(w) ==
  /\ last_cmd_id[w] = M!M2S_URL
  /\ spc[w] = "ask" \/ (spc[w] = "wait" /\ ~Connected(w))

\* The times w's grabs can still be booked.
Reports(w) == Cardinality(Bookable(w)) + IF Unsent(w) THEN 1 ELSE 0

LEMMA ReportsType ==
  ASSUME IInv, NEW w
  PROVE  /\ IsFiniteSet(Bookable(w)) /\ Reports(w) \in Nat
         /\ Cardinality(Bookable(w)) \in Nat
         /\ Reports(w) = 0 <=> Bookable(w) = {} /\ ~Unsent(w)
<1>1. Bookable(w) \subseteq 1..Len(queue) /\ Len(queue) \in Nat
  BY QueueShape DEF Bookable, IInv
<1>2. IsFiniteSet(1..Len(queue))
  BY <1>1, FS_Interval
<1>3. IsFiniteSet(Bookable(w))
  BY <1>1, <1>2, FS_Subset
<1>4. Cardinality(Bookable(w)) \in Nat
      /\ (Cardinality(Bookable(w)) = 0 <=> Bookable(w) = {})
  BY <1>3, FS_CardinalityType, FS_EmptySet
<1> QED BY <1>3, <1>4 DEF Reports

\* The step leaves w nothing new to report.
NoNews(w) ==
  /\ Bookable(w)' = Bookable(w)
  /\ \A i \in Bookable(w) : queue'[i].req = queue[i].req
  /\ Unsent(w)' => Unsent(w)

LEMMA ReportsKept ==
  ASSUME QInv, NEW w, Bookable(w)' = Bookable(w)
  PROVE  /\ Reports(w)' \in Nat /\ Reports(w)' <= Reports(w) + 1
         /\ NoNews(w) => Reports(w)' <= Reports(w)
<1>1. Cardinality(Bookable(w)) \in Nat
  BY ReportsType DEF QInv
<1>2. Reports(w)' = Cardinality(Bookable(w)) + IF Unsent(w)' THEN 1 ELSE 0
  BY DEF Reports
<1> QED BY <1>1, <1>2 DEF Reports, NoNews

LEMMA ReportsLocal ==
  ASSUME QInv, NEW w \in Slaves, NEW v \in Slaves,
         \/ AskAgain(w) \/ SlaveStarts(w) \/ Grab(w) \/ EndGrab(w) \/ Store(w)
         \/ StoreGivesUp(w)
  PROVE  /\ Reports(v)' \in Nat /\ Reports(v)' <= Reports(v) + 1
         /\ ~(v = w /\ EndGrab(w)) => NoNews(v) /\ Reports(v)' <= Reports(v)
<1>1. Steady /\ UNCHANGED <<queue, serving>>
  BY LocalSteady
<1>2. Bookable(v)' = Bookable(v) /\ Connected(v)' = Connected(v)
  BY <1>1 DEF Bookable, Connected, ReportsGrab
<1>3. ~(v = w /\ EndGrab(w)) => (Unsent(v)' => Unsent(v))
  <2>0. /\ spc \in [Slaves -> {"down", "updated", "ask", "wait", "grab", "store",
                               "remove"}]
        /\ last_cmd_id \in [Slaves -> {-1, 0, 2, 4, 7}]
        /\ spc[w] \in {"down", "updated"} => last_cmd_id[w] = -1
        /\ spc[w] \in {"store", "remove"} => last_cmd_id[w] = 7
    BY SlaveFacts DEF QInv
  <2> SUFFICES ASSUME ~(v = w /\ EndGrab(w)), Unsent(v)'
               PROVE  Unsent(v)
    OBVIOUS
  <2> USE DEF Unsent, M!M2S_URL
  <2>1. last_cmd_id[v] = 4
    BY <1>1 DEF Steady
  <2>2. CASE AskAgain(w)
    BY <1>2, <2>0, <2>1, <2>2 DEF AskAgain, S!RequestFails, S!report
  <2>3. CASE SlaveStarts(w)
    BY <1>2, <2>0, <2>1, <2>3 DEF SlaveStarts, S!Start
  <2>4. CASE EndGrab(w)
    BY <1>2, <2>0, <2>1, <2>4 DEF EndGrab, S!EndGrab
  <2>5. CASE Store(w) \/ StoreGivesUp(w)
    <3>1. /\ spc[w] \in {"store", "remove"} /\ last_cmd_id'[w] = last_cmd_id[w]
          /\ \A x \in Slaves \ {w} : spc'[x] = spc[x]
      BY <2>0, <2>5 DEF Store, S!SendFile, S!RemoveFile, S!StoreDone, S!report,
                        StoreGivesUp, S!StoreGivesUp, S!StoreEnds
    <3> QED BY <1>2, <2>0, <2>1, <3>1
  <2>6. CASE Grab(w)
    <3>1. spc[w] = "grab"
          /\ (UNCHANGED spc \/ spc' = [spc EXCEPT ![w] = "down"])
      BY <2>6 DEF Grab, S!GrabStep, S!NameUnknown, S!NoAddress, S!Unreachable,
                  S!SavePage, S!NextUrl, S!End
    <3> QED BY <1>2, <2>0, <2>1, <3>1
  <2> QED BY <2>2, <2>3, <2>4, <2>5, <2>6
<1> QED BY <1>1, <1>2, <1>3, ReportsKept DEF NoNews

LEMMA ReportsAsk ==
  ASSUME QInv, NEW w \in Slaves, NEW v \in Slaves, Ask(w)
  PROVE  /\ Reports(v)' \in Nat /\ Reports(v)' <= Reports(v)
         /\ v # w => NoNews(v)
<1> DEFINE c == [slave |-> w, req |-> Request(w), open |-> TRUE]
           n == Len(queue)
<1>1. /\ DOMAIN queue' = 1..(n + 1) /\ DOMAIN queue = 1..n /\ n \in Nat
      /\ \A i \in DOMAIN queue : queue'[i] = queue[i]
      /\ queue'[n + 1] = c
      /\ Conns' = Conns \cup {c}
  BY AskQueue, QueueShape DEF QInv, IInv
<1>2. c.slave = w /\ c.req.last_cmd_id = last_cmd_id[w] /\ c.open
  BY DEF Request
<1>3. spc[w] = "ask" /\ spc' = [spc EXCEPT ![w] = "wait"]
      /\ UNCHANGED last_cmd_id
      /\ spc \in [Slaves -> {"down", "updated", "ask", "wait", "grab", "store",
                             "remove"}]
  BY SlaveFacts DEF QInv, Ask, S!SendRequest, S!report
<1> HIDE DEF c, n
<1>4. (Connected(v) => Connected(v)') /\ Connected(w)'
  BY <1>1, <1>2 DEF Connected, Conns
<1>5. \A i \in 1..(n + 1) : i \in 1..n \/ i = n + 1
  BY <1>1
<1>6. n + 1 \notin 1..n /\ n + 1 \in 1..(n + 1) /\ 1..n \subseteq 1..(n + 1)
  BY <1>1
<1>7. IsFiniteSet(Bookable(v)) /\ Cardinality(Bookable(v)) \in Nat
  BY ReportsType DEF QInv
<1>8. CASE v = w /\ last_cmd_id[w] = 4
  <2>1. Bookable(v)' = Bookable(v) \cup {n + 1} /\ n + 1 \notin Bookable(v)
    <3>1. ASSUME NEW i
          PROVE  i \in Bookable(v)' <=> i \in Bookable(v) \/ i = n + 1
      <4>1. CASE i \in 1..n
        BY <1>1, <1>6, <4>1 DEF Bookable, ReportsGrab
      <4>2. CASE i = n + 1
        BY <1>1, <1>2, <1>6, <1>8, <4>2 DEF Bookable, ReportsGrab, M!M2S_URL
      <4>3. CASE i \notin 1..n /\ i # n + 1
        BY <1>1, <1>5, <4>3 DEF Bookable
      <4> QED BY <4>1, <4>2, <4>3
    <3>2. n + 1 \notin Bookable(v)
      BY <1>1, <1>6 DEF Bookable
    <3> HIDE DEF Bookable
    <3> QED BY <3>1, <3>2
  <2>2. Cardinality(Bookable(v)') = Cardinality(Bookable(v)) + 1
    BY <1>7, <2>1, FS_AddElement
  <2>3. Unsent(v) /\ ~Unsent(v)'
    BY <1>3, <1>4, <1>8 DEF Unsent, M!M2S_URL
  <2> QED BY <1>7, <1>8, <2>2, <2>3 DEF Reports
<1>9. CASE ~(v = w /\ last_cmd_id[w] = 4)
  <2>1. Bookable(v)' = Bookable(v)
    BY <1>1, <1>2, <1>5, <1>6, <1>9 DEF Bookable, ReportsGrab, M!M2S_URL
  <2>2. Unsent(v)' => Unsent(v)
    BY <1>3, <1>4, <1>9 DEF Unsent, M!M2S_URL
  <2>3. \A i \in Bookable(v) : queue'[i] = queue[i]
    BY <1>1 DEF Bookable
  <2>4. NoNews(v)
    BY <2>1, <2>2, <2>3 DEF NoNews
  <2> QED BY <2>1, <2>4, ReportsKept
<1> QED BY <1>8, <1>9

LEMMA ReportsAccept ==
  ASSUME QInv, NEW v \in Slaves, MasterAccepts, pc = "accept"
  PROVE  /\ Reports(v)' \in Nat
         /\ Reports(v)' =
              IF Head(queue).slave = v /\ ReportsGrab(Head(queue))
                THEN Reports(v) - 1 ELSE Reports(v)
         /\ Reports(v)' = 0 => Bookable(v)' = {} /\ ~Unsent(v)'
         /\ Unsent(v)' = Unsent(v)
         /\ \A j \in Bookable(v)' : \E i \in Bookable(v) : queue'[j] = queue[i]
<1> DEFINE n == Len(queue)
           B == Bookable(v) \ {1}
           C == Bookable(v)'
           f == [i \in B |-> i - 1]
<1>1. /\ n \in Nat \ {0} /\ Head(queue) = queue[1]
      /\ DOMAIN queue' = 1..(n - 1) /\ DOMAIN queue = 1..n
      /\ \A i \in DOMAIN queue' : queue'[i] = queue[i + 1]
      /\ Conns' = Conns
  BY TailQueue, QueueShape DEF QInv, IInv, ServesOne
<1>2. Unsent(v)' = Unsent(v)
  <2>1. Connected(v)' = Connected(v)
    BY <1>1 DEF Connected, Conns
  <2>2. UNCHANGED <<spc, last_cmd_id>>
    BY DEF MasterAccepts, slaveOnly
  <2> QED BY <2>1, <2>2 DEF Unsent
<1> HIDE DEF n
<1>3. IsFiniteSet(Bookable(v)) /\ Cardinality(Bookable(v)) \in Nat
  BY ReportsType DEF QInv
<1>4. \A i \in Bookable(v) : i \in 1..n
  BY <1>1 DEF Bookable
<1>5. \A i \in B : i \in 2..n /\ i - 1 \in 1..(n - 1) /\ (i - 1) + 1 = i
  BY <1>1, <1>4
<1>6. \A j \in C : j \in 1..(n - 1) /\ j + 1 \in Bookable(v) /\ j + 1 # 1
                   /\ (j + 1) - 1 = j
  <2>1. \A j \in 1..(n - 1) : j + 1 \in 1..n /\ j + 1 # 1 /\ (j + 1) - 1 = j
    BY <1>1
  <2> QED BY <1>1, <2>1 DEF Bookable, ReportsGrab
<1>7. \A j \in C : queue'[j] = queue[j + 1]
  BY <1>1 DEF Bookable
<1>8. \A i \in B : i - 1 \in C
  BY <1>1, <1>5 DEF Bookable, ReportsGrab
<1>9. \A i, j \in B : i - 1 = j - 1 => i = j
  BY <1>5
<1> HIDE DEF B, C
<1>10. f \in Bijection(B, C)
  <2>1. f \in [B -> C]
    BY <1>8
  <2>2. \A i, j \in B : f[i] = f[j] => i = j
    BY <1>9
  <2>3. \A j \in C : \E i \in B : f[i] = j
    BY <1>6 DEF B
  <2> QED BY <2>1, <2>2, <2>3 DEF Bijection, Injection, Surjection, IsInjective
<1>11. IsFiniteSet(B) /\ Cardinality(B) = IF 1 \in Bookable(v)
                                  THEN Cardinality(Bookable(v)) - 1
                                  ELSE Cardinality(Bookable(v))
  BY <1>3, FS_RemoveElement DEF B
<1>12. Cardinality(C) = Cardinality(B) /\ Cardinality(B) \in Nat
  BY <1>10, <1>11, FS_Bijection, FS_CardinalityType DEF ExistsBijection
<1>13. 1 \in Bookable(v) <=> Head(queue).slave = v /\ ReportsGrab(Head(queue))
  BY <1>1 DEF Bookable
<1>14. Reports(v)' = Cardinality(C) + IF Unsent(v) THEN 1 ELSE 0
  BY <1>2 DEF Reports, C
<1>15. \A j \in Bookable(v)' : \E i \in Bookable(v) : queue'[j] = queue[i]
  BY <1>6, <1>7 DEF C
<1>16. Cardinality(C) = 0 <=> Bookable(v)' = {}
  BY <1>10, <1>11, FS_Bijection, FS_EmptySet DEF ExistsBijection, C
<1> QED
  BY <1>2, <1>3, <1>11, <1>12, <1>13, <1>14, <1>15, <1>16 DEF Reports

\* A request that reports no grab leaves no report of its slave behind.
LEMMA NoReports ==
  ASSUME QInv, NEW v \in Slaves, queue # <<>>, Head(queue).slave = v,
         ~ReportsGrab(Head(queue))
  PROVE  Reports(v) = 0
<1>1. /\ Len(queue) \in Nat /\ DOMAIN queue = 1..Len(queue)
      /\ Len(queue) # 0 /\ Head(queue) = queue[1]
  BY QueueShape, EmptySeq, HeadTailProperties DEF QInv, IInv, ConnsOK
<1>2. 1 \in DOMAIN queue /\ \A i \in DOMAIN queue : i = 1 \/ 1 < i
  BY <1>1
<1>3. Bookable(v) = {}
  BY <1>1, <1>2 DEF QInv, LineOK, Bookable
<1>4. ~Unsent(v)
  BY <1>1, <1>2 DEF QInv, LineOK, Unsent
<1> QED BY <1>3, <1>4, ReportsType DEF QInv

LEMMA ReportsHangUp ==
  ASSUME QInv, NEW w \in Slaves, NEW v \in Slaves, LosePatience(w) \/ SlaveDies(w)
  PROVE  /\ Reports(v)' \in Nat /\ Reports(v)' <= Reports(v) + 1
         /\ ~(v = w /\ LosePatience(w)) => NoNews(v) /\ Reports(v)' <= Reports(v)
<1>0. IInv /\ ConnsOK
  BY DEF QInv, IInv
<1>1. HangUp(w)
  BY DEF LosePatience, SlaveDies
<1>2. /\ DOMAIN queue' = DOMAIN queue
      /\ \A i \in DOMAIN queue : queue'[i] = Shut(w, queue[i])
      /\ Conns' = {Shut(w, c) : c \in Conns}
  BY <1>0, <1>1, HangUpQueue
<1>3. \A c \in Conns : c \in Sound
  BY <1>0 DEF ConnsOK, Conns
<1>4. \A i \in DOMAIN queue : queue[i] \in Conns
  BY DEF Conns
<1>5. Bookable(v)' = Bookable(v)
  BY <1>2, <1>3, <1>4, ShutConn DEF Bookable, ReportsGrab
<1>6. v # w => (Connected(v) => Connected(v)')
  <2> SUFFICES ASSUME v # w, NEW c \in Conns, c.slave = v, c.open
               PROVE  Connected(v)'
    BY DEF Connected, Conns
  <2>1. Shut(w, c) = c /\ Shut(w, c) \in Conns'
    BY <1>2, <1>3, ShutConn
  <2> QED BY <2>1 DEF Connected, Conns
<1>7. ~(v = w /\ LosePatience(w)) => (Unsent(v)' => Unsent(v))
  <2>1. CASE LosePatience(w)
    BY <1>0, <1>6, <2>1, SlaveFacts
       DEF LosePatience, S!RequestFails, S!report, Unsent
  <2>2. CASE SlaveDies(w)
    BY <1>0, <1>6, <2>2, SlaveFacts
       DEF SlaveDies, S!SlaveCrash, S!End, Unsent, M!M2S_URL
  <2> QED BY <2>1, <2>2
<1>8. \A i \in Bookable(v) : queue'[i].req = queue[i].req
  BY <1>2, <1>3, <1>4, ShutConn DEF Bookable
<1> QED BY <1>5, <1>7, <1>8, ReportsKept DEF NoNews

LEMMA ReportsDeliver ==
  ASSUME QInv, NEW c, Deliver(c), NEW v \in Slaves
  PROVE  /\ NoNews(v) /\ Reports(v)' \in Nat /\ Reports(v)' <= Reports(v)
         /\ v = c.slave => Reports(v)' = 0
<1> DEFINE w == c.slave
<1>1. IInv /\ c \in serving /\ c.open /\ UNCHANGED queue /\ serving' = {}
      /\ w \in Slaves
  BY DEF QInv, Deliver, IInv, ConnsOK, Sound, Conn
<1>2. S!HandTask(w, response.commd_id, response.urls)
  BY DEF Deliver
<1>3. Bookable(v)' = Bookable(v)
  BY <1>1 DEF Bookable, ReportsGrab
<1>4. Unsent(v)' => v # w /\ Unsent(v)
  <2>1. CASE v = w
    <3>1. last_cmd_id'[w] = 4 => spc'[w] = "grab"
      BY <1>1, <1>2, HandTaskFacts
    <3> QED BY <2>1, <3>1 DEF Unsent, M!M2S_URL
  <2>2. CASE v # w
    <3>1. UNCHANGED <<spc[v], last_cmd_id[v]>>
      BY <1>1, <1>2, <2>2, HandTaskFacts
    <3>2. Connected(v) => Connected(v)'
      BY <1>1, <2>2 DEF Connected, QInv, ServesOne
    <3> QED BY <2>2, <3>1, <3>2 DEF Unsent
  <2> QED BY <2>1, <2>2
<1>5. v = w => Bookable(v) = {}
  BY <1>1 DEF QInv, ServesOne, Bookable
<1>6. v = w => Reports(v)' = 0
  BY <1>3, <1>4, <1>5, FS_EmptySet DEF Reports
<1> QED BY <1>1, <1>3, <1>4, <1>6, ReportsKept DEF NoNews

\* Steps of the master that leave the slaves and what waits alone.
LEMMA ReportsUnseen ==
  ASSUME QInv, NEW v \in Slaves, UNCHANGED <<slaveOnly, queue>>,
         UNCHANGED serving \/ \E c \in serving : ReplyToNobody(c)
  PROVE  NoNews(v) /\ Reports(v)' \in Nat /\ Reports(v)' <= Reports(v)
<1>1. Bookable(v)' = Bookable(v)
  BY DEF Bookable, ReportsGrab
<1>2. Connected(v) => Connected(v)'
  BY DEF Connected, ReplyToNobody, QInv, ServesOne
<1>3. Unsent(v)' => Unsent(v)
  BY <1>2 DEF Unsent, slaveOnly
<1> QED BY <1>1, <1>3, ReportsKept DEF NoNews

LEMMA ReportsCrash ==
  ASSUME QInv, NEW v \in Slaves, MasterCrash
  PROVE  Reports(v)' \in {0, 1}
<1>1. queue' = <<>>
  BY DEF MasterCrash
<1>2. Bookable(v)' = {}
  BY <1>1 DEF Bookable
<1>3. Cardinality(Bookable(v)') = 0
  BY <1>2, FS_EmptySet
<1> QED BY <1>3 DEF Reports

-------------------------------------------------------------------------------
(* What the database counts too much.                                      *)

SiteOf(w) == slave_map[w].last_task_site

\* The outcomes of w that can still be added to its rows.  While no site is
\* assigned the master books none: one of them is lost before the next site.
Owed(w) ==
  IF SiteOf(w) = M!NoSite /\ Reports(w) > 0 THEN Reports(w) - 1 ELSE Reports(w)

CountFor(w) ==
  /\ IsFiniteSet(Counted(db[w])) /\ IsFiniteSet(Counted(grabs[w]))
  /\ Cardinality(Counted(db[w])) + Owed(w)
       <= Cardinality(Counted(grabs[w])) + faults

CountOK ==
  /\ grabs \in [Slaves -> Tables] /\ faults \in Nat
  /\ \A w \in Slaves : CountFor(w)

LEMMA DbType == ASSUME IInv PROVE db \in [Slaves -> Tables]
BY DEF IInv, MP!IInv, MP!TypeOK, Tables

LEMMA CountTypes ==
  ASSUME QInv, CountOK, NEW w \in Slaves
  PROVE  /\ Cardinality(Counted(db[w])) \in Nat
         /\ Cardinality(Counted(grabs[w])) \in Nat
         /\ Reports(w) \in Nat /\ faults \in Nat
BY FS_CardinalityType, ReportsType DEF CountOK, CountFor, QInv

\* Nothing is booked for w, and a new report of its grab is paid for.
LEMMA CountKept ==
  ASSUME QInv, CountOK, NEW w \in Slaves,
         UNCHANGED <<db[w], grabs[w], SiteOf(w)>>, Reports(w)' \in Nat,
         \/ Reports(w)' <= Reports(w) /\ faults' \in {faults, faults + 1}
         \/ Reports(w)' <= Reports(w) + 1 /\ faults' = faults + 1
  PROVE  CountFor(w)'
<1>1. Owed(w)' <= Owed(w) + (faults' - faults)
  BY CountTypes DEF Owed
<1>2. Owed(w) \in Nat /\ Owed(w)' \in Nat
  BY CountTypes DEF Owed
<1> QED BY <1>1, <1>2, CountTypes DEF CountOK, CountFor

LEMMA TallyFacts ==
  ASSUME IInv, NEW r, r.slave_id \in Slaves, db' = M!TallyDb(r)
  PROVE  LET id == r.slave_id
         IN /\ \A w \in Slaves \ {id} : db'[w] = db[w]
            /\ IF r.last_cmd_id = M!M2S_URL /\ SiteOf(id) # M!NoSite
                 THEN /\ SiteOf(id) \in Sites
                      /\ OneMore(db[id], db'[id], SiteOf(id),
                                 r.last_task_status # 0)
                 ELSE db'[id] = db[id]
<1> DEFINE id == r.slave_id
<1>1. db \in [Slaves -> Tables]
  BY DbType
<1>2. SiteOf(id) \in Sites \cup {M!NoSite}
  BY DEF IInv, MP!IInv, MP!TypeOK, MP!SlaveStatus, SiteOf, MP!NoSite, M!NoSite
<1>3. CASE r.last_cmd_id # M!M2S_URL \/ SiteOf(id) = M!NoSite
  BY <1>3 DEF M!TallyDb, SiteOf
<1>4. CASE ~(r.last_cmd_id # M!M2S_URL \/ SiteOf(id) = M!NoSite)
  <2> DEFINE s == SiteOf(id)
  <2>1. s \in Sites /\ id \in Slaves
    BY <1>2, <1>4
  <2>2. db[id] \in Tables /\ db[id][s].sucess \in Nat /\ db[id][s].failed \in Nat
    BY <1>1, <2>1 DEF Tables
  <2>3. db' = IF r.last_task_status # 0
                THEN [db EXCEPT ![id][s].sucess = @ + 1]
                ELSE [db EXCEPT ![id][s].failed = @ + 1]
    BY <1>4 DEF M!TallyDb, SiteOf
  <2> HIDE DEF id, s
  <2>4. /\ \A w \in Slaves \ {id} : db'[w] = db[w]
        /\ db'[id] = IF r.last_task_status # 0
                       THEN [db[id] EXCEPT ![s].sucess = @ + 1]
                       ELSE [db[id] EXCEPT ![s].failed = @ + 1]
    BY <1>1, <2>1, <2>3
  <2>5. OneMore(db[id], db'[id], s, r.last_task_status # 0)
    <3>1. db[id] \in [Sites -> [sucess : Nat, failed : Nat]]
          /\ db[id][s] \in [sucess : Nat, failed : Nat]
      BY <2>1, <2>2 DEF Tables
    <3>2. /\ \A p \in Sites \ {s} : db'[id][p] = db[id][p]
          /\ db'[id][s] = IF r.last_task_status # 0
                            THEN [db[id][s] EXCEPT !.sucess = @ + 1]
                            ELSE [db[id][s] EXCEPT !.failed = @ + 1]
      BY <2>1, <2>4, <3>1
    <3> QED BY <3>1, <3>2 DEF OneMore
  <2> QED BY <1>4, <2>1, <2>4, <2>5 DEF id, s
<1> QED BY <1>3, <1>4

\* The master books an outcome on a request, the first of those that wait or
\* not.
LEMMA CountServe ==
  ASSUME QInv, QInv', CountOK, Serve \/ ServeLate, NEW w \in Slaves
  PROVE  CountFor(w)'
<1> DEFINE h == Head(queue)
<1>0. IInv
  BY DEF QInv
<1>1. /\ MasterAccepts /\ M!Accept
      /\ faults' \in {faults, faults + 1} /\ (Serve => faults' = faults)
  BY <1>0, AcceptHandles
<1>2. PICK r : /\ MP!ValidRequest(r) /\ M!HandRequest(r)
               /\ \/ r = Head(queue).req
                  \/ r = M!Tail(Head(queue).req) /\ faults' = faults + 1
                  \/ r.commd_id # M!S2M_REQUEST /\ faults' = faults + 1
                  \/ r = buff /\ faults' = faults + 1
  BY <1>0, AcceptHandles
<1>3. /\ grabs' = grabs /\ pc = "accept" /\ queue # <<>>
      /\ h \in Sound
  BY <1>0, <1>1, HeadTailProperties DEF MasterAccepts, M!Accept, IInv, ConnsOK
<1>4. /\ h.req.slave_id = h.slave /\ h.req.commd_id = M!S2M_REQUEST
      /\ h.slave \in Slaves
  BY <1>3 DEF Sound, Conn
<1>5. /\ Reports(w)' \in Nat
      /\ Reports(w)' = IF h.slave = w /\ ReportsGrab(h)
                         THEN Reports(w) - 1 ELSE Reports(w)
  BY <1>1, <1>3, ReportsAccept
<1>6. h.slave = w /\ ~ReportsGrab(h) => Reports(w) = 0
  BY <1>3, NoReports
<1>7. /\ Cardinality(Counted(db[w])) \in Nat
      /\ Cardinality(Counted(grabs[w])) \in Nat
      /\ Reports(w) \in Nat /\ faults \in Nat
      /\ IsFiniteSet(Counted(db[w])) /\ IsFiniteSet(Counted(grabs[w]))
      /\ Cardinality(Counted(db[w])) + Owed(w)
           <= Cardinality(Counted(grabs[w])) + faults
  BY CountTypes DEF CountOK, CountFor
<1>8. CASE db'[w] = db[w] /\ SiteOf(w)' = SiteOf(w)
  BY <1>1, <1>3, <1>5, <1>7, <1>8, CountKept
<1>9. CASE r.commd_id # M!S2M_REQUEST
  <2>1. UNCHANGED <<db, slave_map>>
    BY <1>0, <1>2, <1>9, HandlesFacts
  <2> QED BY <1>8, <2>1 DEF SiteOf
<1>10. CASE r.commd_id = M!S2M_REQUEST /\ r.slave_id # w
  <2>1. r.slave_id \in Slaves /\ db' = M!TallyDb(r) /\ slave_map'[w] = slave_map[w]
    BY <1>0, <1>2, <1>10, HandlesFacts
  <2>2. db'[w] = db[w]
    BY <1>0, <1>10, <2>1, TallyFacts
  <2> QED BY <1>8, <2>1, <2>2 DEF SiteOf
<1>11. CASE r.commd_id = M!S2M_REQUEST /\ r.slave_id = w
  <2> DEFINE booked == r.last_cmd_id = M!M2S_URL /\ SiteOf(w) # M!NoSite
  <2>1. db' = M!TallyDb(r)
    BY <1>0, <1>2, <1>11, HandlesFacts
  <2>2. /\ booked => SiteOf(w) \in Sites
                     /\ OneMore(db[w], db'[w], SiteOf(w), r.last_task_status # 0)
        /\ ~booked => db'[w] = db[w]
    BY <1>0, <1>11, <2>1, TallyFacts
  <2>3. db[w] \in Tables /\ db'[w] \in Tables
    BY <1>0, DbType DEF QInv, IInv, MP!IInv, MP!TypeOK, Tables
  <2>4. /\ IsFiniteSet(Counted(db'[w]))
        /\ Cardinality(Counted(db'[w])) =
             Cardinality(Counted(db[w])) + IF booked THEN 1 ELSE 0
    <3>1. CASE booked
      <4>1. (r.last_task_status # 0) \in BOOLEAN
        OBVIOUS
      <4> QED BY <1>7, <2>2, <2>3, <3>1, <4>1, OneMoreCounted
    <3>2. CASE ~booked
      BY <1>7, <2>2, <3>2
    <3> QED BY <3>1, <3>2
  <2>5. Owed(w)' <= Reports(w)' /\ Owed(w)' \in Nat /\ Owed(w) \in Nat
    BY <1>5, <1>7 DEF Owed
  <2>6. Owed(w)' + (IF booked THEN 1 ELSE 0) <= Owed(w) + (faults' - faults)
    <3>1. CASE faults' = faults
      <4>1. r = h.req /\ h.slave = w
        BY <1>2, <1>4, <1>7, <1>11, <3>1
      <4>2. booked <=> ReportsGrab(h) /\ SiteOf(w) # M!NoSite
        BY <4>1 DEF ReportsGrab
      <4> HIDE DEF booked, h
      <4> QED BY <1>5, <1>6, <1>7, <2>5, <3>1, <4>1, <4>2 DEF Owed
    <3>2. CASE faults' = faults + 1
      <4>1. CASE booked
        BY <1>5, <1>7, <2>5, <3>2, <4>1 DEF Owed
      <4>2. CASE ~booked
        BY <1>5, <1>7, <2>5, <3>2, <4>2 DEF Owed
      <4> QED BY <4>1, <4>2
    <3> QED BY <1>1, <3>1, <3>2
  <2>7. faults' \in Nat
    BY <1>1, <1>7
  <2> HIDE DEF booked
  <2> QED BY <1>3, <1>7, <2>4, <2>5, <2>6, <2>7, SMTT(30) DEF CountFor
<1> QED BY <1>9, <1>10, <1>11

\* A slave ends a grab and has one outcome more to report.
LEMMA EndGrabFacts ==
  ASSUME IInv, grabs \in [Slaves -> Tables], NEW w \in Slaves, EndGrab(w)
  PROVE  \E s \in Sites :
           /\ \A u \in task[w] : u[1] = s
           /\ OneMore(grabs[w], grabs'[w], s, last_task_status[w] = 1)
           /\ grabs'[w] \in Tables
           /\ \A v \in Slaves \ {w} : grabs'[v] = grabs[v]
           /\ grabs' \in [Slaves -> Tables]
<1>1. PICK s \in Sites :
        /\ \A u \in task[w] : u[1] = s
        /\ grabs' = IF last_task_status[w] = 1
                      THEN [grabs EXCEPT ![w][s].sucess = @ + 1]
                      ELSE [grabs EXCEPT ![w][s].failed = @ + 1]
  BY DEF EndGrab
<1>2. /\ grabs[w] \in [Sites -> [sucess : Nat, failed : Nat]]
      /\ grabs[w][s] \in [sucess : Nat, failed : Nat]
  BY DEF Tables
<1> DEFINE x == IF last_task_status[w] = 1
                  THEN [grabs[w][s] EXCEPT !.sucess = @ + 1]
                  ELSE [grabs[w][s] EXCEPT !.failed = @ + 1]
<1>3. x \in [sucess : Nat, failed : Nat]
  BY <1>2
<1>4. /\ \A v \in Slaves \ {w} : grabs'[v] = grabs[v]
      /\ grabs'[w][s] = x
      /\ \A p \in Sites \ {s} : grabs'[w][p] = grabs[w][p]
      /\ grabs' \in [Slaves -> [Sites -> [sucess : Nat, failed : Nat]]]
  BY <1>1, <1>2, <1>3 DEF Tables
<1>5. OneMore(grabs[w], grabs'[w], s, last_task_status[w] = 1)
  BY <1>2, <1>4 DEF OneMore
<1> HIDE DEF x
<1>6. grabs'[w] \in Tables /\ grabs' \in [Slaves -> Tables]
  BY <1>4 DEF Tables
<1> QED BY <1>1, <1>4, <1>5, <1>6

LEMMA CountInit == Init => CountOK
<1> SUFFICES ASSUME Init PROVE CountOK
  OBVIOUS
<1>1. grabs \in [Slaves -> Tables] /\ faults \in Nat
  BY DEF Init, Tables
<1>2. ASSUME NEW w \in Slaves PROVE CountFor(w)
  <2>1. Counted(db[w]) = {} /\ Counted(grabs[w]) = {}
    BY NothingCounted DEF Init, M!Init
  <2>2. QInv
    BY InitInv, InitQ DEF QInv
  <2>3. Bookable(w) = {} /\ ~Unsent(w)
    BY DEF Init, S!Init, Bookable, Unsent
  <2>4. Reports(w) = 0
    BY <2>2, <2>3, ReportsType DEF QInv
  <2> QED BY <1>1, <2>1, <2>4, FS_EmptySet DEF CountFor, Owed
<1> QED BY <1>1, <1>2 DEF CountOK

LEMMA CountSlave ==
  ASSUME QInv, CountOK, NEW w \in Slaves, SlaveStep(w) \/ Trouble(w)
  PROVE  CountOK'
<1>0. UNCHANGED masterVars
  BY DEF SlaveStep, Trouble, Ask, AskAgain, SlaveStarts, Grab, EndGrab, Store,
         LosePatience, SlaveDies, StoreGivesUp
<1>1. \A v : UNCHANGED <<db[v], SiteOf(v)>>
  BY <1>0 DEF masterVars, SiteOf
<1>2. faults \in Nat /\ grabs \in [Slaves -> Tables]
  BY DEF CountOK
<1>3. CASE EndGrab(w)
  <2>1. PICK s \in Sites :
           /\ OneMore(grabs[w], grabs'[w], s, last_task_status[w] = 1)
           /\ grabs'[w] \in Tables
           /\ \A v \in Slaves \ {w} : grabs'[v] = grabs[v]
           /\ grabs' \in [Slaves -> Tables]
    BY <1>2, <1>3, EndGrabFacts DEF QInv
  <2>2. faults' = faults
    BY <1>3 DEF EndGrab
  <2>3. ASSUME NEW v \in Slaves, v # w PROVE CountFor(v)'
    BY <1>1, <1>2, <1>3, <2>1, <2>2, <2>3, ReportsLocal, CountKept
  <2>4. CountFor(w)'
    <3>1. /\ IsFiniteSet(Counted(grabs'[w]))
          /\ Cardinality(Counted(grabs'[w]))
               = Cardinality(Counted(grabs[w])) + 1
      <4>1. grabs[w] \in Tables /\ IsFiniteSet(Counted(grabs[w]))
            /\ (last_task_status[w] = 1) \in BOOLEAN
        BY <1>2 DEF CountOK, CountFor
      <4> QED BY <2>1, <4>1, OneMoreCounted
    <3>2. Reports(w)' \in Nat /\ Reports(w)' <= Reports(w) + 1
      BY <1>3, ReportsLocal
    <3>3. Owed(w)' <= Owed(w) + 1 /\ Owed(w)' \in Nat /\ Owed(w) \in Nat
      BY <1>1, <3>2, CountTypes DEF Owed
    <3>4. /\ IsFiniteSet(Counted(db[w]))
          /\ Cardinality(Counted(db[w])) + Owed(w)
               <= Cardinality(Counted(grabs[w])) + faults
      BY DEF CountOK, CountFor
    <3>5. /\ Cardinality(Counted(db[w])) \in Nat
          /\ Cardinality(Counted(grabs[w])) \in Nat
      BY CountTypes
    <3> QED BY <1>1, <1>2, <2>2, <3>1, <3>3, <3>4, <3>5 DEF CountFor
  <2> QED BY <1>2, <2>1, <2>2, <2>3, <2>4 DEF CountOK
<1>4. CASE ~EndGrab(w)
  <2>1. grabs' = grabs /\ faults' \in {faults, faults + 1}
    BY <1>4
       DEF SlaveStep, Trouble, Ask, AskAgain, SlaveStarts, Grab, Store,
           LosePatience, SlaveDies, StoreGivesUp, Fault
  <2>2. ASSUME NEW v \in Slaves
        PROVE  /\ Reports(v)' \in Nat
               /\ \/ Reports(v)' <= Reports(v)
                  \/ Reports(v)' <= Reports(v) + 1 /\ faults' = faults + 1
    <3>1. CASE Ask(w)
      BY <3>1, ReportsAsk
    <3>2. CASE LosePatience(w)
      BY <3>2, ReportsHangUp DEF LosePatience, Fault
    <3>3. CASE SlaveDies(w)
      <4>1. ~LosePatience(w) \/ faults' = faults + 1
        BY DEF LosePatience, Fault
      <4> QED BY <3>3, <4>1, ReportsHangUp
    <3>4. CASE \/ AskAgain(w) \/ SlaveStarts(w) \/ Grab(w) \/ Store(w)
               \/ StoreGivesUp(w)
      BY <1>4, <3>4, ReportsLocal
    <3> QED BY <1>4, <3>1, <3>2, <3>3, <3>4 DEF SlaveStep, Trouble
  <2>3. ASSUME NEW v \in Slaves PROVE CountFor(v)'
    BY <1>1, <2>1, <2>2, CountKept
  <2> QED BY <1>2, <2>1, <2>3 DEF CountOK
<1> QED BY <1>3, <1>4

LEMMA CountMaster ==
  ASSUME QInv, CountOK, MasterStep \/ ServeLate \/ MasterCrash
  PROVE  CountOK'
<1>0. QInv' /\ IInv
  BY MasterStepQ DEF QInv
<1>1. grabs' = grabs /\ faults' \in {faults, faults + 1}
  BY DEF MasterStep, Serve, ServeLate, MasterCrash, MasterSaves, MasterRestart,
         Deliver, ReplyToNobody, MasterAccepts, Fault
<1>2. faults \in Nat /\ grabs \in [Slaves -> Tables]
  BY DEF CountOK
<1>3. ASSUME NEW w \in Slaves PROVE CountFor(w)'
  <2>1. CASE Serve \/ ServeLate
    BY <1>0, <2>1, CountServe
  <2>2. CASE MasterSaves \/ MasterRestart
    <3>1. UNCHANGED <<slaveOnly, queue, serving, db, slave_map>>
      BY <2>2 DEF MasterSaves, MasterRestart, M!TruncateConf, M!SaveConf,
                  M!Restart, M!mem
    <3>2. Reports(w)' \in Nat /\ Reports(w)' <= Reports(w)
      BY <3>1, ReportsUnseen
    <3> QED BY <1>1, <3>1, <3>2, CountKept DEF SiteOf
  <2>3. ASSUME NEW c \in serving, Deliver(c)
        PROVE  CountFor(w)'
    <3>1. UNCHANGED <<db, slave_map>>
      BY <2>3 DEF Deliver, M!Reply, M!mem
    <3>2. Reports(w)' \in Nat /\ Reports(w)' <= Reports(w)
      BY <2>3, ReportsDeliver
    <3> QED BY <1>1, <3>1, <3>2, CountKept DEF SiteOf
  <2>4. ASSUME NEW c \in serving, ReplyToNobody(c)
        PROVE  CountFor(w)'
    <3>1. UNCHANGED <<slaveOnly, queue, db, slave_map>>
      BY <2>4 DEF ReplyToNobody, M!Reply, M!mem
    <3>2. Reports(w)' \in Nat /\ Reports(w)' <= Reports(w)
      BY <2>4, <3>1, ReportsUnseen
    <3> QED BY <1>1, <3>1, <3>2, CountKept DEF SiteOf
  <2>5. CASE MasterCrash
    <3>1. SiteOf(w)' = M!NoSite /\ db' = db /\ faults' = faults
      BY <2>5 DEF MasterCrash, M!Crash, M!NoSlave, SiteOf
    <3>2. Reports(w)' \in {0, 1}
      BY <2>5, ReportsCrash
    <3>3. Owed(w)' = 0 /\ Owed(w) \in Nat
      BY <3>1, <3>2, CountTypes DEF Owed
    <3> QED BY <1>1, <3>1, <3>3, CountTypes DEF CountOK, CountFor
  <2> QED BY <2>1, <2>2, <2>3, <2>4, <2>5 DEF MasterStep
<1> QED BY <1>1, <1>2, <1>3 DEF CountOK

LEMMA CountInvariance == Spec => [](QInv /\ CountOK)
<1>1. Init => QInv /\ CountOK
  BY InitInv, InitQ, CountInit DEF QInv
<1>2. ASSUME QInv, CountOK, Next PROVE QInv' /\ CountOK'
  BY <1>2, MasterStepQ, SlaveStepQ, CountMaster, CountSlave DEF Next
<1>3. ASSUME QInv, CountOK, UNCHANGED vars, IInv' PROVE QInv' /\ CountOK'
  <2>1. UNCHANGED <<pc, queue, serving, spc, last_cmd_id, last_task_status,
                    slave_map, db, grabs, faults>>
    BY <1>3 DEF vars, masterVars, slaveOnly
  <2>2. QInv'
    BY <1>3, <2>1 DEF QInv, ServesOne, LineOK, Conns, ReportsGrab
  <2>3. \A w : Reports(w)' = Reports(w) /\ SiteOf(w)' = SiteOf(w)
    BY <2>1 DEF Reports, Bookable, Unsent, Connected, ReportsGrab, SiteOf
  <2>4. CountOK'
    BY <1>3, <2>1, <2>3 DEF CountOK, CountFor, Owed
  <2> QED BY <2>2, <2>4
<1> QED BY <1>1, <1>2, <1>3, Invariance, PTL DEF Spec

\* Each delay or loss adds one outcome at most to what worker_site_tb counts,
\* through crashes of the master and of slaves, whatever else is sent again.
THEOREM OverCountIsBounded == Spec => []OverCountBounded
<1>1. QInv /\ CountOK => OverCountBounded
  <2> SUFFICES ASSUME QInv, CountOK, NEW w \in Slaves
               PROVE  Cardinality(Counted(db[w]))
                        <= Cardinality(Counted(grabs[w])) + faults
    BY DEF OverCountBounded
  <2>1. Owed(w) \in Nat
    BY CountTypes DEF Owed
  <2> QED BY <2>1, CountTypes DEF CountOK, CountFor
<1> QED BY <1>1, CountInvariance, PTL

-------------------------------------------------------------------------------
(* Without delays and losses.                                              *)

\* Of the outcomes of w on its site there is one that is not booked yet.
Room(w, good) ==
  LET s == SiteOf(w)
  IN s # M!NoSite => IF good THEN db[w][s].sucess < grabs[w][s].sucess
                     ELSE db[w][s].failed < grabs[w][s].failed

\* A batch of the site assigned to w last, if the master still knows it.
OnSite(w, batch) ==
  batch # {} /\ (SiteOf(w) # M!NoSite => \A u \in batch : u[1] = SiteOf(w))

\* Of a slave's last grab there is one report at most, and it is of the site
\* assigned last.
SiteFor(w) ==
  /\ Reports(w) <= 1
  /\ \A i \in Bookable(w) : Room(w, queue[i].req.last_task_status # 0)
  /\ Unsent(w) => Room(w, last_task_status[w] # 0)
  /\ spc[w] = "grab" => OnSite(w, task[w])
  /\ \A s \in Sites : /\ db[w][s].sucess <= grabs[w][s].sucess
                      /\ db[w][s].failed <= grabs[w][s].failed

ReplyFor(c) ==
  c.open /\ response.commd_id = M!M2S_URL => OnSite(c.slave, response.urls)

SiteOK ==
  faults = 0 => /\ \A w \in Slaves : SiteFor(w)
                /\ \A c \in serving : ReplyFor(c)

SInv == QInv /\ CountOK /\ SiteOK


LEMMA SiteKept ==
  ASSUME NEW w, SiteFor(w), NoNews(w), Reports(w)' \in Nat, Reports(w) \in Nat,
         Reports(w)' <= Reports(w),
         UNCHANGED <<db[w], grabs[w], SiteOf(w)>>,
         Unsent(w) /\ Unsent(w)' => last_task_status'[w] = last_task_status[w],
         spc'[w] = "grab" => spc[w] = "grab" /\ task'[w] = task[w]
  PROVE  SiteFor(w)'
<1>1. \A good : Room(w, good)' = Room(w, good)
  BY DEF Room
<1>2. \A batch : OnSite(w, batch)' = OnSite(w, batch)
  BY DEF OnSite
<1> QED BY <1>1, <1>2 DEF SiteFor, NoNews

\* The slaves' steps, apart from the delays and losses.
LEMMA SiteEndGrab ==
  ASSUME QInv, CountOK, NEW w \in Slaves, EndGrab(w), SiteFor(w)
  PROVE  SiteFor(w)'
<1>1. PICK s \in Sites :
        /\ \A u \in task[w] : u[1] = s
        /\ OneMore(grabs[w], grabs'[w], s, last_task_status[w] = 1)
  BY EndGrabFacts DEF QInv, CountOK
<1>2. /\ spc[w] = "grab" /\ last_cmd_id[w] = 4 /\ last_task_status[w] \in {0, 1}
      /\ UNCHANGED <<queue, db, slave_map, last_task_status>>
      /\ spc'[w] = "ask"
  BY SlaveFacts DEF QInv, LineOK, EndGrab, S!EndGrab, S!report, masterVars, M!M2S_URL
<1>3. task[w] # {} /\ (SiteOf(w) # M!NoSite => \A u \in task[w] : u[1] = SiteOf(w))
  BY <1>2 DEF SiteFor, OnSite
<1>4. SiteOf(w) # M!NoSite => s = SiteOf(w)
  BY <1>1, <1>3
<1>5. db[w] \in Tables /\ grabs[w] \in Tables
  BY DbType DEF QInv, CountOK
<1>6. \A p \in Sites : /\ db[w][p].sucess \in Nat /\ db[w][p].failed \in Nat
                       /\ grabs[w][p].sucess \in Nat /\ grabs[w][p].failed \in Nat
  BY <1>5 DEF Tables
<1>7. \A p \in Sites : /\ db[w][p].sucess <= grabs[w][p].sucess
                       /\ db[w][p].failed <= grabs[w][p].failed
  BY DEF SiteFor
<1>8. \A p \in Sites : /\ grabs[w][p].sucess <= grabs'[w][p].sucess
                       /\ grabs[w][p].failed <= grabs'[w][p].failed
  BY <1>1, <1>6 DEF OneMore
<1>9. \A p \in Sites : /\ grabs'[w][p].sucess \in Nat /\ grabs'[w][p].failed \in Nat
  BY <1>1, <1>6 DEF OneMore
<1>10. \A p \in Sites : /\ db'[w][p].sucess <= grabs'[w][p].sucess
                        /\ db'[w][p].failed <= grabs'[w][p].failed
  BY <1>2, <1>6, <1>7, <1>8, <1>9
<1>11. Room(w, last_task_status[w] # 0)'
  BY <1>1, <1>2, <1>4, <1>6, <1>7 DEF Room, OneMore, SiteOf
<1>12. Bookable(w) = {}
  BY <1>2 DEF QInv, LineOK, Bookable
<1>13. Bookable(w)' = {} /\ Reports(w)' <= 1
  <2>1. Bookable(w)' = {}
    BY <1>2, <1>12 DEF Bookable, ReportsGrab
  <2> QED BY <2>1, FS_EmptySet DEF Reports
<1> QED BY <1>2, <1>10, <1>11, <1>13 DEF SiteFor

LEMMA SiteAsk ==
  ASSUME QInv, NEW w \in Slaves, Ask(w), SiteFor(w)
  PROVE  SiteFor(w)'
<1> DEFINE c == [slave |-> w, req |-> Request(w), open |-> TRUE]
           n == Len(queue)
<1>1. /\ DOMAIN queue' = 1..(n + 1) /\ DOMAIN queue = 1..n /\ n \in Nat
      /\ \A i \in DOMAIN queue : queue'[i] = queue[i]
      /\ queue'[n + 1] = c
  BY AskQueue, QueueShape DEF QInv, IInv
<1>2. /\ c.req.last_cmd_id = last_cmd_id[w]
      /\ c.req.last_task_status = last_task_status[w]
  BY DEF Request
<1>3. /\ spc[w] = "ask" /\ spc'[w] = "wait"
      /\ UNCHANGED <<last_cmd_id, db, slave_map, grabs>>
  BY SlaveFacts DEF QInv, Ask, S!SendRequest, S!report, masterVars
<1>4. Reports(w)' <= 1
  BY ReportsAsk, ReportsType DEF QInv, SiteFor
<1>5. \A good : Room(w, good)' = Room(w, good)
  BY <1>3 DEF Room, SiteOf
<1>6. ~Unsent(w)'
  <2>1. queue'[n + 1].slave = w /\ queue'[n + 1].open /\ n + 1 \in DOMAIN queue'
    BY <1>1
  <2>2. Connected(w)'
    BY <2>1 DEF Connected
  <2> QED BY <1>3, <2>2 DEF Unsent
<1> HIDE DEF c, n
<1>7. ASSUME NEW i \in Bookable(w)'
      PROVE  Room(w, queue'[i].req.last_task_status # 0)
  <2>1. i \in 1..n \/ i = n + 1
    BY <1>1 DEF Bookable
  <2>2. CASE i \in 1..n
    <3>1. i \in Bookable(w) /\ queue'[i] = queue[i]
      BY <1>1, <2>2 DEF Bookable, ReportsGrab
    <3> QED BY <3>1 DEF SiteFor
  <2>3. CASE i = n + 1
    <3>1. last_cmd_id[w] = M!M2S_URL
      BY <1>1, <1>2, <2>3 DEF Bookable, ReportsGrab
    <3>2. Unsent(w)
      BY <1>3, <3>1 DEF Unsent
    <3> QED BY <1>1, <1>2, <2>3, <3>2 DEF SiteFor
  <2> QED BY <2>1, <2>2, <2>3
<1> QED BY <1>3, <1>4, <1>5, <1>6, <1>7 DEF SiteFor

\* A report keeps its status, and a batch under way its site.
LEMMA KeptTask ==
  ASSUME IInv, NEW w \in Slaves, NEW v \in Slaves,
         AskAgain(w) \/ SlaveStarts(w) \/ Grab(w) \/ Store(w) \/ SlaveDies(w)
  PROVE  /\ Unsent(v) /\ Unsent(v)' => last_task_status'[v] = last_task_status[v]
         /\ spc'[v] = "grab" => spc[v] = "grab" /\ task'[v] = task[v]
<1>1. /\ spc \in [Slaves -> {"down", "updated", "ask", "wait", "grab", "store",
                             "remove"}]
      /\ last_task_status \in [Slaves -> {-1, 0, 1}]
      /\ task \in [Slaves -> SUBSET Urls]
  BY SlaveFacts
<1> USE DEF Unsent
<1>2. CASE AskAgain(w) \/ SlaveStarts(w)
  BY <1>1, <1>2
     DEF AskAgain, S!RequestFails, SlaveStarts, S!Start, S!report, S!batch
<1>3. CASE Grab(w)
  <2>1. PICK u \in Urls :
          \/ S!NameUnknown(w, u) \/ S!NoAddress(w, u) \/ S!Unreachable(w, u)
          \/ \E answer \in WebAnswers \cap {"page", "error", "torn"} :
               S!SavePage(w, u, answer)
    BY <1>3 DEF Grab, S!GrabStep
  <2>2. CASE S!NameUnknown(w, u)
    BY <1>1, <2>2 DEF S!NameUnknown, S!NextUrl, S!End
  <2>3. CASE S!NoAddress(w, u) \/ S!Unreachable(w, u)
    BY <1>1, <2>3 DEF S!NoAddress, S!Unreachable, S!report
  <2>4. ASSUME NEW answer, S!SavePage(w, u, answer)
        PROVE  /\ spc[w] = "grab" /\ UNCHANGED <<spc, task>>
               /\ \A x \in Slaves \ {w} : last_task_status'[x] = last_task_status[x]
    BY <1>1, <2>4 DEF S!SavePage, S!NextUrl
  <2> QED BY <2>1, <2>2, <2>3, <2>4
<1>4. CASE Store(w)
  BY <1>1, <1>4
     DEF Store, S!SendFile, S!RemoveFile, S!StoreDone, S!StoreEnds, S!report,
         S!batch
<1>5. CASE SlaveDies(w)
  BY <1>1, <1>5 DEF SlaveDies, S!SlaveCrash, S!End
<1> QED BY <1>2, <1>3, <1>4, <1>5

LEMMA SiteSlave ==
  ASSUME SInv, NEW w \in Slaves, SlaveStep(w) \/ Trouble(w)
  PROVE  SiteOK'
<1>0. QInv /\ CountOK /\ SiteOK /\ IInv /\ faults \in Nat
  BY DEF SInv, QInv, CountOK
<1>1. UNCHANGED masterVars
  BY DEF SlaveStep, Trouble, Ask, AskAgain, SlaveStarts, Grab, EndGrab, Store,
         LosePatience, SlaveDies, StoreGivesUp
<1>2. CASE LosePatience(w) \/ StoreGivesUp(w)
  <2>1. faults' = faults + 1
    BY <1>2 DEF LosePatience, StoreGivesUp, Fault
  <2> QED BY <1>0, <2>1 DEF SiteOK
<1>3. CASE ~(LosePatience(w) \/ StoreGivesUp(w))
  <2>1. faults' = faults
    BY <1>3
       DEF SlaveStep, Trouble, Ask, AskAgain, SlaveStarts, Grab, EndGrab, Store,
           SlaveDies
  <2> SUFFICES ASSUME faults = 0
               PROVE  (\A v \in Slaves : SiteFor(v)') /\ (\A c \in serving' : ReplyFor(c)')
    BY <2>1 DEF SiteOK
  <2>2. (\A v \in Slaves : SiteFor(v)) /\ (\A c \in serving : ReplyFor(c))
    BY <1>0 DEF SiteOK
  <2>3. UNCHANGED <<response, db, slave_map>>
    BY <1>1 DEF masterVars
  <2>4. \A c \in serving' : ReplyFor(c)'
    <3>1. \A c \in serving : ReplyFor(c)'
      BY <2>2, <2>3 DEF ReplyFor, OnSite, SiteOf
    <3>2. CASE SlaveDies(w)
      <4>1. \A c \in serving : ReplyFor(Shut(w, c))'
        <5> TAKE c \in serving
        <5>1. Shut(w, c).slave = c.slave /\ (Shut(w, c).open => c.open)
          BY <1>0, ShutConn DEF IInv, ConnsOK
        <5> QED BY <3>1, <5>1 DEF ReplyFor
      <4> QED BY <3>2, <4>1 DEF SlaveDies, HangUp
    <3>3. CASE ~SlaveDies(w)
      <4>1. serving' = serving
        BY <1>3, <3>3
           DEF SlaveStep, Trouble, Ask, AskAgain, SlaveStarts, Grab, EndGrab,
               Store
      <4> QED BY <3>1, <4>1
    <3> QED BY <3>2, <3>3
  <2>5. CASE EndGrab(w) \/ Ask(w)
    <3>1. SiteFor(w)'
      BY <1>0, <2>2, <2>5, SiteEndGrab, SiteAsk
    <3>2. ASSUME NEW v \in Slaves, v # w PROVE SiteFor(v)'
      <4>1. NoNews(v) /\ Reports(v)' \in Nat /\ Reports(v)' <= Reports(v)
            /\ Reports(v) \in Nat
        BY <1>0, <2>5, <3>2, ReportsAsk, ReportsLocal, ReportsType
      <4>2. UNCHANGED <<spc[v], task[v], last_task_status[v]>>
        BY <1>0, <2>5, <3>2, SlaveFacts DEF Ask, S!SendRequest, EndGrab, S!EndGrab, S!report, S!batch
      <4>3. grabs'[v] = grabs[v]
        BY <1>0, <2>5, <3>2, EndGrabFacts DEF Ask, CountOK
      <4> QED BY <2>2, <2>3, <4>1, <4>2, <4>3, SiteKept DEF SiteOf
    <3> QED BY <2>4, <3>1, <3>2
  <2>6. CASE /\ AskAgain(w) \/ SlaveStarts(w) \/ Grab(w) \/ Store(w)
                \/ SlaveDies(w)
             /\ ~EndGrab(w)
    <3>1. ASSUME NEW v \in Slaves PROVE SiteFor(v)'
      <4>1. NoNews(v) /\ Reports(v)' \in Nat /\ Reports(v)' <= Reports(v)
            /\ Reports(v) \in Nat /\ grabs' = grabs
        BY <1>0, <1>3, <2>6, ReportsHangUp, ReportsLocal, ReportsType
           DEF AskAgain, SlaveStarts, Grab, Store, SlaveDies
      <4>2. /\ Unsent(v) /\ Unsent(v)' => last_task_status'[v] = last_task_status[v]
            /\ spc'[v] = "grab" => spc[v] = "grab" /\ task'[v] = task[v]
        BY <1>0, <2>6, KeptTask
      <4> QED BY <2>2, <2>3, <4>1, <4>2, SiteKept DEF SiteOf
    <3> QED BY <2>4, <3>1
  <2> QED BY <1>3, <2>5, <2>6 DEF SlaveStep, Trouble
<1> QED BY <1>2, <1>3

LEMMA SiteServe ==
  ASSUME SInv, QInv', Serve, faults = 0
  PROVE  /\ \A w \in Slaves : SiteFor(w)'
         /\ \A c \in serving' : ReplyFor(c)'
<1> DEFINE h == Head(queue)
           r == h.req
<1>0. /\ QInv /\ CountOK /\ IInv /\ \A w \in Slaves : SiteFor(w)
      /\ db \in [Slaves -> Tables] /\ grabs \in [Slaves -> Tables]
  BY DbType DEF SInv, QInv, SiteOK, CountOK
<1>1. /\ MasterAccepts /\ M!Accept /\ M!HandRequest(r)
  BY <1>0, AcceptHandles
<1>2. /\ grabs' = grabs /\ pc = "accept" /\ queue # <<>> /\ queue \in Seq(Sound)
      /\ serving' = {h}
      /\ UNCHANGED <<spc, task, last_cmd_id, last_task_status>>
  BY <1>0, <1>1 DEF MasterAccepts, M!Accept, IInv, ConnsOK, slaveOnly
<1>3. /\ h \in Sound /\ h = queue[1] /\ 1 \in DOMAIN queue
  BY <1>2, HeadTailProperties, EmptySeq
<1>4. /\ r.slave_id = h.slave /\ r.commd_id = M!S2M_REQUEST
      /\ h.slave \in Slaves /\ MP!ValidRequest(r)
  BY <1>3 DEF Sound, Conn
<1>5. /\ db' = M!TallyDb(r)
      /\ \A w \in Slaves \ {h.slave} : slave_map'[w] = slave_map[w]
      /\ response'.commd_id = M!M2S_URL =>
           /\ response'.urls # {}
           /\ \A u \in response'.urls : u[1] = slave_map'[h.slave].last_task_site
  BY <1>0, <1>1, <1>4, HandlesFacts
<1> HIDE DEF h, r
<1>6. \A c \in serving' : ReplyFor(c)'
  BY <1>2, <1>5 DEF ReplyFor, OnSite, SiteOf
<1>7. ASSUME NEW w \in Slaves, w # h.slave
      PROVE  SiteFor(w)'
  <2>1. db'[w] = db[w] /\ SiteOf(w)' = SiteOf(w)
    BY <1>0, <1>4, <1>5, <1>7, TallyFacts DEF SiteOf
  <2>2. /\ Reports(w)' = Reports(w) /\ Unsent(w)' = Unsent(w)
        /\ \A j \in Bookable(w)' : \E i \in Bookable(w) : queue'[j] = queue[i]
    BY <1>0, <1>1, <1>2, <1>7, ReportsAccept DEF h
  <2>3. /\ \A good : Room(w, good)' = Room(w, good)
        /\ \A batch : OnSite(w, batch)' = OnSite(w, batch)
    BY <1>2, <2>1 DEF Room, OnSite
  <2>4. SiteFor(w)
    BY <1>0
  <2> QED BY <1>2, <2>1, <2>2, <2>3, <2>4 DEF SiteFor
<1>8. ASSUME NEW w \in Slaves, w = h.slave
      PROVE  SiteFor(w)'
  <2>1. Reports(w) <= 1 /\ Reports(w) \in Nat
    BY <1>0, ReportsType DEF SiteFor
  <2>2. Reports(w)' = 0
    <3>1. CASE ReportsGrab(h)
      <4>1. Reports(w)' \in Nat /\ Reports(w)' = Reports(w) - 1
        BY <1>0, <1>1, <1>2, <1>8, <3>1, ReportsAccept DEF h
      <4> QED BY <2>1, <4>1
    <3>2. CASE ~ReportsGrab(h)
      BY <1>0, <1>1, <1>2, <1>8, <3>2, ReportsAccept, NoReports DEF h
    <3> QED BY <3>1, <3>2
  <2>3. Bookable(w)' = {} /\ ~Unsent(w)'
    BY <1>0, <1>1, <1>2, <2>2, ReportsAccept
  <2>4. spc'[w] # "grab"
    BY <1>0, <1>2, <1>3, <1>8 DEF QInv, LineOK
  <2>5. \A s \in Sites : /\ db'[w][s].sucess <= grabs[w][s].sucess
                         /\ db'[w][s].failed <= grabs[w][s].failed
    <3>0. /\ SiteFor(w) /\ db[w] \in Tables /\ grabs[w] \in Tables
      BY <1>0
    <3>1. CASE r.last_cmd_id = M!M2S_URL /\ SiteOf(w) # M!NoSite
      <4>1. OneMore(db[w], db'[w], SiteOf(w), r.last_task_status # 0)
        BY <1>0, <1>4, <1>5, <1>8, <3>1, TallyFacts
      <4>2. 1 \in Bookable(w)
        BY <1>3, <1>8, <3>1 DEF Bookable, ReportsGrab, r
      <4>3. Room(w, r.last_task_status # 0)
        BY <1>3, <3>0, <4>2 DEF SiteFor, r
      <4>4. \A s \in Sites : /\ db[w][s].sucess \in Nat /\ db[w][s].failed \in Nat
                             /\ grabs[w][s].sucess \in Nat /\ grabs[w][s].failed \in Nat
        BY <3>0 DEF Tables
      <4>5. \A s \in Sites : /\ db[w][s].sucess <= grabs[w][s].sucess
                             /\ db[w][s].failed <= grabs[w][s].failed
        BY <3>0 DEF SiteFor
      <4>6. \A s \in Sites \ {SiteOf(w)} : db'[w][s] = db[w][s]
        BY <4>1 DEF OneMore
      <4>7. SiteOf(w) \in Sites =>
              /\ db'[w][SiteOf(w)].sucess <= grabs[w][SiteOf(w)].sucess
              /\ db'[w][SiteOf(w)].failed <= grabs[w][SiteOf(w)].failed
        BY <3>1, <4>1, <4>3, <4>4, <4>5 DEF OneMore, Room
      <4> QED BY <4>5, <4>6, <4>7
    <3>2. CASE ~(r.last_cmd_id = M!M2S_URL /\ SiteOf(w) # M!NoSite)
      <4>1. db'[w] = db[w]
        BY <1>0, <1>4, <1>5, <1>8, <3>2, TallyFacts
      <4> QED BY <3>0, <4>1 DEF SiteFor
    <3> QED BY <3>1, <3>2
  <2> QED BY <1>2, <2>2, <2>3, <2>4, <2>5 DEF SiteFor
<1> QED BY <1>6, <1>7, <1>8

LEMMA SiteMaster ==
  ASSUME SInv, MasterStep \/ ServeLate \/ MasterCrash
  PROVE  SiteOK'
<1>0. QInv /\ QInv' /\ CountOK /\ SiteOK /\ faults \in Nat
  BY MasterStepQ DEF SInv, CountOK
<1>1. CASE ServeLate
  <2>1. faults' = faults + 1
    BY <1>1 DEF ServeLate, Fault
  <2> QED BY <1>0, <2>1 DEF SiteOK
<1>2. CASE Serve
  <2>1. faults' = faults
    BY <1>2 DEF Serve
  <2> QED BY <1>0, <1>2, <2>1, SiteServe DEF SiteOK
<1>3. CASE ~(Serve \/ ServeLate)
  <2>1. UNCHANGED <<faults, grabs, db>>
    BY <1>3 DEF MasterStep, MasterCrash, MasterSaves, MasterRestart, Deliver,
                ReplyToNobody, M!TruncateConf, M!SaveConf, M!Restart, M!Reply,
                M!Crash
  <2> SUFFICES ASSUME faults = 0
               PROVE  /\ \A w \in Slaves : SiteFor(w)'
                      /\ \A c \in serving' : ReplyFor(c)'
    BY <2>1 DEF SiteOK
  <2>2. (\A w \in Slaves : SiteFor(w)) /\ (\A c \in serving : ReplyFor(c))
    BY <1>0 DEF SiteOK
  <2>3. CASE MasterSaves \/ MasterRestart
    <3>1. UNCHANGED <<slaveOnly, queue, serving, slave_map, response>>
      BY <2>3 DEF MasterSaves, MasterRestart, M!TruncateConf, M!SaveConf,
                  M!Restart, M!mem
    <3>2. ASSUME NEW w \in Slaves PROVE SiteFor(w)'
      <4>1. NoNews(w) /\ Reports(w)' \in Nat /\ Reports(w)' <= Reports(w)
            /\ Reports(w) \in Nat
        BY <1>0, <3>1, ReportsUnseen, ReportsType DEF QInv
      <4> QED BY <2>1, <2>2, <3>1, <4>1, SiteKept DEF slaveOnly, SiteOf
    <3>3. \A c \in serving' : ReplyFor(c)'
      BY <2>2, <3>1 DEF ReplyFor, OnSite, SiteOf
    <3> QED BY <3>2, <3>3
  <2>4. ASSUME NEW c \in serving, ReplyToNobody(c)
        PROVE  /\ \A w \in Slaves : SiteFor(w)'
               /\ \A d \in serving' : ReplyFor(d)'
    <3>1. UNCHANGED <<slaveOnly, queue, slave_map>> /\ serving' = {}
      BY <2>4 DEF ReplyToNobody, M!Reply, M!mem
    <3>2. ASSUME NEW w \in Slaves PROVE SiteFor(w)'
      <4>1. NoNews(w) /\ Reports(w)' \in Nat /\ Reports(w)' <= Reports(w)
            /\ Reports(w) \in Nat
        BY <1>0, <2>4, <3>1, ReportsUnseen, ReportsType DEF QInv
      <4> QED BY <2>1, <2>2, <3>1, <4>1, SiteKept DEF slaveOnly, SiteOf
    <3> QED BY <3>1, <3>2
  <2>5. ASSUME NEW c \in serving, Deliver(c)
        PROVE  /\ \A w \in Slaves : SiteFor(w)'
               /\ \A d \in serving' : ReplyFor(d)'
    <3>1. UNCHANGED <<queue, slave_map>> /\ serving' = {} /\ c.open
          /\ S!HandTask(c.slave, response.commd_id, response.urls)
      BY <2>5 DEF Deliver, M!Reply, M!mem
    <3>2. c.slave \in Slaves /\ IInv
      BY <1>0 DEF QInv, IInv, ConnsOK, Sound, Conn
    <3>3. ASSUME NEW w \in Slaves PROVE SiteFor(w)'
      <4>1. NoNews(w) /\ Reports(w)' \in Nat /\ Reports(w)' <= Reports(w)
            /\ Reports(w) \in Nat /\ SiteFor(w)
        BY <1>0, <2>2, <2>5, ReportsDeliver, ReportsType DEF QInv
      <4>2. CASE w # c.slave
        <5>1. UNCHANGED <<spc[w], last_task_status[w], task[w]>>
          BY <3>1, <3>2, <4>2, HandTaskFacts
        <5> QED BY <2>1, <3>1, <4>1, <5>1, SiteKept DEF SiteOf
      <4>3. CASE w = c.slave
        <5>1. spc'[w] = "grab" => OnSite(w, task'[w])
          <6>1. ReplyFor(c)
            BY <2>2
          <6>2. spc'[w] = "grab" => response.commd_id = 4 /\ task'[w] = response.urls
            BY <3>1, <3>2, <4>3, HandTaskFacts
          <6> QED BY <3>1, <4>3, <6>1, <6>2 DEF ReplyFor, M!M2S_URL
        <5>2. Bookable(w)' = {} /\ ~Unsent(w)'
          <6>1. Bookable(w) = {}
            BY <1>0, <3>1, <4>3 DEF QInv, ServesOne, Bookable
          <6>2. last_cmd_id'[w] = 4 => spc'[w] = "grab"
            BY <3>1, <3>2, <4>3, HandTaskFacts
          <6> QED BY <4>1, <6>1, <6>2 DEF NoNews, Unsent, M!M2S_URL
        <5>3. \A batch : OnSite(w, batch)' = OnSite(w, batch)
          BY <3>1 DEF OnSite, SiteOf
        <5>4. Reports(w)' <= 1
          BY <4>1 DEF SiteFor
        <5> QED BY <2>1, <4>1, <5>1, <5>2, <5>3, <5>4 DEF SiteFor
      <4> QED BY <4>2, <4>3
    <3> QED BY <3>1, <3>3
  <2>6. CASE MasterCrash
    <3>1. serving' = {} /\ queue' = <<>> /\ UNCHANGED slaveOnly
      BY <2>6 DEF MasterCrash
    <3>2. \A w \in Slaves : SiteOf(w)' = M!NoSite
      BY <2>6 DEF MasterCrash, M!Crash, M!NoSlave, SiteOf
    <3>3. ASSUME NEW w \in Slaves PROVE SiteFor(w)'
      <4>1. \A good : Room(w, good)'
        BY <3>2 DEF Room
      <4>2. Reports(w)' <= 1
        BY <1>0, <2>6, ReportsCrash
      <4>3. spc'[w] = "grab" => OnSite(w, task[w])'
        <5>1. spc'[w] = "grab" => task'[w] # {}
          BY <2>2, <3>1 DEF SiteFor, OnSite, slaveOnly
        <5> QED BY <3>2, <5>1 DEF OnSite
      <4> QED BY <2>1, <2>2, <4>1, <4>2, <4>3 DEF SiteFor
    <3> QED BY <3>1, <3>3
  <2> QED BY <1>3, <2>3, <2>4, <2>5, <2>6 DEF MasterStep
<1> QED BY <1>1, <1>2, <1>3

LEMMA SiteInit == Init => SiteOK
<1> SUFFICES ASSUME Init, NEW w \in Slaves PROVE SiteFor(w)
  BY DEF SiteOK, Init
<1>1. QInv
  BY InitInv, InitQ DEF QInv
<1>2. Bookable(w) = {} /\ ~Unsent(w)
  BY DEF Init, S!Init, Bookable, Unsent
<1>3. Reports(w) = 0
  BY <1>1, <1>2, ReportsType DEF QInv
<1>4. spc[w] = "down" /\ db = grabs
      /\ \A s \in Sites : grabs[w][s] = [sucess |-> 0, failed |-> 0]
  BY DEF Init, S!Init, M!Init
<1> QED BY <1>2, <1>3, <1>4 DEF SiteFor

LEMMA SiteInvariance == Spec => []SInv
<1>1. Init => SInv
  BY InitInv, InitQ, CountInit, SiteInit DEF QInv, SInv
<1>2. ASSUME SInv, Next, (QInv /\ CountOK)' PROVE SInv'
  BY <1>2, SiteMaster, SiteSlave DEF Next, SInv
<1>3. ASSUME SInv, UNCHANGED vars, (QInv /\ CountOK)' PROVE SInv'
  <2>1. UNCHANGED <<queue, serving, spc, last_cmd_id, last_task_status, task,
                    slave_map, response, db, grabs, faults>>
    BY <1>3 DEF vars, masterVars, slaveOnly
  <2>2. SiteOK'
    <3>1. \A w : /\ Reports(w)' = Reports(w) /\ Unsent(w)' = Unsent(w)
                 /\ Bookable(w)' = Bookable(w)
                 /\ \A good : Room(w, good)' = Room(w, good)
                 /\ \A batch : OnSite(w, batch)' = OnSite(w, batch)
      BY <2>1 DEF Reports, Bookable, Unsent, Connected, ReportsGrab, SiteOf,
                  Room, OnSite
    <3> QED BY <1>3, <2>1, <3>1 DEF SInv, SiteOK, SiteFor, ReplyFor
  <2> QED BY <1>3, <2>2 DEF SInv
<1> QED BY <1>1, <1>2, <1>3, CountInvariance, PTL DEF Spec

\* Without delays and losses worker_site_tb never counts more for a slave and a
\* site than the slave grabbed there, whoever crashes: an outcome is booked
\* once at most, and on the site it belongs to.
THEOREM OutcomesAreBookedWhereTheyBelong == Spec => []DbCountsGrabs
<1>1. SInv => DbCountsGrabs
  BY DEF SInv, SiteOK, SiteFor, DbCountsGrabs
<1> QED BY <1>1, SiteInvariance, PTL

===============================================================================
