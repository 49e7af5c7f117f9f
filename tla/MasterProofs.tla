----------------------------- MODULE MasterProofs -----------------------------
(***************************************************************************)
(* Proofs about the master, for every catalogue, batch size, number of     *)
(* slaves and descriptors, and any number of crashes.                      *)
(***************************************************************************)
EXTENDS Master, FiniteSetTheorems, TLAPS

USE DEF Absent, NoSite, Nobody, S2M_REQUEST, M2S_SLEEP, M2S_UPDATE, M2S_URL,
        R2S_FEEDBACK, M2S_STORE, ACK, BAD

(***************************************************************************)
(* The inductive invariant.                                                *)
(***************************************************************************)

\* A request names a slave unless its command needs none.
BuffOK == buff.commd_id = S2M_REQUEST => buff.slave_id \in Slaves

\* Between the decision and the truncation the file lags behind the memory
\* by one site: by the batch in the reply, or by the tail of a finished file.
LagsBy(s) ==
  /\ conf[s] # Absent
  /\ conf[s] <= url_map[s].finished_length
  /\ \A t \in Sites \ {s} : url_map[t].finished_length = conf[t]
  /\ \/ response.urls = Between(s, conf[s], url_map[s].finished_length)
     \/ /\ response.urls = {}
        /\ Cardinality(Between(s, conf[s], url_map[s].finished_length))
             < AssignUrlNumber

FileOK ==
  /\ CursorFileMirrorsMemory
  /\ pc = "truncate" => \E s \in Sites : LagsBy(s)
  /\ pc = "save" => conf = NoCursors

\* The reply holds at most a batch, and only while a request is handled; its
\* lines are below the cursor that the file has or is about to get.
ResponseOK ==
  /\ pc \in {"accept", "down"} => response.urls = {}
  /\ pc \in {"save", "reply"} =>
       \A u \in response.urls : /\ SavedCursor(u[1]) # Absent
                                /\ u[2] <= SavedCursor(u[1])
  /\ Cardinality(response.urls) <= AssignUrlNumber

IInv == TypeOK /\ BuffOK /\ FileOK /\ ResponseOK /\ NoReissue

-------------------------------------------------------------------------------
(* Types.                                                                  *)

LEMMA UrlType == \A u \in Urls : u[1] \in Sites /\ u[2] \in Nat \ {0}
BY MasterAssumption

LEMMA LengthType == \A s \in Sites : Length[s] \in Nat
BY MasterAssumption

LEMMA EmptyBatch == Cardinality({}) <= AssignUrlNumber /\ Cardinality({}) = 0
BY FS_EmptySet, MasterAssumption

\* A request on which HandRequest is called.
ValidRequest(r) ==
  /\ r \in Request
  /\ r.commd_id = S2M_REQUEST => r.slave_id \in Slaves

LEMMA RequestsAreValid ==
  /\ \A r \in SlaveRequests : ValidRequest(r) /\ ValidRequest(Tail(r))
  /\ ValidRequest(Feedback)
  /\ ValidRequest(Garbage)
<1>1. ASSUME NEW r \in SlaveRequests
      PROVE  ValidRequest(r) /\ ValidRequest(Tail(r))
  <2>1. PICK v \in Versions, w \in Slaves, o \in Outcomes :
          r = [commd_id |-> S2M_REQUEST, app_version |-> v, slave_id |-> w,
               last_cmd_id |-> o[1], last_task_status |-> o[2]]
    BY DEF SlaveRequests
  <2>2. o \in PossibleOutcomes
    BY MasterAssumption
  <2>3. o[1] \in {-1, 0, M2S_SLEEP, M2S_URL, M2S_STORE} /\ o[2] \in {-1, 0, 1}
    BY <2>2 DEF PossibleOutcomes
  <2>4. QED
    BY <2>1, <2>3 DEF ValidRequest, Request, Tail
<1>2. QED
  BY <1>1 DEF ValidRequest, Request, Feedback, Garbage, Simple

LEMMA TallyType ==
  ASSUME TypeOK, NEW r, ValidRequest(r), r.commd_id = S2M_REQUEST
  PROVE  /\ Tally(r) \in [Slaves -> SlaveStatus]
         /\ TallyDb(r) \in [Slaves -> [Sites -> [sucess : Nat, failed : Nat]]]
<1> DEFINE w == slave_map[r.slave_id]
           s == w.last_task_site
<1>1. r.slave_id \in Slaves /\ w \in SlaveStatus
  BY DEF ValidRequest, TypeOK
<1>2. s \in Sites \cup {NoSite}
  BY <1>1 DEF SlaveStatus
<1>3. [NoSlave EXCEPT !.known = TRUE] \in SlaveStatus
  BY DEF NoSlave, SlaveStatus
<1>4. [w EXCEPT !.good[s] = @ + 1] \in SlaveStatus
  BY <1>1, <1>2 DEF SlaveStatus
<1>5. [w EXCEPT !.bad[s] = @ + 1] \in SlaveStatus
  BY <1>1, <1>2 DEF SlaveStatus
<1>6. Tally(r) \in [Slaves -> SlaveStatus]
  BY <1>1, <1>3, <1>4, <1>5 DEF Tally, TypeOK
<1>7. TallyDb(r) \in [Slaves -> [Sites -> [sucess : Nat, failed : Nat]]]
  <2>1. CASE r.last_cmd_id # M2S_URL \/ s = NoSite
    <3>1. TallyDb(r) = db
      BY <2>1, Zenon DEF TallyDb
    <3>2. db \in [Slaves -> [Sites -> [sucess : Nat, failed : Nat]]]
      BY DEF TypeOK
    <3>3. QED
      BY <3>1, <3>2, Zenon
  <2>2. CASE ~(r.last_cmd_id # M2S_URL \/ s = NoSite)
    <3>1. s \in Sites
      BY <2>2, <1>2
    <3> DEFINE row == db[r.slave_id][s]
    <3>2. db[r.slave_id] \in [Sites -> [sucess : Nat, failed : Nat]]
      BY <1>1 DEF TypeOK
    <3>3. row \in [sucess : Nat, failed : Nat]
      BY <3>1, <3>2
    <3>4. /\ [row EXCEPT !.sucess = @ + 1] \in [sucess : Nat, failed : Nat]
          /\ [row EXCEPT !.failed = @ + 1] \in [sucess : Nat, failed : Nat]
      <4> HIDE DEF row
      <4>1. row.sucess + 1 \in Nat /\ row.failed + 1 \in Nat
        BY <3>3
      <4>2. QED
        BY <3>3, <4>1
    <3>5. \A x \in [sucess : Nat, failed : Nat] :
            [db EXCEPT ![r.slave_id][s] = x]
              \in [Slaves -> [Sites -> [sucess : Nat, failed : Nat]]]
      BY <1>1, <3>1, <3>2 DEF TypeOK
    <3>6. QED
      BY <2>2, <3>4, <3>5 DEF TallyDb
  <2>3. QED
    BY <2>1, <2>2
<1>8. QED
  BY <1>6, <1>7

LEMMA ToggleType == \A b \in Nat : Toggle(b) \in Nat
<1> SUFFICES ASSUME NEW b \in Nat PROVE Toggle(b) \in Nat
  OBVIOUS
<1>1. CASE b = 0
  BY <1>1 DEF Toggle
<1>2. CASE b # 0
  BY <1>2 DEF Toggle
<1>3. QED
  BY <1>1, <1>2

\* What a handled request does to the cursors in memory: nothing, or it moves
\* the cursor of one site over the batch in the reply or over a short tail.
MovesNothing ==
  /\ pc' = "reply"
  /\ url_map' = url_map
  /\ response'.urls = {}

MovesOver(s) ==
  LET from == url_map[s].finished_length
      to   == url_map'[s].finished_length
  IN /\ pc' = "truncate"
     /\ from # Absent
     /\ from <= to
     /\ \A t \in Sites \ {s} : url_map'[t] = url_map[t]
     /\ \/ /\ response'.urls = Between(s, from, to)
           /\ Cardinality(response'.urls) <= AssignUrlNumber
        \/ /\ response'.urls = {}
           /\ url_map'[s].isfinised
           /\ Cardinality(Between(s, from, to)) < AssignUrlNumber

LEMMA HandRequestEffect ==
  ASSUME TypeOK, NEW r, ValidRequest(r), HandRequest(r)
  PROVE  /\ buff' = r
         /\ store' \in Nat
         /\ sleep_time' \in {2, 3600}
         /\ url_map' \in [Sites -> SiteInfo]
         /\ slave_map' \in [Slaves -> SlaveStatus]
         /\ db' \in [Slaves -> [Sites -> [sucess : Nat, failed : Nat]]]
         /\ response' \in Response
         /\ MovesNothing \/ \E s \in Sites : MovesOver(s)
<1>1. CASE r.commd_id # S2M_REQUEST
  <2>1. /\ buff' = r
        /\ response' \in Response
        /\ MovesNothing
        /\ store' = store /\ sleep_time' = sleep_time
        /\ url_map' = url_map /\ slave_map' = slave_map
        /\ db' = db
    BY <1>1 DEF HandRequest, Respond, Response, MovesNothing, mem
  <2>2. /\ store' \in Nat
        /\ sleep_time' \in {2, 3600}
        /\ url_map' \in [Sites -> SiteInfo]
        /\ slave_map' \in [Slaves -> SlaveStatus]
        /\ db' \in [Slaves -> [Sites -> [sucess : Nat, failed : Nat]]]
    BY <2>1 DEF TypeOK
  <2>3. MovesNothing \/ \E s \in Sites : MovesOver(s)
    BY <2>1
  <2>4. QED
    BY <2>1, <2>2, <2>3
<1>2. CASE r.commd_id = S2M_REQUEST
  <2>1. PICK isworktime \in BOOLEAN : HandSlaveRequest(r, isworktime)
    BY <1>2 DEF HandRequest
  <2>2. buff' = r /\ store' = Toggle(store) /\ db' = TallyDb(r)
    BY <1>2 DEF HandRequest
  <2>3. /\ store' \in Nat
        /\ db' \in [Slaves -> [Sites -> [sucess : Nat, failed : Nat]]]
        /\ Tally(r) \in [Slaves -> SlaveStatus]
    BY <1>2, <2>2, TallyType, ToggleType DEF TypeOK
  <2> DEFINE Result == /\ sleep_time' \in {2, 3600}
                       /\ url_map' \in [Sites -> SiteInfo]
                       /\ slave_map' \in [Slaves -> SlaveStatus]
                       /\ response' \in Response
                       /\ MovesNothing \/ \E s \in Sites : MovesOver(s)
  <2>4. CASE \/ Store(r)
             \/ Sleep(r, isworktime)
             \/ Update(r, isworktime)
             \/ NothingToAssign(r, isworktime)
    <3>1. /\ sleep_time' \in {2, 3600}
          /\ slave_map' = Tally(r)
          /\ pc' = "reply"
          /\ url_map' = url_map
          /\ response' \in Response
          /\ response'.urls = {}
      BY <2>4 DEF Store, Sleep, Update, NothingToAssign, Awake, Respond,
                  Response, TypeOK
    <3>2. url_map' \in [Sites -> SiteInfo]
      BY <3>1 DEF TypeOK
    <3>3. MovesNothing
      BY <3>1 DEF MovesNothing
    <3>4. QED
      BY <3>1, <3>2, <3>3, <2>2, <2>3
  <2>5. ASSUME NEW u \in Urls, AssignBatch(r, isworktime, u[1], u[2])
        PROVE  Result
    <3> DEFINE s == u[1]
               q == u[2]
               from == url_map[s].finished_length
    <3>1. /\ s \in Sites /\ q \in Nat
          /\ s \in Unfinished
          /\ ReadStopsAt(s, from, q)
          /\ url_map' = [url_map EXCEPT ![s].finished_length = q]
          /\ response' = [commd_id |-> M2S_URL, urls |-> Between(s, from, q)]
          /\ slave_map' = [Tally(r) EXCEPT ![r.slave_id].last_task_site = s]
          /\ pc' = "truncate"
          /\ sleep_time' = sleep_time
      BY <2>5, UrlType DEF AssignBatch, Awake, MinBadSite, Respond
    <3>2. from \in Nat /\ url_map[s] \in SiteInfo
      BY <3>1 DEF Unfinished, TypeOK, SiteInfo, Cursor
    <3>3. from < q
      BY <3>1 DEF ReadStopsAt, Between
    <3>4. url_map' \in [Sites -> SiteInfo]
      BY <3>1, <3>2 DEF TypeOK, SiteInfo, Cursor
    <3>5. response' \in Response
      BY <3>1 DEF Response, Between
    <3>6. slave_map' \in [Slaves -> SlaveStatus]
      <4>1. r.slave_id \in Slaves
        BY <1>2 DEF ValidRequest
      <4>2. [Tally(r)[r.slave_id] EXCEPT !.last_task_site = s] \in SlaveStatus
        BY <2>3, <3>1, <4>1 DEF SlaveStatus
      <4>3. QED
        BY <2>3, <3>1, <4>1, <4>2
    <3>7. url_map'[s].finished_length = q
      BY <3>1 DEF TypeOK, SiteInfo
    <3>8. \A t \in Sites \ {s} : url_map'[t] = url_map[t]
      BY <3>1 DEF TypeOK
    <3>9. /\ response'.urls = Between(s, from, q)
          /\ Cardinality(response'.urls) <= AssignUrlNumber
      BY <3>1, MasterAssumption DEF ReadStopsAt
    <3>10. MovesOver(s)
      BY <3>1, <3>2, <3>3, <3>7, <3>8, <3>9 DEF MovesOver
    <3>11. QED
      BY <3>1, <3>4, <3>5, <3>6, <3>10 DEF TypeOK
  <2>6. ASSUME NEW s \in Sites, AssignEof(r, isworktime, s)
        PROVE  Result
    <3> DEFINE from == url_map[s].finished_length
               to == IF from > Length[s] THEN from ELSE Length[s]
    <3>1. /\ s \in Unfinished
          /\ ReadMeetsEof(s, from)
          /\ url_map' = [url_map EXCEPT ![s] =
                           [finished_length |-> to, isfinised |-> TRUE]]
          /\ response' = [commd_id |-> M2S_SLEEP, urls |-> {}]
          /\ slave_map' = Tally(r)
          /\ pc' = "truncate"
          /\ sleep_time' = sleep_time
      BY <2>6 DEF AssignEof, Awake, MinBadSite, Respond, TypeOK
    <3>2. from \in Nat /\ Length[s] \in Nat
      BY <3>1, LengthType DEF Unfinished, TypeOK, SiteInfo, Cursor
    <3>3. to \in Nat /\ from <= to
      BY <3>2
    <3>4. url_map' \in [Sites -> SiteInfo]
      BY <3>1, <3>3 DEF TypeOK, SiteInfo, Cursor
    <3>5. /\ url_map'[s].finished_length = to
          /\ url_map'[s].isfinised
          /\ \A t \in Sites \ {s} : url_map'[t] = url_map[t]
      BY <3>1 DEF TypeOK
    <3>6. Between(s, from, to) = Between(s, from, Length[s])
      <4>1. CASE from > Length[s]
        BY <4>1, <3>2, UrlType DEF Between
      <4>2. CASE ~(from > Length[s])
        BY <4>2
      <4>3. QED
        BY <4>1, <4>2
    <3>7. Cardinality(Between(s, from, to)) < AssignUrlNumber
      BY <3>1, <3>6 DEF ReadMeetsEof
    <3>8. response'.urls = {} /\ response' \in Response
      BY <3>1 DEF Response
    <3>9. MovesOver(s)
      BY <3>1, <3>2, <3>3, <3>5, <3>7, <3>8 DEF MovesOver
    <3>10. QED
      BY <3>1, <3>4, <3>8, <3>9, <2>3 DEF TypeOK
  <2>7. QED
    BY <2>1, <2>2, <2>3, <2>4, <2>5, <2>6 DEF HandSlaveRequest
<1>3. QED
  BY <1>1, <1>2

-------------------------------------------------------------------------------
(* The invariant is inductive.                                             *)

LEMMA InitInv == Init => IInv
<1> SUFFICES ASSUME Init PROVE IInv
  OBVIOUS
<1>1. TypeOK
  <2>1. buff \in Request
    BY DEF Init, Garbage, Simple, Request
  <2>2. url_map \in [Sites -> SiteInfo]
    BY DEF Init, LoadCursors, NoCursors, SiteInfo, Cursor
  <2>3. slave_map \in [Slaves -> SlaveStatus]
    BY DEF Init, NoSlave, SlaveStatus
  <2>4. conf \in [Sites -> Cursor]
    BY MasterAssumption DEF Init, Cursor
  <2>5. response \in Response
    BY DEF Init, NoResponse, Response
  <2>6. fds \in 0..MaxFds /\ crashes \in 0..MaxCrashes
    BY MasterAssumption DEF Init
  <2>7. QED
    BY <2>1, <2>2, <2>3, <2>4, <2>5, <2>6 DEF Init, TypeOK
<1>2. BuffOK
  BY DEF Init, BuffOK, Garbage, Simple
<1>3. FileOK
  BY DEF Init, FileOK, CursorFileMirrorsMemory
<1>4. ResponseOK
  BY EmptyBatch DEF Init, ResponseOK, NoResponse
<1>5. NoReissue
  BY DEF Init, NoReissue
<1>6. QED
  BY <1>1, <1>2, <1>3, <1>4, <1>5 DEF IInv

LEMMA ServeInv ==
  ASSUME IInv, NEW r, ValidRequest(r), Accept, HandRequest(r)
  PROVE  IInv'
<1>1. /\ pc = "accept" /\ fds' \in 0..MaxFds
      /\ conf' = conf /\ issued' = issued /\ crashes' = crashes
  <2>1. fds < MaxFds /\ fds \in 0..MaxFds /\ fds' = fds + 1 /\ MaxFds \in Nat
    BY MasterAssumption DEF Accept, IInv, TypeOK
  <2>2. QED
    BY <2>1 DEF Accept
<1>2. TypeOK /\ FileOK /\ ResponseOK /\ NoReissue
  BY DEF IInv
<1>3. /\ buff' = r
      /\ store' \in Nat
      /\ sleep_time' \in {2, 3600}
      /\ url_map' \in [Sites -> SiteInfo]
      /\ slave_map' \in [Slaves -> SlaveStatus]
      /\ db' \in [Slaves -> [Sites -> [sucess : Nat, failed : Nat]]]
      /\ response' \in Response
      /\ MovesNothing \/ \E s \in Sites : MovesOver(s)
  BY <1>2, HandRequestEffect
<1>4. pc' \in {"reply", "truncate"}
  BY <1>3 DEF MovesNothing, MovesOver
<1>5. TypeOK'
  BY <1>1, <1>2, <1>3, <1>4 DEF TypeOK, ValidRequest
<1>6. BuffOK'
  BY <1>3 DEF BuffOK, ValidRequest
<1>7. /\ conf = SavedCursors
      /\ \A s \in Sites : conf[s] = url_map[s].finished_length
  BY <1>1, <1>2 DEF FileOK, CursorFileMirrorsMemory, SavedCursors
<1>8. \A u \in issued : conf[u[1]] = Absent \/ ~(conf[u[1]] < u[2])
  BY <1>1, <1>2 DEF NoReissue, Pending, SavedCursor
<1>9. CASE MovesNothing
  <2>1. pc' = "reply" /\ url_map' = url_map /\ response'.urls = {}
    BY <1>9 DEF MovesNothing
  <2>2. FileOK'
    BY <2>1, <1>1, <1>7 DEF FileOK, CursorFileMirrorsMemory, SavedCursors
  <2>3. ResponseOK'
    BY <2>1, EmptyBatch DEF ResponseOK
  <2>4. NoReissue'
    BY <2>1, <1>1, <1>8 DEF NoReissue, Pending, SavedCursor
  <2>5. QED
    BY <1>5, <1>6, <2>2, <2>3, <2>4 DEF IInv
<1>10. ASSUME NEW s \in Sites, MovesOver(s)
       PROVE  IInv'
  <2> DEFINE from == url_map[s].finished_length
             to   == url_map'[s].finished_length
  <2>1. /\ pc' = "truncate"
        /\ from # Absent
        /\ from <= to
        /\ \A t \in Sites \ {s} : url_map'[t] = url_map[t]
        /\ \/ /\ response'.urls = Between(s, from, to)
              /\ Cardinality(response'.urls) <= AssignUrlNumber
           \/ /\ response'.urls = {}
              /\ Cardinality(Between(s, from, to)) < AssignUrlNumber
    BY <1>10 DEF MovesOver
  <2>2. conf[s] = from
    BY <1>7
  <2>3. LagsBy(s)'
    <3>1. \A t \in Sites \ {s} : url_map'[t].finished_length = conf'[t]
      BY <2>1, <1>1, <1>7
    <3>2. \/ response'.urls = Between(s, conf'[s], to)
          \/ /\ response'.urls = {}
             /\ Cardinality(Between(s, conf'[s], to)) < AssignUrlNumber
      BY <2>1, <2>2, <1>1
    <3>3. (Between(s, conf[s], url_map[s].finished_length))'
            = Between(s, conf'[s], to)
      BY DEF Between
    <3>4. QED
      BY <3>1, <3>2, <3>3, <2>1, <2>2, <1>1 DEF LagsBy
  <2>4. FileOK'
    BY <2>1, <2>3 DEF FileOK, CursorFileMirrorsMemory
  <2>5. ResponseOK'
    BY <2>1, EmptyBatch DEF ResponseOK
  <2>6. NoReissue'
    <3>1. SUFFICES ASSUME NEW u \in issued PROVE ~Pending(u)'
      BY <1>1 DEF NoReissue
    <3>2. ~(conf'[u[1]] # Absent /\ conf'[u[1]] < u[2])
      BY <1>1, <1>8
    <3>3. u \notin response'.urls
      <4>1. u \notin Between(s, from, to)
        BY <1>8, <2>1, <2>2 DEF Between
      <4>2. QED
        BY <4>1, <2>1
    <3>4. QED
      BY <3>2, <3>3, <2>1 DEF Pending, SavedCursor
  <2>7. QED
    BY <1>5, <1>6, <2>4, <2>5, <2>6 DEF IInv
<1>11. QED
  BY <1>3, <1>9, <1>10

LEMMA TruncateInv == ASSUME IInv, TruncateConf PROVE IInv'
<1>1. /\ pc = "truncate" /\ pc' = "save" /\ conf' = NoCursors
      /\ fds' = fds /\ buff' = buff /\ store' = store
      /\ sleep_time' = sleep_time /\ url_map' = url_map
      /\ slave_map' = slave_map /\ db' = db /\ response' = response
      /\ issued' = issued /\ crashes' = crashes
  BY DEF TruncateConf, mem
<1>2. TypeOK /\ BuffOK /\ FileOK /\ ResponseOK /\ NoReissue
  BY DEF IInv
<1>3. TypeOK'
  BY <1>1, <1>2 DEF TypeOK, NoCursors, Cursor
<1>4. BuffOK'
  BY <1>1, <1>2 DEF BuffOK
<1>5. FileOK'
  BY <1>1, <1>2 DEF FileOK, CursorFileMirrorsMemory
<1>6. PICK s \in Sites : LagsBy(s)
  BY <1>1, <1>2 DEF FileOK
<1>7. url_map[s].finished_length \in Cursor /\ conf[s] \in Cursor
  BY <1>2 DEF TypeOK, SiteInfo
<1>8. ResponseOK'
  <2>1. \A u \in response.urls : /\ url_map[u[1]].finished_length # Absent
                                 /\ u[2] <= url_map[u[1]].finished_length
    BY <1>6, <1>7 DEF LagsBy, Between, Cursor
  <2>2. QED
    BY <2>1, <1>1, <1>2 DEF ResponseOK, SavedCursor
<1>9. NoReissue'
  <2>1. SUFFICES ASSUME NEW u \in issued PROVE ~Pending(u)'
    BY <1>1 DEF NoReissue
  <2>2. /\ u \notin response.urls
        /\ ~(conf[u[1]] # Absent /\ conf[u[1]] < u[2])
    BY <1>1, <1>2 DEF NoReissue, Pending, SavedCursor
  <2>3. u \in Urls /\ u[1] \in Sites /\ u[2] \in Nat
    BY <1>2, UrlType DEF TypeOK
  <2>4. ~(url_map[u[1]].finished_length # Absent
            /\ url_map[u[1]].finished_length < u[2])
    <3>1. CASE u[1] = s
      BY <3>1, <2>2, <2>3, <1>6, <1>7 DEF LagsBy, Cursor
    <3>2. CASE u[1] # s
      BY <3>2, <2>2, <2>3, <1>6 DEF LagsBy
    <3>3. QED
      BY <3>1, <3>2
  <2>5. QED
    BY <1>1, <2>2, <2>4 DEF Pending, SavedCursor
<1>10. QED
  BY <1>3, <1>4, <1>5, <1>8, <1>9 DEF IInv

LEMMA SaveInv == ASSUME IInv, SaveConf PROVE IInv'
<1>1. /\ pc = "save" /\ pc' = "reply" /\ conf' = SavedCursors
      /\ fds' = fds /\ buff' = buff /\ store' = store
      /\ sleep_time' = sleep_time /\ url_map' = url_map
      /\ slave_map' = slave_map /\ db' = db /\ response' = response
      /\ issued' = issued /\ crashes' = crashes
  BY DEF SaveConf, mem
<1>2. TypeOK /\ BuffOK /\ FileOK /\ ResponseOK /\ NoReissue
  BY DEF IInv
<1>3. TypeOK'
  BY <1>1, <1>2 DEF TypeOK, SavedCursors, SiteInfo
<1>4. BuffOK'
  BY <1>1, <1>2 DEF BuffOK
<1>5. FileOK'
  BY <1>1 DEF FileOK, CursorFileMirrorsMemory, SavedCursors
<1>6. \A t \in Sites : SavedCursor(t)' = SavedCursor(t)
  BY <1>1 DEF SavedCursor, SavedCursors
<1>7. response.urls \subseteq Urls /\ issued \subseteq Urls
  BY <1>2 DEF TypeOK, Response
<1>8. ResponseOK'
  BY <1>1, <1>2, <1>6, <1>7, UrlType DEF ResponseOK
<1>9. NoReissue'
  BY <1>1, <1>2, <1>6, <1>7, UrlType DEF NoReissue, Pending
<1>10. QED
  BY <1>3, <1>4, <1>5, <1>8, <1>9 DEF IInv

LEMMA ReplyInv ==
  ASSUME IInv, NEW received \in BOOLEAN, Reply(received)
  PROVE  IInv'
<1>1. /\ pc = "reply" /\ pc' = "accept" /\ response' = NoResponse
      /\ issued' = IF received THEN issued \cup response.urls ELSE issued
      /\ fds' = fds /\ buff' = buff /\ store' = store
      /\ sleep_time' = sleep_time /\ url_map' = url_map
      /\ slave_map' = slave_map /\ db' = db /\ conf' = conf
      /\ crashes' = crashes
  BY DEF Reply, mem
<1>2. TypeOK /\ BuffOK /\ FileOK /\ ResponseOK /\ NoReissue
  BY DEF IInv
<1>3. response.urls \subseteq Urls /\ issued \subseteq Urls
  BY <1>2 DEF TypeOK, Response
<1>4. TypeOK'
  BY <1>1, <1>2, <1>3 DEF TypeOK, NoResponse, Response
<1>5. BuffOK'
  BY <1>1, <1>2 DEF BuffOK
<1>6. FileOK'
  BY <1>1, <1>2 DEF FileOK, CursorFileMirrorsMemory, SavedCursors
<1>7. ResponseOK'
  BY <1>1, EmptyBatch DEF ResponseOK, NoResponse
<1>8. NoReissue'
  <2>1. SUFFICES ASSUME NEW u \in issued' PROVE ~Pending(u)'
    BY DEF NoReissue
  <2>2. u \in Urls /\ u[1] \in Sites /\ u[2] \in Nat
    BY <1>1, <1>3, UrlType
  <2>3. conf[u[1]] \in Cursor
    BY <2>2, <1>2 DEF TypeOK
  <2>4. ~(conf[u[1]] # Absent /\ conf[u[1]] < u[2])
    <3>1. CASE u \in issued
      BY <3>1, <1>1, <1>2 DEF NoReissue, Pending, SavedCursor
    <3>2. CASE u \in response.urls
      BY <3>2, <1>1, <1>2, <2>2, <2>3 DEF ResponseOK, SavedCursor, Cursor
    <3>3. QED
      BY <3>1, <3>2, <1>1
  <2>5. QED
    BY <2>4, <1>1 DEF Pending, SavedCursor, NoResponse
<1>9. QED
  BY <1>4, <1>5, <1>6, <1>7, <1>8 DEF IInv

LEMMA CrashInv == ASSUME IInv, Crash PROVE IInv'
<1>1. TypeOK /\ BuffOK /\ FileOK /\ ResponseOK /\ NoReissue
  BY DEF IInv
<1>2. /\ pc' = "down" /\ response' = NoResponse /\ buff' = Garbage
      /\ conf' = conf /\ issued' = issued
  BY DEF Crash
<1>3. TypeOK'
  <2>1. crashes' \in 0..MaxCrashes /\ fds' \in 0..MaxFds
    BY <1>1, MasterAssumption DEF Crash, TypeOK
  <2>2. url_map' \in [Sites -> SiteInfo]
    BY DEF Crash, LoadCursors, NoCursors, SiteInfo, Cursor
  <2>3. slave_map' \in [Slaves -> SlaveStatus]
    BY DEF Crash, NoSlave, SlaveStatus
  <2>4. buff' \in Request
    BY <1>2 DEF Garbage, Simple, Request
  <2>5. QED
    BY <1>1, <1>2, <2>1, <2>2, <2>3, <2>4
       DEF Crash, TypeOK, NoResponse, Response
<1>4. BuffOK'
  BY <1>2 DEF BuffOK, Garbage, Simple
<1>5. FileOK'
  BY <1>2 DEF FileOK, CursorFileMirrorsMemory
<1>6. ResponseOK'
  BY <1>2, EmptyBatch DEF ResponseOK, NoResponse
<1>7. NoReissue'
  <2>1. SUFFICES ASSUME NEW u \in issued PROVE ~Pending(u)'
    BY <1>2 DEF NoReissue
  <2>2. u[1] \in Sites
    BY <1>1, UrlType DEF TypeOK
  <2>3. ~(conf[u[1]] # Absent /\ conf[u[1]] < u[2])
    <3>1. CASE pc = "save"
      BY <3>1, <2>2, <1>1 DEF FileOK, NoCursors
    <3>2. CASE pc # "save"
      BY <3>2, <1>1 DEF NoReissue, Pending, SavedCursor
    <3>3. QED
      BY <3>1, <3>2
  <2>4. QED
    BY <2>3, <1>2 DEF Pending, SavedCursor, NoResponse
<1>8. QED
  BY <1>3, <1>4, <1>5, <1>6, <1>7 DEF IInv

LEMMA RestartInv == ASSUME IInv, Restart PROVE IInv'
<1>1. TypeOK /\ BuffOK /\ FileOK /\ ResponseOK /\ NoReissue
  BY DEF IInv
<1>2. /\ pc = "down" /\ pc' = "accept" /\ url_map' = LoadCursors(conf)
      /\ store' \in StoreBytes
      /\ fds' = fds /\ buff' = buff /\ sleep_time' = sleep_time
      /\ slave_map' = slave_map /\ conf' = conf /\ db' = db
      /\ response' = response /\ issued' = issued /\ crashes' = crashes
  BY DEF Restart
<1>3. url_map' \in [Sites -> SiteInfo] /\ store' \in Nat
  BY <1>1, <1>2, MasterAssumption DEF TypeOK, LoadCursors, SiteInfo
<1>4. TypeOK'
  BY <1>1, <1>2, <1>3 DEF TypeOK
<1>5. BuffOK'
  BY <1>1, <1>2 DEF BuffOK
<1>6. FileOK'
  <2>1. conf = [s \in Sites |-> conf[s]]
    BY <1>1 DEF TypeOK
  <2>2. SavedCursors' = [s \in Sites |-> conf[s]]
    BY <1>2 DEF SavedCursors, LoadCursors
  <2>3. QED
    BY <2>1, <2>2, <1>2 DEF FileOK, CursorFileMirrorsMemory
<1>7. ResponseOK'
  BY <1>1, <1>2 DEF ResponseOK
<1>8. NoReissue'
  BY <1>1, <1>2 DEF NoReissue, Pending, SavedCursor
<1>9. QED
  BY <1>4, <1>5, <1>6, <1>7, <1>8 DEF IInv

LEMMA NextInv == ASSUME IInv, [Next]_vars PROVE IInv'
<1>1. CASE Serve
  <2>1. ASSUME NEW r, ValidRequest(r), Accept, HandRequest(r) PROVE IInv'
    BY <2>1, ServeInv
  <2>2. ASSUME NEW r \in SlaveRequests, ServeWhole(r) \/ ServeSplit(r)
        PROVE  IInv'
    BY <2>1, <2>2, RequestsAreValid DEF ServeWhole, ServeSplit
  <2>3. CASE ServeWhole(Feedback)
    BY <2>1, <2>3, RequestsAreValid DEF ServeWhole
  <2>4. CASE ServeGarbage
    BY <2>1, <2>4, RequestsAreValid DEF ServeGarbage
  <2>5. CASE ServeSilent
    <3>1. ValidRequest(buff)
      BY DEF IInv, TypeOK, BuffOK, ValidRequest
    <3>2. QED
      BY <2>1, <2>5, <3>1 DEF ServeSilent
  <2>6. QED
    BY <1>1, <2>2, <2>3, <2>4, <2>5 DEF Serve
<1>2. CASE Work
  BY <1>2, TruncateInv, SaveInv, ReplyInv DEF Work
<1>3. CASE Crash
  BY <1>3, CrashInv
<1>4. CASE Restart
  BY <1>4, RestartInv
<1>5. CASE UNCHANGED vars
  <2>1. /\ pc' = pc /\ fds' = fds /\ buff' = buff /\ store' = store
        /\ sleep_time' = sleep_time /\ url_map' = url_map
        /\ slave_map' = slave_map /\ conf' = conf /\ db' = db
        /\ response' = response /\ issued' = issued /\ crashes' = crashes
    BY <1>5 DEF vars
  <2>2. TypeOK' /\ BuffOK'
    BY <2>1 DEF IInv, TypeOK, BuffOK
  <2>3. FileOK' /\ ResponseOK' /\ NoReissue'
    BY <2>1 DEF IInv, FileOK, ResponseOK, NoReissue, CursorFileMirrorsMemory,
                SavedCursors, LagsBy, Between, Pending, SavedCursor
  <2>4. QED
    BY <2>2, <2>3 DEF IInv
<1>6. QED
  BY <1>1, <1>2, <1>3, <1>4, <1>5 DEF Next

THEOREM Invariance == Spec => []IInv
<1>1. Init => IInv
  BY InitInv
<1>2. IInv /\ [Next]_vars => IInv'
  BY NextInv
<1>3. QED
  BY <1>1, <1>2, PTL DEF Spec

\* Every variable of the master always has its type.
THEOREM TypeCorrect == Spec => []TypeOK
<1>1. IInv => TypeOK
  BY DEF IInv
<1>2. QED
  BY <1>1, Invariance, PTL

\* At most once: a URL that reached a slave is never pending again, whatever
\* crashes, lost replies, stale or cut requests there are.
THEOREM AtMostOnce == Spec => []NoReissue
<1>1. IInv => NoReissue
  BY DEF IInv
<1>2. QED
  BY <1>1, Invariance, PTL

\* The cursor file mirrors the memory whenever the master listens or replies.
THEOREM WriteAhead == Spec => []CursorFileMirrorsMemory
<1>1. IInv => CursorFileMirrorsMemory
  BY DEF IInv, FileOK
<1>2. QED
  BY <1>1, Invariance, PTL

-------------------------------------------------------------------------------
(* The master implements the ledger.                                       *)

\* Cardinality means the same in the instance.
LEMMA SameCardinality == \A S : Ledger!Cardinality(S) = Cardinality(S)
BY DEF Ledger!Cardinality, Cardinality

LEMMA Unmoved ==
  ASSUME \A u \in Urls : u \in issued' <=> u \in issued,
         \A u \in Urls \ issued : Pending(u)' <=> Pending(u)
  PROVE  LedgerState' = LedgerState
BY DEF LedgerState

\* Losing the pending URLs of S, if there are any, is a Drop.
LEMMA Dropped ==
  ASSUME NEW S \in SUBSET Urls,
         issued' = issued,
         \A u \in S : Pending(u) /\ u \notin issued /\ ~Pending(u)',
         \A u \in Urls \ S : u \notin issued => (Pending(u)' <=> Pending(u)),
         \/ Cardinality(S) <= AssignUrlNumber
         \/ \A u \in Urls : u \notin issued /\ Pending(u) => u \in S
  PROVE  [Ledger!Next]_LedgerState
<1>1. CASE S = {}
  BY <1>1, Unmoved
<1>2. CASE S # {}
  <2>1. S \subseteq Ledger!Todo
    BY DEF Ledger!Todo, LedgerState
  <2>2. Cardinality(S) <= AssignUrlNumber \/ S = Ledger!Todo
    <3>1. CASE \A u \in Urls : u \notin issued /\ Pending(u) => u \in S
      <4>1. Ledger!Todo \subseteq S
        BY <3>1 DEF Ledger!Todo, LedgerState
      <4>2. QED
        BY <4>1, <2>1
    <3>2. QED
      BY <3>1
  <2>3. LedgerState' =
          [u \in Urls |-> IF u \in S THEN "lost" ELSE LedgerState[u]]
    BY DEF LedgerState
  <2>4. Ledger!Drop(S)
    BY <1>2, <2>1, <2>2, <2>3, SameCardinality DEF Ledger!Drop
  <2>5. QED
    BY <2>4 DEF Ledger!Next
<1>3. QED
  BY <1>1, <1>2

LEMMA ServeRefines ==
  ASSUME IInv, NEW r, ValidRequest(r), Accept, HandRequest(r)
  PROVE  LedgerState' = LedgerState
<1>1. /\ pc = "accept" /\ conf' = conf /\ issued' = issued
      /\ TypeOK /\ FileOK /\ ResponseOK
  BY DEF Accept, IInv
<1>2. MovesNothing \/ \E s \in Sites : MovesOver(s)
  BY <1>1, HandRequestEffect
<1>3. response.urls = {}
  BY <1>1 DEF ResponseOK
<1>4. pc' # "save"
  BY <1>2 DEF MovesNothing, MovesOver
<1>5. \A u \in response'.urls : conf[u[1]] # Absent /\ conf[u[1]] < u[2]
  <2>1. CASE MovesNothing
    BY <2>1 DEF MovesNothing
  <2>2. ASSUME NEW s \in Sites, MovesOver(s)
        PROVE  \A u \in response'.urls : conf[u[1]] # Absent /\ conf[u[1]] < u[2]
    <3>1. conf[s] = url_map[s].finished_length
      BY <1>1 DEF FileOK, CursorFileMirrorsMemory, SavedCursors
    <3>2. QED
      BY <2>2, <3>1 DEF MovesOver, Between
  <2>3. QED
    BY <2>1, <2>2, <1>2
<1>6. \A u \in Urls : Pending(u)' <=> Pending(u)
  BY <1>1, <1>3, <1>4, <1>5 DEF Pending, SavedCursor
<1>7. QED
  BY <1>1, <1>6, Unmoved

LEMMA TruncateRefines ==
  ASSUME IInv, TruncateConf
  PROVE  [Ledger!Next]_LedgerState
<1>1. /\ pc = "truncate" /\ pc' = "save" /\ url_map' = url_map
      /\ response' = response /\ issued' = issued
  BY DEF TruncateConf, mem
<1>2. TypeOK /\ FileOK /\ ResponseOK /\ NoReissue
  BY DEF IInv
<1>3. PICK s \in Sites : LagsBy(s)
  BY <1>1, <1>2 DEF FileOK
<1> DEFINE from == conf[s]
           to   == url_map[s].finished_length
<1>4. from \in Nat /\ to \in Nat /\ from <= to
  BY <1>2, <1>3 DEF LagsBy, TypeOK, SiteInfo, Cursor
<1>5. ASSUME NEW u \in Urls
      PROVE  /\ Pending(u)' <=> \/ u \in response.urls
                                \/ /\ url_map[u[1]].finished_length # Absent
                                   /\ url_map[u[1]].finished_length < u[2]
             /\ Pending(u) <=> \/ u \in response.urls
                               \/ conf[u[1]] # Absent /\ conf[u[1]] < u[2]
             /\ u[1] \in Sites /\ u[2] \in Nat
             /\ u[1] # s => url_map[u[1]].finished_length = conf[u[1]]
  BY <1>1, <1>3, UrlType DEF Pending, SavedCursor, LagsBy
<1>6. CASE response.urls = Between(s, from, to)
  <2>1. \A u \in Urls : Pending(u)' <=> Pending(u)
    BY <1>4, <1>5, <1>6 DEF Between
  <2>2. QED
    BY <2>1, <1>1, Unmoved
<1>7. CASE /\ response.urls = {}
           /\ Cardinality(Between(s, from, to)) < AssignUrlNumber
  <2> DEFINE S == Between(s, from, to)
  <2>1. S \in SUBSET Urls
    BY DEF Between
  <2>2. \A u \in S : Pending(u) /\ u \notin issued /\ ~Pending(u)'
    BY <2>1, <1>2, <1>4, <1>5, <1>7 DEF Between, NoReissue
  <2>3. \A u \in Urls \ S : u \notin issued => (Pending(u)' <=> Pending(u))
    BY <1>4, <1>5, <1>7 DEF Between
  <2>4. Cardinality(S) <= AssignUrlNumber
    <3>1. 0 < AssignUrlNumber /\ AssignUrlNumber \in Nat
      BY MasterAssumption
    <3>2. IsFiniteSet(S)
      BY <2>1, MasterAssumption, FS_Subset
    <3>3. Cardinality(S) \in Nat
      BY <3>2, FS_CardinalityType
    <3>4. QED
      BY <3>1, <3>3, <1>7
  <2>5. QED
    BY <2>1, <2>2, <2>3, <2>4, <1>1, Dropped
<1>8. QED
  BY <1>3, <1>6, <1>7 DEF LagsBy

LEMMA SaveRefines ==
  ASSUME IInv, SaveConf
  PROVE  LedgerState' = LedgerState
<1>1. /\ pc = "save" /\ pc' = "reply" /\ conf' = SavedCursors
      /\ url_map' = url_map /\ response' = response /\ issued' = issued
  BY DEF SaveConf, mem
<1>2. \A t \in Sites : SavedCursor(t)' = SavedCursor(t)
  BY <1>1 DEF SavedCursor, SavedCursors
<1>3. \A u \in Urls : Pending(u)' <=> Pending(u)
  BY <1>1, <1>2, UrlType DEF Pending
<1>4. QED
  BY <1>1, <1>3, Unmoved

\* When the reply leaves the handler its lines are below the saved cursor.
LEMMA RepliedAreNotRead ==
  ASSUME IInv, pc = "reply"
  PROVE  /\ response.urls \in SUBSET Urls
         /\ Cardinality(response.urls) <= AssignUrlNumber
         /\ \A u \in response.urls :
              /\ u \notin issued
              /\ ~(conf[u[1]] # Absent /\ conf[u[1]] < u[2])
<1>1. TypeOK /\ ResponseOK /\ NoReissue
  BY DEF IInv
<1>2. response.urls \in SUBSET Urls
  BY <1>1 DEF TypeOK, Response
<1>3. ASSUME NEW u \in response.urls
      PROVE  /\ u \notin issued
             /\ ~(conf[u[1]] # Absent /\ conf[u[1]] < u[2])
  <2>1. u[2] \in Nat /\ conf[u[1]] \in Cursor
    BY <1>1, <1>2, UrlType DEF TypeOK
  <2>2. u[2] <= conf[u[1]]
    BY <1>1 DEF ResponseOK, SavedCursor
  <2>3. u \notin issued
    BY <1>1 DEF NoReissue, Pending
  <2>4. QED
    BY <2>1, <2>2, <2>3 DEF Cursor
<1>4. QED
  BY <1>1, <1>2, <1>3 DEF ResponseOK

LEMMA ReplyRefines ==
  ASSUME IInv, NEW received \in BOOLEAN, Reply(received)
  PROVE  [Ledger!Next]_LedgerState
<1> DEFINE S == response.urls
<1>1. /\ pc = "reply" /\ pc' = "accept" /\ response'.urls = {}
      /\ issued' = IF received THEN issued \cup S ELSE issued
      /\ conf' = conf
  BY DEF Reply, NoResponse
<1>2. /\ S \in SUBSET Urls
      /\ Cardinality(S) <= AssignUrlNumber
      /\ \A u \in S : /\ u \notin issued
                      /\ ~(conf[u[1]] # Absent /\ conf[u[1]] < u[2])
  BY <1>1, RepliedAreNotRead
<1>3. \A u \in S : Pending(u) /\ ~Pending(u)'
  BY <1>1, <1>2 DEF Pending, SavedCursor
<1>4. \A u \in Urls \ S : Pending(u)' <=> Pending(u)
  BY <1>1 DEF Pending, SavedCursor
<1>5. CASE ~received
  BY <1>1, <1>2, <1>3, <1>4, <1>5, Dropped
<1>6. CASE received /\ S = {}
  BY <1>1, <1>4, <1>6, Unmoved
<1>7. CASE received /\ S # {}
  <2>1. S \subseteq Ledger!Todo
    BY <1>2, <1>3 DEF Ledger!Todo, LedgerState
  <2>2. LedgerState' =
          [u \in Urls |-> IF u \in S THEN "given" ELSE LedgerState[u]]
    BY <1>1, <1>4, <1>7 DEF LedgerState
  <2>3. Ledger!Give(S)
    BY <1>2, <1>7, <2>1, <2>2, SameCardinality DEF Ledger!Give
  <2>4. QED
    BY <2>3, <1>2 DEF Ledger!Next
<1>8. QED
  BY <1>5, <1>6, <1>7

LEMMA CrashRefines ==
  ASSUME IInv, Crash
  PROVE  [Ledger!Next]_LedgerState
<1>1. /\ pc \in {"accept", "truncate", "save", "reply"} /\ pc' = "down"
      /\ response'.urls = {} /\ issued' = issued /\ conf' = conf
      /\ TypeOK /\ FileOK /\ ResponseOK /\ NoReissue
  BY DEF Crash, NoResponse, IInv, TypeOK
<1>2. \A u \in Urls :
        Pending(u)' <=> conf[u[1]] # Absent /\ conf[u[1]] < u[2]
  BY <1>1 DEF Pending, SavedCursor
<1>3. CASE pc = "accept"
  <2>1. \A u \in Urls : Pending(u)' <=> Pending(u)
    BY <1>1, <1>2, <1>3 DEF Pending, SavedCursor, ResponseOK
  <2>2. QED
    BY <2>1, <1>1, Unmoved
<1>4. CASE pc = "truncate"
  <2>1. PICK s \in Sites : LagsBy(s)
    BY <1>1, <1>4 DEF FileOK
  <2>2. \A u \in response.urls : conf[u[1]] # Absent /\ conf[u[1]] < u[2]
    BY <2>1 DEF LagsBy, Between
  <2>3. \A u \in Urls : Pending(u)' <=> Pending(u)
    BY <1>2, <1>4, <2>2 DEF Pending, SavedCursor
  <2>4. QED
    BY <2>3, <1>1, Unmoved
<1>5. CASE pc = "save"
  <2> DEFINE S == {u \in Urls : u \notin issued /\ Pending(u)}
  <2>1. \A u \in Urls : ~Pending(u)'
    BY <1>1, <1>2, <1>5, UrlType DEF FileOK, NoCursors
  <2>2. /\ S \in SUBSET Urls
        /\ \A u \in S : Pending(u) /\ u \notin issued /\ ~Pending(u)'
        /\ \A u \in Urls \ S : u \notin issued => ~Pending(u)
        /\ \A u \in Urls : u \notin issued /\ Pending(u) => u \in S
    BY <2>1
  <2>3. \A u \in Urls \ S : u \notin issued => (Pending(u)' <=> Pending(u))
    BY <2>1, <2>2
  <2> HIDE DEF S
  <2>4. QED
    BY <2>2, <2>3, <1>1, Dropped
<1>6. CASE pc = "reply"
  <2> DEFINE S == response.urls
  <2>1. /\ S \in SUBSET Urls
        /\ Cardinality(S) <= AssignUrlNumber
        /\ \A u \in S : /\ u \notin issued
                        /\ ~(conf[u[1]] # Absent /\ conf[u[1]] < u[2])
    BY <1>6, RepliedAreNotRead
  <2>2. \A u \in S : Pending(u) /\ ~Pending(u)'
    BY <1>2, <2>1 DEF Pending
  <2>3. \A u \in Urls \ S : Pending(u)' <=> Pending(u)
    BY <1>2, <1>6 DEF Pending, SavedCursor
  <2>4. QED
    BY <1>1, <2>1, <2>2, <2>3, Dropped
<1>7. QED
  BY <1>1, <1>3, <1>4, <1>5, <1>6

LEMMA RestartRefines ==
  ASSUME IInv, Restart
  PROVE  LedgerState' = LedgerState
<1>1. /\ pc = "down" /\ pc' = "accept" /\ conf' = conf
      /\ response' = response /\ issued' = issued
  BY DEF Restart
<1>2. \A u \in Urls : Pending(u)' <=> Pending(u)
  BY <1>1 DEF Pending, SavedCursor
<1>3. QED
  BY <1>1, <1>2, Unmoved

LEMMA NextRefines ==
  ASSUME IInv, [Next]_vars
  PROVE  [Ledger!Next]_LedgerState
<1>1. CASE Serve
  <2>1. ASSUME NEW r, ValidRequest(r), Accept, HandRequest(r)
        PROVE  LedgerState' = LedgerState
    BY <2>1, ServeRefines
  <2>2. ASSUME NEW r \in SlaveRequests, ServeWhole(r) \/ ServeSplit(r)
        PROVE  LedgerState' = LedgerState
    BY <2>1, <2>2, RequestsAreValid DEF ServeWhole, ServeSplit
  <2>3. CASE ServeWhole(Feedback) \/ ServeGarbage
    BY <2>1, <2>3, RequestsAreValid DEF ServeWhole, ServeGarbage
  <2>4. CASE ServeSilent
    <3>1. ValidRequest(buff)
      BY DEF IInv, TypeOK, BuffOK, ValidRequest
    <3>2. QED
      BY <2>1, <2>4, <3>1 DEF ServeSilent
  <2>5. QED
    BY <1>1, <2>2, <2>3, <2>4 DEF Serve
<1>2. CASE Work
  BY <1>2, TruncateRefines, SaveRefines, ReplyRefines DEF Work
<1>3. CASE Crash \/ Restart
  BY <1>3, CrashRefines, RestartRefines
<1>4. CASE UNCHANGED vars
  <2>1. \A u \in Urls : Pending(u)' <=> Pending(u)
    BY <1>4 DEF vars, Pending, SavedCursor
  <2>2. QED
    BY <2>1, <1>4, Unmoved DEF vars
<1>5. QED
  BY <1>1, <1>2, <1>3, <1>4 DEF Next

LEMMA InitRefines == Init => Ledger!Init
BY DEF Init, Ledger!Init, LedgerState

\* The master implements the ledger: a URL is given once or dropped, both for
\* good, and one step drops at most a batch or all that is left.
THEOREM Refinement == Spec => LedgerSpec
<1>1. Init => Ledger!Init
  BY InitRefines
<1>2. IInv /\ [Next]_vars => [Ledger!Next]_LedgerState
  BY NextRefines
<1>3. QED
  BY <1>1, <1>2, Invariance, PTL DEF Spec, LedgerSpec, Ledger!Spec

-------------------------------------------------------------------------------
(* No URL is skipped by a live master but in the tail of a file.           *)

SkipStep ==
  pc # "down" /\ pc' # "down" =>
    \A s \in Sites :
      LET from == url_map[s].finished_length
          to   == url_map'[s].finished_length
      IN to # from =>
           /\ from < to
           /\ \/ Between(s, from, to) = response'.urls
              \/ /\ url_map'[s].isfinised
                 /\ Cardinality(Between(s, from, to)) < AssignUrlNumber

LEMMA ServeSkips ==
  ASSUME IInv, NEW r, ValidRequest(r), Accept, HandRequest(r)
  PROVE  SkipStep
<1>1. TypeOK
  BY DEF IInv
<1>2. /\ MovesNothing \/ \E s \in Sites : MovesOver(s)
      /\ url_map' \in [Sites -> SiteInfo]
  BY <1>1, HandRequestEffect
<1>3. CASE MovesNothing
  BY <1>3 DEF MovesNothing, SkipStep
<1>4. ASSUME NEW s \in Sites, MovesOver(s)
      PROVE  SkipStep
  <2>1. /\ url_map[s].finished_length \in Int
        /\ url_map'[s].finished_length \in Int
    BY <1>1, <1>2 DEF TypeOK, SiteInfo, Cursor
  <2>2. QED
    BY <1>4, <2>1 DEF MovesOver, SkipStep
<1>5. QED
  BY <1>2, <1>3, <1>4

\* While the master lives, a cursor moves over the batch in the reply or over
\* fewer than assign_url_number URLs at the end of a file.
THEOREM OnlyTailsAreSkipped == Spec => SkipsOnlyATail
<1>1. ASSUME IInv, [Next]_vars PROVE [SkipStep]_vars
  <2>1. ASSUME NEW r, ValidRequest(r), Accept, HandRequest(r)
        PROVE  SkipStep
    BY <1>1, <2>1, ServeSkips
  <2>2. CASE Serve
    <3>1. ValidRequest(buff)
      BY <1>1 DEF IInv, TypeOK, BuffOK, ValidRequest
    <3>2. ASSUME NEW r \in SlaveRequests, ServeWhole(r) \/ ServeSplit(r)
          PROVE  SkipStep
      BY <2>1, <3>2, RequestsAreValid DEF ServeWhole, ServeSplit
    <3>3. CASE ServeWhole(Feedback) \/ ServeGarbage \/ ServeSilent
      BY <2>1, <3>1, <3>3, RequestsAreValid
         DEF ServeWhole, ServeGarbage, ServeSilent
    <3>4. QED
      BY <2>2, <3>2, <3>3 DEF Serve
  <2>3. CASE Work
    BY <2>3 DEF Work, TruncateConf, SaveConf, Reply, mem, SkipStep
  <2>4. CASE Crash \/ Restart
    BY <2>4 DEF Crash, Restart, SkipStep
  <2>5. QED
    BY <1>1, <2>2, <2>3, <2>4 DEF Next
<1>2. QED
  BY <1>1, Invariance, PTL DEF Spec, SkipsOnlyATail, SkipStep

-------------------------------------------------------------------------------
(* The database and the memory.                                            *)

\* Of a slave that is not known nothing is counted, and before the first crash
\* the database is not ahead.
KnownOK == \A w \in Slaves : slave_map[w].known \/ slave_map[w] = NoSlave

NotAhead(table, map) ==
  \A w \in Slaves, s \in Sites :
    /\ table[w][s].failed <= map[w].bad[s]
    /\ table[w][s].sucess <= map[w].good[s]

BooksOK == KnownOK /\ (crashes = 0 => NotAhead(db, slave_map))

\* The two tallies of a request: what the database counts, memory counts.
LEMMA TalliesAgree ==
  ASSUME TypeOK, KnownOK, NEW r, ValidRequest(r), r.commd_id = S2M_REQUEST,
         NotAhead(db, slave_map)
  PROVE  NotAhead(TallyDb(r), Tally(r))
<1> DEFINE id == r.slave_id
           me == slave_map[id]
           l  == me.last_task_site
           one == IF r.last_task_status # 0
                    THEN [me EXCEPT !.good[l] = @ + 1]
                    ELSE [me EXCEPT !.bad[l] = @ + 1]
<1>1. /\ id \in Slaves /\ me \in SlaveStatus /\ l \in Sites \cup {NoSite}
      /\ me.good \in [Sites \cup {NoSite} -> Nat]
      /\ me.bad \in [Sites \cup {NoSite} -> Nat]
  <2>1. id \in Slaves /\ slave_map \in [Slaves -> SlaveStatus]
    BY DEF ValidRequest, TypeOK
  <2>2. me \in SlaveStatus
    BY <2>1
  <2> HIDE DEF me
  <2>3. /\ me.good \in [Sites \cup {NoSite} -> Nat]
        /\ me.bad \in [Sites \cup {NoSite} -> Nat]
        /\ l \in Sites \cup {NoSite}
    BY <2>2 DEF SlaveStatus
  <2> QED BY <2>1, <2>2, <2>3
<1>2. \A w \in Slaves : w # id => Tally(r)[w] = slave_map[w]
  BY <1>1 DEF Tally, TypeOK
<1>3. \A w \in Slaves, s \in Sites :
        db[w][s] \in [sucess : Nat, failed : Nat]
  BY DEF TypeOK
<1>4. CASE ~me.known
  <2>1. me = NoSlave
    BY <1>1, <1>4 DEF KnownOK
  <2>2. TallyDb(r) = db
    BY <2>1 DEF TallyDb, NoSlave
  <2>3. Tally(r)[id] = [NoSlave EXCEPT !.known = TRUE]
    BY <1>1, <1>4 DEF Tally, TypeOK
  <2>4. Tally(r)[id].good = me.good /\ Tally(r)[id].bad = me.bad
    BY <2>1, <2>3 DEF NoSlave
  <2> QED BY <1>1, <1>2, <2>2, <2>4 DEF NotAhead
<1>5. CASE me.known
  <2>1. Tally(r)[id] = one
    <3>1. slave_map \in [Slaves -> SlaveStatus] /\ id \in Slaves
      BY <1>1 DEF TypeOK
    <3>2. \A x : [slave_map EXCEPT ![id] = x][id] = x
      BY <3>1
    <3>3. Tally(r) = [slave_map EXCEPT ![id] = one]
      BY <1>5 DEF Tally
    <3> HIDE DEF one
    <3> QED BY <3>2, <3>3
  <2>2. \A s \in Sites :
          /\ Tally(r)[id].good[s] =
               IF r.last_task_status # 0 /\ s = l THEN me.good[s] + 1
               ELSE me.good[s]
          /\ Tally(r)[id].bad[s] =
               IF r.last_task_status = 0 /\ s = l THEN me.bad[s] + 1
               ELSE me.bad[s]
    <3>1. CASE r.last_task_status # 0
      <4>1. /\ one.good = [me.good EXCEPT ![l] = @ + 1]
            /\ one.bad = me.bad
        BY <1>1, <3>1 DEF SlaveStatus
      <4> HIDE DEF one, me, l
      <4> QED BY <1>1, <2>1, <3>1, <4>1
    <3>2. CASE r.last_task_status = 0
      <4>1. /\ one.bad = [me.bad EXCEPT ![l] = @ + 1]
            /\ one.good = me.good
        BY <1>1, <3>2 DEF SlaveStatus
      <4> HIDE DEF one, me, l
      <4> QED BY <1>1, <2>1, <3>2, <4>1
    <3> QED BY <3>1, <3>2
  <2>3. CASE r.last_cmd_id # M2S_URL \/ l = NoSite
    <3>1. TallyDb(r) = db
      BY <2>3 DEF TallyDb
    <3>2. \A s \in Sites :
            /\ me.good[s] \in Nat /\ me.bad[s] \in Nat
            /\ db[id][s].failed \in Nat /\ db[id][s].sucess \in Nat
            /\ db[id][s].failed <= me.bad[s]
            /\ db[id][s].sucess <= me.good[s]
      BY <1>1, <1>3 DEF NotAhead
    <3>3. \A s \in Sites : /\ db[id][s].failed <= Tally(r)[id].bad[s]
                           /\ db[id][s].sucess <= Tally(r)[id].good[s]
      BY <2>2, <3>2
    <3> QED BY <1>2, <3>1, <3>3 DEF NotAhead
  <2>4. CASE r.last_cmd_id = M2S_URL /\ l # NoSite
    <3>1. l \in Sites
      BY <1>1, <2>4
    <3> DEFINE row == db[id][l]
               new == IF r.last_task_status # 0
                        THEN [row EXCEPT !.sucess = @ + 1]
                        ELSE [row EXCEPT !.failed = @ + 1]
    <3>2. TallyDb(r) = [db EXCEPT ![id] = [db[id] EXCEPT ![l] = new]]
      BY <2>4 DEF TallyDb
    <3>3. /\ \A w \in Slaves : w # id => TallyDb(r)[w] = db[w]
          /\ TallyDb(r)[id][l] = new
          /\ \A s \in Sites : s # l => TallyDb(r)[id][s] = db[id][s]
      <4> HIDE DEF new
      <4>1. db \in [Slaves -> [Sites -> [sucess : Nat, failed : Nat]]]
        BY DEF TypeOK
      <4> QED BY <1>1, <3>1, <3>2, <4>1
    <3>4. row \in [sucess : Nat, failed : Nat]
      BY <1>1, <1>3, <3>1
    <3>5. /\ new.sucess = IF r.last_task_status # 0 THEN row.sucess + 1
                          ELSE row.sucess
          /\ new.failed = IF r.last_task_status = 0 THEN row.failed + 1
                          ELSE row.failed
      BY <3>4
    <3>6. \A s \in Sites :
            /\ me.good[s] \in Nat /\ me.bad[s] \in Nat
            /\ db[id][s].failed \in Nat /\ db[id][s].sucess \in Nat
            /\ db[id][s].failed <= me.bad[s]
            /\ db[id][s].sucess <= me.good[s]
      BY <1>1, <1>3 DEF NotAhead
    <3>7. \A s \in Sites :
            /\ TallyDb(r)[id][s].failed <= Tally(r)[id].bad[s]
            /\ TallyDb(r)[id][s].sucess <= Tally(r)[id].good[s]
      <4> HIDE DEF new, me, l
      <4> QED BY <2>2, <3>1, <3>3, <3>5, <3>6
    <3> QED BY <1>2, <3>3, <3>7 DEF NotAhead
  <2> QED BY <2>3, <2>4
<1> QED BY <1>4, <1>5

\* An assignment changes no count.
LEMMA CountsAreTallied ==
  ASSUME TypeOK, NEW r, ValidRequest(r), HandRequest(r),
         r.commd_id = S2M_REQUEST
  PROVE  /\ db' = TallyDb(r)
         /\ \A w \in Slaves : /\ slave_map'[w].good = Tally(r)[w].good
                              /\ slave_map'[w].bad = Tally(r)[w].bad
                              /\ slave_map'[w].known = Tally(r)[w].known
                              /\ w # r.slave_id =>
                                  slave_map'[w] = slave_map[w]
<1>1. /\ db' = TallyDb(r)
      /\ \/ slave_map' = Tally(r)
         \/ \E s \in Sites :
              slave_map' = [Tally(r) EXCEPT ![r.slave_id].last_task_site = s]
  <2>1. PICK isworktime \in BOOLEAN : HandSlaveRequest(r, isworktime)
    BY DEF HandRequest
  <2>2. db' = TallyDb(r)
    BY DEF HandRequest
  <2>3. CASE \/ Store(r) \/ Sleep(r, isworktime) \/ Update(r, isworktime)
             \/ NothingToAssign(r, isworktime)
    BY <2>2, <2>3 DEF Store, Sleep, Update, NothingToAssign
  <2>4. ASSUME NEW s \in Sites, AssignEof(r, isworktime, s)
        PROVE  slave_map' = Tally(r)
    BY <2>4 DEF AssignEof
  <2>5. ASSUME NEW u \in Urls, AssignBatch(r, isworktime, u[1], u[2])
        PROVE  \E s \in Sites :
                 slave_map' = [Tally(r) EXCEPT ![r.slave_id].last_task_site = s]
    BY <2>5, UrlType DEF AssignBatch
  <2> QED BY <2>1, <2>2, <2>3, <2>4, <2>5 DEF HandSlaveRequest
<1>2. /\ Tally(r) \in [Slaves -> SlaveStatus] /\ r.slave_id \in Slaves
      /\ \A w \in Slaves : w # r.slave_id => Tally(r)[w] = slave_map[w]
  <2>1. r.slave_id \in Slaves /\ slave_map \in [Slaves -> SlaveStatus]
    BY DEF ValidRequest, TypeOK
  <2>2. \A w \in Slaves : w # r.slave_id => Tally(r)[w] = slave_map[w]
    BY <2>1 DEF Tally
  <2> QED BY <2>1, <2>2, TallyType
<1>3. CASE slave_map' = Tally(r)
  BY <1>1, <1>2, <1>3
<1>4. ASSUME NEW s \in Sites,
             slave_map' = [Tally(r) EXCEPT ![r.slave_id].last_task_site = s]
      PROVE  \A w \in Slaves : /\ slave_map'[w].good = Tally(r)[w].good
                               /\ slave_map'[w].bad = Tally(r)[w].bad
                               /\ slave_map'[w].known = Tally(r)[w].known
                               /\ w # r.slave_id =>
                                  slave_map'[w] = slave_map[w]
  <2>1. slave_map'[r.slave_id] =
          [Tally(r)[r.slave_id] EXCEPT !.last_task_site = s]
    BY <1>2, <1>4
  <2>2. Tally(r)[r.slave_id] \in SlaveStatus
    BY <1>2
  <2>3. /\ slave_map'[r.slave_id].good = Tally(r)[r.slave_id].good
        /\ slave_map'[r.slave_id].bad = Tally(r)[r.slave_id].bad
        /\ slave_map'[r.slave_id].known = Tally(r)[r.slave_id].known
    BY <2>1, <2>2 DEF SlaveStatus
  <2>4. \A w \in Slaves : w # r.slave_id => slave_map'[w] = Tally(r)[w]
    BY <1>2, <1>4
  <2> QED BY <1>2, <2>3, <2>4
<1> QED BY <1>1, <1>3, <1>4

LEMMA BooksServe ==
  ASSUME TypeOK, BooksOK, NEW r, ValidRequest(r), Accept, HandRequest(r)
  PROVE  BooksOK'
<1>1. crashes' = crashes
  BY DEF Accept
<1>2. CASE r.commd_id # S2M_REQUEST
  BY <1>1, <1>2 DEF HandRequest, mem, BooksOK, KnownOK, NotAhead
<1>3. CASE r.commd_id = S2M_REQUEST
  <2>0. /\ db' = TallyDb(r)
        /\ \A w \in Slaves : /\ slave_map'[w].good = Tally(r)[w].good
                             /\ slave_map'[w].bad = Tally(r)[w].bad
                             /\ slave_map'[w].known = Tally(r)[w].known
                             /\ w # r.slave_id => slave_map'[w] = slave_map[w]
    BY <1>3, CountsAreTallied, Zenon
  <2>1. Tally(r)[r.slave_id].known
    <3>1. r.slave_id \in Slaves /\ slave_map[r.slave_id] \in SlaveStatus
          /\ slave_map \in [Slaves -> SlaveStatus]
      BY <1>3 DEF ValidRequest, TypeOK
    <3> QED BY <3>1 DEF Tally, NoSlave, SlaveStatus
  <2>2. /\ slave_map'[r.slave_id].known
        /\ \A w \in Slaves : w # r.slave_id => slave_map'[w] = slave_map[w]
    <3>1. r.slave_id \in Slaves
      BY <1>3 DEF ValidRequest
    <3> QED BY <2>0, <2>1, <3>1, Zenon
  <2>3. KnownOK'
    BY <2>2 DEF BooksOK, KnownOK
  <2>4. crashes = 0 => NotAhead(TallyDb(r), Tally(r))
    BY <1>3, TalliesAgree DEF BooksOK
  <2>5. crashes = 0 => NotAhead(db, slave_map)'
    BY <2>0, <2>4, Zenon DEF NotAhead
  <2> QED BY <1>1, <2>3, <2>5 DEF BooksOK
<1> QED BY <1>2, <1>3

\* Until the first crash the database has no outcome that memory has not.
THEOREM DbNotAhead == Spec => []DbNotAheadOfMemory
<1>1. Init => BooksOK
  <2> SUFFICES ASSUME Init PROVE BooksOK
    OBVIOUS
  <2>1. \A w \in Slaves : slave_map[w] = NoSlave
    BY DEF Init
  <2>2. \A w \in Slaves, s \in Sites :
          db[w][s] = [sucess |-> 0, failed |-> 0]
    BY DEF Init
  <2>3. \A s \in Sites : NoSlave.bad[s] = 0 /\ NoSlave.good[s] = 0
    BY DEF NoSlave
  <2> QED BY <2>1, <2>2, <2>3 DEF BooksOK, KnownOK, NotAhead
<1>2. ASSUME IInv, BooksOK, [Next]_vars
      PROVE  BooksOK'
  <2>0. TypeOK
    BY <1>2 DEF IInv
  <2>1. ASSUME NEW r, ValidRequest(r), Accept, HandRequest(r)
        PROVE  BooksOK'
    BY <1>2, <2>0, <2>1, BooksServe
  <2>2. CASE Serve
    <3>1. ValidRequest(buff)
      BY <1>2 DEF IInv, TypeOK, BuffOK, ValidRequest
    <3>2. ASSUME NEW r \in SlaveRequests, ServeWhole(r) \/ ServeSplit(r)
          PROVE  BooksOK'
      BY <2>1, <3>2, RequestsAreValid DEF ServeWhole, ServeSplit
    <3>3. CASE ServeWhole(Feedback) \/ ServeGarbage \/ ServeSilent
      BY <2>1, <3>1, <3>3, RequestsAreValid
         DEF ServeWhole, ServeGarbage, ServeSilent
    <3> QED BY <2>2, <3>2, <3>3 DEF Serve
  <2>3. CASE Work \/ Restart \/ UNCHANGED vars
    BY <1>2, <2>3 DEF Work, TruncateConf, SaveConf, Reply, Restart, mem, vars,
                      BooksOK, KnownOK, NotAhead
  <2>4. CASE Crash
    <3>1. crashes' # 0
      BY <2>0, <2>4 DEF Crash, TypeOK
    <3>2. \A w \in Slaves : slave_map'[w] = NoSlave
      BY <2>4 DEF Crash
    <3> QED BY <3>1, <3>2 DEF BooksOK, KnownOK
  <2> QED BY <1>2, <2>2, <2>3, <2>4 DEF Next
<1>3. BooksOK => DbNotAheadOfMemory
  BY DEF BooksOK, NotAhead, DbNotAheadOfMemory
<1> QED BY <1>1, <1>2, <1>3, Invariance, PTL DEF Spec

===============================================================================
