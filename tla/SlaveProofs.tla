------------------------------ MODULE SlaveProofs ------------------------------
(***************************************************************************)
(* Proofs about the slaves, for any slaves, URLs and answers of the web.   *)
(***************************************************************************)
EXTENDS Slave, TLAPS

-------------------------------------------------------------------------------
(* The inductive invariant.                                                *)

\* A page of the batch of w, answered with status 200, is in its file.
Earned(w) == \E p \in download : p.slave = w /\ p.task = task[w] /\ p.ok

\* A slave that starts has no last command; later it is the one the slave is
\* carrying out.  While it grabs, its status is 1 only if it has earned it.
StatusOK ==
  \A w \in Slaves :
    /\ spc[w] \in {"down", "updated"} => last_cmd_id[w] = -1
    /\ spc[w] = "grab" => last_cmd_id[w] = GRABPAGE
    /\ spc[w] \in {"store", "remove"} => last_cmd_id[w] = STORE
    /\ spc[w] \in {"ask", "wait", "grab"} /\ last_cmd_id[w] = GRABPAGE
         /\ last_task_status[w] = 1 => Earned(w)

\* What a slave has to do with was handed to a slave.
GivenOK ==
  /\ \A w \in Slaves : todo[w] \subseteq given
  /\ \A p \in download \cup stored : p.url \in given

IInv == TypeOK /\ StatusOK /\ GivenOK /\ GrabbedOnce

-------------------------------------------------------------------------------
LEMMA InitInv == Init => IInv
<1> SUFFICES ASSUME Init PROVE IInv
  OBVIOUS
<1>1. TypeOK
  BY SlaveAssumption DEF Init, TypeOK
<1>2. StatusOK
  BY DEF Init, StatusOK, GRABPAGE, STORE
<1>3. GivenOK /\ GrabbedOnce
  BY DEF Init, GivenOK, GrabbedOnce
<1> QED
  BY <1>1, <1>2, <1>3 DEF IInv

\* A step that moves no page and gives w a status keeps the status of the
\* others.
LEMMA EndKeeps ==
  ASSUME IInv, NEW w \in Slaves, NEW state \in {"down", "updated"},
         End(w, state), given \subseteq given', given' \subseteq Urls
  PROVE  IInv'
<1> USE DEF End, disk
<1>1. TypeOK'
  BY DEF IInv, TypeOK
<1>2. StatusOK'
  BY DEF IInv, TypeOK, StatusOK, Earned, GRABPAGE
<1>3. GivenOK' /\ GrabbedOnce'
  BY DEF IInv, TypeOK, GivenOK, GrabbedOnce
<1> QED
  BY <1>1, <1>2, <1>3 DEF IInv

-------------------------------------------------------------------------------
(* The loop.                                                               *)

LEMMA AsksPreserve ==
  ASSUME IInv, NEW w \in Slaves,
         Start(w) \/ SendRequest(w) \/ RequestFails(w)
  PROVE  IInv'
<1> USE DEF Start, SendRequest, RequestFails, report, batch, disk
<1>1. TypeOK'
  BY SlaveAssumption DEF IInv, TypeOK
<1>2. StatusOK'
  BY DEF IInv, TypeOK, StatusOK, Earned, GRABPAGE
<1>3. GivenOK' /\ GrabbedOnce'
  BY DEF IInv, GivenOK, GrabbedOnce
<1> QED
  BY <1>1, <1>2, <1>3 DEF IInv

\* A command without URLs.
LEMMA CommandPreserves ==
  ASSUME IInv, NEW w \in Slaves, UNCHANGED given,
         HandSleep(w) \/ HandStore(w) \/ HandUnknown(w)
  PROVE  IInv'
<1> USE DEF HandSleep, HandStore, HandUnknown, batch, disk
<1>1. TypeOK'
  BY DEF IInv, TypeOK
<1>2. StatusOK'
  BY DEF IInv, TypeOK, StatusOK, Earned, GRABPAGE, STORE, SLEEP, UNKNOWN
<1>3. GivenOK' /\ GrabbedOnce'
  BY DEF IInv, GivenOK, GrabbedOnce
<1> QED
  BY <1>1, <1>2, <1>3 DEF IInv

\* A batch of URLs that were not handed out before.
LEMMA GrabPreserves ==
  ASSUME IInv, NEW w \in Slaves, NEW urls \in SUBSET Urls,
         urls \cap given = {}, given' = given \cup urls, HandGrab(w, urls)
  PROVE  IInv'
<1>1. CASE End(w, "down")
  <2>1. given \subseteq given' /\ given' \subseteq Urls
    BY DEF IInv, TypeOK
  <2> QED
    BY <1>1, <2>1, EndKeeps
<1>2. CASE ~End(w, "down")
  <2> USE DEF HandGrab, disk
  <2>1. TypeOK'
    BY <1>2 DEF IInv, TypeOK
  <2>2. StatusOK'
    BY <1>2 DEF IInv, TypeOK, StatusOK, Earned
  <2>3. GivenOK'
    BY <1>2 DEF IInv, TypeOK, GivenOK
  <2>4. GrabbedOnce'
    BY <1>2 DEF IInv, TypeOK, GivenOK, GrabbedOnce
  <2> QED
    BY <2>1, <2>2, <2>3, <2>4 DEF IInv
<1> QED
  BY <1>1, <1>2

-------------------------------------------------------------------------------
(* Grabbing.                                                               *)

LEMMA SkipPreserves ==
  ASSUME IInv, NEW w \in Slaves, NEW u \in Urls,
         NoAddress(w, u) \/ Unreachable(w, u)
  PROVE  IInv'
<1> USE DEF NoAddress, Unreachable, NextUrl, Resolved, Pass, report, disk
<1>1. TypeOK'
  BY DEF IInv, TypeOK
<1>2. StatusOK'
  BY DEF IInv, StatusOK, Earned
<1>3. GivenOK' /\ GrabbedOnce'
  BY DEF IInv, TypeOK, GivenOK, GrabbedOnce
<1> QED
  BY <1>1, <1>2, <1>3 DEF IInv

LEMMA SavePreserves ==
  ASSUME IInv, NEW w \in Slaves, NEW u \in Urls, NEW answer,
         SavePage(w, u, answer)
  PROVE  IInv'
<1> DEFINE new == [slave |-> w, task |-> task[w], url |-> u,
                   whole |-> answer # "torn", ok |-> answer # "error"]
<1>1. new \in Page /\ download' = download \cup {new}
  BY DEF IInv, TypeOK, Page, SavePage
<1>2. new.slave = w /\ new.task = task[w] /\ new.url = u
        /\ (answer # "error" => new.ok)
  OBVIOUS
<1> HIDE DEF new
<1> USE DEF SavePage, NextUrl, Resolved, Pass
<1>3. TypeOK'
  BY <1>1 DEF IInv, TypeOK
<1>4. StatusOK'
  <2> SUFFICES ASSUME NEW v \in Slaves
               PROVE  /\ spc'[v] \in {"down", "updated"} =>
                           last_cmd_id'[v] = -1
                      /\ spc'[v] = "grab" => last_cmd_id'[v] = GRABPAGE
                      /\ spc'[v] \in {"store", "remove"} =>
                           last_cmd_id'[v] = STORE
                      /\ spc'[v] \in {"ask", "wait", "grab"}
                           /\ last_cmd_id'[v] = GRABPAGE
                           /\ last_task_status'[v] = 1 => Earned(v)'
    BY DEF StatusOK
  <2>1. CASE v = w
    BY <2>1, <1>1, <1>2 DEF IInv, TypeOK, StatusOK, Earned
  <2>2. CASE v # w
    BY <2>2, <1>1 DEF IInv, TypeOK, StatusOK, Earned
  <2> QED
    BY <2>1, <2>2
<1>5. GivenOK'
  BY <1>1, <1>2 DEF IInv, TypeOK, GivenOK
<1>6. GrabbedOnce'
  BY <1>1, <1>2 DEF IInv, TypeOK, GrabbedOnce
<1> QED
  BY <1>3, <1>4, <1>5, <1>6 DEF IInv

LEMMA EndGrabPreserves ==
  ASSUME IInv, NEW w \in Slaves, EndGrab(w)
  PROVE  IInv'
<1> USE DEF EndGrab, report, batch, disk
<1>1. TypeOK'
  BY DEF IInv, TypeOK
<1>2. StatusOK'
  BY DEF IInv, TypeOK, StatusOK, Earned
<1>3. GivenOK' /\ GrabbedOnce'
  BY DEF IInv, GivenOK, GrabbedOnce
<1> QED
  BY <1>1, <1>2, <1>3 DEF IInv

-------------------------------------------------------------------------------
(* Storing.                                                                *)

LEMMA SendFilePreserves ==
  ASSUME IInv, NEW w \in Slaves, SendFile(w)
  PROVE  IInv'
<1>1. PICK q \in download :
        /\ fname' = [fname EXCEPT ![w] = q.task]
        /\ stored' = stored \cup File(w, q.task)
  BY DEF SendFile
<1>2. File(w, q.task) \subseteq download /\ q.task \in SUBSET Urls
  BY <1>1 DEF File, IInv, TypeOK, Page
<1> USE DEF SendFile, report
<1>3. TypeOK'
  BY <1>1, <1>2 DEF IInv, TypeOK
<1>4. StatusOK'
  BY DEF IInv, TypeOK, StatusOK, Earned
<1>5. download' \cup stored' = download \cup stored
  BY <1>1, <1>2
<1>6. GivenOK' /\ GrabbedOnce'
  BY <1>5 DEF IInv, GivenOK, GrabbedOnce
<1> QED
  BY <1>3, <1>4, <1>6 DEF IInv

\* Between the store of a file and the next batch no success is reported that
\* would have to be earned.
LEMMA RemoveFilePreserves ==
  ASSUME IInv, NEW w \in Slaves, RemoveFile(w)
  PROVE  IInv'
<1>1. download' \subseteq download /\ (\A p \in download \ download' : p.slave = w)
  BY DEF RemoveFile, File
<1> USE DEF RemoveFile, report
<1>2. TypeOK'
  BY <1>1 DEF IInv, TypeOK
<1>3. \A v \in Slaves \ {w} : Earned(v) => Earned(v)'
  BY <1>1 DEF Earned
<1>4. last_cmd_id[w] = STORE /\ GRABPAGE # STORE
  BY DEF IInv, StatusOK, GRABPAGE, STORE
<1>5. StatusOK'
  BY <1>3, <1>4 DEF IInv, TypeOK, StatusOK
<1>6. GivenOK' /\ GrabbedOnce'
  BY <1>1 DEF IInv, GivenOK, GrabbedOnce
<1> QED
  BY <1>2, <1>5, <1>6 DEF IInv

LEMMA StoreEndPreserves ==
  ASSUME IInv, NEW w \in Slaves, StoreDone(w) \/ StoreGivesUp(w)
  PROVE  IInv'
<1>1. PICK status \in {0, 1} : StoreEnds(w, status) /\ spc[w] = "store"
  BY DEF StoreDone, StoreGivesUp
<1> USE DEF StoreEnds, batch, disk
<1>2. TypeOK'
  BY <1>1 DEF IInv, TypeOK
<1>3. StatusOK'
  BY <1>1 DEF IInv, TypeOK, StatusOK, Earned, STORE, GRABPAGE
<1>4. GivenOK' /\ GrabbedOnce'
  BY <1>1 DEF IInv, GivenOK, GrabbedOnce
<1> QED
  BY <1>2, <1>3, <1>4 DEF IInv

-------------------------------------------------------------------------------
LEMMA CrashPreserves ==
  ASSUME IInv, NEW w \in Slaves,
         SlaveCrash(w) \/ \E u \in Urls : NameUnknown(w, u)
  PROVE  IInv'
<1>1. End(w, "down") /\ given' = given
  BY DEF SlaveCrash, NameUnknown
<1>2. given' \subseteq Urls
  BY <1>1 DEF IInv, TypeOK
<1> QED
  BY <1>1, <1>2, EndKeeps

LEMMA HandTaskPreserves ==
  ASSUME IInv, NEW w \in Slaves,
         \/ \E cmd \in {SLEEP, UPDATE, STORE, UNKNOWN} : HandTask(w, cmd, {})
         \/ \E urls \in Batches :
              urls \cap given = {} /\ HandTask(w, GRABPAGE, urls)
  PROVE  IInv'
<1>1. ASSUME NEW cmd \in {SLEEP, UPDATE, STORE, UNKNOWN}, HandTask(w, cmd, {})
      PROVE  IInv'
  <2>1. UNCHANGED given /\ cmd # GRABPAGE
    BY <1>1 DEF HandTask, SLEEP, UPDATE, STORE, UNKNOWN, GRABPAGE
  <2>2. CASE HandUpdate(w)
    BY <2>1, <2>2, EndKeeps DEF HandUpdate, IInv, TypeOK
  <2>3. CASE HandSleep(w) \/ HandStore(w) \/ HandUnknown(w)
    BY <2>1, <2>3, CommandPreserves
  <2> QED
    BY <1>1, <2>1, <2>2, <2>3 DEF HandTask
<1>2. ASSUME NEW urls \in Batches, urls \cap given = {},
             HandTask(w, GRABPAGE, urls)
      PROVE  IInv'
  <2>1. HandGrab(w, urls) /\ given' = given \cup urls
    BY <1>2 DEF HandTask, SLEEP, UPDATE, STORE, GRABPAGE
  <2>2. urls \in SUBSET Urls
    BY SlaveAssumption
  <2> QED
    BY <1>2, <2>1, <2>2, GrabPreserves
<1> QED
  BY <1>1, <1>2

LEMMA StepInv == IInv /\ [Next]_slaveVars => IInv'
<1> SUFFICES ASSUME IInv, [Next]_slaveVars PROVE IInv'
  OBVIOUS
<1>1. CASE UNCHANGED slaveVars
  BY <1>1 DEF slaveVars, IInv, TypeOK, StatusOK, GivenOK, GrabbedOnce, Earned
<1>2. ASSUME NEW w \in Slaves,
             \/ SlaveCrash(w) \/ Start(w)
             \/ SendRequest(w) \/ RequestFails(w)
             \/ \E cmd \in {SLEEP, UPDATE, STORE, UNKNOWN} : HandTask(w, cmd, {})
             \/ \E urls \in Batches :
                  urls \cap given = {} /\ HandTask(w, GRABPAGE, urls)
             \/ GrabStep(w) \/ EndGrab(w)
             \/ SendFile(w) \/ RemoveFile(w) \/ StoreDone(w) \/ StoreGivesUp(w)
      PROVE  IInv'
  <2>1. CASE GrabStep(w)
    <3>1. PICK u \in Urls :
            \/ NameUnknown(w, u) \/ NoAddress(w, u) \/ Unreachable(w, u)
            \/ \E answer \in WebAnswers \cap {"page", "error", "torn"} :
                 SavePage(w, u, answer)
      BY <2>1 DEF GrabStep
    <3> QED
      BY <3>1, CrashPreserves, SkipPreserves, SavePreserves
  <2> QED
    BY <1>2, <2>1, CrashPreserves, AsksPreserve, HandTaskPreserves,
       EndGrabPreserves, SendFilePreserves, RemoveFilePreserves,
       StoreEndPreserves
<1> QED
  BY <1>1, <1>2 DEF Next

LEMMA Inductive == Spec => []IInv
BY InitInv, StepInv, PTL DEF Spec

-------------------------------------------------------------------------------
\* Every variable of the slaves keeps its type.
THEOREM TypeCorrect == Spec => []TypeOK
<1>1. IInv => TypeOK
  BY DEF IInv
<1> QED
  BY Inductive, <1>1, PTL

\* A grab is reported as a success only if a page of that batch was answered
\* with status 200 (hand_task, grabpage_work, grab_page).
THEOREM NoSuccessWithoutAPage == Spec => []SuccessNeedsAPage
<1>1. IInv => SuccessNeedsAPage
  BY DEF IInv, StatusOK, SuccessNeedsAPage, Earned
<1> QED
  BY Inductive, <1>1, PTL

\* When no URL is handed out twice, none is grabbed twice or has a page in two
\* files, though a file may be sent more than once (grabpage_work, store_page).
THEOREM AtMostOneGrab == Spec => []GrabbedOnce
<1>1. IInv => GrabbedOnce
  BY DEF IInv
<1> QED
  BY Inductive, <1>1, PTL

===============================================================================
