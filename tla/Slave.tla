-------------------------------- MODULE Slave ---------------------------------
(***************************************************************************)
(* A slave of the crawler (slave/src/slaver.h, slaver.cpp): a loop that    *)
(* asks the master for a command, reporting the last command and how it    *)
(* went, and carries the command out.  A grab appends one page after the   *)
(* other to the file of the batch in download/; a store sends every file   *)
(* there to the repertory and removes it, in two steps between which the   *)
(* slave may die.                                                          *)
(*                                                                         *)
(* What goes on between a slave and the repertory is the subject of        *)
(* PageStore; here it is sent or not.  Connections to the master           *)
(* belong to Crawler; here an answer comes or not.                         *)
(***************************************************************************)
EXTENDS Integers, FiniteSets

CONSTANTS
  Slaves,
  Urls,          \* <<host, line>>
  Slashless,     \* the URLs that name a host and no path
  ConfVersion,   \* app_version in conf/slave.conf of a slave
  WebAnswers,    \* what may become of a page, see PossibleWebAnswers
  Batches        \* sets of URLs the master hands out, none of them twice

SLEEP    == 2
UPDATE   == 3
GRABPAGE == 4
STORE    == 7
UNKNOWN  == 0    \* atoi of a command that is not there

\* noname: the name does not resolve; noaddress: it has no IPv4 address;
\* unreachable: connect or write fails; page, error: answered with status 200
\* or another; torn: status 200, and the rest not read to its end.
PossibleWebAnswers ==
  {"noname", "noaddress", "unreachable", "page", "error", "torn"}

ASSUME SlaveAssumption ==
  /\ Slashless \subseteq Urls
  /\ ConfVersion \in [Slaves -> Nat]
  /\ WebAnswers \subseteq PossibleWebAnswers
  /\ Batches \subseteq SUBSET Urls

VARIABLES
  spc,               \* down, updated (gone, for an update), ask, wait, grab,
                     \* store, remove
  app_version,
  last_cmd_id,
  last_task_status,
  dns_map,           \* the hosts whose address is known
  task,              \* the batch of the last grab command, its task_id
  todo,              \* its URLs not yet grabbed
  fname,             \* the batch whose file was sent and is being removed
  download,          \* the pages in the files of download/
  stored,            \* history: the pages that were sent to the repertory
  given              \* history: the URLs that reached a slave

report == <<last_cmd_id, last_task_status>>
batch  == <<dns_map, task, todo, fname>>
disk   == <<download, stored>>
slaveVars == <<spc, app_version, last_cmd_id, last_task_status, dns_map, task,
               todo, fname, download, stored, given>>

Page == [slave : Slaves, task : SUBSET Urls, url : Urls,
         whole : BOOLEAN, ok : BOOLEAN]

Init ==
  /\ spc = [w \in Slaves |-> "down"]
  /\ app_version = ConfVersion
  /\ last_cmd_id = [w \in Slaves |-> -1]
  /\ last_task_status = [w \in Slaves |-> -1]
  /\ dns_map = [w \in Slaves |-> {}]
  /\ task = [w \in Slaves |-> {}]
  /\ todo = [w \in Slaves |-> {}]
  /\ fname = [w \in Slaves |-> {}]
  /\ download = {} /\ stored = {}
  /\ given = {}

-------------------------------------------------------------------------------
(* The process.                                                            *)

\* The process is gone; state says why.  Its files stay.
End(w, state) ==
  /\ spc' = [spc EXCEPT ![w] = state]
  /\ last_cmd_id' = [last_cmd_id EXCEPT ![w] = -1]
  /\ last_task_status' = [last_task_status EXCEPT ![w] = -1]
  /\ dns_map' = [dns_map EXCEPT ![w] = {}]
  /\ task' = [task EXCEPT ![w] = {}]
  /\ todo' = [todo EXCEPT ![w] = {}]
  /\ fname' = [fname EXCEPT ![w] = {}]
  /\ UNCHANGED <<app_version, disk>>

SlaveCrash(w) ==
  /\ spc[w] \notin {"down", "updated"}
  /\ End(w, "down")
  /\ UNCHANGED given

\* slave_run.sh, from cron: the constructor and config().
Start(w) ==
  /\ spc[w] \in {"down", "updated"}
  /\ spc' = [spc EXCEPT ![w] = "ask"]
  /\ app_version' = [app_version EXCEPT ![w] = ConfVersion[w]]
  /\ UNCHANGED <<report, batch, disk, given>>

-------------------------------------------------------------------------------
(* work: request_task, then hand_task on the answer.                       *)

SendRequest(w) ==
  /\ spc[w] = "ask"
  /\ spc' = [spc EXCEPT ![w] = "wait"]
  /\ UNCHANGED <<app_version, report, batch, disk, given>>

\* Anything but an answer that ends in "\f": wait five seconds, ask again.
RequestFails(w) ==
  /\ spc[w] = "wait"
  /\ spc' = [spc EXCEPT ![w] = "ask"]
  /\ UNCHANGED <<app_version, report, batch, disk, given>>

HandSleep(w) ==
  /\ last_cmd_id' = [last_cmd_id EXCEPT ![w] = SLEEP]
  /\ last_task_status' = [last_task_status EXCEPT ![w] = 1]
  /\ spc' = [spc EXCEPT ![w] = "ask"]
  /\ UNCHANGED <<app_version, batch, disk>>

\* call_updata_shell fetches the file update.sh and exits; the assignments to
\* app_version and last_task_status that follow the call are never reached.
HandUpdate(w) == End(w, "updated")

\* Mutant: a grab starts from the status of the command before.
HandGrabKeepsStatus(w, urls) ==
  \/ /\ urls \cap Slashless # {}
     /\ End(w, "down")
  \/ /\ urls \cap Slashless = {}
     /\ last_cmd_id' = [last_cmd_id EXCEPT ![w] = GRABPAGE]
     /\ task' = [task EXCEPT ![w] = urls]
     /\ todo' = [todo EXCEPT ![w] = urls]
     /\ spc' = [spc EXCEPT ![w] = "grab"]
     /\ UNCHANGED <<app_version, last_task_status, dns_map, fname, disk>>

\* Mutant: the batch before is not cleared.
HandGrabAppends(w, urls) ==
  \/ /\ urls \cap Slashless # {}
     /\ End(w, "down")
  \/ /\ urls \cap Slashless = {}
     /\ last_cmd_id' = [last_cmd_id EXCEPT ![w] = GRABPAGE]
     /\ last_task_status' = [last_task_status EXCEPT ![w] = 0]
     /\ task' = [task EXCEPT ![w] = @ \cup urls]
     /\ todo' = [todo EXCEPT ![w] = task[w] \cup urls]
     /\ spc' = [spc EXCEPT ![w] = "grab"]
     /\ UNCHANGED <<app_version, dns_map, fname, disk>>

\* str2task cuts every URL at its first '/', and the exception that substr
\* throws when there is none ends the process; otherwise grabpage_work begins.
HandGrab(w, urls) ==
  \/ /\ urls \cap Slashless # {}
     /\ End(w, "down")
  \/ /\ urls \cap Slashless = {}
     /\ last_cmd_id' = [last_cmd_id EXCEPT ![w] = GRABPAGE]
     /\ last_task_status' = [last_task_status EXCEPT ![w] = 0]
     /\ task' = [task EXCEPT ![w] = urls]
     /\ todo' = [todo EXCEPT ![w] = urls]
     /\ spc' = [spc EXCEPT ![w] = "grab"]
     /\ UNCHANGED <<app_version, dns_map, fname, disk>>

HandStore(w) ==
  /\ last_cmd_id' = [last_cmd_id EXCEPT ![w] = STORE]
  /\ spc' = [spc EXCEPT ![w] = "store"]
  /\ UNCHANGED <<app_version, last_task_status, batch, disk>>

\* Mutant: what is unknown is taken for an update.
HandUnknownAsUpdate(w) ==
  /\ last_cmd_id' = [last_cmd_id EXCEPT ![w] = UPDATE]
  /\ spc' = [spc EXCEPT ![w] = "ask"]
  /\ UNCHANGED <<app_version, last_task_status, batch, disk>>

\* No case of the switch: the status of the command before stands.
HandUnknown(w) ==
  /\ last_cmd_id' = [last_cmd_id EXCEPT ![w] = UNKNOWN]
  /\ spc' = [spc EXCEPT ![w] = "ask"]
  /\ UNCHANGED <<app_version, last_task_status, batch, disk>>

\* An answer of the master.
HandTask(w, cmd, urls) ==
  /\ spc[w] = "wait"
  /\ given' = given \cup urls
  /\ \/ cmd = SLEEP /\ HandSleep(w)
     \/ cmd = UPDATE /\ HandUpdate(w)
     \/ cmd = GRABPAGE /\ HandGrab(w, urls)
     \/ cmd = STORE /\ HandStore(w)
     \/ cmd \notin {SLEEP, UPDATE, GRABPAGE, STORE} /\ HandUnknown(w)

-------------------------------------------------------------------------------
(* grabpage_work and grab_page.                                            *)

\* The pages of a batch are grabbed in the order of its lines.
NextUrl(w, u) ==
  /\ spc[w] = "grab"
  /\ u \in todo[w]
  /\ \A v \in todo[w] : u[2] <= v[2]

\* lookup_ip: the cache, or else the resolver, whose answer is kept.
Resolved(w, u, answer) ==
  /\ u[1] \in dns_map[w] \/ answer \notin {"noname", "noaddress"}
  /\ dns_map' = [dns_map EXCEPT ![w] = @ \cup {u[1]}]

Pass(w, u) == todo' = [todo EXCEPT ![w] = @ \ {u}]

\* get_ip_by_name follows the null pointer gethostbyname returned.
NameUnknown(w, u) ==
  /\ NextUrl(w, u)
  /\ "noname" \in WebAnswers
  /\ u[1] \notin dns_map[w]
  /\ End(w, "down")
  /\ UNCHANGED given

\* lookup_ip returns false: the next URL.
NoAddress(w, u) ==
  /\ NextUrl(w, u)
  /\ "noaddress" \in WebAnswers
  /\ u[1] \notin dns_map[w]
  /\ Pass(w, u)
  /\ UNCHANGED <<spc, app_version, report, dns_map, task, fname, disk, given>>

\* grab_page returns last_task_status, the status of the page before.
Unreachable(w, u) ==
  /\ NextUrl(w, u)
  /\ "unreachable" \in WebAnswers
  /\ Resolved(w, u, "unreachable")
  /\ Pass(w, u)
  /\ UNCHANGED <<spc, app_version, report, task, fname, disk, given>>

\* What was read goes to the file, whatever ended the loop; the status is
\* that of the first line.
SavePage(w, u, answer) ==
  /\ NextUrl(w, u)
  /\ Resolved(w, u, answer)
  /\ Pass(w, u)
  /\ download' = download \cup
       {[slave |-> w, task |-> task[w], url |-> u,
         whole |-> answer # "torn", ok |-> answer # "error"]}
  /\ last_task_status' =
       [last_task_status EXCEPT ![w] = IF answer = "error" THEN 0 ELSE 1]
  /\ UNCHANGED <<spc, app_version, last_cmd_id, task, fname, stored, given>>

EndGrab(w) ==
  /\ spc[w] = "grab"
  /\ todo[w] = {}
  /\ spc' = [spc EXCEPT ![w] = "ask"]
  /\ UNCHANGED <<app_version, report, batch, disk, given>>

GrabStep(w) ==
  \E u \in Urls :
    \/ NameUnknown(w, u) \/ NoAddress(w, u) \/ Unreachable(w, u)
    \/ \E answer \in WebAnswers \cap {"page", "error", "torn"} :
         SavePage(w, u, answer)

-------------------------------------------------------------------------------
(* store_page, file by file.                                               *)

File(w, t) == {p \in download : p.slave = w /\ p.task = t}

\* remote_store_page returned true.
SendFile(w) ==
  /\ spc[w] = "store"
  /\ \E q \in download :
       /\ q.slave = w
       /\ fname' = [fname EXCEPT ![w] = q.task]
       /\ stored' = stored \cup File(w, q.task)
  /\ spc' = [spc EXCEPT ![w] = "remove"]
  /\ UNCHANGED <<app_version, report, dns_map, task, todo, download, given>>

\* rm download/fname; the rm of its archive that follows changes nothing a
\* slave looks at.  A slave that dies before finds the file in download/ when
\* it stores again.
RemoveFile(w) ==
  /\ spc[w] = "remove"
  /\ download' = download \ File(w, fname[w])
  /\ fname' = [fname EXCEPT ![w] = {}]
  /\ spc' = [spc EXCEPT ![w] = "store"]
  /\ UNCHANGED <<app_version, report, dns_map, task, todo, stored, given>>

StoreEnds(w, status) ==
  /\ last_task_status' = [last_task_status EXCEPT ![w] = status]
  /\ spc' = [spc EXCEPT ![w] = "ask"]
  /\ UNCHANGED <<app_version, last_cmd_id, batch, disk, given>>

\* Every file is sent, or there was none.
StoreDone(w) ==
  /\ spc[w] = "store"
  /\ \A q \in download : q.slave # w
  /\ StoreEnds(w, 1)

\* loop_try_time_in_store attempts at one file failed: the rest is left.
StoreGivesUp(w) ==
  /\ spc[w] = "store"
  /\ \E q \in download : q.slave = w
  /\ StoreEnds(w, 0)

-------------------------------------------------------------------------------
Next ==
  \E w \in Slaves :
    \/ SlaveCrash(w) \/ Start(w)
    \/ SendRequest(w) \/ RequestFails(w)
    \/ \E cmd \in {SLEEP, UPDATE, STORE, UNKNOWN} : HandTask(w, cmd, {})
    \/ \E urls \in Batches : urls \cap given = {} /\ HandTask(w, GRABPAGE, urls)
    \/ GrabStep(w) \/ EndGrab(w)
    \/ SendFile(w) \/ RemoveFile(w) \/ StoreDone(w) \/ StoreGivesUp(w)

Spec == Init /\ [][Next]_slaveVars

-------------------------------------------------------------------------------
(* Properties.                                                             *)

\* Every variable holds a value of its type.
TypeOK ==
  /\ spc \in [Slaves -> {"down", "updated", "ask", "wait", "grab", "store",
                         "remove"}]
  /\ app_version \in [Slaves -> Nat]
  /\ last_cmd_id \in [Slaves -> {-1, UNKNOWN, SLEEP, GRABPAGE, STORE}]
  /\ last_task_status \in [Slaves -> {-1, 0, 1}]
  /\ DOMAIN dns_map = Slaves
  /\ task \in [Slaves -> SUBSET Urls]
  /\ todo \in [Slaves -> SUBSET Urls]
  /\ fname \in [Slaves -> SUBSET Urls]
  /\ download \subseteq Page
  /\ stored \subseteq Page
  /\ given \subseteq Urls

\* A slave that reports a grab as a success has at least one page of that
\* very batch, answered with status 200, in its file: the status left over
\* when a page is unreachable or skipped never stems from another batch or
\* command (grabpage_work clears it; grab_page returns the one before).
SuccessNeedsAPage ==
  \A w \in Slaves :
    spc[w] \in {"ask", "wait"} /\ last_cmd_id[w] = GRABPAGE
      /\ last_task_status[w] = 1 =>
        \E p \in download : p.slave = w /\ p.task = task[w] /\ p.ok

\* Each URL is grabbed once at most: it waits in one batch, or its one page is
\* in the file of one batch, which may be kept and sent and kept again, when a
\* slave dies before it removes it (hand_task, grabpage_work, store_page).
GrabbedOnce ==
  /\ \A v, w \in Slaves : v # w => todo[v] \cap todo[w] = {}
  /\ \A w \in Slaves, p \in download \cup stored : p.url \notin todo[w]
  /\ \A p, q \in download \cup stored : p.url = q.url => p = q

===============================================================================
