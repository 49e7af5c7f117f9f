------------------------------- MODULE Crawler --------------------------------
(***************************************************************************)
(* The master and its slaves together.  A slave connects, writes its       *)
(* request and waits; the master takes the connections one at a time, in   *)
(* the order in which they were made.  A slave that died or lost patience  *)
(* leaves its connection behind, and the request on it is served like any  *)
(* other, with a reply that reaches nobody.                                *)
(***************************************************************************)
EXTENDS Integers, Sequences, FiniteSets

CONSTANTS
  Slaves, Sites, Length, Urls, AssignUrlNumber, CurrentVersion, Versions,
  Outcomes, StartConfs, StoreBytes, MaxFds, MaxCrashes,   \* see Master
  Slashless, ConfVersion, WebAnswers,                     \* see Slave
  MaxQueue,    \* bound: connections waiting for the master
  MaxDeaths,   \* bound: slaves killed
  MaxFaults    \* bound: delays and losses between master and slaves

Batches == SUBSET Urls

VARIABLES
  pc, fds, buff, store, sleep_time, url_map, slave_map, conf, db, response,
  issued, crashes,
  spc, app_version, last_cmd_id, last_task_status, dns_map, task, todo,
  fname, download, stored,
  queue,     \* the connections not yet accepted
  serving,   \* the connection being served
  grabs,     \* history: the grabs a slave ended, by site and status
  deaths, faults

M == INSTANCE Master
S == INSTANCE Slave WITH given <- issued

\* What Master and Slave assume, and that the master knows the versions.
ASSUME CrawlerAssumption ==
  /\ M!Nobody \notin Slaves
  /\ Sites \subseteq Nat \ {0} /\ IsFiniteSet(Sites)
  /\ Length \in [Sites -> Nat]
  /\ Urls \subseteq Sites \X (Nat \ {0}) /\ IsFiniteSet(Urls)
  /\ \A u \in Urls : u[2] <= Length[u[1]]
  /\ AssignUrlNumber \in Nat \ {0}
  /\ CurrentVersion \in Nat \ {0} /\ Versions \subseteq Nat \ {0}
  /\ Outcomes \subseteq M!PossibleOutcomes
  /\ StartConfs \subseteq [Sites -> Nat \cup {-1}]
  /\ StoreBytes \subseteq Nat
  /\ MaxFds \in Nat /\ MaxCrashes \in Nat
  /\ Slashless \subseteq Urls
  /\ ConfVersion \in [Slaves -> Versions]
  /\ WebAnswers \subseteq S!PossibleWebAnswers

masterVars == <<pc, fds, buff, store, sleep_time, url_map, slave_map, conf, db,
                response, issued, crashes>>
slaveOnly == <<spc, app_version, last_cmd_id, last_task_status, dns_map, task,
               todo, fname, download, stored>>
vars == <<masterVars, slaveOnly, queue, serving, grabs, deaths, faults>>

\* open: the slave still waits at the other end.
Conn == [slave : Slaves, req : M!Request, open : BOOLEAN]

Request(w) ==
  [commd_id |-> M!S2M_REQUEST, app_version |-> app_version[w],
   slave_id |-> w, last_cmd_id |-> last_cmd_id[w],
   last_task_status |-> last_task_status[w]]

\* The slave's end of its connection is closed.
Shut(w, c) == IF c.slave = w THEN [c EXCEPT !.open = FALSE] ELSE c
HangUp(w) ==
  /\ queue' = [i \in DOMAIN queue |-> Shut(w, queue[i])]
  /\ serving' = {Shut(w, c) : c \in serving}

Connected(w) ==
  \E c \in serving \cup {queue[i] : i \in DOMAIN queue} :
    c.slave = w /\ c.open

Fault == faults < MaxFaults /\ faults' = faults + 1

Init ==
  /\ M!Init /\ S!Init
  /\ queue = <<>> /\ serving = {}
  /\ grabs = [w \in Slaves |->
               [s \in Sites |-> [sucess |-> 0, failed |-> 0]]]
  /\ deaths = 0 /\ faults = 0

-------------------------------------------------------------------------------
(* Between a slave and the master.                                         *)

Ask(w) ==
  /\ pc # "down"
  /\ Len(queue) < MaxQueue
  /\ S!SendRequest(w)
  /\ queue' = Append(queue,
                     [slave |-> w, req |-> Request(w), open |-> TRUE])
  /\ UNCHANGED <<masterVars, serving, grabs, deaths, faults>>

\* The connection is gone with the master that held it.
AskAgain(w) ==
  /\ ~Connected(w)
  /\ S!RequestFails(w)
  /\ UNCHANGED <<masterVars, queue, serving, grabs, deaths, faults>>

\* SO_RCVTIMEO expires at the slave while the master is busy or wedged.
LosePatience(w) ==
  /\ Connected(w)
  /\ Fault
  /\ S!RequestFails(w)
  /\ HangUp(w)
  /\ UNCHANGED <<masterVars, grabs, deaths>>

MasterAccepts ==
  /\ queue # <<>>
  /\ serving' = {Head(queue)}
  /\ queue' = Tail(queue)
  /\ UNCHANGED <<slaveOnly, grabs, deaths>>

Serve ==
  /\ MasterAccepts
  /\ M!ServeWhole(Head(queue).req)
  /\ UNCHANGED faults

\* The request comes late, in part or in whole.
ServeLate ==
  /\ MasterAccepts
  /\ Fault
  /\ M!ServeSplit(Head(queue).req) \/ M!ServeGarbage \/ M!ServeSilent

MasterSaves ==
  /\ M!TruncateConf \/ M!SaveConf
  /\ UNCHANGED <<slaveOnly, queue, serving, grabs, deaths, faults>>

Deliver(c) ==
  /\ c \in serving /\ c.open
  /\ M!Reply(TRUE)
  /\ S!HandTask(c.slave, response.commd_id, response.urls)
  /\ serving' = {}
  /\ UNCHANGED <<queue, grabs, deaths, faults>>

ReplyToNobody(c) ==
  /\ c \in serving /\ ~c.open
  /\ M!Reply(FALSE)
  /\ serving' = {}
  /\ UNCHANGED <<slaveOnly, queue, grabs, deaths, faults>>

MasterCrash ==
  /\ M!Crash
  /\ queue' = <<>> /\ serving' = {}
  /\ UNCHANGED <<slaveOnly, grabs, deaths, faults>>

MasterRestart ==
  /\ M!Restart
  /\ UNCHANGED <<slaveOnly, queue, serving, grabs, deaths, faults>>

-------------------------------------------------------------------------------
(* A slave by itself.                                                      *)

SlaveStarts(w) ==
  /\ S!Start(w)
  /\ UNCHANGED <<masterVars, queue, serving, grabs, deaths, faults>>

SlaveDies(w) ==
  /\ deaths < MaxDeaths
  /\ deaths' = deaths + 1
  /\ S!SlaveCrash(w)
  /\ HangUp(w)
  /\ UNCHANGED <<masterVars, grabs, faults>>

Grab(w) ==
  /\ S!GrabStep(w)
  /\ UNCHANGED <<masterVars, queue, serving, grabs, deaths, faults>>

EndGrab(w) ==
  /\ S!EndGrab(w)
  /\ \E s \in Sites :
       /\ \A u \in task[w] : u[1] = s
       /\ grabs' = IF last_task_status[w] = 1
                     THEN [grabs EXCEPT ![w][s].sucess = @ + 1]
                     ELSE [grabs EXCEPT ![w][s].failed = @ + 1]
  /\ UNCHANGED <<masterVars, queue, serving, deaths, faults>>

Store(w) ==
  /\ S!SendFile(w) \/ S!RemoveFile(w) \/ S!StoreDone(w)
  /\ UNCHANGED <<masterVars, queue, serving, grabs, deaths, faults>>

StoreGivesUp(w) ==
  /\ Fault
  /\ S!StoreGivesUp(w)
  /\ UNCHANGED <<masterVars, queue, serving, grabs, deaths>>

-------------------------------------------------------------------------------
SlaveStep(w) == Ask(w) \/ AskAgain(w) \/ SlaveStarts(w) \/ Grab(w) \/ EndGrab(w)
                  \/ Store(w)
MasterStep == \/ Serve \/ MasterSaves \/ MasterRestart
              \/ \E c \in serving : Deliver(c) \/ ReplyToNobody(c)
Trouble(w) == LosePatience(w) \/ SlaveDies(w) \/ StoreGivesUp(w)

Next == \/ MasterStep \/ ServeLate \/ MasterCrash
        \/ \E w \in Slaves : SlaveStep(w) \/ Trouble(w)

Spec == Init /\ [][Next]_vars

\* The processes run; cron starts them again.
FairSpec == /\ Spec
            /\ WF_vars(MasterStep)
            /\ \A w \in Slaves : WF_vars(SlaveStep(w))

-------------------------------------------------------------------------------
(* Properties.                                                             *)

\* Every variable holds a value of its type.
TypeOK ==
  /\ M!TypeOK /\ S!TypeOK
  /\ queue \in Seq(Conn) /\ Len(queue) <= MaxQueue
  /\ serving \subseteq Conn /\ Cardinality(serving) <= 1
  /\ grabs \in [Slaves -> [Sites -> [sucess : Nat, failed : Nat]]]
  /\ deaths \in 0..MaxDeaths /\ faults \in 0..MaxFaults

\* Each URL is grabbed once at most by all the slaves together, through
\* crashes of everybody, requests served twice and replies that reach nobody
\* or the wrong slave: it waits in one batch, or its one page is in the file of
\* one batch, sent or not.
GrabbedOnce == S!GrabbedOnce

\* Without delays or losses, worker_site_tb counts a grab only once and on
\* its own site, whoever crashes: an outcome is booked on the site assigned
\* last, and that is the site of the grab it is the outcome of.
DbCountsGrabs ==
  faults = 0 =>
    \A w \in Slaves, s \in Sites :
      /\ db[w][s].sucess <= grabs[w][s].sucess
      /\ db[w][s].failed <= grabs[w][s].failed

\* The outcomes a table counts for a slave, each of them an element.
Counted(t) ==
  UNION {{<<s, "sucess", n>> : n \in 1..t[s].sucess}
           \cup {<<s, "failed", n>> : n \in 1..t[s].failed} : s \in Sites}

\* Each delay or loss adds one outcome at most to what worker_site_tb counts
\* (a request repeated after a lost reply or handled once more from the
\* buffer), on whatever site.
OverCountBounded ==
  \A w \in Slaves :
    Cardinality(Counted(db[w])) <= Cardinality(Counted(grabs[w])) + faults

\* With one slave and no delays or losses, the files in its download/ are
\* stored, through its deaths and a crash of the master: need_store toggles
\* `store' on every request, so one of two requests in the life of a slave is
\* answered with a store command, as long as the master has descriptors left.
FilesAreStored ==
  download # {} /\ fds + Len(queue) + 2 * (MaxDeaths - deaths + 1) <= MaxFds
    ~> download = {}

===============================================================================
