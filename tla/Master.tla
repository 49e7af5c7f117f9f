-------------------------------- MODULE Master --------------------------------
(***************************************************************************)
(* The master of the crawler (master/src/master.h): a single-threaded      *)
(* accept loop that tallies the outcome a slave reports, chooses a command *)
(* for it, and for a grab command advances the cursor of one site file and *)
(* rewrites the cursor file conf/website_grabing.log before it replies.    *)
(*                                                                         *)
(* The handler is cut where a crash matters: after the decision (memory    *)
(* and database are updated), after the cursor file has been opened with   *)
(* ios::trunc, after its new content has been written, and after the reply.*)
(* A descriptor of an accepted connection is never closed, so the          *)
(* descriptor table bounds the requests one process can serve.             *)
(***************************************************************************)
EXTENDS Integers, FiniteSets

CONSTANTS
  Slaves,           \* slave ids, numbers (conf/slave_private.conf)
  Sites,            \* site names, as numbers in the order of std::map
  Length,           \* Length[s]: number of lines of the file urls/<s>
  Urls,             \* <<s, l>>: line l of urls/<s> holds a URL (has a '.')
  AssignUrlNumber,  \* assign_url_number of conf/master.conf
  CurrentVersion,   \* app_version of conf/master.conf
  Versions,         \* app_version values the slaves run
  Outcomes,         \* <<last_cmd_id, last_task_status>> the slaves report
  StartConfs,       \* cursor files an operator may start the master with
  StoreBytes,       \* bytes the uninitialised member `store' may hold
  MaxFds,           \* RLIMIT_NOFILE less the descriptors open at the start
  MaxCrashes        \* bound: crashes of the master in one behaviour

NoSite == 0      \* last_task_site of a slave that was given no site yet
Absent == -1     \* a site without an entry
Nobody == -1     \* no slave

S2M_REQUEST  == 1
M2S_SLEEP    == 2
M2S_UPDATE   == 3
M2S_URL      == 4
R2S_FEEDBACK == 6
M2S_STORE    == 7
ACK          == 10   \* the bare "\f" that answers a feedback
BAD          == 11   \* "-_-!,bad request!\f"

\* What a slave can report: -1 before any command; any status left over from
\* the command before an unknown one (0); 1 after a sleep.
PossibleOutcomes ==
  {<<-1, -1>>, <<0, -1>>, <<0, 0>>, <<0, 1>>, <<M2S_SLEEP, 1>>,
   <<M2S_URL, 0>>, <<M2S_URL, 1>>, <<M2S_STORE, 0>>, <<M2S_STORE, 1>>}

ASSUME MasterAssumption ==
  /\ Nobody \notin Slaves
  /\ Sites \subseteq Nat \ {0}
  /\ IsFiniteSet(Sites)
  /\ Length \in [Sites -> Nat]
  /\ Urls \subseteq Sites \X (Nat \ {0})
  /\ IsFiniteSet(Urls)
  /\ \A u \in Urls : u[2] <= Length[u[1]]
  /\ AssignUrlNumber \in Nat \ {0}
  /\ CurrentVersion \in Nat \ {0}
  /\ Versions \subseteq Nat \ {0}
  /\ Outcomes \subseteq PossibleOutcomes
  /\ StartConfs \subseteq [Sites -> Nat \cup {-1}]
  /\ StoreBytes \subseteq Nat
  /\ MaxFds \in Nat
  /\ MaxCrashes \in Nat

-------------------------------------------------------------------------------
VARIABLES
  pc,         \* where service() is: accept, truncate, save, reply; or down
  fds,        \* descriptors of accepted connections, never closed
  buff,       \* the request left in request_buff
  store,      \* the byte of the member `store'
  sleep_time,
  url_map,    \* the cursors in memory
  slave_map,  \* what is known of each slave
  conf,       \* the cursors in conf/website_grabing.log
  db,         \* worker_site_tb
  response,   \* the reply being prepared
  issued,     \* history: the URLs that reached a slave
  crashes

net == <<pc, fds, buff, response>>
mem == <<store, sleep_time, url_map, slave_map>>
vars == <<pc, fds, buff, store, sleep_time, url_map, slave_map, conf, db,
          response, issued, crashes>>

Cursor   == Nat \cup {Absent}
SiteInfo == [finished_length : Cursor, isfinised : BOOLEAN]
SlaveStatus == [known : BOOLEAN,
                last_task_site : Sites \cup {NoSite},
                good : [Sites \cup {NoSite} -> Nat],
                bad  : [Sites \cup {NoSite} -> Nat]]
Request == [commd_id : {S2M_REQUEST, R2S_FEEDBACK, BAD},
            app_version : Versions \cup {0},
            slave_id : Slaves \cup {Nobody},
            last_cmd_id : {-1, 0, M2S_SLEEP, M2S_URL, M2S_STORE},
            last_task_status : {-1, 0, 1}]
Response == [commd_id : {M2S_SLEEP, M2S_UPDATE, M2S_URL, M2S_STORE, ACK, BAD},
             urls : SUBSET Urls]

NoResponse  == [commd_id |-> ACK, urls |-> {}]
NoCursors   == [s \in Sites |-> Absent]
NoSlave     == [known |-> FALSE, last_task_site |-> NoSite,
                good |-> [s \in Sites \cup {NoSite} |-> 0],
                bad  |-> [s \in Sites \cup {NoSite} |-> 0]]

\* Mutant: a restart reads every site file from its first line.
LoadCursorsFromStart(c) ==
  [s \in Sites |-> [finished_length |-> IF c[s] = Absent THEN Absent ELSE 0,
                    isfinised |-> FALSE]]

\* config_website: an entry per line of the cursor file, none finished.
LoadCursors(c) ==
  [s \in Sites |-> [finished_length |-> c[s], isfinised |-> FALSE]]

\* Mutant: the line before the last one read is saved.
SavedCursorsOneBehind ==
  [s \in Sites |-> LET l == url_map[s].finished_length
                   IN IF l > 0 THEN l - 1 ELSE l]

SavedCursors == [s \in Sites |-> url_map[s].finished_length]

-------------------------------------------------------------------------------
(* Requests.                                                               *)

\* init_request_cmd_str of a slave.
SlaveRequests ==
  {[commd_id |-> S2M_REQUEST, app_version |-> v, slave_id |-> w,
    last_cmd_id |-> o[1], last_task_status |-> o[2]] :
     v \in Versions, w \in Slaves, o \in Outcomes}

\* A command that changes no cursor and no count; its fields are not read.
Simple(cmd) == [commd_id |-> cmd, app_version |-> 0, slave_id |-> Nobody,
                last_cmd_id |-> 0, last_task_status |-> 0]
Feedback == Simple(R2S_FEEDBACK)   \* feedback_status of the repertory
Garbage  == Simple(BAD)            \* whatever has no usable commd_id

\* A second read() overwrites what the first one stored, so of a request that
\* arrives in two pieces only the tail is parsed.  The fields travel in the
\* order of their keys: application_version comes first, and when only it is
\* cut off atoi("") makes the version 0.  A shorter tail has no commd_id.
Tail(r) == [r EXCEPT !.app_version = 0]

-------------------------------------------------------------------------------
(* The handler.                                                            *)

\* Mutant: the bit is set when it should be cleared.
ToggleInverted(b) == IF b % 2 = 0 THEN b - 1 ELSE b + 1

\* Mutant: the test stub is gone, and nothing sets the member any more.
ToggleStuck(b) == b

\* `store = !store' on the byte of an uninitialised bool, as compiled
\* without optimisation: an exclusive or with 1, not a comparison with 0.
Toggle(b) == IF b % 2 = 0 THEN b + 1 ELSE b - 1

\* Mutant: a slave that starts again is taken for a new one.
TallyForgetsRestarted(r) ==
  LET w == slave_map[r.slave_id]
      s == w.last_task_site
  IN [slave_map EXCEPT ![r.slave_id] =
        IF ~w.known \/ r.last_cmd_id = -1
          THEN [NoSlave EXCEPT !.known = TRUE]
        ELSE IF r.last_task_status # 0
             THEN [w EXCEPT !.good[s] = @ + 1]
             ELSE [w EXCEPT !.bad[s] = @ + 1]]

\* update_slave_status_in_memory: the outcome is booked on the site that was
\* assigned last, whatever the command it is the outcome of, and any status
\* but 0 is good.  A slave seen for the first time gets an empty entry.
Tally(r) ==
  LET w == slave_map[r.slave_id]
      s == w.last_task_site
  IN [slave_map EXCEPT ![r.slave_id] =
        IF ~w.known THEN [NoSlave EXCEPT !.known = TRUE]
        ELSE IF r.last_task_status # 0
             THEN [w EXCEPT !.good[s] = @ + 1]
             ELSE [w EXCEPT !.bad[s] = @ + 1]]

\* Mutant: the outcome of every command goes to the row.
TallyDbEveryCommand(r) ==
  LET s == slave_map[r.slave_id].last_task_site
  IN IF s = NoSite THEN db
     ELSE IF r.last_task_status # 0
          THEN [db EXCEPT ![r.slave_id][s].sucess = @ + 1]
          ELSE [db EXCEPT ![r.slave_id][s].failed = @ + 1]

\* Mutant: a status of 1 is taken for a failure.
TallyDbInverted(r) ==
  LET s == slave_map[r.slave_id].last_task_site
  IN IF r.last_cmd_id # M2S_URL \/ s = NoSite THEN db
     ELSE IF r.last_task_status = 1
          THEN [db EXCEPT ![r.slave_id][s].failed = @ + 1]
          ELSE [db EXCEPT ![r.slave_id][s].sucess = @ + 1]

\* update_slave_site_status_to_db: the outcome of a grab is added to the row
\* of the site recorded in memory; there is no row for the empty site name.
TallyDb(r) ==
  LET s == slave_map[r.slave_id].last_task_site
  IN IF r.last_cmd_id # M2S_URL \/ s = NoSite THEN db
     ELSE IF r.last_task_status # 0
          THEN [db EXCEPT ![r.slave_id][s].sucess = @ + 1]
          ELSE [db EXCEPT ![r.slave_id][s].failed = @ + 1]

Unfinished ==
  {s \in Sites : url_map[s].finished_length # Absent /\ ~url_map[s].isfinised}

\* get_min_bad_of_sites: the first site, in the order of the map, among the
\* unfinished ones on which this slave failed least.
MinBadSite(w, s) ==
  /\ s \in Unfinished
  /\ \A t \in Unfinished : \/ w.bad[s] < w.bad[t]
                           \/ w.bad[s] = w.bad[t] /\ s <= t

\* The URLs of the lines of urls/<s> after line p up to line q.
Between(s, p, q) == {u \in Urls : u[1] = s /\ p < u[2] /\ u[2] <= q}

\* read_sitefile_lines stops after the line q of the last URL it needs ...
ReadStopsAt(s, p, q) ==
  /\ <<s, q>> \in Between(s, p, q)
  /\ Cardinality(Between(s, p, q)) = AssignUrlNumber

\* Mutant: a file that ends with a full batch has no batch.
ReadMeetsEofEarly(s, p) ==
  Cardinality(Between(s, p, Length[s])) <= AssignUrlNumber

\* ... or meets the end of the file first.
ReadMeetsEof(s, p) ==
  Cardinality(Between(s, p, Length[s])) < AssignUrlNumber

Respond(cmd, urls) == response' = [commd_id |-> cmd, urls |-> urls]

Store(r) ==
  /\ store' # 0
  /\ Respond(M2S_STORE, {})
  /\ slave_map' = Tally(r)
  /\ pc' = "reply"
  /\ UNCHANGED <<sleep_time, url_map>>

\* need_sleep: out of the working hours, a slave whose store succeeded.
Sleep(r, isworktime) ==
  /\ store' = 0
  /\ ~isworktime /\ r.last_cmd_id = M2S_STORE /\ r.last_task_status = 1
  /\ sleep_time' = 3600
  /\ Respond(M2S_SLEEP, {})
  /\ slave_map' = Tally(r)
  /\ pc' = "reply"
  /\ UNCHANGED url_map

Awake(r, isworktime) ==
  /\ store' = 0
  /\ isworktime \/ r.last_cmd_id # M2S_STORE \/ r.last_task_status # 1
  /\ UNCHANGED sleep_time

Update(r, isworktime) ==
  /\ Awake(r, isworktime)
  /\ r.app_version < CurrentVersion
  /\ Respond(M2S_UPDATE, {})
  /\ slave_map' = Tally(r)
  /\ pc' = "reply"
  /\ UNCHANGED url_map

\* init_assign_cmd when every site is finished: sleep.
NothingToAssign(r, isworktime) ==
  /\ Awake(r, isworktime)
  /\ r.app_version >= CurrentVersion
  /\ Unfinished = {}
  /\ Respond(M2S_SLEEP, {})
  /\ slave_map' = Tally(r)
  /\ pc' = "reply"
  /\ UNCHANGED url_map

\* A full batch: the site becomes the slave's last_task_site and the cursor
\* in memory advances.
AssignBatch(r, isworktime, s, q) ==
  /\ Awake(r, isworktime)
  /\ r.app_version >= CurrentVersion
  /\ MinBadSite(Tally(r)[r.slave_id], s)
  /\ ReadStopsAt(s, url_map[s].finished_length, q)
  /\ slave_map' = [Tally(r) EXCEPT ![r.slave_id].last_task_site = s]
  /\ url_map' = [url_map EXCEPT ![s].finished_length = q]
  /\ Respond(M2S_URL, Between(s, url_map[s].finished_length, q))
  /\ pc' = "truncate"

\* Mutant: the cursors are not saved when a file ends.
AssignEofUnsaved(r, isworktime, s) ==
  /\ Awake(r, isworktime)
  /\ r.app_version >= CurrentVersion
  /\ MinBadSite(Tally(r)[r.slave_id], s)
  /\ ReadMeetsEof(s, url_map[s].finished_length)
  /\ slave_map' = Tally(r)
  /\ url_map' = [url_map EXCEPT ![s] = [finished_length |-> Length[s],
                                       isfinised |-> TRUE]]
  /\ Respond(M2S_SLEEP, {})
  /\ pc' = "reply"

\* The end of the file: the site is finished, the URLs read so far are
\* dropped and the slave is told to sleep.
AssignEof(r, isworktime, s) ==
  /\ Awake(r, isworktime)
  /\ r.app_version >= CurrentVersion
  /\ MinBadSite(Tally(r)[r.slave_id], s)
  /\ ReadMeetsEof(s, url_map[s].finished_length)
  /\ slave_map' = Tally(r)
  /\ url_map' = [url_map EXCEPT
       ![s] = [finished_length |->
                 IF @.finished_length > Length[s] THEN @.finished_length
                 ELSE Length[s],
               isfinised |-> TRUE]]
  /\ Respond(M2S_SLEEP, {})
  /\ pc' = "truncate"

HandSlaveRequest(r, isworktime) ==
  \/ Store(r)
  \/ Sleep(r, isworktime)
  \/ Update(r, isworktime)
  \/ NothingToAssign(r, isworktime)
  \/ \E s \in Sites : AssignEof(r, isworktime, s)
  \/ \E u \in Urls : AssignBatch(r, isworktime, u[1], u[2])

\* hand_request on a string that parses to r.  The clock is read once, by
\* need_sleep.
HandRequest(r) ==
  /\ buff' = r
  /\ \/ /\ r.commd_id = S2M_REQUEST
        /\ store' = Toggle(store)
        /\ db' = TallyDb(r)
        /\ \E isworktime \in BOOLEAN : HandSlaveRequest(r, isworktime)
     \/ /\ r.commd_id # S2M_REQUEST
        /\ Respond(IF r.commd_id = R2S_FEEDBACK THEN ACK ELSE BAD, {})
        /\ pc' = "reply"
        /\ UNCHANGED <<mem, db>>

\* accept() returned a descriptor; it fails for ever once the table is full.
Accept ==
  /\ pc = "accept"
  /\ fds < MaxFds
  /\ fds' = fds + 1
  /\ UNCHANGED <<conf, issued, crashes>>

\* The whole request is read.
ServeWhole(r) == Accept /\ HandRequest(r)

\* The request comes in two pieces and its tail still has a commd_id.
ServeSplit(r) == Accept /\ HandRequest(Tail(r))

\* The tail has none, or the peer closed without a word.
ServeGarbage == Accept /\ HandRequest(Garbage)

\* The peer is silent until SO_RCVTIMEO expires: the loop breaks and the
\* request still in the buffer is handled once more.
ServeSilent == Accept /\ HandRequest(buff)

\* GlobalHelper::log with ios::trunc: opening the file empties it ...
TruncateConf ==
  /\ pc = "truncate"
  /\ conf' = NoCursors
  /\ pc' = "save"
  /\ UNCHANGED <<fds, buff, mem, db, response, issued, crashes>>

\* ... closing it writes the cursors of every site.
SaveConf ==
  /\ pc = "save"
  /\ conf' = SavedCursors
  /\ pc' = "reply"
  /\ UNCHANGED <<fds, buff, mem, db, response, issued, crashes>>

\* The reply reaches the slave, or is lost with the connection.
Reply(received) ==
  /\ pc = "reply"
  /\ issued' = IF received THEN issued \cup response.urls ELSE issued
  /\ response' = NoResponse
  /\ pc' = "accept"
  /\ UNCHANGED <<fds, buff, mem, conf, db, crashes>>

Crash ==
  /\ pc # "down"
  /\ crashes < MaxCrashes
  /\ crashes' = crashes + 1
  /\ pc' = "down"
  /\ fds' = 0
  /\ buff' = Garbage
  /\ store' = 0
  /\ sleep_time' = 2
  /\ url_map' = LoadCursors(NoCursors)
  /\ slave_map' = [w \in Slaves |-> NoSlave]
  /\ response' = NoResponse
  /\ UNCHANGED <<conf, db, issued>>

\* master_run.sh, from cron: start the master when no process is left.
Restart ==
  /\ pc = "down"
  /\ pc' = "accept"
  /\ store' \in StoreBytes
  /\ url_map' = LoadCursors(conf)
  /\ UNCHANGED <<fds, buff, sleep_time, slave_map, conf, db, response, issued,
                 crashes>>

Init ==
  /\ pc = "down"
  /\ fds = 0
  /\ buff = Garbage
  /\ store = 0
  /\ sleep_time = 2
  /\ url_map = LoadCursors(NoCursors)
  /\ slave_map = [w \in Slaves |-> NoSlave]
  /\ conf \in StartConfs
  /\ db = [w \in Slaves |-> [s \in Sites |-> [sucess |-> 0, failed |-> 0]]]
  /\ response = NoResponse
  /\ issued = {}
  /\ crashes = 0

Serve ==
  \/ \E r \in SlaveRequests : ServeWhole(r) \/ ServeSplit(r)
  \/ ServeWhole(Feedback)
  \/ ServeGarbage
  \/ ServeSilent

Work == TruncateConf \/ SaveConf \/ \E received \in BOOLEAN : Reply(received)

Next == Serve \/ Work \/ Crash \/ Restart

Spec == Init /\ [][Next]_vars

-------------------------------------------------------------------------------
(* Properties.                                                             *)

\* Every variable holds a value of its type.
TypeOK ==
  /\ pc \in {"accept", "truncate", "save", "reply", "down"}
  /\ fds \in 0..MaxFds
  /\ buff \in Request
  /\ store \in Nat
  /\ sleep_time \in {2, 3600}
  /\ url_map \in [Sites -> SiteInfo]
  /\ slave_map \in [Slaves -> SlaveStatus]
  /\ conf \in [Sites -> Cursor]
  /\ db \in [Slaves -> [Sites -> [sucess : Nat, failed : Nat]]]
  /\ response \in Response
  /\ issued \subseteq Urls
  /\ crashes \in 0..MaxCrashes

\* The cursors a restart would find, or the ones about to be written.
SavedCursor(s) == IF pc = "save" THEN url_map[s].finished_length ELSE conf[s]

\* A URL that can still be handed out: it is in the reply being prepared, or
\* its line is beyond the saved cursor of its site.
Pending(u) ==
  \/ u \in response.urls
  \/ SavedCursor(u[1]) # Absent /\ SavedCursor(u[1]) < u[2]

\* At most once: a URL that has reached a slave can not be handed out again,
\* by this process or by any later one that loads the cursor file
\* (read_urls_and_record saves the cursor before service() writes the reply).
NoReissue == \A u \in issued : ~Pending(u)

\* Write-ahead: whenever the master listens or replies, the cursor file holds
\* exactly the cursors in memory (read_urls_and_record rewrites it after a
\* batch and after an end of file alike).
CursorFileMirrorsMemory == pc \in {"accept", "reply"} => conf = SavedCursors

\* While it lives, the master moves a cursor only over the batch it puts in
\* the reply, or over fewer than assign_url_number URLs at the end of a file
\* that it marks as finished (read_sitefile_lines, read_urls_and_record).
SkipsOnlyATail ==
  [][pc # "down" /\ pc' # "down" =>
       \A s \in Sites :
         LET from == url_map[s].finished_length
             to   == url_map'[s].finished_length
         IN to # from =>
              /\ from < to
              /\ \/ Between(s, from, to) = response'.urls
                 \/ /\ url_map'[s].isfinised
                    /\ Cardinality(Between(s, from, to)) < AssignUrlNumber]_vars

\* As long as the master has not crashed, the outcomes in worker_site_tb are
\* among those counted in memory: the database gets only the outcomes of
\* grabs, memory gets every outcome (hand_request, section 2).
DbNotAheadOfMemory ==
  crashes = 0 =>
    \A w \in Slaves, s \in Sites :
      /\ db[w][s].failed <= slave_map[w].bad[s]
      /\ db[w][s].sucess <= slave_map[w].good[s]

\* The master implements the ledger: what it does to the catalogue, through
\* crashes, lost replies and stale requests, is to give a batch, to drop at
\* most a batch, or to drop everything (a crash between the truncation of
\* the cursor file and its rewriting).
LedgerState == [u \in Urls |-> IF u \in issued THEN "given"
                               ELSE IF Pending(u) THEN "todo" ELSE "lost"]
Ledger == INSTANCE UrlLedger WITH
  BatchSize <- AssignUrlNumber, ledger <- LedgerState
LedgerSpec == Ledger!Spec

===============================================================================
