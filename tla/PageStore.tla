------------------------------ MODULE PageStore -------------------------------
(***************************************************************************)
(* Storing pages: the slaves' store_page / remote_store_page               *)
(* (slave/src/slaver.h, slaver.cpp) and the repertory's service            *)
(* (repertory/src/rep.h).  A slave sends a command, waits for "\f", writes *)
(* the archive of one file and removes the file as soon as the write       *)
(* returned.  The repertory serves one connection at a time, in the order  *)
(* in which they were made.                                                *)
(*                                                                         *)
(* A connection outlives the process at either end: what a slave wrote     *)
(* before it died is still read, and a slave may write to a repertory that *)
(* is gone.                                                                *)
(***************************************************************************)
EXTENDS Integers, FiniteSets

CONSTANTS
  Slaves,
  Files,          \* the files in the slaves' download/, named by task id
  Owner,          \* the slave that grabbed a file
  NoFile,
  Tries,          \* loop_try_time_in_store: 5
  FeedbackAfter,  \* files between two feedbacks: 5
  MaxFds,         \* RLIMIT_NOFILE of the repertory less what it starts with
  MaxConns,       \* bound: connections in one behaviour
  MaxCrashes,     \* bound: crashes of slaves
  MaxFaults       \* bound: crashes and read timeouts of the repertory

ASSUME StoreAssumption ==
  /\ IsFiniteSet(Files)
  /\ Owner \in [Files -> Slaves]
  /\ NoFile \notin Files
  /\ Tries \in Nat
  /\ FeedbackAfter \in Nat \ {0}
  /\ MaxFds \in Nat
  /\ MaxConns \in Nat
  /\ MaxCrashes \in Nat
  /\ MaxFaults \in Nat

VARIABLES
  spc,          \* where a slave is in store_page
  todo,         \* its fnames_evc, less the files taken from it
  cur,          \* the file it is storing
  tries,        \* loop_store_total
  link,         \* its open connection, 0 if there is none
  page,         \* the files still in the slaves' download/
  conns,        \* the connections, in the order they were made
  made,         \* how many there are
  at,           \* how many of them were accepted; the last is being served
  rpc,          \* where the repertory is in service
  fds,          \* its descriptors of accepted connections, never closed
  archive,      \* pages_gzip/<file>.tar.gz: none, cut short, or full
  read_totals,
  crashes, faults

slave == <<spc, todo, cur, tries, link, page>>
rep   == <<at, rpc, fds, archive, read_totals>>
vars  == <<spc, todo, cur, tries, link, page, conns, made, at, rpc, fds,
           archive, read_totals, crashes, faults>>

ConnIds == 1..MaxConns

\* sent: the command was not written, is unread, or was read.  ended: the
\* slave's end is closed.  peer: the repertory's end as the slave sees it.
Conn == [file : Files \cup {NoFile}, sent : {"no", "yes", "read"},
         body : {"none", "cut", "full"}, ended : BOOLEAN,
         replied : BOOLEAN, peer : {"open", "fin", "rst"}]

NewConn(f) == [file |-> f, sent |-> "no", body |-> "none", ended |-> FALSE,
               replied |-> FALSE, peer |-> "open"]

Init ==
  /\ spc = [w \in Slaves |-> "idle"]
  /\ todo = [w \in Slaves |-> {}]
  /\ cur = [w \in Slaves |-> NoFile]
  /\ tries = [w \in Slaves |-> 0]
  /\ link = [w \in Slaves |-> 0]
  /\ page = Files
  /\ conns = [i \in ConnIds |-> NewConn(NoFile)]
  /\ made = 0 /\ at = 0
  /\ rpc = "down" /\ fds = 0
  /\ archive = [f \in Files |-> "none"]
  /\ read_totals = 0
  /\ crashes = 0 /\ faults = 0

-------------------------------------------------------------------------------
(* A slave that was told to STORE.                                         *)

\* store_page returns, or its process ends: its local variables are gone.
Leave(w) ==
  /\ spc' = [spc EXCEPT ![w] = "idle"]
  /\ todo' = [todo EXCEPT ![w] = {}]
  /\ cur' = [cur EXCEPT ![w] = NoFile]
  /\ tries' = [tries EXCEPT ![w] = 0]

\* tar_pages_and_get_fnames_vec: every file is archived anew and listed.
BeginStore(w) ==
  /\ spc[w] = "idle"
  /\ \E f \in page : Owner[f] = w
  /\ todo' = [todo EXCEPT ![w] = {f \in page : Owner[f] = w}]
  /\ spc' = [spc EXCEPT ![w] = "next"]
  /\ UNCHANGED <<cur, tries, link, page, conns, made, rep, crashes, faults>>

NextFile(w, f) ==
  /\ spc[w] = "next"
  /\ f \in todo[w]
  /\ todo' = [todo EXCEPT ![w] = @ \ {f}]
  /\ cur' = [cur EXCEPT ![w] = f]
  /\ tries' = [tries EXCEPT ![w] = 0]
  /\ spc' = [spc EXCEPT ![w] = "connect"]
  /\ UNCHANGED <<link, page, conns, made, rep, crashes, faults>>

EndStore(w) ==
  /\ spc[w] = "next"
  /\ todo[w] = {}
  /\ Leave(w)
  /\ UNCHANGED <<link, page, conns, made, rep, crashes, faults>>

Connect(w) ==
  /\ spc[w] = "connect"
  /\ rpc # "down"
  /\ made < MaxConns
  /\ made' = made + 1
  /\ conns' = [conns EXCEPT ![made + 1] = NewConn(cur[w])]
  /\ link' = [link EXCEPT ![w] = made + 1]
  /\ spc' = [spc EXCEPT ![w] = "command"]
  /\ UNCHANGED <<todo, cur, tries, page, rep, crashes, faults>>

\* The slave's end of its connection is closed; b is what it wrote of the file.
Close(w, b) ==
  /\ conns' = IF link[w] = 0 THEN conns
              ELSE [conns EXCEPT ![link[w]].ended = TRUE, ![link[w]].body = b]
  /\ link' = [link EXCEPT ![w] = 0]

\* remote_store_page returned false: wait and try again, or leave store_page.
TryAgain(w) ==
  /\ Close(w, "none")
  /\ \/ /\ tries[w] + 1 > Tries
        /\ Leave(w)
     \/ /\ tries[w] + 1 <= Tries
        /\ tries' = [tries EXCEPT ![w] = @ + 1]
        /\ spc' = [spc EXCEPT ![w] = "connect"]
        /\ UNCHANGED <<todo, cur>>
  /\ UNCHANGED <<page, made, rep, crashes, faults>>

\* The process dies and cron starts it again.
StartAgain(w) == Leave(w) /\ UNCHANGED <<page, made, rep, faults>>

ConnectFails(w) ==
  /\ spc[w] = "connect"
  /\ rpc = "down"
  /\ TryAgain(w)

SendCommand(w) ==
  /\ spc[w] = "command"
  /\ conns[link[w]].peer # "rst"
  /\ conns' = [conns EXCEPT ![link[w]].sent = "yes"]
  /\ spc' = [spc EXCEPT ![w] = "await"]
  /\ UNCHANGED <<todo, cur, tries, link, page, made, rep, crashes, faults>>

\* The reply loop ends with "\f", with an end of file or with an error, and
\* the slave goes on in every case.  The socket has no read timeout.
AwaitReply(w) ==
  /\ spc[w] = "await"
  /\ conns[link[w]].replied \/ conns[link[w]].peer # "open"
  /\ spc' = [spc EXCEPT ![w] = "content"]
  /\ UNCHANGED <<todo, cur, tries, link, page, conns, made, rep, crashes,
                 faults>>

\* What counts is that write() did not return -1.
SendContent(w) ==
  /\ spc[w] = "content"
  /\ conns[link[w]].peer # "rst"
  /\ Close(w, "full")
  /\ spc' = [spc EXCEPT ![w] = "stored"]
  /\ UNCHANGED <<todo, cur, tries, page, made, rep, crashes, faults>>

\* Mutant: what could not be written is taken for written.
WriteFailsUnnoticed(w) ==
  /\ spc[w] \in {"command", "content"}
  /\ conns[link[w]].peer = "rst"
  /\ Close(w, "none")
  /\ spc' = [spc EXCEPT ![w] = "stored"]
  /\ UNCHANGED <<todo, cur, tries, page, made, rep, crashes, faults>>

\* A write to a connection that was reset fails, or SIGPIPE kills the slave.
WriteFails(w) ==
  /\ spc[w] \in {"command", "content"}
  /\ conns[link[w]].peer = "rst"
  /\ \/ TryAgain(w)
     \/ Close(w, "none") /\ StartAgain(w) /\ UNCHANGED crashes

\* Mutant: the whole of download/ is removed.
RemovePageAll(w) ==
  /\ spc[w] = "stored"
  /\ page' = {}
  /\ spc' = [spc EXCEPT ![w] = "next"]
  /\ UNCHANGED <<todo, cur, tries, link, conns, made, rep, crashes, faults>>

RemovePage(w) ==
  /\ spc[w] = "stored"
  /\ page' = page \ {cur[w]}
  /\ spc' = [spc EXCEPT ![w] = "next"]
  /\ UNCHANGED <<todo, cur, tries, link, conns, made, rep, crashes, faults>>

\* A slave that dies while it writes the archive leaves a part of it.
SlaveCrash(w) ==
  /\ spc[w] # "idle"
  /\ crashes < MaxCrashes
  /\ crashes' = crashes + 1
  /\ Close(w, "none") \/ (spc[w] = "content" /\ Close(w, "cut"))
  /\ StartAgain(w)

\* The answer of a host whose process is gone to data that arrives late.
ResetArrives(w) ==
  /\ link[w] # 0
  /\ conns[link[w]].peer = "fin" /\ conns[link[w]].sent = "yes"
  /\ conns' = [conns EXCEPT ![link[w]].peer = "rst"]
  /\ UNCHANGED <<slave, made, rep, crashes, faults>>

-------------------------------------------------------------------------------
(* The repertory.                                                          *)

RepAccept ==
  /\ rpc = "accept"
  /\ at < made
  /\ fds < MaxFds
  /\ at' = at + 1
  /\ fds' = fds + 1
  /\ rpc' = "command"
  /\ UNCHANGED <<slave, conns, made, archive, read_totals, crashes, faults>>

RepReadCommand ==
  /\ rpc = "command"
  /\ conns[at].sent = "yes"
  /\ conns' = [conns EXCEPT ![at].sent = "read"]
  /\ rpc' = "reply"
  /\ UNCHANGED <<slave, made, at, fds, archive, read_totals, crashes, faults>>

\* End of file before a command: not a store request.
RepNoCommand ==
  /\ rpc = "command"
  /\ conns[at].sent = "no" /\ conns[at].ended
  /\ rpc' = "accept"
  /\ UNCHANGED <<slave, conns, made, at, fds, archive, read_totals, crashes,
                 faults>>

RepReply ==
  /\ rpc = "reply"
  /\ conns' = [conns EXCEPT ![at].replied = TRUE]
  /\ rpc' = "open"
  /\ UNCHANGED <<slave, made, at, fds, archive, read_totals, crashes, faults>>

\* Mutant: the task id does not reach the name, so that all share one archive.
RepOpenUnnamed ==
  /\ rpc = "open"
  /\ archive' = [f \in Files |-> "cut"]
  /\ rpc' = "body"
  /\ UNCHANGED <<slave, conns, made, at, fds, read_totals, crashes, faults>>

\* open with O_TRUNC.
RepOpen ==
  /\ rpc = "open"
  /\ archive' = [archive EXCEPT ![conns[at].file] = "cut"]
  /\ rpc' = "body"
  /\ UNCHANGED <<slave, conns, made, at, fds, read_totals, crashes, faults>>

\* Mutant: the count is compared before it is increased.
FileSavedLate ==
  IF read_totals > FeedbackAfter
    THEN read_totals' = 1 /\ rpc' = "feedback"
    ELSE read_totals' = read_totals + 1 /\ rpc' = "accept"

\* "5.7 ok,file saved!" whatever was read; every so many files a feedback.
FileSaved ==
  IF read_totals + 1 > FeedbackAfter
    THEN read_totals' = 1 /\ rpc' = "feedback"
    ELSE read_totals' = read_totals + 1 /\ rpc' = "accept"

RepReadBody ==
  /\ rpc = "body"
  /\ conns[at].body = "full"
  /\ archive' = [archive EXCEPT ![conns[at].file] = "full"]
  /\ FileSaved
  /\ UNCHANGED <<slave, conns, made, at, fds, crashes, faults>>

\* Mutant: an end of file before any data goes unnoticed.
RepReadEofAfterData ==
  /\ rpc = "body"
  /\ conns[at].body = "cut" /\ conns[at].ended
  /\ FileSaved
  /\ UNCHANGED <<slave, conns, made, at, fds, archive, crashes, faults>>

RepReadEof ==
  /\ rpc = "body"
  /\ conns[at].body # "full" /\ conns[at].ended
  /\ FileSaved
  /\ UNCHANGED <<slave, conns, made, at, fds, archive, crashes, faults>>

\* feedback_status, whose outcome nobody reads.
RepFeedback ==
  /\ rpc = "feedback"
  /\ rpc' = "accept"
  /\ UNCHANGED <<slave, conns, made, at, fds, archive, read_totals, crashes,
                 faults>>

\* SO_RCVTIMEO expires: the connection is left open and never read again.
RepTimeout ==
  /\ faults < MaxFaults
  /\ faults' = faults + 1
  /\ \/ /\ rpc = "command"
        /\ conns[at].sent = "no" /\ ~conns[at].ended
        /\ rpc' = "accept"
        /\ UNCHANGED read_totals
     \/ /\ rpc = "body"
        /\ ~conns[at].ended
        /\ FileSaved
  /\ UNCHANGED <<slave, conns, made, at, fds, archive, crashes>>

\* The kernel closes the descriptors and the backlog: with a reset where
\* something is unread or nobody accepted, in good order elsewhere.  A file
\* that was being written to such a connection is written to nobody.
RepCrash ==
  /\ rpc # "down"
  /\ faults < MaxFaults
  /\ faults' = faults + 1
  /\ rpc' = "down"
  /\ fds' = 0 /\ read_totals' = 0
  /\ at' = made
  /\ conns' = [i \in ConnIds |->
       IF i > made \/ conns[i].peer # "open" THEN conns[i]
       ELSE IF i > at \/ conns[i].sent = "yes"
            THEN [conns[i] EXCEPT !.peer = "rst"]
            ELSE [conns[i] EXCEPT !.peer = "fin"]]
  /\ UNCHANGED <<slave, made, archive, crashes>>

RepRestart ==
  /\ rpc = "down"
  /\ rpc' = "accept"
  /\ UNCHANGED <<slave, conns, made, at, fds, archive, read_totals, crashes,
                 faults>>

-------------------------------------------------------------------------------
SlaveStep(w) ==
  \/ BeginStore(w) \/ (\E f \in Files : NextFile(w, f)) \/ EndStore(w)
  \/ Connect(w) \/ ConnectFails(w)
  \/ SendCommand(w) \/ AwaitReply(w) \/ SendContent(w) \/ WriteFails(w)
  \/ RemovePage(w)

RepStep ==
  \/ RepAccept \/ RepReadCommand \/ RepNoCommand \/ RepReply \/ RepOpen
  \/ RepReadBody \/ RepReadEof \/ RepFeedback \/ RepRestart

Next ==
  \/ \E w \in Slaves : SlaveStep(w) \/ SlaveCrash(w) \/ ResetArrives(w)
  \/ RepStep \/ RepTimeout \/ RepCrash

Spec == Init /\ [][Next]_vars

\* The processes run, and the master tells a slave again and again to store.
FairSpec == Spec /\ WF_vars(RepStep) /\ \A w \in Slaves : WF_vars(SlaveStep(w))

-------------------------------------------------------------------------------
(* Properties.                                                             *)

\* Every variable holds a value of its type.
TypeOK ==
  /\ spc \in [Slaves -> {"idle", "next", "connect", "command", "await",
                         "content", "stored"}]
  /\ todo \in [Slaves -> SUBSET Files]
  /\ cur \in [Slaves -> Files \cup {NoFile}]
  /\ tries \in [Slaves -> Nat]
  /\ link \in [Slaves -> 0..MaxConns]
  /\ page \subseteq Files
  /\ conns \in [ConnIds -> Conn]
  /\ made \in 0..MaxConns /\ at \in 0..made
  /\ rpc \in {"accept", "command", "reply", "open", "body", "feedback", "down"}
  /\ fds \in 0..MaxFds
  /\ archive \in [Files -> {"none", "cut", "full"}]
  /\ read_totals \in 0..FeedbackAfter
  /\ crashes \in 0..MaxCrashes /\ faults \in 0..MaxFaults

\* The whole of f is on its way and the repertory is going to read it.
Arriving(f) ==
  /\ rpc \in {"open", "body"}
  /\ conns[at].file = f /\ conns[at].body = "full"

\* The slave removed f and the repertory neither has nor gets the whole of it.
Lost == {f \in Files : f \notin page /\ archive[f] # "full" /\ ~Arriving(f)}

\* A file is removed before anybody confirmed that it arrived, yet a crash of
\* a slave loses nothing, and each crash or read timeout of the repertory
\* costs at most one file, whatever is queued and half-done at that moment.
LossesBoundedByFaults == Cardinality(Lost) <= faults

\* Once the slave has removed a file that was saved whole, no connection left
\* over from an earlier attempt truncates the archive again.
ArchiveIsFinal ==
  [][\A f \in Files : f \notin page /\ archive[f] = "full" /\ ~Arriving(f) =>
       archive'[f] = "full"]_vars

\* Every file is kept, then handed over; no step loses two.
Custody == INSTANCE PageCustody WITH
  custody <- [f \in Files |-> IF f \in page THEN "kept"
                              ELSE IF f \in Lost THEN "lost" ELSE "handed"]
CustodySpec == Custody!Spec

\* While the repertory neither crashes nor times out, every file ends up whole
\* in pages_gzip and stays there, through crashes of the slaves: a fault may
\* cost a file (LossesBoundedByFaults), nothing else does.
EveryPageIsArchived ==
  <>(faults > 0) \/ \A f \in Files : <>[](f \notin page /\ archive[f] = "full")

===============================================================================
