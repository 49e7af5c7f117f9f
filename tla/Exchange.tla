------------------------------- MODULE Exchange --------------------------------
(***************************************************************************)
(* One request of a slave to the master and the answer to it:              *)
(* slaver::request_task (slave/src/slaver.cpp) with socket_connect_timeout *)
(* and set_socket (slave/src/slaver.h), system call by system call,        *)
(* against the kernel and a master that answers in pieces, late, partly or *)
(* not at all.  work() asks again until a request succeeds.                *)
(*                                                                         *)
(* connect() is made on a non-blocking socket and its outcome is learnt    *)
(* from select() and SO_ERROR; errno is not looked at.                     *)
(***************************************************************************)
EXTENDS Naturals, Sequences, SequencesExt

CONSTANTS Chars,         \* the characters of the answers
          Replies,       \* what the master may answer with
          FF,            \* "\f", the last character of an answer
          ReadBuffSize   \* READ_BUFF_SIZE, 1448 in the code

ASSUME ExchangeAssumption ==
  /\ Replies \subseteq Seq(Chars)
  /\ \A r \in Replies : r # <<>> /\ Last(r) = FF
  /\ \A r \in Replies : \A i \in 1..(Len(r) - 1) : r[i] # FF
  /\ ReadBuffSize \in Nat \ {0}

VARIABLES
  pc,        \* where request_task is
  ret,       \* what socket_connect_timeout or request_task returns
  str_cmd,   \* the answer as far as it was read
  fds,       \* descriptors the slave holds
  blocking,  \* FIONBIO of the socket
  link,      \* the connection: closed, syn, up, reset
  so_error,  \* an error of the connection nobody has read yet
  inbox,     \* received, not yet read
  outbox,    \* what the master has still to send on this connection
  fin,       \* the master closed its end
  reply      \* history: the answer the master chose for this connection

slave  == <<pc, ret, str_cmd, fds, blocking>>
kernel == <<link, so_error, inbox, outbox, fin, reply>>
vars   == <<pc, ret, str_cmd, fds, blocking, link, so_error, inbox, outbox,
            fin, reply>>

Init ==
  /\ pc = "idle" /\ ret = FALSE /\ str_cmd = <<>>
  /\ fds = 0 /\ blocking = TRUE
  /\ link = "closed" /\ so_error = FALSE
  /\ inbox = <<>> /\ outbox = <<>> /\ fin = FALSE /\ reply = <<>>

-------------------------------------------------------------------------------
(* The slave.                                                              *)

\* str_cmd = "" at the begin of request_task.
ClearedAnswer == <<>>

\* socket(), set_socket and FIONBIO; the master's side of the connection to
\* come is drawn here.
Open ==
  /\ pc = "idle"
  /\ str_cmd' = ClearedAnswer
  /\ ret' = FALSE
  /\ fds' = fds + 1
  /\ blocking' = FALSE
  /\ link' = "closed" /\ so_error' = FALSE
  /\ inbox' = <<>> /\ fin' = FALSE
  /\ reply' \in Replies
  /\ outbox' = reply'
  /\ pc' = "connect"

\* socket() found no free descriptor: close(-1), and the request failed.
OpenFails ==
  /\ pc = "idle"
  /\ str_cmd' = ClearedAnswer
  /\ ret' = FALSE
  /\ pc' = "sleep"
  /\ UNCHANGED <<fds, blocking, kernel>>

\* connect() returns 0: the master is on this host.
ConnectAtOnce ==
  /\ pc = "connect"
  /\ link' = "up"
  /\ ret' = TRUE
  /\ pc' = "restore"
  /\ UNCHANGED <<str_cmd, fds, blocking, so_error, inbox, outbox, fin, reply>>

\* connect() returns -1 and EINPROGRESS: the connection is under way.
ConnectBegins ==
  /\ pc = "connect"
  /\ link' = "syn"
  /\ pc' = "select"
  /\ UNCHANGED <<ret, str_cmd, fds, blocking, so_error, inbox, outbox, fin,
                 reply>>

\* connect() returns -1 for good (no route, no local port left): the error
\* went to errno, and the socket is as it was.
ConnectFailsAtOnce ==
  /\ pc = "connect"
  /\ pc' = "select"
  /\ UNCHANGED <<ret, str_cmd, fds, blocking, kernel>>

\* select() finds the socket writable, as it is unless a connection is under
\* way, and getsockopt() reads and clears SO_ERROR.
SelectReady ==
  /\ pc = "select"
  /\ link # "syn"
  /\ ret' = ~so_error
  /\ so_error' = FALSE
  /\ pc' = "restore"
  /\ UNCHANGED <<str_cmd, fds, blocking, link, inbox, outbox, fin, reply>>

\* Mutant: select() is given no time limit.
SelectWaitsForEver ==
  /\ pc = "select"
  /\ link = "syn" /\ so_error
  /\ ret' = FALSE
  /\ pc' = "restore"
  /\ UNCHANGED <<str_cmd, fds, blocking, kernel>>

\* connect_time_out is over.
SelectTimesOut ==
  /\ pc = "select"
  /\ link = "syn"
  /\ ret' = FALSE
  /\ pc' = "restore"
  /\ UNCHANGED <<str_cmd, fds, blocking, kernel>>

\* FIONBIO again, and back to request_task.
Restore ==
  /\ pc = "restore"
  /\ blocking' = TRUE
  /\ pc' = IF ret THEN "write" ELSE "close"
  /\ ret' = FALSE     \* req_seccess
  /\ UNCHANGED <<str_cmd, fds, kernel>>

Write ==
  /\ pc = "write"
  /\ link = "up"
  /\ pc' = "read"
  /\ UNCHANGED <<ret, str_cmd, fds, blocking, kernel>>

\* The first write after a reset returns -1 ...
WriteFails ==
  /\ pc = "write"
  /\ link = "reset" /\ so_error
  /\ so_error' = FALSE
  /\ pc' = "close"
  /\ UNCHANGED <<ret, str_cmd, fds, blocking, link, inbox, outbox, fin, reply>>

\* ... and one to a socket that is not connected, or whose error was read
\* before, raises SIGPIPE.  cron starts the slave again (slave_run.sh).
WriteKills ==
  /\ pc = "write"
  /\ link # "up" /\ ~so_error
  /\ pc' = "sleep"
  /\ ret' = FALSE /\ str_cmd' = <<>> /\ fds' = 0 /\ blocking' = TRUE
  /\ link' = "closed"
  /\ UNCHANGED <<so_error, inbox, outbox, fin, reply>>

\* Mutant: an answer ends with the piece that holds a "\f" or is short.
ReadShortIsLast(n) ==
  /\ pc = "read"
  /\ n \in 1..ReadBuffSize /\ n <= Len(inbox)
  /\ str_cmd' = str_cmd \o SubSeq(inbox, 1, n)
  /\ inbox' = SubSeq(inbox, n + 1, Len(inbox))
  /\ LET done == inbox[n] = FF \/ n < ReadBuffSize
     IN /\ ret' = done
        /\ pc' = IF done THEN "close" ELSE "read"
  /\ UNCHANGED <<fds, blocking, link, so_error, outbox, fin, reply>>

\* read() returns the first n characters there are; the answer is complete
\* when the piece ends with "\f" (tail_with_feature).
Read(n) ==
  /\ pc = "read"
  /\ n \in 1..ReadBuffSize /\ n <= Len(inbox)
  /\ str_cmd' = str_cmd \o SubSeq(inbox, 1, n)
  /\ inbox' = SubSeq(inbox, n + 1, Len(inbox))
  /\ ret' = (inbox[n] = FF)
  /\ pc' = IF inbox[n] = FF THEN "close" ELSE "read"
  /\ UNCHANGED <<fds, blocking, link, so_error, outbox, fin, reply>>

\* read() returns 0 or -1: the end of the stream, a reset, or the receive
\* timeout of set_socket.  The tests for these stand inside the loop that
\* they leave, so that the request failed in each case.
ReadEnds ==
  /\ pc = "read"
  /\ inbox = <<>>
  /\ pc' = "close"
  /\ so_error' = FALSE
  /\ UNCHANGED <<ret, str_cmd, fds, blocking, link, inbox, outbox, fin, reply>>

\* Mutant: a request that failed leaves its descriptor.
CloseOnSuccess ==
  /\ pc = "close"
  /\ fds' = IF ret THEN fds - 1 ELSE fds
  /\ link' = "closed"
  /\ pc' = IF ret THEN "done" ELSE "sleep"
  /\ UNCHANGED <<ret, str_cmd, blocking, so_error, inbox, outbox, fin, reply>>

\* Mutant: the descriptor is closed a second time.
CloseTwice ==
  /\ pc = "close"
  /\ fds' = fds - 2
  /\ link' = "closed"
  /\ pc' = IF ret THEN "done" ELSE "sleep"
  /\ UNCHANGED <<ret, str_cmd, blocking, so_error, inbox, outbox, fin, reply>>

Close ==
  /\ pc = "close"
  /\ fds' = fds - 1
  /\ link' = "closed"
  /\ pc' = IF ret THEN "done" ELSE "sleep"
  /\ UNCHANGED <<ret, str_cmd, blocking, so_error, inbox, outbox, fin, reply>>

\* work(): "Master is sleeping,so i will sleep 5 seconds." after a failure;
\* after a success the command is carried out (module Slave).
Again ==
  /\ pc \in {"sleep", "done"}
  /\ pc' = "idle"
  /\ UNCHANGED <<ret, str_cmd, fds, blocking, kernel>>

Slave ==
  \/ Open \/ OpenFails
  \/ ConnectAtOnce \/ ConnectBegins \/ ConnectFailsAtOnce
  \/ SelectReady \/ SelectTimesOut \/ Restore
  \/ Write \/ WriteFails \/ WriteKills
  \/ (\E n \in 1..ReadBuffSize : Read(n)) \/ ReadEnds
  \/ Close \/ Again

-------------------------------------------------------------------------------
(* The kernel and the master.                                              *)

\* The handshake is answered, be it after the slave gave up.
Established ==
  /\ link = "syn"
  /\ link' = "up"
  /\ UNCHANGED <<slave, so_error, inbox, outbox, fin, reply>>

\* Nobody listens, or the master died with data unread.  What was received
\* before can still be read.
Reset ==
  /\ link \in {"syn", "up"}
  /\ link' = "reset"
  /\ so_error' = TRUE
  /\ UNCHANGED <<slave, inbox, outbox, fin, reply>>

\* A piece of the answer arrives.  The master may answer a request it has not
\* read (master.h:209), so this does not wait for the slave to write.
Arrives ==
  /\ link = "up" /\ ~fin
  /\ outbox # <<>>
  /\ \E n \in 1..Len(outbox) :
       /\ inbox' = inbox \o SubSeq(outbox, 1, n)
       /\ outbox' = SubSeq(outbox, n + 1, Len(outbox))
  /\ UNCHANGED <<slave, link, so_error, fin, reply>>

\* The master ends, after its answer or in the middle of it.
Finished ==
  /\ link = "up" /\ ~fin
  /\ fin' = TRUE
  /\ UNCHANGED <<slave, link, so_error, inbox, outbox, reply>>

Net == Established \/ Reset \/ Arrives \/ Finished

Next == Slave \/ Net

Spec == Init /\ [][Next]_vars

\* The slave runs: every system call it waits in has a time limit.
FairSpec == Spec /\ WF_vars(Slave)

-------------------------------------------------------------------------------
(* Properties.                                                             *)

\* Every variable keeps its type: no descriptor is closed that is not held.
TypeOK ==
  /\ pc \in {"idle", "connect", "select", "restore", "write", "read", "close",
             "done", "sleep"}
  /\ ret \in BOOLEAN /\ blocking \in BOOLEAN
  /\ so_error \in BOOLEAN /\ fin \in BOOLEAN
  /\ fds \in Nat
  /\ link \in {"closed", "syn", "up", "reset"}
  /\ str_cmd \in Seq(Chars) /\ inbox \in Seq(Chars) /\ outbox \in Seq(Chars)
  /\ reply \in Replies \cup {<<>>}

\* request_task reports a success exactly if str_cmd is the whole answer the
\* master gave on this very connection, however it was cut into pieces, and
\* whatever an attempt before had read of another one.
SuccessIsTheWholeAnswer == pc = "close" => (ret <=> str_cmd = reply)

\* Between two requests the slave holds no descriptor: every way out of the
\* loop of request_task passes close(), a slave retries for months.
NoDescriptorLeft == pc \in {"idle", "sleep", "done"} => fds = 0

\* request_task writes and reads on a blocking socket, where the time limits
\* of set_socket apply; a read on a non-blocking one would give up before the
\* master has thought (socket_connect_timeout restores the mode).
PatientIO == pc \in {"write", "read"} => blocking

\* A request ends, whatever the master and the network do: connect is limited
\* by select, read by SO_RCVTIMEO.
RequestEnds == pc = "connect" ~> pc \in {"sleep", "done"}

===============================================================================
