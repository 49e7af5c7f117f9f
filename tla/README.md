# A specification of kf1304

kf1304 is a distributed web crawler: a *master* hands batches of URLs to
*slaves*, the slaves grab the pages into files and later send the files to a
*repertory*, and a batch program extracts information from the stored pages.
This directory holds TLA+ modules that model the parts of it where state,
failure and order interact, TLC configurations that check them on small
instances, and proofs of what matters most for every instance.

Paths below are relative to `src/`.

## 1. Inventory

| Component | State | Operations | Talks to |
|---|---|---|---|
| master, `master/src/master.h` | cursors `url_map`, tallies `slave_map`, `store`, `sleep_time`, `request_buff`; on disk `conf/website_grabing.log` and `urls/<site>`; MySQL | `service` accepts one connection at a time; `hand_request` tallies and answers STORE, SLEEP, UPDATE, GRABPAGE, feedback or "bad request" | slaves, repertory, MySQL |
| slave, `slave/src/slaver.h`, `slaver.cpp` | `last_cmd_id`, `last_task_status`, `sleep_time`, `dns_map`; on disk `download/` | `work` loops `request_task`, `str2task`, `hand_task` (sleep, update, `grabpage_work`, `store_page`) | master, web servers, repertory |
| repertory, `repertory/src/rep.h` | `read_totals`; on disk `pages_gzip/` | `service` accepts one connection at a time: command, `"\f"`, content; every sixth file `feedback_status` | slaves, "master" |
| front server, `master/src/server.h`, `lock_free_queue.h`, `main.cpp` | the ring `m_head`, `head`, `tail`, `m_size`, `tas_lock` | an epoll thread accepts and pushes sockets, six workers pop and answer; compiled into the master, but `main2` is called by nobody (the master's `main` is in `kf1304_master.cpp`) | threads of one process, a stop signal |
| information extraction, `information_extraction/src/analyser.h` | `pages/`, and `pages/kv.sql`, which grows | `just_work` reads every file, `analysis_page` cuts its texts and appends rows | files |
| helpers, `*/src/GlobalHelper.h`, `slave/src/sockethelper.cpp` | none | parsing, formatting, logging, connect with a timeout | |
| supervision, `master_run.sh`, `slave_run.sh`, `repertory_run.sh` | none | every three minutes: start the program if no process is left | |

What makes each part hard, and what makes it correct:

* **master** - it may die between any two of its steps, its replies may be lost,
  a request may come in pieces or not at all, and the cursors live both in
  memory and in a file that is truncated and rewritten in place.  Correct means:
  no URL is handed out twice, what is dropped is bounded, the file and the
  memory agree, and the tallies that steer the choice of a site agree with the
  database.
* **storing pages** (slave and repertory) - there is no acknowledgement: a file is
  deleted when `write()` returned.  A connection outlives the process at either
  end, the repertory is sequential and truncates before it reads, and both ends
  restart.  Correct means: a fault costs a bounded number of files, nothing that
  is archived is torn again, and everything is archived in the end.
* **front server** - `push` runs without the lock that `pop` holds; sockets are
  edge-triggered and one-shot; workers of a failed `sopen` go on; a signal may fall
  between its test and `epoll_wait`.  Correct means: every socket has one owner, is
  answered or closed once, no edge is lost, no update of the counter is lost, and a
  signal stops the server.
* **one request of a slave** (`request_task`) - the connect is non-blocking and its
  outcome comes before, at or after a time limit; the answer comes in pieces or breaks
  off; the slave retries for months.  Correct means: a success is the whole answer of
  this connection, no descriptor is left, and every request ends.
* **choosing a site and reading a batch** - loops over a map and over the lines of a
  file, with lines that are no URLs, files that end anywhere, and one that is missing;
  then five conversions until a URL is a request.  Correct means: the loops do what
  the ledger of the master assumes, and what stands in a file is what is asked for.
* **grabbing pages** (slave) - one status word serves grabs, sleeps and stores, and
  `grab_page` returns the one before when it cannot connect; names that do not
  resolve and URLs without a path kill the process in the middle of a batch.
  Correct means: a reported success is one of the batch it is reported for, and no
  page is in two files.
* **master and slaves together** - connections are queued and outlive the slave that
  made them, reports are repeated when a reply is lost, and the master books an
  outcome on the site it assigned last.  Correct means: every page is grabbed once,
  `worker_site_tb` counts grabs, and what was grabbed is sent to the repertory.

* **information extraction** - texts are cut at tags by position, names at a colon of
  three bytes, the output lies among the input, and a page without texts kills the run.
  Correct means: the rows of a page are those of its texts, once per run.

`PROJECT.json` lists every hazard at its line with the properties that cover it.

## 2. Modules

| Module | What it is |
|---|---|
| `UrlLedger` | the promise of the master about the URLs: *todo*, then *given* or *lost*, in steps of at most a batch |
| `Master`, `MasterProofs` | the master, with crashes and restarts; proofs |
| `SiteReader` | the loops by which the master chooses a site and reads a batch, and the way of the batch into the slave |
| `SiteReaderClaims` | what a test says of a batch and the code does not do |
| `Wire` | the texts on the wire and the string helpers, as operators without state |
| `Exchange`, `ExchangeProofs` | one request of a slave to the master, system call by system call; proofs |
| `Slave`, `SlaveProofs` | the slaves: control loop, grabbing, and storing file by file; proofs |
| `SlaveClaims` | a comment of the slave that is not true |
| `Crawler`, `CrawlerProofs` | `Master` and `Slave` composed, with the connections between them; proofs |
| `PageCustody` | the promise about a file of pages: *kept* by the slave, *handed* over, or *lost*, one file per step |
| `PageStore`, `PageStoreProofs` | `store_page` of the slaves against `service` of the repertory; proofs |
| `SlotBuffer` | the promise of the queue: a buffer with one place |
| `LockFreeQueue`, `LockFreeQueueProofs` | the queue, one action per access to shared memory; proofs |
| `FrontServer`, `FrontServerProofs` | the epoll loop, the workers, signals and the end of the server, over `SlotBuffer`; proofs |
| `Analyser` | the information extraction, page by page and text by text |
| `ReaderProofs` | proofs about `SiteReader`, `Analyser` and `Wire`, the programs that read files and cut texts |
| `MCMaster`, `MCSlave`, `MCCrawler`, `MCPageStore`, `MCExchange`, `MCSiteReader`, `MCAnalyser` | values of the constants for TLC |

How they hang together: `Crawler` composes `Master` and `Slave`.  `SiteReader` instantiates
`Master` for the operators it must agree with, and uses `Wire`.  `Exchange` is what
`Slave` and `Crawler` call a request, `PageStore` what `Slave` calls storing a file.
`LockFreeQueue` is shown to implement `SlotBuffer`, which `FrontServer` uses as its queue, and
`FrontServer` shows what `LockFreeQueue` assumes of its callers (`OneOwner`).

Operators whose comment begins with *Mutant* are plausible bugs.  They are not
part of any behaviour; `PROJECT.json` names the property each of them breaks.

### Master

`pc` says where `service` is.  A request is handled in one action up to the
point where the cursor file is opened (`Serve`), because the master is
single-threaded and nothing is visible in between; then `TruncateConf`,
`SaveConf` and `Reply` are separate, because a crash between them matters.
`HandSlaveRequest` follows `hand_slave_request`: STORE (`Store`), SLEEP
(`Sleep`), UPDATE (`Update`), or an assignment (`AssignBatch`, `AssignEof`,
`NothingToAssign`).  How a request arrives is a disjunct of `Serve`: whole, with
only its tail (`ServeSplit`), without a usable command (`ServeGarbage`), or not
at all, in which case the buffer's old content is handled again (`ServeSilent`).

Abstractions: a site file is a length and a set of lines that hold a URL; a
cursor counts lines instead of bytes; the cursor file is a function from sites
to cursors; an outcome is the pair a slave can report; rows of `worker_site_tb`
exist.  The lines themselves, their ends, and a missing `urls/<site>` are in `SiteReader`.
Not modelled: a split request whose pieces mix with the old content of the buffer,
`worker_tb`.

The uninitialised member `store` is a nondeterministic byte (`StoreBytes`), and
`!store` is what the unoptimised build makes of it: an exclusive or with 1.

### PageStore

`conns` lists the connections in the order they were made, which is the order
in which the repertory accepts them.  A connection records what the slave wrote
(`sent`, `body`), whether its end is closed (`ended`), whether a reply came
(`replied`) and the state of the far end as the slave sees it (`peer`).
`SlaveCrash` may leave a part of a file on the wire.  `RepCrash` closes every
descriptor the way the kernel does: with a reset where data is unread or nobody
accepted, in good order elsewhere; a late write to such an end is answered by a
reset (`ResetArrives`).  A write to a connection that was reset returns -1 or
kills the slave with SIGPIPE, which no program of the crawler ignores.

`RepTimeout` is the receive timeout of ten seconds, which an accepted socket
inherits from the listening one.  Crashes and timeouts of the repertory are
counted in `faults`.

Abstractions: a file fits into the buffers of a socket, so that `write()` does not
wait for the reader; the backlog of 128 connections does not overflow; the
waiting times between attempts are left out; a connection attempt fails only
when the repertory is down.

### Slave

`spc` says where a slave is: asking (`ask`), waiting for an answer (`wait`), grabbing
(`grab`), storing (`store`), or gone (`down`, `updated`).  `HandTask` is `str2task` and
`hand_task`, with a disjunct per command; `NameUnknown`, `NoAddress`, `Unreachable` and
`SavePage` are the ways in which a turn of the loop of `grabpage_work` ends.  `End` is
the end of the process, which loses its memory and keeps its files: by a kill, by the
exception `substr` throws for a URL without `/` (`HandGrab`), by the null pointer
`gethostbyname` returned (`NameUnknown`), or by `exit` in an update (`HandUpdate`).

`SavePage` puts into the file whatever was read, because the test for an error
stands inside a loop that an error leaves (`torn`).  The return value of
`grabpage_work` equals `last_task_status` at its end, so that the model has one of
them.

Abstractions: a batch is named by its set of URLs instead of the time in
microseconds that is its `task_id`; the host of a URL is its first component; a page
is a record of what is true of it; a file is the set of pages of one batch; the
attempts at one file and the waiting between them belong to `PageStore`, here a file
is sent (`SendFile`) and then removed (`RemoveFile`), or given up (`StoreGivesUp`).  A slave
that dies between the two has the file still in `download/` and sends it again; the archive
beside it is of no account, because names with a `.` are not looked at
(`tar_pages_and_get_fnames_vec`).  What the script of an update does is not in the repository; `conf/slave.conf` is assumed to stay as it is, as in
`slave/update.sh`.

### Crawler

`Crawler` instantiates `Master` and `Slave` over shared variables: what reached a slave
(`given`) is what the master `issued`.  `queue` holds the connections in the order
they were made, `serving` the one accepted.  `Serve` hands the request of the head of
the queue to the master, `Deliver` its reply to the slave that waits; a slave that
died or lost patience leaves its connection `open = FALSE` behind, and the master
serves it and replies to nobody (`ReplyToNobody`).  `ServeLate` covers a request that
comes in two pieces, without a usable command, or not before the read times out; then the
master handles the request of the slave before once more (`M!ServeSilent`) and sends
the reply to the slave it is serving.  The feedback of the repertory never reaches the master (`rep.h:311`
connects to the repertory's own address) and has no action here.

### LockFreeQueue

`m_size++` is a load and a store.  `size()` converts the `int` to an unsigned word,
while `push` decrements it and `pop` increments it.  So one pushed socket makes
the queue look full, and the queue never holds two.  It is this accident that
makes the unlocked `m_size--` of `push` safe: with a counter that counts rightly
(mutant `sizeAbsolute`) the two updates race.

### FrontServer

`mpc` says where the main thread is: `sopen` is `SpawnWorkers` and `Bind` or `BindFails`, the loop
of `srun` is `TestSignal`, `EnterWait`, `WaitReturns` and the handling of the events one
by one, `sclose` is `CloseListener`, a `Join` for each place of the array `worker` and
`CloseReturns`, and `main2` opens again after a failed `sopen` (`Retry`).  `joined` is the
index of the loop of joins; `failed` records the calls of `sopen` that returned false.  `wpc` says where each worker is.  `edge`, `armed` and `ready` are what epoll
knows: the listening socket is reported once per arrival, an accepted one once after
it was registered.  `client` follows a connection: in the `backlog`, `open`, `closed`, or
`stray` when `srun` dropped the event it came with.  A thread is named by the call of
`sopen` that made it, because a failed call leaves its threads behind and forgets them.

The queue is `SlotBuffer`, one step for a push and one for a pop; `LockFreeQueue` shows
that the code does this.  A push that is refused makes the main thread send
`./result.log` itself, and exit if that file is not there (`PushRefused`).

### Exchange

One action per system call of `request_task`, `set_socket` and `socket_connect_timeout`, in a
kernel (`link`, `so_error`, `inbox`) and against a master that answers a sequence of
characters in pieces of any size (`Arrives`), ends in the middle of it (`Finished`) or goes
away with a reset (`Reset`).  The outcome of a connect is independent of the time limit
of `select`.  `ConnectFailsAtOnce` follows the code: any `errno` is taken for a connect that
goes on, select then reports the socket, and only `SO_ERROR` tells.

### SiteReader and Wire

`LookAtSite` is a turn of the loop of `get_min_bad_of_sites`, `ReadBlank`, `ReadUrl`, `ReadEof` and
`ReadEnough` are turns of the loop of `read_sitefile_lines`, `Record` stores the cursor and makes
the reply.  `ChoosesLeastBad` and `ReadsABatch` state that the loops do what the operators
`MinBadSite`, `ReadStopsAt` and `Between` of `Master` say, so that the proofs about `Master`
rest on what the code does line by line.

`Wire` has the helpers as operators: `Replace` (which looks for *one of* the characters
of a text, not for the text), `Split`, `SplitLine`, `SplitByColon`, `CommandStrToMap`, the
building of a command and its reading in `Str2Task`.  Characters are strings of length
one.  `Pieces` is what `split` and `split_line` have in common: the places where pieces begin,
counted from the left, and the next separator behind each.  `BatchArrives` sends a batch
through all of them.

### Analyser

`phase` says whether the program is between two runs, between two pages or in the loop over a
page's texts.  `Start` lists `pages/` in any order, `OpenPage` reads a page, skips it or dies of it, `WriteRow` and
`SkipText` are turns of the loop over its texts, `PageDone` ends it.  A text is a sequence
of bytes of which the full width colon is three.  The rows of a page are
stated independently of the loops and compared with what is in `kv.sql` after any number of
runs: `TextsBetweenTags` has a text for each `'<'`, from the last `'>'` before it, and
`RowsOf` a row for each text with a colon, by the positions of its colons.  What stands before
the first tag is never a text, but the page is cut one byte before its first `'<'`: where that
byte is a `'>'`, the text that runs over this `'<'` up to the next one counts (`Opens`).
Rows are told apart by their ids; `kv.sql`, which may be read as a page of any id its
second row happens to spell, must not have that of the page in question (`Distinct`).

What the model shows besides: `kv.sql` lies among the pages and is read as one by the next
run; a name with a character that shares a byte with the colon is torn; the last text
of a page is never looked at; the bytes behind the buffer of `read_all_file`, which is not
terminated, become part of a page; and a URL of five parts of no known kind gets a row
without an id.  There is no liveness property: one thread goes through a finite list.
A run dies where the code makes it die, while it opens a page; a kill from outside in the
middle of a page, which would leave some of its rows, is not modelled.

## 3. Runs

| Run | Instance | Question |
|---|---|---|
| `master` | 1 slave, 2 sites of 3 and 2 lines (one of the 3 is done), batches of 2, two outcomes, two versions, 6 requests per process, 1 crash | is a URL handed out twice, what is dropped, do memory and database agree? |
| `queue` | 2 workers, 3 sockets, a ring of 2 | is every socket served exactly once? |
| `store` | 2 slaves with a file each, 3 connections, 1 crash of a slave, 2 faults of the repertory | what does a fault cost, and is everything archived without one? |
| `slave` | 2 slaves, 4 URLs of 2 hosts in 3 batches, one URL without a path, all answers of the web, any number of deaths | is a reported success one of this batch, is a page grabbed once? |
| `crawler` | 2 slaves, 2 sites with a URL each, 3 requests per master process, 1 crash of the master, 1 death of a slave, 1 delay or loss | is a page grabbed twice, what does the database count? |
| `crawler_live` | 1 slave, 2 sites of 2 and 1 URLs, 7 requests per master process, 1 crash of the master, 1 death of the slave, names that do not resolve | is what was grabbed stored in the end? |
| `exchange` | answers of 2 and 6 characters, read 3 at a time; any number of attempts | is a success the whole answer, and does every request end? |
| `front` | 2 workers, 2 clients of a piece each, 2 calls of `sopen`, 1 reset, 1 failing system call, a signal at any point | has every socket one owner, is every client answered, does the server stop? |
| `sites` | 4 sites of 5, 6, 0 and 2 lines, batches of 2, every set of missing files that matters, 1 failure per site | do the loops do what `Master` says, does a batch arrive? |
| `analyser` | 4 directories of 3 of 7 pages, 2 runs, a tail behind a buffer or none | are the rows of a page those of its texts? |
| `claim_page_integrity` | 1 slave, a page that breaks off | a comment of the slave |
| `claim_each_url` | 1 site of 4 lines that end in CR LF, a batch of 3 | what a test of the slave wants of a batch |

The bounds are named constants.  `MaxFds` is a resource of the program, not a
bound: accepted descriptors are never closed.  In `master`, six requests are enough to
exhaust both sites (STORE is the answer to every other one; a full batch, the end of
the first file, and the end of the second with a partial batch), and a crash after
each of them starts the count afresh.  `DbNotAheadOfMemory` excludes states after a
crash, because a crash empties the memory and not the database.  In `crawler`, three
requests before and three after a crash of the master let a grab be assigned,
reported and reported again; the slaves are interchangeable and declared symmetric.
`DbCountsGrabs` excludes states after a delay or a loss, `OverCountBounded` says what
one of these costs.  `crawler_live` needs descriptors for every request after the
last file was written; the property says how many.  It has one slave: of two slaves
that ask in turn, one is told STORE always and the other never, and the files of the
other stay where they are (the toggle `store` is shared, `master.h:149`).
In `store` three connections allow
two slaves to be in the middle of a transfer at a fault and one of them to come
back; two faults let a timeout and a crash each cost a file (TLC does find a
state with two files lost, so the bound of one per fault is tight); without a fault the
same run shows that everything is archived.  In `exchange` nothing is bounded: the state of
an attempt does not depend on how many there were.  In `front` two calls of `sopen` let the
first one fail and leave its workers behind, two clients let one wait in the queue
while the other is pushed.  In `sites` the files hold every way a batch can end: full, at
the end of a file, on a line that is no URL, in an empty file, behind the end.
`CHECK_DEADLOCK FALSE` is given where the system really stops: the descriptors,
connections or files of the instance are used up.

Findings.  Two statements of the repository are violated by what the code does:

* `PageIntegrity` - "Ensure the integrity of the web page" (`slaver.cpp:159`), and a page whose
  transfer broke off is put into the file.
* `EachUrlIsRequested` - a test wants a request per URL (`slaver_test.h:248`).  It tests
  `urls_str_to_http_reqs` alone, with whole URLs, and passes; the claim takes what it wants
  for the whole way from the file to the requests, for which the repository has no test.
  With lines that end in CR LF, as in `urls/114chn_aa_test`, the slave sees the first URL of
  a batch only, and the cursor has moved past all of them.

More disagreements are visible in the models and have no run of their own:

* a test expects STORE as the first answer (`master_test.h:190`); the answer depends on a
  byte no constructor sets (`store`, `master.h:149`);
* "accept the full message" (`master.h:206`), and each `read()` overwrites the one before
  (`ServeSplit`, `master.h:209`);
* "master is alive" (`master_run.sh:8`) of a master that has used up its descriptors and
  accepts nobody (`new_fd` is never closed, `master.h:199`);
* "ok,file saved!" (`rep.h:222`) after an end of file without any content (`RepReadEof`);
* "-1 means no last task" (`slaver.h:140`), and the master counts it as a success of the
  site assigned last (`Tally`);
* "In real updata,the app_version will be write in code" (`slaver.h:249`), and `config` reads
  it from `conf/slave.conf`, so a slave that was updated reports the old one and is told
  to update again (`HandUpdate`, `Start`).

## 4. Fairness

Safety properties need none.  `SiteReader!FairSpec` assumes that requests keep coming
(a slave retries every 5 seconds), that the master runs and that cron restarts it.
`Exchange!FairSpec` assumes that the slave runs: each system call it waits in has a time
limit, so that one of its steps is always possible; the network and the master owe it
nothing.  `FrontServer!FairSpec` assumes that the threads are scheduled, and that an
operator who has sent a stop signal sends it again while the server sleeps: one signal
between the test of `have_signal` and `epoll_wait`, which has no time limit, is not noticed.
`LockFreeQueue!FairSpec` assumes that every thread is scheduled and that a
push that began goes on; connections need not come.  `PageStore!FairSpec` assumes
that the processes run and that the master tells a slave again and again to store
while it has files.  The latter is an assumption about the master: it alternates
one flag over all its slaves, and two slaves in lockstep get STORE always and
never.  `Crawler!FairSpec` assumes that the master and every slave run and are started
again by cron; deaths, delays and losses are not fair, and bounded.  One fairness
condition per process is enough because each of them is sequential: whatever step of
it is possible stays possible, crashes apart, until the process takes a step.

## 5. Proofs

Every theorem is proved for all values of the constants that the assumption of its
module allows: any number of slaves, sites, files, threads, sockets, any length of a
site file, of a batch, of an answer or of a page, any number of crashes and runs.  Each proof module states
an inductive invariant, one lemma for `Init`, one per action, and then the theorems.

`MasterProofs`, from `MasterAssumption`:

* `TypeCorrect`, `AtMostOnce` (`NoReissue`) and `WriteAhead`
  (`CursorFileMirrorsMemory`), by the inductive invariant `IInv`.  `NoReissue` alone is
  not inductive: it must be known that the URLs in the reply lie behind the cursor
  in memory, and that the file agrees with the memory outside the two steps that
  rewrite it.
* `OnlyTailsAreSkipped` (`SkipsOnlyATail`), an action property, from `IInv`.
* `Refinement`: `Spec => LedgerSpec`.  Each action is shown to be a `Give`, a `Drop`
  or a stutter; the truncation of the file is a stutter (the cursors are still in
  memory) and the crash after it drops everything.
* `DbNotAhead` (`DbNotAheadOfMemory`).  A request is tallied twice, in memory and in the
  database (`TalliesAgree`), but an assignment replaces the record of a slave, so it must be
  known that it changes no count and that nothing is counted of a slave
  not yet known (`BooksOK`).

`LockFreeQueueProofs`, from `QueueAssumption`: `TypeCorrect`, `MutualExclusion`
(`OneCustomer`), `NoRace` (`NoRaceOnSize`), `OneOwner` (`SocketHasOneOwner`) and
`Refinement` (`Spec => BufferSpec`).  The invariant follows the one socket under way: which
slot holds it (`SlotOK`), which worker is taking it (`TakeOK`) and who holds it
(`HoldOK`).

`SlaveProofs`, from `SlaveAssumption`: `TypeCorrect`, `NoSuccessWithoutAPage`
(`SuccessNeedsAPage`) and `AtMostOneGrab` (`GrabbedOnce`: no page is grabbed twice or is in
the files of two batches; a file itself may well be sent twice).  A success is earned while the
slave still grabs, and a slave that starts must have no last command, or a status of
the process before could pass for one of this batch: `StatusOK` says both.
`GrabbedOnce` needs that everything in a batch or a file was `given` (`GivenOK`), so that a
new batch, which is disjoint from it, is disjoint from all of these.

`PageStoreProofs`, from `StoreAssumption`:

* `TypeCorrect` and `ArchiveStays` (`ArchiveIsFinal`), by `StoreInv`.  The heart is
  `SettledOK`: a connection may be served long after its slave has stored
  the file over another one, or died; what would truncate the archive of a file that
  its slave has written and removed brings the whole of it again.  It rests on
  `LinkOK`: the connection of a slave is the last one made for its file, and a slave
  that writes the content was answered or has seen the end of the connection.
* `LossesAreBounded` (`LossesBoundedByFaults`), by `RiskOK`.  A file is not lost at the
  fault, but when its slave later writes it to a connection the repertory has left
  and removes it.  So the files that are lost are counted together with those that
  are *doomed*; only a read timeout or a crash of the repertory adds one, the file that
  is being served, and the steps of the slaves turn doomed files into lost ones.
* `Refinement`: `Spec => CustodySpec`.

`FrontServerProofs`, from `FrontServerAssumption`: `TypeCorrect`, `OneOwnerEach`
(`OneOwner`), `OnlyLeakedOutlive` (`OnlyLeakedThreadsOutlive`), `CloseWaits`
(`CloseWaitsForASignal`) and `EveryEdgeIsUsed` (`NoEdgeLost`).  `OneOwner` needs that a worker holds a socket exactly while it
answers (`HoldOK`) and that events are at hand only while they are handled (`EventsOK`);
the theorems about the end of the server need that a thread leaves only after a signal,
that no thread of a call to come exists (`LeftOK`), that the threads joined so far have left
and that every call of `sopen` before the last one failed (`JoinOK`): `sclose` comes to its
end only after a signal, and `main2` does not open again after one; and for the edges of the listening
socket, that a connection in the backlog has an event to come or at hand, or is being
accepted, unless an error or the end of the server keeps it from that (`EdgeOK`).

`ExchangeProofs`, from `ExchangeAssumption`: `TypeCorrect`, `SuccessIsWhole`
(`SuccessIsTheWholeAnswer`), `NothingLeft` (`NoDescriptorLeft`) and `Patient`: requests and
answers go over a socket that waits.  The answer of an attempt is at all times cut into
what was read, what was received and what is to be sent (`PartsOK`), the last
character of a whole answer is its only `"\f"`, and nothing of one attempt reaches the next
(`LinkOK`).

`ReaderProofs`, from `SiteReaderAssumption` and `MasterAssumption`: `TypeCorrect`,
`LeastBadIsChosen` (`ChoosesLeastBad`) and `BatchIsRead` (`ReadsABatch`).  These are loop
invariants: `ChooseOK` says that the site at hand is the first of the least bad among those
seen, `ReadOK` that the URLs at hand are those between the cursor and the position,
and that the counter of lines and the size of the batch move together.

The same module proves `BatchArrivesWhole` (`BatchArrives`), about the texts of `Wire`, for any
lines of any length.  Of the state it needs only that a batch at hand is full and its lines
stand in the file (`SentOK`); the rest is about the operators:

* `JoinedIsLaid`: what `FlattenSeq` makes of pieces with a tail behind each has the i-th piece
  and its tail at the places `Laid` says, one behind the other and nothing between;
* `PiecewiseIsCut`: a text that has separators where `Piecewise` says, and nowhere else, is
  cut by `Split` and `SplitLine` at just these places.  `Pieces` numbers the beginnings by
  counting those to the left, so the k-th of them must be shown to be the k-th
  (`PlacesCount`, `NthIs`), and that no other place is a beginning;
* `BatchIsSplit` joins the two for `#`, and `CommandIsRead` for the frame `"\r\n"`: each
  piece is not empty and without white space, the first `':'` is the one behind the key, and
  as the keys differ no later field replaces one;
* `PlainUrl`, for the two calls of `replace` on a line, the first of which must not find a
  character, and `RequestOfUrl`, for the two on the head of a request.

`Laid` and `PrefixesExist` are by induction.  The provers cannot use an induction theorem with
an operator as its parameter; `AllOfNat` is induction over a *set* of numbers, proved from the
well-foundedness of the inclusion of finite sets (`LeastExists`), and needs none.

The same module proves the invariants of the information extraction, from
`AnalyserAssumption` (finitely many files, pages that are texts, and `kv.sql` not the name of a
page): `AnalyserTypeCorrect` (`AnalyserTypeOK`), `RowsStayThePages` (`RowsAreThePages`) and
`RunsAddEveryPage` (`EveryPageOncePerRun`).  Neither of the last two is inductive: they do not say
how far a run has come.  `AnalyserInv` adds

* `FilesAreListed`: no file is listed twice in a run, and none is left between two runs, so that
  a run cannot read a page a second time;
* `TextsAreOfPage`: the texts still to be looked at are the end of the texts of the page being
  read, from `TextAt` on, and the parts of the URL are the page's;
* `RowsFitAll`: the rows with the id of a page are `c` whole copies of its rows and, while it is
  being read, those of the texts passed so far; `c` is at most the number of runs that are done
  with the page (`started - Left`), and is that number as long as no run has died.

That `WriteRow` keeps `RowsFitAll` takes that the row of the loop is the row of the definition
(`RowIs`), and that a row of another page, or of `kv.sql` read as one, has another id; for the
latter, that the parts of `kv.sql` do not change any more once it has a second row
(`KvPartsStay`, `DistinctBefore`).  The rest is about the operators:

* `PickedIs`, `PickedGrows`: what `Picked` makes of a sequence and a set of places, for a
  rising sequence of these places (`SortedExists`);
* `TextsAreFound`: the scanner, from one byte before the first `'<'` to the end, ends with the
  texts `TextsBetweenTags` names.  By induction over the place (`ScanIs`, `AllOfNat`): its `pos1`
  is the last of `Opens`, its `vec` the texts that end so far;
* `KvIs`: `extract_kv`, which cuts at each byte of a colon, has the name before the first colon
  and the value behind it, provided no byte of a colon stands alone (`OnlyWholeColons`), which
  the cutting into texts and the removal of bad characters keep (`TextsAreWhole`, `CleanWhole`);
* `CopiesNext`, `PagePrefix`: one more copy is complete when the last text is passed, and copies
  with a begun one are a prefix of more copies.  Where sequences are joined anew the equality has
  a name (`Joins`): the provers otherwise join what they have joined without end.

`CrawlerProofs`, from `CrawlerAssumption`, which contains those of `Master` and `Slave`:
`GrabbedAtMostOnce` (`GrabbedOnce` of the composition).  The invariant joins those of
`MasterProofs` and `SlaveProofs`, whose lemmas for the single steps are used through
`INSTANCE`, and says of the connections between them that a request that waits is one a
slave can have sent (`ConnsOK`), that a slave's recorded version is one that exists
(`VersionsOK`) and that URLs travel only with the command to grab (`ReplyOK`).  The URLs
issued by the master are those given to the slaves: at the delivery of a reply `NoReissue`
says that its URLs are not among them, which is what a batch given to a slave has to fulfil.

* `CrawlerRefinesLedger`: `Spec => M!LedgerSpec`.  Among its slaves, too, the master implements
  the ledger; the composition gives the master no request and no failure it does not have
  alone, and each step of the slaves is a stutter.
* `OverCountIsBounded` (`OverCountBounded`).  The over-count alone is not inductive: what counts
  is how often the outcomes of a slave can *still* be booked.  `Reports` are its requests in the
  queue that report a grab, and one more while it has a grab to report and no connection;
  `CountOK` says that what the database counts, and what is owed to it (`Owed`), is at most what
  was grabbed and the number of delays and losses.  One report is not owed while no site is
  assigned, since the master then books nothing.  It rests on `LineOK`: only the last
  connection of a slave is open, and a slave that has reported to deaf ears reports the same
  again.
* `OutcomesAreBookedWhereTheyBelong` (`DbCountsGrabs`).  Without delays and losses there is one
  report of a grab at most, the row it will be booked on still has room for it (`Room`), and a
  batch that is grabbed, or on its way to the slave, is of the site assigned last (`OnSite`):
  that is `SiteOK`.

Not proved, only model-checked: all liveness (`EverySocketIsServed`, `EveryPageIsArchived`,
`FilesAreStored`, `RequestEnds`, `StopEnds`, `EveryRequestIsAnswered`,
`SitesBeforeAMissingOneAreReadOut`), which the proof system cannot handle.  Every invariant and every action property of a run that passes is a
theorem, and so are the refinements.

The type invariants of `LockFreeQueue`, `FrontServer` and `SiteReader` are proved and not
checked again by the runs; those of the master and the slaves in `Crawler` are part of the
invariant of `CrawlerProofs`.

## 6. Plan

What is left to do:

1. The crawler with the connections of `Exchange` in place of the single step by which a
   request is sent in `Crawler`: that each end of `request_task` is one of the outcomes
   `Crawler` has, as a refinement.
2. The order in which the supervision scripts restart the programs, which is
   a nondeterministic restart in all modules.

## 7. Not modelled

* The database client (`Cpp2mysql`), `worker_tb`, and the sequence of statements: `db` has the
  counts of `worker_site_tb`, an update of `worker_tb` names a column the schema lacks and
  changes nothing.
* Logging, the clock, configuration files and command lines: input and output without a
  state of the program.
* Most of the three copies of `GlobalHelper.h`.  `Wire` has the functions the programs
  call; the others (the scanners of HTTP heads, disk and CPU figures, further conversions
  of URLs, HTML helpers) are called by nobody or by tests only.
* `sockethelper.cpp`, a copy of `socket_connect_timeout` that nothing calls.
* `tools/`: `server.h` and `lock_free_queue.h` again, in an older state, and offline filters
  over lists of URLs (`t3.cpp`, `parse.cpp`) that read a file to its end and print.
* `document/`: design documents and a backup of an earlier program, with a vendored
  zlib (about 6000 lines) and further copies of the front server.
* What an update's script and the web servers do: they are not in the repository.

The map covers a small part of all lines for these reasons: of about 16800 lines most are the
vendored zlib, backups, copies of the same helpers, tests and comments.  The control
of the three programs, of the front server and of the extraction is modelled.
