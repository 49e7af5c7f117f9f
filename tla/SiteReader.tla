----------------------------- MODULE SiteReader -------------------------------
(***************************************************************************)
(* The assignment of a batch as the loops of master/src/master.h do it,    *)
(* and what becomes of it in the slave: get_min_bad_of_sites goes through  *)
(* the map of sites, read_sitefile_lines through the lines of a file from  *)
(* the cursor on, read_urls_and_record stores the cursor, and the URLs go  *)
(* as a text to the slave (module Wire), which cuts them again.  Master    *)
(* states the choice and the batch by its operators MinBadSite,            *)
(* ReadStopsAt and Between.                                                *)
(*                                                                         *)
(* A file is a sequence of what fgets returns.  (A line longer than the    *)
(* buffer is two pieces.)  A site of the cursor file may have no file      *)
(* under urls/.                                                            *)
(***************************************************************************)
EXTENDS Integers, Sequences, FiniteSets, Wire

CONSTANTS NumSites,         \* the sites are 1..NumSites, in the order of std::map
          File,             \* File[s][l]: piece l of urls/<s>
          AssignUrlNumber,  \* assign_url_number of conf/master.conf
          Missing,          \* the sets of sites that may have no file
          StartConfs,       \* cursor files the master may find
          MaxBad            \* bound: failures of a slave on one site

Sites == 1..NumSites

ASSUME SiteReaderAssumption ==
  /\ NumSites \in Nat
  /\ File \in [Sites -> Seq(Seq(STRING))]
  /\ \A s \in Sites : \A l \in DOMAIN File[s] : File[s][l] # <<>>
  /\ AssignUrlNumber \in Nat \ {0}
  /\ Missing \subseteq SUBSET Sites
  /\ StartConfs \subseteq [Sites -> Nat]
  /\ MaxBad \in Nat

NoSite == 0

VARIABLES
  pc,         \* idle, choose, open, read, record, served; or down
  url_map,    \* the cursors in memory
  conf,       \* the cursors in conf/website_grabing.log
  w,          \* the entry of one slave in slave_map
  missing,    \* sites without a file
  it, badnum, site,           \* get_min_bad_of_sites
  pos, read_line, vec_urls,   \* read_sitefile_lines
  isok

choice  == <<it, badnum, site>>
reading == <<pos, read_line, vec_urls, isok>>
vars == <<pc, url_map, conf, w, missing, it, badnum, site, pos, read_line,
          vec_urls, isok>>

Urls == UNION {{<<s, l>> : l \in {l \in DOMAIN File[s] : IsUrl(File[s][l])}} :
                 s \in Sites}

NewSlave == [last_task_site |-> NoSite, bad |-> [s \in Sites |-> 0]]

\* config_website.
LoadCursors ==
  [s \in Sites |-> [finished_length |-> conf[s], isfinised |-> FALSE]]

Init ==
  /\ pc = "idle"
  /\ conf \in StartConfs
  /\ url_map = LoadCursors
  /\ w = NewSlave
  /\ missing \in Missing
  /\ it = 1 /\ badnum = -1 /\ site = NoSite
  /\ pos = 0 /\ read_line = 0 /\ vec_urls = <<>> /\ isok = FALSE

-------------------------------------------------------------------------------

\* A request that leads to an assignment, with the outcome of the batch before
\* (update_slave_status_in_memory).
Request(failed) ==
  /\ pc \in {"idle", "served"}
  /\ failed => w.last_task_site # NoSite /\ w.bad[w.last_task_site] < MaxBad
  /\ w' = IF failed THEN [w EXCEPT !.bad[w.last_task_site] = @ + 1] ELSE w
  /\ it' = 1 /\ badnum' = -1 /\ site' = NoSite
  /\ vec_urls' = <<>> /\ isok' = FALSE
  /\ pc' = "choose"
  /\ UNCHANGED <<url_map, conf, missing, pos, read_line>>

\* Mutant: of the sites that are equally bad the last one is taken.
LookAtSiteLastOfEquals ==
  /\ pc = "choose"
  /\ it \in Sites
  /\ it' = it + 1
  /\ IF ~url_map[it].isfinised /\ (badnum = -1 \/ badnum >= w.bad[it])
       THEN badnum' = w.bad[it] /\ site' = it
       ELSE UNCHANGED <<badnum, site>>
  /\ UNCHANGED <<pc, url_map, conf, w, missing, reading>>

\* One turn of the loop of get_min_bad_of_sites.
LookAtSite ==
  /\ pc = "choose"
  /\ it \in Sites
  /\ it' = it + 1
  /\ IF ~url_map[it].isfinised /\ (badnum = -1 \/ badnum > w.bad[it])
       THEN badnum' = w.bad[it] /\ site' = it
       ELSE UNCHANGED <<badnum, site>>
  /\ UNCHANGED <<pc, url_map, conf, w, missing, reading>>

\* The end of the loop: a site, or nothing to assign.
Chosen ==
  /\ pc = "choose"
  /\ it \notin Sites
  /\ pc' = IF site = NoSite THEN "served" ELSE "open"
  /\ UNCHANGED <<url_map, conf, w, missing, choice, reading>>

\* fopen and fseek.
OpenFile ==
  /\ pc = "open"
  /\ site \notin missing
  /\ pos' = url_map[site].finished_length
  /\ read_line' = AssignUrlNumber
  /\ vec_urls' = <<>>
  /\ pc' = "read"
  /\ UNCHANGED <<url_map, conf, w, missing, choice, isok>>

\* fopen returns NULL, and fseek follows it: the master dies.
OpenNothing ==
  /\ pc = "open"
  /\ site \in missing
  /\ pc' = "down"
  /\ UNCHANGED <<url_map, conf, w, missing, choice, reading>>

\* Mutant: a line that is not a URL counts.
ReadBlankCounts ==
  /\ pc = "read" /\ read_line > 0
  /\ pos < Len(File[site]) /\ ~IsUrl(File[site][pos + 1])
  /\ pos' = pos + 1
  /\ read_line' = read_line - 1
  /\ UNCHANGED <<pc, url_map, conf, w, missing, choice, vec_urls, isok>>

\* A line without a '.': read_line++ undoes the read_line-- of the loop.
ReadBlank ==
  /\ pc = "read" /\ read_line > 0
  /\ pos < Len(File[site]) /\ ~IsUrl(File[site][pos + 1])
  /\ pos' = pos + 1
  /\ UNCHANGED <<pc, url_map, conf, w, missing, choice, read_line, vec_urls, isok>>

ReadUrl ==
  /\ pc = "read" /\ read_line > 0
  /\ pos < Len(File[site]) /\ IsUrl(File[site][pos + 1])
  /\ pos' = pos + 1
  /\ read_line' = read_line - 1
  /\ vec_urls' = Append(vec_urls, pos + 1)
  /\ UNCHANGED <<pc, url_map, conf, w, missing, choice, isok>>

\* fgets returns NULL.
ReadEof ==
  /\ pc = "read" /\ read_line > 0
  /\ pos >= Len(File[site])
  /\ isok' = FALSE
  /\ pc' = "record"
  /\ UNCHANGED <<url_map, conf, w, missing, choice, pos, read_line, vec_urls>>

ReadEnough ==
  /\ pc = "read" /\ read_line = 0
  /\ isok' = TRUE
  /\ pc' = "record"
  /\ UNCHANGED <<url_map, conf, w, missing, choice, pos, read_line, vec_urls>>

\* Mutant: the file is marked as finished, and the cursors are not saved.
RecordOnlyBatches ==
  /\ pc = "record"
  /\ w' = IF isok THEN [w EXCEPT !.last_task_site = site] ELSE w
  /\ url_map' = [url_map EXCEPT ![site] = [finished_length |-> pos,
                                          isfinised |-> ~isok]]
  /\ conf' = IF isok THEN [conf EXCEPT ![site] = pos] ELSE conf
  /\ pc' = "served"
  /\ UNCHANGED <<missing, choice, reading>>

\* read_urls_and_record: the cursor goes to memory and to the file (which
\* Master does in two steps), the site to the slave's entry or, at the end of
\* its file, among the finished ones.
Record ==
  /\ pc = "record"
  /\ w' = IF isok THEN [w EXCEPT !.last_task_site = site] ELSE w
  /\ url_map' = [url_map EXCEPT ![site] = [finished_length |-> pos,
                                          isfinised |-> ~isok]]
  /\ conf' = [s \in Sites |-> url_map'[s].finished_length]
  /\ pc' = "served"
  /\ UNCHANGED <<missing, choice, reading>>

\* master_run.sh: what was known of the slaves and of finished sites is gone.
Restart ==
  /\ pc = "down"
  /\ url_map' = LoadCursors
  /\ w' = NewSlave
  /\ pc' = "idle"
  /\ UNCHANGED <<conf, missing, choice, reading>>

\* init_assign_cmd: the text that goes to the slave, a batch or a sleep command.
Reply ==
  IF isok
    THEN AssignCmd([i \in DOMAIN vec_urls |-> UrlOfLine(File[site][vec_urls[i]])],
                   <<"1">>, <<"9">>)
    ELSE SleepCmd(<<"1">>, <<"5">>)

Next ==
  \/ \E failed \in BOOLEAN : Request(failed)
  \/ LookAtSite \/ Chosen
  \/ OpenFile \/ OpenNothing
  \/ ReadBlank \/ ReadUrl \/ ReadEof \/ ReadEnough
  \/ Record \/ Restart

Spec == Init /\ [][Next]_vars

\* Requests keep coming, the master runs, and cron starts it again.
FairSpec == Spec /\ WF_vars(Next)

-------------------------------------------------------------------------------
(* Properties.                                                             *)

\* Every variable keeps its type: a cursor is a place in or behind a file.
TypeOK ==
  /\ pc \in {"idle", "choose", "open", "read", "record", "served", "down"}
  /\ url_map \in [Sites -> [finished_length : Nat, isfinised : BOOLEAN]]
  /\ conf \in [Sites -> Nat]
  /\ w \in [last_task_site : Sites \cup {NoSite}, bad : [Sites -> Nat]]
  /\ missing \in Missing
  /\ it \in 1..(NumSites + 1) /\ badnum \in Nat \cup {-1}
  /\ site \in Sites \cup {NoSite}
  /\ pos \in Nat /\ read_line \in 0..AssignUrlNumber
  /\ vec_urls \in Seq(Nat) /\ Len(vec_urls) <= AssignUrlNumber
  /\ isok \in BOOLEAN

\* The operators of Master, over the sites and the cursors of this module.
M == INSTANCE Master WITH
  Slaves <- {1}, Length <- [s \in Sites |-> Len(File[s])],
  CurrentVersion <- 1, Versions <- {}, Outcomes <- {}, StoreBytes <- {},
  MaxFds <- 0, MaxCrashes <- 0,
  fds <- 0, buff <- 0, store <- 0, sleep_time <- 0, slave_map <- 0, db <- 0,
  response <- 0, issued <- 0, crashes <- 0

\* get_min_bad_of_sites chooses the site Master says: among the unfinished ones
\* the first of those on which the slave failed least.
ChoosesLeastBad == pc = "open" => M!MinBadSite(w, site)

\* read_sitefile_lines reads what Master says: the lines from the cursor to
\* the one of the last URL of a full batch, or the rest of the file.
ReadsABatch ==
  pc = "record" =>
    LET from  == url_map[site].finished_length
        batch == {<<site, vec_urls[i]>> : i \in DOMAIN vec_urls}
    IN IF isok
         THEN /\ M!ReadStopsAt(site, from, pos)
              /\ batch = M!Between(site, from, pos)
         ELSE /\ M!ReadMeetsEof(site, from)
              /\ batch = M!Between(site, from, Len(File[site]))
              /\ pos = IF from > Len(File[site]) THEN from ELSE Len(File[site])

\* A batch of plain lines is grabbed as it stands in the file, URL by URL in
\* its order, each asked of its own host: what the master takes off a line,
\* joins, frames, and the slave cuts, splits and fills into the head of a
\* request adds up to nothing.  Without a batch the slave is told to sleep.
BatchArrives ==
  pc = "served" =>
    LET task == Str2Task(Reply) IN
    IF isok
      THEN LET line(i) == File[site][vec_urls[i]]
               url(i)  == SubSeq(line(i), 8, Len(line(i)) - 1)
           IN (\A i \in DOMAIN vec_urls : IsPlain(line(i))) =>
                /\ task.cmd_id = GRABPAGE /\ ~task.died
                /\ task.urls_vec = [i \in DOMAIN vec_urls |-> url(i)]
                /\ \A i \in DOMAIN vec_urls :
                     \E p \in DOMAIN url(i) :
                       /\ url(i)[p] = "/" /\ \A q \in 1..(p - 1) : url(i)[q] # "/"
                       /\ task.urls_http_req[i] =
                            <<"GET">> \o SubSeq(url(i), p, Len(url(i)))
                              \o <<"Host">> \o SubSeq(url(i), 1, p - 1)
      ELSE task.cmd_id = SLEEP

\* A file that is missing stops no site before it in the map: the master dies
\* when it gets to it, and the restart forgets the failures that let it get
\* there before the others were read out.  (The ones behind it wait for ever.)
SitesBeforeAMissingOneAreReadOut ==
  \A s \in Sites :
    (\A m \in missing : s < m) ~> conf[s] >= Len(File[s])

===============================================================================
