---------------------------- MODULE PageStoreProofs ----------------------------
(***************************************************************************)
(* Proofs about the storing of pages, for any slaves, files, numbers of    *)
(* attempts, descriptors, crashes and read timeouts.                       *)
(***************************************************************************)
EXTENDS PageStore, FiniteSetTheorems, TLAPS

-------------------------------------------------------------------------------
(* The inductive invariant.                                                *)

Linked  == {"command", "await", "content"}
Working == {"connect", "command", "await", "content", "stored"}
Serving == {"command", "reply", "open", "body"}

\* A slave stores files of its own, which are still there, one at a time.
SlaveOK ==
  \A w \in Slaves :
    /\ \A f \in todo[w] : f \in page /\ Owner[f] = w
    /\ spc[w] \in Working =>
         cur[w] \in page /\ Owner[cur[w]] = w /\ cur[w] \notin todo[w]
    /\ link[w] \in 0..made
    /\ link[w] # 0 <=> spc[w] \in Linked

\* The connection of a slave is the last one for its file, and a slave that
\* writes the file was answered or has seen the end of the connection.
LinkOK ==
  \A w \in Slaves : link[w] # 0 =>
    /\ conns[link[w]].file = cur[w]
    /\ conns[link[w]].ended = FALSE
    /\ \A k \in 1..made : k > link[w] => conns[k].file # cur[w]
    /\ spc[w] = "content" =>
         conns[link[w]].replied = TRUE \/ conns[link[w]].peer # "open"

\* Nobody answered or reset a connection that is not yet accepted.
ConnOK ==
  \A i \in 1..made :
    /\ conns[i].file \in Files
    /\ conns[i].body = "full" => conns[i].ended = TRUE
    /\ i > at => conns[i].peer = "open" /\ conns[i].replied = FALSE

RepOK ==
  /\ rpc \in Serving => at # 0 /\ conns[at].peer = "open"
  /\ rpc \in {"command", "reply"} => conns[at].replied = FALSE

\* The slave has written the whole of f and removed it, or is about to.
Settled(f) == f \notin page \/ \E w \in Slaves : spc[w] = "stored" /\ cur[w] = f

\* What would truncate the archive of a settled file brings the whole of it.
SettledOK ==
  \A f \in Files : Settled(f) =>
    /\ \A k \in 1..made : k > at => conns[k].file # f
    /\ rpc \in {"command", "reply"} => conns[at].file # f
    /\ rpc = "open" /\ conns[at].file = f => conns[at].body = "full"

StoreInv == TypeOK /\ SlaveOK /\ LinkOK /\ ConnOK /\ RepOK /\ SettledOK

\* The slave is going to write a file to a connection that the repertory has
\* left or lost, and will not notice.
Doomed(w) ==
  /\ link[w] # 0
  /\ conns[link[w]].peer # "rst"
  /\ link[w] < at \/ (link[w] = at /\ rpc \notin Serving)

\* The files that are lost, or will be unless their slave dies.
AtRisk(f) ==
  \/ Settled(f) /\ archive[f] # "full" /\ ~Arriving(f)
  \/ \E w \in Slaves : Doomed(w) /\ cur[w] = f

NoNewRisk == \A f \in Files : AtRisk(f)' => AtRisk(f)

RiskOK == Cardinality({f \in Files : AtRisk(f)}) <= faults

-------------------------------------------------------------------------------
LEMMA InitInv == Init => StoreInv
<1> SUFFICES ASSUME Init PROVE StoreInv
  OBVIOUS
<1>1. TypeOK
  <2>1. NewConn(NoFile) \in Conn
    BY DEF NewConn, Conn
  <2> QED
    BY <2>1, StoreAssumption DEF Init, TypeOK, ConnIds
<1>2. SlaveOK /\ LinkOK /\ ConnOK /\ RepOK /\ SettledOK
  BY DEF Init, SlaveOK, LinkOK, ConnOK, RepOK, SettledOK, Settled, Working,
         Linked, Serving
<1> QED
  BY <1>1, <1>2 DEF StoreInv

-------------------------------------------------------------------------------
(* The steps of a slave.                                                   *)

LEMMA ConnUpdates ==
  ASSUME NEW c \in Conn
  PROVE  /\ \A s \in {"no", "yes", "read"} : [c EXCEPT !.sent = s] \in Conn
         /\ \A p \in {"open", "fin", "rst"} : [c EXCEPT !.peer = p] \in Conn
         /\ [c EXCEPT !.replied = TRUE] \in Conn
         /\ \A b \in {"none", "cut", "full"} :
              [c EXCEPT !.ended = TRUE, !.body = b] \in Conn
BY DEF Conn

LEMMA LeaveType ==
  ASSUME TypeOK, NEW w \in Slaves, Leave(w)
  PROVE  /\ spc' \in [Slaves -> {"idle", "next", "connect", "command", "await",
                                 "content", "stored"}]
         /\ todo' \in [Slaves -> SUBSET Files]
         /\ cur' \in [Slaves -> Files \cup {NoFile}]
         /\ tries' \in [Slaves -> Nat]
BY DEF TypeOK, Leave

\* Steps in which no connection takes part.
LEMMA BeginPreserves ==
  ASSUME StoreInv, NEW w \in Slaves,
         \/ BeginStore(w) \/ EndStore(w) \/ \E f \in Files : NextFile(w, f)
  PROVE  StoreInv' /\ NoNewRisk
<1>1. UNCHANGED <<link, page, conns, made, at, rpc, fds, archive, read_totals,
                  crashes, faults>>
  BY DEF BeginStore, EndStore, NextFile, rep
<1>2. /\ \A v \in Slaves \ {w} : /\ spc'[v] = spc[v] /\ cur'[v] = cur[v]
                                 /\ todo'[v] = todo[v]
      /\ spc[w] \in {"idle", "next"} /\ spc'[w] \in {"idle", "next", "connect"}
  BY DEF BeginStore, EndStore, NextFile, Leave, StoreInv, TypeOK
<1>3. TypeOK'
  <2>1. CASE EndStore(w)
    BY <1>1, <2>1, LeaveType DEF EndStore, StoreInv, TypeOK
  <2>2. CASE BeginStore(w)
    BY <1>1, <2>2 DEF BeginStore, StoreInv, TypeOK
  <2>3. CASE \E f \in Files : NextFile(w, f)
    BY <1>1, <2>3 DEF NextFile, StoreInv, TypeOK
  <2> QED
    BY <2>1, <2>2, <2>3
<1>4. SlaveOK'
  <2>1. CASE EndStore(w)
    BY <1>1, <2>1 DEF EndStore, Leave, StoreInv, TypeOK, SlaveOK, Working, Linked
  <2>2. CASE BeginStore(w)
    BY <1>1, <2>2 DEF BeginStore, StoreInv, TypeOK, SlaveOK, Working, Linked
  <2>3. CASE \E f \in Files : NextFile(w, f)
    BY <1>1, <2>3 DEF NextFile, StoreInv, TypeOK, SlaveOK, Working, Linked
  <2> QED
    BY <2>1, <2>2, <2>3
<1>5. LinkOK' /\ ConnOK' /\ RepOK'
  BY <1>1, <1>2 DEF StoreInv, SlaveOK, LinkOK, ConnOK, RepOK, Linked
<1>6. SettledOK'
  BY <1>1, <1>2 DEF StoreInv, SettledOK, Settled
<1>7. NoNewRisk
  <2>1. \A v \in Slaves : Doomed(v)' => Doomed(v) /\ v # w
    BY <1>1, <1>2 DEF Doomed, StoreInv, SlaveOK, Linked
  <2>2. \A f \in Files : /\ Settled(f)' => Settled(f)
                         /\ Arriving(f)' <=> Arriving(f)
    BY <1>1, <1>2 DEF Settled, Arriving
  <2> QED
    BY <1>1, <1>2, <2>1, <2>2 DEF NoNewRisk, AtRisk
<1> QED
  BY <1>3, <1>4, <1>5, <1>6, <1>7 DEF StoreInv

LEMMA ConnectPreserves ==
  ASSUME StoreInv, NEW w \in Slaves, Connect(w)
  PROVE  StoreInv' /\ NoNewRisk
<1>1. /\ UNCHANGED <<todo, cur, tries, page, at, rpc, fds, archive, read_totals,
                     crashes, faults>>
      /\ spc[w] = "connect" /\ link[w] = 0 /\ cur[w] \in Files
      /\ spc' = [spc EXCEPT ![w] = "command"]
      /\ made + 1 \in ConnIds /\ made' = made + 1 /\ made \in Nat
      /\ at \in 0..made
      /\ link' = [link EXCEPT ![w] = made + 1]
  <2>1. cur[w] \in Files
    BY DEF Connect, StoreInv, TypeOK, SlaveOK, Working
  <2>2. made + 1 \in ConnIds /\ made \in Nat /\ at \in 0..made
    BY StoreAssumption DEF Connect, StoreInv, TypeOK, ConnIds
  <2>3. link[w] = 0
    BY DEF Connect, StoreInv, SlaveOK, Linked
  <2> QED
    BY <2>1, <2>2, <2>3 DEF Connect, rep
<1>2. /\ conns' = [conns EXCEPT ![made + 1] = NewConn(cur[w])]
      /\ conns'[made + 1] = NewConn(cur[w])
      /\ \A i \in 1..made : conns'[i] = conns[i]
  BY <1>1 DEF Connect, StoreInv, TypeOK, ConnIds
<1>3. TypeOK'
  <2>1. NewConn(cur[w]) \in Conn
    BY <1>1 DEF NewConn, Conn
  <2> QED
    BY <1>1, <1>2, <2>1, StoreAssumption DEF StoreInv, TypeOK, ConnIds
<1>4. SlaveOK'
  BY <1>1 DEF StoreInv, TypeOK, SlaveOK, Working, Linked
<1>5. LinkOK'
  <2> SUFFICES ASSUME NEW v \in Slaves, link'[v] # 0
               PROVE  /\ conns'[link'[v]].file = cur'[v]
                      /\ conns'[link'[v]].ended = FALSE
                      /\ \A k \in 1..made' : k > link'[v] =>
                           conns'[k].file # cur'[v]
                      /\ spc'[v] = "content" =>
                           \/ conns'[link'[v]].replied = TRUE
                           \/ conns'[link'[v]].peer # "open"
    BY DEF LinkOK
  <2>1. CASE v = w
    BY <1>1, <1>2, <2>1 DEF StoreInv, TypeOK, NewConn
  <2>2. CASE v # w
    <3>1. /\ link'[v] = link[v] /\ spc'[v] = spc[v] /\ link[v] \in 1..made
          /\ cur[v] # cur[w]
      BY <1>1, <2>2 DEF StoreInv, TypeOK, SlaveOK, Working, Linked
    <3> QED
      BY <1>1, <1>2, <3>1 DEF StoreInv, LinkOK, NewConn
  <2> QED
    BY <2>1, <2>2
<1>6. ConnOK'
  BY <1>1, <1>2 DEF StoreInv, ConnOK, NewConn
<1>7. RepOK'
  BY <1>1, <1>2 DEF StoreInv, RepOK, Serving
<1>8. SettledOK'
  <2> SUFFICES ASSUME NEW f \in Files, Settled(f)'
               PROVE  /\ \A k \in 1..made' : k > at' => conns'[k].file # f
                      /\ rpc' \in {"command", "reply"} => conns'[at'].file # f
                      /\ rpc' = "open" /\ conns'[at'].file = f =>
                           conns'[at'].body = "full"
    BY DEF SettledOK
  <2>1. Settled(f) /\ f # cur[w]
    BY <1>1 DEF StoreInv, TypeOK, SlaveOK, Settled, Working
  <2>2. rpc \in {"command", "reply", "open"} => at \in 1..made
    BY <1>1 DEF StoreInv, RepOK, Serving
  <2> QED
    BY <1>1, <1>2, <2>1, <2>2 DEF StoreInv, SettledOK, NewConn
<1>9. NoNewRisk
  <2>1. \A v \in Slaves : Doomed(v)' => Doomed(v)
    <3>1. ~Doomed(w)'
      BY <1>1 DEF Doomed, StoreInv, TypeOK
    <3>2. ASSUME NEW v \in Slaves, v # w, Doomed(v)' PROVE Doomed(v)
      <4>1. link'[v] = link[v] /\ link[v] \in 0..made
        BY <1>1, <3>2 DEF StoreInv, TypeOK, SlaveOK
      <4> QED
        BY <1>1, <1>2, <3>2, <4>1 DEF Doomed
    <3> QED
      BY <3>1, <3>2
  <2>2. rpc \in {"open", "body"} => at \in 1..made
    BY <1>1 DEF StoreInv, RepOK, Serving
  <2>3. \A f \in Files : /\ Settled(f)' => Settled(f)
                         /\ Arriving(f)' <=> Arriving(f)
    BY <1>1, <1>2, <2>2 DEF Settled, Arriving, StoreInv, TypeOK
  <2> QED
    BY <1>1, <2>1, <2>3 DEF NoNewRisk, AtRisk
<1> QED
  BY <1>3, <1>4, <1>5, <1>6, <1>7, <1>8, <1>9 DEF StoreInv

\* Steps of a slave, and of the network, that change no more of a connection
\* than sent and, if it is not open, peer.
LEMMA TalkPreserves ==
  ASSUME StoreInv, NEW w \in Slaves,
         SendCommand(w) \/ AwaitReply(w) \/ ResetArrives(w)
  PROVE  StoreInv' /\ NoNewRisk
<1>1. /\ UNCHANGED <<todo, cur, tries, link, page, made, at, rpc, fds, archive,
                     read_totals, crashes, faults>>
      /\ \A v \in Slaves \ {w} : spc'[v] = spc[v]
  BY DEF SendCommand, AwaitReply, ResetArrives, slave, rep, StoreInv, TypeOK
<1>2. /\ link[w] \in 1..made /\ spc[w] \in Linked /\ spc'[w] \in Linked
      /\ spc' \in [Slaves -> {"idle", "next", "connect", "command", "await",
                              "content", "stored"}]
      /\ made \in 0..MaxConns /\ at \in 0..made
  BY StoreAssumption DEF SendCommand, AwaitReply, ResetArrives, StoreInv, TypeOK, SlaveOK, slave,
         Linked
<1>3. conns' \in [ConnIds -> Conn]
  <2>1. link[w] \in ConnIds /\ conns[link[w]] \in Conn
    BY <1>2, StoreAssumption DEF StoreInv, TypeOK, ConnIds
  <2>2. CASE SendCommand(w)
    <3>1. conns' = [conns EXCEPT ![link[w]] = [conns[link[w]] EXCEPT !.sent = "yes"]]
      BY <2>1, <2>2 DEF SendCommand, StoreInv, TypeOK
    <3> QED
      BY <2>1, <3>1, ConnUpdates DEF StoreInv, TypeOK
  <2>3. CASE AwaitReply(w)
    BY <2>3 DEF AwaitReply, StoreInv, TypeOK
  <2>4. CASE ResetArrives(w)
    <3>1. conns' = [conns EXCEPT ![link[w]] = [conns[link[w]] EXCEPT !.peer = "rst"]]
      BY <2>1, <2>4 DEF ResetArrives, StoreInv, TypeOK
    <3> QED
      BY <2>1, <3>1, ConnUpdates DEF StoreInv, TypeOK
  <2> QED
    BY <2>2, <2>3, <2>4
<1>4. \A i \in 1..made : /\ conns'[i].file = conns[i].file
                         /\ conns'[i].body = conns[i].body
                         /\ conns'[i].ended = conns[i].ended
                         /\ conns'[i].replied = conns[i].replied
                         /\ \/ conns'[i].peer = conns[i].peer
                            \/ conns[i].peer = "fin" /\ conns'[i].peer = "rst"
  <2>1. CASE SendCommand(w)
    BY <2>1, <1>2 DEF SendCommand, StoreInv, TypeOK, Conn, ConnIds
  <2>2. CASE AwaitReply(w)
    BY <2>2 DEF AwaitReply
  <2>3. CASE ResetArrives(w)
    BY <2>3, <1>2 DEF ResetArrives, StoreInv, TypeOK, Conn, ConnIds
  <2> QED
    BY <2>1, <2>2, <2>3
<1>5. TypeOK'
  BY <1>1, <1>2, <1>3 DEF StoreInv, TypeOK
<1>6. SlaveOK'
  BY <1>1, <1>2 DEF StoreInv, SlaveOK, Working, Linked
<1>7. LinkOK'
  <2>1. spc'[w] = "content" => \/ conns[link[w]].replied = TRUE
                               \/ conns[link[w]].peer # "open"
    BY <1>2 DEF SendCommand, AwaitReply, ResetArrives, StoreInv, LinkOK, TypeOK,
                slave, Conn
  <2>2. \A v \in Slaves : link[v] # 0 => link[v] \in 1..made
    BY <1>2 DEF StoreInv, SlaveOK
  <2> QED
    BY <1>1, <1>2, <1>4, <2>1, <2>2 DEF StoreInv, LinkOK
<1>8. ConnOK' /\ RepOK'
  BY <1>1, <1>2, <1>4 DEF StoreInv, ConnOK, RepOK, Serving
<1>9. SettledOK'
  <2>1. rpc \in {"command", "reply", "open"} => at \in 1..made
    BY <1>2 DEF StoreInv, RepOK, Serving
  <2>2. \A f \in Files : Settled(f)' => Settled(f)
    BY <1>1, <1>2 DEF Settled, Linked
  <2> QED
    BY <1>1, <1>2, <1>4, <2>1, <2>2 DEF StoreInv, SettledOK
<1>10. NoNewRisk
  <2>1. \A v \in Slaves : link[v] \in 0..made
    BY DEF StoreInv, SlaveOK
  <2>2. \A v \in Slaves : Doomed(v)' => Doomed(v)
    BY <1>1, <1>2, <1>4, <2>1 DEF Doomed
  <2>3. rpc \in {"open", "body"} => at \in 1..made
    BY <1>2 DEF StoreInv, RepOK, Serving
  <2>4. \A f \in Files : /\ Settled(f)' => Settled(f)
                         /\ Arriving(f)' <=> Arriving(f)
    BY <1>1, <1>2, <1>4, <2>3 DEF Settled, Arriving, Linked
  <2> QED
    BY <1>1, <2>2, <2>4 DEF NoNewRisk, AtRisk
<1> QED
  BY <1>5, <1>6, <1>7, <1>8, <1>9, <1>10 DEF StoreInv

\* What Close does to the connections that were made.
Closed(w, b) ==
  /\ conns' \in [ConnIds -> Conn]
  /\ link' = [link EXCEPT ![w] = 0]
  /\ \A i \in 1..made :
       /\ conns'[i].file = conns[i].file
       /\ conns'[i].sent = conns[i].sent
       /\ conns'[i].replied = conns[i].replied
       /\ conns'[i].peer = conns[i].peer
       /\ i # link[w] => conns'[i] = conns[i]
       /\ i = link[w] => conns'[i].ended = TRUE /\ conns'[i].body = b

LEMMA CloseFacts ==
  ASSUME StoreInv, NEW w \in Slaves, NEW b \in {"none", "cut", "full"},
         Close(w, b)
  PROVE  Closed(w, b)
<1>1. link' = [link EXCEPT ![w] = 0]
  BY DEF Close
<1>2. CASE link[w] = 0
  BY <1>1, <1>2 DEF Close, Closed, StoreInv, TypeOK
<1>3. CASE link[w] # 0
  <2>1. link[w] \in ConnIds /\ conns[link[w]] \in Conn /\ 1..made \subseteq ConnIds
    BY <1>3, StoreAssumption DEF StoreInv, TypeOK, ConnIds
  <2>2. conns' = [conns EXCEPT ![link[w]] =
                    [conns[link[w]] EXCEPT !.ended = TRUE, !.body = b]]
    BY <1>3, <2>1 DEF Close, StoreInv, TypeOK
  <2>3. conns' \in [ConnIds -> Conn]
    BY <2>1, <2>2, ConnUpdates DEF StoreInv, TypeOK
  <2>4. /\ conns'[link[w]] = [conns[link[w]] EXCEPT !.ended = TRUE, !.body = b]
        /\ \A i \in 1..made : i # link[w] => conns'[i] = conns[i]
    BY <2>1, <2>2 DEF StoreInv, TypeOK
  <2>5. /\ conns'[link[w]].file = conns[link[w]].file
        /\ conns'[link[w]].sent = conns[link[w]].sent
        /\ conns'[link[w]].replied = conns[link[w]].replied
        /\ conns'[link[w]].peer = conns[link[w]].peer
        /\ conns'[link[w]].ended = TRUE /\ conns'[link[w]].body = b
    BY <2>1, <2>4 DEF Conn
  <2> QED
    BY <1>1, <2>3, <2>4, <2>5 DEF Closed
<1> QED
  BY <1>2, <1>3

\* A slave gives up a connection before it has written the whole file.
LEMMA GiveUpPreserves ==
  ASSUME StoreInv, NEW w \in Slaves, NEW b \in {"none", "cut"}, Close(w, b),
         UNCHANGED <<page, made, at, rpc, fds, archive, read_totals>>,
         crashes' \in 0..MaxCrashes, faults' \in 0..MaxFaults,
         \/ Leave(w)
         \/ /\ spc[w] \in Working
            /\ tries' = [tries EXCEPT ![w] = @ + 1]
            /\ spc' = [spc EXCEPT ![w] = "connect"]
            /\ UNCHANGED <<todo, cur>>
  PROVE  StoreInv' /\ NoNewRisk
<1>0. Closed(w, b)
  BY CloseFacts
<1> USE <1>0 DEF Closed
<1>1. /\ \A v \in Slaves \ {w} : /\ spc'[v] = spc[v] /\ cur'[v] = cur[v]
                                 /\ todo'[v] = todo[v] /\ link'[v] = link[v]
      /\ link'[w] = 0 /\ spc'[w] \in {"idle", "connect"}
      /\ \A v \in Slaves \ {w} : link[v] # 0 => link[v] # link[w]
      /\ \A v \in Slaves : link[v] # 0 => link[v] \in 1..made
      /\ at \in 0..made /\ made \in Nat
  <2>1. \A v \in Slaves \ {w} : link[v] # 0 => link[v] # link[w]
    BY DEF StoreInv, SlaveOK, LinkOK, Working, Linked
  <2>2. at \in 0..made /\ made \in Nat
    BY StoreAssumption DEF StoreInv, TypeOK
  <2> QED
    BY <2>1, <2>2 DEF Leave, StoreInv, TypeOK, SlaveOK
<1>2. TypeOK'
  <2>1. CASE Leave(w)
    BY <2>1, <1>1, LeaveType, StoreAssumption DEF StoreInv, TypeOK
  <2>2. CASE UNCHANGED <<todo, cur>> /\ ~Leave(w)
    BY <2>2, <1>1, StoreAssumption DEF StoreInv, TypeOK
  <2> QED
    BY <2>1, <2>2
<1>3. SlaveOK'
  <2>1. CASE Leave(w)
    BY <2>1, <1>1 DEF StoreInv, TypeOK, SlaveOK, Leave, Working, Linked
  <2>2. CASE UNCHANGED <<todo, cur>> /\ ~Leave(w)
    BY <2>2, <1>1 DEF StoreInv, TypeOK, SlaveOK, Working, Linked
  <2> QED
    BY <2>1, <2>2
<1>4. LinkOK'
  BY <1>1 DEF StoreInv, LinkOK
<1>5. ConnOK'
  BY <1>1 DEF StoreInv, ConnOK
<1>6. RepOK'
  BY <1>1 DEF StoreInv, RepOK, Serving
<1>7. SettledOK'
  <2>1. rpc \in {"command", "reply", "open"} => at \in 1..made
    BY <1>1 DEF StoreInv, RepOK, Serving
  <2>2. \A f \in Files : Settled(f)' => Settled(f)
    BY <1>1 DEF Settled
  <2>3. at \in 1..made /\ conns[at].body = "full" => at # link[w]
    BY DEF StoreInv, ConnOK, LinkOK
  <2> QED
    BY <1>1, <2>1, <2>2, <2>3 DEF StoreInv, SettledOK
<1>8. NoNewRisk
  <2>1. \A v \in Slaves : Doomed(v)' => Doomed(v) /\ v # w
    BY <1>1 DEF Doomed, StoreInv, TypeOK
  <2>2. rpc \in {"open", "body"} => at \in 1..made
    BY <1>1 DEF StoreInv, RepOK, Serving
  <2>3. at \in 1..made /\ conns[at].body = "full" => at # link[w]
    BY DEF StoreInv, ConnOK, LinkOK
  <2>4. \A f \in Files : /\ Settled(f)' => Settled(f)
                         /\ Arriving(f)  => Arriving(f)'
    BY <1>1, <2>2, <2>3 DEF Settled, Arriving
  <2> QED
    BY <1>1, <2>1, <2>4 DEF NoNewRisk, AtRisk
<1> QED
  BY <1>2, <1>3, <1>4, <1>5, <1>6, <1>7, <1>8 DEF StoreInv

LEMMA FailuresPreserve ==
  ASSUME StoreInv, NEW w \in Slaves,
         ConnectFails(w) \/ WriteFails(w) \/ SlaveCrash(w)
  PROVE  StoreInv' /\ NoNewRisk
<1>1. crashes \in 0..MaxCrashes /\ faults \in 0..MaxFaults
  BY DEF StoreInv, TypeOK
<1>2. CASE ConnectFails(w)
  BY <1>1, <1>2, GiveUpPreserves DEF ConnectFails, TryAgain, rep, Working
<1>3. CASE WriteFails(w)
  BY <1>1, <1>3, GiveUpPreserves
     DEF WriteFails, TryAgain, StartAgain, rep, Working
<1>4. CASE SlaveCrash(w)
  <2>1. crashes' \in 0..MaxCrashes
    BY <1>1, <1>4, StoreAssumption DEF SlaveCrash
  <2> QED
    BY <1>1, <1>4, <2>1, GiveUpPreserves DEF SlaveCrash, StartAgain, rep
<1> QED
  BY <1>2, <1>3, <1>4

\* A connection whose slave was answered, and that the repertory has neither
\* left nor lost, is the one it is about to read the file from.
LEMMA ContentIsRead ==
  ASSUME StoreInv, NEW w \in Slaves, spc[w] = "content"
  PROVE  /\ link[w] \in 1..made /\ link[w] <= at
         /\ \/ link[w] < at \/ rpc \notin Serving
            \/ rpc \in {"open", "body"}
<1>1. link[w] \in 1..made /\ at \in 0..made /\ made \in Nat
  BY StoreAssumption DEF StoreInv, TypeOK, SlaveOK, Linked
<1>2. conns[link[w]].replied = TRUE \/ conns[link[w]].peer # "open"
  BY <1>1 DEF StoreInv, LinkOK
<1>3. link[w] <= at
  BY <1>1, <1>2 DEF StoreInv, ConnOK
<1> QED
  BY <1>1, <1>2, <1>3 DEF StoreInv, RepOK, Serving

LEMMA ContentPreserves ==
  ASSUME StoreInv, NEW w \in Slaves, SendContent(w)
  PROVE  StoreInv' /\ NoNewRisk
<1>1. /\ Close(w, "full") /\ spc[w] = "content"
      /\ spc' = [spc EXCEPT ![w] = "stored"]
      /\ UNCHANGED <<todo, cur, tries, page, made, at, rpc, fds, archive,
                     read_totals, crashes, faults>>
  BY DEF SendContent, rep
<1>0. Closed(w, "full")
  BY <1>1, CloseFacts
<1> USE <1>0 DEF Closed
<1>2. /\ \A v \in Slaves \ {w} : link[v] # 0 => link[v] # link[w]
      /\ \A v \in Slaves : link[v] # 0 => link[v] \in 1..made
      /\ at \in 0..made /\ made \in Nat /\ cur[w] \in Files
  <2>1. \A v \in Slaves \ {w} : link[v] # 0 => link[v] # link[w]
    BY DEF StoreInv, SlaveOK, LinkOK, Working, Linked
  <2>2. at \in 0..made /\ made \in Nat
    BY StoreAssumption DEF StoreInv, TypeOK
  <2> QED
    BY <1>1, <2>1, <2>2 DEF StoreInv, TypeOK, SlaveOK, Working
<1>9. /\ link[w] \in 1..made /\ link[w] <= at
      /\ link[w] < at \/ rpc \notin Serving \/ rpc \in {"open", "body"}
  BY <1>1, ContentIsRead
<1>3. TypeOK'
  BY <1>1, StoreAssumption DEF StoreInv, TypeOK
<1>4. SlaveOK'
  BY <1>1 DEF StoreInv, TypeOK, SlaveOK, Working, Linked
<1>5. LinkOK'
  BY <1>1, <1>2 DEF StoreInv, TypeOK, LinkOK
<1>6. ConnOK'
  BY <1>1, <1>2 DEF StoreInv, ConnOK
<1>7. RepOK'
  BY <1>1, <1>2 DEF StoreInv, RepOK, Serving
<1>8. SettledOK'
  <2>1. rpc \in {"command", "reply", "open"} => at \in 1..made
    BY <1>2 DEF StoreInv, RepOK, Serving
  <2> SUFFICES ASSUME NEW f \in Files, Settled(f)'
               PROVE  /\ \A k \in 1..made : k > at => conns'[k].file # f
                      /\ rpc \in {"command", "reply"} => conns'[at].file # f
                      /\ rpc = "open" /\ conns'[at].file = f =>
                           conns'[at].body = "full"
    BY <1>1 DEF SettledOK
  <2>2. CASE f = cur[w]
    <3>1. \A k \in 1..made : k > link[w] => conns'[k].file # f
      BY <1>1, <1>2, <2>2, <1>9 DEF StoreInv, LinkOK
    <3>2. link[w] = at => conns'[at].body = "full"
      BY <1>1, <1>2, <1>9
    <3> QED
      BY <1>1, <1>2, <2>1, <3>1, <3>2, <1>9 DEF Serving
  <2>3. CASE f # cur[w]
    <3>1. Settled(f)
      BY <1>1, <2>3 DEF Settled, StoreInv, TypeOK
    <3>2. at \in 1..made /\ conns[at].body = "full" => at # link[w]
      BY DEF StoreInv, ConnOK, LinkOK
    <3> QED
      BY <1>1, <1>2, <2>1, <3>1, <3>2 DEF StoreInv, SettledOK
  <2> QED
    BY <2>2, <2>3
<1>10. NoNewRisk
  <2>1. \A v \in Slaves : Doomed(v)' => Doomed(v) /\ v # w
    BY <1>1, <1>2 DEF Doomed, StoreInv, TypeOK
  <2>2. rpc \in {"open", "body"} => at \in 1..made
    BY <1>2 DEF StoreInv, RepOK, Serving
  <2>3. at \in 1..made /\ conns[at].body = "full" => at # link[w]
    BY DEF StoreInv, ConnOK, LinkOK
  <2>4. \A f \in Files : Arriving(f) => Arriving(f)'
    BY <1>1, <2>2, <2>3 DEF Arriving
  <2>5. ASSUME NEW f \in Files, f # cur[w], AtRisk(f)' PROVE AtRisk(f)
    BY <1>1, <2>1, <2>4, <2>5 DEF AtRisk, Settled, StoreInv, TypeOK
  <2>6. ASSUME NEW f \in Files, f = cur[w], AtRisk(f)' PROVE AtRisk(f)
    <3>1. conns[link[w]].peer # "rst" /\ conns[link[w]].file = f
      BY <1>9, <2>6 DEF SendContent, StoreInv, LinkOK
    <3>2. CASE link[w] = at /\ rpc \in {"open", "body"}
      <4>1. Arriving(f)'
        BY <1>1, <1>9, <3>1, <3>2 DEF Arriving
      <4> QED
        BY <1>1, <2>1, <2>6, <4>1 DEF AtRisk
    <3>3. CASE link[w] < at \/ rpc \notin Serving
      <4>1. Doomed(w)
        <5>1. link[w] # 0 /\ (link[w] < at \/ link[w] = at)
          BY <1>2, <1>9
        <5> QED
          BY <3>1, <3>3, <5>1 DEF Doomed
      <4> QED
        BY <2>6, <4>1 DEF AtRisk
    <3> QED
      BY <1>2, <1>9, <3>2, <3>3 DEF Serving
  <2> QED
    BY <2>5, <2>6 DEF NoNewRisk
<1> QED
  BY <1>3, <1>4, <1>5, <1>6, <1>7, <1>8, <1>10 DEF StoreInv

LEMMA RemovePreserves ==
  ASSUME StoreInv, NEW w \in Slaves, RemovePage(w)
  PROVE  StoreInv' /\ NoNewRisk
<1>1. /\ page' = page \ {cur[w]} /\ spc[w] = "stored"
      /\ spc' = [spc EXCEPT ![w] = "next"]
      /\ UNCHANGED <<todo, cur, tries, link, conns, made, at, rpc, fds, archive,
                     read_totals, crashes, faults>>
  BY DEF RemovePage, rep
<1>2. TypeOK'
  BY <1>1 DEF StoreInv, TypeOK
<1>3. SlaveOK'
  BY <1>1 DEF StoreInv, TypeOK, SlaveOK, Working, Linked
<1>4. LinkOK'
  BY <1>1 DEF StoreInv, TypeOK, LinkOK
<1>5. ConnOK' /\ RepOK'
  BY <1>1 DEF StoreInv, ConnOK, RepOK
<1>6. SettledOK'
  <2>1. \A f \in Files : Settled(f)' => Settled(f)
    BY <1>1 DEF Settled, StoreInv, TypeOK
  <2> QED
    BY <1>1, <2>1 DEF StoreInv, SettledOK
<1>7. NoNewRisk
  <2>1. \A v \in Slaves : Doomed(v)' <=> Doomed(v)
    BY <1>1 DEF Doomed
  <2>2. \A f \in Files : /\ Settled(f)' => Settled(f)
                         /\ Arriving(f)' <=> Arriving(f)
    BY <1>1 DEF Settled, Arriving, StoreInv, TypeOK
  <2> QED
    BY <1>1, <2>1, <2>2 DEF NoNewRisk, AtRisk
<1> QED
  BY <1>2, <1>3, <1>4, <1>5, <1>6, <1>7 DEF StoreInv

-------------------------------------------------------------------------------
(* The steps of the repertory.                                             *)

\* A step that leaves the slaves alone, and of their connections changes no
\* more than the end of the repertory, need not look at SlaveOK and LinkOK.
LEMMA SlavesKeep ==
  ASSUME StoreInv, UNCHANGED <<spc, todo, cur, link, page, made>>,
         \A i \in 1..made :
           /\ conns'[i].file = conns[i].file
           /\ conns'[i].ended = conns[i].ended
           /\ conns[i].replied = TRUE => conns'[i].replied = TRUE
           /\ conns[i].peer # "open" => conns'[i].peer # "open"
  PROVE  SlaveOK' /\ LinkOK' /\ \A f \in Files : Settled(f)' <=> Settled(f)
<1>1. SlaveOK'
  BY DEF StoreInv, SlaveOK
<1>2. \A w \in Slaves : link[w] # 0 => link[w] \in 1..made
  BY StoreAssumption DEF StoreInv, TypeOK, SlaveOK
<1>3. LinkOK'
  BY <1>2 DEF StoreInv, LinkOK
<1> QED
  BY <1>1, <1>3 DEF Settled

LEMMA AcceptPreserves ==
  ASSUME StoreInv, RepAccept
  PROVE  StoreInv' /\ NoNewRisk
<1>1. /\ UNCHANGED <<spc, todo, cur, tries, link, page, conns, made, archive,
                     read_totals, crashes, faults>>
      /\ at' = at + 1 /\ rpc' = "command" /\ at + 1 \in 1..made
      /\ at \in Nat /\ made \in Nat
  BY StoreAssumption DEF RepAccept, slave, StoreInv, TypeOK
<1>2. TypeOK'
  <2>1. fds' \in 0..MaxFds
    BY StoreAssumption DEF RepAccept, StoreInv, TypeOK
  <2> QED
    BY <1>1, <2>1 DEF StoreInv, TypeOK
<1>3. SlaveOK' /\ LinkOK' /\ \A f \in Files : Settled(f)' <=> Settled(f)
  BY <1>1, SlavesKeep
<1>4. ConnOK'
  BY <1>1 DEF StoreInv, ConnOK
<1>5. RepOK'
  BY <1>1 DEF StoreInv, ConnOK, RepOK
<1>6. SettledOK'
  BY <1>1, <1>3 DEF StoreInv, SettledOK
<1>7. NoNewRisk
  <2>1. rpc = "accept"
    BY DEF RepAccept
  <2>2. \A v \in Slaves : link[v] \in Nat
    BY <1>1 DEF StoreInv, SlaveOK
  <2>3. \A v \in Slaves : Doomed(v)' => Doomed(v)
    BY <1>1, <2>1, <2>2 DEF Doomed, Serving
  <2>4. \A f \in Files : ~Arriving(f)
    BY <2>1 DEF Arriving
  <2> QED
    BY <1>1, <1>3, <2>3, <2>4 DEF NoNewRisk, AtRisk
<1> QED
  BY <1>2, <1>3, <1>4, <1>5, <1>6, <1>7 DEF StoreInv

LEMMA AnswerPreserves ==
  ASSUME StoreInv, RepReadCommand \/ RepReply
  PROVE  StoreInv' /\ NoNewRisk
<1>1. /\ UNCHANGED <<spc, todo, cur, tries, link, page, made, at, fds, archive,
                     read_totals, crashes, faults>>
      /\ rpc \in {"command", "reply"}
      /\ rpc' = IF rpc = "command" THEN "reply" ELSE "open"
  BY DEF RepReadCommand, RepReply, slave
<1>2. /\ at \in 1..made /\ made \in Nat /\ 1..made \subseteq ConnIds
      /\ conns[at] \in Conn /\ conns \in [ConnIds -> Conn]
  BY <1>1, StoreAssumption DEF StoreInv, TypeOK, RepOK, Serving, ConnIds
<1>3. conns' = [conns EXCEPT ![at] =
                  IF rpc = "command" THEN [conns[at] EXCEPT !.sent = "read"]
                  ELSE [conns[at] EXCEPT !.replied = TRUE]]
  BY <1>2 DEF RepReadCommand, RepReply
<1>4. conns' \in [ConnIds -> Conn]
  BY <1>2, <1>3, ConnUpdates
<1>5. /\ \A i \in 1..made : i # at => conns'[i] = conns[i]
      /\ conns'[at].file = conns[at].file
      /\ conns'[at].ended = conns[at].ended
      /\ conns'[at].body = conns[at].body
      /\ conns'[at].peer = conns[at].peer
      /\ conns[at].replied = TRUE => conns'[at].replied = TRUE
      /\ rpc = "command" => conns'[at].replied = conns[at].replied
  BY <1>2, <1>3 DEF Conn
<1>6. TypeOK'
  BY <1>1, <1>4 DEF StoreInv, TypeOK
<1>7. SlaveOK' /\ LinkOK' /\ \A f \in Files : Settled(f)' <=> Settled(f)
  <2>1. \A i \in 1..made :
          /\ conns'[i].file = conns[i].file
          /\ conns'[i].ended = conns[i].ended
          /\ conns[i].replied = TRUE => conns'[i].replied = TRUE
          /\ conns[i].peer # "open" => conns'[i].peer # "open"
    BY <1>5
  <2> QED
    BY <1>1, <2>1, SlavesKeep
<1>8. ConnOK'
  BY <1>1, <1>2, <1>5 DEF StoreInv, ConnOK
<1>9. RepOK'
  BY <1>1, <1>2, <1>5 DEF StoreInv, RepOK, Serving
<1>10. SettledOK'
  BY <1>1, <1>2, <1>5, <1>7 DEF StoreInv, SettledOK
<1>11. NoNewRisk
  <2>1. \A v \in Slaves : link[v] \in 0..made
    BY DEF StoreInv, SlaveOK
  <2>2. \A v \in Slaves : Doomed(v)' => Doomed(v)
    BY <1>1, <1>2, <1>5, <2>1 DEF Doomed, Serving
  <2>3. \A f \in Files : ~Arriving(f)
    BY <1>1 DEF Arriving
  <2> QED
    BY <1>1, <1>7, <2>2, <2>3 DEF NoNewRisk, AtRisk
<1> QED
  BY <1>6, <1>7, <1>8, <1>9, <1>10, <1>11 DEF StoreInv

LEMMA OpenPreserves ==
  ASSUME StoreInv, RepOpen
  PROVE  StoreInv' /\ NoNewRisk
<1>1. /\ UNCHANGED <<spc, todo, cur, tries, link, page, conns, made, at, fds,
                     read_totals, crashes, faults>>
      /\ rpc = "open" /\ rpc' = "body"
      /\ archive' = [archive EXCEPT ![conns[at].file] = "cut"]
  BY DEF RepOpen, slave
<1>2. TypeOK'
  BY <1>1 DEF StoreInv, TypeOK
<1>3. SlaveOK' /\ LinkOK' /\ \A f \in Files : Settled(f)' <=> Settled(f)
  BY <1>1, SlavesKeep
<1>4. ConnOK' /\ RepOK'
  BY <1>1 DEF StoreInv, ConnOK, RepOK, Serving
<1>5. SettledOK'
  BY <1>1, <1>3 DEF StoreInv, SettledOK
<1>6. NoNewRisk
  <2>1. \A v \in Slaves : Doomed(v)' <=> Doomed(v)
    BY <1>1 DEF Doomed, Serving
  <2>2. \A f \in Files : Arriving(f)' <=> Arriving(f)
    BY <1>1 DEF Arriving
  <2>3. \A f \in Files : Settled(f) /\ conns[at].file = f => Arriving(f)
    BY <1>1 DEF StoreInv, SettledOK, Arriving
  <2>4. \A f \in Files : conns[at].file # f => archive'[f] = archive[f]
    BY <1>1 DEF StoreInv, TypeOK
  <2> QED
    BY <1>1, <1>3, <2>1, <2>2, <2>3, <2>4 DEF NoNewRisk, AtRisk
<1> QED
  BY <1>2, <1>3, <1>4, <1>5, <1>6 DEF StoreInv

LEMMA SavedType ==
  ASSUME TypeOK, FileSaved
  PROVE  read_totals' \in 0..FeedbackAfter /\ rpc' \in {"accept", "feedback"}
BY StoreAssumption DEF TypeOK, FileSaved

\* The repertory is done with a connection, in whatever way.
LEMMA DonePreserves ==
  ASSUME StoreInv,
         \/ RepNoCommand \/ RepReadBody \/ RepReadEof \/ RepFeedback
         \/ RepTimeout \/ RepRestart
  PROVE  StoreInv'
<1>1. /\ UNCHANGED <<spc, todo, cur, tries, link, page, conns, made, at, fds,
                     crashes>>
      /\ rpc' \in {"accept", "feedback"}
  <2>1. CASE RepNoCommand \/ RepFeedback \/ RepRestart
    BY <2>1 DEF RepNoCommand, RepFeedback, RepRestart, slave
  <2>2. CASE RepReadBody \/ RepReadEof
    BY <2>2 DEF RepReadBody, RepReadEof, FileSaved, slave
  <2>3. CASE RepTimeout
    BY <2>3 DEF RepTimeout, FileSaved, slave
  <2> QED
    BY <2>1, <2>2, <2>3
<1>2. /\ archive' \in [Files -> {"none", "cut", "full"}]
      /\ read_totals' \in 0..FeedbackAfter
      /\ faults' \in 0..MaxFaults
  <2>1. TypeOK
    BY DEF StoreInv
  <2>2. CASE RepNoCommand \/ RepFeedback \/ RepRestart
    BY <2>1, <2>2 DEF RepNoCommand, RepFeedback, RepRestart, TypeOK
  <2>3. CASE RepReadBody \/ RepReadEof
    BY <2>1, <2>3, SavedType DEF RepReadBody, RepReadEof, TypeOK
  <2>4. CASE RepTimeout
    <3>1. faults' \in 0..MaxFaults
      BY <2>1, <2>4, StoreAssumption DEF RepTimeout, TypeOK
    <3>2. UNCHANGED read_totals \/ FileSaved
      BY <2>4 DEF RepTimeout
    <3> QED
      BY <2>1, <2>4, <3>1, <3>2, SavedType DEF RepTimeout, TypeOK
  <2> QED
    BY <2>2, <2>3, <2>4
<1>3. TypeOK'
  BY <1>1, <1>2 DEF StoreInv, TypeOK
<1>4. SlaveOK' /\ LinkOK' /\ \A f \in Files : Settled(f)' <=> Settled(f)
  BY <1>1, SlavesKeep
<1>5. ConnOK' /\ RepOK'
  BY <1>1 DEF StoreInv, ConnOK, RepOK, Serving
<1>6. SettledOK'
  BY <1>1, <1>4 DEF StoreInv, SettledOK
<1> QED
  BY <1>3, <1>4, <1>5, <1>6 DEF StoreInv

LEMMA CrashFacts ==
  ASSUME TypeOK, RepCrash
  PROVE  /\ conns' \in [ConnIds -> Conn]
         /\ \A i \in 1..made :
              /\ conns'[i].file = conns[i].file
              /\ conns'[i].ended = conns[i].ended
              /\ conns'[i].body = conns[i].body
              /\ conns'[i].replied = conns[i].replied
              /\ conns'[i].peer # "open"
              /\ conns[i].peer = "rst" => conns'[i].peer = "rst"
              /\ i > at /\ conns[i].peer = "open" => conns'[i].peer = "rst"
<1>1. made \in Nat /\ 1..made \subseteq ConnIds
  BY StoreAssumption DEF TypeOK, ConnIds
<1>2. ASSUME NEW i \in ConnIds
      PROVE  /\ conns'[i] \in Conn
             /\ i \in 1..made =>
                  /\ conns'[i].file = conns[i].file
                  /\ conns'[i].ended = conns[i].ended
                  /\ conns'[i].body = conns[i].body
                  /\ conns'[i].replied = conns[i].replied
                  /\ conns'[i].peer # "open"
                  /\ conns[i].peer = "rst" => conns'[i].peer = "rst"
                  /\ i > at /\ conns[i].peer = "open" => conns'[i].peer = "rst"
  <2>1. conns[i] \in Conn
    BY DEF TypeOK
  <2>2. conns'[i] = IF i > made \/ conns[i].peer # "open" THEN conns[i]
                    ELSE IF i > at \/ conns[i].sent = "yes"
                         THEN [conns[i] EXCEPT !.peer = "rst"]
                         ELSE [conns[i] EXCEPT !.peer = "fin"]
    BY DEF RepCrash
  <2>3. conns'[i] \in Conn
    BY <2>1, <2>2, ConnUpdates
  <2> QED
    BY <1>1, <2>1, <2>2, <2>3 DEF Conn
<1>3. conns' = [i \in ConnIds |-> conns'[i]]
  BY DEF RepCrash
<1> QED
  BY <1>1, <1>2, <1>3

LEMMA RepCrashPreserves ==
  ASSUME StoreInv, RepCrash
  PROVE  StoreInv'
<1>1. /\ UNCHANGED <<spc, todo, cur, tries, link, page, made, archive, crashes>>
      /\ at' = made /\ rpc' = "down" /\ fds' = 0 /\ read_totals' = 0
      /\ made \in Nat
  BY StoreAssumption DEF RepCrash, slave, StoreInv, TypeOK
<1>2. TypeOK'
  <2>1. faults' \in 0..MaxFaults /\ 0 \in 0..MaxFds /\ 0 \in 0..FeedbackAfter
    BY StoreAssumption DEF RepCrash, StoreInv, TypeOK
  <2>2. conns' \in [ConnIds -> Conn]
    BY CrashFacts DEF StoreInv
  <2> QED
    BY <1>1, <2>1, <2>2 DEF StoreInv, TypeOK
<1>3. SlaveOK' /\ LinkOK' /\ \A f \in Files : Settled(f)' <=> Settled(f)
  BY <1>1, CrashFacts, SlavesKeep DEF StoreInv
<1>4. ConnOK'
  BY <1>1, CrashFacts DEF StoreInv, ConnOK
<1>5. RepOK'
  BY <1>1 DEF RepOK, Serving
<1>6. SettledOK'
  BY <1>1 DEF SettledOK
<1> QED
  BY <1>2, <1>3, <1>4, <1>5, <1>6 DEF StoreInv

-------------------------------------------------------------------------------
(* What a step of the repertory puts at risk.                              *)

LEMMA DoneRisk ==
  ASSUME StoreInv,
         RepNoCommand \/ RepReadBody \/ RepReadEof \/ RepFeedback \/ RepRestart
  PROVE  NoNewRisk
<1>1. UNCHANGED <<spc, cur, link, page, conns, at>>
  BY DEF RepNoCommand, RepReadBody, RepReadEof, RepFeedback, RepRestart, slave
<1>2. /\ rpc \in {"command", "body", "feedback", "down"}
      /\ rpc \in Serving => at \in 1..made /\ conns[at].ended = TRUE
  <2>1. rpc \in Serving => at \in 1..made
    BY StoreAssumption DEF StoreInv, TypeOK, RepOK
  <2>2. CASE RepNoCommand \/ RepReadEof
    <3>1. at \in 1..made => conns[at].ended \in BOOLEAN
      BY StoreAssumption DEF StoreInv, TypeOK, Conn, ConnIds
    <3> QED
      BY <2>1, <2>2, <3>1 DEF RepNoCommand, RepReadEof
  <2>3. CASE RepReadBody
    BY <2>1, <2>3 DEF RepReadBody, StoreInv, ConnOK, Serving
  <2>4. CASE RepFeedback \/ RepRestart
    BY <2>4 DEF RepFeedback, RepRestart, Serving
  <2> QED
    BY <2>2, <2>3, <2>4
<1>3. \A w \in Slaves : Doomed(w)' => Doomed(w)
  BY <1>1, <1>2 DEF Doomed, StoreInv, LinkOK
<1>4. \A f \in Files : /\ archive'[f] = archive[f] \/ archive'[f] = "full"
                       /\ archive'[f] # "full" => ~Arriving(f)
  <2>1. CASE RepReadBody
    BY <2>1 DEF RepReadBody, StoreInv, TypeOK, Arriving
  <2>2. CASE RepReadEof
    BY <2>2 DEF RepReadEof, Arriving
  <2>3. CASE RepNoCommand \/ RepFeedback \/ RepRestart
    BY <2>3 DEF RepNoCommand, RepFeedback, RepRestart, Arriving
  <2> QED
    BY <2>1, <2>2, <2>3
<1> QED
  BY <1>1, <1>3, <1>4 DEF NoNewRisk, AtRisk, Settled

\* A fault of the repertory puts the file it is serving at risk, and no other.
LEMMA FaultRisk ==
  ASSUME StoreInv, RepTimeout \/ RepCrash, NEW f \in Files, AtRisk(f)'
  PROVE  AtRisk(f) \/ f = conns[at].file
<1>1. /\ UNCHANGED <<spc, cur, link, page, archive, made>>
      /\ at \in 0..made /\ made \in Nat
      /\ \A w \in Slaves : link[w] \in 0..made
      /\ rpc \in Serving => at \in 1..made
  BY StoreAssumption
     DEF RepTimeout, RepCrash, slave, StoreInv, TypeOK, SlaveOK, RepOK
<1>2. CASE RepTimeout
  <2>1. UNCHANGED <<conns, at>> /\ rpc' \in {"accept", "feedback"}
    BY <1>2 DEF RepTimeout, FileSaved
  <2>2. ~Arriving(f)
    BY <1>1, <1>2 DEF RepTimeout, Arriving, StoreInv, ConnOK, Serving
  <2>3. \A w \in Slaves : Doomed(w)' => Doomed(w) \/ link[w] = at
    BY <1>1, <2>1 DEF Doomed
  <2>4. \A w \in Slaves : link[w] # 0 => conns[link[w]].file = cur[w]
    BY DEF StoreInv, LinkOK
  <2> QED
    BY <1>1, <2>1, <2>2, <2>3, <2>4 DEF AtRisk, Settled, Doomed
<1>3. CASE RepCrash
  <2>1. \A w \in Slaves : Doomed(w)' => Doomed(w) \/ link[w] = at
    <3> SUFFICES ASSUME NEW w \in Slaves, Doomed(w)', link[w] # at
                 PROVE  Doomed(w)
      OBVIOUS
    <3>1. link[w] \in 1..made /\ conns'[link[w]].peer # "rst"
      BY <1>1 DEF Doomed
    <3>2. conns[link[w]].peer # "rst" /\ ~(link[w] > at)
      BY <1>3, <3>1, CrashFacts DEF StoreInv, ConnOK
    <3> QED
      BY <1>1, <3>1, <3>2 DEF Doomed
  <2>2. \A w \in Slaves : link[w] # 0 => conns[link[w]].file = cur[w]
    BY DEF StoreInv, LinkOK
  <2>3. Arriving(f) => f = conns[at].file
    BY DEF Arriving
  <2> QED
    BY <1>1, <2>1, <2>2, <2>3 DEF AtRisk, Settled, Doomed
<1> QED
  BY <1>2, <1>3

LEMMA StepInv == StoreInv /\ [Next]_vars => StoreInv'
<1> SUFFICES ASSUME StoreInv, [Next]_vars PROVE StoreInv'
  OBVIOUS
<1>1. CASE UNCHANGED vars
  BY <1>1 DEF vars, StoreInv, TypeOK, SlaveOK, LinkOK, ConnOK, RepOK, SettledOK,
              Settled
<1>2. ASSUME NEW w \in Slaves, SlaveStep(w) \/ SlaveCrash(w) \/ ResetArrives(w)
      PROVE  StoreInv'
  BY <1>2, BeginPreserves, ConnectPreserves, TalkPreserves, FailuresPreserve,
     ContentPreserves, RemovePreserves DEF SlaveStep
<1>3. CASE RepStep \/ RepTimeout \/ RepCrash
  BY <1>3, AcceptPreserves, AnswerPreserves, OpenPreserves, DonePreserves,
     RepCrashPreserves DEF RepStep
<1> QED
  BY <1>1, <1>2, <1>3 DEF Next

LEMMA Inductive == Spec => []StoreInv
BY InitInv, StepInv, PTL DEF Spec

\* Every variable of the store keeps its type.
THEOREM TypeCorrect == Spec => []TypeOK
<1>1. StoreInv => TypeOK
  BY DEF StoreInv
<1> QED
  BY Inductive, <1>1, PTL

LEMMA RiskStep == StoreInv /\ RiskOK /\ [Next]_vars => RiskOK'
<1> SUFFICES ASSUME StoreInv, RiskOK, [Next]_vars PROVE RiskOK'
  OBVIOUS
<1> DEFINE R == {f \in Files : AtRisk(f)}
           S == {f \in Files : AtRisk(f)'}
<1>1. IsFiniteSet(R) /\ IsFiniteSet(S) /\ faults \in Nat
  BY StoreAssumption, FS_Subset DEF StoreInv, TypeOK
<1>2. Cardinality(R) <= faults
  BY DEF RiskOK
<1>3. SUFFICES Cardinality(S) <= faults'
  BY DEF RiskOK
<1>4. CASE NoNewRisk /\ faults' = faults
  <2>1. S \subseteq R
    BY <1>4 DEF NoNewRisk
  <2>2. Cardinality(S) <= Cardinality(R)
    BY <1>1, <2>1, FS_Subset
  <2> QED
    BY <1>1, <1>2, <1>4, <2>2, FS_CardinalityType
<1>5. CASE RepTimeout \/ RepCrash
  <2> DEFINE x == conns[at].file
  <2>1. S \subseteq R \cup {x} /\ faults' = faults + 1
    BY <1>5, FaultRisk DEF RepTimeout, RepCrash
  <2>2. IsFiniteSet(R \cup {x}) /\ Cardinality(R \cup {x}) <= Cardinality(R) + 1
    <3> HIDE DEF R, S, x
    <3>1. Cardinality(R) \in Nat
      BY <1>1, FS_CardinalityType
    <3>2. /\ IsFiniteSet(R \cup {x})
          /\ Cardinality(R \cup {x}) =
               IF x \in R THEN Cardinality(R) ELSE Cardinality(R) + 1
      BY <1>1, FS_AddElement
    <3> QED
      BY <3>1, <3>2
  <2>3. Cardinality(S) <= Cardinality(R \cup {x})
    BY <2>1, <2>2, FS_Subset
  <2> HIDE DEF R, S, x
  <2>4. Cardinality(R) \in Nat /\ Cardinality(S) \in Nat
        /\ Cardinality(R \cup {x}) \in Nat
    BY <1>1, <2>2, FS_CardinalityType
  <2> QED
    BY <1>1, <1>2, <2>1, <2>2, <2>3, <2>4
<1>6. CASE UNCHANGED vars
  <2>1. NoNewRisk
    BY <1>6 DEF vars, NoNewRisk, AtRisk, Settled, Arriving, Doomed
  <2> QED
    BY <1>4, <1>6, <2>1 DEF vars
<1>7. ASSUME NEW w \in Slaves, SlaveStep(w) \/ SlaveCrash(w) \/ ResetArrives(w)
      PROVE  NoNewRisk /\ faults' = faults
  <2>1. NoNewRisk
    BY <1>7, BeginPreserves, ConnectPreserves, TalkPreserves, FailuresPreserve,
       ContentPreserves, RemovePreserves DEF SlaveStep
  <2>2. faults' = faults
    BY <1>7 DEF SlaveStep, BeginStore, NextFile, EndStore, Connect,
       ConnectFails, TryAgain, SendCommand, AwaitReply, SendContent, WriteFails,
       RemovePage, StartAgain, SlaveCrash, ResetArrives
  <2> QED
    BY <2>1, <2>2
<1>8. ASSUME RepStep PROVE NoNewRisk /\ faults' = faults
  <2>1. NoNewRisk
    BY <1>8, AcceptPreserves, AnswerPreserves, OpenPreserves, DoneRisk
       DEF RepStep
  <2>2. faults' = faults
    BY <1>8 DEF RepStep, RepAccept, RepReadCommand, RepNoCommand, RepReply,
       RepOpen, RepReadBody, RepReadEof, RepFeedback, RepRestart
  <2> QED
    BY <2>1, <2>2
<1> QED
  BY <1>4, <1>5, <1>6, <1>7, <1>8 DEF Next

\* A crash of a slave loses no file, and each crash or read timeout of the
\* repertory loses one at most (remote_store_page, service).
THEOREM LossesAreBounded == Spec => []LossesBoundedByFaults
<1>1. Init => RiskOK
  <2> SUFFICES ASSUME Init PROVE RiskOK
    OBVIOUS
  <2>1. {f \in Files : AtRisk(f)} = {}
    BY DEF Init, AtRisk, Settled, Doomed
  <2> QED
    BY <2>1, FS_EmptySet DEF Init, RiskOK
<1>2. StoreInv /\ RiskOK => LossesBoundedByFaults
  <2> SUFFICES ASSUME StoreInv, RiskOK PROVE LossesBoundedByFaults
    OBVIOUS
  <2> DEFINE R == {f \in Files : AtRisk(f)}
  <2>1. Lost \subseteq R
    BY DEF Lost, AtRisk, Settled
  <2>2. IsFiniteSet(R)
    BY StoreAssumption, FS_Subset
  <2>3. /\ IsFiniteSet(Lost) /\ Cardinality(Lost) <= Cardinality(R)
        /\ Cardinality(Lost) \in Nat /\ Cardinality(R) \in Nat
    BY <2>1, <2>2, FS_Subset, FS_CardinalityType
  <2>4. Cardinality(R) <= faults /\ faults \in Nat
    BY DEF RiskOK, StoreInv, TypeOK
  <2> QED
    BY <2>3, <2>4 DEF LossesBoundedByFaults
<1> QED
  BY <1>1, <1>2, Inductive, RiskStep, PTL DEF Spec

-------------------------------------------------------------------------------
(* What is archived stays, and who answers for a file.                     *)

\* How a step changes an archive, and which ones.
LEMMA ArchiveStep ==
  ASSUME StoreInv, [Next]_vars, NEW f \in Files, archive'[f] # archive[f]
  PROVE  \/ RepOpen /\ conns[at].file = f
         \/ RepReadBody /\ conns[at].file = f /\ archive'[f] = "full"
<1>1. RepOpen \/ RepReadBody
  <2>1. CASE UNCHANGED vars
    BY <2>1 DEF vars
  <2>2. ASSUME NEW w \in Slaves,
               SlaveStep(w) \/ SlaveCrash(w) \/ ResetArrives(w)
        PROVE  UNCHANGED archive
    BY <2>2 DEF SlaveStep, BeginStore, NextFile, EndStore, Connect,
       ConnectFails, TryAgain, SendCommand, AwaitReply, SendContent, WriteFails,
       RemovePage, StartAgain, SlaveCrash, ResetArrives, rep
  <2>3. RepTimeout \/ RepCrash => UNCHANGED archive
    BY DEF RepTimeout, RepCrash
  <2>4. RepStep => UNCHANGED archive \/ RepOpen \/ RepReadBody
    BY DEF RepStep, RepAccept, RepReadCommand, RepNoCommand, RepReply,
           RepReadEof, RepFeedback, RepRestart
  <2> QED
    BY <2>1, <2>2, <2>3, <2>4 DEF Next
<1>2. archive \in [Files -> {"none", "cut", "full"}]
  BY DEF StoreInv, TypeOK
<1>3. CASE RepOpen
  BY <1>2, <1>3 DEF RepOpen
<1>4. CASE RepReadBody
  BY <1>2, <1>4 DEF RepReadBody
<1> QED
  BY <1>1, <1>3, <1>4

\* Once a slave has removed a file that was saved whole, its archive stays as
\* it is (service opens it with O_TRUNC for every connection).
THEOREM ArchiveStays == Spec => ArchiveIsFinal
<1> DEFINE A == \A f \in Files : f \notin page /\ archive[f] = "full"
                                   /\ ~Arriving(f) => archive'[f] = "full"
<1>1. StoreInv /\ [Next]_vars => A
  <2> SUFFICES ASSUME StoreInv, [Next]_vars, NEW f \in Files, f \notin page,
                      archive[f] = "full", ~Arriving(f), archive'[f] # "full"
               PROVE  FALSE
    OBVIOUS
  <2>1. RepOpen /\ conns[at].file = f
    BY ArchiveStep
  <2> QED
    BY <2>1 DEF RepOpen, StoreInv, SettledOK, Settled, Arriving
<1> QED
  BY <1>1, Inductive, PTL DEF Spec, ArchiveIsFinal

\* What answers for f.
CustodyOf(f) == IF f \in page THEN "kept"
                ELSE IF f \in Lost THEN "lost" ELSE "handed"

\* A slave touches no connection but its own.
LEMMA OwnConnection ==
  ASSUME StoreInv, NEW w \in Slaves,
         SlaveStep(w) \/ SlaveCrash(w) \/ ResetArrives(w), NEW i \in 1..made
  PROVE  conns'[i].file = conns[i].file /\ (i # link[w] => conns'[i] = conns[i])
<1>1. i \in ConnIds /\ conns[i] \in Conn /\ made \in Nat
  BY StoreAssumption DEF StoreInv, TypeOK, ConnIds
<1>2. CASE \/ BeginStore(w) \/ EndStore(w) \/ (\E f \in Files : NextFile(w, f))
           \/ AwaitReply(w) \/ RemovePage(w)
  BY <1>2 DEF BeginStore, EndStore, NextFile, AwaitReply, RemovePage
<1>3. CASE Connect(w)
  BY <1>1, <1>3 DEF Connect, StoreInv, TypeOK
<1>4. CASE SendCommand(w) \/ ResetArrives(w)
  BY <1>1, <1>4 DEF SendCommand, ResetArrives, StoreInv, TypeOK, Conn
<1>5. CASE \/ ConnectFails(w) \/ SendContent(w) \/ WriteFails(w)
           \/ SlaveCrash(w)
  <2>1. PICK b \in {"none", "cut", "full"} : Close(w, b)
    BY <1>5 DEF ConnectFails, TryAgain, SendContent, WriteFails, SlaveCrash
  <2>2. Closed(w, b)
    BY <2>1, CloseFacts
  <2> QED
    BY <2>2 DEF Closed
<1> QED
  BY <1>2, <1>3, <1>4, <1>5 DEF SlaveStep

\* Nobody finds again what is lost, and what the slave has removed is lost
\* only by a crash of the repertory while it arrives.
LEMMA CustodyKeeps ==
  ASSUME StoreInv, [Next]_vars, NEW f \in Files, f \notin page,
         ~(RepCrash /\ f = conns[at].file)
  PROVE  (archive'[f] # "full" /\ ~Arriving(f)')
           <=> (archive[f] # "full" /\ ~Arriving(f))
<1>1. Settled(f) /\ (rpc \in Serving => at \in 1..made)
  BY StoreAssumption DEF Settled, StoreInv, TypeOK, RepOK
<1>2. CASE UNCHANGED vars
  BY <1>2 DEF vars, Arriving
<1>3. ASSUME NEW w \in Slaves, SlaveStep(w) \/ SlaveCrash(w) \/ ResetArrives(w)
      PROVE  UNCHANGED archive /\ (Arriving(f)' <=> Arriving(f))
  <2>1. UNCHANGED <<at, rpc, archive>>
    BY <1>3 DEF SlaveStep, BeginStore, NextFile, EndStore, Connect,
       ConnectFails, TryAgain, SendCommand, AwaitReply, SendContent, WriteFails,
       RemovePage, StartAgain, SlaveCrash, ResetArrives, rep
  <2>2. link[w] # 0 => conns[link[w]].file # f
    BY DEF StoreInv, SlaveOK, LinkOK, Linked, Working
  <2> QED
    BY <1>1, <1>3, <2>1, <2>2, OwnConnection DEF Arriving, Serving
<1>4. CASE RepReply
  <2>1. conns[at].file # f /\ UNCHANGED <<at, archive>> /\ rpc = "reply"
    BY <1>1, <1>4 DEF RepReply, StoreInv, SettledOK
  <2>2. conns'[at].file = conns[at].file
    BY <1>1, <1>4, StoreAssumption
       DEF RepReply, StoreInv, TypeOK, ConnIds, Conn, Serving
  <2> QED
    BY <2>1, <2>2 DEF Arriving
<1>5. CASE RepOpen
  <2>1. Arriving(f)' <=> Arriving(f)
    BY <1>5 DEF RepOpen, Arriving
  <2>2. CASE conns[at].file = f
    BY <1>1, <1>5, <2>1, <2>2 DEF RepOpen, StoreInv, SettledOK, Arriving
  <2>3. CASE conns[at].file # f
    BY <1>5, <2>1, <2>3, ArchiveStep DEF RepReadBody, RepOpen
  <2> QED
    BY <2>2, <2>3
<1>6. CASE RepReadBody
  <2>1. ~Arriving(f)'
    BY <1>6 DEF RepReadBody, FileSaved, Arriving
  <2>2. archive'[f] = IF f = conns[at].file THEN "full" ELSE archive[f]
    BY <1>6 DEF RepReadBody, StoreInv, TypeOK
  <2> QED
    BY <1>6, <2>1, <2>2 DEF RepReadBody, Arriving
<1>7. CASE \/ RepAccept \/ RepReadCommand \/ RepNoCommand \/ RepReadEof
           \/ RepFeedback \/ RepRestart
  BY <1>7 DEF RepAccept, RepReadCommand, RepNoCommand, RepReadEof, RepFeedback,
              RepRestart, FileSaved, Arriving
<1>8. CASE RepTimeout
  <2>1. rpc = "body" => conns[at].body # "full"
    BY <1>1, <1>8 DEF RepTimeout, StoreInv, ConnOK, Serving
  <2> QED
    BY <1>8, <2>1 DEF RepTimeout, FileSaved, Arriving
<1>9. CASE RepCrash
  BY <1>9 DEF RepCrash, Arriving
<1> QED
  BY <1>2, <1>3, <1>4, <1>5, <1>6, <1>7, <1>8, <1>9 DEF Next, RepStep

\* A step changes who answers for one file at most.
LEMMA CustodyStep ==
  ASSUME StoreInv, [Next]_vars
  PROVE  \/ \A f \in Files : CustodyOf(f)' = CustodyOf(f)
         \/ \E g \in Files :
              /\ \A f \in Files \ {g} : CustodyOf(f)' = CustodyOf(f)
              /\ \/ CustodyOf(g) = "kept" /\ CustodyOf(g)' = "handed"
                 \/ CustodyOf(g) # "lost" /\ CustodyOf(g)' = "lost"
<1>1. ASSUME NEW f \in Files, f \notin page, f \notin page',
             ~(RepCrash /\ f = conns[at].file)
      PROVE  CustodyOf(f)' = CustodyOf(f)
  BY <1>1, CustodyKeeps DEF CustodyOf, Lost
<1>2. ASSUME NEW f \in Files, f \in page, f \in page'
      PROVE  CustodyOf(f)' = CustodyOf(f)
  BY <1>2 DEF CustodyOf
<1>3. CASE \E w \in Slaves : RemovePage(w)
  <2>1. PICK w \in Slaves : RemovePage(w)
    BY <1>3
  <2>2. PICK g \in Files : g = cur[w] /\ g \in page /\ page' = page \ {g}
    BY <2>1 DEF RemovePage, StoreInv, TypeOK, SlaveOK, Working
  <2>3. ~RepCrash
    BY <2>2 DEF RepCrash, slave
  <2>4. \A f \in Files \ {g} : CustodyOf(f)' = CustodyOf(f)
    BY <1>1, <1>2, <2>2, <2>3
  <2>5. CustodyOf(g) = "kept" /\ CustodyOf(g)' \in {"handed", "lost"}
    BY <2>2 DEF CustodyOf
  <2> QED
    BY <2>4, <2>5
<1>4. CASE RepCrash
  <2>1. page' = page
    BY <1>4 DEF RepCrash, slave
  <2>2. \A f \in Files : f # conns[at].file => CustodyOf(f)' = CustodyOf(f)
    BY <1>1, <1>2, <2>1
  <2>3. CASE conns[at].file \in Files
    <3>1. PICK g \in Files : g = conns[at].file
      BY <2>3
    <3>2. CustodyOf(g) \in {"kept", "handed", "lost"}
      BY DEF CustodyOf
    <3>3. CustodyOf(g)' = CustodyOf(g) \/ CustodyOf(g) = "handed"
      <4>1. g \notin page /\ archive[g] # "full" /\ ~Arriving(g) =>
              CustodyOf(g)' = "lost"
        BY <1>4, <2>1 DEF RepCrash, CustodyOf, Lost, Arriving
      <4> QED
        BY <2>1, <4>1 DEF CustodyOf, Lost
    <3>4. CustodyOf(g) = "handed" => CustodyOf(g)' \in {"handed", "lost"}
      BY <2>1 DEF CustodyOf
    <3> QED
      BY <2>2, <3>1, <3>2, <3>3, <3>4
  <2> QED
    BY <2>2, <2>3
<1>5. CASE ~RepCrash /\ \A w \in Slaves : ~RemovePage(w)
  <2>1. page' = page
    BY <1>5 DEF Next, SlaveStep, BeginStore, NextFile, EndStore, Connect,
       ConnectFails, TryAgain, SendCommand, AwaitReply, SendContent, WriteFails,
       StartAgain, SlaveCrash, ResetArrives, RepStep, RepAccept, RepReadCommand,
       RepNoCommand, RepReply, RepOpen, RepReadBody, RepReadEof, RepFeedback,
       RepRestart, RepTimeout, slave, vars
  <2> QED
    BY <1>1, <1>2, <1>5, <2>1
<1> QED
  BY <1>3, <1>4, <1>5

\* The slaves and the repertory keep the promise of PageCustody: a file leaves
\* its slave once, nothing comes back, and no step loses two.
THEOREM Refinement == Spec => CustodySpec
<1> DEFINE custody == [f \in Files |-> IF f \in page THEN "kept"
                                ELSE IF f \in Lost THEN "lost" ELSE "handed"]
<1>1. Init => Custody!Init
  BY DEF Init, Custody!Init
<1>2. StoreInv /\ [Next]_vars => [Custody!Next]_custody
  <2> SUFFICES ASSUME StoreInv, [Next]_vars PROVE Custody!Next \/ UNCHANGED custody
    OBVIOUS
  <2>1. custody = [f \in Files |-> CustodyOf(f)]
        /\ custody' = [f \in Files |-> CustodyOf(f)']
    BY DEF CustodyOf
  <2>2. CASE \A f \in Files : CustodyOf(f)' = CustodyOf(f)
    BY <2>1, <2>2
  <2>3. ASSUME NEW g \in Files,
               \A f \in Files \ {g} : CustodyOf(f)' = CustodyOf(f),
               \/ CustodyOf(g) = "kept" /\ CustodyOf(g)' = "handed"
               \/ CustodyOf(g) # "lost" /\ CustodyOf(g)' = "lost"
        PROVE  Custody!Next
    <3> HIDE DEF custody
    <3>1. custody' = [custody EXCEPT ![g] = CustodyOf(g)']
      BY <2>1, <2>3
    <3>2. custody[g] = CustodyOf(g)
      BY <2>1
    <3>3. Custody!HandOver(g) \/ Custody!Lose(g)
      BY <2>3, <3>1, <3>2 DEF Custody!HandOver, Custody!Lose, custody
    <3> QED
      BY <3>3 DEF Custody!Next
  <2> QED
    BY <2>2, <2>3, CustodyStep
<1> QED
  BY <1>1, <1>2, Inductive, PTL DEF Spec, CustodySpec, Custody!Spec

===============================================================================
