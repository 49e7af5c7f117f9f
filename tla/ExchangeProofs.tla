---------------------------- MODULE ExchangeProofs -----------------------------
(***************************************************************************)
(* Proofs about a request and its answer, for any answers, any size of the *)
(* pieces and any number of attempts.                                      *)
(***************************************************************************)
EXTENDS Exchange, SequenceTheorems, TLAPS

-------------------------------------------------------------------------------
(* The inductive invariant.                                                *)

Attempt == {"connect", "select", "restore", "write", "read", "close"}

\* The descriptor is there from socket() to close().
FdsOK == fds = IF pc \in Attempt THEN 1 ELSE 0

BlockingOK == pc \notin {"connect", "select", "restore"} => blocking

\* Nothing arrives between two attempts.
LinkOK == pc \notin Attempt \/ pc = "connect" => link = "closed"

\* The answer is cut into what was read, what was received and what is to be
\* sent.
Parts ==
  /\ reply \in Replies
  /\ Len(str_cmd) + Len(inbox) + Len(outbox) = Len(reply)
  /\ \A k \in 1..Len(str_cmd) : str_cmd[k] = reply[k]
  /\ \A k \in 1..Len(inbox) : inbox[k] = reply[Len(str_cmd) + k]
  /\ \A k \in 1..Len(outbox) :
       outbox[k] = reply[Len(str_cmd) + Len(inbox) + k]

PartsOK == pc \in Attempt => Parts

\* What was read is complete if and only if that was noticed.
ReadOK ==
  /\ pc \in {"connect", "select", "restore", "write"} => str_cmd = <<>>
  /\ pc \in {"write", "read"} => ~ret
  /\ pc = "read"  => Len(str_cmd) < Len(reply)
  /\ pc = "close" => (ret <=> Len(str_cmd) = Len(reply))

IInv ==
  /\ TypeOK /\ FdsOK /\ BlockingOK /\ LinkOK /\ PartsOK /\ ReadOK

-------------------------------------------------------------------------------

\* An answer is a sequence with one "\f", its last element.
LEMMA ReplyShape ==
  ASSUME NEW r \in Replies
  PROVE  /\ r \in Seq(Chars) /\ Len(r) \in Nat \ {0}
         /\ \A k \in 1..Len(r) : r[k] = FF <=> k = Len(r)
BY ExchangeAssumption DEF Last

\* The two halves of a sequence that is cut after n elements.
LEMMA CutSeq ==
  ASSUME NEW s \in Seq(Chars), NEW n \in 1..Len(s)
  PROVE  /\ SubSeq(s, 1, n) \in Seq(Chars)
         /\ Len(SubSeq(s, 1, n)) = n
         /\ \A k \in 1..n : SubSeq(s, 1, n)[k] = s[k]
         /\ SubSeq(s, n + 1, Len(s)) \in Seq(Chars)
         /\ Len(SubSeq(s, n + 1, Len(s))) = Len(s) - n
         /\ \A k \in 1..(Len(s) - n) : SubSeq(s, n + 1, Len(s))[k] = s[n + k]
<1>1. Len(s) \in Nat /\ \A k \in 1..Len(s) : s[k] \in Chars
  BY LenProperties
<1>2. \A k \in 1..n : s[k] \in Chars
  BY <1>1
<1>3. \A k \in (n + 1)..Len(s) : s[k] \in Chars
  BY <1>1
<1> QED BY <1>1, <1>2, <1>3, SubSeqProperties

\* The first n elements go from b to the end of a.
LEMMA MoveParts ==
  ASSUME NEW a \in Seq(Chars), NEW b \in Seq(Chars), NEW n \in 1..Len(b)
  PROVE  LET a2 == a \o SubSeq(b, 1, n)
             b2 == SubSeq(b, n + 1, Len(b))
         IN /\ a2 \in Seq(Chars) /\ b2 \in Seq(Chars)
            /\ Len(a2) = Len(a) + n /\ Len(b2) = Len(b) - n
            /\ \A k \in 1..Len(a) : a2[k] = a[k]
            /\ \A k \in 1..n : a2[Len(a) + k] = b[k]
            /\ \A k \in 1..Len(b2) : b2[k] = b[n + k]
<1> DEFINE h == SubSeq(b, 1, n)
<1>1. /\ h \in Seq(Chars) /\ Len(h) = n
      /\ \A k \in 1..n : h[k] = b[k]
  BY CutSeq
<1>2. Len(a) \in Nat /\ n \in Nat /\ Len(b) \in Nat
  BY LenProperties
<1>3. /\ a \o h \in Seq(Chars)
      /\ Len(a \o h) = Len(a) + Len(h)
      /\ \A k \in 1..(Len(a) + Len(h)) :
           (a \o h)[k] = IF k <= Len(a) THEN a[k] ELSE h[k - Len(a)]
  BY <1>1, ConcatProperties
<1> HIDE DEF h
<1>4. \A k \in 1..Len(a) : (a \o h)[k] = a[k]
  BY <1>1, <1>2, <1>3
<1>5. \A k \in 1..n : (a \o h)[Len(a) + k] = b[k]
  <2> TAKE k \in 1..n
  <2>1. /\ Len(a) + k \in 1..(Len(a) + Len(h)) /\ ~(Len(a) + k <= Len(a))
        /\ (Len(a) + k) - Len(a) = k
    BY <1>1, <1>2
  <2> QED BY <1>1, <1>3, <2>1
<1> QED BY <1>1, <1>2, <1>3, <1>4, <1>5, CutSeq DEF h

\* The same for a part of the answer that begins after m elements of it.
LEMMA MoveInReply ==
  ASSUME NEW r, NEW m \in Nat,
         NEW a \in Seq(Chars), NEW b \in Seq(Chars), NEW n \in 1..Len(b),
         \A k \in 1..Len(a) : a[k] = r[m + k],
         \A k \in 1..Len(b) : b[k] = r[m + Len(a) + k]
  PROVE  LET a2 == a \o SubSeq(b, 1, n)
             b2 == SubSeq(b, n + 1, Len(b))
         IN /\ a2 \in Seq(Chars) /\ b2 \in Seq(Chars)
            /\ Len(a2) = Len(a) + n /\ Len(b2) = Len(b) - n
            /\ \A k \in 1..Len(a2) : a2[k] = r[m + k]
            /\ \A k \in 1..Len(b2) : b2[k] = r[m + Len(a2) + k]
<1> DEFINE a2 == a \o SubSeq(b, 1, n)
           b2 == SubSeq(b, n + 1, Len(b))
<1>1. /\ a2 \in Seq(Chars) /\ b2 \in Seq(Chars)
      /\ Len(a2) = Len(a) + n /\ Len(b2) = Len(b) - n
      /\ \A k \in 1..Len(a) : a2[k] = a[k]
      /\ \A k \in 1..n : a2[Len(a) + k] = b[k]
      /\ \A k \in 1..Len(b2) : b2[k] = b[n + k]
  BY MoveParts
<1>2. Len(a) \in Nat /\ n \in Nat /\ Len(b) \in Nat
  BY LenProperties
<1> HIDE DEF a2, b2
<1>3. ASSUME NEW k \in 1..Len(a2)
      PROVE  a2[k] = r[m + k]
  <2>1. CASE k <= Len(a)
    BY <1>1, <1>2, <2>1
  <2>2. CASE k > Len(a)
    <3>1. PICK j \in 1..n : k = Len(a) + j
      <4>1. k - Len(a) \in 1..n /\ k = Len(a) + (k - Len(a))
        BY <1>1, <1>2, <2>2
      <4> QED BY <4>1
    <3>2. a2[k] = b[j]
      BY <1>1, <3>1
    <3>4. b[j] = r[m + Len(a) + j]
      <4>1. j \in 1..Len(b)
        BY <1>2
      <4> QED BY <4>1
    <3>3. m + Len(a) + j = m + k
      BY <1>2, <3>1
    <3> QED BY <3>2, <3>3, <3>4
  <2> QED BY <1>1, <1>2, <2>1, <2>2
<1>4. ASSUME NEW k \in 1..Len(b2)
      PROVE  b2[k] = r[m + Len(a2) + k]
  <2>1. n + k \in 1..Len(b)
    BY <1>1, <1>2
  <2>2. b2[k] = b[n + k] /\ b[n + k] = r[m + Len(a) + (n + k)]
    BY <1>1, <2>1
  <2>3. m + Len(a) + (n + k) = m + Len(a2) + k
    BY <1>1, <1>2
  <2> QED BY <2>2, <2>3
<1> QED BY <1>1, <1>3, <1>4 DEF a2, b2

\* In every attempt the answer is one of the answers, and has its parts.
LEMMA PartsTypes ==
  ASSUME IInv
  PROVE  /\ str_cmd \in Seq(Chars) /\ inbox \in Seq(Chars)
         /\ outbox \in Seq(Chars)
         /\ Len(str_cmd) \in Nat /\ Len(inbox) \in Nat /\ Len(outbox) \in Nat
BY LenProperties DEF IInv, TypeOK

LEMMA InitInv == Init => IInv
<1> SUFFICES ASSUME Init PROVE IInv
  OBVIOUS
<1>1. /\ pc = "idle" /\ fds = 0 /\ link = "closed" /\ blocking
  BY DEF Init
<1>2. ret \in BOOLEAN /\ blocking \in BOOLEAN /\ so_error \in BOOLEAN
      /\ fin \in BOOLEAN
  BY Zenon DEF Init
<1>3. /\ str_cmd \in Seq(Chars) /\ inbox \in Seq(Chars) /\ outbox \in Seq(Chars)
      /\ reply \in Replies \cup {<<>>}
  BY DEF Init
<1>4. TypeOK
  BY <1>1, <1>2, <1>3 DEF TypeOK
<1> QED BY <1>1, <1>4
     DEF IInv, FdsOK, BlockingOK, LinkOK, PartsOK, ReadOK, Attempt

\* Steps that leave the parts of the answer alone.
Kept == UNCHANGED <<str_cmd, inbox, outbox, reply>>

LEMMA PartsKept ==
  ASSUME IInv, Kept, pc' \in Attempt => pc \in Attempt
  PROVE  PartsOK'
BY DEF IInv, PartsOK, Parts, Kept

\* A piece that is read goes from the second part to the first.
LEMMA ReadStep ==
  ASSUME IInv, NEW n \in 1..ReadBuffSize, Read(n)
  PROVE  IInv'
<1>1. /\ n \in 1..Len(inbox) /\ pc = "read" /\ pc' \in {"read", "close"}
      /\ str_cmd' = str_cmd \o SubSeq(inbox, 1, n)
      /\ inbox' = SubSeq(inbox, n + 1, Len(inbox))
      /\ ret' = (inbox[n] = FF)
      /\ pc' = IF inbox[n] = FF THEN "close" ELSE "read"
  BY ExchangeAssumption, PartsTypes DEF Read
<1>2. UNCHANGED <<fds, blocking, link, so_error, outbox, fin, reply>>
  BY DEF Read
<1>3. Parts
  BY <1>1 DEF IInv, PartsOK, Attempt
<1>4. /\ str_cmd' \in Seq(Chars) /\ inbox' \in Seq(Chars)
      /\ Len(str_cmd') = Len(str_cmd) + n /\ Len(inbox') = Len(inbox) - n
      /\ \A k \in 1..Len(str_cmd) : str_cmd'[k] = str_cmd[k]
      /\ \A k \in 1..n : str_cmd'[Len(str_cmd) + k] = inbox[k]
      /\ \A k \in 1..Len(inbox') : inbox'[k] = inbox[n + k]
  BY <1>1, PartsTypes, MoveParts, SMTT(30)
<1>5. Parts'
  <2>1. /\ \A k \in 1..Len(str_cmd) : str_cmd[k] = reply[0 + k]
        /\ \A k \in 1..Len(inbox) :
             inbox[k] = reply[0 + Len(str_cmd) + k]
    BY <1>3, PartsTypes DEF Parts
  <2>2. /\ \A k \in 1..Len(str_cmd') : str_cmd'[k] = reply[0 + k]
        /\ \A k \in 1..Len(inbox') :
             inbox'[k] = reply[0 + Len(str_cmd') + k]
    BY <1>1, <2>1, PartsTypes, MoveInReply, SMTT(30)
  <2>3. Len(str_cmd') + Len(inbox') = Len(str_cmd) + Len(inbox)
    <3>1. /\ Len(str_cmd) \in Nat /\ Len(inbox) \in Nat /\ n \in Int
      BY PartsTypes
    <3>2. Len(str_cmd') = Len(str_cmd) + n /\ Len(inbox') = Len(inbox) - n
      BY <1>4
    <3> QED BY <3>1, <3>2
  <2>4. Len(str_cmd') \in Nat /\ Len(inbox') \in Nat
    BY <1>4, LenProperties
  <2>5. /\ reply' \in Replies /\ outbox' = outbox /\ reply' = reply
    BY <1>2, <1>3 DEF Parts
  <2>6. Len(str_cmd') + Len(inbox') + Len(outbox') = Len(reply')
    BY <1>3, <2>3, <2>5 DEF Parts
  <2>7. \A k \in 1..Len(str_cmd') : str_cmd'[k] = reply'[k]
    BY <2>2, <2>4, <2>5
  <2>8. \A k \in 1..Len(inbox') : inbox'[k] = reply'[Len(str_cmd') + k]
    BY <2>2, <2>4, <2>5
  <2>9. \A k \in 1..Len(outbox') :
          outbox'[k] = reply'[Len(str_cmd') + Len(inbox') + k]
    BY <1>3, <2>3, <2>5 DEF Parts
  <2> QED BY <2>5, <2>6, <2>7, <2>8, <2>9 DEF Parts
<1>6. inbox[n] = FF <=> Len(str_cmd') = Len(reply)
  <2>1. Len(str_cmd) + n \in 1..Len(reply)
    BY <1>1, <1>3, PartsTypes DEF Parts
  <2>2. inbox[n] = reply[Len(str_cmd) + n]
    BY <1>1, <1>3 DEF Parts
  <2> QED BY <1>3, <1>4, <2>1, <2>2, ReplyShape DEF Parts
<1>7. Len(str_cmd') <= Len(reply)
  BY <1>1, <1>3, <1>4, PartsTypes DEF Parts
<1>8. ret' \in BOOLEAN /\ (ret' <=> inbox[n] = FF)
  BY <1>1, Zenon
<1>9. Len(reply) \in Nat /\ Len(str_cmd') \in Nat
  BY <1>1, <1>3, <1>4, PartsTypes, ReplyShape DEF Parts
<1>10. TypeOK'
  BY <1>1, <1>2, <1>4, <1>8 DEF IInv, TypeOK
<1>11. ReadOK'
  BY <1>1, <1>2, <1>6, <1>7, <1>8, <1>9 DEF ReadOK
<1>12. FdsOK' /\ BlockingOK' /\ LinkOK'
  BY <1>1, <1>2 DEF IInv, FdsOK, BlockingOK, LinkOK, Attempt
<1> QED BY <1>5, <1>10, <1>11, <1>12 DEF IInv, PartsOK

\* A piece that arrives goes from the third part to the second.
LEMMA ArrivesStep ==
  ASSUME IInv, Arrives
  PROVE  IInv'
<1>1. /\ link = "up" /\ outbox # <<>>
      /\ UNCHANGED <<slave, link, so_error, fin, reply>>
  BY DEF Arrives
<1>2. PICK n \in 1..Len(outbox) :
        /\ inbox' = inbox \o SubSeq(outbox, 1, n)
        /\ outbox' = SubSeq(outbox, n + 1, Len(outbox))
  BY DEF Arrives
<1>3. /\ inbox' \in Seq(Chars) /\ outbox' \in Seq(Chars)
      /\ Len(inbox') = Len(inbox) + n /\ Len(outbox') = Len(outbox) - n
      /\ \A k \in 1..Len(inbox) : inbox'[k] = inbox[k]
      /\ \A k \in 1..n : inbox'[Len(inbox) + k] = outbox[k]
      /\ \A k \in 1..Len(outbox') : outbox'[k] = outbox[n + k]
  <2>1. inbox \in Seq(Chars) /\ outbox \in Seq(Chars)
    BY PartsTypes
  <2>2. LET a2 == inbox \o SubSeq(outbox, 1, n)
            b2 == SubSeq(outbox, n + 1, Len(outbox))
        IN /\ a2 \in Seq(Chars) /\ b2 \in Seq(Chars)
           /\ Len(a2) = Len(inbox) + n /\ Len(b2) = Len(outbox) - n
           /\ \A k \in 1..Len(inbox) : a2[k] = inbox[k]
           /\ \A k \in 1..n : a2[Len(inbox) + k] = outbox[k]
           /\ \A k \in 1..Len(b2) : b2[k] = outbox[n + k]
    BY <2>1, MoveParts, SMTT(30)
  <2> QED BY <1>2, <2>2, Zenon
<1>4. Parts /\ pc \in Attempt
  BY <1>1 DEF IInv, LinkOK, PartsOK
<1>5. Parts'
  <2>1. str_cmd' = str_cmd /\ reply' = reply
    BY <1>1 DEF slave
  <2>2. /\ \A k \in 1..Len(inbox') : inbox'[k] = reply[Len(str_cmd) + k]
        /\ \A k \in 1..Len(outbox') :
             outbox'[k] = reply[Len(str_cmd) + Len(inbox') + k]
    <3>1. /\ inbox \in Seq(Chars) /\ outbox \in Seq(Chars)
          /\ Len(str_cmd) \in Nat
      BY PartsTypes
    <3>2. /\ \A k \in 1..Len(inbox) : inbox[k] = reply[Len(str_cmd) + k]
          /\ \A k \in 1..Len(outbox) :
               outbox[k] = reply[Len(str_cmd) + Len(inbox) + k]
      BY <1>4 DEF Parts
    <3>3. LET a2 == inbox \o SubSeq(outbox, 1, n)
              b2 == SubSeq(outbox, n + 1, Len(outbox))
          IN /\ \A k \in 1..Len(a2) : a2[k] = reply[Len(str_cmd) + k]
             /\ \A k \in 1..Len(b2) :
                  b2[k] = reply[Len(str_cmd) + Len(a2) + k]
      BY <3>1, <3>2, MoveInReply, SMTT(30)
    <3> QED BY <1>2, <3>3, Zenon
  <2>3. Len(inbox') + Len(outbox') = Len(inbox) + Len(outbox)
    BY <1>3, PartsTypes
  <2>4. Len(inbox') \in Nat /\ Len(outbox') \in Nat
    BY <1>3, LenProperties
  <2>5. Len(str_cmd) + Len(inbox') + Len(outbox') = Len(reply)
    <3>1. Len(str_cmd) + Len(inbox) + Len(outbox) = Len(reply)
      BY <1>4 DEF Parts
    <3>2. Len(str_cmd) \in Nat /\ Len(inbox) \in Nat /\ Len(outbox) \in Nat
      BY PartsTypes
    <3> QED BY <2>3, <2>4, <3>1, <3>2
  <2> QED BY <1>4, <2>1, <2>2, <2>5 DEF Parts
<1>6. UNCHANGED <<pc, ret, str_cmd, fds, blocking, link, so_error, fin, reply>>
  BY <1>1 DEF slave
<1>7. TypeOK'
  BY <1>3, <1>6 DEF IInv, TypeOK
<1>8. FdsOK' /\ BlockingOK' /\ LinkOK' /\ ReadOK'
  BY <1>6 DEF IInv, FdsOK, BlockingOK, LinkOK, ReadOK
<1> QED BY <1>5, <1>7, <1>8 DEF IInv, PartsOK

LEMMA StepInv ==
  ASSUME IInv, Next
  PROVE  IInv'
<1> USE DEF IInv, TypeOK, FdsOK, BlockingOK, LinkOK, ReadOK, Attempt, Kept
<1>1. CASE Open
  <2>1. /\ reply' \in Replies /\ outbox' = reply'
        /\ str_cmd' = <<>> /\ inbox' = <<>>
    BY <1>1 DEF Open, ClearedAnswer
  <2>2. /\ reply' \in Seq(Chars) /\ Len(reply') \in Nat
    BY <2>1, ReplyShape
  <2>3. PartsOK'
    BY <2>1, <2>2 DEF PartsOK, Parts
  <2>4. /\ pc = "idle" /\ pc' = "connect" /\ fds' = fds + 1
        /\ link' = "closed" /\ ~blocking'
    BY <1>1 DEF Open
  <2>5. /\ ret' \in BOOLEAN /\ blocking' \in BOOLEAN /\ so_error' \in BOOLEAN
        /\ fin' \in BOOLEAN
    BY <1>1, Zenon DEF Open
  <2>6. TypeOK'
    BY <2>1, <2>2, <2>4, <2>5
  <2> QED BY <2>1, <2>3, <2>4, <2>6
<1>2. CASE OpenFails
  <2>1. /\ pc = "idle" /\ pc' = "sleep" /\ str_cmd' = <<>> /\ ~ret'
        /\ ret' \in BOOLEAN
    BY <1>2 DEF OpenFails, ClearedAnswer
  <2>2. UNCHANGED <<fds, blocking, link, so_error, inbox, outbox, fin, reply>>
    BY <1>2 DEF OpenFails, kernel
  <2> QED BY <2>1, <2>2 DEF PartsOK
<1>3. CASE ConnectAtOnce \/ ConnectBegins \/ ConnectFailsAtOnce
  BY <1>3, PartsKept
     DEF ConnectAtOnce, ConnectBegins, ConnectFailsAtOnce, kernel
<1>4. CASE SelectReady \/ SelectTimesOut
  BY <1>4, PartsKept DEF SelectReady, SelectTimesOut, kernel
<1>5. CASE Restore
  <2>1. PartsOK'
    BY <1>5, PartsKept DEF Restore, kernel
  <2>2. pc' = "close" => Len(str_cmd) = 0 /\ Len(reply) # 0
    BY <1>5, ReplyShape DEF Restore, PartsOK, Parts
  <2> QED BY <1>5, <2>1, <2>2 DEF Restore, kernel
<1>6. CASE Write \/ WriteFails
  <2>1. PartsOK'
    BY <1>6, PartsKept DEF Write, WriteFails, kernel
  <2>2. Len(str_cmd) = 0 /\ Len(reply) > 0
    BY <1>6, ReplyShape DEF Write, WriteFails, PartsOK, Parts
  <2>3. CASE Write
    BY <2>1, <2>2, <2>3 DEF Write, kernel
  <2>4. CASE WriteFails
    <3>1. /\ pc = "write" /\ pc' = "close" /\ ~ret /\ ~so_error'
          /\ so_error' \in BOOLEAN
          /\ UNCHANGED <<ret, str_cmd, fds, blocking, link, inbox, outbox, fin,
                         reply>>
      BY <2>4 DEF WriteFails
    <3>2. Len(str_cmd) # Len(reply)
      BY <2>2
    <3> QED BY <2>1, <3>1, <3>2
  <2> QED BY <1>6, <2>3, <2>4
<1>7. CASE WriteKills
  BY <1>7 DEF WriteKills, PartsOK
<1>8. ASSUME NEW n \in 1..ReadBuffSize, Read(n)
      PROVE  IInv'
  BY <1>8, ReadStep
<1>9. CASE ReadEnds
  <2>1. PartsOK'
    BY <1>9, PartsKept DEF ReadEnds
  <2>2. /\ pc = "read" /\ pc' = "close" /\ ~ret
        /\ so_error' \in BOOLEAN
        /\ UNCHANGED <<ret, str_cmd, fds, blocking, link, inbox, outbox, fin,
                       reply>>
    BY <1>9 DEF ReadEnds
  <2>3. Len(str_cmd) # Len(reply)
    BY <2>2, PartsTypes, ReplyShape DEF PartsOK, Parts
  <2> QED BY <2>1, <2>2, <2>3
<1>10. CASE Close \/ Again
  BY <1>10 DEF Close, Again, kernel, PartsOK
<1>11. CASE Established \/ Reset \/ Finished
  <2>1. PartsOK'
    BY <1>11, PartsKept DEF Established, Reset, Finished, slave
  <2>2. CASE Established
    BY <2>1, <2>2 DEF Established, slave
  <2>3. CASE Reset
    BY <2>1, <2>3 DEF Reset, slave
  <2>4. CASE Finished
    BY <2>1, <2>4 DEF Finished, slave
  <2> QED BY <1>11, <2>2, <2>3, <2>4
<1>12. CASE Arrives
  BY <1>12, ArrivesStep
<1> QED BY <1>1, <1>2, <1>3, <1>4, <1>5, <1>6, <1>7, <1>8, <1>9, <1>10, <1>11,
           <1>12 DEF Next, Slave, Net

LEMMA Invariance == Spec => []IInv
<1>1. ASSUME IInv, UNCHANGED vars
      PROVE  IInv'
  BY <1>1 DEF IInv, TypeOK, FdsOK, BlockingOK, LinkOK, PartsOK, Parts, ReadOK,
              vars
<1> QED BY <1>1, InitInv, StepInv, PTL DEF Spec

-------------------------------------------------------------------------------

\* The types, for any answers: no descriptor is closed that is not held.
THEOREM TypeCorrect == Spec => []TypeOK
BY Invariance, PTL DEF IInv

\* A request that reports a success has the whole answer of its own attempt,
\* and one that has it reports a success, however the network cuts an answer
\* of any length.
THEOREM SuccessIsWhole == Spec => []SuccessIsTheWholeAnswer
<1>1. ASSUME IInv
      PROVE  SuccessIsTheWholeAnswer
  <2> SUFFICES ASSUME pc = "close"
               PROVE  ret <=> str_cmd = reply
    BY DEF SuccessIsTheWholeAnswer
  <2>1. Parts /\ (ret <=> Len(str_cmd) = Len(reply))
    BY <1>1 DEF IInv, PartsOK, ReadOK, Attempt
  <2>2. /\ str_cmd \in Seq(Chars) /\ reply \in Seq(Chars)
    BY <1>1, <2>1, PartsTypes, ReplyShape DEF Parts
  <2>3. Len(str_cmd) = Len(reply) => str_cmd = reply
    BY <2>1, <2>2, SeqEqual DEF Parts
  <2> QED BY <2>1, <2>3
<1> QED BY <1>1, Invariance, PTL

\* The slave holds no descriptor between two attempts, however many fail.
THEOREM NothingLeft == Spec => []NoDescriptorLeft
<1>1. IInv => NoDescriptorLeft
  BY DEF IInv, FdsOK, NoDescriptorLeft, Attempt
<1> QED BY <1>1, Invariance, PTL

\* Requests and answers go over a socket that waits.
THEOREM Patient == Spec => []PatientIO
<1>1. IInv => PatientIO
  BY DEF IInv, BlockingOK, PatientIO
<1> QED BY <1>1, Invariance, PTL
===============================================================================
