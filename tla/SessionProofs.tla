---------------------------- MODULE SessionProofs ---------------------------
(***************************************************************************)
(* Proofs about the dialogue of the stub with gdb (Session) for every size *)
(* of a packet, of the log and of target.xml, every length gdb asks for,   *)
(* and any number of commands, retries and reboots; and about its parser   *)
(* (RspFraming) for every stream, cut in every way.                        *)
(***************************************************************************)
EXTENDS Session, RspFraming, FiniteSetTheorems, SequenceTheorems, WellFoundedInduction, TLAPS

\* The provers do better when they do not see that these are Booleans.
Bools == {TRUE, FALSE}
Replies == {"text", "OK", "words", "data", "regs", "empty", "stop"}
Bodies ==
  [is : Replies \cup {"+"}] \cup [is : {"O"}, run : Int, from : Nat, to : Nat]
    \cup [is : {"m", "l"}, off : Nat, n : Nat]
Packet == [ack : Bools, len : Nat, cut : Bools, body : Bodies]

\* A packet that is whole.
Whole(p) == p \in Packet /\ p.cut = FALSE /\ p.len <= OUT_SIZE

-----------------------------------------------------------------------------
(* The operators that build a packet.                                      *)

LEMMA Sizes ==
  /\ PACKET_SIZE \in Nat /\ PACKET_SIZE > 16 /\ OUT_SIZE \in Nat /\ OUT_SIZE = PACKET_SIZE + 16
  /\ MONITOR_CHUNK \in Nat /\ MONITOR_CHUNK > 0 /\ 2 * MONITOR_CHUNK <= PACKET_SIZE - 8
  /\ XmlSize \in Nat /\ XmlSize > 0 /\ MD32_MAX \in Nat /\ MD32_MAX > 0
  /\ TRACE_SIZE \in Nat /\ TRACE_SIZE > 0 /\ TRACE_CMD_LIMIT \in Nat /\ MaxTries \in Nat
  /\ Lengths \subseteq Nat
  BY SessionAssumption DEF OUT_SIZE, MONITOR_CHUNK

LEMMA IsBody ==
  ASSUME NEW w \in Replies
  PROVE  Is(w) \in Bodies /\ Is(w).is = w
<1>1. Is(w) \in [is : Replies]
  BY DEF Is
<1> QED
  BY <1>1 DEF Bodies, Is

LEMMA RecordIsPacket ==
  ASSUME NEW a \in Bools, NEW n \in Nat, NEW f \in Bools, NEW b \in Bodies, NEW q,
         q = [ack |-> a, len |-> n, cut |-> f, body |-> b]
  PROVE  q \in Packet /\ q.ack = a /\ q.len = n /\ q.cut = f /\ q.body = b
  BY DEF Packet

LEMMA BeginIsWhole ==
  ASSUME NEW ack \in Bools
  PROVE  /\ Whole(out_begin_ack(ack))
         /\ out_begin_ack(ack).len = IF ack THEN 2 ELSE 1
         /\ out_begin_ack(ack).len \in Nat /\ out_begin_ack(ack).len <= 2
         /\ out_begin_ack(ack).ack = ack
<1> DEFINE n == IF ack THEN 2 ELSE 1
           b == Is("text")
           f == FALSE
<1>1. n \in Nat /\ n <= 2
  BY DEF Bools
<1>2. b \in Bodies
  BY IsBody DEF Replies
<1>3. f \in Bools
  BY DEF Bools
<1>4. out_begin_ack(ack) = [ack |-> ack, len |-> n, cut |-> f, body |-> b]
  BY DEF out_begin_ack, Is
<1> HIDE DEF n, b, f
<1>5. /\ out_begin_ack(ack) \in Packet /\ out_begin_ack(ack).len = n
      /\ out_begin_ack(ack).ack = ack /\ out_begin_ack(ack).cut = f
  BY <1>1, <1>2, <1>3, <1>4, RecordIsPacket
<1>6. n <= OUT_SIZE
  BY <1>1, Sizes
<1>7. Whole(out_begin_ack(ack))
  BY <1>5, <1>6 DEF f, Whole
<1>8. out_begin_ack(ack).len \in Nat /\ out_begin_ack(ack).len <= 2
  BY <1>1, <1>5
<1> QED
  BY <1>5, <1>7, <1>8 DEF n

\* What fits is written: the packet grows by it and stays whole.
LEMMA OutChFits ==
  ASSUME NEW p, Whole(p), NEW n \in Nat, p.len + n <= OUT_SIZE
  PROVE  /\ Whole(out_ch(p, n)) /\ out_ch(p, n).len = p.len + n
         /\ out_ch(p, n).ack = p.ack
<1> DEFINE q == out_ch(p, n)
<1>1. q = [p EXCEPT !.len = Least(p.len + n, OUT_SIZE), !.cut = p.cut \/ p.len + n > OUT_SIZE]
  BY DEF out_ch
<1>2. Least(p.len + n, OUT_SIZE) = p.len + n /\ ~(p.len + n > OUT_SIZE) /\ p.len + n \in Nat
  BY Sizes DEF Least, Whole, Packet
<1>3. p.cut \in Bools
  BY DEF Whole, Packet
<1>4. (p.cut \/ p.len + n > OUT_SIZE) = p.cut
  BY <1>2, <1>3 DEF Bools
<1>5. q = [p EXCEPT !.len = p.len + n, !.cut = p.cut]
  BY <1>1, <1>2, <1>4
<1> HIDE DEF q
<1>6. q \in Packet /\ q.ack = p.ack /\ q.len = p.len + n /\ q.cut = p.cut
  BY <1>5, <1>2, <1>3 DEF Packet, Whole
<1> QED
  BY <1>6 DEF q, Whole

LEMMA OutByteFits ==
  ASSUME NEW p, Whole(p), NEW n \in Nat, p.len + 2 * n <= OUT_SIZE
  PROVE  /\ Whole(out_byte(p, n)) /\ out_byte(p, n).len = p.len + 2 * n
         /\ out_byte(p, n).ack = p.ack
  BY OutChFits DEF out_byte

LEMMA OutPairFits ==
  ASSUME NEW p, Whole(p), NEW n \in Nat, p.len + 4 * n <= OUT_SIZE, n > 0 => p.len % 4 = 0
  PROVE  /\ Whole(out_pair(p, n)) /\ out_pair(p, n).len = p.len + 4 * n
         /\ out_pair(p, n).ack = p.ack
<1> DEFINE q == out_pair(p, n)
           bad == n > 0 /\ (p.len % 4 # 0 \/ p.len + 4 * n > OUT_SIZE)
<1>1. q = [p EXCEPT !.len = p.len + 4 * n, !.cut = p.cut \/ bad]
  BY DEF out_pair
<1>2. ~bad /\ p.len + 4 * n \in Nat
  BY Sizes DEF Whole, Packet
<1>3. p.cut \in Bools
  BY DEF Whole, Packet
<1>4. (p.cut \/ bad) = p.cut
  BY <1>2, <1>3 DEF Bools
<1>5. q = [p EXCEPT !.len = p.len + 4 * n, !.cut = p.cut]
  BY <1>1, <1>4
<1> HIDE DEF q, bad
<1>6. q \in Packet /\ q.ack = p.ack /\ q.len = p.len + 4 * n /\ q.cut = p.cut
  BY <1>5, <1>2, <1>3 DEF Packet, Whole
<1> QED
  BY <1>6 DEF q, Whole

LEMMA FinishFits ==
  ASSUME NEW p, Whole(p), NEW b \in Bodies, p.len + 3 <= OUT_SIZE
  PROVE  /\ out_finish(p, b) = <<out_finish(p, b)[1]>>
         /\ Whole(out_finish(p, b)[1])
         /\ out_finish(p, b)[1].ack = p.ack /\ out_finish(p, b)[1].body = b
<1> DEFINE q == out_ch(p, 3)
           r == [q EXCEPT !.body = b]
<1>1. Whole(q) /\ q.ack = p.ack
  BY OutChFits
<1>2. out_finish(p, b) = <<r>>
  BY DEF out_finish
<1> HIDE DEF q
<1>3. r \in Packet /\ r.ack = q.ack /\ r.body = b /\ r.cut = q.cut /\ r.len = q.len
  BY <1>1 DEF Whole, Packet
<1> HIDE DEF r
<1>4. Whole(r)
  BY <1>1, <1>3 DEF Whole
<1>5. out_finish(p, b)[1] = r
  BY <1>2
<1> QED
  BY <1>1, <1>2, <1>3, <1>4, <1>5

-----------------------------------------------------------------------------
(* The replies.                                                            *)

\* Whole packets, of which all but the last are console output; the first one
\* acknowledges the command, if any does.
Reply(ps, acked) ==
  /\ ps \in Seq(Packet) /\ Len(ps) > 0
  /\ \A i \in 1 .. Len(ps) :
       /\ Whole(ps[i])
       /\ ps[i].ack <=> i = 1 /\ acked
       /\ ps[i].body.is \in Interim <=> i < Len(ps)

LEMMA OneIsReply ==
  ASSUME NEW ps, NEW acked \in BOOLEAN, ps = <<ps[1]>>, Whole(ps[1]),
         ps[1].ack <=> acked, ps[1].body.is \notin Interim
  PROVE  Reply(ps, acked) /\ Len(ps) = 1
<1> DEFINE p == ps[1]
<1>1. p \in Packet
  BY DEF Whole
<1> HIDE DEF p
<1>2. <<p>> \in Seq(Packet) /\ Len(<<p>>) = 1
  BY <1>1
<1>3. ps \in Seq(Packet) /\ Len(ps) = 1
  BY <1>2 DEF p
<1>4. \A i \in 1 .. Len(ps) : i = 1
  BY <1>3
<1> QED
  BY <1>3, <1>4 DEF Reply

\* A packet that is begun, filled with n characters and finished.
LEMMA FilledIsReply ==
  ASSUME NEW ack \in Bools, NEW p, Whole(p), p.ack = ack, p.len + 3 <= OUT_SIZE,
         NEW b \in Bodies, b.is \notin Interim
  PROVE  /\ Reply(out_finish(p, b), ack) /\ Len(out_finish(p, b)) = 1
         /\ out_finish(p, b)[1].body = b
<1>1. ack \in BOOLEAN
  BY DEF Bools
<1> QED
  BY <1>1, FinishFits, OneIsReply

LEMMA BeginAcks ==
  /\ Whole(out_begin) /\ out_begin.len = 2 /\ out_begin.ack = TRUE /\ TRUE \in Bools
  /\ FALSE \in Bools
  BY BeginIsWhole DEF out_begin, Bools

LEMMA TextIsReply ==
  ASSUME NEW n \in Nat, 2 * n + 5 <= OUT_SIZE, NEW w \in Replies
  PROVE  LET ps == out_finish(out_byte(out_begin, n), Is(w)) IN Reply(ps, TRUE) /\ Len(ps) = 1
<1>1. Is(w) \in Bodies /\ Is(w).is \notin Interim
  BY IsBody DEF Replies, Interim
<1>2. /\ Whole(out_byte(out_begin, n)) /\ out_byte(out_begin, n).len = 2 + 2 * n
      /\ out_byte(out_begin, n).ack = TRUE
  <2>1. out_begin.len + 2 * n <= OUT_SIZE /\ out_begin.len + 2 * n = 2 + 2 * n
    BY BeginAcks, Sizes
  <2> QED
    BY <2>1, BeginAcks, OutByteFits
<1>3. out_byte(out_begin, n).len + 3 <= OUT_SIZE
  BY <1>2, Sizes
<1> QED
  BY <1>1, <1>2, <1>3, BeginAcks, FilledIsReply

LEMMA Md32IsReply ==
  ASSUME NEW asked \in Nat
  PROVE  Reply(monitor_md32(asked), TRUE) /\ Len(monitor_md32(asked)) = 1
<1> DEFINE words == IF asked = 0 THEN 4 ELSE asked
           count_ == Least(words, MD32_MAX)
           lines == (count_ + 3) \div 4
           top == (MD32_MAX + 3) \div 4
           chars == (IF words > MD32_MAX THEN clamped ELSE 0) + lines * (mon_word + 1) + count_ * (1 + mon_word) + lines
<1>1. words \in Nat /\ count_ \in Nat /\ count_ <= MD32_MAX
  BY Sizes DEF Least
<1> HIDE DEF words, count_
<1>2. lines \in Nat /\ top \in Nat /\ lines <= top
  BY <1>1, Sizes
<1> HIDE DEF lines, top
<1>3. chars \in Nat /\ chars <= clamped + top * (mon_word + 2) + MD32_MAX * (1 + mon_word)
  BY <1>1, <1>2, Sizes DEF clamped, mon_word, mon_dec
<1>4. 2 * chars + 5 <= OUT_SIZE
  BY <1>2, <1>3, ReplyAssumption, Sizes DEF top, clamped, mon_word, mon_dec
<1>5. LET ps == out_finish(out_byte(out_begin, chars), Is("words")) IN Reply(ps, TRUE) /\ Len(ps) = 1
  <2> HIDE DEF chars
  <2> QED
    BY <1>3, <1>4, TextIsReply DEF Replies
<1> QED
  BY <1>5 DEF monitor_md32, chars, lines, count_, words

LEMMA ReadIsReply ==
  ASSUME NEW asked \in Nat
  PROVE  Reply(read_memory_reply(asked), TRUE) /\ Len(read_memory_reply(asked)) = 1
<1> DEFINE len_ == Least(asked, (OUT_SIZE - 16) \div 2)
           head == Least(1, len_)
           pairs == (len_ - head) \div 2
           p == out_byte(out_begin, head)
           q == out_pair(p, pairs)
           r == out_byte(q, len_ - head - 2 * pairs)
<1>1. len_ \in Nat /\ 2 * len_ <= OUT_SIZE - 16
  BY Sizes DEF Least
<1>2. head \in Nat /\ head <= len_ /\ (head = 1 \/ len_ = 0)
  BY <1>1 DEF Least
<1> HIDE DEF len_, head
<1>3. pairs \in Nat /\ len_ - head - 2 * pairs \in Nat /\ (pairs > 0 => head = 1)
  BY <1>1, <1>2
<1>4. Whole(p) /\ p.len = 2 + 2 * head /\ p.ack = TRUE
  <2>1. out_begin.len + 2 * head <= OUT_SIZE /\ out_begin.len + 2 * head = 2 + 2 * head
    BY <1>1, <1>2, BeginAcks, Sizes
  <2> QED
    BY <1>2, <2>1, BeginAcks, OutByteFits
<1> HIDE DEF pairs, p
<1>5. Whole(q) /\ q.len = 2 + 2 * head + 4 * pairs /\ q.ack = TRUE
  <2>1. p.len + 4 * pairs <= OUT_SIZE /\ (pairs > 0 => p.len % 4 = 0)
    BY <1>1, <1>2, <1>3, <1>4, Sizes
  <2> QED
    BY <1>3, <1>4, <2>1, OutPairFits
<1> HIDE DEF q
<1>6. Whole(r) /\ r.len = 2 + 2 * len_ /\ r.ack = TRUE
  <2> DEFINE t == len_ - head - 2 * pairs
  <2>1. t \in Nat /\ q.len + 2 * t <= OUT_SIZE /\ q.len + 2 * t = 2 + 2 * len_
    BY <1>1, <1>2, <1>3, <1>5, Sizes
  <2> HIDE DEF t
  <2> QED
    BY <1>5, <2>1, OutByteFits DEF t
<1>7. Is("data") \in Bodies /\ Is("data").is \notin Interim
  BY IsBody DEF Replies, Interim
<1>8. r.len + 3 <= OUT_SIZE
  BY <1>1, <1>6, Sizes
<1>9. Reply(out_finish(r, Is("data")), TRUE) /\ Len(out_finish(r, Is("data"))) = 1
  BY <1>6, <1>7, <1>8, BeginAcks, FilledIsReply
<1>10. head = IF out_begin.len % 4 = 0 THEN 0
              ELSE IF out_begin.len % 2 = 0 THEN Least(1, len_) ELSE len_
  BY BeginAcks DEF head
<1> QED
  BY <1>9, <1>10 DEF read_memory_reply, r, q, p, pairs, len_

\* The piece of target.xml is what is left of it, or less.
LEMMA QueryIsReply ==
  ASSUME NEW c, c.off \in Nat, c.off < XmlSize, c.len \in Nat
  PROVE  LET ps == handle_query(c)
         IN /\ Reply(ps, TRUE) /\ Len(ps) = 1
            /\ ps[1].body.off = c.off /\ ps[1].body.n \in Nat
            /\ c.off + ps[1].body.n <= XmlSize
            /\ ps[1].body.is = "l" <=> c.off + ps[1].body.n = XmlSize
<1> DEFINE n == Least(Least(XmlSize - c.off, c.len), PACKET_SIZE - 16)
           w == IF c.off + n < XmlSize THEN "m" ELSE "l"
           b == [is |-> w, off |-> c.off, n |-> n]
           p == out_ch(out_begin, 1 + n)
<1>1. n \in Nat /\ n <= PACKET_SIZE - 16 /\ c.off + n <= XmlSize
  BY Sizes DEF Least
<1>2. handle_query(c) = out_finish(p, b)
  BY Sizes DEF handle_query
<1>3. w \in {"m", "l"} /\ (w = "l" <=> c.off + n = XmlSize)
  BY <1>1, Sizes
<1> HIDE DEF n, w
<1>4. b \in Bodies /\ b.is \notin Interim /\ b.is = w /\ b.off = c.off /\ b.n = n
  BY <1>1, <1>3 DEF Bodies, Interim
<1> HIDE DEF b
<1>5. Whole(p) /\ p.len = 3 + n /\ p.ack = TRUE
  <2>1. 1 + n \in Nat /\ out_begin.len + (1 + n) <= OUT_SIZE /\ out_begin.len + (1 + n) = 3 + n
    BY <1>1, BeginAcks, Sizes
  <2> QED
    BY <2>1, BeginAcks, OutChFits
<1>6. p.len + 3 <= OUT_SIZE
  BY <1>1, <1>5, Sizes
<1> HIDE DEF p
<1>7. /\ Reply(out_finish(p, b), TRUE) /\ Len(out_finish(p, b)) = 1
      /\ out_finish(p, b)[1].body = b
  BY <1>4, <1>5, <1>6, BeginAcks, FilledIsReply
<1> QED
  BY <1>1, <1>2, <1>3, <1>4, <1>7

LEMMA StopIsReply ==
  /\ Reply(stop_reply, FALSE) /\ Len(stop_reply) = 1
  /\ stop_reply = <<stop_reply[1]>> /\ stop_reply[1].body = Is("stop")
<1> DEFINE p == out_ch(out_begin_ack(FALSE), 3)
<1>1. /\ Whole(out_begin_ack(FALSE)) /\ out_begin_ack(FALSE).len = 1
      /\ out_begin_ack(FALSE).ack = FALSE
  BY BeginIsWhole DEF Bools
<1>2. Whole(p) /\ p.len = 4 /\ p.ack = FALSE
  <2>1. 3 \in Nat /\ 1 + 3 <= OUT_SIZE /\ 1 + 3 = 4
    BY Sizes
  <2> QED
    BY <1>1, <2>1, OutChFits
<1>3. Is("stop") \in Bodies /\ Is("stop").is \notin Interim
  BY IsBody DEF Replies, Interim
<1> HIDE DEF p
<1>4. p.len + 3 <= OUT_SIZE
  BY <1>2, Sizes
<1>5. Reply(out_finish(p, Is("stop")), FALSE) /\ Len(out_finish(p, Is("stop"))) = 1
  BY <1>2, <1>3, <1>4, BeginAcks, FilledIsReply
<1> QED
  BY <1>2, <1>3, <1>4, <1>5, FinishFits DEF stop_reply, p

\* The ack of a resume, then the stop.
LEMMA SteppedIsReply ==
  LET ps == plus \o stop_reply
  IN Reply(ps, TRUE) /\ \A i \in 1 .. Len(ps) : ps[i].body.is # "O"
<1> DEFINE q == [ack |-> TRUE, len |-> 1, cut |-> FALSE, body |-> Is("+")]
           t == stop_reply[1]
           ps == plus \o stop_reply
<1>1. Is("+") \in Bodies /\ Is("+").is = "+"
  BY DEF Is, Bodies
<1>2. q \in Packet /\ q.ack = TRUE /\ q.len = 1 /\ q.cut = FALSE /\ q.body = Is("+")
  <2> DEFINE b == Is("+")
  <2>2. b \in Bodies
    BY <1>1
  <2>3. q = [ack |-> TRUE, len |-> 1, cut |-> FALSE, body |-> b]
    OBVIOUS
  <2> HIDE DEF b, q
  <2>4. q \in Packet /\ q.ack = TRUE /\ q.len = 1 /\ q.cut = FALSE /\ q.body = b
    BY <2>2, <2>3 DEF Packet, Bools
  <2> QED
    BY <2>4 DEF b
<1>3. Whole(q)
  BY <1>2, Sizes DEF Whole
<1>4. Whole(t) /\ ~t.ack /\ t \in Packet
  BY StopIsReply DEF Reply, Whole
<1>5. t.body.is = "stop"
  BY StopIsReply DEF Is
<1>6. ps = <<q>> \o <<t>>
  BY StopIsReply DEF plus
<1> HIDE DEF q, t, ps
<1>7. ps \in Seq(Packet) /\ Len(ps) = 2 /\ ps[1] = q /\ ps[2] = t
  <2>1. q \in Packet /\ t \in Packet
    BY <1>2, <1>4
  <2>2. <<q>> \in Seq(Packet) /\ <<t>> \in Seq(Packet) /\ Len(<<q>>) = 1 /\ Len(<<t>>) = 1
        /\ <<q>>[1] = q /\ <<t>>[1] = t
    BY <2>1
  <2>3. Len(ps) = 2 /\ ps \in Seq(Packet) /\ ps[1] = q /\ ps[2] = t
    BY <1>6, <2>2, ConcatProperties
  <2> QED
    BY <2>3
<1>8. q.body.is \in Interim /\ t.body.is \notin Interim /\ q.body.is # "O" /\ t.body.is # "O"
  BY <1>1, <1>2, <1>5 DEF Interim
<1>9. \A i \in 1 .. Len(ps) : i = 1 \/ i = 2
  BY <1>7
<1> QED
  BY <1>2, <1>3, <1>4, <1>7, <1>8, <1>9 DEF Reply, ps

\* len bytes in n pieces of C bytes, the last one shorter or not.
Cut(C, len, n) ==
  /\ n \in Nat /\ (n = 0 <=> len = 0) /\ len <= n * C
  /\ \A i \in 1 .. n : (i - 1) * C \in Nat /\ (i - 1) * C < len
  /\ \A i \in 1 .. n : i < n => i * C < len
  /\ \A i \in 1 .. n : i * C = (i - 1) * C + C

LEMMA Pieces ==
  ASSUME NEW C \in Nat, C > 0, NEW len \in Nat
  PROVE  Cut(C, len, (len + C - 1) \div C)
<1> DEFINE n == (len + C - 1) \div C
<1>1. n \in Int /\ C * n <= len + C - 1 /\ len + C - 1 < C * n + C
  OBVIOUS
<1> HIDE DEF n
<1>2. n >= 0
  BY <1>1
<1>3. \A i \in 1 .. n : i * C = (i - 1) * C + C
  BY <1>1
<1>4. \A i \in 1 .. n : (i - 1) * C \in Nat /\ (i - 1) * C < len
  <2> SUFFICES ASSUME NEW i \in 1 .. n PROVE (i - 1) * C \in Nat /\ (i - 1) * C < len
    OBVIOUS
  <2>1. i * C <= n * C /\ (i - 1) * C >= 0 /\ i * C = (i - 1) * C + C
    BY <1>1
  <2>2. n * C = C * n
    BY <1>1
  <2> QED
    BY <1>1, <2>1, <2>2
<1>5. \A i \in 1 .. n : i < n => i * C < len
  <2> SUFFICES ASSUME NEW i \in 1 .. n, i < n PROVE i * C < len
    OBVIOUS
  <2>1. i + 1 \in 1 .. n /\ (i + 1) - 1 = i
    BY <1>1
  <2> QED
    BY <1>4, <2>1
<1>6. len <= n * C
  BY <1>1
<1>7. n = 0 <=> len = 0
  BY <1>1, <1>2
<1> QED
  BY <1>1, <1>2, <1>3, <1>4, <1>5, <1>6, <1>7 DEF Cut, n

\* One piece of a log: an output packet of n bytes.
LEMMA OutputIsWhole ==
  ASSUME NEW log, log.run \in Int, NEW from \in Nat, NEW n \in Nat, n <= MONITOR_CHUNK,
         NEW ack \in Bools
  PROVE  LET p == send_output(log, from, n, ack)[1]
         IN /\ Whole(p) /\ p.ack = ack
            /\ p.body = [is |-> "O", run |-> log.run, from |-> from, to |-> from + n]
<1> DEFINE b == [is |-> "O", run |-> log.run, from |-> from, to |-> from + n]
           p0 == out_begin_ack(ack)
           p1 == out_ch(p0, 1)
           p2 == out_byte(p1, n)
<1>1. b \in Bodies
  <2>1. b \in [is : {"O"}, run : Int, from : Nat, to : Nat]
    OBVIOUS
  <2> QED
    BY <2>1 DEF Bodies
<1>2. Whole(p0) /\ p0.len \in Nat /\ p0.len <= 2 /\ p0.ack = ack
  BY BeginIsWhole
<1> HIDE DEF b, p0
<1>3. Whole(p1) /\ p1.len = p0.len + 1 /\ p1.ack = ack
  <2>1. 1 \in Nat /\ p0.len + 1 <= OUT_SIZE
    BY <1>2, Sizes
  <2> QED
    BY <1>2, <2>1, OutChFits
<1> HIDE DEF p1
<1>4. Whole(p2) /\ p2.len = p0.len + 1 + 2 * n /\ p2.ack = ack
  <2>1. p1.len + 2 * n <= OUT_SIZE
    BY <1>2, <1>3, Sizes
  <2> QED
    BY <1>3, <2>1, OutByteFits
<1>5. p2.len + 3 <= OUT_SIZE
  BY <1>2, <1>4, Sizes
<1> HIDE DEF p2
<1>6. LET p == out_finish(p2, b)[1] IN Whole(p) /\ p.ack = ack /\ p.body = b
  BY <1>1, <1>4, <1>5, FinishFits
<1> QED
  BY <1>6 DEF send_output, b, p0, p1, p2

\* A log of len bytes: the pieces of it in order, and OK.
LEMMA RegionIsReply ==
  ASSUME NEW log, log.run \in Int, NEW len \in Nat
  PROVE  LET ps == send_region(log, len)
             n == (len + MONITOR_CHUNK - 1) \div MONITOR_CHUNK
             To(i) == (i - 1) * MONITOR_CHUNK + Least(MONITOR_CHUNK, len - (i - 1) * MONITOR_CHUNK)
         IN /\ Reply(ps, TRUE) /\ Len(ps) = n + 1
            /\ \A i \in 1 .. n :
                 ps[i].body = [is |-> "O", run |-> log.run, from |-> (i - 1) * MONITOR_CHUNK, to |-> To(i)]
<1> DEFINE ps == send_region(log, len)
           C == MONITOR_CHUNK
           n == (len + C - 1) \div C
           Size(i) == Least(C, len - (i - 1) * C)
           Body(i) == [is |-> "O", run |-> log.run, from |-> (i - 1) * C, to |-> (i - 1) * C + Size(i)]
           Piece(i) == send_output(log, (i - 1) * C, Size(i), i - 1 = 0)[1]
           out == [k \in 1 .. n |-> Piece(k)]
           last == out_finish(out_ch(out_begin_ack(n = 0), 2), Is("OK"))
<1>1. /\ n \in Nat
      /\ \A i \in 1 .. n : (i - 1) * C \in Nat /\ (i - 1) * C < len
  <2>1. Cut(C, len, n)
    BY Pieces, Sizes
  <2> HIDE DEF C, n
  <2> QED
    BY <2>1 DEF Cut
<1>2. ps = out \o last
  BY DEF send_region
<1> HIDE DEF ps, n
<1>3. ASSUME NEW i \in 1 .. n
      PROVE  Whole(Piece(i)) /\ (Piece(i).ack <=> i = 1) /\ Piece(i).body = Body(i)
  <2>1. (i - 1) * C \in Nat /\ Size(i) \in Nat /\ Size(i) <= C /\ i \in Int
    BY <1>1, Sizes DEF Least
  <2>2. (i - 1 = 0) \in Bools
    BY DEF Bools
  <2> DEFINE from == (i - 1) * C
             size == Size(i)
             ack == i - 1 = 0
  <2> HIDE DEF from, size, ack
  <2>3. LET p == send_output(log, from, size, ack)[1]
        IN /\ Whole(p) /\ p.ack = ack
           /\ p.body = [is |-> "O", run |-> log.run, from |-> from, to |-> from + size]
    BY <2>1, <2>2, OutputIsWhole DEF from, size, ack
  <2>4. ack <=> i = 1
    BY <2>1 DEF ack
  <2> QED
    BY <2>3, <2>4 DEF from, size, ack
<1> HIDE DEF Piece
<1>4. out \in Seq(Packet) /\ Len(out) = n /\ \A i \in 1 .. n : out[i] = Piece(i)
  <2>1. \A i \in 1 .. n : Piece(i) \in Packet
    BY <1>3 DEF Whole
  <2>2. out \in [1 .. n -> Packet]
    BY <2>1
  <2> QED
    BY <1>1, <2>2
<1> HIDE DEF out
<1>5. /\ Reply(last, n = 0) /\ Len(last) = 1 /\ last[1].body = Is("OK")
  <2> DEFINE ack == n = 0
             p == out_ch(out_begin_ack(ack), 2)
  <2>1. ack \in Bools
    BY DEF Bools
  <2> HIDE DEF ack
  <2>2. /\ Whole(out_begin_ack(ack)) /\ out_begin_ack(ack).ack = ack
        /\ out_begin_ack(ack).len \in Nat /\ out_begin_ack(ack).len <= 2
    BY <2>1, BeginIsWhole
  <2>3. 2 \in Nat /\ out_begin_ack(ack).len + 2 <= OUT_SIZE
    BY <2>2, Sizes
  <2>4. Whole(p) /\ p.len = out_begin_ack(ack).len + 2 /\ p.ack = ack
    BY <2>2, <2>3, OutChFits
  <2>5. p.len + 3 <= OUT_SIZE
    BY <2>2, <2>4, Sizes
  <2>6. Is("OK") \in Bodies /\ Is("OK").is \notin Interim
    BY IsBody DEF Replies, Interim
  <2> HIDE DEF p
  <2>7. /\ Reply(out_finish(p, Is("OK")), ack) /\ Len(out_finish(p, Is("OK"))) = 1
        /\ out_finish(p, Is("OK"))[1].body = Is("OK")
    BY <2>1, <2>4, <2>5, <2>6, FilledIsReply
  <2> QED
    BY <2>7 DEF p, ack
<1> HIDE DEF last
<1>6. last \in Seq(Packet) /\ Whole(last[1]) /\ (last[1].ack <=> n = 0) /\ last[1].body.is \notin Interim
  BY <1>5, IsBody DEF Reply, Replies
<1>7. /\ ps \in Seq(Packet) /\ Len(ps) = n + 1
      /\ \A i \in 1 .. n : ps[i] = Piece(i)
      /\ ps[n + 1] = last[1]
  <2>1. /\ out \o last \in Seq(Packet) /\ Len(out \o last) = n + 1
        /\ \A i \in 1 .. n + 1 : (out \o last)[i] = IF i <= n THEN out[i] ELSE last[i - n]
    <3>1. /\ out \o last \in Seq(Packet) /\ Len(out \o last) = Len(out) + Len(last)
          /\ \A i \in 1 .. Len(out) + Len(last) :
               (out \o last)[i] = IF i <= Len(out) THEN out[i] ELSE last[i - Len(out)]
      BY <1>4, <1>6, ConcatProperties
    <3> QED
      BY <1>4, <1>5, <3>1
  <2>2. \A i \in 1 .. n : i \in 1 .. n + 1 /\ i <= n
    BY <1>1
  <2>3. n + 1 \in 1 .. n + 1 /\ ~(n + 1 <= n) /\ (n + 1) - n = 1
    BY <1>1
  <2> QED
    BY <1>2, <1>4, <2>1, <2>2, <2>3
<1>8. ASSUME NEW i \in 1 .. n + 1
      PROVE  /\ Whole(ps[i])
             /\ ps[i].ack <=> i = 1
             /\ ps[i].body.is \in Interim <=> i < n + 1
  <2>1. CASE i \in 1 .. n
    <3>1. ps[i] = Piece(i) /\ Body(i).is = "O" /\ i < n + 1
      BY <1>1, <1>7, <2>1
    <3> QED
      BY <1>3, <2>1, <3>1 DEF Interim
  <2>2. CASE i = n + 1
    <3>1. i = 1 <=> n = 0
      BY <1>1, <2>2
    <3>2. ~(i < n + 1)
      BY <1>1, <2>2
    <3> QED
      BY <1>6, <1>7, <2>2, <3>1, <3>2
  <2> QED
    BY <1>1, <2>1, <2>2
<1>9. Reply(ps, TRUE)
  BY <1>1, <1>7, <1>8 DEF Reply
<1>10. \A i \in 1 .. n : ps[i].body = Body(i)
  BY <1>3, <1>7
<1> QED
  BY <1>7, <1>9, <1>10 DEF ps, n

\* Every command has one reply, and the ones that end in a trap are not
\* acknowledged.
Ops == {"trace", "oldtrace", "help", "g", "step", "stay", "bad", "other", "md32", "m", "q"}

LEMMA PacketsAreReply ==
  ASSUME NEW c, c.op \in Ops, c.off \in Nat, c.len \in Nat, c.op = "q" => c.off < XmlSize,
         NEW log, log.run \in Int, log.used \in Nat, prev.run \in Int, prev.used \in Nat
  PROVE  /\ Reply(Packets(c, log), c.op # "bad")
         /\ c.op \notin {"trace", "oldtrace", "step"} => Len(Packets(c, log)) = 1
         /\ c.op = "step" => \A i \in 1 .. Len(Packets(c, log)) : Packets(c, log)[i].body.is # "O"
<1>1. CASE c.op = "bad"
  BY <1>1, StopIsReply DEF Packets
<1>2. CASE c.op = "step"
  <2>1. Packets(c, log) = plus \o stop_reply
    BY <1>2 DEF Packets, dispatch_reply
  <2> QED
    BY <1>2, <2>1, SteppedIsReply
<1>11. CASE c.op = "stay"
  <2>1. Packets(c, log) = out_finish(out_ch(out_begin, 3), Is("stop"))
    BY <1>11 DEF Packets, dispatch_reply
  <2>2. 3 \in Nat /\ out_begin.len + 3 <= OUT_SIZE /\ out_begin.len + 3 = 5
    BY BeginAcks, Sizes
  <2>3. Whole(out_ch(out_begin, 3)) /\ out_ch(out_begin, 3).len = 5 /\ out_ch(out_begin, 3).ack = TRUE
    BY <2>2, BeginAcks, OutChFits
  <2>4. Is("stop") \in Bodies /\ Is("stop").is \notin Interim
    BY IsBody DEF Replies, Interim
  <2>5. out_ch(out_begin, 3).len + 3 <= OUT_SIZE
    BY <2>3, Sizes
  <2>6. /\ Reply(out_finish(out_ch(out_begin, 3), Is("stop")), TRUE)
        /\ Len(out_finish(out_ch(out_begin, 3), Is("stop"))) = 1
    BY <2>3, <2>4, <2>5, BeginAcks, FilledIsReply
  <2> QED
    BY <1>11, <2>1, <2>6
<1>3. CASE c.op = "trace"
  BY <1>3, RegionIsReply DEF Packets, dispatch_reply, handle_monitor
<1>4. CASE c.op = "oldtrace"
  BY <1>4, RegionIsReply DEF Packets, dispatch_reply, handle_monitor, trace_prev_used
<1>5. CASE c.op = "md32"
  BY <1>5, Md32IsReply DEF Packets, dispatch_reply, handle_monitor
<1>6. CASE c.op = "help"
  <2>1. Reply(send_text(40), TRUE) /\ Len(send_text(40)) = 1
    <3>1. 40 \in Nat /\ 2 * 40 + 5 <= OUT_SIZE
      BY ReplyAssumption, Sizes
    <3> QED
      BY <3>1, TextIsReply DEF send_text, Replies
  <2> QED
    BY <1>6, <2>1 DEF Packets, dispatch_reply, handle_monitor
<1>7. CASE c.op = "m"
  BY <1>7, ReadIsReply DEF Packets, dispatch_reply
<1>8. CASE c.op = "q"
  BY <1>8, QueryIsReply DEF Packets, dispatch_reply
<1>9. CASE c.op = "g"
  <2>1. Reply(read_regs, TRUE) /\ Len(read_regs) = 1
    <3>1. 17 * 4 \in Nat /\ 2 * (17 * 4) + 5 <= OUT_SIZE
      BY ReplyAssumption, Sizes
    <3> QED
      BY <3>1, TextIsReply DEF read_regs, Replies
  <2> QED
    BY <1>9, <2>1 DEF Packets, dispatch_reply
<1>10. CASE c.op = "other"
  <2>1. Is("empty") \in Bodies /\ Is("empty").is \notin Interim
    BY IsBody DEF Replies, Interim
  <2>2. out_begin.len + 3 <= OUT_SIZE
    BY BeginAcks, Sizes
  <2>3. Reply(out_finish(out_begin, Is("empty")), TRUE) /\ Len(out_finish(out_begin, Is("empty"))) = 1
    BY <2>1, <2>2, BeginAcks, FilledIsReply
  <2> QED
    BY <1>10, <2>3 DEF Packets, dispatch_reply
<1> QED
  BY <1>1, <1>2, <1>3, <1>4, <1>5, <1>6, <1>7, <1>8, <1>9, <1>10, <1>11 DEF Ops

\* What gdb has of a reply of which k packets came: it is complete when all of
\* them did, unless it waits for an acknowledgement that is not in it.
LEMMA GotOfReply ==
  ASSUME NEW ps, NEW acked \in BOOLEAN, Reply(ps, acked), NEW k \in Nat, k <= Len(ps)
  PROVE  LET got == SubSeq(ps, 1, k)
         IN /\ got \in Seq(Packet) /\ Len(got) = k /\ DOMAIN got = 1 .. k
            /\ \A i \in 1 .. k : got[i] = ps[i]
            /\ Acks(got) = IF acked /\ k > 0 THEN 1 ELSE 0
            /\ Complete(got) <=> k = Len(ps) /\ acked
<1> DEFINE got == SubSeq(ps, 1, k)
<1>1. Len(ps) \in Nat /\ Len(ps) > 0 /\ \A i \in 1 .. Len(ps) : ps[i] \in Packet
  BY DEF Reply, Whole
<1>2. \A i \in 1 .. k : ps[i] \in Packet
  BY <1>1
<1>3. got \in Seq(Packet) /\ Len(got) = k /\ DOMAIN got = 1 .. k
      /\ \A i \in 1 .. k : got[i] = ps[i]
  <2>1. /\ got \in Seq(Packet) /\ Len(got) = IF 1 <= k THEN k - 1 + 1 ELSE 0
        /\ \A i \in 1 .. k - 1 + 1 : got[i] = ps[1 + i - 1]
    BY <1>2, SubSeqProperties
  <2> QED
    BY <2>1, LenProperties
<1> HIDE DEF got
<1>4. \A i \in 1 .. k : /\ got[i].ack <=> i = 1 /\ acked
                        /\ got[i].body.is \in Interim <=> i < Len(ps)
  BY <1>1, <1>3 DEF Reply
<1>5. Acks(got) = IF acked /\ k > 0 THEN 1 ELSE 0
  <2> DEFINE S == {i \in DOMAIN got : got[i].ack}
  <2>1. S = IF acked /\ k > 0 THEN {1} ELSE {}
    <3>1. CASE acked /\ k > 0
      BY <1>3, <1>4, <3>1
    <3>2. CASE ~(acked /\ k > 0)
      BY <1>3, <1>4, <3>2
    <3> QED
      BY <3>1, <3>2
  <2> HIDE DEF S
  <2>2. Cardinality(S) = IF acked /\ k > 0 THEN 1 ELSE 0
    BY <2>1, FS_EmptySet, FS_Singleton
  <2> QED
    BY <2>2 DEF Acks, S
<1>6. (\E i \in DOMAIN got : got[i].body.is \notin Interim) <=> k = Len(ps)
  <2>1. ASSUME NEW i \in 1 .. k, got[i].body.is \notin Interim PROVE k = Len(ps)
    BY <1>1, <1>4, <2>1
  <2>2. ASSUME k = Len(ps) PROVE got[k].body.is \notin Interim /\ k \in 1 .. k
    BY <1>1, <1>4, <2>2
  <2> QED
    BY <1>3, <2>1, <2>2
<1>7. (\E i \in DOMAIN got : got[i].ack) <=> acked /\ k > 0
  <2>1. ASSUME acked, k > 0 PROVE got[1].ack /\ 1 \in 1 .. k
    BY <1>4, <2>1
  <2> QED
    BY <1>3, <1>4, <2>1
<1>8. Complete(got) <=> k = Len(ps) /\ acked
  BY <1>1, <1>6, <1>7 DEF Complete
<1> QED
  BY <1>3, <1>5, <1>8 DEF got

-----------------------------------------------------------------------------
(* The inductive invariant.                                                *)

Cmds == [op : Ops \cup {"none"}, off : Nat, len : Nat]

SesTypeOK ==
  /\ gdb \in [cmd : Cmds, tries : Nat, got : Seq(Packet)]
  /\ gdb.cmd = NoCmd \/ gdb.cmd.op \in Ops
  /\ xml \in [have : Nat, all : Bools]
  /\ tlog \in [run : Int, used : Nat] /\ prev \in [run : Int, used : Nat]
  /\ count \in [asked : Nat, executed : Nat, acks : Nat, without : Nat]
  /\ traced \in Nat /\ noise \in Nat /\ boots \in Nat

\* The two logs are of two runs, and the live one has its zero.
LogInv == tlog.run = boots /\ prev.run = boots - 1 /\ tlog.used < TRACE_SIZE

\* gdb asks for the piece behind the ones that it has.
XmlInv ==
  /\ xml.all = TRUE => xml.have = XmlSize
  /\ xml.all = FALSE => xml.have < XmlSize
  /\ gdb.cmd.op = "q" => gdb.cmd.off = xml.have /\ xml.all = FALSE

\* The command that is open was not executed, or its answer was lost.
CountInv ==
  /\ count.acks + count.without = count.executed
  /\ count.executed + (IF gdb.cmd = NoCmd THEN 0 ELSE 1) <= count.asked + noise + count.without

SesInv == SesTypeOK /\ LogInv /\ XmlInv /\ CountInv /\ ReplyFits /\ MonitorIsLog

LEMMA NoCmdType == NoCmd \in Cmds /\ NoCmd.op = "none" /\ "none" \notin Ops
  BY DEF NoCmd, Cmds, Ops

\* Nothing was printed, or gdb still waits.
LEMMA NothingPrinted ==
  ASSUME gdb.got = <<>> \/ gdb.cmd # NoCmd
  PROVE  MonitorIsLog
<1>1. DOMAIN <<>> = {}
  OBVIOUS
<1> QED
  BY <1>1 DEF MonitorIsLog

LEMMA NewLog ==
  ASSUME NEW r \in Int
  PROVE  LET log == trace_puts(trace_init(r), Banner)
         IN log \in [run : Int, used : Nat] /\ log.run = r /\ log.used < TRACE_SIZE
<1>1. Least(0 + Banner, TRACE_SIZE - 1) \in Nat /\ Least(0 + Banner, TRACE_SIZE - 1) < TRACE_SIZE
  BY Sizes DEF Least, Banner
<1> QED
  BY <1>1 DEF trace_puts, trace_init

LEMMA LongerLog ==
  ASSUME NEW log, log \in [run : Int, used : Nat], log.used < TRACE_SIZE, NEW n \in Nat
  PROVE  LET l == trace_puts(log, n)
         IN l \in [run : Int, used : Nat] /\ l.run = log.run /\ l.used < TRACE_SIZE
<1>1. Least(log.used + n, TRACE_SIZE - 1) \in Nat /\ Least(log.used + n, TRACE_SIZE - 1) < TRACE_SIZE
  BY Sizes DEF Least
<1> QED
  BY <1>1 DEF trace_puts

LEMMA SesInvInit == SessionInit => SesInv
<1> SUFFICES ASSUME SessionInit PROVE SesInv
  OBVIOUS
<1>1. <<>> \in Seq(Packet)
  OBVIOUS
<1>2. FALSE \in Bools /\ (TRUE = FALSE) = FALSE
  BY DEF Bools
<1>3. gdb \in [cmd : Cmds, tries : Nat, got : Seq(Packet)] /\ gdb.cmd = NoCmd /\ gdb.got = <<>>
  BY <1>1, NoCmdType DEF SessionInit
<1>4. xml \in [have : Nat, all : Bools] /\ xml.have = 0 /\ xml.all = FALSE
  BY <1>2 DEF SessionInit
<1>5. tlog \in [run : Int, used : Nat] /\ tlog.run = 0 /\ tlog.used < TRACE_SIZE
  BY NewLog DEF SessionInit
<1>6. prev \in [run : Int, used : Nat] /\ prev.run = -1
  BY Sizes DEF SessionInit
<1>7. /\ count \in [asked : Nat, executed : Nat, acks : Nat, without : Nat]
      /\ count.asked = 0 /\ count.executed = 0 /\ count.acks = 0 /\ count.without = 0
      /\ traced \in Nat /\ noise = 0 /\ boots = 0
  BY DEF SessionInit
<1>8. SesTypeOK
  BY <1>3, <1>4, <1>5, <1>6, <1>7 DEF SesTypeOK
<1>9. LogInv
  BY <1>5, <1>6, <1>7 DEF LogInv
<1>10. XmlInv
  BY <1>3, <1>4, NoCmdType, Sizes DEF XmlInv
<1>11. CountInv
  BY <1>3, <1>7 DEF CountInv
<1>12. ReplyFits
  BY DEF SessionInit, ReplyFits
<1>13. MonitorIsLog
  BY <1>3, NothingPrinted
<1> QED
  BY <1>8, <1>9, <1>10, <1>11, <1>12, <1>13 DEF SesInv

LEMMA CommandKeeps ==
  ASSUME SesInv, NEW c \in Commands, HostSendsCommand(c) PROVE SesInv'
<1> USE DEF SesInv
<1>1. c \in Cmds /\ c.op \in Ops /\ c # NoCmd /\ (c.op = "q" => c.off = xml.have)
  <2>1. xml.have \in Nat /\ Lengths \subseteq Nat
    BY Sizes DEF SesTypeOK
  <2>2. CASE c \in [op : {"trace", "oldtrace", "help", "g", "step", "stay", "bad", "other"}, off : {0}, len : {0}]
    <3>1. c \in Cmds /\ c.op \in Ops /\ c.op # "q"
      BY <2>2 DEF Cmds, Ops
    <3> QED
      BY <3>1, NoCmdType
  <2>3. CASE c \in [op : {"md32", "m"}, off : {0}, len : Lengths]
    <3>1. c.op \in Ops /\ c.op # "q"
      BY <2>3 DEF Ops
    <3>2. c.len \in Lengths /\ c.off = 0 /\ c = [op |-> c.op, off |-> c.off, len |-> c.len]
      BY <2>3
    <3>3. c \in Cmds
      BY <2>1, <3>1, <3>2 DEF Cmds
    <3> QED
      BY <3>1, <3>3, NoCmdType
  <2>4. CASE c \in [op : {"q"}, off : {xml.have}, len : Lengths \ {0}]
    <3>1. c \in Cmds /\ c.op \in Ops /\ c.off = xml.have
      BY <2>1, <2>4 DEF Cmds, Ops
    <3> QED
      BY <3>1, NoCmdType
  <2> QED
    BY <2>2, <2>3, <2>4 DEF Commands
<1>2. <<>> \in Seq(Packet)
  OBVIOUS
<1>3. gdb' \in [cmd : Cmds, tries : Nat, got : Seq(Packet)] /\ gdb'.cmd = c /\ gdb'.got = <<>>
  BY <1>1, <1>2 DEF HostSendsCommand
<1>4. /\ count' \in [asked : Nat, executed : Nat, acks : Nat, without : Nat]
      /\ count'.asked = count.asked + 1 /\ count'.executed = count.executed
      /\ count'.acks = count.acks /\ count'.without = count.without
  BY DEF HostSendsCommand, SesTypeOK
<1>5. UNCHANGED <<xml, tlog, prev, traced, sent, noise, boots>> /\ gdb.cmd = NoCmd
      /\ (c.op = "q" => ~xml.all)
  BY DEF HostSendsCommand
<1>6. SesTypeOK'
  BY <1>1, <1>3, <1>4, <1>5 DEF SesTypeOK
<1>7. LogInv'
  BY <1>5 DEF LogInv
<1>8. XmlInv'
  <2>1. xml.all \in Bools
    BY DEF SesTypeOK
  <2> QED
    BY <1>1, <1>3, <1>5, <2>1 DEF XmlInv, Bools
<1>9. CountInv'
  <2>1. /\ count.asked \in Nat /\ count.executed \in Nat /\ count.acks \in Nat
        /\ count.without \in Nat /\ noise \in Nat
    BY DEF SesTypeOK
  <2>2. count.acks + count.without = count.executed
        /\ count.executed <= count.asked + noise + count.without
    BY <1>5, <2>1 DEF CountInv
  <2>3. noise' = noise
    BY <1>5
  <2> QED
    BY <1>4, <2>1, <2>2, <2>3 DEF CountInv
<1>10. ReplyFits'
  BY <1>5 DEF ReplyFits
<1>11. MonitorIsLog'
  <2>1. DOMAIN <<>> = {}
    OBVIOUS
  <2> QED
    BY <1>3, <2>1 DEF MonitorIsLog
<1> QED
  BY <1>6, <1>7, <1>8, <1>9, <1>10, <1>11

LEMMA MangledKeeps ==
  ASSUME SesInv, CommandMangled PROVE SesInv'
<1> USE DEF SesInv
<1>1. <<>> \in Seq(Packet)
  OBVIOUS
<1>2. /\ gdb' \in [cmd : Cmds, tries : Nat, got : Seq(Packet)]
      /\ gdb'.cmd = gdb.cmd /\ gdb'.got = <<>> /\ gdb.cmd # NoCmd
  <2>1. gdb \in [cmd : Cmds, tries : Nat, got : Seq(Packet)] /\ gdb.tries + 1 \in Nat
    BY DEF SesTypeOK
  <2>2. gdb' = [gdb EXCEPT !.tries = gdb.tries + 1, !.got = <<>>] /\ gdb.cmd # NoCmd
    BY DEF CommandMangled
  <2> QED
    BY <1>1, <2>1, <2>2
<1>3. UNCHANGED <<xml, tlog, prev, traced, sent, count, boots>> /\ noise' = noise + 1
  BY DEF CommandMangled
<1>4. SesTypeOK'
  BY <1>2, <1>3 DEF SesTypeOK
<1>5. LogInv' /\ XmlInv' /\ ReplyFits'
  BY <1>2, <1>3 DEF LogInv, XmlInv, ReplyFits
<1>6. CountInv'
  BY <1>2, <1>3 DEF CountInv, SesTypeOK
<1>7. MonitorIsLog'
  BY <1>2 DEF MonitorIsLog
<1> QED
  BY <1>4, <1>5, <1>6, <1>7

LEMMA GivesUpKeeps ==
  ASSUME SesInv, HostGivesUp PROVE SesInv'
<1> USE DEF SesInv
<1>1. <<>> \in Seq(Packet) /\ DOMAIN <<>> = {}
  OBVIOUS
<1>2. /\ gdb' \in [cmd : Cmds, tries : Nat, got : Seq(Packet)]
      /\ gdb'.cmd = NoCmd /\ gdb'.got = <<>>
  BY <1>1, NoCmdType DEF HostGivesUp, SesTypeOK
<1>3. UNCHANGED <<xml, tlog, prev, traced, sent, count, noise, boots>>
  BY DEF HostGivesUp
<1>4. SesTypeOK'
  BY <1>2, <1>3 DEF SesTypeOK
<1>5. LogInv' /\ XmlInv' /\ ReplyFits'
  BY <1>2, <1>3, NoCmdType DEF LogInv, XmlInv, ReplyFits
<1>6. CountInv'
  BY <1>2, <1>3 DEF CountInv, SesTypeOK
<1>7. MonitorIsLog'
  BY <1>1, <1>2 DEF MonitorIsLog
<1> QED
  BY <1>4, <1>5, <1>6, <1>7

LEMMA RebootKeeps ==
  ASSUME SesInv, Reboot PROVE SesInv'
<1> USE DEF SesInv
<1>1. <<>> \in Seq(Packet) /\ DOMAIN <<>> = {}
  OBVIOUS
<1>2. /\ gdb' \in [cmd : Cmds, tries : Nat, got : Seq(Packet)]
      /\ gdb'.cmd = gdb.cmd /\ gdb.cmd = NoCmd /\ gdb'.got = <<>>
  BY <1>1 DEF Reboot, SesTypeOK
<1>3. boots' = boots + 1 /\ prev' = tlog /\ traced' = 0 /\ sent' = <<>> /\ UNCHANGED <<count, noise>>
  BY DEF Reboot
<1>4. xml' \in [have : Nat, all : Bools] /\ xml'.have = 0 /\ xml'.all = FALSE
  <2>1. FALSE \in Bools
    BY DEF Bools
  <2> QED
    BY <2>1 DEF Reboot
<1>5. tlog' \in [run : Int, used : Nat] /\ tlog'.run = boots + 1 /\ tlog'.used < TRACE_SIZE
  <2>1. boots + 1 \in Int
    BY DEF SesTypeOK
  <2> QED
    BY <2>1, NewLog DEF Reboot
<1>6. SesTypeOK'
  BY <1>2, <1>3, <1>4, <1>5 DEF SesTypeOK
<1>7. LogInv'
  BY <1>3, <1>5 DEF LogInv, SesTypeOK
<1>8. XmlInv'
  BY <1>2, <1>4, NoCmdType, Sizes DEF XmlInv
<1>9. CountInv' /\ ReplyFits'
  BY <1>1, <1>2, <1>3 DEF CountInv, ReplyFits
<1>10. MonitorIsLog'
  BY <1>1, <1>2 DEF MonitorIsLog
<1> QED
  BY <1>6, <1>7, <1>8, <1>9, <1>10

\* The output packets of got are a log of len bytes.
Printed(got, run, len) ==
  LET Output == {i \in DOMAIN got : got[i].body.is = "O"}
  IN Output # {} =>
       /\ got[1].body.from = 0 /\ got[1].body.run = run
       /\ \A i \in Output \ {1} : /\ got[i].body.from = got[i - 1].body.to
                                  /\ got[i].body.run = got[1].body.run
       /\ \E n \in Output : Output = 1 .. n /\ got[n].body.to = len

LEMMA RegionIsPrinted ==
  ASSUME NEW log, log.run \in Int, NEW len \in Nat, NEW got, NEW ps, ps = send_region(log, len),
         DOMAIN got = 1 .. Len(ps), \A i \in 1 .. Len(ps) : got[i] = ps[i]
  PROVE  Printed(got, log.run, len)
<1> DEFINE C == MONITOR_CHUNK
           n == (len + C - 1) \div C
           To(i) == (i - 1) * C + Least(C, len - (i - 1) * C)
           Output == {i \in DOMAIN got : got[i].body.is = "O"}
<1>1. Cut(C, len, n)
  BY Pieces, Sizes
<1>2. /\ Reply(ps, TRUE) /\ Len(ps) = n + 1
      /\ \A i \in 1 .. n : ps[i].body = [is |-> "O", run |-> log.run, from |-> (i - 1) * C, to |-> To(i)]
  BY RegionIsReply
<1>3. C \in Nat /\ C > 0 /\ n \in Nat
  BY <1>1, Sizes DEF Cut
<1>4. DOMAIN got = 1 .. n + 1 /\ \A i \in 1 .. n + 1 : got[i] = ps[i]
  BY <1>2
<1> HIDE DEF n, C
<1>5. Output = 1 .. n
  <2>1. ASSUME NEW i \in 1 .. n PROVE i \in 1 .. n + 1 /\ got[i].body.is = "O"
    <3> DEFINE from == (i - 1) * C
               to == To(i)
    <3>1. i \in 1 .. n + 1 /\ got[i] = ps[i]
      BY <1>3, <1>4
    <3>2. ps[i].body = [is |-> "O", run |-> log.run, from |-> from, to |-> to]
      BY <1>2
    <3> HIDE DEF from, to
    <3> QED
      BY <3>1, <3>2
  <2>2. n + 1 \in 1 .. n + 1 /\ got[n + 1].body.is # "O"
    BY <1>2, <1>3, <1>4 DEF Reply, Interim
  <2>3. \A i \in 1 .. n + 1 : i \in 1 .. n \/ i = n + 1
    BY <1>3
  <2> QED
    BY <1>4, <2>1, <2>2, <2>3
<1>6. \A i \in 1 .. n : /\ got[i].body.from = (i - 1) * C
                        /\ got[i].body.to = To(i) /\ got[i].body.run = log.run
  <2> SUFFICES ASSUME NEW i \in 1 .. n
               PROVE  /\ got[i].body.from = (i - 1) * C
                      /\ got[i].body.to = To(i) /\ got[i].body.run = log.run
    OBVIOUS
  <2> DEFINE from == (i - 1) * C
             to == To(i)
  <2>1. i \in 1 .. n + 1
    BY <1>3
  <2>2. got[i].body = [is |-> "O", run |-> log.run, from |-> from, to |-> to]
    BY <1>2, <1>4, <2>1
  <2> HIDE DEF from, to
  <2>3. got[i].body.from = from /\ got[i].body.to = to /\ got[i].body.run = log.run
    BY <2>2
  <2> QED
    BY <2>3 DEF from, to
<1>7. \A i \in 1 .. n : To(i) = IF i < n THEN i * C ELSE len
  <2> SUFFICES ASSUME NEW i \in 1 .. n PROVE To(i) = IF i < n THEN i * C ELSE len
    OBVIOUS
  <2> DEFINE x == (i - 1) * C
             y == i * C
  <2>1. x \in Nat /\ x < len /\ y = x + C /\ (i < n => y < len)
    BY <1>1 DEF Cut
  <2>2. ASSUME ~(i < n) PROVE len <= y
    <3>1. i = n
      BY <1>3, <2>2
    <3> QED
      BY <1>1, <3>1 DEF Cut
  <2> HIDE DEF x, y
  <2>3. x + Least(C, len - x) = IF i < n THEN y ELSE len
    BY <1>3, <2>1, <2>2 DEF Least
  <2> QED
    BY <2>3 DEF x, y
<1> HIDE DEF To
<1>8. ASSUME Output # {}
      PROVE /\ got[1].body.from = 0 /\ got[1].body.run = log.run
            /\ \A i \in Output \ {1} : /\ got[i].body.from = got[i - 1].body.to
                                       /\ got[i].body.run = got[1].body.run
            /\ \E m \in Output : Output = 1 .. m /\ got[m].body.to = len
  <2>1. 1 \in 1 .. n /\ n \in 1 .. n /\ ~(n < n) /\ (1 - 1) * C = 0
    BY <1>3, <1>5, <1>8
  <2>2. got[1].body.from = 0 /\ got[1].body.run = log.run
    BY <1>6, <2>1
  <2>3. \A i \in Output \ {1} : /\ got[i].body.from = got[i - 1].body.to
                                /\ got[i].body.run = got[1].body.run
    <3> SUFFICES ASSUME NEW i \in 1 .. n, i # 1
                 PROVE  got[i].body.from = got[i - 1].body.to /\ got[i].body.run = got[1].body.run
      BY <1>5
    <3>1. i - 1 \in 1 .. n /\ i - 1 < n
      BY <1>3
    <3>2. To(i - 1) = (i - 1) * C
      BY <1>7, <3>1
    <3> QED
      BY <1>6, <2>1, <3>1, <3>2
  <2>4. got[n].body.to = len
    BY <1>6, <1>7, <2>1
  <2> QED
    BY <1>5, <2>1, <2>2, <2>3, <2>4
<1> QED
  BY <1>8 DEF Printed

LEMMA EchoLog ==
  ASSUME tlog \in [run : Int, used : Nat], tlog.used < TRACE_SIZE, traced \in Nat
  PROVE  LET log == Echo(tlog)
         IN log \in [run : Int, used : Nat] /\ log.run = tlog.run /\ log.used < TRACE_SIZE
  BY LongerLog DEF Echo

LEMMA DispatchKeeps ==
  ASSUME SesInv, NEW k \in Nat, Dispatch(k) PROVE SesInv'
<1> USE DEF SesInv
<1> DEFINE c == gdb.cmd
           log == Echo(tlog)
           ps == Packets(c, log)
           got == SubSeq(ps, 1, k)
           done == Complete(got)
           acked == c.op # "bad"
<1>1. /\ c \in Cmds /\ c.op \in Ops /\ c # NoCmd /\ gdb.tries \in Nat
      /\ c.off \in Nat /\ c.len \in Nat
  BY DEF Dispatch, SesTypeOK, Cmds
<1>2. log \in [run : Int, used : Nat] /\ log.run = tlog.run /\ log.used < TRACE_SIZE
  BY EchoLog DEF SesTypeOK, LogInv
<1>3. c.op = "q" => c.off = xml.have /\ xml.all = FALSE /\ c.off < XmlSize
  BY DEF XmlInv
<1>4. /\ Reply(ps, acked) /\ acked \in BOOLEAN
      /\ c.op \notin {"trace", "oldtrace", "step"} => Len(ps) = 1
      /\ c.op = "step" => \A i \in 1 .. Len(ps) : ps[i].body.is # "O"
  <2>1. log.run \in Int /\ log.used \in Nat /\ prev.run \in Int /\ prev.used \in Nat
    BY <1>2 DEF SesTypeOK
  <2> QED
    BY <1>1, <1>3, <2>1, PacketsAreReply
<1>5. k <= Len(ps) /\ Len(ps) \in Nat /\ Len(ps) > 0
  BY <1>4 DEF Dispatch, Reply
<1>6. /\ got \in Seq(Packet) /\ Len(got) = k /\ DOMAIN got = 1 .. k
      /\ \A i \in 1 .. k : got[i] = ps[i]
      /\ Acks(got) = IF acked /\ k > 0 THEN 1 ELSE 0
      /\ done <=> k = Len(ps) /\ acked
  <2> HIDE DEF c, log, ps, acked
  <2> QED
    BY <1>4, <1>5, GotOfReply
<1>7. /\ noise' = IF k < Len(ps) THEN noise + 1 ELSE noise
      /\ sent' = ps
      /\ tlog' = Logs(c, log)
      /\ traced' = Least(traced + 1, TRACE_CMD_LIMIT)
      /\ gdb' = [cmd |-> IF done THEN NoCmd ELSE c, tries |-> gdb.tries + 1, got |-> got]
      /\ xml' = IF done /\ c.op = "q"
                THEN [have |-> IF got[1].body.off = xml.have THEN xml.have + got[1].body.n ELSE 0,
                      all |-> got[1].body.is = "l"]
                ELSE xml
      /\ count' = [count EXCEPT !.executed = @ + 1, !.acks = @ + Acks(got),
                                !.without = @ + IF Acks(got) = 0 THEN 1 ELSE 0]
      /\ UNCHANGED <<prev, boots>>
  BY DEF Dispatch
<1> HIDE DEF log, ps, got, done, acked
<1>8. /\ gdb' \in [cmd : Cmds, tries : Nat, got : Seq(Packet)]
      /\ gdb'.cmd = (IF done THEN NoCmd ELSE c) /\ gdb'.got = got
  <2> DEFINE d == IF done THEN NoCmd ELSE c
             t == gdb.tries + 1
  <2>1. d \in Cmds /\ t \in Nat
    BY <1>1, NoCmdType
  <2>2. gdb' = [cmd |-> d, tries |-> t, got |-> got]
    BY <1>7
  <2> HIDE DEF d, t
  <2>3. gdb' \in [cmd : Cmds, tries : Nat, got : Seq(Packet)] /\ gdb'.cmd = d /\ gdb'.got = got
    BY <1>6, <2>1, <2>2
  <2> QED
    BY <2>3 DEF d
<1>9. /\ tlog' \in [run : Int, used : Nat] /\ tlog'.run = tlog.run /\ tlog'.used < TRACE_SIZE
      /\ c.op \notin {"bad", "step"} => tlog' = log
  <2>1. TrapLine \in Nat /\ StepLine \in Nat
    BY DEF TrapLine, StepLine
  <2>2. CASE c.op = "bad"
    BY <1>2, <1>7, <2>1, <2>2, LongerLog DEF Logs
  <2>3. CASE c.op = "step"
    <3> DEFINE l == trace_puts(log, StepLine)
    <3>1. l \in [run : Int, used : Nat] /\ l.run = log.run /\ l.used < TRACE_SIZE
      BY <1>2, <2>1, LongerLog
    <3>2. tlog' = trace_puts(l, TrapLine)
      BY <1>7, <2>3 DEF Logs
    <3> HIDE DEF l
    <3>3. LET m == trace_puts(l, TrapLine)
          IN m \in [run : Int, used : Nat] /\ m.run = l.run /\ m.used < TRACE_SIZE
      BY <2>1, <3>1, LongerLog
    <3> QED
      BY <1>2, <2>3, <3>1, <3>2, <3>3
  <2>4. CASE c.op \notin {"bad", "step"}
    BY <1>2, <1>7, <2>4 DEF Logs
  <2> QED
    BY <2>2, <2>3, <2>4
<1>10. /\ xml' \in [have : Nat, all : Bools]
       /\ xml'.all = TRUE => xml'.have = XmlSize
       /\ xml'.all = FALSE => xml'.have < XmlSize
       /\ ~done => xml' = xml
  <2>1. CASE ~(done /\ c.op = "q")
    BY <1>7, <2>1 DEF SesTypeOK, XmlInv
  <2>2. CASE done /\ c.op = "q"
    <3>1. ps = handle_query(c)
      BY <2>2 DEF ps, Packets, dispatch_reply
    <3>2. /\ ps[1].body.off = c.off /\ ps[1].body.n \in Nat
          /\ c.off + ps[1].body.n <= XmlSize
          /\ ps[1].body.is = "l" <=> c.off + ps[1].body.n = XmlSize
      BY <1>1, <1>3, <2>2, <3>1, QueryIsReply
    <3>3. got[1] = ps[1]
      BY <1>5, <1>6, <2>2
    <3> DEFINE h == xml.have + ps[1].body.n
               a == ps[1].body.is = "l"
    <3>4. h \in Nat /\ h <= XmlSize /\ a \in Bools /\ (a <=> h = XmlSize)
      <4>1. h \in Nat /\ h <= XmlSize /\ h = c.off + ps[1].body.n
        BY <1>1, <1>3, <2>2, <3>2, Sizes
      <4>2. a <=> h = XmlSize
        BY <3>2, <4>1
      <4> QED
        BY <4>1, <4>2 DEF Bools
    <3>5. xml' = [have |-> h, all |-> a]
      BY <1>3, <1>7, <2>2, <3>2, <3>3
    <3> HIDE DEF h, a
    <3>6. xml' \in [have : Nat, all : Bools] /\ xml'.have = h /\ xml'.all = a
      BY <3>4, <3>5
    <3>7. a = TRUE => h = XmlSize
      BY <3>4
    <3>8. a = FALSE => h < XmlSize
      BY <3>4, Sizes
    <3> QED
      BY <2>2, <3>6, <3>7, <3>8
  <2> QED
    BY <2>1, <2>2
<1>11. /\ count' \in [asked : Nat, executed : Nat, acks : Nat, without : Nat]
       /\ count'.asked = count.asked /\ count'.executed = count.executed + 1
       /\ count'.acks + count'.without = count.acks + count.without + 1
       /\ count'.without >= count.without
       /\ ~acked => count'.without = count.without + 1
  <2> DEFINE a == Acks(got)
             w == IF Acks(got) = 0 THEN 1 ELSE 0
  <2>1. a \in Nat /\ w \in Nat /\ a + w = 1 /\ (~acked => w = 1)
    BY <1>4, <1>6
  <2>2. count' = [count EXCEPT !.executed = count.executed + 1, !.acks = count.acks + a,
                               !.without = count.without + w]
    BY <1>7
  <2> HIDE DEF a, w
  <2>3. /\ count.asked \in Nat /\ count.executed + 1 \in Nat
        /\ count.acks + a \in Nat /\ count.without + w \in Nat
        /\ count \in [asked : Nat, executed : Nat, acks : Nat, without : Nat]
    BY <2>1 DEF SesTypeOK
  <2>4. /\ count' \in [asked : Nat, executed : Nat, acks : Nat, without : Nat]
        /\ count'.asked = count.asked /\ count'.executed = count.executed + 1
        /\ count'.acks = count.acks + a /\ count'.without = count.without + w
    BY <2>2, <2>3
  <2>5. count.acks \in Nat /\ count.without \in Nat
    BY DEF SesTypeOK
  <2> QED
    BY <2>1, <2>4, <2>5
<1>12. noise' \in Nat /\ traced' \in Nat /\ (k < Len(ps) => noise' = noise + 1) /\ noise' >= noise
  <2>1. noise \in Nat /\ traced \in Nat
    BY DEF SesTypeOK
  <2>2. traced' \in Nat
    BY <1>7, <2>1, Sizes DEF Least
  <2> QED
    BY <1>5, <1>7, <2>1, <2>2
<1>13. SesTypeOK'
  BY <1>1, <1>7, <1>8, <1>9, <1>10, <1>11, <1>12 DEF SesTypeOK
<1>14. LogInv'
  BY <1>7, <1>9 DEF LogInv
<1>15. XmlInv'
  BY <1>3, <1>8, <1>10, NoCmdType DEF XmlInv
<1>16. CountInv'
  <2>1. /\ count.acks + count.without = count.executed
        /\ count.executed + 1 <= count.asked + noise + count.without
    BY <1>1 DEF CountInv
  <2>2. /\ count.asked \in Nat /\ count.executed \in Nat /\ count.acks \in Nat
        /\ count.without \in Nat /\ noise \in Nat
        /\ count'.asked \in Nat /\ count'.executed \in Nat /\ count'.acks \in Nat
        /\ count'.without \in Nat /\ noise' \in Nat
    BY <1>13 DEF SesTypeOK
  <2>3. count'.acks + count'.without = count'.executed
    BY <1>11, <2>1, <2>2
  <2>4. CASE done
    <3>1. gdb'.cmd = NoCmd
      BY <1>8, <2>4
    <3>2. count'.executed <= count'.asked + noise' + count'.without
      BY <1>11, <1>12, <2>1, <2>2
    <3> QED
      BY <2>3, <3>1, <3>2, <1>11 DEF CountInv
  <2>5. CASE ~done
    <3>1. k < Len(ps) \/ ~acked
      BY <1>5, <1>6, <2>5
    <3>2. count'.executed + 1 <= count'.asked + noise' + count'.without
      <4>1. noise' + count'.without >= noise + count.without + 1
        <5>1. CASE k < Len(ps)
          BY <1>11, <1>12, <2>2, <5>1
        <5>2. CASE ~acked
          BY <1>11, <1>12, <2>2, <5>2
        <5> QED
          BY <3>1, <5>1, <5>2
      <4> QED
        BY <1>11, <2>1, <2>2, <4>1
    <3>3. gdb'.cmd # NoCmd
      BY <1>1, <1>8, <2>5
    <3> QED
      BY <2>3, <3>2, <3>3 DEF CountInv
  <2> QED
    BY <2>4, <2>5
<1>17. ReplyFits'
  <2>1. DOMAIN ps = 1 .. Len(ps)
    BY <1>4, LenProperties DEF Reply
  <2>2. \A i \in 1 .. Len(ps) : ps[i].cut = FALSE /\ ps[i].len <= OUT_SIZE
    BY <1>4 DEF Reply, Whole
  <2> QED
    BY <1>7, <2>1, <2>2 DEF ReplyFits
<1>18. MonitorIsLog'
  <2>1. CASE ~done
    BY <1>1, <1>8, <2>1 DEF MonitorIsLog
  <2>2. CASE done /\ c.op \notin {"trace", "oldtrace"}
    <3>1. \A i \in 1 .. k : got[i].body.is # "O"
      <4>1. CASE c.op = "step"
        BY <1>4, <1>5, <1>6, <4>1
      <4>2. CASE c.op # "step"
        BY <1>4, <1>5, <1>6, <2>2, <4>2 DEF Reply, Interim
      <4> QED
        BY <4>1, <4>2
    <3> QED
      BY <1>6, <1>8, <3>1 DEF MonitorIsLog
  <2>3. CASE done /\ c.op = "trace"
    <3>1. ps = send_region(log, log.used) /\ acked
      BY <2>3 DEF ps, acked, Packets, dispatch_reply, handle_monitor
    <3>2. DOMAIN got = 1 .. Len(ps) /\ \A i \in 1 .. Len(ps) : got[i] = ps[i]
      BY <1>6, <2>3
    <3>3. tlog' = log /\ log.run \in Int /\ log.used \in Nat /\ log.used < TRACE_SIZE
      BY <1>2, <1>9, <2>3
    <3>4. Printed(got, log.run, log.used)
      BY <3>1, <3>2, <3>3, RegionIsPrinted
    <3> QED
      BY <1>8, <3>3, <3>4 DEF MonitorIsLog, Printed
  <2>4. CASE done /\ c.op = "oldtrace"
    <3>1. ps = send_region(prev, prev.used) /\ acked
      BY <2>4 DEF ps, acked, Packets, dispatch_reply, handle_monitor, trace_prev_used
    <3>2. DOMAIN got = 1 .. Len(ps) /\ \A i \in 1 .. Len(ps) : got[i] = ps[i]
      BY <1>6, <2>4
    <3>3. prev' = prev /\ prev.run \in Int /\ prev.used \in Nat /\ prev.run # tlog'.run
      BY <1>7, <1>9 DEF SesTypeOK, LogInv
    <3>4. Printed(got, prev.run, prev.used)
      BY <3>1, <3>2, <3>3, RegionIsPrinted
    <3> QED
      BY <1>8, <3>3, <3>4 DEF MonitorIsLog, Printed
  <2> QED
    BY <2>1, <2>2, <2>3, <2>4
<1> QED
  BY <1>13, <1>14, <1>15, <1>16, <1>17, <1>18

LEMMA SesInvNext == SesInv /\ [SessionNext]_ses_vars => SesInv'
<1> SUFFICES ASSUME SesInv, [SessionNext]_ses_vars PROVE SesInv'
  OBVIOUS
<1>1. ASSUME NEW c \in Commands, HostSendsCommand(c) PROVE SesInv'
  BY <1>1, CommandKeeps
<1>2. ASSUME CommandMangled PROVE SesInv'
  BY <1>2, MangledKeeps
<1>3. ASSUME NEW k \in 0 .. (TRACE_SIZE \div MONITOR_CHUNK) + 2, Dispatch(k) PROVE SesInv'
  <2>1. k \in Nat
    OBVIOUS
  <2> QED
    BY <1>3, <2>1, DispatchKeeps
<1>4. ASSUME HostGivesUp PROVE SesInv'
  BY <1>4, GivesUpKeeps
<1>5. ASSUME Reboot PROVE SesInv'
  BY <1>5, RebootKeeps
<1>6. ASSUME UNCHANGED ses_vars PROVE SesInv'
  <2>1. UNCHANGED <<gdb, xml, tlog, prev, traced, sent, count, noise, boots>>
    BY <1>6 DEF ses_vars
  <2>2. SesTypeOK' /\ LogInv' /\ XmlInv' /\ CountInv' /\ ReplyFits'
    BY <2>1 DEF SesInv, SesTypeOK, LogInv, XmlInv, CountInv, ReplyFits
  <2>3. MonitorIsLog'
    BY <2>1 DEF SesInv, MonitorIsLog
  <2> QED
    BY <2>2, <2>3 DEF SesInv
<1> QED
  BY <1>1, <1>2, <1>3, <1>4, <1>5, <1>6 DEF SessionNext

(* gdb is told the truth: every reply fits g_out, target.xml and the logs  *)
(* come whole and in order, and a command is acknowledged once, whatever   *)
(* lengths gdb asks for, through retries, lost replies and reboots.        *)
THEOREM RepliesAreRightTheorem == SessionSpec => []RepliesAreRight
<1>1. SesInv => RepliesAreRight
  <2> SUFFICES ASSUME SesInv PROVE RepliesAreRight
    OBVIOUS
  <2>1. XmlIsWhole
    BY DEF SesInv, SesTypeOK, XmlInv, XmlIsWhole, Bools
  <2>2. AckedOnce
    BY DEF SesInv, SesTypeOK, CountInv, AckedOnce
  <2> QED
    BY <2>1, <2>2 DEF SesInv, RepliesAreRight
<1> QED
  BY <1>1, SesInvInit, SesInvNext, PTL DEF SessionSpec

-----------------------------------------------------------------------------
(* RspFraming: the parser against the meaning of the whole stream.         *)

\* Induction goes with a set for the predicate.

\* A set of naturals that is not empty has a least element.
LEMMA NatSetMin ==
  ASSUME NEW T, T \subseteq Nat, T # {}
  PROVE  \E x \in T : \A y \in T : x <= y
<1>1. PICK x \in T : \A y \in T : ~ (<<y, x>> \in OpToRel(<, Nat))
  BY NatLessThanWellFounded, WFMin
<1>2. \A y \in T : ~(y < x)
  BY <1>1 DEF OpToRel
<1>3. x \in Nat /\ \A y \in T : y \in Nat
  BY <1>1
<1>4. \A y \in T : x <= y
  BY <1>2, <1>3
<1> QED
  BY <1>1, <1>4

\* Induction up to a bound.
LEMMA UpToInduction ==
  ASSUME NEW n \in Nat, NEW T, 0 \in T, \A i \in 1 .. n : i - 1 \in T => i \in T
  PROVE  \A i \in 0 .. n : i \in T
<1> DEFINE C == {i \in 0 .. n : i \notin T}
<1> SUFFICES ASSUME C # {} PROVE FALSE
  OBVIOUS
<1>0. C \subseteq Nat
  OBVIOUS
<1>1. PICK x \in C : \A y \in C : x <= y
  <2> HIDE DEF C
  <2> QED
    BY <1>0, NatSetMin
<1>2. x \in 1 .. n /\ x - 1 \in 0 .. n /\ ~(x <= x - 1)
  BY <1>1
<1>3. x - 1 \in T
  BY <1>1, <1>2
<1> QED
  BY <1>1, <1>2, <1>3

\* First is the least element.
LEMMA FirstIs ==
  ASSUME NEW T, T \subseteq Nat, T # {}
  PROVE  First(T) \in T /\ \A j \in T : First(T) <= j
  BY NatSetMin DEF First

\* An element below all others is the first.
LEMMA FirstAt ==
  ASSUME NEW T, T \subseteq Nat, NEW i \in T, \A j \in T : i <= j
  PROVE  First(T) = i
<1>1. First(T) \in T /\ First(T) <= i
  BY FirstIs
<1>2. i \in Nat /\ First(T) \in Nat /\ i <= First(T)
  BY <1>1
<1> QED
  BY <1>1, <1>2

-----------------------------------------------------------------------------
(* Sums.                                                                   *)

\* A byte's value.
LEMMA CodeNat == \A c : Code(c) \in Nat
  BY DEF Code

\* The equation of SumOf for the first k bytes.
IsSum(g, s, k) == g = [i \in 0 .. k |-> IF i = 0 THEN 0 ELSE g[i - 1] + Code(s[i])]

\* The sums of the first bytes.
LEMMA SumStep ==
  ASSUME NEW g, NEW s, NEW k \in Nat, IsSum(g, s, k)
  PROVE  /\ g[0] = 0
         /\ \A i \in 1 .. k : g[i] = g[i - 1] + Code(s[i])
         /\ \A i \in 0 .. k : g[i] \in Nat
<1>1. g[0] = 0
  BY DEF IsSum
<1>2. ASSUME NEW i \in 1 .. k PROVE g[i] = g[i - 1] + Code(s[i])
  <2>1. i \in 0 .. k /\ i # 0
    OBVIOUS
  <2> QED
    BY <2>1 DEF IsSum
<1> DEFINE T == {i \in 0 .. k : g[i] \in Nat}
<1>3. 0 \in T
  BY <1>1
<1>4. ASSUME NEW i \in 1 .. k, i - 1 \in T PROVE i \in T
  BY <1>2, <1>4, CodeNat
<1>5. \A i \in 0 .. k : i \in T
  <2> HIDE DEF T
  <2> QED
    BY <1>3, <1>4, UpToInduction
<1> QED
  BY <1>1, <1>2, <1>5

\* The recursive function of SumOf exists, so it satisfies its equation.
LEMMA SumIs ==
  ASSUME NEW s, Len(s) \in Nat
  PROVE  \E g : IsSum(g, s, Len(s)) /\ SumOf(s) = g[Len(s)]
<1> DEFINE T == {k \in 0 .. Len(s) : \E g : IsSum(g, s, k)}
<1>1. 0 \in T
  <2> DEFINE g == [i \in 0 .. 0 |-> 0]
  <2>1. IsSum(g, s, 0)
    BY DEF IsSum
  <2> QED
    BY <2>1
<1>2. ASSUME NEW k \in 1 .. Len(s), k - 1 \in T PROVE k \in T
  <2>1. PICK g : IsSum(g, s, k - 1)
    BY <1>2
  <2> DEFINE h == [i \in 0 .. k |-> IF i <= k - 1 THEN g[i] ELSE g[k - 1] + Code(s[k])]
  <2>0. g[0] = 0 /\ \A i \in 1 .. k - 1 : g[i] = g[i - 1] + Code(s[i])
    BY <2>1, SumStep
  <2>2. ASSUME NEW i \in 0 .. k PROVE h[i] = IF i = 0 THEN 0 ELSE h[i - 1] + Code(s[i])
    <3>1. CASE i = 0
      BY <2>0, <3>1
    <3>2. CASE i # 0 /\ i <= k - 1
      <4>1. i \in 1 .. k - 1 /\ i - 1 \in 0 .. k /\ i - 1 <= k - 1
        BY <3>2
      <4>2. h[i] = g[i] /\ h[i - 1] = g[i - 1]
        BY <4>1, <3>2
      <4> QED
        BY <4>1, <4>2, <2>0, <3>2
    <3>3. CASE i = k
      <4>1. h[i] = g[k - 1] + Code(s[k]) /\ h[i - 1] = g[k - 1] /\ i # 0
        BY <3>3
      <4> QED
        BY <4>1, <3>3
    <3> QED
      BY <3>1, <3>2, <3>3
  <2>3. h = [i \in 0 .. k |-> h[i]]
    OBVIOUS
  <2> HIDE DEF h
  <2>4. IsSum(h, s, k)
    BY <2>2, <2>3 DEF IsSum
  <2> QED
    BY <2>4
<1>3. \A k \in 0 .. Len(s) : k \in T
  <2> HIDE DEF T
  <2> QED
    BY <1>1, <1>2, UpToInduction
<1>4. \E g : g = [i \in 0 .. Len(s) |-> IF i = 0 THEN 0 ELSE g[i - 1] + Code(s[i])]
  BY <1>3 DEF IsSum
<1> DEFINE f == CHOOSE g : g = [i \in 0 .. Len(s) |-> IF i = 0 THEN 0 ELSE g[i - 1] + Code(s[i])]
<1>5. SumOf(s) = f[Len(s)]
  BY DEF SumOf
<1>6. IsSum(f, s, Len(s))
  BY <1>4 DEF IsSum
<1> QED
  BY <1>5, <1>6

\* The sum of two parts.
LEMMA SumConcat ==
  ASSUME NEW a \in Seq(Bytes), NEW b \in Seq(Bytes)
  PROVE  SumOf(a) \in Nat /\ SumOf(a \o b) = SumOf(a) + SumOf(b)
<1> DEFINE c == a \o b
           n == Len(a)
           k == Len(b)
<1>0. n \in Nat /\ k \in Nat /\ Len(c) = n + k
  OBVIOUS
<1>e. (\A i \in 1 .. n : c[i] = a[i]) /\ \A i \in 1 .. k : c[n + i] = b[i]
  <2>1. \A i \in 1 .. n + k : c[i] = IF i <= n THEN a[i] ELSE b[i - n]
    BY ConcatProperties
  <2> HIDE DEF c, n, k
  <2>2. ASSUME NEW i \in 1 .. k PROVE c[n + i] = b[i]
    <3>1. n + i \in 1 .. n + k /\ ~(n + i <= n) /\ (n + i) - n = i
      BY <1>0
    <3> QED
      BY <2>1, <3>1
  <2>3. ASSUME NEW i \in 1 .. n PROVE c[i] = a[i]
    <3>1. i \in 1 .. n + k /\ i <= n
      BY <1>0
    <3> QED
      BY <2>1, <3>1
  <2> QED
    BY <2>2, <2>3
<1>1. PICK f : IsSum(f, a, n) /\ SumOf(a) = f[n]
  BY SumIs
<1>2. PICK g : IsSum(g, b, k) /\ SumOf(b) = g[k]
  BY SumIs
<1>3. PICK h : IsSum(h, c, n + k) /\ SumOf(c) = h[n + k]
  <2> HIDE DEF c, n, k
  <2>1. Len(c) \in Nat
    BY <1>0
  <2> QED
    BY <1>0, <2>1, SumIs
<1> HIDE DEF c, n, k
<1>4. f[0] = 0 /\ (\A i \in 1 .. n : f[i] = f[i - 1] + Code(a[i])) /\ \A i \in 0 .. n : f[i] \in Nat
  BY <1>0, <1>1, SumStep
<1>5. g[0] = 0 /\ (\A i \in 1 .. k : g[i] = g[i - 1] + Code(b[i])) /\ \A i \in 0 .. k : g[i] \in Nat
  BY <1>0, <1>2, SumStep
<1>6. h[0] = 0 /\ (\A i \in 1 .. n + k : h[i] = h[i - 1] + Code(c[i])) /\ \A i \in 0 .. n + k : h[i] \in Nat
  BY <1>0, <1>3, SumStep
<1> DEFINE T == {i \in 0 .. n : h[i] = f[i]}
           U == {i \in 0 .. k : h[n + i] = f[n] + g[i]}
<1>7. 0 \in T
  BY <1>0, <1>4, <1>6
<1>8. ASSUME NEW i \in 1 .. n, i - 1 \in T PROVE i \in T
  <2>1. i \in 1 .. n + k /\ c[i] = a[i]
    BY <1>0, <1>e
  <2>2. h[i] = h[i - 1] + Code(c[i]) /\ f[i] = f[i - 1] + Code(a[i])
    BY <2>1, <1>4, <1>6
  <2> QED
    BY <1>0, <1>8, <2>1, <2>2
<1>9. n \in T
  <2> HIDE DEF T
  <2>1. \A i \in 0 .. n : i \in T
    BY <1>0, <1>7, <1>8, UpToInduction
  <2> QED
    BY <1>0, <2>1
<1>10. 0 \in U
  BY <1>0, <1>9, <1>4, <1>5
<1>11. ASSUME NEW i \in 1 .. k, i - 1 \in U PROVE i \in U
  <2>1. n + i \in 1 .. n + k /\ c[n + i] = b[i] /\ (n + i) - 1 = n + (i - 1)
    BY <1>0, <1>e
  <2>2. h[n + i] = h[n + (i - 1)] + Code(c[n + i])
    BY <2>1, <1>6
  <2>3. g[i] = g[i - 1] + Code(b[i]) /\ g[i - 1] \in Nat /\ f[n] \in Nat /\ Code(b[i]) \in Nat
    BY <1>0, <1>4, <1>5, CodeNat
  <2>4. h[n + (i - 1)] = f[n] + g[i - 1]
    BY <1>11
  <2>5. h[n + i] = f[n] + g[i]
    BY <2>1, <2>2, <2>3, <2>4
  <2> QED
    BY <1>0, <2>5
<1>12. k \in U
  <2> HIDE DEF U
  <2>1. \A i \in 0 .. k : i \in U
    BY <1>0, <1>10, <1>11, UpToInduction
  <2> QED
    BY <1>0, <2>1
<1> QED
  BY <1>0, <1>1, <1>2, <1>3, <1>4, <1>12 DEF c

\* The sum of nothing.
LEMMA SumEmpty == SumOf(<<>>) = 0
<1>1. Len(<<>>) = 0
  OBVIOUS
<1>2. PICK g : IsSum(g, <<>>, 0) /\ SumOf(<<>>) = g[0]
  BY <1>1, SumIs
<1> QED
  BY <1>2, SumStep

-----------------------------------------------------------------------------
(* The reference.                                                          *)

EventRecs == [what : {"cmd", "nak"}, body : Seq(Bytes)]

\* The positions of a byte in a stream.
LEMMA PositionsNat ==
  ASSUME NEW s, Len(s) \in Nat, NEW c, NEW from \in Nat
  PROVE  Positions(s, c, from) \subseteq Nat /\ \A i \in Positions(s, c, from) : i \in from .. Len(s) /\ s[i] = c
  BY DEF Positions

\* The cases of MeaningFrom.
NoStart(s, from) == Positions(s, "$", from) = {}
StartOf(s, from) == First(Positions(s, "$", from))
HashesOf(s, from) == Positions(s, "#", StartOf(s, from) + 1)
HashOf(s, from) == First(HashesOf(s, from))
LimitOf(s, from) == StartOf(s, from) + 1 + CMD_SIZE
Dropped(s, from) ==
  (HashesOf(s, from) = {} \/ HashOf(s, from) > LimitOf(s, from)) /\ Len(s) >= LimitOf(s, from)
Partial(s, from) == HashesOf(s, from) = {} \/ HashOf(s, from) + 2 > Len(s)
BodyOf(s, from) == SubSeq(s, StartOf(s, from) + 1, HashOf(s, from) - 1)
EventOf(s, from) ==
  Checked(BodyOf(s, from), SumOf(BodyOf(s, from)), s[HashOf(s, from) + 1], s[HashOf(s, from) + 2])

\* The cases of MeaningFrom by their names.
LEMMA MeaningCases ==
  ASSUME NEW s, NEW from, NEW m
  PROVE  MeaningFrom(s, from, m) =
           IF NoStart(s, from) THEN <<>>
           ELSE IF Dropped(s, from) THEN m[LimitOf(s, from)]
           ELSE IF Partial(s, from) THEN <<>>
           ELSE <<EventOf(s, from)>> \o m[HashOf(s, from) + 3]
  BY DEF MeaningFrom, NoStart, StartOf, HashesOf, HashOf, LimitOf, Dropped, Partial, BodyOf, EventOf

\* What a packet refers to lies behind it.
LEMMA MeaningLooksAhead ==
  ASSUME NEW s \in Seq(Bytes), NEW from \in 1 .. Len(s) + 1, ~NoStart(s, from)
  PROVE  /\ StartOf(s, from) \in from .. Len(s)
         /\ Dropped(s, from) => LimitOf(s, from) \in from + 1 .. Len(s) + 1
         /\ ~Partial(s, from) => /\ HashOf(s, from) \in StartOf(s, from) + 1 .. Len(s) - 2
                                 /\ HashOf(s, from) + 3 \in from + 1 .. Len(s) + 1
<1>0. Len(s) \in Nat /\ from \in Nat
  OBVIOUS
<1>1. StartOf(s, from) \in from .. Len(s)
  <2>1. StartOf(s, from) \in Positions(s, "$", from)
    BY <1>0, PositionsNat, FirstIs DEF NoStart, StartOf
  <2> QED
    BY <1>0, <2>1, PositionsNat
<1> DEFINE i == StartOf(s, from)
           H == HashesOf(s, from)
<1>2. i \in Nat /\ i + 1 \in Nat
  BY <1>0, <1>1
<1>3. Dropped(s, from) => LimitOf(s, from) \in from + 1 .. Len(s) + 1
  <2> HIDE DEF i
  <2>1. LimitOf(s, from) = i + 1 + CMD_SIZE
    BY DEF LimitOf, i
  <2>2. i \in from .. Len(s)
    BY <1>1 DEF i
  <2>3. Dropped(s, from) => Len(s) >= LimitOf(s, from)
    BY DEF Dropped
  <2> QED
    BY <1>0, <1>2, <2>1, <2>2, <2>3, FramingAssumption
<1>4. ASSUME ~Partial(s, from) PROVE HashOf(s, from) \in i + 1 .. Len(s) - 2 /\ HashOf(s, from) + 3 \in from + 1 .. Len(s) + 1
  <2>1. H # {} /\ ~(HashOf(s, from) + 2 > Len(s))
    BY <1>4 DEF Partial
  <2>2. HashOf(s, from) \in Positions(s, "#", i + 1)
    BY <1>0, <1>2, <2>1, PositionsNat, FirstIs DEF HashOf, HashesOf
  <2> HIDE DEF i
  <2>3. HashOf(s, from) \in i + 1 .. Len(s)
    BY <1>0, <1>2, <2>2, PositionsNat
  <2>4. i \in from .. Len(s)
    BY <1>1 DEF i
  <2> QED
    BY <1>0, <1>2, <2>1, <2>3, <2>4
<1> QED
  BY <1>1, <1>3, <1>4

\* MeaningFrom needs only the meaning of later positions.
LEMMA MeaningSame ==
  ASSUME NEW s \in Seq(Bytes), NEW from \in 1 .. Len(s) + 1, NEW g, NEW h,
         \A k \in from + 1 .. Len(s) + 1 : g[k] = h[k]
  PROVE  MeaningFrom(s, from, g) = MeaningFrom(s, from, h)
  BY MeaningCases, MeaningLooksAhead

\* The equation of Meaning from a on.
IsMeaning(g, s, a) == g = [from \in a .. Len(s) + 1 |-> MeaningFrom(s, from, g)]

\* The recursive function of Meaning exists, so it satisfies its equation.
LEMMA MeaningIs ==
  ASSUME NEW s \in Seq(Bytes)
  PROVE  IsMeaning(Meaning(s), s, 1)
<1> DEFINE L == Len(s)
           T == {n \in 0 .. L : \E g : IsMeaning(g, s, L + 1 - n)}
<1>0. L \in Nat
  OBVIOUS
<1>1. 0 \in T
  <2> DEFINE g == [from \in L + 1 .. L + 1 |-> MeaningFrom(s, from, <<>>)]
  <2>1. ASSUME NEW from \in L + 1 .. L + 1 PROVE g[from] = MeaningFrom(s, from, g)
    <3>1. g[from] = MeaningFrom(s, from, <<>>)
      OBVIOUS
    <3> HIDE DEF g
    <3>2. from \in 1 .. Len(s) + 1 /\ \A k \in from + 1 .. Len(s) + 1 : <<>>[k] = g[k]
      BY <1>0
    <3> QED
      BY <3>1, <3>2, MeaningSame
  <2>2. g = [from \in L + 1 .. L + 1 |-> g[from]]
    OBVIOUS
  <2> HIDE DEF g
  <2>3. IsMeaning(g, s, L + 1)
    BY <2>1, <2>2 DEF IsMeaning
  <2>4. L + 1 - 0 = L + 1 /\ 0 \in 0 .. L
    BY <1>0
  <2> QED
    BY <2>3, <2>4
<1>2. ASSUME NEW n \in 1 .. L, n - 1 \in T PROVE n \in T
  <2> DEFINE a == L + 1 - n
  <2>0. a \in 1 .. L /\ L + 1 - (n - 1) = a + 1
    BY <1>0
  <2>1. PICK g : IsMeaning(g, s, a + 1)
    BY <1>2, <2>0
  <2> HIDE DEF a
  <2> DEFINE h == [from \in a .. L + 1 |-> IF from >= a + 1 THEN g[from] ELSE MeaningFrom(s, a, g)]
  <2>2. ASSUME NEW from \in a .. L + 1 PROVE h[from] = MeaningFrom(s, from, h)
    <3>1. from \in 1 .. Len(s) + 1
      BY <1>0, <2>0
    <3>2. ASSUME NEW k \in from + 1 .. Len(s) + 1 PROVE g[k] = h[k]
      <4>1. k \in a .. L + 1 /\ k >= a + 1
        BY <1>0, <2>0
      <4> QED
        BY <4>1
    <3>3. MeaningFrom(s, from, g) = MeaningFrom(s, from, h)
      <4> HIDE DEF h
      <4> QED
        BY <3>1, <3>2, MeaningSame
    <3>4. CASE from >= a + 1
      <4>1. from \in a + 1 .. Len(s) + 1
        BY <1>0, <2>0, <3>4
      <4>2. g[from] = MeaningFrom(s, from, g)
        BY <4>1, <2>1 DEF IsMeaning
      <4> QED
        BY <3>3, <3>4, <4>2
    <3>5. CASE ~(from >= a + 1)
      <4>1. from = a
        BY <1>0, <2>0, <3>5
      <4> QED
        BY <3>3, <3>5, <4>1
    <3> QED
      BY <3>4, <3>5
  <2>3. h = [from \in a .. L + 1 |-> h[from]]
    OBVIOUS
  <2> HIDE DEF h
  <2>4. IsMeaning(h, s, a)
    BY <2>2, <2>3 DEF IsMeaning
  <2> QED
    BY <1>0, <2>4 DEF a
<1>3. L \in T
  <2> HIDE DEF T
  <2>1. \A n \in 0 .. L : n \in T
    BY <1>0, <1>1, <1>2, UpToInduction
  <2> QED
    BY <1>0, <2>1
<1>4. L + 1 - L = 1
  BY <1>0
<1>5. \E g : IsMeaning(g, s, 1)
  BY <1>3, <1>4
<1>6. Meaning(s) = CHOOSE g : IsMeaning(g, s, 1)
  BY DEF Meaning, IsMeaning
<1> QED
  BY <1>5, <1>6

\* The equation of Meaning.
LEMMA MeaningStep ==
  ASSUME NEW s \in Seq(Bytes), NEW from \in 1 .. Len(s) + 1
  PROVE  Meaning(s)[from] =
           IF NoStart(s, from) THEN <<>>
           ELSE IF Dropped(s, from) THEN Meaning(s)[LimitOf(s, from)]
           ELSE IF Partial(s, from) THEN <<>>
           ELSE <<EventOf(s, from)>> \o Meaning(s)[HashOf(s, from) + 3]
<1>1. Meaning(s)[from] = MeaningFrom(s, from, Meaning(s))
  <2> DEFINE m == Meaning(s)
  <2>1. IsMeaning(m, s, 1)
    BY MeaningIs
  <2> HIDE DEF m
  <2>2. m[from] = MeaningFrom(s, from, m)
    BY <2>1 DEF IsMeaning
  <2> QED
    BY <2>2 DEF m
<1> QED
  BY <1>1, MeaningCases

\* A result of the parser.
LEMMA CheckedType ==
  ASSUME NEW body \in Seq(Bytes), NEW sum, NEW hi, NEW lo
  PROVE  Checked(body, sum, hi, lo) \in EventRecs
<1>1. <<>> \in Seq(Bytes)
  OBVIOUS
<1> QED
  BY <1>1 DEF Checked, EventRecs

\* A part of a stream.
LEMMA PartType ==
  ASSUME NEW s \in Seq(Bytes), NEW a \in Nat \ {0}, NEW b \in Nat, b <= Len(s)
  PROVE  /\ SubSeq(s, a, b) \in Seq(Bytes)
         /\ a <= b + 1 => Len(SubSeq(s, a, b)) = b + 1 - a
<1>1. \A i \in a .. b : s[i] \in Bytes
  <2>1. \A i \in a .. b : i \in 1 .. Len(s)
    OBVIOUS
  <2> QED
    BY <2>1, ElementOfSeq
<1>2. a \in Int /\ b \in Int
  OBVIOUS
<1>3. SubSeq(s, a, b) \in Seq(Bytes) /\ Len(SubSeq(s, a, b)) = IF a <= b THEN b - a + 1 ELSE 0
  BY <1>1, <1>2, SubSeqProperties
<1> QED
  BY <1>2, <1>3

\* What a stream means is a sequence of events.
LEMMA MeaningType ==
  ASSUME NEW s \in Seq(Bytes)
  PROVE  \A from \in 1 .. Len(s) + 1 : Meaning(s)[from] \in Seq(EventRecs)
<1> DEFINE L == Len(s)
           M == Meaning(s)
           T == {n \in 0 .. L : \A k \in L + 1 - n .. L + 1 : M[k] \in Seq(EventRecs)}
<1>0. L \in Nat
  OBVIOUS
<1>e. <<>> \in Seq(EventRecs)
  OBVIOUS
<1>1. ASSUME NEW from \in 1 .. L + 1, \A k \in from + 1 .. L + 1 : M[k] \in Seq(EventRecs)
      PROVE  M[from] \in Seq(EventRecs)
  <2>1. M[from] =
           IF NoStart(s, from) THEN <<>>
           ELSE IF Dropped(s, from) THEN M[LimitOf(s, from)]
           ELSE IF Partial(s, from) THEN <<>>
           ELSE <<EventOf(s, from)>> \o M[HashOf(s, from) + 3]
    BY MeaningStep
  <2> HIDE DEF M
  <2>2. CASE ~NoStart(s, from) /\ Dropped(s, from)
    <3>1. LimitOf(s, from) \in from + 1 .. L + 1
      BY <2>2, MeaningLooksAhead
    <3> QED
      BY <1>1, <2>1, <2>2, <3>1
  <2>3. CASE ~NoStart(s, from) /\ ~Dropped(s, from) /\ ~Partial(s, from)
    <3>1. /\ StartOf(s, from) \in from .. L
          /\ HashOf(s, from) \in StartOf(s, from) + 1 .. L - 2
          /\ HashOf(s, from) + 3 \in from + 1 .. L + 1
      BY <2>3, MeaningLooksAhead
    <3>2. BodyOf(s, from) \in Seq(Bytes)
      <4> DEFINE a == StartOf(s, from) + 1
                 b == HashOf(s, from) - 1
      <4>1. a \in Nat \ {0} /\ b \in Nat /\ b <= L
        BY <1>0, <3>1
      <4> HIDE DEF a, b
      <4>2. SubSeq(s, a, b) \in Seq(Bytes)
        BY <4>1, PartType
      <4> QED
        BY <4>2 DEF BodyOf, a, b
    <3>3. EventOf(s, from) \in EventRecs
      BY <3>2, CheckedType DEF EventOf
    <3>4. M[HashOf(s, from) + 3] \in Seq(EventRecs)
      BY <1>1, <3>1
    <3>5. <<EventOf(s, from)>> \in Seq(EventRecs)
      BY <3>3
    <3>6. <<EventOf(s, from)>> \o M[HashOf(s, from) + 3] \in Seq(EventRecs)
      BY <3>4, <3>5, ConcatProperties
    <3> QED
      BY <2>1, <2>3, <3>6
  <2> QED
    BY <1>e, <2>1, <2>2, <2>3
<1>2. 0 \in T
  <2>1. \A k \in (L + 1) + 1 .. L + 1 : M[k] \in Seq(EventRecs)
    BY <1>0
  <2>2. M[L + 1] \in Seq(EventRecs)
    BY <1>0, <1>1, <2>1
  <2>3. \A k \in L + 1 - 0 .. L + 1 : k = L + 1
    BY <1>0
  <2> QED
    BY <1>0, <2>2, <2>3
<1>3. ASSUME NEW n \in 1 .. L, n - 1 \in T PROVE n \in T
  <2> DEFINE a == L + 1 - n
  <2>1. a \in 1 .. L + 1 /\ L + 1 - (n - 1) = a + 1
    BY <1>0
  <2>2. \A k \in a + 1 .. L + 1 : M[k] \in Seq(EventRecs)
    BY <1>3, <2>1
  <2>3. M[a] \in Seq(EventRecs)
    BY <1>1, <2>1, <2>2
  <2>4. \A k \in a .. L + 1 : k = a \/ k \in a + 1 .. L + 1
    BY <2>1
  <2>5. \A k \in a .. L + 1 : M[k] \in Seq(EventRecs)
    BY <2>2, <2>3, <2>4
  <2> QED
    BY <1>0, <2>5
<1>4. \A n \in 0 .. L : n \in T
  <2> HIDE DEF T
  <2> QED
    BY <1>0, <1>2, <1>3, UpToInduction
<1>5. L \in T
  BY <1>0, <1>4
<1>6. \A k \in L + 1 - L .. L + 1 : M[k] \in Seq(EventRecs)
  BY <1>5
<1>7. L + 1 - L = 1
  BY <1>0
<1> QED
  BY <1>6, <1>7

\* A byte that starts nothing is ignored.
LEMMA MeaningSkips ==
  ASSUME NEW s \in Seq(Bytes), NEW from \in 1 .. Len(s), s[from] # "$"
  PROVE  Meaning(s)[from] = Meaning(s)[from + 1]
<1>1. Positions(s, "$", from) = Positions(s, "$", from + 1)
  <2>1. \A i \in from .. Len(s) : i = from \/ i \in from + 1 .. Len(s)
    OBVIOUS
  <2>2. \A i \in from + 1 .. Len(s) : i \in from .. Len(s)
    OBVIOUS
  <2> QED
    BY <2>1, <2>2 DEF Positions
<1>2. /\ NoStart(s, from) <=> NoStart(s, from + 1)
      /\ StartOf(s, from) = StartOf(s, from + 1)
  BY <1>1 DEF NoStart, StartOf
<1>3. HashesOf(s, from) = HashesOf(s, from + 1) /\ LimitOf(s, from) = LimitOf(s, from + 1)
  BY <1>2 DEF HashesOf, LimitOf
<1>4. HashOf(s, from) = HashOf(s, from + 1)
  BY <1>3 DEF HashOf
<1>5. /\ Dropped(s, from) <=> Dropped(s, from + 1)
      /\ Partial(s, from) <=> Partial(s, from + 1)
      /\ EventOf(s, from) = EventOf(s, from + 1)
  BY <1>2, <1>3, <1>4 DEF Dropped, Partial, EventOf, BodyOf
<1>6. from \in 1 .. Len(s) + 1 /\ from + 1 \in 1 .. Len(s) + 1
  OBVIOUS
<1> QED
  BY <1>2, <1>3, <1>4, <1>5, <1>6, MeaningStep

\* At the end of the stream is nothing.
LEMMA MeaningEnds ==
  ASSUME NEW s \in Seq(Bytes)
  PROVE  Meaning(s)[Len(s) + 1] = <<>>
<1>1. Positions(s, "$", Len(s) + 1) = {}
  BY DEF Positions
<1>2. Len(s) + 1 \in 1 .. Len(s) + 1
  OBVIOUS
<1> QED
  BY <1>1, <1>2, MeaningStep DEF NoStart

\* At a '$' a packet starts.
LEMMA StartHere ==
  ASSUME NEW s \in Seq(Bytes), NEW i \in 1 .. Len(s), s[i] = "$"
  PROVE  ~NoStart(s, i) /\ StartOf(s, i) = i /\ LimitOf(s, i) = i + 1 + CMD_SIZE
         /\ HashesOf(s, i) = Positions(s, "#", i + 1) /\ HashesOf(s, i) \subseteq Nat
<1>1. i \in Positions(s, "$", i) /\ (\A j \in Positions(s, "$", i) : i <= j) /\ Positions(s, "$", i) \subseteq Nat
  BY DEF Positions
<1>2. First(Positions(s, "$", i)) = i
  BY <1>1, FirstAt
<1>3. Positions(s, "#", i + 1) \subseteq Nat
  BY DEF Positions
<1> QED
  BY <1>1, <1>2, <1>3 DEF NoStart, StartOf, LimitOf, HashesOf

\* A body with CMD_SIZE bytes and no '#' behind them is dropped.
LEMMA MeaningDrops ==
  ASSUME NEW s \in Seq(Bytes), NEW i \in 1 .. Len(s), s[i] = "$", i + 1 + CMD_SIZE <= Len(s),
         \A k \in i + 1 .. i + 1 + CMD_SIZE : s[k] # "#"
  PROVE  Meaning(s)[i] = Meaning(s)[i + 1 + CMD_SIZE]
<1>1. i \in 1 .. Len(s) + 1 /\ CMD_SIZE \in Nat
  BY FramingAssumption
<1>2. ~NoStart(s, i) /\ LimitOf(s, i) = i + 1 + CMD_SIZE /\ HashesOf(s, i) = Positions(s, "#", i + 1) /\ HashesOf(s, i) \subseteq Nat
  BY StartHere
<1>3. HashesOf(s, i) # {} => HashOf(s, i) > i + 1 + CMD_SIZE
  <2> SUFFICES ASSUME HashesOf(s, i) # {} PROVE HashOf(s, i) > i + 1 + CMD_SIZE
    OBVIOUS
  <2>1. HashOf(s, i) \in Positions(s, "#", i + 1)
    BY <1>2, FirstIs DEF HashOf
  <2>2. HashOf(s, i) \in i + 1 .. Len(s) /\ s[HashOf(s, i)] = "#"
    BY <2>1 DEF Positions
  <2>3. HashOf(s, i) \notin i + 1 .. i + 1 + CMD_SIZE
    BY <2>2
  <2> QED
    BY <1>1, <2>2, <2>3
<1>4. Dropped(s, i)
  BY <1>1, <1>2, <1>3 DEF Dropped
<1> QED
  BY <1>1, <1>2, <1>4, MeaningStep

\* A body that ends at j in '#'.
Ends(s, i, j) ==
  /\ i \in 1 .. Len(s) /\ s[i] = "$" /\ j \in i + 1 .. Len(s) /\ s[j] = "#"
  /\ \A k \in i + 1 .. j - 1 : s[k] # "#"
  /\ j - i - 1 <= CMD_SIZE

\* The packet whose body ends at j.
LEMMA EndsHere ==
  ASSUME NEW s \in Seq(Bytes), NEW i, NEW j, Ends(s, i, j)
  PROVE  /\ ~NoStart(s, i) /\ ~Dropped(s, i) /\ StartOf(s, i) = i /\ HashOf(s, i) = j
         /\ Partial(s, i) <=> j + 2 > Len(s)
<1>1. i \in 1 .. Len(s) /\ j \in i + 1 .. Len(s) /\ CMD_SIZE \in Nat /\ j - i - 1 <= CMD_SIZE
  BY FramingAssumption DEF Ends
<1>2. ~NoStart(s, i) /\ LimitOf(s, i) = i + 1 + CMD_SIZE /\ HashesOf(s, i) = Positions(s, "#", i + 1)
      /\ HashesOf(s, i) \subseteq Nat /\ StartOf(s, i) = i
  BY <1>1, StartHere DEF Ends
<1>3. j \in HashesOf(s, i)
  BY <1>1, <1>2 DEF Positions, Ends
<1>4. ASSUME NEW k \in HashesOf(s, i) PROVE j <= k
  <2>1. k \in i + 1 .. Len(s) /\ s[k] = "#"
    BY <1>2, <1>4 DEF Positions
  <2>2. k \notin i + 1 .. j - 1
    BY <2>1 DEF Ends
  <2> QED
    BY <1>1, <2>1, <2>2
<1>5. HashOf(s, i) = j
  BY <1>2, <1>3, <1>4, FirstAt DEF HashOf
<1>6. ~Dropped(s, i)
  BY <1>1, <1>2, <1>3, <1>5 DEF Dropped
<1> QED
  BY <1>2, <1>3, <1>5, <1>6 DEF Partial

\* The packet from i whose '#' is at j.
PacketAt(s, i, j) == Checked(SubSeq(s, i + 1, j - 1), SumOf(SubSeq(s, i + 1, j - 1)), s[j + 1], s[j + 2])

\* A whole packet.
LEMMA MeaningPacket ==
  ASSUME NEW s \in Seq(Bytes), NEW i \in Nat, NEW j \in Nat, Ends(s, i, j), j + 2 <= Len(s)
  PROVE  Meaning(s)[i] = <<PacketAt(s, i, j)>> \o Meaning(s)[j + 3]
<1>1. i \in 1 .. Len(s) + 1 /\ j \in Nat
  BY DEF Ends
<1>2. ~NoStart(s, i) /\ ~Dropped(s, i) /\ StartOf(s, i) = i /\ HashOf(s, i) = j /\ ~Partial(s, i)
  BY <1>1, EndsHere
<1>3. EventOf(s, i) = PacketAt(s, i, j)
  BY <1>2 DEF EventOf, BodyOf, PacketAt
<1> QED
  BY <1>1, <1>2, <1>3, MeaningStep

\* A packet that is not over.
LEMMA MeaningPartial ==
  ASSUME NEW s \in Seq(Bytes), NEW i \in 1 .. Len(s), s[i] = "$",
         \/ Len(s) < i + 1 + CMD_SIZE /\ \A k \in i + 1 .. Len(s) : s[k] # "#"
         \/ \E j \in Nat : Ends(s, i, j) /\ j + 2 > Len(s)
  PROVE  Meaning(s)[i] = <<>>
<1>1. i \in 1 .. Len(s) + 1 /\ CMD_SIZE \in Nat
  BY FramingAssumption
<1>2. CASE Len(s) < i + 1 + CMD_SIZE /\ \A k \in i + 1 .. Len(s) : s[k] # "#"
  <2>1. ~NoStart(s, i) /\ LimitOf(s, i) = i + 1 + CMD_SIZE /\ HashesOf(s, i) = Positions(s, "#", i + 1)
    BY StartHere
  <2>2. HashesOf(s, i) = {}
    BY <1>2, <2>1 DEF Positions
  <2>3. ~Dropped(s, i) /\ Partial(s, i)
    BY <1>1, <1>2, <2>1, <2>2 DEF Dropped, Partial
  <2> QED
    BY <1>1, <2>1, <2>3, MeaningStep
<1>3. ASSUME NEW j \in Nat, Ends(s, i, j), j + 2 > Len(s) PROVE Meaning(s)[i] = <<>>
  <2>1. ~NoStart(s, i) /\ ~Dropped(s, i) /\ Partial(s, i)
    BY <1>3, EndsHere
  <2> QED
    BY <1>1, <2>1, MeaningStep
<1> QED
  BY <1>2, <1>3

-----------------------------------------------------------------------------
(* The parser.                                                             *)

States == {"IDLE", "BODY", "CSUM1", "CSUM2"}

Parser(st, cmd, sum, hi, out, at) ==
  [state |-> st, cmd |-> cmd, sum |-> sum, hi |-> hi, out |-> out, at |-> at]
IsParser(p) == p = Parser(p.state, p.cmd, p.sum, p.hi, p.out, p.at)

\* t is a stream that starts with s.
Extends(t, s) == t \in Seq(Bytes) /\ Len(s) <= Len(t) /\ \A k \in 1 .. Len(s) : t[k] = s[k]

\* cmd is the body that starts behind i and goes to e.
InBody(cmd, s, i, e) ==
  /\ i \in 1 .. e /\ e <= Len(s) /\ s[i] = "$" /\ cmd = SubSeq(s, i + 1, e) /\ e - i <= CMD_SIZE
  /\ \A k \in i + 1 .. e : s[k] # "#"

\* The parser has taken n bytes of s, and what is open starts at from.
Where(p, s, n, from) ==
  /\ from \in 1 .. n + 1
  /\ p.state = "IDLE" => from = n + 1
  /\ p.state = "BODY" => InBody(p.cmd, s, from, n)
  /\ p.state = "CSUM1" => InBody(p.cmd, s, from, n - 1) /\ s[n] = "#"
  /\ p.state = "CSUM2" => InBody(p.cmd, s, from, n - 2) /\ s[n - 1] = "#" /\ s[n] = p.hi

\* What is before from has been told, however the stream goes on.
Told(out, s, from) == \A t : Extends(t, s) => Meaning(t)[1] = out \o Meaning(t)[from]

\* The parser in a piece that makes the stream s, w bytes of which came before.
Parsing(p, s, w) ==
  /\ IsParser(p) /\ p.state \in States /\ p.cmd \in Seq(Bytes) /\ p.sum = SumOf(p.cmd)
  /\ p.out \in Seq(EventRecs) /\ p.at \in 0 .. Len(s) - w
  /\ \E from \in Nat : Where(p, s, w + p.at, from) /\ Told(p.out, s, from)

\* The rounds that the bytes taken can have cost.
Cost(p) == 2 * p.at + (IF p.state = "BODY" THEN 0 ELSE 1)

\* The fields of a parser.
LEMMA ParserFields ==
  ASSUME NEW st, NEW cmd, NEW sum, NEW hi, NEW out, NEW at
  PROVE  LET p == Parser(st, cmd, sum, hi, out, at) IN
         /\ IsParser(p) /\ p.state = st /\ p.cmd = cmd /\ p.sum = sum /\ p.hi = hi /\ p.out = out /\ p.at = at
  BY DEF Parser, IsParser

\* The bytes that t shares with s.
LEMMA ExtendsPart ==
  ASSUME NEW s \in Seq(Bytes), NEW t, Extends(t, s), NEW a \in Nat \ {0}, NEW b \in Nat, b <= Len(s)
  PROVE  SubSeq(t, a, b) = SubSeq(s, a, b)
<1>0. t \in Seq(Bytes) /\ Len(s) \in Nat /\ Len(t) \in Nat /\ b <= Len(t)
  BY DEF Extends
<1>1. CASE b < a
  BY <1>1, SubSeqEmpty
<1>2. CASE a <= b
  <2>1. SubSeq(t, a, b) \in Seq(Bytes) /\ SubSeq(s, a, b) \in Seq(Bytes)
    BY <1>0, PartType
  <2>2. Len(SubSeq(t, a, b)) = b + 1 - a /\ Len(SubSeq(s, a, b)) = b + 1 - a
    BY <1>0, <1>2, PartType
  <2>3. ASSUME NEW i \in 1 .. b + 1 - a PROVE SubSeq(t, a, b)[i] = SubSeq(s, a, b)[i]
    <3>1. a + i - 1 \in 1 .. Len(s) /\ i \in 1 .. b - a + 1
      BY <1>0, <1>2
    <3>2. SubSeq(t, a, b)[i] = t[a + i - 1] /\ SubSeq(s, a, b)[i] = s[a + i - 1]
      <4>1. (\A k \in a .. b : t[k] \in Bytes) /\ (\A k \in a .. b : s[k] \in Bytes)
        <5>1. \A k \in a .. b : k \in 1 .. Len(s) /\ k \in 1 .. Len(t)
          BY <1>0
        <5> QED
          BY <1>0, <5>1, ElementOfSeq
      <4>2. a \in Int /\ b \in Int
        OBVIOUS
      <4> QED
        BY <3>1, <4>1, <4>2, SubSeqProperties
    <3> QED
      BY <3>1, <3>2 DEF Extends
  <2> QED
    BY <2>1, <2>2, <2>3, SeqEqual
<1> QED
  BY <1>1, <1>2

\* A byte outside a packet is ignored.
LEMMA SkipTold ==
  ASSUME NEW s \in Seq(Bytes), NEW out, NEW n \in Nat, n + 1 <= Len(s), s[n + 1] # "$", Told(out, s, n + 1)
  PROVE  Told(out, s, n + 2)
<1> SUFFICES ASSUME NEW t, Extends(t, s) PROVE Meaning(t)[1] = out \o Meaning(t)[n + 2]
  BY DEF Told
<1>1. t \in Seq(Bytes) /\ n + 1 \in 1 .. Len(t) /\ t[n + 1] # "$"
  BY DEF Extends
<1>2. Meaning(t)[n + 1] = Meaning(t)[(n + 1) + 1] /\ (n + 1) + 1 = n + 2
  BY <1>1, MeaningSkips
<1> QED
  BY <1>2 DEF Told

\* A whole packet is an event.
LEMMA PacketTold ==
  ASSUME NEW s \in Seq(Bytes), NEW out \in Seq(EventRecs), NEW n \in Nat, n + 1 <= Len(s), NEW cmd, NEW from \in Nat,
         InBody(cmd, s, from, n - 2), s[n - 1] = "#", Told(out, s, from)
  PROVE  Told(Append(out, Checked(cmd, SumOf(cmd), s[n], s[n + 1])), s, n + 2)
<1> DEFINE e == Checked(cmd, SumOf(cmd), s[n], s[n + 1])
<1> SUFFICES ASSUME NEW t, Extends(t, s) PROVE Meaning(t)[1] = Append(out, e) \o Meaning(t)[n + 2]
  BY DEF Told
<1>0. from \in 1 .. n - 2 /\ cmd = SubSeq(s, from + 1, n - 2) /\ (n - 2) - from <= CMD_SIZE
      /\ s[from] = "$" /\ \A k \in from + 1 .. n - 2 : s[k] # "#"
  BY DEF InBody
<1>1. t \in Seq(Bytes) /\ Len(t) \in Nat /\ Len(s) \in Nat /\ n + 1 <= Len(t) /\ \A k \in 1 .. n + 1 : t[k] = s[k]
  BY DEF Extends
<1>2. Ends(t, from, n - 1)
  <2>1. from \in 1 .. Len(t) /\ n - 1 \in from + 1 .. Len(t) /\ (n - 1) - from - 1 <= CMD_SIZE
    BY <1>0, <1>1, FramingAssumption
  <2>2. t[from] = "$" /\ t[n - 1] = "#"
    BY <1>0, <1>1
  <2>3. \A k \in from + 1 .. (n - 1) - 1 : t[k] # "#"
    BY <1>0, <1>1
  <2> QED
    BY <2>1, <2>2, <2>3 DEF Ends
<1>3. SubSeq(t, from + 1, n - 2) = cmd
  <2> DEFINE a == from + 1
             b == n - 2
  <2>1. a \in Nat \ {0} /\ b \in Nat /\ b <= Len(s)
    BY <1>0, <1>1
  <2>2. cmd = SubSeq(s, a, b)
    BY <1>0
  <2> HIDE DEF a, b
  <2>3. SubSeq(t, a, b) = cmd
    BY <2>1, <2>2, ExtendsPart
  <2> QED
    BY <2>3 DEF a, b
<1>4. t[n] = s[n] /\ t[n + 1] = s[n + 1]
  BY <1>0, <1>1
<1>5. Meaning(t)[from] = <<e>> \o Meaning(t)[n + 2]
  <2> DEFINE j == n - 1
  <2>1. j \in Nat /\ j + 2 <= Len(t) /\ j - 1 = n - 2 /\ j + 1 = n /\ j + 2 = n + 1 /\ j + 3 = n + 2
    BY <1>0, <1>1
  <2>2. Ends(t, from, j)
    BY <1>2
  <2> HIDE DEF j, e
  <2>3. Meaning(t)[from] = <<PacketAt(t, from, j)>> \o Meaning(t)[j + 3]
    BY <1>1, <2>1, <2>2, MeaningPacket
  <2>4. PacketAt(t, from, j) = e
    BY <1>3, <1>4, <2>1 DEF e, PacketAt
  <2> QED
    BY <2>1, <2>3, <2>4
<1>6. cmd \in Seq(Bytes)
  <2>1. from + 1 \in Nat \ {0} /\ n - 2 \in Nat /\ n - 2 <= Len(s)
    BY <1>0, <1>1
  <2> QED
    BY <1>0, <2>1, PartType
<1>7. e \in EventRecs
  BY <1>6, CheckedType
<1>8. Meaning(t)[n + 2] \in Seq(EventRecs)
  <2>1. n + 2 \in 1 .. Len(t) + 1
    BY <1>1
  <2> QED
    BY <1>1, <2>1, MeaningType
<1> DEFINE m == Meaning(t)[n + 2]
<1> HIDE DEF e, m
<1>9. <<e>> \in Seq(EventRecs) /\ Append(out, e) = out \o <<e>>
  BY <1>7, AppendIsConcat
<1>10. (out \o <<e>>) \o m = out \o (<<e>> \o m)
  <2>1. m \in Seq(EventRecs)
    BY <1>8 DEF m
  <2> QED
    BY <1>9, <2>1, ConcatAssociative
<1>11. Meaning(t)[1] = out \o Meaning(t)[from]
  BY DEF Told
<1> QED
  BY <1>5, <1>9, <1>10, <1>11 DEF m

\* A body that is too long is none.
LEMMA DropTold ==
  ASSUME NEW s \in Seq(Bytes), NEW out, NEW n \in Nat, n + 1 <= Len(s), NEW cmd, NEW from \in Nat,
         InBody(cmd, s, from, n), n - from = CMD_SIZE, s[n + 1] # "#", Told(out, s, from)
  PROVE  Told(out, s, n + 1)
<1> SUFFICES ASSUME NEW t, Extends(t, s) PROVE Meaning(t)[1] = out \o Meaning(t)[n + 1]
  BY DEF Told
<1>0. from \in 1 .. n /\ s[from] = "$" /\ \A k \in from + 1 .. n : s[k] # "#"
  BY DEF InBody
<1>1. t \in Seq(Bytes) /\ Len(t) \in Nat /\ Len(s) \in Nat /\ n + 1 <= Len(t) /\ \A k \in 1 .. n + 1 : t[k] = s[k]
  BY DEF Extends
<1>2. from + 1 + CMD_SIZE = n + 1 /\ from \in 1 .. Len(t) /\ t[from] = "$"
  BY <1>0, <1>1, FramingAssumption
<1>3. ASSUME NEW k \in from + 1 .. n + 1 PROVE t[k] # "#"
  <2>1. k \in 1 .. n + 1 /\ (k = n + 1 \/ k \in from + 1 .. n)
    BY <1>0
  <2> QED
    BY <1>0, <1>1, <2>1
<1>4. Meaning(t)[from] = Meaning(t)[from + 1 + CMD_SIZE]
  BY <1>1, <1>2, <1>3, MeaningDrops
<1> QED
  BY <1>2, <1>4 DEF Told

\* A stream and the piece that is its end.
Joined(s, w, data) ==
  /\ s \in Seq(Bytes) /\ data \in Seq(Bytes) /\ w \in Nat /\ Len(s) = w + Len(data)
  /\ \A k \in 1 .. Len(data) : s[w + k] = data[k]

\* How far feed_body goes.
RunEnds(p, data) ==
  {i \in p.at .. Len(data) : i < Len(data) => data[i + 1] = "#" \/ Len(p.cmd) + (i - p.at) >= CMD_SIZE}
RunTo(p, data) == First(RunEnds(p, data))

\* feed_body changes four fields.
LEMMA FeedBodyIs ==
  ASSUME NEW p, IsParser(p), NEW data
  PROVE  feed_body(p, data) =
           Parser(IF RunTo(p, data) < Len(data) /\ data[RunTo(p, data) + 1] # "#" THEN "IDLE" ELSE "BODY",
                  p.cmd \o SubSeq(data, p.at + 1, RunTo(p, data)),
                  p.sum + SumOf(SubSeq(data, p.at + 1, RunTo(p, data))), p.hi, p.out, RunTo(p, data))
<1> DEFINE to == RunTo(p, data)
           st == IF to < Len(data) /\ data[to + 1] # "#" THEN "IDLE" ELSE "BODY"
           run == SubSeq(data, p.at + 1, to)
           c == p.cmd \o run
           m == p.sum + SumOf(run)
<1>1. feed_body(p, data) = [p EXCEPT !.cmd = c, !.sum = m, !.at = to, !.state = st]
  BY DEF feed_body, RunTo, RunEnds
<1> HIDE DEF to, st, c, m
<1>2. [p EXCEPT !.cmd = c, !.sum = m, !.at = to, !.state = st] = Parser(st, c, m, p.hi, p.out, to)
  <2>1. PICK a, b, d, hi, out, x : p = Parser(a, b, d, hi, out, x)
    BY DEF IsParser
  <2>2. p.hi = hi /\ p.out = out
    BY <2>1, ParserFields
  <2>3. [Parser(a, b, d, hi, out, x) EXCEPT !.cmd = c, !.sum = m, !.at = to, !.state = st] = Parser(st, c, m, hi, out, to)
    <3>1. [Parser(a, b, d, hi, out, x) EXCEPT !.cmd = c] = Parser(a, c, d, hi, out, x)
      BY DEF Parser
    <3>2. [Parser(a, c, d, hi, out, x) EXCEPT !.sum = m] = Parser(a, c, m, hi, out, x)
      BY DEF Parser
    <3>3. [Parser(a, c, m, hi, out, x) EXCEPT !.at = to] = Parser(a, c, m, hi, out, to)
      BY DEF Parser
    <3>4. [Parser(a, c, m, hi, out, to) EXCEPT !.state = st] = Parser(st, c, m, hi, out, to)
      BY DEF Parser
    <3> QED
      BY <3>1, <3>2, <3>3, <3>4
  <2> QED
    BY <2>1, <2>2, <2>3
<1> QED
  BY <1>1, <1>2 DEF to, st, c, m

\* The run ends at the first byte that ends it.
LEMMA RunToIs ==
  ASSUME NEW p, NEW data \in Seq(Bytes), p.at \in 0 .. Len(data)
  PROVE  /\ RunTo(p, data) \in p.at .. Len(data) /\ RunTo(p, data) \in RunEnds(p, data)
         /\ \A i \in p.at .. RunTo(p, data) - 1 : data[i + 1] # "#" /\ ~(Len(p.cmd) + (i - p.at) >= CMD_SIZE)
<1> DEFINE at == p.at
           E == RunEnds(p, data)
           to == RunTo(p, data)
<1>0. at \in Nat /\ Len(data) \in Nat /\ at <= Len(data)
  OBVIOUS
<1>1. Len(data) \in E /\ E \subseteq Nat
  BY <1>0 DEF RunEnds
<1>2. to \in E /\ \A j \in E : to <= j
  <2> HIDE DEF E
  <2>1. First(E) \in E /\ \A j \in E : First(E) <= j
    BY <1>1, FirstIs
  <2> QED
    BY <2>1 DEF RunTo, E
<1>3. to \in at .. Len(data)
  BY <1>2 DEF RunEnds
<1>4. ASSUME NEW i \in at .. to - 1 PROVE data[i + 1] # "#" /\ ~(Len(p.cmd) + (i - at) >= CMD_SIZE)
  <2> HIDE DEF to, at
  <2>1. i \in at .. Len(data) /\ i < Len(data) /\ ~(to <= i)
    BY <1>0, <1>3
  <2>2. i \notin E
    BY <1>2, <2>1
  <2> QED
    BY <2>1, <2>2 DEF RunEnds, at
<1> QED
  BY <1>2, <1>3, <1>4

\* The run of the body lengthens it.
LEMMA RunInBody ==
  ASSUME NEW p, IsParser(p), NEW s, NEW w, NEW data, Joined(s, w, data), NEW from \in Nat,
         p.at \in 0 .. Len(data), p.cmd \in Seq(Bytes), p.sum = SumOf(p.cmd), InBody(p.cmd, s, from, w + p.at)
  PROVE  LET to == RunTo(p, data)
             cmd == p.cmd \o SubSeq(data, p.at + 1, to)
         IN  /\ cmd \in Seq(Bytes) /\ p.sum + SumOf(SubSeq(data, p.at + 1, to)) = SumOf(cmd)
             /\ InBody(cmd, s, from, w + to)
             /\ to < Len(data) /\ data[to + 1] # "#" => (w + to) - from = CMD_SIZE
<1> DEFINE at == p.at
           to == RunTo(p, data)
           run == SubSeq(data, at + 1, to)
           cmd == p.cmd \o run
           n == w + at
           e == w + to
<1>0. /\ s \in Seq(Bytes) /\ data \in Seq(Bytes) /\ w \in Nat /\ Len(s) = w + Len(data) /\ Len(data) \in Nat
      /\ \A k \in 1 .. Len(data) : s[w + k] = data[k]
  BY DEF Joined
<1>1. /\ to \in at .. Len(data) /\ to \in RunEnds(p, data)
      /\ \A i \in at .. to - 1 : data[i + 1] # "#" /\ ~(Len(p.cmd) + (i - at) >= CMD_SIZE)
  BY <1>0, RunToIs
<1>2. /\ from \in 1 .. n /\ n <= Len(s) /\ s[from] = "$" /\ p.cmd = SubSeq(s, from + 1, n) /\ n - from <= CMD_SIZE
      /\ \A k \in from + 1 .. n : s[k] # "#"
  BY DEF InBody
<1>3. at \in Nat /\ at <= Len(data) /\ CMD_SIZE \in Nat
  BY <1>0, FramingAssumption
<1>4. to < Len(data) /\ data[to + 1] # "#" => Len(p.cmd) + (to - at) >= CMD_SIZE
  BY <1>1 DEF RunEnds
<1>r. run \in Seq(Bytes) /\ run = SubSeq(s, n + 1, e)
  <2> DEFINE a == at + 1
  <2> HIDE DEF at, to
  <2>0. a \in Nat \ {0} /\ to \in Nat /\ to <= Len(data) /\ a <= to + 1
    BY <1>0, <1>1, <1>3
  <2> HIDE DEF a
  <2>1. SubSeq(data, a, to) \in Seq(Bytes) /\ Len(SubSeq(data, a, to)) = to + 1 - a
    BY <1>0, <2>0, PartType
  <2> DEFINE b == w + a
  <2>2. b \in Nat \ {0} /\ e \in Nat /\ e <= Len(s) /\ b <= e + 1 /\ e + 1 - b = to + 1 - a
    BY <1>0, <2>0
  <2> HIDE DEF b, e
  <2>3. SubSeq(s, b, e) \in Seq(Bytes) /\ Len(SubSeq(s, b, e)) = to + 1 - a
    BY <1>0, <2>2, PartType
  <2>4. ASSUME NEW i \in 1 .. to + 1 - a PROVE SubSeq(data, a, to)[i] = SubSeq(s, b, e)[i]
    <3>1. SubSeq(data, a, to)[i] = data[a + i - 1]
      <4>1. \A k \in a .. to : data[k] \in Bytes
        BY <1>0, <2>0, ElementOfSeq
      <4>2. i \in 1 .. to - a + 1 /\ a \in Int /\ to \in Int
        BY <2>0
      <4> QED
        BY <4>1, <4>2, SubSeqProperties
    <3>2. SubSeq(s, b, e)[i] = s[b + i - 1]
      <4>1. \A k \in b .. e : s[k] \in Bytes
        BY <1>0, <2>2, ElementOfSeq
      <4>2. i \in 1 .. e - b + 1 /\ b \in Int /\ e \in Int
        BY <2>0, <2>2
      <4> QED
        BY <4>1, <4>2, SubSeqProperties
    <3>3. a + i - 1 \in 1 .. Len(data) /\ b + i - 1 = w + (a + i - 1)
      BY <1>0, <2>0 DEF b
    <3> QED
      BY <1>0, <3>1, <3>2, <3>3
  <2>5. SubSeq(data, a, to) = SubSeq(s, b, e)
    BY <2>1, <2>3, <2>4, SeqEqual
  <2>6. b = n + 1
    BY <1>0, <1>3 DEF b, a, at
  <2> QED
    BY <2>1, <2>5, <2>6 DEF a, at, to
<1>5. cmd \in Seq(Bytes) /\ p.sum + SumOf(run) = SumOf(cmd)
  <2> HIDE DEF run
  <2> QED
    BY <1>r, SumConcat, ConcatProperties
<1>6. n \in Nat /\ e \in Nat /\ n <= e /\ e <= Len(s)
  BY <1>0, <1>1, <1>3
<1>7. Len(p.cmd) = n - from
  <2> HIDE DEF n
  <2>1. from + 1 \in Nat \ {0} /\ from + 1 <= n + 1
    BY <1>2
  <2> DEFINE a == from + 1
  <2>2. a \in Nat \ {0} /\ a <= n + 1 /\ n + 1 - a = n - from /\ p.cmd = SubSeq(s, a, n)
    BY <1>2, <1>6, <2>1
  <2> HIDE DEF a
  <2> QED
    BY <1>0, <1>2, <1>6, <2>2, PartType
<1>8. cmd = SubSeq(s, from + 1, e)
  <2> DEFINE a == from + 1
  <2> HIDE DEF n, e, run
  <2>1. a \in 1 .. Len(s) + 1 /\ n \in a - 1 .. Len(s) /\ e \in n .. Len(s)
    BY <1>0, <1>2, <1>6
  <2>2. p.cmd = SubSeq(s, a, n)
    BY <1>2
  <2> HIDE DEF a
  <2>3. SubSeq(s, a, n) \o SubSeq(s, n + 1, e) = SubSeq(s, a, e)
    BY <1>0, <2>1, ConcatAdjacentSubSeq
  <2> QED
    BY <1>r, <2>2, <2>3 DEF a
<1>9. e - from <= CMD_SIZE
  <2> HIDE DEF at, to
  <2>1. CASE to = at
    BY <1>2, <2>1
  <2>2. CASE to # at
    <3>1. to - 1 \in at .. to - 1
      BY <1>0, <1>1, <1>3, <2>2
    <3>2. ~((n - from) + ((to - 1) - at) >= CMD_SIZE)
      BY <1>1, <1>7, <3>1
    <3> QED
      BY <1>0, <1>1, <1>2, <1>3, <3>2
  <2> QED
    BY <2>1, <2>2
<1>10. ASSUME NEW k \in from + 1 .. e PROVE s[k] # "#"
  <2> HIDE DEF at, to
  <2>1. CASE k <= n
    <3>1. k \in from + 1 .. n
      BY <1>2, <1>6, <2>1
    <3> QED
      BY <1>2, <3>1
  <2>2. CASE ~(k <= n)
    <3> DEFINE i == k - w - 1
    <3>1. i \in at .. to - 1 /\ i + 1 \in 1 .. Len(data) /\ w + (i + 1) = k
      BY <1>0, <1>1, <1>2, <1>3, <1>6, <2>2
    <3> HIDE DEF i
    <3>2. data[i + 1] # "#" /\ s[w + (i + 1)] = data[i + 1]
      BY <1>0, <1>1, <3>1
    <3> QED
      BY <3>1, <3>2
  <2> QED
    BY <2>1, <2>2
<1>11. InBody(cmd, s, from, e)
  <2> HIDE DEF e, cmd, n
  <2>1. from \in 1 .. e
    BY <1>2, <1>6
  <2> QED
    BY <1>2, <1>6, <1>8, <1>9, <1>10, <2>1 DEF InBody
<1>12. to < Len(data) /\ data[to + 1] # "#" => e - from = CMD_SIZE
  <2> HIDE DEF at, to
  <2> QED
    BY <1>0, <1>1, <1>2, <1>3, <1>4, <1>7, <1>9
<1> QED
  BY <1>5, <1>11, <1>12

\* The parser after a byte outside a body.
AfterByte(p, c, k) == [feed_byte(p, c) EXCEPT !.at = k]

\* feed_byte by its states.
LEMMA FeedByteIs ==
  ASSUME NEW p, IsParser(p), NEW c, NEW k
  PROVE  LET q == AfterByte(p, c, k) IN
         /\ p.state = "IDLE" /\ c = "$" => q = Parser("BODY", <<>>, 0, p.hi, p.out, k)
         /\ p.state = "IDLE" /\ c # "$" => q = Parser("IDLE", p.cmd, p.sum, p.hi, p.out, k)
         /\ p.state = "CSUM1" => q = Parser("CSUM2", p.cmd, p.sum, c, p.out, k)
         /\ p.state = "CSUM2" =>
              q = Parser("IDLE", p.cmd, p.sum, p.hi, Append(p.out, Checked(p.cmd, p.sum, p.hi, c)), k)
<1>1. PICK st, b, d, hi, out, x : p = Parser(st, b, d, hi, out, x)
  BY DEF IsParser
<1>2. p.state = st /\ p.cmd = b /\ p.sum = d /\ p.hi = hi /\ p.out = out
  BY <1>1, ParserFields
<1> DEFINE none == <<>>
           f == feed_byte(p, c)
           q == [f EXCEPT !.at = k]
           body == "BODY"
           idle == "IDLE"
           csum == "CSUM2"
           o == Append(out, Checked(b, d, hi, c))
<1>a. q = AfterByte(p, c, k)
  BY DEF AfterByte
<1>3. CASE p.state = "IDLE" /\ c = "$"
  <2>1. f = [p EXCEPT !.cmd = none, !.sum = 0, !.state = body]
    BY <1>3 DEF feed_byte
  <2> HIDE DEF none, f, body
  <2>2. [Parser(st, b, d, hi, out, x) EXCEPT !.cmd = none] = Parser(st, none, d, hi, out, x)
    BY DEF Parser
  <2>3. [Parser(st, none, d, hi, out, x) EXCEPT !.sum = 0] = Parser(st, none, 0, hi, out, x)
    BY DEF Parser
  <2>4. [Parser(st, none, 0, hi, out, x) EXCEPT !.state = body] = Parser(body, none, 0, hi, out, x)
    BY DEF Parser
  <2>5. [Parser(body, none, 0, hi, out, x) EXCEPT !.at = k] = Parser(body, none, 0, hi, out, k)
    BY DEF Parser
  <2>6. q = Parser(body, none, 0, hi, out, k)
    BY <1>1, <2>1, <2>2, <2>3, <2>4, <2>5
  <2> HIDE DEF q
  <2> QED
    BY <1>2, <1>3, <1>a, <2>6 DEF none, body
<1>4. CASE p.state = "IDLE" /\ c # "$"
  <2>1. f = p
    BY <1>4 DEF feed_byte
  <2> HIDE DEF f
  <2>2. [Parser(st, b, d, hi, out, x) EXCEPT !.at = k] = Parser(st, b, d, hi, out, k)
    BY DEF Parser
  <2>3. q = Parser(st, b, d, hi, out, k)
    BY <1>1, <2>1, <2>2
  <2> HIDE DEF q
  <2> QED
    BY <1>2, <1>4, <1>a, <2>3
<1>5. CASE p.state = "CSUM1"
  <2>1. f = [p EXCEPT !.hi = c, !.state = csum]
    BY <1>5 DEF feed_byte
  <2> HIDE DEF f, csum
  <2>2. [Parser(st, b, d, hi, out, x) EXCEPT !.hi = c] = Parser(st, b, d, c, out, x)
    BY DEF Parser
  <2>3. [Parser(st, b, d, c, out, x) EXCEPT !.state = csum] = Parser(csum, b, d, c, out, x)
    BY DEF Parser
  <2>4. [Parser(csum, b, d, c, out, x) EXCEPT !.at = k] = Parser(csum, b, d, c, out, k)
    BY DEF Parser
  <2>5. q = Parser(csum, b, d, c, out, k)
    BY <1>1, <2>1, <2>2, <2>3, <2>4
  <2> HIDE DEF q
  <2> QED
    BY <1>2, <1>5, <1>a, <2>5 DEF csum
<1>6. CASE p.state = "CSUM2"
  <2>1. f = [p EXCEPT !.state = idle, !.out = Append(p.out, Checked(p.cmd, p.sum, p.hi, c))]
    BY <1>6 DEF feed_byte
  <2>2. Append(p.out, Checked(p.cmd, p.sum, p.hi, c)) = o
    BY <1>2
  <2> HIDE DEF f, idle, o
  <2>3. [Parser(st, b, d, hi, out, x) EXCEPT !.state = idle] = Parser(idle, b, d, hi, out, x)
    BY DEF Parser
  <2>4. [Parser(idle, b, d, hi, out, x) EXCEPT !.out = o] = Parser(idle, b, d, hi, o, x)
    BY DEF Parser
  <2>5. [Parser(idle, b, d, hi, o, x) EXCEPT !.at = k] = Parser(idle, b, d, hi, o, k)
    BY DEF Parser
  <2>6. q = Parser(idle, b, d, hi, o, k)
    BY <1>1, <2>1, <2>2, <2>3, <2>4, <2>5
  <2>7. q = Parser(idle, p.cmd, p.sum, p.hi, Append(p.out, Checked(p.cmd, p.sum, p.hi, c)), k)
    BY <1>2, <2>2, <2>6
  <2> HIDE DEF q
  <2> QED
    BY <1>6, <1>a, <2>7 DEF idle
<1> QED
  BY <1>3, <1>4, <1>5, <1>6

\* A round of the loop keeps the parser in step with the stream, and takes
\* a byte or leaves a body.
LEMMA RoundKeeps ==
  ASSUME NEW s, NEW w, NEW data, Joined(s, w, data), NEW p, Parsing(p, s, w)
  PROVE  LET q == feed_round(p, data) IN
         /\ Parsing(q, s, w)
         /\ p.at # Len(data) => q.at = Len(data) \/ Cost(q) >= Cost(p) + 1
<1> DEFINE q == feed_round(p, data)
           n == w + p.at
<1>0. /\ s \in Seq(Bytes) /\ data \in Seq(Bytes) /\ w \in Nat /\ Len(s) = w + Len(data) /\ Len(data) \in Nat
      /\ \A k \in 1 .. Len(data) : s[w + k] = data[k]
  BY DEF Joined
<1>1. /\ IsParser(p) /\ p.state \in States /\ p.cmd \in Seq(Bytes) /\ p.sum = SumOf(p.cmd)
      /\ p.out \in Seq(EventRecs) /\ p.at \in 0 .. Len(s) - w
  BY DEF Parsing
<1>2. PICK from \in Nat : Where(p, s, n, from) /\ Told(p.out, s, from)
  BY DEF Parsing
<1>3. p.at \in 0 .. Len(data) /\ n \in Nat
  BY <1>0, <1>1
<1>4. CASE p.at = Len(data)
  <2>1. q = p
    BY <1>4 DEF feed_round
  <2> QED
    BY <1>4, <2>1
<1>5. CASE p.at # Len(data) /\ p.state # "BODY"
  <2> DEFINE k == p.at + 1
             c == data[k]
  <2>1. q = AfterByte(p, c, k)
    BY <1>5 DEF feed_round, AfterByte
  <2>2. k \in 1 .. Len(data) /\ k \in 0 .. Len(s) - w /\ w + k = n + 1 /\ n + 1 <= Len(s)
    BY <1>0, <1>3, <1>5
  <2>3. s[n + 1] = c
    BY <1>0, <2>2
  <2>4. Cost(p) = 2 * p.at + 1
    BY <1>5 DEF Cost
  <2> HIDE DEF q, n, c, k
  <2>5. CASE p.state = "IDLE" /\ c = "$"
    <3>1. q = Parser("BODY", <<>>, 0, p.hi, p.out, k)
      BY <1>1, <2>1, <2>5, FeedByteIs
    <3>2. IsParser(q) /\ q.state = "BODY" /\ q.cmd = <<>> /\ q.sum = 0 /\ q.hi = p.hi /\ q.out = p.out /\ q.at = k
      BY <3>1, ParserFields
    <3>3. from = n + 1
      BY <1>2, <2>5 DEF Where
    <3>4. InBody(q.cmd, s, n + 1, n + 1)
      <4>1. SubSeq(s, (n + 1) + 1, n + 1) = <<>>
        BY <1>3, SubSeqEmpty
      <4>2. n + 1 \in 1 .. n + 1 /\ (n + 1) - (n + 1) <= CMD_SIZE /\ \A i \in (n + 1) + 1 .. n + 1 : s[i] # "#"
        BY <1>3, FramingAssumption
      <4> QED
        BY <2>2, <2>3, <2>5, <3>2, <4>1, <4>2 DEF InBody
    <3>5. Where(q, s, w + q.at, n + 1)
      <4>1. n + 1 \in 1 .. (n + 1) + 1
        BY <1>3
      <4> QED
        BY <2>2, <3>2, <3>4, <4>1 DEF Where
    <3>6. Parsing(q, s, w)
      <4>1. n + 1 \in Nat /\ q.state \in States /\ q.cmd \in Seq(Bytes) /\ q.sum = SumOf(q.cmd)
        BY <1>3, <3>2, SumEmpty DEF States
      <4> QED
        BY <1>1, <1>2, <2>2, <3>2, <3>3, <3>5, <4>1 DEF Parsing
    <3>7. Cost(q) = 2 * k + 0
      BY <3>2 DEF Cost
    <3> QED
      BY <1>3, <2>2, <2>4, <3>6, <3>7 DEF k, q
  <2>6. CASE p.state = "IDLE" /\ c # "$"
    <3>1. q = Parser("IDLE", p.cmd, p.sum, p.hi, p.out, k)
      BY <1>1, <2>1, <2>6, FeedByteIs
    <3>2. IsParser(q) /\ q.state = "IDLE" /\ q.cmd = p.cmd /\ q.sum = p.sum /\ q.out = p.out /\ q.at = k
      BY <3>1, ParserFields
    <3>3. from = n + 1
      BY <1>2, <2>6 DEF Where
    <3>4. Told(q.out, s, n + 2)
      BY <1>0, <1>2, <1>3, <2>2, <2>3, <2>6, <3>2, <3>3, SkipTold
    <3>5. Where(q, s, w + q.at, n + 2)
      <4>1. n + 2 \in 1 .. (n + 1) + 1 /\ n + 2 = (n + 1) + 1
        BY <1>3
      <4> QED
        BY <2>2, <3>2, <4>1 DEF Where
    <3>6. Parsing(q, s, w)
      <4>1. n + 2 \in Nat /\ q.state \in States
        BY <1>3, <3>2 DEF States
      <4> QED
        BY <1>1, <2>2, <3>2, <3>4, <3>5, <4>1 DEF Parsing
    <3>7. Cost(q) = 2 * k + 1
      BY <3>2 DEF Cost
    <3> QED
      BY <1>3, <2>2, <2>4, <3>6, <3>7 DEF k, q
  <2>7. CASE p.state = "CSUM1"
    <3>1. q = Parser("CSUM2", p.cmd, p.sum, c, p.out, k)
      BY <1>1, <2>1, <2>7, FeedByteIs
    <3>2. IsParser(q) /\ q.state = "CSUM2" /\ q.cmd = p.cmd /\ q.sum = p.sum /\ q.hi = c /\ q.out = p.out /\ q.at = k
      BY <3>1, ParserFields
    <3>3. InBody(p.cmd, s, from, n - 1) /\ s[n] = "#" /\ from \in 1 .. n + 1
      BY <1>2, <2>7 DEF Where
    <3>4. Where(q, s, w + q.at, from)
      <4>1. from \in 1 .. (n + 1) + 1 /\ (n + 1) - 2 = n - 1 /\ (n + 1) - 1 = n
        BY <1>3, <3>3
      <4> QED
        BY <2>2, <2>3, <3>2, <3>3, <4>1 DEF Where
    <3>5. Parsing(q, s, w)
      <4>1. q.state \in States
        BY <3>2 DEF States
      <4> QED
        BY <1>1, <1>2, <2>2, <3>2, <3>4, <4>1 DEF Parsing
    <3>6. Cost(q) = 2 * k + 1
      BY <3>2 DEF Cost
    <3> QED
      BY <1>3, <2>2, <2>4, <3>5, <3>6 DEF k, q
  <2>8. CASE p.state = "CSUM2"
    <3>1. q = Parser("IDLE", p.cmd, p.sum, p.hi, Append(p.out, Checked(p.cmd, p.sum, p.hi, c)), k)
      BY <1>1, <2>1, <2>8, FeedByteIs
    <3>2. IsParser(q) /\ q.state = "IDLE" /\ q.cmd = p.cmd /\ q.sum = p.sum /\ q.at = k
          /\ q.out = Append(p.out, Checked(p.cmd, p.sum, p.hi, c))
      <4> DEFINE o == Append(p.out, Checked(p.cmd, p.sum, p.hi, c))
      <4> HIDE DEF o
      <4>1. q = Parser("IDLE", p.cmd, p.sum, p.hi, o, k)
        BY <3>1 DEF o
      <4>2. IsParser(q) /\ q.state = "IDLE" /\ q.cmd = p.cmd /\ q.sum = p.sum /\ q.at = k /\ q.out = o
        BY <4>1, ParserFields
      <4> QED
        BY <4>2 DEF o
    <3>3. InBody(p.cmd, s, from, n - 2) /\ s[n - 1] = "#" /\ s[n] = p.hi
      BY <1>2, <2>8 DEF Where
    <3>4. q.out = Append(p.out, Checked(p.cmd, SumOf(p.cmd), s[n], s[n + 1]))
      BY <1>1, <2>3, <3>2, <3>3
    <3>5. Told(q.out, s, n + 2)
      BY <1>0, <1>1, <1>2, <1>3, <2>2, <3>3, <3>4, PacketTold
    <3>6. q.out \in Seq(EventRecs)
      BY <1>1, <3>2, CheckedType, AppendProperties
    <3>7. Where(q, s, w + q.at, n + 2)
      <4>1. n + 2 \in 1 .. (n + 1) + 1 /\ n + 2 = (n + 1) + 1
        BY <1>3
      <4> QED
        BY <2>2, <3>2, <4>1 DEF Where
    <3>8. Parsing(q, s, w)
      <4>1. n + 2 \in Nat /\ q.state \in States
        BY <1>3, <3>2 DEF States
      <4> QED
        BY <1>1, <2>2, <3>2, <3>5, <3>6, <3>7, <4>1 DEF Parsing
    <3>9. Cost(q) = 2 * k + 1
      BY <3>2 DEF Cost
    <3> QED
      BY <1>3, <2>2, <2>4, <3>8, <3>9 DEF k, q
  <2> QED
    BY <1>1, <1>5, <2>5, <2>6, <2>7, <2>8 DEF States, q
<1>6. CASE p.at # Len(data) /\ p.state = "BODY"
  <2> DEFINE to == RunTo(p, data)
             run == SubSeq(data, p.at + 1, to)
             cmd == p.cmd \o run
             sum == p.sum + SumOf(run)
             st == IF to < Len(data) /\ data[to + 1] # "#" THEN "IDLE" ELSE "BODY"
             r == feed_body(p, data)
  <2>1. r = Parser(st, cmd, sum, p.hi, p.out, to)
    BY <1>1, FeedBodyIs
  <2>2. q = IF r.state = "BODY" /\ r.at < Len(data) THEN [r EXCEPT !.state = "CSUM1", !.at = r.at + 1] ELSE r
    BY <1>6 DEF feed_round
  <2>3. to \in p.at .. Len(data)
    BY <1>0, <1>3, RunToIs
  <2>4. InBody(p.cmd, s, from, n)
    BY <1>2, <1>6 DEF Where
  <2>5. /\ cmd \in Seq(Bytes) /\ sum = SumOf(cmd) /\ InBody(cmd, s, from, w + to)
        /\ to < Len(data) /\ data[to + 1] # "#" => (w + to) - from = CMD_SIZE
    BY <1>1, <1>3, <2>4, RunInBody
  <2>6. Cost(p) = 2 * p.at + 0
    BY <1>6 DEF Cost
  <2>7. to \in Nat /\ w + to \in Nat /\ to \in 0 .. Len(s) - w /\ w + to <= Len(s) /\ p.at <= to /\ p.at \in Nat
    BY <1>0, <1>3, <2>3
  <2>8. from \in 1 .. w + to
    BY <2>5 DEF InBody
  <2> HIDE DEF q, n, to, cmd, sum, r
  <2>9. CASE to = Len(data)
    <3>1. st = "BODY"
      BY <2>7, <2>9
    <3>2. r = Parser("BODY", cmd, sum, p.hi, p.out, to)
      BY <2>1, <3>1
    <3>3. IsParser(r) /\ r.state = "BODY" /\ r.cmd = cmd /\ r.sum = sum /\ r.out = p.out /\ r.at = to
      BY <3>2, ParserFields
    <3>4. q = r
      BY <2>2, <2>7, <2>9, <3>3
    <3>5. Where(q, s, w + q.at, from)
      <4>1. from \in 1 .. (w + to) + 1
        BY <2>7, <2>8
      <4> QED
        BY <2>5, <3>3, <3>4, <4>1 DEF Where
    <3>6. q.state \in States
      BY <3>3, <3>4 DEF States
    <3>7. Parsing(q, s, w)
      BY <1>1, <1>2, <2>5, <2>7, <3>3, <3>4, <3>5, <3>6 DEF Parsing
    <3> QED
      BY <2>9, <3>3, <3>4, <3>7 DEF q
  <2>10. CASE to < Len(data) /\ data[to + 1] = "#"
    <3>1. r = Parser("BODY", cmd, sum, p.hi, p.out, to)
      BY <2>1, <2>10
    <3>2. r.state = "BODY" /\ r.at = to
      BY <3>1, ParserFields
    <3> DEFINE cs == "CSUM1"
               k == to + 1
    <3>3. q = [r EXCEPT !.state = cs, !.at = k]
      BY <2>2, <2>10, <3>2
    <3>4. q = Parser("CSUM1", cmd, sum, p.hi, p.out, to + 1)
      <4> HIDE DEF cs, k
      <4> DEFINE body == "BODY"
                 hi == p.hi
                 out == p.out
      <4>0. r = Parser(body, cmd, sum, hi, out, to)
        BY <3>1
      <4> HIDE DEF body, hi, out
      <4>1. [Parser(body, cmd, sum, hi, out, to) EXCEPT !.state = cs] = Parser(cs, cmd, sum, hi, out, to)
        BY DEF Parser
      <4>2. [Parser(cs, cmd, sum, hi, out, to) EXCEPT !.at = k] = Parser(cs, cmd, sum, hi, out, k)
        BY DEF Parser
      <4>3. q = Parser(cs, cmd, sum, hi, out, k)
        BY <3>3, <4>0, <4>1, <4>2
      <4> QED
        BY <4>3 DEF cs, k, hi, out
    <3>5. IsParser(q) /\ q.state = "CSUM1" /\ q.cmd = cmd /\ q.sum = sum /\ q.out = p.out /\ q.at = to + 1
      BY <3>4, ParserFields
    <3>6. s[w + (to + 1)] = "#"
      <4>1. to + 1 \in 1 .. Len(data)
        BY <1>0, <2>7, <2>10
      <4> QED
        BY <1>0, <2>10, <4>1
    <3>7. Where(q, s, w + q.at, from)
      <4>1. from \in 1 .. (w + (to + 1)) + 1 /\ (w + (to + 1)) - 1 = w + to
        BY <1>0, <2>7, <2>8
      <4> QED
        BY <2>5, <3>5, <3>6, <4>1 DEF Where
    <3>8. q.state \in States /\ q.at \in 0 .. Len(s) - w
      BY <1>0, <2>7, <2>10, <3>5 DEF States
    <3>9. Parsing(q, s, w)
      BY <1>1, <1>2, <2>5, <3>5, <3>7, <3>8 DEF Parsing
    <3>10. Cost(q) = 2 * (to + 1) + 1
      BY <3>5 DEF Cost
    <3> QED
      BY <2>6, <2>7, <3>9, <3>10 DEF q
  <2>11. CASE to < Len(data) /\ data[to + 1] # "#"
    <3>1. r = Parser("IDLE", cmd, sum, p.hi, p.out, to)
      BY <2>1, <2>11
    <3>2. IsParser(r) /\ r.state = "IDLE" /\ r.cmd = cmd /\ r.sum = sum /\ r.out = p.out /\ r.at = to
      BY <3>1, ParserFields
    <3>3. q = r
      BY <2>2, <3>2
    <3> DEFINE e == w + to
    <3>4. e \in Nat /\ e + 1 <= Len(s) /\ s[e + 1] # "#" /\ e - from = CMD_SIZE /\ InBody(cmd, s, from, e)
      <4>1. to + 1 \in 1 .. Len(data) /\ w + (to + 1) = e + 1
        BY <1>0, <2>7, <2>11
      <4> QED
        BY <1>0, <2>5, <2>7, <2>11, <4>1
    <3> HIDE DEF e
    <3>5. Told(p.out, s, e + 1)
      BY <1>0, <1>2, <3>4, DropTold
    <3>6. Where(q, s, w + q.at, e + 1)
      <4>1. e + 1 \in 1 .. e + 1
        BY <3>4
      <4> QED
        BY <3>2, <3>3, <4>1 DEF Where, e
    <3>7. q.state \in States /\ e + 1 \in Nat
      BY <3>2, <3>3, <3>4 DEF States
    <3>8. Parsing(q, s, w)
      BY <1>1, <2>5, <2>7, <3>2, <3>3, <3>5, <3>6, <3>7 DEF Parsing
    <3>9. Cost(q) = 2 * to + 1
      BY <3>2, <3>3 DEF Cost
    <3> QED
      BY <2>6, <2>7, <3>8, <3>9 DEF q
  <2> QED
    BY <2>3, <2>9, <2>10, <2>11, <1>0, <2>7
<1> QED
  BY <1>4, <1>5, <1>6

\* The equation of rsp_feed for k rounds.
IsFed(g, p, data, k) == g = [i \in 0 .. k |-> IF i = 0 THEN p ELSE feed_round(g[i - 1], data)]

\* The rounds of rsp_feed.
LEMMA FedStep ==
  ASSUME NEW g, NEW p, NEW data, NEW k \in Nat, IsFed(g, p, data, k)
  PROVE  g[0] = p /\ \A i \in 1 .. k : g[i] = feed_round(g[i - 1], data)
<1>1. g[0] = p
  BY DEF IsFed
<1>2. ASSUME NEW i \in 1 .. k PROVE g[i] = feed_round(g[i - 1], data)
  <2>1. i \in 0 .. k /\ i # 0
    OBVIOUS
  <2> QED
    BY <2>1 DEF IsFed
<1> QED
  BY <1>1, <1>2

\* The recursive function of rsp_feed exists.
LEMMA FedIs ==
  ASSUME NEW p, NEW data \in Seq(Bytes)
  PROVE  \E g : IsFed(g, p, data, 2 * Len(data)) /\ rsp_feed(p, data) = g[2 * Len(data)]
<1> DEFINE N == 2 * Len(data)
           T == {k \in 0 .. N : \E g : IsFed(g, p, data, k)}
<1>0. N \in Nat
  OBVIOUS
<1>e. rsp_feed(p, data) = (CHOOSE g : IsFed(g, p, data, N))[N]
  BY DEF rsp_feed, IsFed
<1> HIDE DEF N
<1>1. 0 \in T
  <2> DEFINE g == [i \in 0 .. 0 |-> p]
  <2>1. IsFed(g, p, data, 0)
    BY DEF IsFed
  <2> QED
    BY <1>0, <2>1
<1>2. ASSUME NEW k \in 1 .. N, k - 1 \in T PROVE k \in T
  <2>1. PICK g : IsFed(g, p, data, k - 1)
    BY <1>2
  <2> DEFINE h == [i \in 0 .. k |-> IF i <= k - 1 THEN g[i] ELSE feed_round(g[k - 1], data)]
  <2>0. g[0] = p /\ \A i \in 1 .. k - 1 : g[i] = feed_round(g[i - 1], data)
    BY <1>0, <2>1, FedStep
  <2>2. ASSUME NEW i \in 0 .. k PROVE h[i] = IF i = 0 THEN p ELSE feed_round(h[i - 1], data)
    <3>1. CASE i = 0
      BY <1>0, <2>0, <3>1
    <3>2. CASE i # 0 /\ i <= k - 1
      <4>1. i \in 1 .. k - 1 /\ i - 1 \in 0 .. k /\ i - 1 <= k - 1
        BY <1>0, <3>2
      <4>2. h[i] = g[i] /\ h[i - 1] = g[i - 1]
        BY <4>1, <3>2
      <4> QED
        BY <4>1, <4>2, <2>0, <3>2
    <3>3. CASE i = k
      <4>1. h[i] = feed_round(g[k - 1], data) /\ h[i - 1] = g[k - 1] /\ i # 0
        BY <1>0, <3>3
      <4> QED
        BY <4>1, <3>3
    <3> QED
      BY <1>0, <3>1, <3>2, <3>3
  <2>3. h = [i \in 0 .. k |-> h[i]]
    OBVIOUS
  <2> HIDE DEF h
  <2>4. IsFed(h, p, data, k)
    BY <2>2, <2>3 DEF IsFed
  <2> QED
    BY <1>0, <2>4
<1>3. N \in T
  <2> HIDE DEF T
  <2>1. \A k \in 0 .. N : k \in T
    BY <1>0, <1>1, <1>2, UpToInduction
  <2> QED
    BY <1>0, <2>1
<1>4. \E g : IsFed(g, p, data, N)
  BY <1>3
<1> DEFINE f == CHOOSE g : IsFed(g, p, data, N)
<1>5. IsFed(f, p, data, N) /\ rsp_feed(p, data) = f[N]
  BY <1>4, <1>e
<1> QED
  BY <1>5 DEF N

\* rsp_feed takes the whole piece and stays in step with the stream.
LEMMA FeedKeeps ==
  ASSUME NEW s, NEW w, NEW data, Joined(s, w, data), NEW p, Parsing(p, s, w), p.at = 0
  PROVE  Parsing(rsp_feed(p, data), s, w) /\ rsp_feed(p, data).at = Len(data)
<1> DEFINE L == Len(data)
           N == 2 * L
<1>0. data \in Seq(Bytes) /\ L \in Nat /\ N \in Nat /\ w \in Nat /\ Len(s) = w + L
  BY DEF Joined
<1>1. PICK f : IsFed(f, p, data, N) /\ rsp_feed(p, data) = f[N]
  BY <1>0, FedIs
<1>2. f[0] = p /\ \A i \in 1 .. N : f[i] = feed_round(f[i - 1], data)
  <2> HIDE DEF N
  <2> QED
    BY <1>0, <1>1, FedStep
<1> DEFINE T == {i \in 0 .. N : Parsing(f[i], s, w) /\ (f[i].at = L \/ Cost(f[i]) >= i)}
<1>3. 0 \in T
  <2>1. Cost(p) >= 0
    BY DEF Cost
  <2> QED
    BY <1>0, <1>2, <2>1
<1>4. ASSUME NEW i \in 1 .. N, i - 1 \in T PROVE i \in T
  <2> DEFINE a == f[i - 1]
             b == f[i]
  <2>1. Parsing(a, s, w) /\ (a.at = L \/ Cost(a) >= i - 1) /\ b = feed_round(a, data)
    BY <1>2, <1>4
  <2> HIDE DEF a, b
  <2>2. Parsing(b, s, w) /\ (a.at # L => b.at = L \/ Cost(b) >= Cost(a) + 1)
    BY <2>1, RoundKeeps
  <2>3. a.at = L => b = a
    BY <2>1 DEF feed_round
  <2>4. Cost(a) \in Int /\ Cost(b) \in Int
    <3>1. a.at \in 0 .. Len(s) - w /\ b.at \in 0 .. Len(s) - w
      BY <2>1, <2>2 DEF Parsing
    <3> QED
      BY <1>0, <3>1 DEF Cost
  <2>5. b.at = L \/ Cost(b) >= i
    BY <1>0, <2>1, <2>2, <2>3, <2>4
  <2> QED
    BY <1>0, <2>2, <2>5 DEF b
<1>5. N \in T
  <2> HIDE DEF T, N
  <2>1. \A i \in 0 .. N : i \in T
    BY <1>0, <1>3, <1>4, UpToInduction
  <2> QED
    BY <1>0, <2>1
<1> DEFINE q == f[N]
<1>6. Parsing(q, s, w) /\ (q.at = L \/ Cost(q) >= 2 * L)
  BY <1>5
<1> HIDE DEF q, N
<1>7. q.at \in 0 .. L
  BY <1>0, <1>6 DEF Parsing
<1>8. q.at = L
  BY <1>0, <1>6, <1>7 DEF Cost
<1> QED
  BY <1>1, <1>6, <1>8 DEF q

-----------------------------------------------------------------------------
(* The invariant.                                                          *)

\* The parser between two pieces.
Between == Parser(g_state, g_cmd, g_sum, g_csum_hi, events, 0)

FramingInv == wire \in Seq(Bytes) /\ Parsing(Between, wire, Len(wire))

\* Nothing came yet.
LEMMA FramingInvInit == FramingInit => FramingInv
<1> SUFFICES ASSUME FramingInit PROVE FramingInv
  OBVIOUS
<1> DEFINE p == Between
           e == <<>>
<1>0. g_state = "IDLE" /\ g_cmd = e /\ g_sum = 0 /\ events = e /\ wire = e
  BY DEF FramingInit
<1>1. e \in Seq(Bytes) /\ e \in Seq(EventRecs) /\ Len(e) = 0 /\ SumOf(e) = 0
  BY SumEmpty
<1>2. IsParser(p) /\ p.state = "IDLE" /\ p.cmd = e /\ p.sum = 0 /\ p.out = e /\ p.at = 0
  BY <1>0, ParserFields DEF Between
<1> HIDE DEF p, e
<1>3. Where(p, e, 0 + p.at, 1)
  BY <1>2 DEF Where
<1>4. Told(e, e, 1)
  <2> SUFFICES ASSUME NEW t, Extends(t, e) PROVE Meaning(t)[1] = e \o Meaning(t)[1]
    BY DEF Told
  <2>1. t \in Seq(Bytes) /\ 1 \in 1 .. Len(t) + 1
    BY DEF Extends
  <2>2. Meaning(t)[1] \in Seq(EventRecs)
    BY <2>1, MeaningType
  <2> QED
    BY <2>2, ConcatEmptySeq DEF e
<1>5. p.state \in States /\ p.at \in 0 .. 0 - 0 /\ 1 \in Nat
  BY <1>2 DEF States
<1>6. Parsing(p, e, 0)
  BY <1>1, <1>2, <1>3, <1>4, <1>5 DEF Parsing
<1> QED
  BY <1>0, <1>1, <1>6 DEF FramingInv, p

\* The body in a longer stream.
LEMMA InBodyExtends ==
  ASSUME NEW s \in Seq(Bytes), NEW t, Extends(t, s), NEW cmd, NEW i, NEW e \in Int, InBody(cmd, s, i, e)
  PROVE  InBody(cmd, t, i, e)
<1>1. i \in 1 .. e /\ e \in Nat /\ e <= Len(s) /\ s[i] = "$" /\ cmd = SubSeq(s, i + 1, e) /\ e - i <= CMD_SIZE
      /\ \A k \in i + 1 .. e : s[k] # "#"
  BY DEF InBody
<1>2. t \in Seq(Bytes) /\ Len(s) \in Nat /\ Len(t) \in Nat /\ Len(s) <= Len(t) /\ \A k \in 1 .. Len(s) : t[k] = s[k]
  BY DEF Extends
<1>3. e <= Len(t) /\ t[i] = "$"
  BY <1>1, <1>2
<1>4. SubSeq(t, i + 1, e) = cmd
  <2> DEFINE a == i + 1
  <2>1. a \in Nat \ {0} /\ cmd = SubSeq(s, a, e)
    BY <1>1
  <2> HIDE DEF a
  <2>2. SubSeq(t, a, e) = cmd
    BY <1>1, <2>1, ExtendsPart
  <2> QED
    BY <2>2 DEF a
<1>5. \A k \in i + 1 .. e : t[k] # "#"
  BY <1>1, <1>2
<1> QED
  BY <1>1, <1>3, <1>4, <1>5 DEF InBody

\* The next piece makes the stream longer.
LEMMA ParsingExtends ==
  ASSUME NEW s \in Seq(Bytes), NEW t, Extends(t, s), NEW p, Parsing(p, s, Len(s))
  PROVE  Parsing(p, t, Len(s))
<1> DEFINE w == Len(s)
<1>0. w \in Nat /\ Len(t) \in Nat /\ w <= Len(t) /\ t \in Seq(Bytes)
  BY DEF Extends
<1>1. p.at = 0 /\ p.at \in 0 .. Len(t) - w
  <2>1. p.at \in 0 .. w - w
    BY DEF Parsing
  <2> QED
    BY <1>0, <2>1
<1>2. PICK from \in Nat : Where(p, s, w + p.at, from) /\ Told(p.out, s, from)
  BY DEF Parsing
<1>3. Told(p.out, t, from)
  <2> SUFFICES ASSUME NEW u, Extends(u, t) PROVE Meaning(u)[1] = p.out \o Meaning(u)[from]
    BY DEF Told
  <2>1. Extends(u, s)
    BY <1>0 DEF Extends
  <2> QED
    BY <1>2, <2>1 DEF Told
<1> DEFINE n == w + p.at
<1>4. n \in Nat /\ n = w
  BY <1>0, <1>1
<1>5. Where(p, t, n, from)
  <2> HIDE DEF n
  <2>1. Where(p, s, n, from)
    BY <1>2 DEF n
  <2>2. from \in 1 .. n + 1 /\ (p.state = "IDLE" => from = n + 1)
    BY <2>1 DEF Where
  <2>3. p.state = "BODY" => InBody(p.cmd, t, from, n)
    BY <1>4, <2>1, InBodyExtends DEF Where
  <2>4. ASSUME p.state = "CSUM1" PROVE InBody(p.cmd, t, from, n - 1) /\ t[n] = "#"
    <3>1. InBody(p.cmd, s, from, n - 1) /\ s[n] = "#" /\ n - 1 \in Int
      BY <1>4, <2>1, <2>4 DEF Where
    <3>2. InBody(p.cmd, t, from, n - 1)
      <4> DEFINE e == n - 1
      <4>1. InBody(p.cmd, s, from, e) /\ e \in Int
        BY <3>1
      <4> HIDE DEF e
      <4>2. InBody(p.cmd, t, from, e)
        BY <4>1, InBodyExtends
      <4> QED
        BY <4>2 DEF e
    <3>3. n \in 1 .. Len(s)
      BY <1>4, <3>1 DEF InBody
    <3> QED
      BY <3>1, <3>2, <3>3 DEF Extends
  <2>5. ASSUME p.state = "CSUM2" PROVE InBody(p.cmd, t, from, n - 2) /\ t[n - 1] = "#" /\ t[n] = p.hi
    <3>1. InBody(p.cmd, s, from, n - 2) /\ s[n - 1] = "#" /\ s[n] = p.hi /\ n - 2 \in Int
      BY <1>4, <2>1, <2>5 DEF Where
    <3>2. InBody(p.cmd, t, from, n - 2)
      <4> DEFINE e == n - 2
      <4>1. InBody(p.cmd, s, from, e) /\ e \in Int
        BY <3>1
      <4> HIDE DEF e
      <4>2. InBody(p.cmd, t, from, e)
        BY <4>1, InBodyExtends
      <4> QED
        BY <4>2 DEF e
    <3>3. n \in 1 .. Len(s) /\ n - 1 \in 1 .. Len(s)
      BY <1>4, <3>1 DEF InBody
    <3> QED
      BY <3>1, <3>2, <3>3 DEF Extends
  <2> QED
    BY <2>2, <2>3, <2>4, <2>5 DEF Where
<1> QED
  BY <1>1, <1>2, <1>3, <1>5 DEF Parsing

\* A piece keeps the parser in step with the stream.
LEMMA FramingInvNext == FramingInv /\ [FramingNext]_framing_vars => FramingInv'
<1> SUFFICES ASSUME FramingInv, [FramingNext]_framing_vars PROVE FramingInv'
  OBVIOUS
<1>1. CASE UNCHANGED framing_vars
  <2>1. Between' = Between
    BY <1>1 DEF Between, framing_vars
  <2> QED
    BY <1>1, <2>1 DEF FramingInv, framing_vars
<1>2. CASE FramingNext
  <2>1. PICK n \in 1 .. MaxFeed : \E data \in [1 .. n -> Bytes] : Feed(data)
    BY <1>2 DEF FramingNext
  <2>2. PICK data \in [1 .. n -> Bytes] : Feed(data)
    BY <2>1
  <2>3. data \in Seq(Bytes)
    BY <2>1, FramingAssumption
  <2> DEFINE s == wire \o data
             w == Len(wire)
             p == Between
             q == rsp_feed(p, data)
  <2>4. wire \in Seq(Bytes) /\ Parsing(p, wire, w)
    BY DEF FramingInv
  <2>5. Joined(s, w, data) /\ Extends(s, wire)
    <3>1. s \in Seq(Bytes) /\ Len(s) = w + Len(data) /\ w \in Nat /\ Len(data) \in Nat
      BY <2>3, <2>4, ConcatProperties
    <3>2. \A k \in 1 .. w + Len(data) : s[k] = IF k <= w THEN wire[k] ELSE data[k - w]
      BY <2>3, <2>4, ConcatProperties
    <3> HIDE DEF s, w
    <3>3. ASSUME NEW k \in 1 .. Len(data) PROVE s[w + k] = data[k]
      <4>1. w + k \in 1 .. w + Len(data) /\ ~(w + k <= w) /\ (w + k) - w = k
        BY <3>1
      <4> QED
        BY <3>2, <4>1
    <3>4. ASSUME NEW k \in 1 .. w PROVE s[k] = wire[k]
      <4>1. k \in 1 .. w + Len(data) /\ k <= w
        BY <3>1
      <4> QED
        BY <3>2, <4>1
    <3>5. w <= Len(s)
      BY <3>1
    <3>6. w = Len(wire)
      BY DEF w
    <3> QED
      BY <2>3, <3>1, <3>3, <3>4, <3>5, <3>6 DEF Joined, Extends
  <2>6. Parsing(p, s, w)
    BY <2>4, <2>5, ParsingExtends
  <2>7. p.at = 0
    BY ParserFields DEF Between
  <2>8. /\ g_state' = q.state /\ g_cmd' = q.cmd /\ g_sum' = q.sum /\ g_csum_hi' = q.hi /\ events' = q.out
        /\ wire' = s
    BY <2>2 DEF Feed, Between, Parser
  <2> HIDE DEF p, s, w, q
  <2>9. Parsing(q, s, w) /\ q.at = Len(data)
    BY <2>5, <2>6, <2>7, FeedKeeps DEF q
  <2> DEFINE r == Between'
  <2>10. IsParser(r) /\ r.state = q.state /\ r.cmd = q.cmd /\ r.sum = q.sum /\ r.hi = q.hi /\ r.out = q.out /\ r.at = 0
    BY <2>8, ParserFields DEF Between
  <2> HIDE DEF r
  <2>11. s \in Seq(Bytes) /\ Len(s) \in Nat /\ Len(s) = w + Len(data) /\ w \in Nat
    BY <2>5 DEF Joined
  <2>12. PICK from \in Nat : Where(q, s, w + q.at, from) /\ Told(q.out, s, from)
    BY <2>9 DEF Parsing
  <2>13. w + q.at = Len(s) /\ Len(s) + r.at = Len(s) /\ r.at \in 0 .. Len(s) - Len(s)
    BY <2>9, <2>10, <2>11
  <2>14. Where(r, s, Len(s) + r.at, from)
    BY <2>10, <2>12, <2>13 DEF Where
  <2>15. Parsing(r, s, Len(s))
    BY <2>9, <2>10, <2>12, <2>13, <2>14 DEF Parsing
  <2> QED
    BY <2>8, <2>11, <2>15 DEF FramingInv, r
<1> QED
  BY <1>1, <1>2

\* What is open at the end of the stream means nothing yet.
LEMMA FramingMeans == FramingInv => EventsAreMeaning
<1> SUFFICES ASSUME FramingInv PROVE EventsAreMeaning
  OBVIOUS
<1> DEFINE n == Len(wire)
           p == Between
<1>0. wire \in Seq(Bytes) /\ n \in Nat /\ Parsing(p, wire, n)
  BY DEF FramingInv
<1>1. p.out = events /\ p.at = 0
  BY ParserFields DEF Between
<1> HIDE DEF p
<1>2. PICK from \in Nat : Where(p, wire, n + p.at, from) /\ Told(p.out, wire, from)
  BY <1>0 DEF Parsing
<1>3. n + p.at = n
  BY <1>0, <1>1
<1>4. Where(p, wire, n, from) /\ p.state \in States /\ p.out \in Seq(EventRecs)
  BY <1>0, <1>2, <1>3 DEF Parsing
<1>5. Extends(wire, wire)
  BY <1>0 DEF Extends
<1>6. Meaning(wire)[1] = p.out \o Meaning(wire)[from]
  BY <1>2, <1>5 DEF Told
<1>7. Meaning(wire)[from] = <<>>
  <2>1. CASE p.state = "IDLE"
    BY <1>0, <1>4, <2>1, MeaningEnds DEF Where
  <2>2. CASE p.state = "BODY"
    <3>1. InBody(p.cmd, wire, from, n)
      BY <1>4, <2>2 DEF Where
    <3>2. from \in 1 .. Len(wire) /\ wire[from] = "$" /\ n < from + 1 + CMD_SIZE /\ \A k \in from + 1 .. n : wire[k] # "#"
      BY <1>0, <3>1, FramingAssumption DEF InBody
    <3> QED
      BY <1>0, <3>2, MeaningPartial
  <2>3. CASE p.state = "CSUM1"
    <3>1. InBody(p.cmd, wire, from, n - 1) /\ wire[n] = "#"
      BY <1>4, <2>3 DEF Where
    <3>2. Ends(wire, from, n) /\ from \in 1 .. Len(wire) /\ wire[from] = "$" /\ n + 2 > Len(wire)
      BY <1>0, <3>1, FramingAssumption DEF InBody, Ends
    <3> QED
      BY <1>0, <3>2, MeaningPartial
  <2>4. CASE p.state = "CSUM2"
    <3>1. InBody(p.cmd, wire, from, n - 2) /\ wire[n - 1] = "#"
      BY <1>4, <2>4 DEF Where
    <3> DEFINE j == n - 1
    <3>2. j \in Nat /\ Ends(wire, from, j) /\ from \in 1 .. Len(wire) /\ wire[from] = "$" /\ j + 2 > Len(wire)
      BY <1>0, <3>1, FramingAssumption DEF InBody, Ends
    <3> HIDE DEF j
    <3> QED
      BY <1>0, <3>2, MeaningPartial
  <2> QED
    BY <1>4, <2>1, <2>2, <2>3, <2>4 DEF States
<1>8. p.out \o <<>> = p.out
  BY <1>4, ConcatEmptySeq
<1> QED
  BY <1>1, <1>6, <1>7, <1>8 DEF EventsAreMeaning

\* However the stream is cut into pieces, the stub dispatches and refuses the
\* packets that the stream as a whole contains (rsp_feed, feed_body, feed_byte).
THEOREM EventsAreMeaningTheorem == FramingSpec => []EventsAreMeaning
<1>1. FramingInit => FramingInv
  BY FramingInvInit
<1>2. FramingInv /\ [FramingNext]_framing_vars => FramingInv'
  BY FramingInvNext
<1>3. FramingInv => EventsAreMeaning
  BY FramingMeans
<1> QED
  BY <1>1, <1>2, <1>3, PTL DEF FramingSpec

=============================================================================
