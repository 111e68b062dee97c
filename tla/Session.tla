------------------------------ MODULE Session ------------------------------
(***************************************************************************)
(* The dialogue between gdb and the stub: what dispatch answers to each    *)
(* command (baremetal/gdbstub/rsp.c), and the log that `monitor trace` and *)
(* `monitor oldtrace` print (trace.c).                                     *)
(*                                                                         *)
(* A reply is its length in g_out and what it means; a text is an interval *)
(* of the bytes it is taken from.  A command can arrive with a wrong       *)
(* checksum, and the rest of a reply can be dropped: gdb (external) then   *)
(* sends the command again, MaxTries times in all.  The stub keeps nothing *)
(* of an exchange.                                                         *)
(***************************************************************************)
EXTENDS Integers, Sequences, FiniteSets

CONSTANTS
  PACKET_SIZE,      \* the size of a packet that the stub tells gdb
  MD32_MAX,         \* words of one `monitor md32`
  XmlSize,          \* sizeof(target_xml) - 1
  TRACE_SIZE,       \* bytes of the log
  TRACE_CMD_LIMIT,  \* commands that are echoed to the log
  Lengths,          \* lengths that gdb asks for
  MaxTries,         \* of gdb, for one command
  MaxCommands,      \* bound: commands of gdb
  MaxNoise,         \* bound: commands mangled and replies dropped
  MaxReboots        \* bound

OUT_SIZE == PACKET_SIZE + 16
MONITOR_CHUNK == (PACKET_SIZE - 8) \div 2

ASSUME SessionAssumption ==
  /\ {PACKET_SIZE, MD32_MAX, XmlSize, TRACE_SIZE, TRACE_CMD_LIMIT, MaxTries} \subseteq Nat \ {0}
  /\ {MaxCommands, MaxNoise, MaxReboots} \subseteq Nat /\ Lengths \subseteq Nat
  /\ PACKET_SIZE > 16

VARIABLES
  gdb,      \* external: [cmd, tries, acks, text]; cmd.op is "none" between commands
  xml,      \* external: bytes of target.xml that gdb has, and whether it has all
  tlog,     \* the live log: [run, used]
  prev,     \* TRACE_PREV
  traced,   \* g_traced
  sent,     \* the packets of the last reply
  count,    \* history: commands asked, executed, acknowledged, and replies lost or without an ack
  noise, boots

ses_vars == <<gdb, xml, tlog, prev, traced, sent, count, noise, boots>>

Least(a, b) == IF a < b THEN a ELSE b

-----------------------------------------------------------------------------
(* trace.c.                                                                *)

\* trace_putc, n times: the last byte of the log stays 0.
trace_puts(log, n) == [log EXCEPT !.used = Least(@ + n, TRACE_SIZE - 1)]

\* The log of the run before goes to TRACE_PREV, and a new one starts.
trace_init(run) == [run |-> run, used |-> 0]
trace_used == tlog.used
trace_prev_used == prev.used

\* The first lines of gdbstub_main, the echo of a command, the lines
\* of a resume and of a trap.
Banner == 10
Echo(log) == IF traced < TRACE_CMD_LIMIT THEN trace_puts(log, 8) ELSE log
StepLine == 19
TrapLine == 12

-----------------------------------------------------------------------------
(* A packet under construction: [ack, len, cut, body].                     *)

\* out_ch, n times: what does not fit is dropped without a word.
out_ch(p, n) == [p EXCEPT !.len = Least(@ + n, OUT_SIZE), !.cut = @ \/ p.len + n > OUT_SIZE]
out_byte(p, n) == out_ch(p, 2 * n)

\* out_pair, n times: a word store each, which needs a word boundary and looks
\* at no limit.
out_pair(p, n) ==
  [p EXCEPT !.len = @ + 4 * n, !.cut = @ \/ (n > 0 /\ (p.len % 4 # 0 \/ p.len + 4 * n > OUT_SIZE))]

out_begin_ack(ack) == [ack |-> ack, len |-> IF ack THEN 2 ELSE 1, cut |-> FALSE, body |-> [is |-> "text"]]
out_begin == out_begin_ack(TRUE)
out_finish(p, body) == <<[out_ch(p, 3) EXCEPT !.body = body]>>

Is(word) == [is |-> word]
send_text(n) == out_finish(out_byte(out_begin, n), Is("text"))

send_output(log, from, n, ack) ==
  out_finish(out_byte(out_ch(out_begin_ack(ack), 1), n),
             [is |-> "O", run |-> log.run, from |-> from, to |-> from + n])

\* Mutant: every packet of the run acknowledges.
send_region_acks(log, len) ==
  LET n == (len + MONITOR_CHUNK - 1) \div MONITOR_CHUNK
      Piece(k) == send_output(log, k * MONITOR_CHUNK, Least(MONITOR_CHUNK, len - k * MONITOR_CHUNK), TRUE)
  IN [k \in 1 .. n |-> Piece(k - 1)[1]] \o out_finish(out_ch(out_begin_ack(n = 0), 2), Is("OK"))

\* Mutant: a piece is always a whole chunk.
send_region_whole(log, len) ==
  LET n == (len + MONITOR_CHUNK - 1) \div MONITOR_CHUNK
  IN [k \in 1 .. n |-> send_output(log, (k - 1) * MONITOR_CHUNK, MONITOR_CHUNK, k = 1)[1]]
       \o out_finish(out_ch(out_begin_ack(n = 0), 2), Is("OK"))

\* A log as a run of output packets, closed with OK.
send_region(log, len) ==
  LET n == (len + MONITOR_CHUNK - 1) \div MONITOR_CHUNK
      Piece(k) == send_output(log, k * MONITOR_CHUNK, Least(MONITOR_CHUNK, len - k * MONITOR_CHUNK), k = 0)
  IN [k \in 1 .. n |-> Piece(k - 1)[1]] \o out_finish(out_ch(out_begin_ack(n = 0), 2), Is("OK"))

\* Characters of "0x", of eight digits, of the clamp's line.
mon_word == 10
mon_dec == 3
clamped == 11 + mon_dec + 7

\* The dump of count words, four to a line.
monitor_md32(asked) ==
  LET words == IF asked = 0 THEN 4 ELSE asked
      count_ == Least(words, MD32_MAX)
      lines == (count_ + 3) \div 4
      chars == (IF words > MD32_MAX THEN clamped ELSE 0) + lines * (mon_word + 1) + count_ * (1 + mon_word) + lines
  IN out_finish(out_byte(out_begin, chars), Is("words"))

\* handle_monitor.
handle_monitor(c, log) ==
  CASE c.op = "trace" -> send_region(log, log.used)
    [] c.op = "oldtrace" -> send_region(prev, trace_prev_used)
    [] c.op = "md32" -> monitor_md32(c.len)
    [] OTHER -> send_text(40)

\* Mutant: the limit is that of the buffer.
read_memory_reply_all(asked) ==
  LET len_ == Least(asked, OUT_SIZE \div 2)
      head == Least(1, len_)
      pairs == (len_ - head) \div 2
      p == out_pair(out_byte(out_begin, head), pairs)
  IN out_finish(out_byte(p, len_ - head - 2 * pairs), Is("data"))

\* read_memory: single bytes up to a word boundary of g_out, pairs, the rest.
read_memory_reply(asked) ==
  LET len_ == Least(asked, (OUT_SIZE - 16) \div 2)
      head == IF out_begin.len % 4 = 0 THEN 0 ELSE IF out_begin.len % 2 = 0 THEN Least(1, len_) ELSE len_
      pairs == (len_ - head) \div 2
      p == out_pair(out_byte(out_begin, head), pairs)
  IN out_finish(out_byte(p, len_ - head - 2 * pairs), Is("data"))

\* Mutant: the last piece is recognised by what gdb asked for.
handle_query_asked(c) ==
  IF c.off >= XmlSize THEN out_finish(out_ch(out_begin, 1), [is |-> "l", off |-> c.off, n |-> 0])
  ELSE LET n == Least(Least(XmlSize - c.off, c.len), PACKET_SIZE - 16)
       IN out_finish(out_ch(out_begin, 1 + n),
                     [is |-> IF c.off + c.len < XmlSize THEN "m" ELSE "l", off |-> c.off, n |-> n])

\* qXfer of target.xml: a piece of what is left, marked m or, the last one, l.
handle_query(c) ==
  IF c.off >= XmlSize THEN out_finish(out_ch(out_begin, 1), [is |-> "l", off |-> c.off, n |-> 0])
  ELSE LET n == Least(Least(XmlSize - c.off, c.len), PACKET_SIZE - 16)
       IN out_finish(out_ch(out_begin, 1 + n),
                     [is |-> IF c.off + n < XmlSize THEN "m" ELSE "l", off |-> c.off, n |-> n])

read_regs == out_finish(out_byte(out_begin, 17 * 4), Is("regs"))

\* The registers and a dump of MD32_MAX words fit in g_out: 0x2000 and 0x100.
ASSUME ReplyAssumption ==
  /\ 5 + 2 * (17 * 4) <= OUT_SIZE
  /\ 5 + 2 * (clamped + ((MD32_MAX + 3) \div 4) * (mon_word + 2) + MD32_MAX * (1 + mon_word)) <= OUT_SIZE

\* rsp_resume_here and resume: the ack goes out alone.
plus == <<[ack |-> TRUE, len |-> 1, cut |-> FALSE, body |-> Is("+")]>>

\* dispatch: log is the log with the echo.  "step" is a step or a continue that
\* leaves the stub, whose stop is answered by rsp_trapped; "stay" is a step that
\* do_step does not take: E01 when the next pc is undecidable, S05 for a branch
\* to itself.
dispatch_reply(c, log) ==
  CASE c.op \in {"trace", "oldtrace", "md32", "help"} -> handle_monitor(c, log)
    [] c.op = "m" -> read_memory_reply(c.len)
    [] c.op = "q" -> handle_query(c)
    [] c.op = "g" -> read_regs
    [] c.op = "step" -> plus
    [] c.op = "stay" -> out_finish(out_ch(out_begin, 3), Is("stop"))
    [] OTHER -> out_finish(out_begin, Is("empty"))

\* rsp_trapped: the stop reply, which acknowledges nothing.
stop_reply == out_finish(out_ch(out_begin_ack(FALSE), 3), Is("stop"))

-----------------------------------------------------------------------------
(* gdb.                                                                    *)

NoCmd == [op |-> "none", off |-> 0, len |-> 0]
Commands ==
  [op : {"trace", "oldtrace", "help", "g", "step", "stay", "bad", "other"}, off : {0}, len : {0}]
    \cup [op : {"md32", "m"}, off : {0}, len : Lengths]
    \cup [op : {"q"}, off : {xml.have}, len : Lengths \ {0}]

HostSendsCommand(c) ==
  /\ gdb.cmd = NoCmd /\ count.asked < MaxCommands
  /\ c.op = "q" => ~xml.all
  /\ gdb' = [cmd |-> c, tries |-> 0, got |-> <<>>]
  /\ count' = [count EXCEPT !.asked = @ + 1]
  /\ UNCHANGED <<xml, tlog, prev, traced, sent, noise, boots>>

\* A wrong checksum: '-' goes out and nothing else happens; gdb sends again.
CommandMangled ==
  /\ gdb.cmd # NoCmd /\ gdb.tries < MaxTries /\ noise < MaxNoise /\ noise' = noise + 1
  /\ gdb' = [gdb EXCEPT !.tries = @ + 1, !.got = <<>>]
  /\ UNCHANGED <<xml, tlog, prev, traced, sent, count, boots>>

\* What the stub sends for c, after the echo; the step and the read of an
\* address that aborts end in rsp_trapped.
Packets(c, log) ==
  CASE c.op = "bad" -> stop_reply
    [] c.op = "step" -> dispatch_reply(c, log) \o stop_reply
    [] OTHER -> dispatch_reply(c, log)
Logs(c, log) == CASE c.op = "bad" -> trace_puts(log, TrapLine)
                  [] c.op = "step" -> trace_puts(trace_puts(log, StepLine), TrapLine)
                  [] OTHER -> log

\* gdb waits for an ack and for a packet that is no console output.
Interim == {"O", "+"}
Complete(got) ==
  (\E i \in DOMAIN got : got[i].body.is \notin Interim) /\ (\E i \in DOMAIN got : got[i].ack)
Acks(got) == Cardinality({i \in DOMAIN got : got[i].ack})

\* The stub executes the command and gdb gets the first k packets of its reply.
Dispatch(k) ==
  /\ gdb.cmd # NoCmd /\ gdb.tries < MaxTries
  /\ LET c == gdb.cmd
         log == Echo(tlog)
         ps == Packets(c, log)
         got == SubSeq(ps, 1, k)
         done == Complete(got)
     IN /\ k <= Len(ps) /\ (k < Len(ps) => noise < MaxNoise)
        /\ noise' = IF k < Len(ps) THEN noise + 1 ELSE noise
        /\ sent' = ps
        /\ tlog' = Logs(c, log)
        /\ traced' = Least(traced + 1, TRACE_CMD_LIMIT)
        /\ gdb' = [cmd |-> IF done THEN NoCmd ELSE c, tries |-> gdb.tries + 1, got |-> got]
        /\ xml' = IF done /\ c.op = "q"
                  THEN [have |-> IF got[1].body.off = xml.have THEN xml.have + got[1].body.n ELSE 0,
                        all |-> got[1].body.is = "l"]
                  ELSE xml
        /\ count' = [count EXCEPT !.executed = @ + 1, !.acks = @ + Acks(got),
                                  !.without = @ + IF Acks(got) = 0 THEN 1 ELSE 0]
  /\ UNCHANGED <<prev, boots>>

HostGivesUp ==
  /\ gdb.cmd # NoCmd /\ gdb.tries = MaxTries
  /\ gdb' = [gdb EXCEPT !.cmd = NoCmd, !.got = <<>>]
  /\ UNCHANGED <<xml, tlog, prev, traced, sent, count, noise, boots>>

\* The board restarts: trace_init and the first lines.
Reboot ==
  /\ boots < MaxReboots /\ gdb.cmd = NoCmd
  /\ boots' = boots + 1 /\ prev' = tlog
  /\ tlog' = trace_puts(trace_init(boots + 1), Banner)
  /\ traced' = 0 /\ sent' = <<>>
  /\ gdb' = [gdb EXCEPT !.got = <<>>] /\ xml' = [have |-> 0, all |-> FALSE]
  /\ UNCHANGED <<count, noise>>

SessionInit ==
  /\ gdb = [cmd |-> NoCmd, tries |-> 0, got |-> <<>>]
  /\ xml = [have |-> 0, all |-> FALSE]
  /\ tlog = trace_puts(trace_init(0), Banner)
  /\ \E n \in {0, TRACE_SIZE} : prev = [run |-> -1, used |-> n]
  /\ traced = 0 /\ sent = <<>> /\ noise = 0 /\ boots = 0
  /\ count = [asked |-> 0, executed |-> 0, acks |-> 0, without |-> 0]

SessionNext ==
  \/ \E c \in Commands : HostSendsCommand(c)
  \/ CommandMangled
  \/ \E k \in 0 .. (TRACE_SIZE \div MONITOR_CHUNK) + 2 : Dispatch(k)
  \/ HostGivesUp
  \/ Reboot

SessionSpec == SessionInit /\ [][SessionNext]_ses_vars

-----------------------------------------------------------------------------
(* Properties.                                                             *)

(* Every reply is whole in g_out: no character falls off its end, where    *)
(* out_ch drops it, and the word stores of out_pair are on a boundary and  *)
(* inside it, for every length gdb may ask for.                            *)
ReplyFits == \A i \in DOMAIN sent : ~sent[i].cut /\ sent[i].len <= OUT_SIZE

(* When gdb is told that it has read the last piece of target.xml it has   *)
(* every byte of it once, however it cut its requests.                     *)
XmlIsWhole == xml.all => xml.have = XmlSize

(* The text that a completed `monitor` command printed is the log from its *)
(* first byte to its last one: in order, without a gap, and of one run,    *)
(* also when the log is full, after reboots and after a retry.             *)
MonitorIsLog ==
  LET got == gdb.got
      Output == {i \in DOMAIN got : got[i].body.is = "O"}
      run == got[1].body.run
  IN gdb.cmd = NoCmd /\ Output # {} =>
       /\ got[1].body.from = 0
       /\ \A i \in Output \ {1} : got[i].body.from = got[i - 1].body.to /\ got[i].body.run = run
       /\ \E n \in Output : /\ Output = 1 .. n
                            /\ got[n].body.to = IF run = tlog.run THEN tlog.used ELSE prev.used
       /\ run # tlog.run \/ tlog.used < TRACE_SIZE

(* One ack goes out for a command that is executed, or none that gdb sees; *)
(* and a command that gdb sent once is executed more than once only when   *)
(* the answer to it was lost: one that is refused for its checksum was not *)
(* executed.                                                               *)
AckedOnce ==
  /\ count.acks + count.without = count.executed
  /\ count.executed <= count.asked + noise + count.without

(* gdb is told the truth: a reply fits its buffer and is acknowledged      *)
(* once, and what gdb puts together from several replies is the whole      *)
(* text, through retries, reboots and lost replies (dispatch, out_ch).     *)
RepliesAreRight == ReplyFits /\ XmlIsWhole /\ MonitorIsLog /\ AckedOnce
=============================================================================
