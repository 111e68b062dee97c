---------------------------- MODULE RspFraming -----------------------------
(***************************************************************************)
(* The packet parser of the gdb stub (baremetal/gdbstub/rsp.c, rsp_feed).  *)
(* Bulk OUT delivers the host's bytes in pieces of any size; the parser    *)
(* keeps its state between them and copies the body of a packet in runs.   *)
(*                                                                         *)
(* A byte is a member of Bytes; Code gives its value for the checksum and  *)
(* hexval its value as a hex digit.  A checksum has two digits, so it is   *)
(* compared modulo Base^2 (Base is 16 in the code, less in the models).    *)
(*                                                                         *)
(* A command that leaves the stub (c, C, s, vCont) does not return to      *)
(* rsp_feed, so the bytes behind it in its bulk packet are dropped; here   *)
(* they are parsed.  gdb waits for the answer to a command before it sends *)
(* another one, and puts nothing behind one.                               *)
(***************************************************************************)
EXTENDS Integers, Sequences

CONSTANTS Bytes,     \* the bytes the host may send, among them "$" and "#"
          CMD_SIZE,  \* capacity of g_cmd
          Base,      \* digits of a checksum
          MaxWire,   \* bound: bytes that the host sends in all
          MaxFeed    \* bound: bytes that one bulk OUT packet holds

\* The value of a byte: digits are themselves and the others follow.
Code(c) == CASE c = "0" -> 0 [] c = "1" -> 1 [] c = "$" -> 2 [] c = "#" -> 3 [] OTHER -> 5
hexval(c) == CASE c = "0" -> 0 [] c = "1" -> 1 [] OTHER -> -1

ASSUME FramingAssumption ==
  /\ {"$", "#"} \subseteq Bytes
  /\ CMD_SIZE \in Nat /\ Base \in Nat \ {0} /\ MaxWire \in Nat /\ MaxFeed \in Nat

VARIABLES g_state, g_cmd, g_sum, g_csum_hi,
          events,   \* what the parser did: dispatch of a body, or a nak
          wire      \* ghost: every byte that was fed

framing_vars == <<g_state, g_cmd, g_sum, g_csum_hi, events, wire>>

-----------------------------------------------------------------------------
\* The checksum's digits are those of the sum.  A byte that is no digit makes
\* the 32-bit value larger than any sum's low byte.
Matches(hi, lo, sum) ==
  /\ hexval(hi) >= 0 /\ hexval(lo) >= 0
  /\ hexval(hi) * Base + hexval(lo) = sum % (Base * Base)

First(S) == CHOOSE i \in S : \A j \in S : i <= j

\* sum of the bytes.
SumOf(s) ==
  LET sum[i \in 0 .. Len(s)] == IF i = 0 THEN 0 ELSE sum[i - 1] + Code(s[i])
  IN  sum[Len(s)]

\* dispatch, or the answer "-".
Checked(body, sum, hi, lo) ==
  IF Matches(hi, lo, sum) THEN [what |-> "cmd", body |-> body] ELSE [what |-> "nak", body |-> <<>>]

\* p is the parser with out, what it did, and at, the bytes of the piece that it took.
feed_byte(p, c) ==
  CASE p.state = "IDLE" ->
         IF c = "$" THEN [p EXCEPT !.cmd = <<>>, !.sum = 0, !.state = "BODY"] ELSE p
    [] p.state = "CSUM1" -> [p EXCEPT !.hi = c, !.state = "CSUM2"]
    [] OTHER -> [p EXCEPT !.state = "IDLE", !.out = Append(@, Checked(p.cmd, p.sum, p.hi, c))]

\* The run of body bytes: it ends with the piece, at '#', or where g_cmd is
\* full, which drops the packet and leaves the byte to be looked at again.
feed_body(p, data) ==
  LET ends == {i \in p.at .. Len(data) :
                 i < Len(data) => data[i + 1] = "#" \/ Len(p.cmd) + (i - p.at) >= CMD_SIZE}
      to == First(ends)
      run == SubSeq(data, p.at + 1, to)
  IN  [p EXCEPT !.cmd = @ \o run, !.sum = @ + SumOf(run), !.at = to,
                !.state = IF to < Len(data) /\ data[to + 1] # "#" THEN "IDLE" ELSE "BODY"]

\* Mutant: a piece that ends in the body is taken to end at '#'.
feed_round_cut(p, data) ==
  IF p.at = Len(data) THEN p
  ELSE IF p.state # "BODY" THEN [feed_byte(p, data[p.at + 1]) EXCEPT !.at = p.at + 1]
  ELSE LET r == feed_body(p, data)
       IN  IF r.state = "BODY"
           THEN [r EXCEPT !.state = "CSUM1", !.at = IF r.at < Len(data) THEN r.at + 1 ELSE r.at]
           ELSE r

\* A round of the loop in rsp_feed.
feed_round(p, data) ==
  IF p.at = Len(data) THEN p
  ELSE IF p.state # "BODY" THEN [feed_byte(p, data[p.at + 1]) EXCEPT !.at = p.at + 1]
  ELSE LET r == feed_body(p, data)
       IN  IF r.state = "BODY" /\ r.at < Len(data)
           THEN [r EXCEPT !.state = "CSUM1", !.at = r.at + 1]
           ELSE r

\* Every round takes a byte or drops a packet, so two for a byte are enough.
rsp_feed(p, data) ==
  LET fed[k \in 0 .. 2 * Len(data)] == IF k = 0 THEN p ELSE feed_round(fed[k - 1], data)
  IN  fed[2 * Len(data)]

-----------------------------------------------------------------------------
FramingInit ==
  /\ g_state = "IDLE" /\ g_cmd = <<>> /\ g_sum = 0 /\ g_csum_hi = "#"
  /\ events = <<>> /\ wire = <<>>

\* handle_bulk_out gives the parser one bulk packet.
Feed(data) ==
  /\ Len(wire) + Len(data) <= MaxWire
  /\ LET p == rsp_feed([state |-> g_state, cmd |-> g_cmd, sum |-> g_sum,
                        hi |-> g_csum_hi, out |-> events, at |-> 0], data)
     IN  /\ g_state' = p.state /\ g_cmd' = p.cmd /\ g_sum' = p.sum
         /\ g_csum_hi' = p.hi /\ events' = p.out
  /\ wire' = wire \o data

FramingNext == \E n \in 1 .. MaxFeed : \E data \in [1 .. n -> Bytes] : Feed(data)

FramingSpec == FramingInit /\ [][FramingNext]_framing_vars

-----------------------------------------------------------------------------
(* The reference: what a stream of bytes means, defined on the stream as a   *)
(* whole.  A packet starts at a '$', everything before it is ignored; its    *)
(* body ends at the next '#' and two digits follow; a body of more than      *)
(* CMD_SIZE bytes is dropped and the search for '$' resumes behind its first *)
(* CMD_SIZE bytes.                                                           *)
Positions(s, c, from) == {i \in from .. Len(s) : s[i] = c}

\* The meaning of s from a position on, when m gives that of the later ones.
MeaningFrom(s, from, m) ==
  LET starts == Positions(s, "$", from)
      i == First(starts)
      ends == Positions(s, "#", i + 1)
      j == First(ends)
      limit == i + 1 + CMD_SIZE
      body == SubSeq(s, i + 1, j - 1)
  IN  IF starts = {} THEN <<>>
      ELSE IF (ends = {} \/ j > limit) /\ Len(s) >= limit THEN m[limit]
      ELSE IF ends = {} \/ j + 2 > Len(s) THEN <<>>
      ELSE <<Checked(body, SumOf(body), s[j + 1], s[j + 2])>> \o m[j + 3]

Meaning(s) ==
  LET meaning[from \in 1 .. Len(s) + 1] == MeaningFrom(s, from, meaning)
  IN  meaning

\* However the bytes are cut into bulk packets, the stub dispatches and refuses
\* exactly the packets that the stream as a whole contains.
EventsAreMeaning == events = Meaning(wire)[1]

=============================================================================
