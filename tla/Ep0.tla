-------------------------------- MODULE Ep0 --------------------------------
(***************************************************************************)
(* The control endpoint of the gdb stub (baremetal/gdbstub/musb.c): the    *)
(* software's transfer state, polled by musb_poll, against the events of   *)
(* the MUSB core and a host that may drop a transfer for a new one or      *)
(* reset the bus at any time.                                              *)
(*                                                                         *)
(* The interrupt latch clears on read, so musb_poll is two steps: it reads *)
(* the latch, then CSR0, and the host may act between them.  A request is  *)
(* its kind and its length; the tag of a transfer stands for the content   *)
(* of its data.  Registers that only move data (L2, FIFO, PRE_READ) are    *)
(* left out.                                                               *)
(***************************************************************************)
EXTENDS Integers

CONSTANTS EP0_MAXP,   \* bytes of a control packet
          LINE_CODING,\* sizeof(g_line_coding)
          InLengths,  \* lengths of the replies the stub queues
          OutLengths  \* wLength of SET_LINE_CODING

ASSUME Ep0Assumption ==
  /\ EP0_MAXP \in Nat /\ 0 < EP0_MAXP /\ LINE_CODING \in Nat
  /\ InLengths \subseteq Nat /\ OutLengths \subseteq Nat

Tags == 0 .. 2
Requests == [kind : {"in"}, len : InLengths] \cup [kind : {"out"}, len : OutLengths]
            \cup [kind : {"status", "address", "stall"}, len : {0}]

VARIABLES
  \* the software
  at,          \* where musb_poll is: before it reads the latch, before it reads
               \* CSR0 (csr), in the wait of SET_ADDRESS (address), or before
               \* the bulk endpoints (bulk)
  buf,         \* the transfer that g_ep0_buf was filled for
  remaining, offset,          \* g_ep0_remaining, g_ep0_offset
  out_remaining, out_offset,  \* g_ep0_out_remaining, g_ep0_out_offset
  \* the core
  latch,       \* INTRTX1 bit 0
  reset,       \* INTRUSB_RESET
  csr,         \* the bits of CSR0
  packet,      \* the packet to send
  rxpkt,       \* the packet received: "setup" or a number of data bytes
  active,      \* a transfer is open
  \* the host: its request, the transfer, the bytes of its data stage
  req, tag, got,
  merged       \* ghost: the poll served another event with the one of a packet

ep0_soft == <<at, buf, remaining, offset, out_remaining, out_offset>>
ep0_host == <<req, tag, got>>
ep0_vars == <<ep0_soft, ep0_host, latch, reset, csr, packet, rxpkt, active, merged>>

Clear == [rx |-> FALSE, tx |-> FALSE, end |-> FALSE, sent |-> FALSE,
          dataend |-> FALSE, sendstall |-> FALSE]
NoPacket == [of |-> 0, off |-> 0, n |-> 0]

Ep0Init ==
  /\ at = "latch" /\ buf = 0 /\ remaining = 0 /\ offset = 0
  /\ out_remaining = 0 /\ out_offset = 0
  /\ latch = FALSE /\ reset = FALSE /\ csr = Clear /\ packet = NoPacket /\ rxpkt = 0
  /\ active = FALSE /\ merged = FALSE
  /\ req = [kind |-> "status", len |-> 0] /\ tag = 0 /\ got = 0

-----------------------------------------------------------------------------
(* The software.                                                           *)

\* Mutant: a chunk always starts at the beginning of the buffer.
ep0_send_chunk_restarts(c, of, n, o) ==
  /\ csr' = [c EXCEPT !.tx = n > 0, !.dataend = n <= EP0_MAXP]
  /\ packet' = [of |-> of, off |-> 0, n |-> IF n > EP0_MAXP THEN EP0_MAXP ELSE n]
  /\ remaining' = IF n <= EP0_MAXP THEN 0 ELSE n - EP0_MAXP
  /\ offset' = 0

\* The next packet of the n bytes at o of a reply, CSR0 being c; no bytes
\* are no packet, only the end.
ep0_send_chunk(c, of, n, o) ==
  LET last == n <= EP0_MAXP
      count == IF last THEN n ELSE EP0_MAXP
  IN /\ csr' = [c EXCEPT !.tx = n > 0, !.dataend = last]
     /\ packet' = [of |-> of, off |-> o, n |-> count]
     /\ remaining' = n - count
     /\ offset' = IF last THEN 0 ELSE o + count

\* ep0_fill, ep0_start.
ep0_queue ==
  /\ buf' = tag
  /\ ep0_send_chunk([csr EXCEPT !.rx = FALSE], tag, req.len, 0)
  /\ UNCHANGED <<out_remaining, out_offset>>

ep0_status ==
  /\ remaining' = 0 /\ offset' = 0
  /\ csr' = [csr EXCEPT !.rx = FALSE, !.dataend = TRUE]
  /\ UNCHANGED <<buf, out_remaining, out_offset, packet>>

ep0_expect_out ==
  /\ remaining' = 0 /\ offset' = 0 /\ out_remaining' = req.len /\ out_offset' = 0
  /\ csr' = [csr EXCEPT !.rx = FALSE]
  /\ UNCHANGED <<buf, packet>>

ep0_stall ==
  /\ csr' = [csr EXCEPT !.rx = FALSE, !.sendstall = TRUE]
  /\ UNCHANGED <<buf, remaining, offset, out_remaining, out_offset, packet>>

\* The class requests; SET_LINE_CODING is the one with a data stage to the
\* device.
handle_class_setup ==
  \/ req.kind = "out" /\ ep0_expect_out
  \/ req.kind = "in" /\ ep0_queue
  \/ req.kind = "status" /\ ep0_status
  \/ req.kind = "stall" /\ ep0_stall

\* The standard requests answer in the same ways, and SET_ADDRESS.
handle_setup ==
  \/ handle_class_setup
  \/ req.kind = "address" /\ ep0_status

\* The bytes past g_line_coding are dropped.
handle_ep0_out ==
  /\ out_offset' = IF out_offset + rxpkt > LINE_CODING THEN LINE_CODING ELSE out_offset + rxpkt
  /\ out_remaining' = IF rxpkt >= out_remaining THEN 0 ELSE out_remaining - rxpkt
  /\ csr' = [csr EXCEPT !.rx = FALSE, !.dataend = out_remaining' = 0]
  /\ UNCHANGED <<buf, remaining, offset, packet>>

handle_bus_reset ==
  /\ remaining' = 0 /\ offset' = 0 /\ out_remaining' = 0
  /\ UNCHANGED <<buf, out_offset>>

\* musb_poll reads the latches; a reset is handled alone.
poll_latch ==
  /\ at = "latch"
  /\ latch' = FALSE /\ reset' = FALSE
  /\ IF reset THEN handle_bus_reset /\ UNCHANGED at
     ELSE /\ at' = IF latch THEN "csr" ELSE "bulk"
          /\ UNCHANGED <<buf, remaining, offset, out_remaining, out_offset>>
  /\ merged' = (merged \/ (reset /\ csr.rx))
  /\ UNCHANGED <<ep0_host, csr, packet, rxpkt, active>>

\* The host dropped the transfer.
serve_setupend ==
  /\ csr.end
  /\ out_remaining' = 0 /\ csr' = [csr EXCEPT !.end = FALSE]
  /\ merged' = (merged \/ (csr.rx /\ ~latch))
  /\ at' = "bulk" /\ UNCHANGED <<buf, remaining, offset, out_offset, packet>>

serve_sentstall ==
  /\ ~csr.end /\ csr.sent
  /\ csr' = [csr EXCEPT !.sent = FALSE]
  /\ merged' = (merged \/ (csr.rx /\ ~latch))
  /\ at' = "bulk" /\ UNCHANGED <<buf, remaining, offset, out_remaining, out_offset, packet>>

\* Mutant: a packet is served before the end of the transfer it does not
\* belong to.
serve_packet_first ==
  /\ csr.rx
  /\ IF out_remaining > 0 THEN handle_ep0_out /\ at' = "bulk"
     ELSE handle_setup /\ at' = IF req.kind = "address" THEN "address" ELSE "bulk"
  /\ UNCHANGED merged

serve_packet ==
  /\ ~csr.end /\ ~csr.sent /\ csr.rx
  /\ IF out_remaining > 0 THEN handle_ep0_out /\ at' = "bulk"
     ELSE handle_setup /\ at' = IF req.kind = "address" THEN "address" ELSE "bulk"
  /\ UNCHANGED merged

\* A packet is out: the next one, if there is more.
serve_sent ==
  /\ ~csr.end /\ ~csr.sent /\ ~csr.rx
  /\ at' = "bulk"
  /\ IF ~csr.tx /\ remaining > 0
     THEN /\ ep0_send_chunk(csr, buf, remaining, offset)
          /\ UNCHANGED <<buf, out_remaining, out_offset>>
     ELSE UNCHANGED <<buf, remaining, offset, out_remaining, out_offset, csr, packet>>
  /\ UNCHANGED merged

\* Mutant: the latch is cleared after the event was served.
poll_csr_acks ==
  /\ at = "csr" /\ latch' = FALSE
  /\ serve_setupend \/ serve_sentstall \/ serve_packet \/ serve_sent
  /\ UNCHANGED <<ep0_host, reset, rxpkt, active>>

\* musb_poll reads CSR0 and serves the first condition it finds.
poll_csr ==
  /\ at = "csr"
  /\ serve_setupend \/ serve_sentstall \/ serve_packet \/ serve_sent
  /\ UNCHANGED <<ep0_host, latch, reset, rxpkt, active>>

\* SET_ADDRESS: the wait ends with an interrupt, which the read clears, or
\* with its limit.  Then FADDR has the address.
set_address ==
  /\ at = "address" /\ at' = "bulk"
  /\ latch' = FALSE /\ merged' = (merged \/ csr.rx)
  /\ UNCHANGED <<buf, remaining, offset, out_remaining, out_offset, ep0_host,
                 reset, csr, packet, rxpkt, active>>

\* The rest of musb_poll is about the bulk endpoints.
poll_bulk ==
  /\ at = "bulk" /\ at' = "latch"
  /\ UNCHANGED <<buf, remaining, offset, out_remaining, out_offset, ep0_host,
                 latch, reset, csr, packet, rxpkt, active, merged>>

poll == poll_latch \/ poll_csr \/ set_address

-----------------------------------------------------------------------------
(* The core and the host.                                                  *)

\* The host goes to the status stage before DATAEND: the core flushes the FIFO
\* and reports SETUPEND.
HostEndsEarly ==
  /\ active /\ ~csr.rx /\ ~csr.dataend /\ ~csr.sendstall /\ active' = FALSE
  /\ csr' = [csr EXCEPT !.end = TRUE, !.tx = FALSE] /\ packet' = NoPacket
  /\ latch' = TRUE
  /\ UNCHANGED <<ep0_soft, ep0_host, reset, rxpkt, merged>>

\* A SETUP always gets through, and ends the open transfer.  After a reset the
\* host waits 10 ms: longer than a poll takes, but the stub may be waiting to
\* send a reply.
HostSetup ==
  /\ reset => at \in {"latch", "bulk"}
  /\ active' = TRUE /\ req' \in Requests /\ tag' = (tag + 1) % 3 /\ got' = 0
  /\ csr' = [csr EXCEPT !.rx = TRUE, !.end = csr.end \/ active, !.tx = FALSE,
                        !.dataend = FALSE, !.sendstall = FALSE]
  /\ rxpkt' = 0 /\ packet' = NoPacket /\ latch' = TRUE /\ merged' = FALSE
  /\ UNCHANGED <<ep0_soft, reset>>

\* A packet with data goes out when the last one was taken.
HostSends ==
  /\ active /\ ~csr.rx /\ ~csr.sendstall /\ ~csr.dataend
  /\ req.kind = "out" /\ got < req.len
  /\ \E n \in 1 .. EP0_MAXP : n <= req.len - got /\ rxpkt' = n /\ got' = got + n
  /\ csr' = [csr EXCEPT !.rx = TRUE] /\ latch' = TRUE
  /\ UNCHANGED <<ep0_soft, req, tag, reset, packet, active, merged>>

HostTakes ==
  /\ active /\ csr.tx /\ ~csr.sendstall
  /\ csr' = [csr EXCEPT !.tx = FALSE] /\ latch' = TRUE /\ got' = got + packet.n
  /\ packet' = NoPacket
  /\ UNCHANGED <<ep0_soft, req, tag, reset, rxpkt, active, merged>>

\* The status stage, after DATAEND.
HostStatus ==
  /\ active /\ csr.dataend /\ ~csr.tx /\ ~csr.rx
  /\ active' = FALSE /\ latch' = TRUE /\ csr' = [csr EXCEPT !.dataend = FALSE]
  /\ UNCHANGED <<ep0_soft, ep0_host, reset, packet, rxpkt, merged>>

HostStalled ==
  /\ active /\ csr.sendstall
  /\ active' = FALSE /\ latch' = TRUE
  /\ csr' = [csr EXCEPT !.sendstall = FALSE, !.sent = TRUE, !.tx = FALSE, !.dataend = FALSE]
  /\ packet' = NoPacket
  /\ UNCHANGED <<ep0_soft, ep0_host, reset, rxpkt, merged>>

HostResets ==
  /\ reset' = TRUE /\ latch' = FALSE /\ csr' = Clear /\ active' = FALSE /\ merged' = FALSE
  /\ packet' = NoPacket /\ rxpkt' = 0
  /\ UNCHANGED <<ep0_soft, ep0_host>>

Ep0Host == HostEndsEarly \/ HostSetup \/ HostSends \/ HostTakes \/ HostStatus \/ HostStalled \/ HostResets

-----------------------------------------------------------------------------
(* Properties.                                                             *)

(* What the host reads in the data stage of a transfer is the reply to     *)
(* that transfer's request, from its beginning and without a gap, however  *)
(* the transfers before it ended (ep0_send_chunk, ep0_stall, musb_poll).   *)
HostDataIsOwn ==
  active /\ csr.tx /\ ~csr.sendstall => packet.of = tag /\ packet.off = got

(* A SETUP is not taken for line coding data, and data not for a SETUP     *)
(* (musb_poll, g_ep0_out_remaining), and the array is not overrun.         *)
PacketIsKnown ==
  /\ at = "csr" /\ ~csr.end /\ ~csr.sent /\ csr.rx /\ ~reset => (out_remaining > 0 <=> rxpkt > 0)
  /\ out_offset <= LINE_CODING

(* A packet that came is not forgotten: an interrupt for it is pending or  *)
(* being served, unless one poll found it together with a reset or the end *)
(* of the transfer before it, or the wait of SET_ADDRESS took its          *)
(* interrupt (musb_poll clears the latches and serves one condition).      *)
PacketIsPending ==
  csr.rx => latch \/ at \in {"csr", "address"} \/ merged

(* A control packet is neither mistaken for another nor forgotten, however *)
(* transfers end and events meet in one poll (musb_poll).                  *)
PacketIsServed == PacketIsKnown /\ PacketIsPending
=============================================================================
