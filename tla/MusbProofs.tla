----------------------------- MODULE MusbProofs -----------------------------
(***************************************************************************)
(* Proofs about the USB device of the stub (Musb) for every packet size,   *)
(* every length of a reply and of the line coding, and a host that drops   *)
(* transfers and resets the bus at any time.                               *)
(***************************************************************************)
EXTENDS Musb, TLAPS

-----------------------------------------------------------------------------
(* The bulk IN endpoint: the host gets every whole reply.                  *)

TypeInv == len \in Nat /\ fifo \in Nat /\ urb \in Nat

(* The last packet of a reply is short, or the reply was dropped.          *)
LastIsShort == len = 0 /\ fifo > 0 => fifo < MAXP \/ dropped

IInv == TypeInv /\ LastIsShort /\ HostHasReply

(* A packet has at least one byte and fits, and one that ends the reply is *)
(* short.                                                                  *)
LEMMA PacketFits ==
  ASSUME NEW n \in Nat, n > 0
  PROVE  /\ Packet(n) \in Nat /\ 0 < Packet(n) /\ Packet(n) <= n
         /\ Packet(n) = n => Packet(n) < MAXP
  BY BulkAssumption DEF Packet

LEMMA InitIInv == Init => IInv
  BY DEF Init, IInv, TypeInv, LastIsShort, HostHasReply

LEMMA NextIInv == IInv /\ [Next]_vars => IInv'
<1> SUFFICES ASSUME IInv, [Next]_vars PROVE IInv'
  OBVIOUS
<1> USE BulkAssumption DEF IInv
<1>1. ASSUME Reply PROVE IInv'
  BY <1>1 DEF Reply, TypeInv, LastIsShort, HostHasReply
<1>2. ASSUME send_packet PROVE IInv'
  <2>1. /\ Packet(len) \in Nat /\ 0 < Packet(len) /\ Packet(len) <= len
        /\ Packet(len) = len => Packet(len) < MAXP
    BY <1>2, PacketFits DEF send_packet, TypeInv
  <2> QED
    BY <1>2, <2>1 DEF send_packet, TypeInv, LastIsShort, HostHasReply
<1>3. ASSUME tx_timeout PROVE IInv'
  BY <1>3 DEF tx_timeout, TypeInv, LastIsShort, HostHasReply
<1>4. ASSUME HostReads PROVE IInv'
  <2>1. /\ fifo' = 0 /\ len' = len /\ urb' \in Nat
        /\ urb' = 0 \/ (fifo >= MAXP /\ urb' > 0)
    BY <1>4 DEF HostReads, TypeInv
  <2>2. TypeInv' /\ LastIsShort'
    BY <2>1 DEF TypeInv, LastIsShort
  <2>3. ASSUME len' = 0, urb' > 0 PROVE dropped'
    <3>1. dropped
      BY <1>4, <2>1, <2>3 DEF HostReads, TypeInv, LastIsShort
    <3> QED
      BY <1>4, <2>3, <3>1 DEF HostReads
  <2> QED
    BY <2>2, <2>3 DEF HostHasReply
<1>5. ASSUME HostGoes PROVE IInv'
  BY <1>5 DEF HostGoes, TypeInv, LastIsShort, HostHasReply
<1>6. ASSUME UNCHANGED vars PROVE IInv'
  BY <1>6 DEF vars, TypeInv, LastIsShort, HostHasReply
<1> QED
  BY <1>1, <1>2, <1>3, <1>4, <1>5, <1>6 DEF Next

(* No byte of a reply that was sent whole waits in the host's open read    *)
(* request, whatever the lengths of packets, replies and requests.         *)
THEOREM HostHasReplyTheorem == Spec => []HostHasReply
<1>1. IInv => HostHasReply
  BY DEF IInv
<1> QED
  BY <1>1, InitIInv, NextIInv, PTL DEF Spec

-----------------------------------------------------------------------------
(* The control endpoint.                                                   *)

CsrBits == [rx : BOOLEAN, tx : BOOLEAN, end : BOOLEAN, sent : BOOLEAN,
            dataend : BOOLEAN, sendstall : BOOLEAN]

Ep0TypeOK ==
  /\ at \in {"latch", "csr", "address", "bulk"}
  /\ remaining \in Nat /\ offset \in Nat /\ out_remaining \in Nat /\ out_offset \in Nat
  /\ latch \in BOOLEAN /\ reset \in BOOLEAN /\ active \in BOOLEAN /\ merged \in BOOLEAN
  /\ csr \in CsrBits /\ packet.n \in Nat /\ rxpkt \in Nat
  /\ req \in Requests /\ got \in Nat

\* What the bits of CSR0 exclude: a packet that came is the only business of an
\* open transfer, and a stall is of a request that stalls.
CsrInv ==
  /\ csr.rx => active /\ ~csr.tx /\ ~csr.dataend /\ ~csr.sendstall
  /\ csr.rx /\ rxpkt = 0 => got = 0
  /\ csr.rx /\ rxpkt > 0 => req.kind = "out"
  /\ csr.sendstall => req.kind = "stall"
  /\ active /\ (csr.rx => rxpkt > 0) => ~csr.end
  /\ reset /\ active => csr.rx /\ rxpkt = 0 /\ at \in {"latch", "bulk"}

\* g_ep0_remaining and g_ep0_offset are of the open transfer, once its SETUP
\* was served: a stale rest is never sent under a new request.
InInv ==
  /\ out_remaining > 0 => remaining = 0
  /\ active /\ ~csr.rx /\ ~csr.sendstall /\ remaining > 0 =>
       /\ buf = tag
       /\ offset = got + IF csr.tx THEN packet.n ELSE 0
  /\ active /\ req.kind = "out" /\ ~csr.rx => remaining = 0 /\ ~csr.tx

\* g_ep0_out_remaining is what the open transfer has still to receive, and a
\* rest of another one is announced by SETUPEND or a reset.
OutInv ==
  /\ csr.dataend \/ csr.sendstall => out_remaining = 0
  /\ out_remaining > 0 => active \/ csr.end \/ reset
  /\ csr.rx /\ rxpkt = 0 /\ out_remaining > 0 => csr.end \/ reset
  /\ active /\ req.kind = "out" => got <= req.len
  /\ active /\ req.kind = "out" /\ ~csr.rx => out_remaining = req.len - got
  /\ csr.rx /\ rxpkt > 0 => out_remaining = req.len - got + rxpkt

Ep0Inv == Ep0TypeOK /\ CsrInv /\ InInv /\ OutInv /\ HostDataIsOwn /\ PacketIsServed

\* The steps of the control endpoint, as musb_poll and the host take them.
Ep0Next == poll \/ poll_bulk \/ Ep0Host

LEMMA Ep0InvInit == Ep0Init => Ep0Inv
<1> SUFFICES ASSUME Ep0Init PROVE Ep0Inv
  OBVIOUS
<1>1. [kind |-> "status", len |-> 0] \in Requests
  BY DEF Requests
<1>2. Ep0TypeOK
  BY <1>1 DEF Ep0Init, Ep0TypeOK, CsrBits, Clear, NoPacket
<1>3. CsrInv /\ InInv /\ OutInv
  BY DEF Ep0Init, CsrInv, InInv, OutInv, Clear
<1>4. HostDataIsOwn /\ PacketIsServed
  BY Ep0Assumption DEF Ep0Init, HostDataIsOwn, PacketIsServed, PacketIsKnown, PacketIsPending, Clear
<1> QED
  BY <1>2, <1>3, <1>4 DEF Ep0Inv

\* Each kind of request has its lengths.
LEMMA RequestLength ==
  ASSUME NEW r \in Requests
  PROVE  r.len \in Nat /\ r.kind \in {"in", "out", "status", "address", "stall"}
<1>1. CASE r \in [kind : {"in"}, len : InLengths]
  BY <1>1, Ep0Assumption
<1>2. CASE r \in [kind : {"out"}, len : OutLengths]
  BY <1>2, Ep0Assumption
<1>3. CASE r \in [kind : {"status", "address", "stall"}, len : {0}]
  BY <1>3
<1> QED
  BY <1>1, <1>2, <1>3 DEF Requests

\* A packet of a reply: where it starts, what stays, and which bits it sets.
LEMMA ChunkFacts ==
  ASSUME NEW c \in CsrBits, NEW of, NEW n \in Nat, NEW o \in Nat, ep0_send_chunk(c, of, n, o)
  PROVE  /\ csr' \in CsrBits
         /\ csr'.rx = c.rx /\ csr'.end = c.end /\ csr'.sent = c.sent
         /\ csr'.sendstall = c.sendstall
         /\ packet'.of = of /\ packet'.off = o /\ packet'.n \in Nat
         /\ remaining' \in Nat /\ offset' \in Nat
         /\ remaining' > 0 => csr'.tx /\ offset' = o + packet'.n
<1> USE Ep0Assumption
<1>1. /\ (n > 0) \in BOOLEAN /\ (n <= EP0_MAXP) \in BOOLEAN
      /\ csr' = [c EXCEPT !.tx = n > 0, !.dataend = n <= EP0_MAXP]
  BY DEF ep0_send_chunk
<1>2. csr' \in CsrBits
  BY <1>1 DEF CsrBits
<1>3. /\ csr'.rx = c.rx /\ csr'.end = c.end /\ csr'.sent = c.sent
      /\ csr'.sendstall = c.sendstall /\ csr'.tx = (n > 0)
  BY <1>1 DEF CsrBits
<1>4. /\ packet'.of = of /\ packet'.off = o
      /\ packet'.n = IF n <= EP0_MAXP THEN n ELSE EP0_MAXP
  BY DEF ep0_send_chunk
<1>5. /\ remaining' = IF n <= EP0_MAXP THEN 0 ELSE n - EP0_MAXP
      /\ offset' = IF n <= EP0_MAXP THEN 0 ELSE o + EP0_MAXP
  BY DEF ep0_send_chunk
<1>6. packet'.n \in Nat /\ remaining' \in Nat /\ offset' \in Nat
  BY <1>4, <1>5
<1>7. remaining' > 0 => n > 0 /\ offset' = o + packet'.n
  BY <1>4, <1>5
<1> QED
  BY <1>2, <1>3, <1>4, <1>6, <1>7

\* A new SETUP: what is left of the last transfer is announced by SETUPEND.
LEMMA HostSetupKeeps ==
  ASSUME Ep0Inv, HostSetup
  PROVE  Ep0Inv'
<1> USE RequestLength, Ep0Assumption DEF Ep0Inv, HostSetup, NoPacket, ep0_soft, ep0_host
<1>1. Ep0TypeOK'
  BY DEF Ep0TypeOK, CsrBits
<1>2. CsrInv'
  BY DEF Ep0TypeOK, CsrBits, CsrInv, InInv, OutInv
<1>3. InInv'
  BY DEF Ep0TypeOK, CsrBits, CsrInv, InInv, OutInv
<1>4. OutInv'
  BY DEF Ep0TypeOK, CsrBits, CsrInv, InInv, OutInv
<1>5. HostDataIsOwn'
  BY DEF Ep0TypeOK, CsrBits, CsrInv, InInv, OutInv, HostDataIsOwn
<1>6. PacketIsServed'
  BY DEF Ep0TypeOK, CsrBits, CsrInv, InInv, OutInv, PacketIsServed, PacketIsKnown, PacketIsPending
<1> QED
  BY <1>1, <1>2, <1>3, <1>4, <1>5, <1>6

\* The host ends the data stage early.
LEMMA HostEndsEarlyKeeps ==
  ASSUME Ep0Inv, HostEndsEarly
  PROVE  Ep0Inv'
<1> USE RequestLength, Ep0Assumption DEF Ep0Inv, HostEndsEarly, NoPacket, ep0_soft, ep0_host
<1>1. Ep0TypeOK'
  BY DEF Ep0TypeOK, CsrBits
<1>2. CsrInv'
  BY DEF Ep0TypeOK, CsrBits, CsrInv, InInv, OutInv
<1>3. InInv'
  BY DEF Ep0TypeOK, CsrBits, CsrInv, InInv, OutInv
<1>4. OutInv'
  BY DEF Ep0TypeOK, CsrBits, CsrInv, InInv, OutInv
<1>5. HostDataIsOwn'
  BY DEF Ep0TypeOK, CsrBits, CsrInv, InInv, OutInv, HostDataIsOwn
<1>6. PacketIsServed'
  BY DEF Ep0TypeOK, CsrBits, CsrInv, InInv, OutInv, PacketIsServed, PacketIsKnown, PacketIsPending
<1> QED
  BY <1>1, <1>2, <1>3, <1>4, <1>5, <1>6

\* The host sends a packet of its data stage.
LEMMA HostSendsKeeps ==
  ASSUME Ep0Inv, HostSends
  PROVE  Ep0Inv'
<1> USE RequestLength, Ep0Assumption DEF Ep0Inv, HostSends, ep0_soft, ep0_host
<1>1. Ep0TypeOK'
  <2>1. csr' \in CsrBits /\ latch' \in BOOLEAN
    BY DEF Ep0TypeOK, CsrBits
  <2>2. got' \in Nat /\ rxpkt' \in Nat
    BY DEF Ep0TypeOK
  <2> QED
    BY <2>1, <2>2 DEF Ep0TypeOK
<1>2. CsrInv'
  BY DEF Ep0TypeOK, CsrBits, CsrInv, InInv, OutInv
<1>3. InInv'
  BY DEF Ep0TypeOK, CsrBits, CsrInv, InInv, OutInv
<1>4. OutInv'
  BY DEF Ep0TypeOK, CsrBits, CsrInv, InInv, OutInv
<1>5. HostDataIsOwn'
  BY DEF Ep0TypeOK, CsrBits, CsrInv, InInv, OutInv, HostDataIsOwn
<1>6. PacketIsServed'
  BY DEF Ep0TypeOK, CsrBits, CsrInv, InInv, OutInv, PacketIsServed, PacketIsKnown, PacketIsPending
<1> QED
  BY <1>1, <1>2, <1>3, <1>4, <1>5, <1>6

\* The host takes a packet of the reply.
LEMMA HostTakesKeeps ==
  ASSUME Ep0Inv, HostTakes
  PROVE  Ep0Inv'
<1> USE RequestLength, Ep0Assumption DEF Ep0Inv, HostTakes, NoPacket, ep0_soft, ep0_host
<1>1. Ep0TypeOK'
  <2>1. csr' \in CsrBits /\ latch' \in BOOLEAN
    BY DEF Ep0TypeOK, CsrBits
  <2>2. got' \in Nat /\ packet'.n \in Nat
    BY DEF Ep0TypeOK
  <2> QED
    BY <2>1, <2>2 DEF Ep0TypeOK
<1>2. CsrInv'
  BY DEF Ep0TypeOK, CsrBits, CsrInv, InInv, OutInv
<1>3. InInv'
  BY DEF Ep0TypeOK, CsrBits, CsrInv, InInv, OutInv
<1>4. OutInv'
  BY DEF Ep0TypeOK, CsrBits, CsrInv, InInv, OutInv
<1>5. HostDataIsOwn'
  BY DEF Ep0TypeOK, CsrBits, CsrInv, InInv, OutInv, HostDataIsOwn
<1>6. PacketIsServed'
  BY DEF Ep0TypeOK, CsrBits, CsrInv, InInv, OutInv, PacketIsServed, PacketIsKnown, PacketIsPending
<1> QED
  BY <1>1, <1>2, <1>3, <1>4, <1>5, <1>6

\* The status stage closes the transfer.
LEMMA HostStatusKeeps ==
  ASSUME Ep0Inv, HostStatus
  PROVE  Ep0Inv'
<1> USE RequestLength, Ep0Assumption DEF Ep0Inv, HostStatus, ep0_soft, ep0_host
<1>1. Ep0TypeOK'
  BY DEF Ep0TypeOK, CsrBits
<1>2. CsrInv'
  BY DEF Ep0TypeOK, CsrBits, CsrInv, InInv, OutInv
<1>3. InInv'
  BY DEF Ep0TypeOK, CsrBits, CsrInv, InInv, OutInv
<1>4. OutInv'
  BY DEF Ep0TypeOK, CsrBits, CsrInv, InInv, OutInv
<1>5. HostDataIsOwn'
  BY DEF Ep0TypeOK, CsrBits, CsrInv, InInv, OutInv, HostDataIsOwn
<1>6. PacketIsServed'
  BY DEF Ep0TypeOK, CsrBits, CsrInv, InInv, OutInv, PacketIsServed, PacketIsKnown, PacketIsPending
<1> QED
  BY <1>1, <1>2, <1>3, <1>4, <1>5, <1>6

\* The host sees the stall.
LEMMA HostStalledKeeps ==
  ASSUME Ep0Inv, HostStalled
  PROVE  Ep0Inv'
<1> USE RequestLength, Ep0Assumption DEF Ep0Inv, HostStalled, NoPacket, ep0_soft, ep0_host
<1>1. Ep0TypeOK'
  BY DEF Ep0TypeOK, CsrBits
<1>2. CsrInv'
  BY DEF Ep0TypeOK, CsrBits, CsrInv, InInv, OutInv
<1>3. InInv'
  BY DEF Ep0TypeOK, CsrBits, CsrInv, InInv, OutInv
<1>4. OutInv'
  BY DEF Ep0TypeOK, CsrBits, CsrInv, InInv, OutInv
<1>5. HostDataIsOwn'
  BY DEF Ep0TypeOK, CsrBits, CsrInv, InInv, OutInv, HostDataIsOwn
<1>6. PacketIsServed'
  BY DEF Ep0TypeOK, CsrBits, CsrInv, InInv, OutInv, PacketIsServed, PacketIsKnown, PacketIsPending
<1> QED
  BY <1>1, <1>2, <1>3, <1>4, <1>5, <1>6

\* The host resets the bus.
LEMMA HostResetsKeeps ==
  ASSUME Ep0Inv, HostResets
  PROVE  Ep0Inv'
<1> USE RequestLength, Ep0Assumption DEF Ep0Inv, HostResets, Clear, NoPacket, ep0_soft, ep0_host
<1>1. Ep0TypeOK'
  BY DEF Ep0TypeOK, CsrBits
<1>2. CsrInv'
  BY DEF Ep0TypeOK, CsrBits, CsrInv, InInv, OutInv
<1>3. InInv'
  BY DEF Ep0TypeOK, CsrBits, CsrInv, InInv, OutInv
<1>4. OutInv'
  BY DEF Ep0TypeOK, CsrBits, CsrInv, InInv, OutInv
<1>5. HostDataIsOwn'
  BY DEF Ep0TypeOK, CsrBits, CsrInv, InInv, OutInv, HostDataIsOwn
<1>6. PacketIsServed'
  BY DEF Ep0TypeOK, CsrBits, CsrInv, InInv, OutInv, PacketIsServed, PacketIsKnown, PacketIsPending
<1> QED
  BY <1>1, <1>2, <1>3, <1>4, <1>5, <1>6

\* musb_poll reads the latches.
LEMMA LatchKeeps ==
  ASSUME Ep0Inv, poll_latch
  PROVE  Ep0Inv'
<1> USE RequestLength, Ep0Assumption DEF Ep0Inv, poll_latch, handle_bus_reset, ep0_soft, ep0_host
<1>1. Ep0TypeOK'
  <2>1. merged' \in BOOLEAN
    BY Zenon DEF Ep0TypeOK
  <2>2. at' \in {"latch", "csr", "bulk"} /\ latch' \in BOOLEAN /\ reset' \in BOOLEAN
    OBVIOUS
  <2>3. remaining' \in Nat /\ offset' \in Nat /\ out_remaining' \in Nat /\ out_offset' \in Nat
    BY DEF Ep0TypeOK
  <2> QED
    BY <2>1, <2>2, <2>3 DEF Ep0TypeOK
<1>2. CsrInv'
  BY DEF Ep0TypeOK, CsrBits, CsrInv, InInv, OutInv
<1>3. InInv'
  BY DEF Ep0TypeOK, CsrBits, CsrInv, InInv, OutInv
<1>4. OutInv'
  BY DEF Ep0TypeOK, CsrBits, CsrInv, InInv, OutInv
<1>5. HostDataIsOwn'
  BY DEF Ep0TypeOK, CsrBits, CsrInv, InInv, OutInv, HostDataIsOwn
<1>6. PacketIsServed'
  BY DEF Ep0TypeOK, CsrBits, CsrInv, InInv, OutInv, PacketIsServed, PacketIsKnown, PacketIsPending
<1> QED
  BY <1>1, <1>2, <1>3, <1>4, <1>5, <1>6

\* The end of a dropped transfer is served.
LEMMA SetupendKeeps ==
  ASSUME Ep0Inv, poll_csr, serve_setupend
  PROVE  Ep0Inv'
<1> USE RequestLength, Ep0Assumption DEF Ep0Inv, poll_csr, serve_setupend, ep0_soft, ep0_host
<1>1. Ep0TypeOK'
  BY DEF Ep0TypeOK, CsrBits
<1>2. CsrInv'
  BY DEF Ep0TypeOK, CsrBits, CsrInv, InInv, OutInv
<1>3. InInv'
  BY DEF Ep0TypeOK, CsrBits, CsrInv, InInv, OutInv
<1>4. OutInv'
  BY DEF Ep0TypeOK, CsrBits, CsrInv, InInv, OutInv
<1>5. HostDataIsOwn'
  BY DEF Ep0TypeOK, CsrBits, CsrInv, InInv, OutInv, HostDataIsOwn
<1>6. PacketIsServed'
  BY DEF Ep0TypeOK, CsrBits, CsrInv, InInv, OutInv, PacketIsServed, PacketIsKnown, PacketIsPending
<1> QED
  BY <1>1, <1>2, <1>3, <1>4, <1>5, <1>6

\* The end of a stall is served.
LEMMA SentstallKeeps ==
  ASSUME Ep0Inv, poll_csr, serve_sentstall
  PROVE  Ep0Inv'
<1> USE RequestLength, Ep0Assumption DEF Ep0Inv, poll_csr, serve_sentstall, ep0_soft, ep0_host
<1>1. Ep0TypeOK'
  BY DEF Ep0TypeOK, CsrBits
<1>2. CsrInv'
  BY DEF Ep0TypeOK, CsrBits, CsrInv, InInv, OutInv
<1>3. InInv'
  BY DEF Ep0TypeOK, CsrBits, CsrInv, InInv, OutInv
<1>4. OutInv'
  BY DEF Ep0TypeOK, CsrBits, CsrInv, InInv, OutInv
<1>5. HostDataIsOwn'
  BY DEF Ep0TypeOK, CsrBits, CsrInv, InInv, OutInv, HostDataIsOwn
<1>6. PacketIsServed'
  BY DEF Ep0TypeOK, CsrBits, CsrInv, InInv, OutInv, PacketIsServed, PacketIsKnown, PacketIsPending
<1> QED
  BY <1>1, <1>2, <1>3, <1>4, <1>5, <1>6

\* A packet of line coding is served.  It is data: a SETUP would find
\* g_ep0_out_remaining at zero.
LEMMA OutKeeps ==
  ASSUME Ep0Inv, poll_csr, serve_packet, out_remaining > 0
  PROVE  Ep0Inv'
<1> USE RequestLength, Ep0Assumption DEF Ep0Inv, poll_csr, serve_packet, ep0_soft, ep0_host
<1>a. ~reset /\ active /\ rxpkt > 0 /\ req.kind = "out" /\ req.len \in Nat
  BY DEF Ep0TypeOK, CsrBits, CsrInv, PacketIsServed, PacketIsKnown
<1>b. out_remaining = req.len - got + rxpkt /\ got <= req.len
  BY <1>a DEF OutInv
<1>c. out_remaining' = req.len - got /\ out_remaining' \in Nat
  BY <1>a, <1>b DEF handle_ep0_out, Ep0TypeOK
<1>d. out_offset' \in Nat /\ out_offset' <= LINE_CODING
  BY DEF handle_ep0_out, Ep0TypeOK
<1>e. /\ csr' \in CsrBits /\ ~csr'.rx /\ csr'.tx = csr.tx /\ csr'.end = csr.end
      /\ csr'.sent = csr.sent /\ csr'.sendstall = csr.sendstall
      /\ csr'.dataend => out_remaining' = 0
  <2>1. csr' = [csr EXCEPT !.rx = FALSE, !.dataend = (out_remaining' = 0)]
    BY DEF handle_ep0_out
  <2>2. (out_remaining' = 0) \in BOOLEAN
    OBVIOUS
  <2>3. csr' \in CsrBits
    BY <2>1, <2>2 DEF Ep0TypeOK, CsrBits
  <2>4. csr'.dataend = (out_remaining' = 0)
    BY <2>1 DEF Ep0TypeOK, CsrBits
  <2>5. /\ ~csr'.rx /\ csr'.tx = csr.tx /\ csr'.end = csr.end
        /\ csr'.sent = csr.sent /\ csr'.sendstall = csr.sendstall
    BY <2>1 DEF Ep0TypeOK, CsrBits
  <2> QED
    BY <2>3, <2>4, <2>5
<1>f. UNCHANGED <<buf, remaining, offset, packet>>
  BY DEF handle_ep0_out
<1>1. Ep0TypeOK'
  BY <1>c, <1>d, <1>e, <1>f DEF Ep0TypeOK
<1>2. CsrInv'
  BY <1>a, <1>e DEF CsrInv
<1>3. InInv'
  BY <1>a, <1>e, <1>f DEF CsrInv, InInv
<1>4. OutInv'
  BY <1>a, <1>b, <1>c, <1>e DEF CsrInv, OutInv
<1>5. HostDataIsOwn'
  BY <1>e, <1>f DEF CsrInv, HostDataIsOwn
<1>6. PacketIsServed'
  BY <1>d, <1>e DEF PacketIsServed, PacketIsKnown, PacketIsPending
<1> QED
  BY <1>1, <1>2, <1>3, <1>4, <1>5, <1>6

\* SET_LINE_CODING is served.
LEMMA ExpectKeeps ==
  ASSUME Ep0Inv, poll_csr, serve_packet, ep0_expect_out, out_remaining = 0, req.kind = "out"
  PROVE  Ep0Inv'
<1> USE RequestLength, Ep0Assumption DEF Ep0Inv, poll_csr, serve_packet, ep0_expect_out,
    ep0_soft, ep0_host
<1>1. Ep0TypeOK'
  BY DEF Ep0TypeOK, CsrBits
<1>2. CsrInv'
  BY DEF Ep0TypeOK, CsrBits, CsrInv, InInv, OutInv
<1>3. InInv'
  BY DEF Ep0TypeOK, CsrBits, CsrInv, InInv, OutInv
<1>4. OutInv'
  BY DEF Ep0TypeOK, CsrBits, CsrInv, InInv, OutInv
<1>5. HostDataIsOwn'
  BY DEF Ep0TypeOK, CsrBits, CsrInv, InInv, OutInv, HostDataIsOwn
<1>6. PacketIsServed'
  BY DEF Ep0TypeOK, CsrBits, CsrInv, InInv, OutInv, PacketIsServed, PacketIsKnown, PacketIsPending
<1> QED
  BY <1>1, <1>2, <1>3, <1>4, <1>5, <1>6

\* A request for a reply is served: its first packet is the reply's beginning.
LEMMA QueueKeeps ==
  ASSUME Ep0Inv, poll_csr, serve_packet, ep0_queue, out_remaining = 0, req.kind = "in"
  PROVE  Ep0Inv'
<1> USE RequestLength, Ep0Assumption DEF Ep0Inv, poll_csr, serve_packet, ep0_soft, ep0_host
<1>a. /\ active /\ got = 0 /\ UNCHANGED <<out_remaining, out_offset>>
      /\ buf' = tag
  BY DEF Ep0TypeOK, CsrInv, ep0_queue
<1>b. /\ csr' \in CsrBits
      /\ csr'.rx = FALSE /\ csr'.end = csr.end /\ csr'.sent = csr.sent
      /\ csr'.sendstall = csr.sendstall
      /\ packet'.of = tag /\ packet'.off = 0 /\ packet'.n \in Nat
      /\ remaining' \in Nat /\ offset' \in Nat
      /\ remaining' > 0 => csr'.tx /\ offset' = 0 + packet'.n
  <2>1. [csr EXCEPT !.rx = FALSE] \in CsrBits /\ req.len \in Nat
    BY DEF Ep0TypeOK, CsrBits
  <2>2. ep0_send_chunk([csr EXCEPT !.rx = FALSE], tag, req.len, 0)
    BY DEF ep0_queue
  <2> HIDE DEF poll_csr, serve_packet
  <2>3. /\ [csr EXCEPT !.rx = FALSE].rx = FALSE /\ [csr EXCEPT !.rx = FALSE].end = csr.end
        /\ [csr EXCEPT !.rx = FALSE].sent = csr.sent
        /\ [csr EXCEPT !.rx = FALSE].sendstall = csr.sendstall
    BY DEF Ep0TypeOK, CsrBits
  <2> QED
    BY <2>1, <2>2, <2>3, ChunkFacts
<1>1. Ep0TypeOK'
  BY <1>a, <1>b DEF Ep0TypeOK
<1>2. CsrInv'
  BY <1>a, <1>b DEF CsrInv
<1>3. InInv'
  BY <1>a, <1>b DEF CsrInv, InInv
<1>4. OutInv'
  BY <1>a, <1>b DEF CsrInv, OutInv
<1>5. HostDataIsOwn'
  BY <1>a, <1>b DEF CsrInv, HostDataIsOwn
<1>6. PacketIsServed'
  BY <1>a, <1>b DEF PacketIsServed, PacketIsKnown, PacketIsPending
<1> QED
  BY <1>1, <1>2, <1>3, <1>4, <1>5, <1>6

\* A request without data is served.
LEMMA StatusKeeps ==
  ASSUME Ep0Inv, poll_csr, serve_packet, ep0_status, out_remaining = 0,
         req.kind \in {"status", "address"}
  PROVE  Ep0Inv'
<1> USE RequestLength, Ep0Assumption DEF Ep0Inv, poll_csr, serve_packet, ep0_status, ep0_soft,
    ep0_host
<1>1. Ep0TypeOK'
  BY DEF Ep0TypeOK, CsrBits
<1>2. CsrInv'
  BY DEF Ep0TypeOK, CsrBits, CsrInv, InInv, OutInv
<1>3. InInv'
  BY DEF Ep0TypeOK, CsrBits, CsrInv, InInv, OutInv
<1>4. OutInv'
  BY DEF Ep0TypeOK, CsrBits, CsrInv, InInv, OutInv
<1>5. HostDataIsOwn'
  BY DEF Ep0TypeOK, CsrBits, CsrInv, InInv, OutInv, HostDataIsOwn
<1>6. PacketIsServed'
  BY DEF Ep0TypeOK, CsrBits, CsrInv, InInv, OutInv, PacketIsServed, PacketIsKnown, PacketIsPending
<1> QED
  BY <1>1, <1>2, <1>3, <1>4, <1>5, <1>6

\* A request is refused; the rest of the last reply stays in the software.
LEMMA StallKeeps ==
  ASSUME Ep0Inv, poll_csr, serve_packet, ep0_stall, out_remaining = 0, req.kind = "stall"
  PROVE  Ep0Inv'
<1> USE RequestLength, Ep0Assumption DEF Ep0Inv, poll_csr, serve_packet, ep0_stall, ep0_soft,
    ep0_host
<1>1. Ep0TypeOK'
  BY DEF Ep0TypeOK, CsrBits
<1>2. CsrInv'
  BY DEF Ep0TypeOK, CsrBits, CsrInv, InInv, OutInv
<1>3. InInv'
  BY DEF Ep0TypeOK, CsrBits, CsrInv, InInv, OutInv
<1>4. OutInv'
  BY DEF Ep0TypeOK, CsrBits, CsrInv, InInv, OutInv
<1>5. HostDataIsOwn'
  BY DEF Ep0TypeOK, CsrBits, CsrInv, InInv, OutInv, HostDataIsOwn
<1>6. PacketIsServed'
  BY DEF Ep0TypeOK, CsrBits, CsrInv, InInv, OutInv, PacketIsServed, PacketIsKnown, PacketIsPending
<1> QED
  BY <1>1, <1>2, <1>3, <1>4, <1>5, <1>6

\* A packet is out, and the next one goes.
LEMMA SentKeeps ==
  ASSUME Ep0Inv, poll_csr, serve_sent, ~csr.tx, remaining > 0
  PROVE  Ep0Inv'
<1> USE RequestLength, Ep0Assumption DEF Ep0Inv, poll_csr, serve_sent, ep0_soft, ep0_host
<1>a. /\ UNCHANGED <<out_remaining, out_offset, buf>> /\ out_remaining = 0
      /\ active /\ ~csr.sendstall => buf = tag /\ offset = got
  BY DEF Ep0TypeOK, CsrBits, CsrInv, InInv
<1>b. /\ csr' \in CsrBits
      /\ csr'.rx = FALSE /\ csr'.end = csr.end /\ csr'.sent = csr.sent
      /\ csr'.sendstall = csr.sendstall
      /\ packet'.of = buf /\ packet'.off = offset /\ packet'.n \in Nat
      /\ remaining' \in Nat /\ offset' \in Nat
      /\ remaining' > 0 => csr'.tx /\ offset' = offset + packet'.n
  BY ChunkFacts DEF Ep0TypeOK
<1>1. Ep0TypeOK'
  BY <1>a, <1>b DEF Ep0TypeOK
<1>2. CsrInv'
  BY <1>a, <1>b DEF CsrInv
<1>3. InInv'
  BY <1>a, <1>b DEF CsrInv, InInv
<1>4. OutInv'
  BY <1>a, <1>b DEF CsrInv, OutInv
<1>5. HostDataIsOwn'
  BY <1>a, <1>b DEF CsrInv, HostDataIsOwn
<1>6. PacketIsServed'
  BY <1>a, <1>b DEF PacketIsServed, PacketIsKnown, PacketIsPending
<1> QED
  BY <1>1, <1>2, <1>3, <1>4, <1>5, <1>6

\* Nothing is to be done.
LEMMA NotSentKeeps ==
  ASSUME Ep0Inv, poll_csr, serve_sent, csr.tx \/ ~(remaining > 0)
  PROVE  Ep0Inv'
<1> USE RequestLength, Ep0Assumption DEF Ep0Inv, poll_csr, serve_sent, ep0_soft, ep0_host
<1>1. Ep0TypeOK'
  BY DEF Ep0TypeOK, CsrBits
<1>2. CsrInv'
  BY DEF Ep0TypeOK, CsrBits, CsrInv, InInv, OutInv
<1>3. InInv'
  BY DEF Ep0TypeOK, CsrBits, CsrInv, InInv, OutInv
<1>4. OutInv'
  BY DEF Ep0TypeOK, CsrBits, CsrInv, InInv, OutInv
<1>5. HostDataIsOwn'
  BY DEF Ep0TypeOK, CsrBits, CsrInv, InInv, OutInv, HostDataIsOwn
<1>6. PacketIsServed'
  BY DEF Ep0TypeOK, CsrBits, CsrInv, InInv, OutInv, PacketIsServed, PacketIsKnown, PacketIsPending
<1> QED
  BY <1>1, <1>2, <1>3, <1>4, <1>5, <1>6

\* The wait of SET_ADDRESS ends.
LEMMA AddressKeeps ==
  ASSUME Ep0Inv, set_address
  PROVE  Ep0Inv'
<1> USE RequestLength, Ep0Assumption DEF Ep0Inv, set_address, ep0_soft, ep0_host
<1>1. Ep0TypeOK'
  BY DEF Ep0TypeOK, CsrBits
<1>2. CsrInv'
  BY DEF Ep0TypeOK, CsrBits, CsrInv, InInv, OutInv
<1>3. InInv'
  BY DEF Ep0TypeOK, CsrBits, CsrInv, InInv, OutInv
<1>4. OutInv'
  BY DEF Ep0TypeOK, CsrBits, CsrInv, InInv, OutInv
<1>5. HostDataIsOwn'
  BY DEF Ep0TypeOK, CsrBits, CsrInv, InInv, OutInv, HostDataIsOwn
<1>6. PacketIsServed'
  BY DEF Ep0TypeOK, CsrBits, CsrInv, InInv, OutInv, PacketIsServed, PacketIsKnown, PacketIsPending
<1> QED
  BY <1>1, <1>2, <1>3, <1>4, <1>5, <1>6

\* The bulk endpoints had their turn.
LEMMA BulkKeeps ==
  ASSUME Ep0Inv, poll_bulk
  PROVE  Ep0Inv'
<1> USE RequestLength, Ep0Assumption DEF Ep0Inv, poll_bulk, ep0_soft, ep0_host
<1>1. Ep0TypeOK'
  BY DEF Ep0TypeOK, CsrBits
<1>2. CsrInv'
  BY DEF Ep0TypeOK, CsrBits, CsrInv, InInv, OutInv
<1>3. InInv'
  BY DEF Ep0TypeOK, CsrBits, CsrInv, InInv, OutInv
<1>4. OutInv'
  BY DEF Ep0TypeOK, CsrBits, CsrInv, InInv, OutInv
<1>5. HostDataIsOwn'
  BY DEF Ep0TypeOK, CsrBits, CsrInv, InInv, OutInv, HostDataIsOwn
<1>6. PacketIsServed'
  BY DEF Ep0TypeOK, CsrBits, CsrInv, InInv, OutInv, PacketIsServed, PacketIsKnown, PacketIsPending
<1> QED
  BY <1>1, <1>2, <1>3, <1>4, <1>5, <1>6

\* Every step of the control endpoint keeps Ep0Inv.
LEMMA Ep0InvNext == Ep0Inv /\ [Ep0Next]_ep0_vars => Ep0Inv'
<1> SUFFICES ASSUME Ep0Inv, [Ep0Next]_ep0_vars PROVE Ep0Inv'
  OBVIOUS
<1>0. CASE UNCHANGED ep0_vars
  BY <1>0 DEF ep0_vars, ep0_soft, ep0_host, Ep0Inv, Ep0TypeOK, CsrInv, InInv, OutInv, HostDataIsOwn,
     PacketIsServed, PacketIsKnown, PacketIsPending
<1>1. CASE poll_latch \/ set_address \/ poll_bulk
  BY <1>1, LatchKeeps, AddressKeeps, BulkKeeps
<1>2. CASE poll_csr
  <2>1. CASE serve_packet
    <3>1. CASE out_remaining > 0
      BY <1>2, <2>1, <3>1, OutKeeps
    <3>2. CASE ~(out_remaining > 0)
      <4>1. handle_setup /\ out_remaining = 0
        BY <2>1, <3>2 DEF serve_packet, Ep0Inv, Ep0TypeOK
      <4> QED
        BY <1>2, <2>1, <4>1, ExpectKeeps, QueueKeeps, StatusKeeps, StallKeeps
        DEF handle_setup, handle_class_setup
    <3> QED
      BY <3>1, <3>2
  <2>2. CASE serve_sent
    BY <1>2, <2>2, SentKeeps, NotSentKeeps
  <2> QED
    BY <1>2, <2>1, <2>2, SetupendKeeps, SentstallKeeps DEF poll_csr
<1>3. CASE Ep0Host
  BY <1>3, HostSetupKeeps, HostEndsEarlyKeeps, HostSendsKeeps, HostTakesKeeps, HostStatusKeeps,
     HostStalledKeeps, HostResetsKeeps DEF Ep0Host
<1> QED
  BY <1>0, <1>1, <1>2, <1>3 DEF Ep0Next, poll

\* A step of the device is a step of its control endpoint and a step of its
\* bulk endpoint, one of which may rest.
LEMMA MusbSteps == [MusbNext]_musb_vars => [Ep0Next]_ep0_vars /\ [Next]_vars
  BY DEF MusbNext, musb_vars, musb_poll, handle_bulk_out, bulk_send, Host, Ep0Next, Next

LEMMA MusbInvariant == MusbSpec => [](Ep0Inv /\ IInv)
<1>1. MusbInit => Ep0Inv /\ IInv
  BY Ep0InvInit, InitIInv DEF MusbInit
<1>2. Ep0Inv /\ IInv /\ [MusbNext]_musb_vars => (Ep0Inv /\ IInv)'
  BY MusbSteps, Ep0InvNext, NextIInv
<1> QED
  BY <1>1, <1>2, PTL DEF MusbSpec

\* In the data stage of a transfer the host reads the reply to its request, from
\* the beginning and without a gap, however the transfers before it ended.
THEOREM HostDataIsOwnTheorem == MusbSpec => []HostDataIsOwn
<1>1. Ep0Inv /\ IInv => HostDataIsOwn
  BY DEF Ep0Inv
<1> QED
  BY <1>1, MusbInvariant, PTL

\* No SETUP is taken for data and no data for a SETUP, g_line_coding is not
\* overrun, and a packet that came has an interrupt, except where one poll
\* found two events.
THEOREM PacketIsServedTheorem == MusbSpec => []PacketIsServed
<1>1. Ep0Inv /\ IInv => PacketIsServed
  BY DEF Ep0Inv
<1> QED
  BY <1>1, MusbInvariant, PTL

\* The host has every whole reply also when control events come between its
\* packets: the endpoints do not disturb one another.
THEOREM MusbHostHasReplyTheorem == MusbSpec => []HostHasReply
<1>1. Ep0Inv /\ IInv => HostHasReply
  BY DEF IInv
<1> QED
  BY <1>1, MusbInvariant, PTL

=============================================================================
