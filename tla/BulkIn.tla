------------------------------- MODULE BulkIn ------------------------------
(***************************************************************************)
(* Replies of the GDB stub over the USB bulk IN endpoint                   *)
(* (musb_bulk_send and bulk_tx_wait in baremetal/gdbstub/musb.c), and the  *)
(* host that reads them.  A reply is its length: musb_bulk_send cuts it    *)
(* into packets for a FIFO of one packet.  The host's read request ends    *)
(* with a packet shorter than the endpoint's maximum.                      *)
(***************************************************************************)
EXTENDS Integers

CONSTANTS MAXP,      \* g_bulk_maxp
          MaxReply,  \* the longest reply
          URB_SIZE   \* the longest read request of the host

ASSUME BulkAssumption ==
  MAXP \in Nat /\ MAXP > 1 /\ MaxReply \in Nat /\ URB_SIZE \in Nat

VARIABLES
  len,       \* what musb_bulk_send has still to send; 0 when it returned
  fifo,      \* the packet in the FIFO, 0 without TXPKTRDY
  urb,       \* what the host's open read request holds
  alive,     \* the host reads
  dropped    \* ghost: a reply was cut off, and its bytes are in urb or fifo

vars == <<len, fifo, urb, alive, dropped>>

Init == len = 0 /\ fifo = 0 /\ urb = 0 /\ alive = TRUE /\ dropped = FALSE

\* rsp.c has a reply.
Reply ==
  /\ len = 0 /\ len' \in 1 .. MaxReply
  /\ UNCHANGED <<fifo, urb, alive, dropped>>

\* Mutant: a full last packet stays full.
Packet_full(n) == IF n > MAXP THEN MAXP ELSE n

\* A full last packet is shortened by one byte.
Packet(n) == IF n = MAXP THEN MAXP - 1 ELSE IF n > MAXP THEN MAXP ELSE n

\* One turn of the loop of musb_bulk_send, when the FIFO is free.
send_packet ==
  /\ len > 0 /\ fifo = 0
  /\ fifo' = Packet(len) /\ len' = len - Packet(len)
  /\ UNCHANGED <<urb, alive, dropped>>

\* Mutant: the wait has no limit.
tx_timeout_never == FALSE /\ UNCHANGED vars

\* bulk_tx_wait gives up after TX_WAIT_LIMIT looks, and the rest is dropped.
tx_timeout ==
  /\ len > 0 /\ fifo > 0
  /\ len' = 0 /\ dropped' = TRUE
  /\ UNCHANGED <<fifo, urb, alive>>

\* The host takes the packet; a short one ends its request, and so does a
\* request that is full.
HostReads ==
  /\ alive /\ fifo > 0
  /\ fifo' = 0
  /\ urb' = IF fifo < MAXP \/ urb + fifo >= URB_SIZE THEN 0 ELSE urb + fifo
  /\ dropped' = (dropped /\ urb' > 0)
  /\ UNCHANGED <<len, alive>>

HostGoes == alive /\ alive' = FALSE /\ UNCHANGED <<len, fifo, urb, dropped>>

Next == Reply \/ send_packet \/ tx_timeout \/ HostReads \/ HostGoes

\* The stub does not stop; the host owes nothing.
Spec == Init /\ [][Next]_vars /\ WF_vars(send_packet \/ tx_timeout)

-----------------------------------------------------------------------------
(* Properties.                                                             *)

(* When a whole reply is sent and read, no byte of it waits in the host's  *)
(* open request: the host has the reply.  Only bytes of a reply that was   *)
(* dropped can wait (the shortened last packet of musb_bulk_send).         *)
HostHasReply == len = 0 /\ fifo = 0 /\ urb > 0 => dropped

=============================================================================
