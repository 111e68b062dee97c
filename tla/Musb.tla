-------------------------------- MODULE Musb -------------------------------
(***************************************************************************)
(* The USB device of the gdb stub (baremetal/gdbstub/musb.c): the control  *)
(* endpoint and the bulk IN endpoint under one polling loop.  A reply is   *)
(* sent from inside musb_poll (handle_bulk_out, rsp_feed), so while        *)
(* musb_bulk_send waits for the host, control events only accumulate.      *)
(***************************************************************************)
EXTENDS BulkIn, Ep0

musb_vars == <<vars, ep0_vars>>

MusbInit == Init /\ Ep0Init

\* gdbstub_main polls; no reply is being sent.
musb_poll == len = 0 /\ (poll \/ poll_bulk) /\ UNCHANGED vars

\* A bulk packet came, and rsp_feed has a reply to it.
handle_bulk_out == poll_bulk /\ Reply

bulk_send == (send_packet \/ tx_timeout) /\ UNCHANGED ep0_vars

Host == \/ (HostReads \/ HostGoes) /\ UNCHANGED ep0_vars
        \/ Ep0Host /\ UNCHANGED vars

MusbNext == musb_poll \/ handle_bulk_out \/ bulk_send \/ Host

\* The stub runs; the host owes nothing.
MusbSpec == MusbInit /\ [][MusbNext]_musb_vars
            /\ WF_musb_vars(musb_poll \/ handle_bulk_out) /\ WF_musb_vars(bulk_send)

(* A control packet is served although replies are sent in between, unless *)
(* the host sends another SETUP: no host can keep the stub from its        *)
(* control endpoint by not reading (bulk_tx_wait, musb_poll).              *)
ControlIsServed ==
  \A t \in Tags : (csr.rx /\ ~merged /\ tag = t) ~> (~csr.rx \/ merged \/ tag # t)
=============================================================================
