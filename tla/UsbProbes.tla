------------------------------ MODULE UsbProbes -----------------------------
(***************************************************************************)
(* The probes of the CH374 bridge (baremetal/probes/spi): eight programs   *)
(* that go further and further into the enumeration of the keyboard and    *)
(* leave what they saw in the words of OUT.  A probe is a sequence of      *)
(* steps; a control transfer is one token at a time, so that the keyboard  *)
(* can go, NAK or lose a token anywhere.                                   *)
(*                                                                         *)
(* The registers that a probe only copies to OUT are cells without a       *)
(* value; a descriptor is the packets that it came in.                     *)
(***************************************************************************)
EXTENDS Integers, Sequences, FiniteSets

CONSTANTS PACKET,        \* bytes of a full packet of endpoint 0: 8
          MaxTokenFaults \* bound: tokens that go wrong

ASSUME UsbProbesAssumption == PACKET \in Nat \ {0} /\ MaxTokenFaults \in Nat

VARIABLES
  probe,         \* the program
  step, phase,   \* its step, and where a transfer is
  ptoggle,       \* the toggle of the next IN token
  left, got,     \* requested, got: bytes
  packets,       \* ghost: the packets in the descriptor buffer, by number
  ret,           \* the results of the transfers so far: "ok", "nak", "err"
  out,           \* which parts of the steps wrote a word of OUT
  g_error,       \* an SPI wait ran out
  usb,           \* the keyboard: [there, addr, cfg, toggle, pkt, len, req]
  tfaults

probe_vars == <<probe, step, phase, ptoggle, left, got, packets, ret, out, g_error, usb, tfaults>>

OutWords == 0 .. 143

\* Steps.  parts are the groups of words that a step writes; a transfer or a
\* sample runs when as many transfers before it as need says were good.
Words(c) == [op |-> "words", parts |-> <<c>>]
Reset(c) == [op |-> "reset", parts |-> <<c>>]
Status(req, setup, in, need, c) ==
  [op |-> "status", req |-> req, need |-> need, parts |-> <<c, setup .. setup + 2, in .. in + 3>>]
Get(len, tries, setup, row, chunk, desc, last, c) ==
  [op |-> "get", len |-> len, tries |-> tries,
   parts |-> <<c, setup .. setup + 2, row .. row + 4 * tries - 1, chunk .. chunk + tries - 1,
               desc .. desc + (len + 3) \div 4 - 1, last .. last + 2>>]
Sample(c) == [op |-> "sample", need |-> 2, parts |-> <<c>>]

\* ch374_attach_probe.c: no token.
attach_probe == <<Words(0 .. 3), Words(8 .. 23), Words(24 .. 39), Words(40 .. 55), Words(4 .. 7)>>

\* ch374_devdesc_probe.c
devdesc_probe ==
  <<Words(0 .. 3), Words(8 .. 17), Reset(18 .. 27), Get(18, 4, 32, 40, 56, 64, 36, {4}),
    Words((5 .. 7) \cup (28 .. 31) \cup (60 .. 63))>>

\* ch374_cfg9_probe.c
cfg9_probe ==
  <<Words(0 .. 3), Reset(4 .. 7), Get(9, 2, 16, 24, 40, 48, 20, {8}), Words(9 .. 15)>>

\* Mutant: the rows of the tokens run into the row of the sizes.
cfgfull_probe_rows ==
  <<Words(0 .. 3), Reset(4 .. 7), Get(59, 8, 16, 24, 40, 64, 20, {8}), Words(9 .. 15)>>

\* ch374_cfgfull_probe.c
cfgfull_probe ==
  <<Words(0 .. 3), Reset(4 .. 7), Get(59, 8, 16, 24, 56, 64, 20, {8}), Words(9 .. 15)>>

\* ch374_setaddr_probe.c
setaddr_probe ==
  <<Words(0 .. 3), Reset(4 .. 7), Status("address", 16, 24, 0, {8}), Words(9 .. 15)>>

\* ch374_setconfig_probe.c
setconfig_probe ==
  <<Words(0 .. 3), Reset(4 .. 7), Status("address", 16, 20, 0, {}), Status("config", 32, 36, 1, {}),
    Words(8 .. 15)>>

\* ch374_ep81_probe.c
ep81_probe ==
  <<Words(0 .. 3), Reset({}), Status("address", 16, 20, 0, {4}), Status("config", 32, 36, 1, {5}),
    Sample(48 .. 51), Words(6 .. 15)>>

\* ch374_ep81_sample_probe.c: SAMPLE_COUNT rows of SAMPLE_WORDS from SAMPLE_BASE on.
ep81_sample_probe ==
  <<Words(0 .. 3), Reset({}), Status("address", 16, 20, 0, {4}), Status("config", 32, 36, 1, {5})>>
    \o [i \in 1 .. 24 |-> Sample(48 + 4 * (i - 1) .. 48 + 4 * i - 1)] \o <<Words(6 .. 13)>>

Probes == {attach_probe, devdesc_probe, cfg9_probe, cfgfull_probe, setaddr_probe, setconfig_probe,
           ep81_probe, ep81_sample_probe}

Away == [there |-> FALSE, addr |-> 0, cfg |-> FALSE, toggle |-> 0, pkt |-> 0, len |-> 0, req |-> "none"]

UsbProbesInit ==
  /\ probe \in Probes /\ step = 1 /\ phase = "start" /\ ptoggle = 0
  /\ left = 0 /\ got = 0 /\ packets = <<>> /\ ret = <<>> /\ out = [c \in OutWords |-> {}]
  /\ g_error = FALSE /\ usb \in {Away, [Away EXCEPT !.there = TRUE]} /\ tfaults = 0

This == probe[step]
Running == step <= Len(probe)
Write == out' = [c \in OutWords |->
                   out[c] \cup {<<step, i>> : i \in {j \in 1 .. Len(This.parts) : c \in This.parts[j]}}]
Done == step' = step + 1 /\ phase' = "start" /\ Write
Skipped == "need" \in DOMAIN This /\ ~(Len(ret) >= This.need /\ \A i \in 1 .. This.need : ret[i] = "ok")
NoTransfer == UNCHANGED <<ptoggle, left, got, packets, ret>>

words_step ==
  /\ Running /\ phase = "start" /\ (This.op = "words" \/ Skipped)
  /\ step' = step + 1 /\ phase' = "start" /\ (IF Skipped THEN UNCHANGED out ELSE Write)
  /\ NoTransfer /\ UNCHANGED <<probe, g_error, usb, tfaults>>

\* stage1, stage2 and port0_reset_enable.
port_reset ==
  /\ Running /\ This.op = "reset"
  /\ usb' = [usb EXCEPT !.addr = 0, !.cfg = FALSE] /\ Done
  /\ NoTransfer /\ UNCHANGED <<probe, g_error, tfaults>>

-----------------------------------------------------------------------------
(* Tokens.  A fault is an error without effect, a lost ACK, or a wait of   *)
(* SPI that runs out: r10 reads as 0, a NAK, for a token that was served.  *)

Address == IF \E i \in 1 .. step - 1 : probe[i].op = "status" THEN 2 ELSE 0
Listens == usb.there /\ usb.addr = Address
TokenFault == tfaults < MaxTokenFaults /\ tfaults' = tfaults + 1

Fails(r) == ret' = Append(ret, r) /\ Done /\ UNCHANGED <<ptoggle, left, got, packets>>

setup_token ==
  /\ Running /\ phase = "start" /\ This.op \in {"status", "get"} /\ ~Skipped
  /\ \/ /\ Listens
        /\ usb' = [usb EXCEPT !.pkt = 0, !.toggle = 1,
                     !.req = IF This.op = "get" THEN "get" ELSE This.req,
                     !.len = IF This.op = "get" THEN This.len ELSE 0]
        /\ phase' = (IF This.op = "get" THEN "data" ELSE "in") /\ ptoggle' = 1
        /\ left' = (IF This.op = "get" THEN This.len ELSE 0) /\ got' = 0 /\ packets' = <<>>
        /\ UNCHANGED <<step, out, ret, g_error, tfaults>>
     \/ ~Listens /\ Fails("err") /\ UNCHANGED <<usb, g_error, tfaults>>
     \/ Listens /\ TokenFault /\ Fails("err") /\ UNCHANGED usb /\ g_error' \in {g_error, TRUE}
  /\ UNCHANGED probe

\* The status stage of a request without data; 20 NAKs end it.
Served == CASE usb.req = "address" -> [usb EXCEPT !.addr = 2, !.req = "none"]
            [] usb.req = "config" -> [usb EXCEPT !.cfg = TRUE, !.toggle = 0, !.req = "none"]
            [] OTHER -> [usb EXCEPT !.req = "none"]

\* Mutant: the last NAK counts as an answer.
status_token_nak ==
  /\ Running /\ phase = "in"
  /\ \/ Listens /\ usb' = Served /\ ret' = Append(ret, "ok") /\ Done /\ ptoggle' = 0
        /\ UNCHANGED <<left, got, packets, g_error, tfaults>>
     \/ Fails("ok") /\ UNCHANGED <<usb, g_error, tfaults>>
     \/ TokenFault /\ Fails("err") /\ usb' \in {usb, Served} /\ UNCHANGED g_error
  /\ UNCHANGED probe

status_token ==
  /\ Running /\ phase = "in"
  /\ \/ Listens /\ usb' = Served /\ ret' = Append(ret, "ok") /\ Done /\ ptoggle' = 0
        /\ UNCHANGED <<left, got, packets, g_error, tfaults>>
     \/ Fails("nak") /\ UNCHANGED <<usb, g_error, tfaults>>
     \/ TokenFault /\ Fails("err") /\ usb' \in {usb, Served} /\ UNCHANGED g_error
  /\ UNCHANGED probe

Smaller(a, b) == IF a < b THEN a ELSE b
Rest == usb.len - PACKET * usb.pkt
Size == IF Rest < 0 THEN 0 ELSE Smaller(PACKET, Rest)  \* an empty packet follows the last one
Sent == [usb EXCEPT !.pkt = @ + 1, !.toggle = 1 - @]

\* Mutant: the toggle of the packet is not looked at.
take_chunk_any ==
  LET chunk == Smaller(Size, left)
  IN /\ Listens
     /\ got' = got + chunk /\ left' = left - chunk /\ packets' = Append(packets, usb.pkt)
     /\ ptoggle' = 1 - ptoggle
     /\ phase' = IF chunk < PACKET \/ left = chunk \/ Len(packets) + 1 = This.tries THEN "out" ELSE "data"

\* A packet with the expected toggle; a short one or the last try ends the stage.
take_chunk ==
  LET chunk == Smaller(Size, left)
  IN /\ Listens /\ usb.toggle = ptoggle
     /\ got' = got + chunk /\ left' = left - chunk /\ packets' = Append(packets, usb.pkt)
     /\ ptoggle' = 1 - ptoggle
     /\ phase' = IF chunk < PACKET \/ left = chunk \/ Len(packets) + 1 = This.tries THEN "out" ELSE "data"

\* The data stage of get_device_desc, get_config9 and get_config_full.
data_token ==
  /\ Running /\ phase = "data"
  /\ \/ take_chunk /\ usb' = Sent /\ UNCHANGED <<ret, g_error, tfaults>>
     \/ take_chunk /\ TokenFault /\ UNCHANGED <<usb, ret, g_error>>     \* its ACK is lost
     \/ /\ Listens /\ usb.toggle # ptoggle /\ usb' = Sent /\ phase' = "out"
        /\ UNCHANGED <<ptoggle, left, got, packets, ret, g_error, tfaults>>
     \/ /\ ~Listens /\ phase' = "out"      \* 20 NAKs
        /\ UNCHANGED <<usb, ptoggle, left, got, packets, ret, g_error, tfaults>>
     \/ /\ TokenFault /\ phase' = "data" /\ g_error' = TRUE /\ usb' = Sent
        /\ UNCHANGED <<ptoggle, left, got, packets, ret>>
     \/ /\ TokenFault /\ phase' = "out"
        /\ UNCHANGED <<usb, ptoggle, left, got, packets, ret, g_error>>
  /\ UNCHANGED <<probe, step, out>>

\* The status stage of a request with data, whose result only goes to OUT.
out_token ==
  /\ Running /\ phase = "out" /\ Done
  /\ usb' = [usb EXCEPT !.req = "none"]
  /\ UNCHANGED <<probe, ptoggle, left, got, packets, ret, g_error, tfaults>>

\* Endpoint 1, after 100 or 24 NAKs at most.
sample_token ==
  /\ Running /\ phase = "start" /\ This.op = "sample" /\ ~Skipped
  /\ Done
  /\ \/ /\ Listens /\ usb.cfg /\ usb.toggle = ptoggle
        /\ usb' = [usb EXCEPT !.toggle = 1 - @] /\ ptoggle' = 1 - ptoggle /\ UNCHANGED tfaults
     \/ /\ Listens /\ usb.cfg /\ usb.toggle # ptoggle
        /\ usb' = [usb EXCEPT !.toggle = 1 - @] /\ UNCHANGED <<ptoggle, tfaults>>
     \/ UNCHANGED <<usb, ptoggle, tfaults>>
     \/ TokenFault /\ usb' = [usb EXCEPT !.toggle = 1 - @] /\ UNCHANGED ptoggle
  /\ UNCHANGED <<probe, left, got, packets, ret, g_error>>

Unplugged == usb.there /\ usb' = Away /\ UNCHANGED <<probe, step, phase, out, g_error, tfaults>> /\ NoTransfer

UsbProbesNext ==
  \/ words_step \/ port_reset \/ setup_token \/ status_token \/ data_token \/ out_token
  \/ sample_token \/ Unplugged

UsbProbesSpec == UsbProbesInit /\ [][UsbProbesNext]_probe_vars

-----------------------------------------------------------------------------
(* Properties.                                                             *)

(* The descriptor that a probe leaves is the start of the one that the     *)
(* keyboard has, unless it says in OUT that SPI failed: no packet is in it *)
(* twice and none is missing, although the keyboard sends one again when   *)
(* it misses an ACK (get_device_desc, get_config9, get_config_full).       *)
DescriptorIsPrefix ==
  ~g_error => /\ \A i \in 1 .. Len(packets) : packets[i] = i - 1
              /\ got <= PACKET * Len(packets)

(* No part of a probe writes over what another part left in OUT.           *)
ResultsAreKept == \A c \in OutWords : Cardinality(out[c]) <= 1

(* A probe that reports good transfers up to the configuration has a       *)
(* keyboard that is configured, if it was not pulled.                      *)
ReportedIsConfigured ==
  usb.there /\ Len(ret) = 2 /\ ret[1] = "ok" /\ ret[2] = "ok" /\ Address = 2 => usb.cfg

(* What a probe leaves in OUT is what happened: the descriptor, the        *)
(* results of the transfers, and each of them where the reader looks.      *)
OutIsTrue == DescriptorIsPrefix /\ ReportedIsConfigured /\ ResultsAreKept
=============================================================================
