---- MODULE MCWire ----
(* gdb and the stub: the USB device, the packets cut anywhere, the         *)
(* dialogue, and the decoder that says where a single step stops, one of   *)
(* them in a behaviour.  They share no state; the parts that do not take   *)
(* part rest in an initial state.                                          *)
EXTENDS Musb, RspFraming, Session, StepPc

(* Control packets of two bytes with replies of none, one and two packets, *)
(* line coding shorter and longer than its array, bulk packets of two      *)
(* bytes.                                                                  *)
MCInLengths == {0, 3}
MCOutLengths == {1, 3}

VARIABLE part

wire_parts == <<musb_vars, ses_vars, step_vars, framing_vars, part>>

StepAtRest ==
  /\ insn = (CHOOSE x \in Branches : TRUE) /\ cpsr = (CHOOSE f \in Flags : TRUE)
  /\ regs = [r0 |-> 0, sp |-> 0, lr |-> 0, pc |-> 8] /\ step = Undecided

WireInit ==
  /\ part \in {"usb", "packets", "session", "step"}
  /\ MusbInit /\ SessionInit /\ (part # "session" => prev.used = 0)
  /\ IF part = "step" THEN StepInit ELSE StepAtRest
  /\ FramingInit

WireNext ==
  \/ part = "usb" /\ MusbNext /\ UNCHANGED <<ses_vars, step_vars, framing_vars, part>>
  \/ part = "session" /\ SessionNext /\ UNCHANGED <<musb_vars, step_vars, framing_vars, part>>
  \/ part = "step" /\ StepNext /\ UNCHANGED <<musb_vars, ses_vars, framing_vars, part>>
  \/ part = "packets" /\ FramingNext /\ UNCHANGED <<musb_vars, ses_vars, step_vars, part>>
  \/ part # "usb" /\ UNCHANGED wire_parts   \* at a bound, or the instruction is decoded

WireSpec ==
  /\ WireInit /\ [][WireNext]_wire_parts
  /\ WF_musb_vars(part = "usb" /\ (musb_poll \/ handle_bulk_out)) /\ WF_musb_vars(part = "usb" /\ bulk_send)
====
