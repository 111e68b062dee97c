---- MODULE MCLines ----
(* The two drivers that work a bus by its lines: the SD card's and the     *)
(* touchpad probe's, one of them in a behaviour.  The other rests: a card  *)
(* driver that nobody calls, a probe that has ended.                       *)
EXTENDS Sd, Touchpad

(* Three blocks in chunks of two, one fault more than the tries must cover.*)
MCBlocks == {0, 1, 2}
MCVals == {0, 1}

(* Bytes of three bits; a pad with one fault and two movements, whose data *)
(* look like an ACK.                                                       *)
MCCode == [off |-> <<0, 0, 0>>, on |-> <<1, 0, 0>>, id |-> <<0, 1, 0>>, status |-> <<1, 1, 0>>, remote |-> <<0, 0, 1>>,
           poll |-> <<1, 0, 1>>, stream |-> <<0, 1, 1>>, reset |-> <<1, 1, 1>>]
MCAck == <<0, 1, 0>>
MCResend == <<0, 1, 1>>
MCMove == MCAck
MCInit_ == <<"id", "on">>

VARIABLE part

LinesInit ==
  /\ part \in {"sd", "touchpad"} /\ SdInit
  /\ IF part = "touchpad" THEN TouchpadInit /\ disk = [b \in Blocks |-> CHOOSE v \in Vals : TRUE]
     ELSE /\ mode = "passive" /\ at = 1 /\ n = 1 /\ bits = <<>> /\ more = 0 /\ todo_ = "done"
          /\ pins = [dir |-> {}, out |-> {}, uart |-> TRUE] /\ before = pins
          /\ send_status = 0 /\ rx = Nothing /\ polls = 1 /\ glitch = FALSE /\ pfaults = 0 /\ pmoves = 0
          /\ pad = [st |-> "silent"]

LinesNext ==
  \/ part = "sd" /\ SdNext /\ UNCHANGED <<touchpad_vars, part>>
  \/ part = "touchpad" /\ TouchpadNext /\ UNCHANGED <<sd_vars, part>>
  \/ part = "touchpad" /\ todo_ = "done" /\ UNCHANGED <<sd_vars, touchpad_vars, part>>

LinesSpec ==
  /\ LinesInit /\ [][LinesNext]_<<sd_vars, touchpad_vars, part>>
  /\ part = "sd" => SdFairness
  /\ part = "touchpad" => TouchpadFairness

(* Every wait has a limit: an operation of the card driver returns and the *)
(* probe ends, with a card that is pulled and a pad that falls silent at   *)
(* any edge (wait_sta, sd_wait_ready, wait_lines).                         *)
WaitsEnd == OperationReturns /\ ProbeEnds
====
