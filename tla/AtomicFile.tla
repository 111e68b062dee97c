----------------------------- MODULE AtomicFile -----------------------------
(***************************************************************************)
(* What storage_save promises its caller: a file with one content.  A save *)
(* puts the content that is asked for in the place of the old one at one   *)
(* moment, or not at all; no reader and no power cut sees anything between *)
(* them, and the new content does not go away again.                       *)
(*                                                                         *)
(* The promise is about a file that was sound when the save began.  The    *)
(* other case, a card that an earlier interruption left with path.new      *)
(* only, or with both names on one chain, is the unsound save, which       *)
(* promises nothing while it runs.                                         *)
(***************************************************************************)
CONSTANTS Values, Lost     \* Lost: nothing can be loaded

VARIABLES
  stored,   \* what a load returns
  asked,    \* the content that the current or last save is to write
  saving,   \* a save runs
  sound,    \* the file was sound when the save began
  answer    \* how the last save ended

file_vars == <<stored, asked, saving, sound, answer>>

AtomicInit ==
  /\ stored \in Values \cup {Lost} /\ asked \in Values
  /\ ~saving /\ ~sound /\ answer = "none"

Ask(v) ==
  /\ ~saving /\ saving' = TRUE /\ asked' = v /\ answer' = "none"
  /\ sound' \in BOOLEAN /\ (sound' => stored \in Values)
  /\ UNCHANGED stored

\* The content changes to the one asked for.
Replace == stored' = asked /\ UNCHANGED <<asked, sound>>
\* Only an unsound save may do anything else.
Disturb == ~sound /\ stored' \in Values \cup {Lost} /\ UNCHANGED <<asked, sound>>

Work == saving /\ (Replace \/ Disturb) /\ UNCHANGED <<saving, answer>>

\* The save returns, or the power goes.
Finish ==
  /\ saving /\ saving' = FALSE /\ answer' \in {"ok", "EIO", "cut"}
  /\ (UNCHANGED <<stored, asked, sound>> \/ Replace \/ Disturb)
  /\ (answer' = "ok" /\ sound => stored' = asked)

AtomicNext == (\E v \in Values : Ask(v)) \/ Work \/ Finish

AtomicSpec == AtomicInit /\ [][AtomicNext]_file_vars
=============================================================================
