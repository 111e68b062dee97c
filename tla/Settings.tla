----------------------------- MODULE Settings ------------------------------
(***************************************************************************)
(* The settings of aipc-boot (baremetal/aipc-boot/settings.c and ini.c):   *)
(* the table of keys in memory, settings.ini on the card, and the          *)
(* operations between them.  The file is a sequence of lines; the text of  *)
(* a line, its blanks and its comments are left out.                       *)
(*                                                                         *)
(* A name is longer than the field it is kept in (Long) or not; lv_strlcpy *)
(* cuts Long to Cut.                                                       *)
(***************************************************************************)
EXTENDS Integers, Sequences, FiniteSets

CONSTANTS Sections,   \* section names, Unnamed among them
          KeyNames,   \* names of keys, Long and Cut among them
          Long, Cut,
          Texts,
          Known,      \* the <<section, name>> pairs the menu sets: boot, display, cfw
          KEYS_MAX,
          MaxLines    \* bound on the lines of settings.ini

\* The section of the lines above the first header.
Unnamed == ""

ASSUME SettingsAssumption ==
  /\ Unnamed \in Sections
  /\ {Long, Cut} \subseteq KeyNames /\ Long # Cut
  /\ Known \subseteq (Sections \ {Unnamed}) \X (KeyNames \ {Long, Cut})
  /\ KEYS_MAX \in Nat \ {0} /\ MaxLines \in Nat

VARIABLES
  ini,      \* the lines of settings.ini
  keys,     \* the table, in order
  ready,    \* the card is mounted and settings_load ran
  origin,   \* ghost: the file at the last load
  whole,    \* ghost: that load read every line, and could keep all of them
  changed   \* ghost: keys the user changed since

settings_vars == <<ini, keys, ready, origin, whole, changed>>

-----------------------------------------------------------------------------
(* The table.                                                              *)

Key(s, n, v) == [section |-> s, name |-> n, value |-> v]

\* The indices of a key, of which find takes the first.
Found(ks, s, n) == {i \in DOMAIN ks : ks[i].section = s /\ ks[i].name = n}
find(ks, s, n) == CHOOSE i \in Found(ks, s, n) : \A j \in Found(ks, s, n) : i <= j

\* The values of a key: one or none.
get(ks, s, n) == IF Found(ks, s, n) = {} THEN {} ELSE {ks[find(ks, s, n)].value}

trunc(n) == IF n = Long THEN Cut ELSE n

\* Mutant: the key of another section is taken for this one.
set_any_section(ks, s, n, v) ==
  LET at == {i \in DOMAIN ks : ks[i].name = n}
  IN IF at # {} THEN [ks EXCEPT ![CHOOSE i \in at : \A j \in at : i <= j].value = v]
     ELSE IF Len(ks) = KEYS_MAX THEN ks
     ELSE Append(ks, Key(s, trunc(n), v))

\* set with a value.  A full table drops a new key.
set(ks, s, n, v) ==
  IF Found(ks, s, n) # {} THEN [ks EXCEPT ![find(ks, s, n)].value = v]
  ELSE IF Len(ks) = KEYS_MAX THEN ks
  ELSE Append(ks, Key(s, trunc(n), v))

\* set with NULL.
unset(ks, s, n) ==
  IF Found(ks, s, n) = {} THEN ks
  ELSE [i \in 1 .. Len(ks) - 1 |-> ks[IF i < find(ks, s, n) THEN i ELSE i + 1]]

-----------------------------------------------------------------------------
(* The file.                                                               *)

Header(s) == [kind |-> "header", section |-> s]
Line(n, v) == [kind |-> "key", name |-> n, value |-> v]
Bad == [kind |-> "bad"]
Lines == {Header(s) : s \in Sections} \cup {Line(n, v) : n \in KeyNames, v \in Texts} \cup {Bad}

\* One line for ini_parse, whose handler is on_key.  p has the section so far.
parse_line(p, l) ==
  IF p.stop THEN p
  ELSE CASE l.kind = "bad"    -> [p EXCEPT !.stop = TRUE]
         [] l.kind = "header" -> [p EXCEPT !.section = l.section]
         [] l.kind = "key"    -> [p EXCEPT !.keys = set(@, p.section, l.name, l.value)]

\* ini_parse stops at a line that is not valid; the keys before it count.
NoLines == [section |-> Unnamed, keys |-> <<>>, stop |-> FALSE]
Parsed(lines) ==
  LET parsed[i \in 0 .. Len(lines)] == IF i = 0 THEN NoLines ELSE parse_line(parsed[i - 1], lines[i])
  IN parsed
ini_parse(lines) == Parsed(lines)[Len(lines)].keys

\* Mutant: the header of a section is left out when another came before it.
section_header_bare(ks, i, text) == IF i = 1 THEN Append(text, Header(ks[i].section)) ELSE text

\* settings_save writes a section at its first key, i, with all its keys; the
\* section without a name has no header.
section_header(ks, i, text) ==
  IF ks[i].section = Unnamed THEN text ELSE Append(text, Header(ks[i].section))
section_lines(ks, i, text) ==
  LET lines[j \in 0 .. Len(ks)] ==
        IF j = 0 THEN section_header(ks, i, text)
        ELSE IF ks[j].section = ks[i].section
             THEN Append(lines[j - 1], Line(ks[j].name, ks[j].value)) ELSE lines[j - 1]
  IN lines

Written(ks) ==
  LET written[i \in 0 .. Len(ks)] ==
        IF i = 0 THEN <<>>
        ELSE IF \E j \in 1 .. i - 1 : ks[j].section = ks[i].section THEN written[i - 1]
             ELSE section_lines(ks, i, written[i - 1])[Len(ks)]
  IN written
Text(ks) == Written(ks)[Len(ks)]

-----------------------------------------------------------------------------
(* What a file says, and which files the table can keep.                   *)

\* The section of line i: that of the last header above it.
SectionOf(lines, i) ==
  LET above == {j \in 1 .. i - 1 : lines[j].kind = "header"}
  IN IF above = {} THEN Unnamed ELSE lines[CHOOSE j \in above : \A k \in above : k <= j].section

\* The lines for a key, and its values: that of the last line, or none.
LinesOf(lines, s, n) ==
  {i \in DOMAIN lines : /\ lines[i].kind = "key" /\ lines[i].name = n
                        /\ SectionOf(lines, i) = s}
Says(lines, s, n) ==
  LET at == LinesOf(lines, s, n)
  IN IF at = {} THEN {} ELSE {lines[CHOOSE i \in at : \A j \in at : j <= i].value}

\* Every line is valid and fits, and [] does not come after another section.
Keepable(lines) ==
  /\ \A i \in DOMAIN lines : /\ lines[i] # Bad /\ lines[i] # Header(Unnamed)
                             /\ lines[i].kind = "key" => lines[i].name # Long
  /\ Cardinality({k \in Sections \X KeyNames : LinesOf(lines, k[1], k[2]) # {}}) <= KEYS_MAX

-----------------------------------------------------------------------------
SettingsInit ==
  /\ \E n \in 0 .. MaxLines : ini \in [1 .. n -> Lines]
  /\ keys = <<>> /\ ready = FALSE
  /\ origin = <<>> /\ whole = FALSE /\ changed = {}

\* storage_load can fail on a card that has the file: then the defaults count.
settings_load ==
  /\ ~ready /\ ready' = TRUE
  /\ origin' = ini /\ changed' = {} /\ UNCHANGED ini
  /\ \/ keys' = ini_parse(ini) /\ whole' = Keepable(ini)
     \/ keys' = <<>> /\ whole' = FALSE

CardLeaves ==
  /\ ready /\ ready' = FALSE
  /\ UNCHANGED <<ini, keys, origin, whole, changed>>

\* save in ui_pages.c, after every change: only with a mounted card.
\* settings_save hands the text to storage_save, which puts it in the place of
\* the file as a whole, or fails.
settings_save ==
  /\ ini' \in IF ready THEN {Text(keys'), ini} ELSE {ini}
  /\ UNCHANGED <<ready, origin, whole>>

\* settings_set_default, _timeout, _backlight, _dark and _cfw.
settings_set ==
  \E k \in Known, v \in Texts :
    /\ keys' = set(keys, k[1], k[2], v)
    /\ changed' = changed \cup {k}
    /\ settings_save

\* The same, with a value that means the default.
settings_unset ==
  \E k \in Known :
    /\ keys' = unset(keys, k[1], k[2])
    /\ changed' = changed \cup {k}
    /\ settings_save

\* reset_done; the question needs a mounted card.
settings_reset ==
  /\ ready /\ keys' = <<>> /\ changed' = Sections \X KeyNames
  /\ settings_save

SettingsNext == settings_load \/ CardLeaves \/ settings_set \/ settings_unset \/ settings_reset

SettingsSpec == SettingsInit /\ [][SettingsNext]_settings_vars

-----------------------------------------------------------------------------
(* Properties.                                                             *)

(* What settings_save writes says what the table says: the next            *)
(* settings_load gives every key its value (settings_save, ini_parse),     *)
(* when the table came from a file it can keep.                            *)
SaveIsLoadable ==
  whole => \A s \in Sections, n \in KeyNames : Says(Text(keys), s, n) = get(keys, s, n)

(* A key that the user does not change has in the file, after any saves,   *)
(* the value it had when the file was loaded, when that load could read    *)
(* and keep the whole file.                                                *)
UnknownKeysSurvive ==
  whole => \A s \in Sections, n \in KeyNames :
             <<s, n>> \notin changed => Says(ini, s, n) = Says(origin, s, n)

(* Loads and saves lose nothing, when the file could be kept as a whole:   *)
(* the table can be read back from its text, and what the user does not    *)
(* change stays (settings_save, ini_parse, set).                           *)
SettingsSurvive == SaveIsLoadable /\ UnknownKeysSurvive

-----------------------------------------------------------------------------
(* settings.h, settings_save: "It keeps the keys that this version does    *)
(* not know, so the settings of a newer version survive."  The same for    *)
(* every file and every load.                                              *)
KeepsUnknownKeys ==
  \A s \in Sections, n \in KeyNames :
    ready /\ <<s, n>> \notin changed => Says(ini, s, n) = Says(origin, s, n)

=============================================================================
