------------------------------- MODULE Pages -------------------------------
(***************************************************************************)
(* The pages of the aipc-boot menu (baremetal/aipc-boot: ui.c, ui_pages.c, *)
(* ui_launch.c, ui_modal.c): the list of the open page, the focus in it,   *)
(* its scroll position, the modal above it and the hints in the footer.    *)
(*                                                                         *)
(* Every operation takes the screen u and what the pages are built from,   *)
(* e, and gives the screen after it.  An item is a number and has a name,  *)
(* what it stands for.  Heights are in small units.  A colour, a text and  *)
(* an object of LVGL are left out, except that a list keeps what it was    *)
(* built from until ui_rebuild builds it again.                            *)
(***************************************************************************)
EXTENDS Integers, Sequences

CONSTANTS
  ROW_H, SEC_H, PAD_H,     \* heights: of a row, of a section, between lists
  MAIN_H, VIEW_H,          \* of the list, and of its content
  ITEMS_MAX,
  TIMEOUT_MAX, BRIGHT_MIN, BRIGHT_MAX, BRIGHT_STEP,
  Cards_,                  \* what a card may hold: records [in, titles, pay, def, timeout, bright, dark]
  MaxKeys                  \* bound: steps of the user

\* The help of an item is at most this high; an item with its help and the
\* heading above it fits the window.
HELP_MAX == 5

ASSUME PagesAssumption ==
  /\ {ROW_H, SEC_H, PAD_H, MAIN_H, VIEW_H, ITEMS_MAX, TIMEOUT_MAX, BRIGHT_STEP} \subseteq Nat \ {0}
  /\ {BRIGHT_MIN, BRIGHT_MAX, MaxKeys} \subseteq Nat /\ BRIGHT_MIN < BRIGHT_MAX
  /\ VIEW_H <= MAIN_H /\ PAD_H + SEC_H + ROW_H + HELP_MAX <= VIEW_H
  /\ \A c \in Cards_ : c.in = TRUE /\ c.titles \in Seq(STRING) /\ c.pay \in Nat

VARIABLES
  scr,      \* the screen: [page, pitem, content, list, item, exp, scroll, hints, modal, theme]
  env,      \* [card, titles, pay, kbd, set, cfw]: what is loaded, and the settings
  failed,   \* history: the last step could not write settings.ini
  key_count  \* steps so far

page_vars == <<scr, env, failed, key_count>>

PageNames == <<"launch", "payloads", "cfw", "tools", "info", "settings", "power">>
PAGE_COUNT == Len(PageNames)
Name(u) == PageNames[u.page]

-----------------------------------------------------------------------------
(* Building a list.                                                        *)

Item(name, extra) == [kind |-> "item", name |-> name, extra |-> extra]
Head_(k) == [kind |-> "head", name |-> k, extra |-> 0]
Note == [kind |-> "note", name |-> "note", extra |-> 0]
InfoLine == [kind |-> "line", name |-> "line", extra |-> 0]

\* launch_reload: the entries of the card, and the two systems in NAND.
launch(e) == [i \in DOMAIN e.titles |-> e.titles[i]] \o <<"wince_cfw", "wince">>
launch_find(e, title) == IF \E i \in DOMAIN launch(e) : launch(e)[i] = title
                         THEN CHOOSE i \in DOMAIN launch(e) :
                                launch(e)[i] = title /\ \A j \in 1 .. i - 1 : launch(e)[j] # title
                         ELSE 0
launch_default(e) == IF launch_find(e, e.set.def) = 0 THEN 1 ELSE launch_find(e, e.set.def)

launch_build(e) == [i \in DOMAIN launch(e) |-> Item(launch(e)[i], IF i > Len(e.titles) THEN 3 ELSE 0)]

payloads_build(e) ==
  IF e.card # "READY" \/ e.pay = 0 THEN <<Note>> ELSE [i \in 1 .. e.pay |-> Item(i, 0)]

cfw_section(title, ids) == <<Head_(title)>> \o [i \in DOMAIN ids |-> Item(ids[i], 3)]
cfw_build == cfw_section("fixes", <<"fix1", "fix2">>) \o cfw_section("extras", <<"diag">>)
cfw_item(i) == <<"fix1", "fix2", "diag">>[i]

tools_build(e) ==
  IF e.card # "READY" THEN <<Note>>
  ELSE <<Head_("backup"), Item("backup", 3), Item("restore", 5), Head_("loader"), Item("install", 5)>>

info_build == <<Head_("chain"), InfoLine, InfoLine, InfoLine, Head_("hardware"), InfoLine, InfoLine>>

\* Mutant: the items are those that a card has.
option_of_item_card(e, i) == i - 1

\* 0 .. 4: default, timeout, backlight, theme, reset.  Without a card only the
\* brightness and the theme show.
option_of_item(e, i) == IF e.card = "READY" THEN i - 1 ELSE 2 + i - 1

settings_build(e) ==
  (IF e.card = "READY" THEN <<Item(0, 0), Item(1, 0)>> ELSE <<>>) \o <<Item(2, 0), Item(3, 0)>>
    \o (IF e.card = "READY" THEN <<Item(4, 0)>> ELSE <<>>)

power_build == <<Item("off", 0), Item("restart", 0)>>

Build(u, e) ==
  CASE Name(u) = "launch" -> launch_build(e) [] Name(u) = "payloads" -> payloads_build(e)
    [] Name(u) = "cfw" -> cfw_build [] Name(u) = "tools" -> tools_build(e)
    [] Name(u) = "info" -> info_build [] Name(u) = "settings" -> settings_build(e)
    [] OTHER -> power_build

\* ui_section, ui_note, ui_item, ui_key_value, with row and add_item: where
\* each goes.  A section's heading belongs to the item after it.
Place(acc, r) ==
  LET y == IF r.kind = "head" /\ acc.y > 0 THEN acc.y + PAD_H ELSE acc.y
      top == IF acc.pending >= 0 THEN acc.pending ELSE y
      item == [name |-> r.name, extra |-> r.extra, base |-> y, top |-> top]
  IN IF r.kind = "item" /\ Len(acc.items) = ITEMS_MAX THEN acc
     ELSE [y |-> y + (IF r.kind = "head" THEN SEC_H ELSE ROW_H),
           pending |-> CASE r.kind = "head" -> (IF acc.pending < 0 THEN acc.y ELSE acc.pending)
                         [] r.kind = "item" -> -1 [] OTHER -> acc.pending,
           items |-> IF r.kind = "item" THEN Append(acc.items, item) ELSE acc.items]

\* The list after each of its rows.
NoRows == [y |-> 0, pending |-> -1, items |-> <<>>]
Laid(rows) == LET laid[i \in 0 .. Len(rows)] == IF i = 0 THEN NoRows ELSE Place(laid[i - 1], rows[i]) IN laid
Layout(rows) == Laid(rows)[Len(rows)]

items(u) == u.list.items
item_count(u) == Len(items(u))

-----------------------------------------------------------------------------
(* Geometry.                                                               *)

\* The shift of what is at y while an item shows its help.
shift(u, y) == IF u.exp = 0 \/ y <= items(u)[u.exp].base THEN 0 ELSE items(u)[u.exp].extra
TopOf(u, i) == IF i = 1 THEN 0 ELSE items(u)[i].top + shift(u, items(u)[i].top)
BottomOf(u, i) == items(u)[i].base + shift(u, items(u)[i].base) + ROW_H + (IF u.exp = i THEN items(u)[i].extra ELSE 0)

\* The spacer lets the last items scroll to the top.
Content(u) ==
  LET end == u.list.y + (IF u.exp = 0 THEN 0 ELSE items(u)[u.exp].extra)
  IN IF u.list.y > MAIN_H THEN end + MAIN_H - ROW_H ELSE end
\* LVGL (external) does not scroll past the content.
Bounded(u, y) == IF y > Content(u) - VIEW_H THEN (IF Content(u) < VIEW_H THEN 0 ELSE Content(u) - VIEW_H) ELSE y

\* Mutant: the candidates are where they are without the help.
scroll_to_item_base(u) ==
  LET top == items(u)[u.item].top
      bottom == items(u)[u.item].base + ROW_H
      fits == {items(u)[i].top : i \in 1 .. item_count(u)} \cap (bottom - VIEW_H .. top)
  IN IF top < u.scroll THEN [u EXCEPT !.scroll = Bounded(u, top)]
     ELSE IF bottom > u.scroll + VIEW_H
     THEN [u EXCEPT !.scroll = Bounded(u, IF fits = {} THEN top ELSE CHOOSE t \in fits : \A x \in fits : t <= x)]
     ELSE u

\* Up to the item's top; or down, to the first item's top that shows all of it.
scroll_to_item(u) ==
  LET top == TopOf(u, u.item)
      bottom == BottomOf(u, u.item)
      tops == {items(u)[i].top + shift(u, items(u)[i].top) : i \in 1 .. item_count(u)}
      fits == {t \in tops : t >= bottom - VIEW_H /\ t < top}
  IN IF top < u.scroll THEN [u EXCEPT !.scroll = Bounded(u, top)]
     ELSE IF bottom > u.scroll + VIEW_H
     THEN [u EXCEPT !.scroll = Bounded(u, IF fits = {} THEN top ELSE CHOOSE t \in fits : \A x \in fits : t <= x)]
     ELSE u

-----------------------------------------------------------------------------
(* Focus, hints and modals.                                                *)

NoModal == [kind |-> "none", cancel |-> FALSE, progress |-> FALSE, focus |-> 0]
modal_is_open(u) == u.modal # NoModal

\* The page's hints: what Enter does, and whether Left and Right change.
page_hints(u, e) ==
  CASE Name(u) = "settings" -> <<IF option_of_item(e, u.item) = 4 THEN "reset" ELSE "",
                                 IF option_of_item(e, u.item) = 4 THEN "" ELSE "change">>
    [] Name(u) = "cfw" -> <<IF cfw_item(u.item) \in e.cfw THEN "off" ELSE "on", "">>
    [] Name(u) = "power" -> <<IF u.item = 1 THEN "off" ELSE "restart", "">>
    [] Name(u) = "info" -> <<"", "">> [] OTHER -> <<Name(u), "">>

modal_hints(u) ==
  <<IF u.modal.progress THEN "" ELSE IF u.modal.focus = 1 THEN "ok" ELSE "cancel", u.modal.cancel>>

HintsOf(u, e) ==
  CASE ~e.kbd -> <<"wait">>
    [] modal_is_open(u) -> <<"modal">> \o modal_hints(u)
    [] ~u.content -> <<"nav", item_count(u) > 0>>
    [] OTHER -> <<"item">> \o page_hints(u, e)
ui_hints_changed(u, e) == [u EXCEPT !.hints = HintsOf(u, e)]

expand(u, i) == [u EXCEPT !.exp = IF i > 0 /\ items(u)[i].extra > 0 THEN i ELSE 0]

select_item(u, e, i) ==
  LET n == item_count(u)
      j == IF i < 1 THEN 1 ELSE IF i > n THEN n ELSE i
      v == [u EXCEPT !.item = j, !.pitem[u.page] = j]
  IN IF n = 0 THEN u
     ELSE ui_hints_changed(scroll_to_item(expand(v, IF u.content THEN j ELSE 0)), e)

set_focus(u, e, content) ==
  IF content /\ item_count(u) = 0 THEN u ELSE select_item([u EXCEPT !.content = content], e, u.item)

\* The list anew; the focus goes where it was on the page, or to the top.
ui_rebuild(u, e) ==
  LET v == [u EXCEPT !.list = Layout(Build(u, e)), !.scroll = 0, !.exp = 0]
      w == [v EXCEPT !.content = @ /\ item_count(v) > 0,
                     !.item = IF u.pitem[u.page] <= item_count(v) THEN u.pitem[u.page] ELSE 1]
  IN ui_hints_changed(select_item(w, e, w.item), e)

open_page(u, e, i) == IF i \notin 1 .. PAGE_COUNT \/ i = u.page THEN u ELSE ui_rebuild([u EXCEPT !.page = i], e)

\* Mutant: the footer keeps the hints of the modal.
modal_close_quiet(u, e) == IF modal_is_open(u) THEN [u EXCEPT !.modal = NoModal] ELSE u

modal_close(u, e) == IF modal_is_open(u) THEN ui_hints_changed([u EXCEPT !.modal = NoModal], e) ELSE u
modal_open(u, e, kind, cancel, progress) ==
  ui_hints_changed([modal_close(u, e) EXCEPT !.modal =
                     [kind |-> kind, cancel |-> cancel, progress |-> progress, focus |-> IF cancel THEN 0 ELSE 1]], e)
modal_error(u, e) == modal_open(u, e, "error", FALSE, FALSE)

\* A theme that changed closes the modal and builds the screen again.
theme_sync(u, e) == IF u.theme = e.set.dark THEN u ELSE [modal_close(u, e) EXCEPT !.theme = e.set.dark]
ui_apply_theme(u, e) == ui_rebuild(theme_sync(u, e), e)

-----------------------------------------------------------------------------
(* Settings.                                                               *)

\* The next value of a number in lo .. hi; one from settings.ini can be outside.
timeout_side(s, dir) ==
  IF s > TIMEOUT_MAX THEN (IF dir > 0 THEN 1 ELSE TIMEOUT_MAX)
  ELSE IF dir > 0 THEN (IF s = TIMEOUT_MAX THEN 1 ELSE s + 1)
  ELSE IF s = 1 THEN TIMEOUT_MAX ELSE s - 1

\* settings_set_backlight removes the key for a value below the range, which is
\* the default, BRIGHT_MAX.
backlight_side(b, dir) ==
  LET n == IF dir > 0 THEN (IF b >= BRIGHT_MAX THEN BRIGHT_MIN ELSE b + BRIGHT_STEP)
           ELSE IF b <= BRIGHT_MIN THEN BRIGHT_MAX ELSE b - BRIGHT_STEP
  IN IF n \in BRIGHT_MIN .. BRIGHT_MAX THEN n ELSE BRIGHT_MAX

Changed(e, o_, dir) ==
  CASE o_ = 0 -> [e EXCEPT !.set.def = LET n == Len(launch(e))
                                       IN launch(e)[((launch_default(e) - 1 + dir + n) % n) + 1]]
    [] o_ = 1 -> [e EXCEPT !.set.timeout = timeout_side(@, dir)]
    [] o_ = 2 -> [e EXCEPT !.set.bright = backlight_side(@, dir)]
    [] OTHER -> [e EXCEPT !.set.dark = ~@]

DefaultSet == [def |-> "none", timeout |-> 3, bright |-> BRIGHT_MAX, dark |-> FALSE]

\* save: the error shows above everything else.
save(u, e, fails) == IF e.card = "READY" /\ fails THEN modal_error(u, e) ELSE u

Do(u, e, fails) == scr' = u /\ env' = e /\ failed' = (fails /\ e.card = "READY")

\* Mutant: the theme comes after the save.
settings_side_theme(u, dir, fails) ==
  LET o_ == option_of_item(env, u.item)
      e == Changed(env, o_, dir)
  IN IF o_ = 4 THEN Do(IF dir < 0 THEN set_focus(u, env, FALSE) ELSE u, env, FALSE)
     ELSE Do(ui_hints_changed(ui_apply_theme(save(u, e, fails), e), e), e, fails)

\* The theme comes before the save, because it closes the modal.
settings_side(u, dir, fails) ==
  LET o_ == option_of_item(env, u.item)
      e == Changed(env, o_, dir)
  IN IF o_ = 4 THEN Do(IF dir < 0 THEN set_focus(u, env, FALSE) ELSE u, env, FALSE)
     ELSE Do(ui_hints_changed(save(ui_apply_theme(u, e), e, fails), e), e, fails)

settings_enter(u) ==
  Do(IF option_of_item(env, u.item) = 4 THEN modal_open(u, env, "reset", TRUE, FALSE) ELSE u, env, FALSE)

\* settings_reset forgets the switches of CFW too.
reset_done(u, fails) ==
  LET e == [env EXCEPT !.set = DefaultSet, !.cfw = {"fix1", "fix2"}]
  IN Do(save(ui_apply_theme(u, e), e, fails), e, fails)

cfw_enter(u, fails) ==
  LET id == cfw_item(u.item)
      e == [env EXCEPT !.cfw = IF id \in @ THEN @ \ {id} ELSE @ \cup {id}]
  IN Do(ui_rebuild(save(u, e, fails), e), e, fails)

-----------------------------------------------------------------------------
(* Keys.                                                                   *)

\* modal_key and finish.  Esc is Cancel, or OK where there is no other button.
modal_key(u, k, fails) ==
  CASE u.modal.progress -> Do(u, env, FALSE)
    [] k \in {"left", "right"} /\ u.modal.cancel ->
         Do(ui_hints_changed([u EXCEPT !.modal.focus = IF k = "right" THEN 1 ELSE 0], env), env, FALSE)
    [] k \in {"enter", "esc"} ->
         IF u.modal.kind = "reset" /\ k = "enter" /\ u.modal.focus = 1
         THEN reset_done(modal_close(u, env), fails) ELSE Do(modal_close(u, env), env, FALSE)
    [] OTHER -> Do(u, env, FALSE)

\* Enter on an item: a boot or a payload that fails shows why.
page_enter(u, fails) ==
  CASE Name(u) = "settings" -> settings_enter(u)
    [] Name(u) = "cfw" -> cfw_enter(u, fails)
    [] Name(u) = "power" -> Do(u, env, FALSE)
    [] OTHER -> Do(modal_error(u, env), env, FALSE)

content_key(u, k, fails) ==
  CASE k = "up" -> Do(IF u.item > 1 THEN select_item(u, env, u.item - 1) ELSE u, env, FALSE)
    [] k = "down" -> Do(IF u.item < item_count(u) THEN select_item(u, env, u.item + 1) ELSE u, env, FALSE)
    [] k = "home" -> Do(select_item(u, env, 1), env, FALSE)
    [] k = "end" -> Do(select_item(u, env, item_count(u)), env, FALSE)
    [] k \in {"left", "right"} /\ Name(u) = "settings" -> settings_side(u, IF k = "left" THEN -1 ELSE 1, fails)
    [] k \in {"left", "esc"} -> Do(set_focus(u, env, FALSE), env, FALSE)
    [] k = "enter" -> page_enter(u, fails)
    [] OTHER -> Do(u, env, FALSE)

nav_key(u, k) ==
  CASE k = "up" -> Do(open_page(u, env, u.page - 1), env, FALSE)
    [] k = "down" -> Do(open_page(u, env, u.page + 1), env, FALSE)
    [] k = "home" -> Do(open_page(u, env, 1), env, FALSE)
    [] k = "end" -> Do(open_page(u, env, PAGE_COUNT), env, FALSE)
    [] k \in {"right", "enter"} -> Do(set_focus(u, env, TRUE), env, FALSE)
    [] OTHER -> Do(u, env, FALSE)

Keys == {"up", "down", "left", "right", "home", "end", "enter", "esc"}
Step_ == key_count < MaxKeys /\ key_count' = key_count + 1

poll_key(k, fails) ==
  /\ Step_ /\ env.kbd
  /\ IF modal_is_open(scr) THEN modal_key(scr, k, fails)
     ELSE IF scr.content THEN content_key(scr, k, fails) ELSE nav_key(scr, k)

kbd_changes ==
  LET e == [env EXCEPT !.kbd = ~@] IN Step_ /\ Do(ui_hints_changed(scr, e), e, FALSE)

\* A short press of the power key, and a long one while its progress shows.
power_key_click ==
  /\ Step_ /\ scr.page # PAGE_COUNT
  /\ Do(ui_rebuild([modal_close(scr, env) EXCEPT !.page = PAGE_COUNT, !.pitem[PAGE_COUNT] = 1,
                                                 !.content = TRUE], env), env, FALSE)
hold_shown == Step_ /\ Do(modal_open(scr, env, "hold", FALSE, TRUE), env, FALSE)
hold_ends == Step_ /\ scr.modal.kind = "hold" /\ Do(modal_close(scr, env), env, FALSE)

-----------------------------------------------------------------------------
(* The card.                                                               *)

NoCard_ == [in |-> FALSE]

\* reload: without a card the settings stay.
Reloaded(c) ==
  IF ~c.in THEN [env EXCEPT !.card = "NONE", !.titles = <<>>, !.pay = 0]
  ELSE [env EXCEPT !.card = "READY", !.titles = c.titles, !.pay = c.pay, !.cfw = {"fix1", "fix2"},
                   !.set = [def |-> c.def, timeout |-> c.timeout, bright |-> c.bright, dark |-> c.dark]]

\* The focus of the launch page follows the title, or goes to the top.
ui_card_changed(c, wrong) ==
  LET e == Reloaded(c)
      keep == IF scr.page = 1 /\ scr.item <= item_count(scr) THEN <<launch(env)[scr.item]>> ELSE <<>>
      u == theme_sync(modal_close(scr, env), e)
      v == IF wrong /\ c.in THEN modal_error(u, e) ELSE u
      w == IF keep = <<>> THEN v
           ELSE [v EXCEPT !.pitem[1] = IF launch_find(e, keep[1]) > 0 THEN launch_find(e, keep[1]) ELSE 1]
  IN Do(ui_rebuild(w, e), e, FALSE)

card_changes(c, wrong) == Step_ /\ c.in = (env.card = "NONE") /\ ui_card_changed(c, wrong)

\* battery_tick rebuilds the info page.
battery_tick == Step_ /\ Name(scr) = "info" /\ Do(ui_rebuild(scr, env), env, FALSE)

\* ui_run up to its loop.
PagesInit ==
  /\ env = [card |-> "NONE", titles |-> <<>>, pay |-> 0, kbd |-> FALSE, set |-> DefaultSet,
            cfw |-> {"fix1", "fix2"}]
  /\ scr = ui_rebuild([page |-> 1, pitem |-> [p \in 1 .. PAGE_COUNT |-> 1], content |-> TRUE,
                       list |-> Layout(<<>>), item |-> 1, exp |-> 0, scroll |-> 0, hints |-> <<>>,
                       modal |-> NoModal, theme |-> FALSE], env)
  /\ failed = FALSE /\ key_count = 0

PagesNext ==
  \/ \E k \in Keys, fails \in BOOLEAN : poll_key(k, fails)
  \/ kbd_changes
  \/ power_key_click
  \/ hold_shown
  \/ hold_ends
  \/ \E c \in Cards_ \cup {NoCard_}, wrong \in BOOLEAN : card_changes(c, wrong)
  \/ battery_tick

PagesSpec == PagesInit /\ [][PagesNext]_page_vars

-----------------------------------------------------------------------------
(* Properties.                                                             *)

\* What the page's handlers take item i for.
ActsOn(i) ==
  CASE Name(scr) = "launch" -> launch(env)[i] [] Name(scr) = "payloads" -> i
    [] Name(scr) = "settings" -> option_of_item(env, i) [] Name(scr) = "cfw" -> cfw_item(i)
    [] OTHER -> items(scr)[i].name

(* Enter, Left and Right act on what is shown: whatever happened to the    *)
(* card, the settings and the pages since the list was built, item i of    *)
(* the list is what the page's handler takes i for.                        *)
ShownIsMeant == \A i \in 1 .. item_count(scr) : items(scr)[i].name = ActsOn(i)

(* The focus is on an item that exists, and all of the item, with its help *)
(* and the heading above it, is in the view.                               *)
FocusIsVisible ==
  scr.content =>
    /\ scr.item \in 1 .. item_count(scr)
    /\ BottomOf(scr, scr.item) <= scr.scroll + VIEW_H
    /\ scr.scroll <= TopOf(scr, scr.item) \/ BottomOf(scr, scr.item) - TopOf(scr, scr.item) > VIEW_H

(* The hints in the footer are those of the present focus, modal, keyboard *)
(* and settings: every path that changes one of them calls                 *)
(* ui_hints_changed after its last change.                                 *)
HintsAreTrue == scr.hints = HintsOf(scr, env)

(* A change of the settings that could not be written is told: the error   *)
(* is not closed by the new theme, by the rebuild or by the reset.         *)
FailureIsTold == failed => scr.modal.kind = "error"

(* The screen tells the truth: an item is what a key on it acts on, the    *)
(* hints say what the keys do, and a failed save is on it, whatever was    *)
(* rebuilt or closed in between (ui_rebuild, ui_hints_changed, save).      *)
ScreenIsTrue == ShownIsMeant /\ HintsAreTrue /\ FailureIsTold

=============================================================================
