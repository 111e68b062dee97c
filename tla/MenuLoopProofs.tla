--------------------------- MODULE MenuLoopProofs ---------------------------
(***************************************************************************)
(* Proofs about MenuLoop for every set of cards and all times: autoboot    *)
(* runs over an untouched menu only, and what is in memory is of the card  *)
(* in the slot unless the loop was blind.  And about Pages, for every card *)
(* and all heights: the screen tells the truth, and the focus is visible.  *)
(***************************************************************************)
EXTENDS MenuLoop, Pages, WellFoundedInduction, TLAPS

\* A press that power_key_tick follows was seen: it touched the menu.  Without
\* this the click and the progress of a held key could open a page or a modal
\* under a running autoboot.
PressIsSeen == down => touched

QuietInv == AutobootQuiet /\ PressIsSeen

LEMMA QuietInit == Init => QuietInv
  BY DEF Init, QuietInv, AutobootQuiet, PressIsSeen, Loop

\* Every step keeps QuietInv; one step per action.
LEMMA QuietNext == QuietInv /\ [Next]_vars => QuietInv'
<1> SUFFICES ASSUME QuietInv, [Next]_vars PROVE QuietInv'
  OBVIOUS
<1> USE DEF QuietInv, AutobootQuiet, PressIsSeen, Loop, ui_vars, key_vars, card_vars
<1>0. CASE UNCHANGED vars
  BY <1>0 DEF vars
<1>1. CASE no_key
  BY <1>1 DEF no_key
<1>2. CASE unarmed
  BY <1>2 DEF unarmed, at_power_key
<1>3. CASE released
  BY <1>3 DEF released, at_power_key
<1>4. CASE pressed
  BY <1>4 DEF pressed, at_power_key
<1>5. CASE held_on
  BY <1>5 DEF held_on, at_power_key
<1>6. CASE card_poll
  BY <1>6 DEF card_poll, card_gone, card_settling, card_mount, card_same, at_card, card_changed
<1>7. CASE autoboot_tick
  BY <1>7 DEF autoboot_tick, autoboot_idle, autoboot_start, autoboot_count, autoboot_boot,
     at_autoboot
<1>8. CASE key_pressed
  BY <1>8 DEF key_pressed
<1>9. CASE linux_done \/ wait_power_key
  BY <1>9 DEF linux_done, wait_power_key
<1>10. CASE wince_done
  BY <1>10 DEF wince_done
<1>11. CASE payload_done
  BY <1>11 DEF payload_done, card_again, card_changed
<1>12. CASE Tick \/ PowerKey \/ Keyboard
  BY <1>12 DEF Tick, PowerKey, Keyboard
<1>13. CASE CardOut \/ CardIn
  BY <1>13 DEF CardOut, CardIn
<1>14. CASE Off
  BY <1>14 DEF Off, vars
<1> QED
  BY <1>0, <1>1, <1>2, <1>3, <1>4, <1>5, <1>6, <1>7, <1>8, <1>9, <1>10, <1>11, <1>12,
     <1>13, <1>14 DEF Next, Step

\* Autoboot never runs once a key or a press of the power key was seen, over a
\* modal, on another page, without a mounted card or during a boot attempt.
THEOREM AutobootQuietTheorem == Spec => []AutobootQuiet
<1>1. QuietInv => AutobootQuiet
  BY DEF QuietInv
<1> QED
  BY <1>1, QuietInit, QuietNext, PTL DEF Spec

-----------------------------------------------------------------------------
\* card_init leaves the card and what was read in step, whoever calls it: it
\* reads the card that is in the slot, and its caller reloads after a change.
LEMMA CardInitFresh ==
  ASSUME FreshUnlessBlind, card_init,
         IF state' # state THEN reload ELSE UNCHANGED <<loaded, blind>>
  PROVE  FreshUnlessBlind'
  BY DEF FreshUnlessBlind, card_init, mount, reload

LEMMA FreshInit == Init => FreshUnlessBlind
  BY DEF Init, FreshUnlessBlind

\* A step that leaves the card alone.
LEMMA FreshFrame ==
  ASSUME FreshUnlessBlind, UNCHANGED card_vars
  PROVE  FreshUnlessBlind'
  BY DEF FreshUnlessBlind, card_vars

LEMMA FreshNext == FreshUnlessBlind /\ [Next]_vars => FreshUnlessBlind'
<1> SUFFICES ASSUME FreshUnlessBlind, [Next]_vars PROVE FreshUnlessBlind'
  OBVIOUS
<1>1. CASE \/ UNCHANGED vars \/ no_key \/ unarmed \/ released \/ pressed \/ held_on
           \/ autoboot_tick \/ key_pressed \/ linux_done \/ wait_power_key \/ PowerKey
           \/ Keyboard \/ Off
  <2>1. UNCHANGED card_vars
    BY <1>1 DEF vars, no_key, unarmed, released, pressed, held_on, at_power_key,
       autoboot_tick, autoboot_idle, autoboot_start, autoboot_count, autoboot_boot, at_autoboot,
       key_pressed, linux_done, wait_power_key, PowerKey, Keyboard, Off
  <2> QED
    BY <2>1, FreshFrame
<1>2. CASE Tick
  BY <1>2 DEF Tick, FreshUnlessBlind
<1>3. CASE wince_done
  <2>1. CASE pos' = "booted"
    BY <1>3, <2>1, FreshFrame DEF wince_done
  <2>2. CASE pos' # "booted"
    BY <1>3, <2>2, CardInitFresh DEF wince_done
  <2> QED
    BY <2>1, <2>2
<1>4. CASE payload_done
  <2>1. CASE UNCHANGED card_vars
    BY <2>1, FreshFrame
  <2>2. CASE card_again
    BY <2>2, CardInitFresh DEF card_again, card_changed
  <2> QED
    BY <1>4, <2>1, <2>2 DEF payload_done
<1>5. CASE card_poll
  BY <1>5 DEF card_poll, card_gone, card_settling, card_mount, card_same, at_card,
     card_changed, mount, reload, FreshUnlessBlind
<1>6. CASE CardOut
  BY <1>6 DEF CardOut, FreshUnlessBlind
\* A card goes in behind a blocked loop only.
<1>7. CASE CardIn
  BY <1>7 DEF CardIn, FreshUnlessBlind
<1> QED
  BY <1>1, <1>2, <1>3, <1>4, <1>5, <1>6, <1>7 DEF Next, Step

\* With a card mounted, the settings and entries in memory are those of the
\* card in the slot, unless one went in while a boot attempt blocked the loop.
THEOREM FreshUnlessBlindTheorem == Spec => []FreshUnlessBlind
  BY FreshInit, FreshNext, PTL DEF Spec

-----------------------------------------------------------------------------
(* The pages.  What a screen shows follows from what its list was built    *)
(* from (PagesInv: the list is that of the present card and settings, its  *)
(* focus is visible, its hints are those of the present focus), and from   *)
(* what the layout does with any number of rows, by induction over them.   *)

\* A set of naturals that is not empty has a least element.  This is the form in
\* which the provers can use that < is well-founded on Nat.
LEMMA NatSetMin ==
  ASSUME NEW T, T \subseteq Nat, T # {}
  PROVE  \E x \in T : \A y \in T : x <= y
<1>1. PICK x \in T : \A y \in T : ~ (<<y, x>> \in OpToRel(<, Nat))
  BY NatLessThanWellFounded, WFMin
<1>2. \A y \in T : ~(y < x)
  BY <1>1 DEF OpToRel
<1>3. x \in Nat /\ \A y \in T : y \in Nat
  BY <1>1
<1>4. \A y \in T : x <= y
  BY <1>2, <1>3
<1> QED
  BY <1>1, <1>4

\* Induction over the naturals, with a set for the predicate.
LEMMA NatSetInduction ==
  ASSUME NEW T, 0 \in T, \A n \in Nat : n \in T => n + 1 \in T
  PROVE  \A n \in Nat : n \in T
<1> DEFINE C == {n \in Nat : n \notin T}
<1> SUFFICES ASSUME C # {} PROVE FALSE
  OBVIOUS
<1>1. PICK x \in C : \A y \in C : x <= y
  BY NatSetMin
<1>2. x # 0 /\ x - 1 \in Nat /\ ~(x <= x - 1) /\ x = (x - 1) + 1
  BY <1>1
<1>3. x - 1 \in T
  BY <1>1, <1>2
<1>4. x \in T
  BY <1>2, <1>3
<1> QED
  BY <1>4

\* Induction up to a bound.
LEMMA UpToInduction ==
  ASSUME NEW n \in Nat, NEW T, 0 \in T, \A i \in 1 .. n : i - 1 \in T => i \in T
  PROVE  \A i \in 0 .. n : i \in T
<1> DEFINE S == {k \in Nat : k <= n => k \in T}
<1>1. 0 \in S
  OBVIOUS
<1>2. ASSUME NEW k \in Nat, k \in S PROVE k + 1 \in S
  <2>1. CASE k + 1 <= n
    <3>1. k \in T /\ k + 1 \in 1 .. n /\ (k + 1) - 1 = k
      BY <1>2, <2>1
    <3> QED
      BY <3>1
  <2> QED
    BY <2>1
<1>3. \A k \in Nat : k \in S
  <2> HIDE DEF S
  <2> QED
    BY <1>1, <1>2, NatSetInduction
<1> QED
  BY <1>3

\* The equation of Laid for the first k rows.
IsLaid(g, rows, k) == g = [i \in 0 .. k |-> IF i = 0 THEN NoRows ELSE Place(g[i - 1], rows[i])]

\* The recursive function of Laid exists, so it satisfies its equation.
LEMMA LaidIs ==
  ASSUME NEW rows, Len(rows) \in Nat
  PROVE  IsLaid(Laid(rows), rows, Len(rows))
<1> DEFINE T == {k \in Nat : \E g : IsLaid(g, rows, k)}
<1>1. 0 \in T
  <2> DEFINE g == [i \in 0 .. 0 |-> NoRows]
  <2>1. IsLaid(g, rows, 0)
    BY DEF IsLaid
  <2> QED
    BY <2>1
<1>2. ASSUME NEW k \in Nat, k \in T PROVE k + 1 \in T
  <2>1. PICK g : IsLaid(g, rows, k)
    BY <1>2
  <2> DEFINE h == [i \in 0 .. k + 1 |-> IF i <= k THEN g[i] ELSE Place(g[k], rows[k + 1])]
  <2>2. ASSUME NEW i \in 0 .. k + 1
        PROVE  h[i] = IF i = 0 THEN NoRows ELSE Place(h[i - 1], rows[i])
    <3>1. CASE i = 0
      BY <2>1, <3>1 DEF IsLaid
    <3>2. CASE i # 0 /\ i <= k
      <4>1. i \in 0 .. k /\ i - 1 \in 0 .. k + 1 /\ i - 1 <= k
        BY <3>2
      <4>2. h[i] = g[i] /\ h[i - 1] = g[i - 1]
        BY <4>1, <3>2
      <4>3. g[i] = Place(g[i - 1], rows[i])
        BY <2>1, <4>1, <3>2 DEF IsLaid
      <4> QED
        BY <4>2, <4>3, <3>2
    <3>3. CASE i = k + 1
      <4>1. h[i] = Place(g[k], rows[k + 1]) /\ h[i - 1] = g[k] /\ i # 0
        BY <3>3
      <4> QED
        BY <4>1, <3>3
    <3> QED
      BY <3>1, <3>2, <3>3
  <2>3. h = [i \in 0 .. k + 1 |-> h[i]]
    OBVIOUS
  <2> HIDE DEF h
  <2>4. IsLaid(h, rows, k + 1)
    BY <2>2, <2>3 DEF IsLaid
  <2> QED
    BY <2>4
<1>3. \A k \in Nat : k \in T
  <2> HIDE DEF T
  <2> QED
    BY <1>1, <1>2, NatSetInduction
<1>4. \E g : g = [i \in 0 .. Len(rows) |-> IF i = 0 THEN NoRows ELSE Place(g[i - 1], rows[i])]
  BY <1>3 DEF IsLaid
<1> QED
  BY <1>4 DEF Laid, IsLaid

\* What Laid is after no row, and after each row.
LEMMA LaidStep ==
  ASSUME NEW rows, Len(rows) \in Nat
  PROVE  /\ Laid(rows)[0] = NoRows
         /\ \A i \in 1 .. Len(rows) : Laid(rows)[i] = Place(Laid(rows)[i - 1], rows[i])
<1> DEFINE g == Laid(rows)
<1> HIDE DEF g
<1>1. g = [i \in 0 .. Len(rows) |-> IF i = 0 THEN NoRows ELSE Place(g[i - 1], rows[i])]
  BY LaidIs DEF IsLaid, g
<1>2. g[0] = NoRows
  BY <1>1
<1>3. ASSUME NEW i \in 1 .. Len(rows) PROVE g[i] = Place(g[i - 1], rows[i])
  <2>1. i \in 0 .. Len(rows) /\ i # 0
    OBVIOUS
  <2> QED
    BY <1>1, <2>1
<1> QED
  BY <1>2, <1>3 DEF g

\* Sequences with the same elements are equal.
LEMMA SameSequence ==
  ASSUME NEW S, NEW s \in Seq(S), NEW t \in Seq(S), Len(s) = Len(t), \A i \in 1 .. Len(s) : s[i] = t[i]
  PROVE  s = t
  OBVIOUS

\* Concatenations of short lists.
LEMMA Concat11 ==
  ASSUME NEW a, NEW b
  PROVE  <<a>> \o <<b>> = <<a, b>>
<1> DEFINE S == {a, b}
<1>1. <<a>> \in Seq(S) /\ <<b>> \in Seq(S) /\ <<a, b>> \in Seq(S)
  OBVIOUS
<1>2. Len(<<a>>) = 1 /\ Len(<<b>>) = 1 /\ Len(<<a, b>>) = 2
  OBVIOUS
<1> HIDE DEF S
<1>3. Len(<<a>> \o <<b>>) = 2 /\ (<<a>> \o <<b>>) \in Seq(S)
  BY <1>1, <1>2
<1>4. \A i \in 1 .. 2 : (<<a>> \o <<b>>)[i] = <<a, b>>[i]
  BY <1>1, <1>2
<1> QED
  BY <1>1, <1>2, <1>3, <1>4, SameSequence

LEMMA Concat12 ==
  ASSUME NEW a, NEW b, NEW c
  PROVE  <<a>> \o <<b, c>> = <<a, b, c>>
<1> DEFINE S == {a, b, c}
<1>1. <<a>> \in Seq(S) /\ <<b, c>> \in Seq(S) /\ <<a, b, c>> \in Seq(S)
  OBVIOUS
<1>2. Len(<<a>>) = 1 /\ Len(<<b, c>>) = 2 /\ Len(<<a, b, c>>) = 3
  OBVIOUS
<1> HIDE DEF S
<1>3. Len(<<a>> \o <<b, c>>) = 3 /\ (<<a>> \o <<b, c>>) \in Seq(S)
  BY <1>1, <1>2
<1>4. \A i \in 1 .. 3 : (<<a>> \o <<b, c>>)[i] = <<a, b, c>>[i]
  BY <1>1, <1>2
<1> QED
  BY <1>1, <1>2, <1>3, <1>4, SameSequence

LEMMA Concat22 ==
  ASSUME NEW a, NEW b, NEW c, NEW d
  PROVE  <<a, b>> \o <<c, d>> = <<a, b, c, d>>
<1> DEFINE S == {a, b, c, d}
<1>1. <<a, b>> \in Seq(S) /\ <<c, d>> \in Seq(S) /\ <<a, b, c, d>> \in Seq(S)
  OBVIOUS
<1>2. Len(<<a, b>>) = 2 /\ Len(<<c, d>>) = 2 /\ Len(<<a, b, c, d>>) = 4
  OBVIOUS
<1> HIDE DEF S
<1>3. Len(<<a, b>> \o <<c, d>>) = 4 /\ (<<a, b>> \o <<c, d>>) \in Seq(S)
  BY <1>1, <1>2
<1>4. \A i \in 1 .. 4 : (<<a, b>> \o <<c, d>>)[i] = <<a, b, c, d>>[i]
  BY <1>1, <1>2
<1> QED
  BY <1>1, <1>2, <1>3, <1>4, SameSequence

LEMMA Concat32 ==
  ASSUME NEW a, NEW b, NEW c, NEW d, NEW e
  PROVE  <<a, b, c>> \o <<d, e>> = <<a, b, c, d, e>>
<1> DEFINE S == {a, b, c, d, e}
<1>1. <<a, b, c>> \in Seq(S) /\ <<d, e>> \in Seq(S) /\ <<a, b, c, d, e>> \in Seq(S)
  OBVIOUS
<1>2. Len(<<a, b, c>>) = 3 /\ Len(<<d, e>>) = 2 /\ Len(<<a, b, c, d, e>>) = 5
  OBVIOUS
<1> HIDE DEF S
<1>3. Len(<<a, b, c>> \o <<d, e>>) = 5 /\ (<<a, b, c>> \o <<d, e>>) \in Seq(S)
  BY <1>1, <1>2
<1>4. \A i \in 1 .. 5 : (<<a, b, c>> \o <<d, e>>)[i] = <<a, b, c, d, e>>[i]
  BY <1>1, <1>2
<1> QED
  BY <1>1, <1>2, <1>3, <1>4, SameSequence

LEMMA Concat41 ==
  ASSUME NEW a, NEW b, NEW c, NEW d, NEW e
  PROVE  <<a, b, c, d>> \o <<e>> = <<a, b, c, d, e>>
<1> DEFINE S == {a, b, c, d, e}
<1>1. <<a, b, c, d>> \in Seq(S) /\ <<e>> \in Seq(S) /\ <<a, b, c, d, e>> \in Seq(S)
  OBVIOUS
<1>2. Len(<<a, b, c, d>>) = 4 /\ Len(<<e>>) = 1 /\ Len(<<a, b, c, d, e>>) = 5
  OBVIOUS
<1> HIDE DEF S
<1>3. Len(<<a, b, c, d>> \o <<e>>) = 5 /\ (<<a, b, c, d>> \o <<e>>) \in Seq(S)
  BY <1>1, <1>2
<1>4. \A i \in 1 .. 5 : (<<a, b, c, d>> \o <<e>>)[i] = <<a, b, c, d, e>>[i]
  BY <1>1, <1>2
<1> QED
  BY <1>1, <1>2, <1>3, <1>4, SameSequence

\* The rows of a page: a heading has its items right below it.
RowsOK(rows) ==
  /\ Len(rows) \in Nat
  /\ \A i \in 1 .. Len(rows) : rows[i].kind \in {"item", "head", "note", "line"} /\ rows[i].extra \in 0 .. HELP_MAX
  /\ \A i \in 1 .. Len(rows) : rows[i].kind = "item" =>
       \/ i = 1
       \/ rows[i - 1].kind = "item"
       \/ rows[i - 1].kind = "head" /\ (i = 2 \/ rows[i - 2].kind = "item")

\* Items made of these rows.
ItemSet(rows) ==
  [name : {rows[i].name : i \in 1 .. Len(rows)}, extra : 0 .. HELP_MAX, base : Nat, top : Nat]

\* An item lies in a list of height y, and its heading is right above it.  The first
\* item shows from the top of the list on.
FitsAt(r, y, first) ==
  /\ r.base + ROW_H <= y
  /\ r.top <= r.base
  /\ r.base - (IF first THEN 0 ELSE r.top) <= PAD_H + SEC_H

AllFit(l) == \A k \in 1 .. Len(l.items) : FitsAt(l.items[k], l.y, k = 1)

\* A heading is open: the next item starts at it.
HeadOpen(acc, i, rows) ==
  /\ acc.pending \in Nat /\ acc.pending <= acc.y /\ acc.y - acc.pending <= PAD_H + SEC_H
  /\ (i = 1 => acc.y = SEC_H) /\ (i > 1 => Len(acc.items) >= 1)

\* The list after i rows.
AccOK(acc, i, rows) ==
  /\ acc.y \in Nat /\ acc.pending \in Int /\ acc.items \in Seq(ItemSet(rows))
  /\ AllFit(acc)
  /\ Len(acc.items) <= ITEMS_MAX
  /\ i = 0 => acc.y = 0 /\ acc.pending = -1
  /\ i > 0 /\ rows[i].kind = "item" => Len(acc.items) >= 1
  /\ i > 0 /\ rows[i].kind = "item" /\ Len(acc.items) < ITEMS_MAX => acc.pending = -1
  /\ i > 0 /\ rows[i].kind = "head" /\ (i = 1 \/ rows[i - 1].kind = "item") /\ Len(acc.items) < ITEMS_MAX
       => HeadOpen(acc, i, rows)

\* The numbers of PagesAssumption, one by one.
LEMMA PagesNumbers ==
  /\ ROW_H \in Nat \ {0} /\ SEC_H \in Nat \ {0} /\ PAD_H \in Nat \ {0} /\ MAIN_H \in Nat \ {0}
  /\ VIEW_H \in Nat \ {0} /\ ITEMS_MAX \in Nat \ {0} /\ HELP_MAX \in Nat
  /\ VIEW_H <= MAIN_H /\ PAD_H + SEC_H + ROW_H + HELP_MAX <= VIEW_H
  BY PagesAssumption DEF HELP_MAX

\* What Append keeps and adds.
LEMMA AppendFits ==
  ASSUME NEW S, NEW s \in Seq(S), NEW r \in S
  PROVE  /\ Append(s, r) \in Seq(S) /\ Len(Append(s, r)) = Len(s) + 1
         /\ Append(s, r)[Len(s) + 1] = r
         /\ \A k \in 1 .. Len(s) : Append(s, r)[k] = s[k]
  OBVIOUS

\* An item that fits a list fits a longer one.
LEMMA FitsHigher ==
  ASSUME NEW rows, NEW r \in ItemSet(rows), NEW y \in Nat, NEW z \in Nat, y <= z, NEW b, FitsAt(r, y, b)
  PROVE  FitsAt(r, z, b)
<1>1. r.base \in Nat
  BY DEF ItemSet
<1> QED
  BY <1>1, PagesNumbers DEF FitsAt

\* One more row keeps AccOK; one case for an item that is dropped, one for an item
\* that is added, one for the other rows.
LEMMA PlaceKeeps ==
  ASSUME NEW rows, RowsOK(rows), NEW i \in 1 .. Len(rows), NEW acc, AccOK(acc, i - 1, rows)
  PROVE  AccOK(Place(acc, rows[i]), i, rows)
<1> DEFINE r == rows[i]
           n == Len(acc.items)
           new == Place(acc, r)
<1>n. ROW_H \in Nat \ {0} /\ SEC_H \in Nat \ {0} /\ PAD_H \in Nat \ {0} /\ ITEMS_MAX \in Nat \ {0} /\ HELP_MAX \in Nat
  BY PagesNumbers
<1>0. /\ r.kind \in {"item", "head", "note", "line"} /\ r.extra \in 0 .. HELP_MAX
      /\ r.name \in {rows[j].name : j \in 1 .. Len(rows)}
      /\ acc.y \in Nat /\ acc.pending \in Int /\ acc.items \in Seq(ItemSet(rows)) /\ n \in Nat /\ n <= ITEMS_MAX
      /\ i \in Nat /\ i > 0
  BY DEF RowsOK, AccOK
<1>1. CASE r.kind = "item" /\ n = ITEMS_MAX
  <2>1. new = acc
    BY <1>1 DEF Place
  <2>2. n >= 1 /\ ~(n < ITEMS_MAX)
    BY <1>1, <1>n
  <2> QED
    BY <2>1, <2>2, <1>1, <1>0 DEF AccOK
<1>2. CASE r.kind = "item" /\ n # ITEMS_MAX
  <2> DEFINE top == IF acc.pending >= 0 THEN acc.pending ELSE acc.y
             it == [name |-> r.name, extra |-> r.extra, base |-> acc.y, top |-> top]
  <2>1. new = [y |-> acc.y + ROW_H, pending |-> -1, items |-> Append(acc.items, it)]
    BY <1>2 DEF Place
  <2>2. top \in Nat
    BY <1>0
  <2>3. it \in ItemSet(rows)
    BY <1>0, <2>2 DEF ItemSet
  <2>4. /\ new.y = acc.y + ROW_H /\ new.pending = -1 /\ new.items = Append(acc.items, it)
    BY <2>1
  <2>5. /\ new.items \in Seq(ItemSet(rows)) /\ Len(new.items) = n + 1 /\ new.items[n + 1] = it
        /\ \A k \in 1 .. n : new.items[k] = acc.items[k]
    BY <2>3, <2>4, <1>0, AppendFits
  <2>6. /\ top <= acc.y
        /\ acc.y - (IF n + 1 = 1 THEN 0 ELSE top) <= PAD_H + SEC_H
    <3>1. CASE i = 1
      <4>1. acc.y = 0 /\ acc.pending = -1
        BY <3>1 DEF AccOK
      <4> QED
        BY <4>1, <1>n, <1>0
    <3>2. CASE i # 1 /\ rows[i - 1].kind = "item"
      <4>1. i - 1 > 0 /\ n < ITEMS_MAX
        BY <3>2, <1>0, <1>2, <1>n
      <4>2. n >= 1 /\ acc.pending = -1
        BY <4>1, <3>2 DEF AccOK
      <4> QED
        BY <4>2, <1>n, <1>0
    <3>3. CASE i # 1 /\ rows[i - 1].kind # "item"
      <4>1. rows[i - 1].kind = "head" /\ (i = 2 \/ rows[i - 2].kind = "item")
        BY <3>3, <1>2 DEF RowsOK
      <4>2. i - 1 > 0 /\ n < ITEMS_MAX /\ (i - 1) - 1 = i - 2
        BY <3>3, <1>0, <1>2, <1>n
      <4>3. i - 1 = 1 \/ rows[(i - 1) - 1].kind = "item"
        BY <4>1, <4>2, <1>0
      <4>4. HeadOpen(acc, i - 1, rows)
        BY <4>1, <4>2, <4>3 DEF AccOK
      <4>5. /\ acc.pending \in Nat /\ acc.pending <= acc.y /\ acc.y - acc.pending <= PAD_H + SEC_H
            /\ (i - 1 = 1 => acc.y = SEC_H) /\ (i - 1 > 1 => n >= 1)
        BY <4>4 DEF HeadOpen
      <4>6. top = acc.pending
        BY <4>5
      <4>7. CASE i - 1 = 1
        BY <4>5, <4>6, <4>7, <1>n, <1>0
      <4>8. CASE i - 1 # 1
        <5>1. n >= 1
          BY <4>8, <4>5, <4>2, <1>0
        <5> QED
          BY <5>1, <4>5, <4>6, <1>0
      <4> QED
        BY <4>7, <4>8
    <3> QED
      BY <3>1, <3>2, <3>3
  <2>7. FitsAt(it, new.y, n + 1 = 1)
    BY <2>6, <2>4, <1>0, <1>n, <2>2 DEF FitsAt
  <2>8. AllFit(new)
    <3> SUFFICES ASSUME NEW k \in 1 .. n + 1 PROVE FitsAt(new.items[k], new.y, k = 1)
      BY <2>5 DEF AllFit
    <3>1. CASE k = n + 1
      BY <3>1, <2>7, <2>5
    <3>2. CASE k # n + 1
      <4>1. k \in 1 .. n
        BY <3>2, <1>0
      <4>2. acc.items[k] \in ItemSet(rows) /\ new.items[k] = acc.items[k]
        BY <4>1, <2>5, <1>0
      <4>3. FitsAt(acc.items[k], acc.y, k = 1)
        BY <4>1 DEF AccOK, AllFit
      <4>4. new.y \in Nat /\ acc.y <= new.y
        <5>1. acc.y \in Nat /\ new.y = acc.y + ROW_H /\ ROW_H \in Nat
          BY <2>4, <1>0, <1>n
        <5> HIDE DEF new
        <5> QED
          BY <5>1
      <4> QED
        BY <4>2, <4>3, <4>4, <1>0, FitsHigher
    <3> QED
      BY <3>1, <3>2
  <2>9. acc.y + ROW_H \in Nat /\ -1 \in Int /\ n + 1 <= ITEMS_MAX /\ n + 1 >= 1 /\ i # 0
    BY <1>0, <1>n, <1>2
  <2>10. new.y \in Nat /\ new.pending \in Int /\ Len(new.items) <= ITEMS_MAX /\ Len(new.items) >= 1
    <3> HIDE DEF new, n
    <3> QED
      BY <2>4, <2>5, <2>9
  <2>11. rows[i].kind # "head"
    BY <1>2
  <2> HIDE DEF new, it, top, n, r
  <2>12. i = 0 => new.y = 0 /\ new.pending = -1
    BY <2>9
  <2>13. AccOK(new, i, rows)
    BY <2>4, <2>5, <2>8, <2>9, <2>10, <2>11, <2>12 DEF AccOK
  <2> QED
    BY <2>13 DEF new, r
<1>3. CASE r.kind # "item"
  <2> DEFINE y == IF r.kind = "head" /\ acc.y > 0 THEN acc.y + PAD_H ELSE acc.y
             p == IF r.kind = "head" THEN (IF acc.pending < 0 THEN acc.y ELSE acc.pending) ELSE acc.pending
             h == IF r.kind = "head" THEN SEC_H ELSE ROW_H
  <2>1. new = [y |-> y + h, pending |-> p, items |-> acc.items]
    BY <1>3, <1>0 DEF Place
  <2>2. new.y = y + h /\ new.pending = p /\ new.items = acc.items
    BY <2>1
  <2>3. y \in Nat /\ h \in Nat /\ p \in Int /\ acc.y <= y + h /\ y + h \in Nat
    <3>1. (y = acc.y + PAD_H \/ y = acc.y) /\ (p = acc.y \/ p = acc.pending) /\ (h = SEC_H \/ h = ROW_H)
      OBVIOUS
    <3>2. acc.y \in Nat /\ acc.pending \in Int /\ PAD_H \in Nat /\ SEC_H \in Nat /\ ROW_H \in Nat
      BY <1>0, <1>n
    <3> HIDE DEF y, p, h
    <3> QED
      BY <3>1, <3>2
  <2>4. AllFit(new)
    <3> SUFFICES ASSUME NEW k \in 1 .. n PROVE FitsAt(acc.items[k], y + h, k = 1)
      BY <2>2 DEF AllFit
    <3>1. FitsAt(acc.items[k], acc.y, k = 1)
      BY DEF AccOK, AllFit
    <3>2. acc.items[k] \in ItemSet(rows)
      BY <1>0
    <3> HIDE DEF y, h
    <3> QED
      BY <3>1, <3>2, <2>3, <1>0, FitsHigher
  <2>5. ASSUME r.kind = "head", i = 1 \/ rows[i - 1].kind = "item", n < ITEMS_MAX
        PROVE  HeadOpen(new, i, rows)
    <3>1. CASE i = 1
      <4>1. acc.y = 0 /\ acc.pending = -1
        BY <3>1 DEF AccOK
      <4>2. y + h = SEC_H /\ p = 0
        BY <4>1, <2>5, <1>n
      <4>3. new.y = SEC_H /\ new.pending = 0
        BY <4>2, <2>2
      <4> HIDE DEF new
      <4> QED
        BY <4>3, <1>n, <3>1 DEF HeadOpen
    <3>2. CASE i # 1
      <4>1. i - 1 > 0 /\ rows[i - 1].kind = "item"
        BY <3>2, <2>5, <1>0
      <4>2. n >= 1 /\ acc.pending = -1
        BY <4>1, <2>5 DEF AccOK
      <4>3. p = acc.y /\ y + h <= acc.y + PAD_H + SEC_H /\ acc.y <= y + h
        BY <4>2, <2>5, <1>n, <1>0
      <4> HIDE DEF new, p, y, h
      <4>4. new.pending = acc.y /\ new.y - acc.y <= PAD_H + SEC_H /\ acc.y <= new.y /\ Len(new.items) >= 1
        BY <4>2, <4>3, <2>2, <2>3, <1>0, <1>n
      <4> QED
        BY <4>4, <1>0, <3>2 DEF HeadOpen
    <3> QED
      BY <3>1, <3>2
  <2> HIDE DEF y, p, h, new
  <2>6. new.y \in Nat /\ new.pending \in Int /\ i # 0
    BY <2>2, <2>3, <1>0
  <2>7. rows[i].kind # "item" /\ Len(new.items) <= ITEMS_MAX /\ new.items \in Seq(ItemSet(rows)) /\ Len(new.items) = n
    BY <2>2, <1>3, <1>0
  <2>8. rows[i].kind = "head" /\ (i = 1 \/ rows[i - 1].kind = "item") /\ n < ITEMS_MAX => HeadOpen(new, i, rows)
    BY <2>5
  <2> HIDE DEF n, r
  <2>9. i = 0 => new.y = 0 /\ new.pending = -1
    BY <2>6
  <2>10. AccOK(new, i, rows)
    BY <2>4, <2>6, <2>7, <2>8, <2>9 DEF AccOK
  <2> QED
    BY <2>10 DEF new, r
<1> QED
  BY <1>1, <1>2, <1>3

\* Every item of a list fits it.
LEMMA LayoutFits ==
  ASSUME NEW rows, RowsOK(rows)
  PROVE  /\ Layout(rows).y \in Nat
         /\ Layout(rows).items \in Seq(ItemSet(rows)) /\ Len(Layout(rows).items) <= ITEMS_MAX
         /\ AllFit(Layout(rows))
<1>1. Len(rows) \in Nat
  BY DEF RowsOK
<1> DEFINE T == {i \in 0 .. Len(rows) : AccOK(Laid(rows)[i], i, rows)}
<1>2. 0 \in T
  <2>1. Laid(rows)[0] = NoRows
    BY <1>1, LaidStep
  <2>2. NoRows.y = 0 /\ NoRows.pending = -1 /\ NoRows.items = <<>>
    BY DEF NoRows
  <2>3. NoRows.items \in Seq(ItemSet(rows)) /\ Len(NoRows.items) = 0 /\ AllFit(NoRows)
    BY <2>2 DEF AllFit
  <2>4. AccOK(NoRows, 0, rows)
    BY <2>2, <2>3, PagesNumbers DEF AccOK
  <2> QED
    BY <2>1, <2>4, <1>1
<1>3. ASSUME NEW i \in 1 .. Len(rows), i - 1 \in T PROVE i \in T
  <2>1. Laid(rows)[i] = Place(Laid(rows)[i - 1], rows[i])
    BY <1>1, LaidStep
  <2>2. AccOK(Laid(rows)[i - 1], i - 1, rows)
    BY <1>3
  <2>3. AccOK(Laid(rows)[i], i, rows)
    BY <2>1, <2>2, PlaceKeeps
  <2> QED
    BY <2>3, <1>1
<1>4. \A i \in 0 .. Len(rows) : i \in T
  <2> HIDE DEF T
  <2> QED
    BY <1>1, <1>2, <1>3, UpToInduction
<1>5. AccOK(Layout(rows), Len(rows), rows)
  BY <1>1, <1>4 DEF Layout
<1> QED
  BY <1>5 DEF AccOK

\* count[i] items among the first i rows, the k-th of them called name[k].
Counts(rows, count, name) ==
  /\ count[0] = 0
  /\ \A i \in 0 .. Len(rows) : count[i] \in Nat
  /\ \A i \in 1 .. Len(rows) :
       IF rows[i].kind = "item" THEN count[i] = count[i - 1] + 1 /\ rows[i].name = name[count[i]]
       ELSE count[i] = count[i - 1]

\* The names so far; until the list is full it has every item.
Named(acc, c, name) ==
  /\ \A k \in 1 .. Len(acc.items) : acc.items[k].name = name[k]
  /\ Len(acc.items) < ITEMS_MAX => Len(acc.items) = c

\* The k-th item of a list is the k-th item that was built, also when the list is
\* full before the last one.
LEMMA LayoutNames ==
  ASSUME NEW rows, RowsOK(rows), NEW count, NEW name, Counts(rows, count, name)
  PROVE  \A k \in 1 .. Len(Layout(rows).items) : Layout(rows).items[k].name = name[k]
<1>1. Len(rows) \in Nat
  BY DEF RowsOK
<1> DEFINE T == {i \in 0 .. Len(rows) : AccOK(Laid(rows)[i], i, rows) /\ Named(Laid(rows)[i], count[i], name)}
<1>2. 0 \in T
  <2>1. Laid(rows)[0] = NoRows
    BY <1>1, LaidStep
  <2>2. NoRows.y = 0 /\ NoRows.pending = -1 /\ NoRows.items = <<>>
    BY DEF NoRows
  <2>3. NoRows.items \in Seq(ItemSet(rows)) /\ Len(NoRows.items) = 0 /\ AllFit(NoRows)
    BY <2>2 DEF AllFit
  <2>4. AccOK(NoRows, 0, rows)
    BY <2>2, <2>3, PagesNumbers DEF AccOK
  <2>5. Named(NoRows, count[0], name)
    BY <2>3 DEF Named, Counts
  <2> QED
    BY <2>1, <2>4, <2>5, <1>1
<1>3. ASSUME NEW i \in 1 .. Len(rows), i - 1 \in T PROVE i \in T
  <2> DEFINE acc == Laid(rows)[i - 1]
             new == Laid(rows)[i]
             n == Len(acc.items)
  <2>1. new = Place(acc, rows[i])
    BY <1>1, LaidStep
  <2>2. AccOK(acc, i - 1, rows) /\ Named(acc, count[i - 1], name)
    BY <1>3
  <2> HIDE DEF acc, new
  <2>3. AccOK(new, i, rows)
    BY <2>1, <2>2, PlaceKeeps
  <2>4. Named(new, count[i], name)
    <3>0. acc.items \in Seq(ItemSet(rows)) /\ n \in Nat /\ n <= ITEMS_MAX /\ ITEMS_MAX \in Nat
      BY <2>2, PagesNumbers DEF AccOK
    <3>1. CASE rows[i].kind = "item" /\ n = ITEMS_MAX
      <4>1. new = acc /\ ~(n < ITEMS_MAX)
        BY <2>1, <3>1, <3>0 DEF Place
      <4> QED
        BY <4>1, <2>2 DEF Named
    <3>2. CASE rows[i].kind = "item" /\ n # ITEMS_MAX
      <4>1. \E b, t : new.items = Append(acc.items, [name |-> rows[i].name, extra |-> rows[i].extra, base |-> b, top |-> t])
        BY <2>1, <3>2 DEF Place
      <4>2. PICK it : new.items = Append(acc.items, it) /\ it.name = rows[i].name
        BY <4>1
      <4>3. count[i] = n + 1 /\ rows[i].name = name[n + 1]
        <5>1. n < ITEMS_MAX
          BY <3>2, <3>0
        <5>2. n = count[i - 1]
          BY <5>1, <2>2 DEF Named
        <5> QED
          BY <5>2, <3>2 DEF Counts
      <4>4. Len(new.items) = n + 1 /\ \A k \in 1 .. n + 1 : new.items[k] = IF k = n + 1 THEN it ELSE acc.items[k]
        <5> HIDE DEF n
        <5>1. n = Len(acc.items)
          BY DEF n
        <5> QED
          BY <4>2, <3>0, <5>1
      <4>5. ASSUME NEW k \in 1 .. n + 1 PROVE new.items[k].name = name[k]
        <5>1. CASE k = n + 1
          BY <5>1, <4>4, <4>2, <4>3
        <5>2. CASE k # n + 1
          <6>1. k \in 1 .. n
            BY <5>2, <3>0
          <6> QED
            BY <6>1, <5>2, <4>4, <2>2 DEF Named
        <5> QED
          BY <5>1, <5>2
      <4> QED
        BY <4>3, <4>4, <4>5 DEF Named
    <3>3. CASE rows[i].kind # "item"
      <4>1. new.items = acc.items
        BY <2>1, <3>3 DEF Place
      <4>2. count[i] = count[i - 1]
        BY <3>3 DEF Counts
      <4> QED
        BY <4>1, <4>2, <2>2 DEF Named
    <3> QED
      BY <3>1, <3>2, <3>3
  <2> QED
    BY <2>3, <2>4, <1>1 DEF new
<1>4. \A i \in 0 .. Len(rows) : i \in T
  <2> HIDE DEF T
  <2> QED
    BY <1>1, <1>2, <1>3, UpToInduction
<1> QED
  BY <1>1, <1>4 DEF Layout, Named

\* What pages are built from.
EnvOK(e) ==
  /\ e = [card |-> e.card, titles |-> e.titles, pay |-> e.pay, kbd |-> e.kbd, set |-> e.set, cfw |-> e.cfw]
  /\ e.card \in {"NONE", "READY"} /\ e.pay \in Nat
  /\ \E S : e.titles \in Seq(S)

\* A list of items only.
LEMMA AllItems ==
  ASSUME NEW rows, NEW name, Len(rows) \in Nat,
         \A i \in 1 .. Len(rows) : rows[i].kind = "item" /\ rows[i].extra \in 0 .. HELP_MAX /\ rows[i].name = name[i]
  PROVE  RowsOK(rows) /\ \A k \in 1 .. Len(Layout(rows).items) : Layout(rows).items[k].name = name[k]
<1>1. RowsOK(rows)
  <2>1. ASSUME NEW i \in 1 .. Len(rows)
        PROVE  i = 1 \/ rows[i - 1].kind = "item"
    <3>1. i = 1 \/ i - 1 \in 1 .. Len(rows)
      OBVIOUS
    <3> QED
      BY <3>1
  <2> QED
    BY <2>1 DEF RowsOK
<1> DEFINE c == [i \in 0 .. Len(rows) |-> i]
<1>2. Counts(rows, c, name)
  <2>1. c[0] = 0 /\ \A i \in 0 .. Len(rows) : c[i] = i
    OBVIOUS
  <2>2. \A i \in 1 .. Len(rows) : c[i] = i /\ c[i] = c[i - 1] + 1
    OBVIOUS
  <2> HIDE DEF c
  <2> QED
    BY <2>1, <2>2 DEF Counts
<1> HIDE DEF c
<1> QED
  BY <1>1, <1>2, LayoutNames

\* The length of a list that is given by its index.
LEMMA FunctionRows ==
  ASSUME NEW n \in Nat, NEW rows, rows = [i \in 1 .. n |-> rows[i]]
  PROVE  Len(rows) = n
<1> DEFINE S == {rows[i] : i \in 1 .. n}
<1>1. rows \in [1 .. n -> S]
  OBVIOUS
<1>2. rows \in Seq(S)
  BY <1>1
<1> QED
  BY <1>1, <1>2

\* The launch page has the card's entries and the two systems in NAND.
LEMMA LaunchIs ==
  ASSUME NEW e, EnvOK(e)
  PROVE  /\ Len(launch(e)) = Len(e.titles) + 2 /\ Len(e.titles) \in Nat
         /\ DOMAIN launch(e) = 1 .. Len(launch(e))
<1>1. PICK S : e.titles \in Seq(S)
  BY DEF EnvOK
<1> DEFINE P == S \cup {"wince_cfw", "wince"}
<1>2. [i \in DOMAIN e.titles |-> e.titles[i]] = e.titles
  BY <1>1
<1>3. launch(e) = e.titles \o <<"wince_cfw", "wince">>
  BY <1>2 DEF launch
<1>4. <<"wince_cfw", "wince">> \in Seq(P) /\ Len(<<"wince_cfw", "wince">>) = 2
  OBVIOUS
<1>5. e.titles \in Seq(P) /\ Len(e.titles) \in Nat
  <2>1. e.titles \in [1 .. Len(e.titles) -> S] /\ Len(e.titles) \in Nat
    BY <1>1
  <2>2. e.titles \in [1 .. Len(e.titles) -> P]
    BY <2>1
  <2> HIDE DEF P
  <2> QED
    BY <2>1, <2>2
<1> HIDE DEF P
<1>6. launch(e) \in Seq(P) /\ Len(launch(e)) = Len(e.titles) + 2
  BY <1>3, <1>4, <1>5
<1> QED
  BY <1>5, <1>6

\* Item k of the launch page is entry k.
LEMMA LaunchRows ==
  ASSUME NEW e, EnvOK(e)
  PROVE  /\ RowsOK(launch_build(e))
         /\ \A k \in 1 .. Len(Layout(launch_build(e)).items) : Layout(launch_build(e)).items[k].name = launch(e)[k]
<1> DEFINE rows == launch_build(e)
           n == Len(launch(e))
<1>1. n \in Nat /\ DOMAIN launch(e) = 1 .. n
  BY LaunchIs
<1>2. rows = [i \in 1 .. n |-> Item(launch(e)[i], IF i > Len(e.titles) THEN 3 ELSE 0)]
  BY <1>1 DEF launch_build
<1>3. Len(rows) = n
  <2> HIDE DEF rows, n
  <2>1. rows = [i \in 1 .. n |-> rows[i]]
    BY <1>2
  <2> QED
    BY <2>1, <1>1, FunctionRows
<1>4. ASSUME NEW i \in 1 .. n
      PROVE  rows[i].kind = "item" /\ rows[i].extra \in 0 .. HELP_MAX /\ rows[i].name = launch(e)[i]
  <2>1. rows[i] = Item(launch(e)[i], IF i > Len(e.titles) THEN 3 ELSE 0)
    BY <1>2
  <2>2. (IF i > Len(e.titles) THEN 3 ELSE 0) \in 0 .. HELP_MAX
    BY DEF HELP_MAX
  <2> QED
    BY <2>1, <2>2 DEF Item
<1> HIDE DEF rows, n
<1>5. \A i \in 1 .. Len(rows) : rows[i].kind = "item" /\ rows[i].extra \in 0 .. HELP_MAX /\ rows[i].name = launch(e)[i]
  BY <1>3, <1>4
<1>6. /\ RowsOK(rows) /\ \A k \in 1 .. Len(Layout(rows).items) : Layout(rows).items[k].name = launch(e)[k]
  BY <1>1, <1>3, <1>5, AllItems
<1> QED
  BY <1>6 DEF rows

\* A list without items has none.
\* The pages without items.
LEMMA NoteRows ==
  /\ RowsOK(<<Note>>) /\ Layout(<<Note>>).items = <<>>
  /\ RowsOK(info_build)
<1>1. RowsOK(<<Note>>)
  BY DEF RowsOK, Note, HELP_MAX
<1>2. Layout(<<Note>>).items = <<>>
  <2> DEFINE rows == <<Note>>
  <2>1. Len(rows) = 1 /\ rows[1] = Note /\ 1 \in 1 .. Len(rows)
    OBVIOUS
  <2> HIDE DEF rows
  <2>2. Laid(rows)[0] = NoRows /\ Laid(rows)[1] = Place(Laid(rows)[1 - 1], rows[1])
    BY <2>1, LaidStep
  <2>3. Laid(rows)[1] = Place(NoRows, Note)
    BY <2>1, <2>2
  <2>4. Place(NoRows, Note).items = <<>>
    BY DEF Place, NoRows, Note
  <2> QED
    BY <2>1, <2>3, <2>4 DEF Layout, rows
<1>3. RowsOK(info_build)
  BY DEF RowsOK, info_build, Head_, InfoLine, HELP_MAX
<1> QED
  BY <1>1, <1>2, <1>3

\* Item k of the payload page is payload k.
LEMMA PayloadRows ==
  ASSUME NEW e, EnvOK(e)
  PROVE  /\ RowsOK(payloads_build(e))
         /\ \A k \in 1 .. Len(Layout(payloads_build(e)).items) : Layout(payloads_build(e)).items[k].name = k
<1>0. e.pay \in Nat
  BY DEF EnvOK
<1>1. CASE e.card # "READY" \/ e.pay = 0
  <2>1. payloads_build(e) = <<Note>>
    BY <1>1 DEF payloads_build
  <2>2. Len(Layout(<<Note>>).items) = 0
    BY NoteRows
  <2> QED
    BY <2>1, <2>2, NoteRows
<1>2. CASE ~(e.card # "READY" \/ e.pay = 0)
  <2> DEFINE rows == payloads_build(e)
             n == e.pay
             name == [k \in Nat |-> k]
  <2>1. rows = [i \in 1 .. n |-> Item(i, 0)]
    BY <1>2 DEF payloads_build
  <2>2. Len(rows) = n
    <3> HIDE DEF rows, n
    <3>1. rows = [i \in 1 .. n |-> rows[i]]
      BY <2>1
    <3> QED
      BY <3>1, <1>0, FunctionRows DEF n
  <2>3. ASSUME NEW i \in 1 .. n
        PROVE  rows[i].kind = "item" /\ rows[i].extra \in 0 .. HELP_MAX /\ rows[i].name = name[i]
    <3>1. rows[i] = Item(i, 0)
      BY <2>1
    <3> QED
      BY <3>1 DEF HELP_MAX, Item
  <2>n. \A k \in Nat : name[k] = k
    OBVIOUS
  <2> HIDE DEF rows, n, name
  <2>4. \A i \in 1 .. Len(rows) : rows[i].kind = "item" /\ rows[i].extra \in 0 .. HELP_MAX /\ rows[i].name = name[i]
    BY <2>2, <2>3
  <2>5. RowsOK(rows) /\ \A k \in 1 .. Len(Layout(rows).items) : Layout(rows).items[k].name = name[k]
    BY <1>0, <2>2, <2>4, AllItems DEF n
  <2>6. Layout(rows).items \in Seq(ItemSet(rows))
    BY <2>5, LayoutFits
  <2>7. \A k \in 1 .. Len(Layout(rows).items) : Layout(rows).items[k].name = k
    BY <2>5, <2>6, <2>n
  <2> QED
    BY <2>5, <2>7 DEF rows
<1> QED
  BY <1>1, <1>2

\* Item k of the settings page is the option that option_of_item gives.
LEMMA SettingsRows ==
  ASSUME NEW e
  PROVE  /\ RowsOK(settings_build(e))
         /\ \A k \in 1 .. Len(Layout(settings_build(e)).items) :
              Layout(settings_build(e)).items[k].name = option_of_item(e, k)
<1> DEFINE rows == settings_build(e)
           name == [k \in Nat |-> option_of_item(e, k)]
<1>1. /\ Len(rows) \in Nat
      /\ \A i \in 1 .. Len(rows) : rows[i] = Item(option_of_item(e, i), 0)
  <2>1. CASE e.card = "READY"
    <3>1. rows = <<Item(0, 0), Item(1, 0), Item(2, 0), Item(3, 0), Item(4, 0)>>
      <4>1. rows = (<<Item(0, 0), Item(1, 0)>> \o <<Item(2, 0), Item(3, 0)>>) \o <<Item(4, 0)>>
        BY <2>1 DEF settings_build
      <4> HIDE DEF rows
      <4>2. <<Item(0, 0), Item(1, 0)>> \o <<Item(2, 0), Item(3, 0)>> = <<Item(0, 0), Item(1, 0), Item(2, 0), Item(3, 0)>>
        BY Concat22
      <4>3. rows = <<Item(0, 0), Item(1, 0), Item(2, 0), Item(3, 0)>> \o <<Item(4, 0)>>
        BY <4>1, <4>2
      <4> QED
        BY <4>3, Concat41
    <3>2. \A i : option_of_item(e, i) = i - 1
      BY <2>1 DEF option_of_item
    <3> HIDE DEF rows
    <3>3. Len(rows) = 5 /\ \A i \in {1, 2, 3, 4, 5} : rows[i] = Item(i - 1, 0)
      BY <3>1
    <3>4. \A i \in 1 .. 5 : i \in {1, 2, 3, 4, 5}
      OBVIOUS
    <3> QED
      BY <3>2, <3>3, <3>4
  <2>2. CASE e.card # "READY"
    <3>1. rows = <<Item(2, 0), Item(3, 0)>>
      BY <2>2 DEF settings_build
    <3>2. option_of_item(e, 1) = 2 /\ option_of_item(e, 2) = 3
      BY <2>2 DEF option_of_item
    <3> HIDE DEF rows
    <3>3. Len(rows) = 2 /\ rows[1] = Item(2, 0) /\ rows[2] = Item(3, 0)
      BY <3>1
    <3> QED
      BY <3>2, <3>3
  <2> QED
    BY <2>1, <2>2
<1>2. \A k \in Nat : name[k] = option_of_item(e, k)
  OBVIOUS
<1> HIDE DEF rows, name
<1>3. \A i \in 1 .. Len(rows) : rows[i].kind = "item" /\ rows[i].extra \in 0 .. HELP_MAX /\ rows[i].name = name[i]
  <2> SUFFICES ASSUME NEW i \in 1 .. Len(rows)
               PROVE  rows[i].kind = "item" /\ rows[i].extra \in 0 .. HELP_MAX /\ rows[i].name = name[i]
    OBVIOUS
  <2>1. rows[i] = Item(option_of_item(e, i), 0) /\ i \in Nat
    BY <1>1
  <2>2. rows[i].kind = "item" /\ rows[i].extra = 0 /\ rows[i].name = option_of_item(e, i)
    BY <2>1 DEF Item
  <2> QED
    BY <2>1, <2>2, <1>2 DEF HELP_MAX
<1>4. RowsOK(rows) /\ \A k \in 1 .. Len(Layout(rows).items) : Layout(rows).items[k].name = name[k]
  BY <1>1, <1>3, AllItems
<1>5. Layout(rows).items \in Seq(ItemSet(rows))
  BY <1>4, LayoutFits
<1>6. \A k \in 1 .. Len(Layout(rows).items) : Layout(rows).items[k].name = option_of_item(e, k)
  BY <1>4, <1>5, <1>2
<1> QED
  BY <1>4, <1>6 DEF rows

\* A list of two sections.
\* A list of two sections, of two items and of one.
LEMMA SectionRows ==
  ASSUME NEW rows, NEW a, NEW b, NEW c,
         Len(rows) = 5, rows[1].kind = "head", rows[2].kind = "item", rows[3].kind = "item",
         rows[4].kind = "head", rows[5].kind = "item",
         \A i \in {1, 2, 3, 4, 5} : rows[i].extra \in 0 .. HELP_MAX,
         rows[2].name = a, rows[3].name = b, rows[5].name = c
  PROVE  RowsOK(rows) /\ \A k \in 1 .. Len(Layout(rows).items) : Layout(rows).items[k].name = <<a, b, c>>[k]
<1>0. \A i \in 1 .. Len(rows) : i \in {1, 2, 3, 4, 5}
  OBVIOUS
<1>1. RowsOK(rows)
  <2>1. \A i \in {1, 2, 3, 4, 5} : rows[i].kind \in {"item", "head", "note", "line"}
    OBVIOUS
  <2>2. \A i \in {1, 2, 3, 4, 5} : rows[i].kind = "item" =>
          \/ i = 1
          \/ rows[i - 1].kind = "item"
          \/ rows[i - 1].kind = "head" /\ (i = 2 \/ rows[i - 2].kind = "item")
    OBVIOUS
  <2> QED
    BY <1>0, <2>1, <2>2 DEF RowsOK
<1> DEFINE count == [i \in 0 .. 5 |-> IF i = 0 THEN 0 ELSE IF i <= 3 THEN i - 1 ELSE i - 2]
           name == <<a, b, c>>
<1>2. /\ count[0] = 0 /\ count[1] = 0 /\ count[2] = 1 /\ count[3] = 2 /\ count[4] = 2 /\ count[5] = 3
      /\ name[1] = a /\ name[2] = b /\ name[3] = c
  OBVIOUS
<1>3. \A i \in 0 .. Len(rows) : i \in {0, 1, 2, 3, 4, 5}
  OBVIOUS
<1> HIDE DEF count, name
<1>4. \A i \in {0, 1, 2, 3, 4, 5} : count[i] \in Nat
  BY <1>2
<1>5. \A i \in {1, 2, 3, 4, 5} :
         IF rows[i].kind = "item" THEN count[i] = count[i - 1] + 1 /\ rows[i].name = name[count[i]]
         ELSE count[i] = count[i - 1]
  BY <1>2
<1>6. Counts(rows, count, name)
  BY <1>0, <1>2, <1>3, <1>4, <1>5 DEF Counts
<1>7. \A k \in 1 .. Len(Layout(rows).items) : Layout(rows).items[k].name = name[k]
  BY <1>1, <1>6, LayoutNames
<1> QED
  BY <1>1, <1>7 DEF name

\* Item k of the CFW page is switch k.
LEMMA CfwRows ==
  /\ RowsOK(cfw_build)
  /\ \A k \in 1 .. Len(Layout(cfw_build).items) : Layout(cfw_build).items[k].name = cfw_item(k)
<1>1. cfw_build = <<Head_("fixes"), Item("fix1", 3), Item("fix2", 3), Head_("extras"), Item("diag", 3)>>
  <2>1. cfw_section("fixes", <<"fix1", "fix2">>) = <<Head_("fixes"), Item("fix1", 3), Item("fix2", 3)>>
    <3>1. [i \in DOMAIN <<"fix1", "fix2">> |-> Item(<<"fix1", "fix2">>[i], 3)] = <<Item("fix1", 3), Item("fix2", 3)>>
      OBVIOUS
    <3> QED
      BY <3>1, Concat12, Concat11 DEF cfw_section
  <2>2. cfw_section("extras", <<"diag">>) = <<Head_("extras"), Item("diag", 3)>>
    <3>1. [i \in DOMAIN <<"diag">> |-> Item(<<"diag">>[i], 3)] = <<Item("diag", 3)>>
      OBVIOUS
    <3> QED
      BY <3>1, Concat12, Concat11 DEF cfw_section
  <2> QED
    BY <2>1, <2>2, Concat32 DEF cfw_build
<1> DEFINE rows == cfw_build
<1>2. Len(rows) = 5 /\ rows[1] = Head_("fixes") /\ rows[2] = Item("fix1", 3) /\ rows[3] = Item("fix2", 3)
      /\ rows[4] = Head_("extras") /\ rows[5] = Item("diag", 3)
  BY <1>1
<1> HIDE DEF rows
<1>3. /\ rows[1].kind = "head" /\ rows[2].kind = "item" /\ rows[3].kind = "item"
      /\ rows[4].kind = "head" /\ rows[5].kind = "item"
      /\ rows[2].name = "fix1" /\ rows[3].name = "fix2" /\ rows[5].name = "diag"
      /\ rows[1].extra = 0 /\ rows[2].extra = 3 /\ rows[3].extra = 3 /\ rows[4].extra = 0 /\ rows[5].extra = 3
  BY <1>2 DEF Item, Head_
<1>4. \A i \in {1, 2, 3, 4, 5} : rows[i].extra \in 0 .. HELP_MAX
  BY <1>3 DEF HELP_MAX
<1>5. RowsOK(rows) /\ \A k \in 1 .. Len(Layout(rows).items) : Layout(rows).items[k].name = <<"fix1", "fix2", "diag">>[k]
  BY <1>2, <1>3, <1>4, SectionRows
<1> QED
  BY <1>5 DEF rows, cfw_item

\* The tools page.
LEMMA ToolsRows ==
  ASSUME NEW e
  PROVE  RowsOK(tools_build(e))
<1>1. CASE e.card # "READY"
  BY <1>1, NoteRows DEF tools_build
<1>2. CASE e.card = "READY"
  <2> DEFINE rows == tools_build(e)
  <2>2. Len(rows) = 5 /\ rows[1] = Head_("backup") /\ rows[2] = Item("backup", 3) /\ rows[3] = Item("restore", 5)
        /\ rows[4] = Head_("loader") /\ rows[5] = Item("install", 5)
    BY <1>2 DEF tools_build
  <2> HIDE DEF rows
  <2>3. /\ rows[1].kind = "head" /\ rows[2].kind = "item" /\ rows[3].kind = "item"
        /\ rows[4].kind = "head" /\ rows[5].kind = "item"
        /\ rows[1].extra = 0 /\ rows[2].extra = 3 /\ rows[3].extra = 5 /\ rows[4].extra = 0 /\ rows[5].extra = 5
    BY <2>2 DEF Item, Head_
  <2>4. \A i \in {1, 2, 3, 4, 5} : rows[i].extra \in 0 .. HELP_MAX
    BY <2>3 DEF HELP_MAX
  <2>5. RowsOK(rows)
    BY <2>2, <2>3, <2>4, SectionRows
  <2> QED
    BY <2>5 DEF rows
<1> QED
  BY <1>1, <1>2

\* The power page.
LEMMA PowerRows == RowsOK(power_build)
<1>1. power_build = <<Item("off", 0), Item("restart", 0)>>
  BY DEF power_build
<1> DEFINE rows == power_build
<1>2. Len(rows) = 2 /\ rows[1] = Item("off", 0) /\ rows[2] = Item("restart", 0)
  BY <1>1
<1> HIDE DEF rows
<1>3. \A i \in 1 .. Len(rows) : rows[i].kind = "item" /\ rows[i].extra \in 0 .. HELP_MAX
  BY <1>2 DEF Item, HELP_MAX
<1>4. \A i \in 1 .. Len(rows) : i \in {1, 2}
  BY <1>2
<1>5. RowsOK(rows)
  BY <1>2, <1>3, <1>4 DEF RowsOK
<1> QED
  BY <1>5 DEF rows

\* Every page has a name.
LEMMA PageNameIs ==
  ASSUME NEW u, u.page \in 1 .. PAGE_COUNT
  PROVE  Name(u) \in {"launch", "payloads", "cfw", "tools", "info", "settings", "power"}
<1>1. PAGE_COUNT = 7
  BY DEF PAGE_COUNT, PageNames
<1>2. u.page \in {1, 2, 3, 4, 5, 6, 7}
  BY <1>1
<1> QED
  BY <1>2 DEF Name, PageNames

\* What any page builds has the form that the layout relies on.
LEMMA BuildRows ==
  ASSUME NEW u, NEW e, u.page \in 1 .. PAGE_COUNT, EnvOK(e)
  PROVE  RowsOK(Build(u, e))
<1>1. CASE Name(u) = "launch"
  BY <1>1, LaunchRows DEF Build
<1>2. CASE Name(u) = "payloads"
  BY <1>2, PayloadRows DEF Build
<1>3. CASE Name(u) = "cfw"
  BY <1>3, CfwRows DEF Build
<1>4. CASE Name(u) = "tools"
  BY <1>4, ToolsRows DEF Build
<1>5. CASE Name(u) = "info"
  BY <1>5, NoteRows DEF Build
<1>6. CASE Name(u) = "settings"
  BY <1>6, SettingsRows DEF Build
<1>7. CASE Name(u) = "power"
  BY <1>7, PowerRows DEF Build
<1> QED
  BY <1>1, <1>2, <1>3, <1>4, <1>5, <1>6, <1>7, PageNameIs

\* The list of a page that was built from e.
\* A list that was built from the present card and settings shows what the keys
\* act on.
LEMMA ListIsMeant ==
  ASSUME EnvOK(env), scr.page \in 1 .. PAGE_COUNT, scr.list = Layout(Build(scr, env))
  PROVE  ShownIsMeant
<1> SUFFICES ASSUME NEW k \in 1 .. item_count(scr) PROVE items(scr)[k].name = ActsOn(k)
  BY DEF ShownIsMeant
<1> USE DEF item_count, items
<1>1. CASE Name(scr) = "launch"
  <2>1. Build(scr, env) = launch_build(env) /\ ActsOn(k) = launch(env)[k]
    BY <1>1 DEF Build, ActsOn
  <2> QED
    BY <2>1, LaunchRows
<1>2. CASE Name(scr) = "payloads"
  <2>1. Build(scr, env) = payloads_build(env) /\ ActsOn(k) = k
    BY <1>2 DEF Build, ActsOn
  <2> QED
    BY <2>1, PayloadRows
<1>3. CASE Name(scr) = "cfw"
  <2>1. Build(scr, env) = cfw_build /\ ActsOn(k) = cfw_item(k)
    BY <1>3 DEF Build, ActsOn
  <2> QED
    BY <2>1, CfwRows
<1>4. CASE Name(scr) = "settings"
  <2>1. Build(scr, env) = settings_build(env) /\ ActsOn(k) = option_of_item(env, k)
    BY <1>4 DEF Build, ActsOn
  <2> QED
    BY <2>1, SettingsRows
<1>5. CASE Name(scr) \notin {"launch", "payloads", "cfw", "settings"}
  BY <1>5 DEF ActsOn
<1> QED
  BY <1>1, <1>2, <1>3, <1>4, <1>5

\* BOOLEAN, as a set of two values.
Bools == {TRUE, FALSE}

\* The type of a screen.
ScreenOK(u) ==
  /\ u = [page |-> u.page, pitem |-> u.pitem, content |-> u.content, list |-> u.list, item |-> u.item,
          exp |-> u.exp, scroll |-> u.scroll, hints |-> u.hints, modal |-> u.modal, theme |-> u.theme]
  /\ u.page \in 1 .. PAGE_COUNT /\ u.pitem \in [1 .. PAGE_COUNT -> Nat] /\ u.content \in Bools
  /\ u.item \in Nat /\ u.exp \in Nat /\ u.scroll \in Nat

\* What two screens share besides the hints.
SameList(u, v) == v.page = u.page /\ v.list = u.list
SameFocus(u, v) == v.content = u.content /\ v.item = u.item /\ v.exp = u.exp /\ v.scroll = u.scroll
SameRest(u, v) == v.pitem = u.pitem /\ v.theme = u.theme

\* One field of a screen changes, the others stay.
LEMMA HintsSet ==
  ASSUME NEW u, ScreenOK(u), NEW h, NEW v, v = [u EXCEPT !.hints = h]
  PROVE  ScreenOK(v) /\ SameList(u, v) /\ SameFocus(u, v) /\ SameRest(u, v) /\ v.modal = u.modal /\ v.hints = h
  BY DEF ScreenOK, SameList, SameFocus, SameRest

LEMMA ScrollSet ==
  ASSUME NEW u, ScreenOK(u), NEW y \in Nat, NEW v, v = [u EXCEPT !.scroll = y]
  PROVE  ScreenOK(v) /\ SameList(u, v) /\ SameRest(u, v) /\ v.modal = u.modal /\ v.hints = u.hints
         /\ v.content = u.content /\ v.item = u.item /\ v.exp = u.exp /\ v.scroll = y
  BY DEF ScreenOK, SameList, SameRest

LEMMA ExpSet ==
  ASSUME NEW u, ScreenOK(u), NEW x \in Nat, NEW v, v = [u EXCEPT !.exp = x]
  PROVE  ScreenOK(v) /\ SameList(u, v) /\ SameRest(u, v) /\ v.modal = u.modal
         /\ v.content = u.content /\ v.item = u.item /\ v.exp = x /\ v.scroll = u.scroll
  BY DEF ScreenOK, SameList, SameRest

LEMMA ModalSet ==
  ASSUME NEW u, ScreenOK(u), NEW m, NEW v, v = [u EXCEPT !.modal = m]
  PROVE  ScreenOK(v) /\ SameList(u, v) /\ SameFocus(u, v) /\ SameRest(u, v) /\ v.modal = m
  BY DEF ScreenOK, SameList, SameFocus, SameRest

LEMMA ContentSet ==
  ASSUME NEW u, ScreenOK(u), NEW c \in Bools, NEW v, v = [u EXCEPT !.content = c]
  PROVE  ScreenOK(v) /\ SameList(u, v) /\ SameRest(u, v) /\ v.modal = u.modal /\ v.hints = u.hints
         /\ v.content = c /\ v.item = u.item
  BY DEF ScreenOK, SameList, SameRest

LEMMA ThemeSet ==
  ASSUME NEW u, ScreenOK(u), NEW t, NEW v, v = [u EXCEPT !.theme = t]
  PROVE  ScreenOK(v) /\ v.modal = u.modal
  BY DEF ScreenOK

LEMMA PitemSet ==
  ASSUME NEW u, ScreenOK(u), NEW j \in Nat, NEW v, v = [u EXCEPT !.pitem[1] = j]
  PROVE  ScreenOK(v) /\ v.modal = u.modal
  BY DEF ScreenOK, PAGE_COUNT, PageNames

\* An item of a list on the screen, and the list's geometry.
GoodList(l) ==
  /\ l.y \in Nat /\ Len(l.items) \in Nat /\ AllFit(l)
  /\ \A k \in 1 .. Len(l.items) : l.items[k].base \in Nat /\ l.items[k].top \in Nat /\ l.items[k].extra \in 0 .. HELP_MAX

\* The list of a page has a good geometry.
LEMMA LayoutGood ==
  ASSUME NEW rows, RowsOK(rows)
  PROVE  GoodList(Layout(rows))
<1>1. Layout(rows).items \in Seq(ItemSet(rows)) /\ Layout(rows).y \in Nat /\ AllFit(Layout(rows))
  BY LayoutFits
<1>2. \A k \in 1 .. Len(Layout(rows).items) : Layout(rows).items[k] \in ItemSet(rows)
  BY <1>1
<1>3. \A r \in ItemSet(rows) : r.base \in Nat /\ r.top \in Nat /\ r.extra \in 0 .. HELP_MAX
  BY DEF ItemSet
<1> QED
  BY <1>1, <1>2, <1>3 DEF GoodList

\* FocusIsVisible for any screen.
Visible(u) ==
  u.content =>
    /\ u.item \in 1 .. item_count(u)
    /\ BottomOf(u, u.item) <= u.scroll + VIEW_H
    /\ u.scroll <= TopOf(u, u.item) \/ BottomOf(u, u.item) - TopOf(u, u.item) > VIEW_H

\* Arithmetic of scroll_to_item.
\* The bounds of a scroll leave the item in the window.
LEMMA BoundedFits ==
  ASSUME NEW top \in Nat, NEW bottom \in Nat, NEW content \in Nat, NEW y \in Nat, NEW b,
         bottom <= content, bottom - y <= VIEW_H, y <= top,
         b = IF y > content - VIEW_H THEN (IF content < VIEW_H THEN 0 ELSE content - VIEW_H) ELSE y
  PROVE  b \in Nat /\ b <= top /\ bottom <= b + VIEW_H
  BY PagesNumbers

\* The item in focus is not shifted by its own help; it is in the content, and no
\* higher than the window.
LEMMA TopOfFocus ==
  ASSUME NEW u, ScreenOK(u), GoodList(u.list), u.item \in 1 .. item_count(u), u.exp \in {0, u.item}
  PROVE  /\ TopOf(u, u.item) \in Nat /\ BottomOf(u, u.item) \in Nat /\ Content(u) \in Nat
         /\ BottomOf(u, u.item) <= Content(u) /\ BottomOf(u, u.item) - TopOf(u, u.item) <= VIEW_H
<1> DEFINE i == u.item
           r == items(u)[i]
           top == IF i = 1 THEN 0 ELSE r.top
           x == IF u.exp = i THEN r.extra ELSE 0
<1>0. /\ i \in Nat \ {0} /\ r.base \in Nat /\ r.top \in Nat /\ r.extra \in 0 .. HELP_MAX /\ u.list.y \in Nat
      /\ r.base + ROW_H <= u.list.y /\ r.top <= r.base /\ r.base - top <= PAD_H + SEC_H
  <2>1. i \in 1 .. Len(u.list.items) /\ i \in Nat
    BY DEF item_count, items, ScreenOK
  <2>2. FitsAt(r, u.list.y, i = 1)
    BY <2>1 DEF GoodList, AllFit, items
  <2> QED
    BY <2>1, <2>2 DEF FitsAt, GoodList, items
<1>1. shift(u, r.base) = 0 /\ shift(u, r.top) = 0
  <2>1. CASE u.exp = 0
    BY <2>1 DEF shift
  <2>2. CASE u.exp = i
    <3>1. r.base <= r.base /\ r.top <= r.base
      BY <1>0
    <3> QED
      BY <3>1, <2>2 DEF shift
  <2> QED
    BY <2>1, <2>2
<1>2. TopOf(u, i) = top /\ top \in Nat
  <2>1. TopOf(u, i) = IF i = 1 THEN 0 ELSE r.top + shift(u, r.top)
    BY DEF TopOf
  <2>2. r.top + 0 = r.top
    BY <1>0
  <2> QED
    BY <2>1, <2>2, <1>0, <1>1
<1>3. BottomOf(u, i) = r.base + ROW_H + x /\ x \in 0 .. HELP_MAX
  <2>1. BottomOf(u, i) = r.base + shift(u, r.base) + ROW_H + x
    BY DEF BottomOf
  <2>2. r.base + 0 = r.base
    BY <1>0
  <2> QED
    BY <2>1, <2>2, <1>0, <1>1, PagesNumbers
<1>4. (IF u.exp = 0 THEN 0 ELSE items(u)[u.exp].extra) = x
  BY <1>0
<1>5. Content(u) = IF u.list.y > MAIN_H THEN u.list.y + x + MAIN_H - ROW_H ELSE u.list.y + x
  BY <1>4 DEF Content
<1> HIDE DEF i, r, top, x
<1>6. ASSUME NEW base \in Nat, NEW t \in Nat, NEW ex \in 0 .. HELP_MAX, NEW y \in Nat, NEW c, NEW b,
             b = base + ROW_H + ex, base + ROW_H <= y, base - t <= PAD_H + SEC_H,
             c = IF y > MAIN_H THEN y + ex + MAIN_H - ROW_H ELSE y + ex
      PROVE  b \in Nat /\ c \in Nat /\ b <= c /\ b - t <= VIEW_H
  BY <1>6, PagesNumbers
<1>7. TopOf(u, i) \in Nat /\ BottomOf(u, i) \in Nat /\ Content(u) \in Nat
         /\ BottomOf(u, i) <= Content(u) /\ BottomOf(u, i) - TopOf(u, i) <= VIEW_H
  <2>1. /\ r.base \in Nat /\ TopOf(u, i) \in Nat /\ x \in 0 .. HELP_MAX /\ u.list.y \in Nat
        /\ r.base + ROW_H <= u.list.y /\ r.base - TopOf(u, i) <= PAD_H + SEC_H
    BY <1>0, <1>2, <1>3
  <2> QED
    BY <2>1, <1>3, <1>5, <1>6
<1> QED
  BY <1>7 DEF i

\* scroll_to_item shows the item in focus.
LEMMA ScrollShows ==
  ASSUME NEW u, ScreenOK(u), GoodList(u.list), u.item \in 1 .. item_count(u), u.exp \in {0, u.item},
         NEW v, v = scroll_to_item(u)
  PROVE  /\ ScreenOK(v) /\ SameList(u, v) /\ SameRest(u, v) /\ v.modal = u.modal
         /\ v.content = u.content /\ v.item = u.item /\ Visible(v)
<1> DEFINE top == TopOf(u, u.item)
           bottom == BottomOf(u, u.item)
           tops == {items(u)[i].top + shift(u, items(u)[i].top) : i \in 1 .. item_count(u)}
           fits == {t \in tops : t >= bottom - VIEW_H /\ t < top}
           to == IF fits = {} THEN top ELSE CHOOSE t \in fits : \A x \in fits : t <= x
<1>1. top \in Nat /\ bottom \in Nat /\ Content(u) \in Nat /\ bottom <= Content(u) /\ bottom - top <= VIEW_H
  BY TopOfFocus
<1>2. v = IF top < u.scroll THEN [u EXCEPT !.scroll = Bounded(u, top)]
          ELSE IF bottom > u.scroll + VIEW_H THEN [u EXCEPT !.scroll = Bounded(u, to)] ELSE u
  BY DEF scroll_to_item
<1>3. tops \subseteq Nat
  <2> SUFFICES ASSUME NEW i \in 1 .. item_count(u) PROVE items(u)[i].top + shift(u, items(u)[i].top) \in Nat
    OBVIOUS
  <2>1. \A k \in 1 .. item_count(u) : items(u)[k].top \in Nat /\ items(u)[k].extra \in 0 .. HELP_MAX
    BY DEF GoodList, items, item_count
  <2>2. shift(u, items(u)[i].top) = 0 \/ shift(u, items(u)[i].top) = items(u)[u.item].extra
    BY DEF shift
  <2>3. shift(u, items(u)[i].top) \in Nat
    BY <2>1, <2>2, PagesNumbers
  <2> QED
    BY <2>1, <2>3
<1>4. to \in Nat /\ to <= top /\ bottom - to <= VIEW_H
  <2>1. CASE fits = {}
    BY <2>1, <1>1
  <2>2. CASE fits # {}
    <3>1. fits \subseteq Nat
      BY <1>3
    <3>2. \E t \in fits : \A x \in fits : t <= x
      <4> HIDE DEF fits
      <4> QED
        BY <2>2, <3>1, NatSetMin
    <3>3. to \in fits
      <4> HIDE DEF fits
      <4> QED
        BY <2>2, <3>2
    <3>4. to \in Nat /\ to >= bottom - VIEW_H /\ to < top
      <4> HIDE DEF to
      <4> QED
        BY <3>1, <3>3
    <3> HIDE DEF to, fits, top, bottom
    <3> QED
      BY <3>4, <1>1, PagesNumbers
  <2> QED
    BY <2>1, <2>2
<1>5. ASSUME NEW y \in Nat, y <= top, bottom - y <= VIEW_H
      PROVE  Bounded(u, y) \in Nat /\ Bounded(u, y) <= top /\ bottom <= Bounded(u, y) + VIEW_H
  <2>1. Bounded(u, y) = IF y > Content(u) - VIEW_H THEN (IF Content(u) < VIEW_H THEN 0 ELSE Content(u) - VIEW_H) ELSE y
    BY DEF Bounded
  <2> HIDE DEF top, bottom
  <2> QED
    BY <1>1, <1>5, <2>1, BoundedFits
<1> HIDE DEF to, fits, tops
<1>6. \E s \in Nat : /\ v = [u EXCEPT !.scroll = s] \/ (v = u /\ s = u.scroll)
                     /\ s <= top /\ bottom <= s + VIEW_H
  <2> HIDE DEF top, bottom
  <2>0. u.scroll \in Nat /\ VIEW_H \in Nat
    BY PagesNumbers DEF ScreenOK
  <2>1. CASE top < u.scroll
    <3>1. v = [u EXCEPT !.scroll = Bounded(u, top)] /\ top <= top
      BY <1>2, <2>1, <1>1
    <3> QED
      BY <3>1, <1>1, <1>5
  <2>2. CASE ~(top < u.scroll) /\ bottom > u.scroll + VIEW_H
    BY <2>2, <1>2, <1>4, <1>5
  <2>3. CASE ~(top < u.scroll) /\ ~(bottom > u.scroll + VIEW_H)
    <3>1. v = u /\ u.scroll <= top /\ bottom <= u.scroll + VIEW_H
      BY <1>1, <1>2, <2>0, <2>3
    <3> QED
      BY <3>1, <2>0
  <2> QED
    BY <2>1, <2>2, <2>3
<1>7. PICK s \in Nat : /\ v = [u EXCEPT !.scroll = s] \/ (v = u /\ s = u.scroll)
                       /\ s <= top /\ bottom <= s + VIEW_H
  BY <1>6
<1>8. /\ ScreenOK(v) /\ SameList(u, v) /\ SameRest(u, v) /\ v.modal = u.modal
      /\ v.content = u.content /\ v.item = u.item /\ v.exp = u.exp /\ v.scroll = s
  <2>1. CASE v = u /\ s = u.scroll
    BY <2>1 DEF SameList, SameRest
  <2>2. CASE v = [u EXCEPT !.scroll = s]
    <3> HIDE DEF top, bottom
    <3> QED
      BY <2>2, ScrollSet
  <2> QED
    BY <1>7, <2>1, <2>2
<1>9. items(v) = items(u) /\ item_count(v) = item_count(u)
  BY <1>8 DEF items, item_count, SameList
<1>10. \A y : shift(v, y) = shift(u, y)
  BY <1>8, <1>9 DEF shift
<1>11. TopOf(v, v.item) = top /\ BottomOf(v, v.item) = bottom
  BY <1>8, <1>9, <1>10 DEF TopOf, BottomOf
<1>12. Visible(v)
  <2> HIDE DEF top, bottom
  <2> QED
    BY <1>7, <1>8, <1>9, <1>11 DEF Visible
<1> QED
  BY <1>8, <1>12

\* A screen that is built from e.
GoodScreen(u, e) == ScreenOK(u) /\ u.list = Layout(Build(u, e)) /\ Visible(u) /\ u.hints = HintsOf(u, e)

\* The hints depend on the list, the focus and the modal only.
LEMMA HintsSame ==
  ASSUME NEW u, NEW v, NEW e, SameList(u, v), v.content = u.content, v.item = u.item, v.modal = u.modal
  PROVE  HintsOf(v, e) = HintsOf(u, e)
<1>1. items(v) = items(u) /\ item_count(v) = item_count(u) /\ Name(v) = Name(u)
  BY DEF SameList, items, item_count, Name
<1>2. page_hints(v, e) = page_hints(u, e) /\ modal_hints(v) = modal_hints(u) /\ modal_is_open(v) = modal_is_open(u)
  BY <1>1 DEF page_hints, modal_hints, modal_is_open
<1> QED
  BY <1>1, <1>2 DEF HintsOf

\* What is visible depends on the list and the focus only.
LEMMA VisibleSame ==
  ASSUME NEW u, NEW v, SameList(u, v), SameFocus(u, v), Visible(u)
  PROVE  Visible(v)
<1>1. items(v) = items(u) /\ item_count(v) = item_count(u)
  BY DEF SameList, items, item_count
<1>2. \A y : shift(v, y) = shift(u, y)
  BY <1>1 DEF shift, SameFocus
<1>3. TopOf(v, v.item) = TopOf(u, u.item) /\ BottomOf(v, v.item) = BottomOf(u, u.item)
  BY <1>1, <1>2 DEF TopOf, BottomOf, SameFocus
<1> QED
  BY <1>1, <1>3 DEF Visible, SameFocus

\* A list depends on the page, the card's state, its entries and its payloads only.
LEMMA BuildSame ==
  ASSUME NEW u, NEW v, NEW e, NEW f, v.page = u.page, f.card = e.card, f.titles = e.titles, f.pay = e.pay
  PROVE  Build(v, f) = Build(u, e)
<1>1. Name(v) = Name(u)
  BY DEF Name
<1>2. launch(f) = launch(e)
  BY DEF launch
<1>3. launch_build(f) = launch_build(e)
  BY <1>2 DEF launch_build
<1>4. payloads_build(f) = payloads_build(e) /\ tools_build(f) = tools_build(e) /\ settings_build(f) = settings_build(e)
  BY DEF payloads_build, tools_build, settings_build
<1> QED
  BY <1>1, <1>3, <1>4 DEF Build

\* ui_hints_changed makes the hints true.
LEMMA HintsChanged ==
  ASSUME NEW u, ScreenOK(u), NEW e, NEW v, v = ui_hints_changed(u, e)
  PROVE  /\ ScreenOK(v) /\ SameList(u, v) /\ SameFocus(u, v) /\ SameRest(u, v) /\ v.modal = u.modal
         /\ v.hints = HintsOf(v, e)
<1>1. v = [u EXCEPT !.hints = HintsOf(u, e)]
  BY DEF ui_hints_changed
<1>2. /\ ScreenOK(v) /\ SameList(u, v) /\ SameFocus(u, v) /\ SameRest(u, v) /\ v.modal = u.modal
      /\ v.hints = HintsOf(u, e)
  BY <1>1, HintsSet
<1>3. HintsOf(v, e) = HintsOf(u, e)
  BY <1>2, HintsSame DEF SameFocus
<1> QED
  BY <1>2, <1>3

\* select_item shows the item and makes the hints true.
LEMMA SelectGood ==
  ASSUME NEW u, ScreenOK(u), GoodList(u.list), NEW e, NEW i \in Int, item_count(u) # 0,
         NEW w, w = select_item(u, e, i)
  PROVE  /\ ScreenOK(w) /\ SameList(u, w) /\ w.content = u.content /\ w.modal = u.modal
         /\ Visible(w) /\ w.hints = HintsOf(w, e)
<1> DEFINE n == item_count(u)
           j == IF i < 1 THEN 1 ELSE IF i > n THEN n ELSE i
           v == [u EXCEPT !.item = j, !.pitem[u.page] = j]
           x == IF u.content THEN j ELSE 0
           z == expand(v, x)
           s == scroll_to_item(z)
<1>0. n \in Nat /\ n # 0
  BY DEF item_count, items, GoodList
<1>1. j \in 1 .. n /\ j \in Nat
  <2> HIDE DEF n
  <2> QED
    BY <1>0
<1>2. w = ui_hints_changed(s, e)
  BY DEF select_item
<1> HIDE DEF n, j
<1>3. ScreenOK(v) /\ SameList(u, v) /\ v.modal = u.modal /\ v.content = u.content /\ v.item = j
  <2>1. v = [u EXCEPT !.item = j, !.pitem[u.page] = j]
    OBVIOUS
  <2> HIDE DEF v
  <2> QED
    BY <2>1, <1>1 DEF ScreenOK, SameList
<1>4. x \in {0, j}
  OBVIOUS
<1> HIDE DEF v, x
<1>5. \E y \in {0, j} : z = [v EXCEPT !.exp = y]
  BY <1>4 DEF expand
<1>6. PICK y \in {0, j} : z = [v EXCEPT !.exp = y]
  BY <1>5
<1> HIDE DEF z
<1>7. ScreenOK(z) /\ SameList(v, z) /\ z.modal = v.modal /\ z.content = v.content /\ z.item = v.item /\ z.exp = y
  BY <1>1, <1>3, <1>6, ExpSet
<1>8. GoodList(z.list) /\ item_count(z) = n /\ SameList(u, z) /\ z.item \in 1 .. item_count(z) /\ z.exp \in {0, z.item}
  BY <1>1, <1>3, <1>6, <1>7 DEF SameList, item_count, items, n
<1> HIDE DEF s
<1>9. /\ ScreenOK(s) /\ SameList(z, s) /\ s.modal = z.modal
      /\ s.content = z.content /\ s.item = z.item /\ Visible(s)
  BY <1>7, <1>8, ScrollShows DEF s
<1>10. /\ ScreenOK(w) /\ SameList(s, w) /\ SameFocus(s, w) /\ w.modal = s.modal /\ w.hints = HintsOf(w, e)
  BY <1>2, <1>9, HintsChanged
<1>11. Visible(w)
  BY <1>9, <1>10, VisibleSame
<1> QED
  BY <1>3, <1>7, <1>8, <1>9, <1>10, <1>11 DEF SameList, SameFocus

\* ui_rebuild makes a good screen from any screen, and keeps the modal.
LEMMA RebuildGood ==
  ASSUME NEW u, ScreenOK(u), NEW e, EnvOK(e), NEW r, r = ui_rebuild(u, e)
  PROVE  GoodScreen(r, e) /\ r.modal = u.modal
<1> DEFINE v == [u EXCEPT !.list = Layout(Build(u, e)), !.scroll = 0, !.exp = 0]
           n == item_count(v)
           c == u.content /\ n > 0
           i == IF u.pitem[u.page] <= n THEN u.pitem[u.page] ELSE 1
           w == [v EXCEPT !.content = c, !.item = i]
           s == select_item(w, e, w.item)
<1>0. u.page \in 1 .. PAGE_COUNT /\ u.pitem[u.page] \in Nat
  BY DEF ScreenOK
<1>1. GoodList(Layout(Build(u, e)))
  BY <1>0, BuildRows, LayoutGood
<1>2. /\ ScreenOK(v) /\ v.list = Layout(Build(u, e)) /\ v.page = u.page /\ v.modal = u.modal /\ v.content = u.content
  <2> DEFINE l == Layout(Build(u, e))
  <2>1. v = [u EXCEPT !.list = l, !.scroll = 0, !.exp = 0]
    OBVIOUS
  <2> HIDE DEF v, l
  <2>2. ScreenOK(v) /\ v.list = l /\ v.page = u.page /\ v.modal = u.modal /\ v.content = u.content
    BY <2>1 DEF ScreenOK
  <2> QED
    BY <2>2 DEF l
<1>3. r = ui_hints_changed(s, e)
  <2>1. w = [v EXCEPT !.content = @ /\ n > 0, !.item = i]
    BY <1>2
  <2> QED
    BY <2>1 DEF ui_rebuild
<1> HIDE DEF v
<1>4. n \in Nat
  BY <1>1, <1>2 DEF GoodList, item_count, items
<1>5. c \in Bools /\ i \in Nat
  BY <1>0 DEF Bools
<1>6. c = TRUE \/ c = FALSE
  BY <1>5 DEF Bools
<1>7. n = 0 => c = FALSE
  BY <1>4
<1> HIDE DEF c, i, n
<1>8. ScreenOK(w) /\ w.list = v.list /\ w.page = v.page /\ w.modal = v.modal /\ w.content = c /\ w.item = i
  <2>1. w = [v EXCEPT !.content = c, !.item = i]
    OBVIOUS
  <2> HIDE DEF w
  <2> QED
    BY <2>1, <1>2, <1>5 DEF ScreenOK
<1>9. item_count(w) = n /\ GoodList(w.list) /\ w.item \in Int
  BY <1>1, <1>2, <1>8, <1>5 DEF item_count, items, n
<1> HIDE DEF w
<1>10. /\ ScreenOK(s) /\ SameList(w, s) /\ s.content = w.content /\ s.modal = w.modal /\ Visible(s)
  <2>1. CASE n = 0
    <3>1. s = w
      BY <2>1, <1>9 DEF select_item
    <3>2. w.content = FALSE
      BY <2>1, <1>7, <1>8
    <3>3. Visible(w)
      BY <3>2 DEF Visible
    <3> QED
      BY <3>1, <3>3, <1>8 DEF SameList
  <2>2. CASE n # 0
    BY <2>2, <1>8, <1>9, SelectGood
  <2> QED
    BY <2>1, <2>2
<1> HIDE DEF s
<1>11. /\ ScreenOK(r) /\ SameList(s, r) /\ SameFocus(s, r) /\ r.modal = s.modal /\ r.hints = HintsOf(r, e)
  BY <1>3, <1>10, HintsChanged
<1>12. Visible(r)
  BY <1>10, <1>11, VisibleSame
<1>13. r.page = u.page /\ r.list = Layout(Build(u, e))
  BY <1>2, <1>8, <1>10, <1>11 DEF SameList
<1>14. Build(r, e) = Build(u, e)
  BY <1>13, BuildSame
<1> QED
  BY <1>2, <1>8, <1>10, <1>11, <1>12, <1>13, <1>14 DEF GoodScreen

\* The list of a good screen.
LEMMA ListIsGood ==
  ASSUME NEW u, NEW e, ScreenOK(u), EnvOK(e), u.list = Layout(Build(u, e))
  PROVE  GoodList(u.list)
<1>1. u.page \in 1 .. PAGE_COUNT
  BY DEF ScreenOK
<1> QED
  BY <1>1, BuildRows, LayoutGood

\* A change of the modal and the hints keeps a good screen.
LEMMA StaysGood ==
  ASSUME NEW u, NEW v, NEW e, GoodScreen(u, e), ScreenOK(v), SameList(u, v), SameFocus(u, v),
         v.hints = HintsOf(v, e)
  PROVE  GoodScreen(v, e)
<1>1. Visible(v)
  BY VisibleSame DEF GoodScreen
<1>2. Build(v, e) = Build(u, e)
  BY BuildSame DEF SameList
<1> QED
  BY <1>1, <1>2 DEF GoodScreen, SameList

\* select_item on a good screen.
LEMMA SelectKeeps ==
  ASSUME NEW u, NEW e, GoodScreen(u, e), EnvOK(e), NEW i \in Int
  PROVE  GoodScreen(select_item(u, e, i), e)
<1>0. ScreenOK(u) /\ u.list = Layout(Build(u, e)) /\ GoodList(u.list)
  BY ListIsGood DEF GoodScreen
<1>1. CASE item_count(u) = 0
  BY <1>1 DEF select_item
<1>2. CASE item_count(u) # 0
  <2> DEFINE w == select_item(u, e, i)
  <2> HIDE DEF w
  <2>1. /\ ScreenOK(w) /\ SameList(u, w) /\ Visible(w) /\ w.hints = HintsOf(w, e)
    BY <1>0, <1>2, SelectGood DEF w
  <2>2. Build(w, e) = Build(u, e)
    BY <2>1, BuildSame DEF SameList
  <2>3. GoodScreen(w, e)
    BY <1>0, <2>1, <2>2 DEF GoodScreen, SameList
  <2> QED
    BY <2>3 DEF w
<1> QED
  BY <1>1, <1>2

\* set_focus on a good screen.  Without items the focus is not in the list, so
\* that leaving it changes nothing.
LEMMA SetFocusKeeps ==
  ASSUME NEW u, NEW e, GoodScreen(u, e), EnvOK(e), NEW c \in Bools
  PROVE  GoodScreen(set_focus(u, e, c), e)
<1> DEFINE v == [u EXCEPT !.content = c]
<1>0. ScreenOK(u) /\ u.list = Layout(Build(u, e)) /\ GoodList(u.list) /\ u.item \in Int
  BY ListIsGood DEF GoodScreen, ScreenOK
<1>1. /\ ScreenOK(v) /\ SameList(u, v) /\ SameRest(u, v) /\ v.modal = u.modal /\ v.hints = u.hints
      /\ v.content = c /\ v.item = u.item
  BY <1>0, ContentSet
<1>2. CASE c = TRUE /\ item_count(u) = 0
  BY <1>2 DEF set_focus
<1>3. CASE c = FALSE /\ item_count(u) = 0
  <2>1. u.content = FALSE
    <3>1. u.content \in Bools /\ Visible(u)
      BY DEF GoodScreen, ScreenOK
    <3>2. u.content = TRUE => u.item \in 1 .. 0
      BY <3>1, <1>3 DEF Visible
    <3> QED
      BY <3>1, <3>2, <1>0 DEF Bools
  <2>2. item_count(v) = 0
    BY <1>1, <1>3 DEF item_count, items, SameList
  <2>3. set_focus(u, e, c) = v
    BY <2>2, <1>3 DEF set_focus, select_item
  <2> HIDE DEF v
  <2>4. HintsOf(v, e) = HintsOf(u, e)
    <3>1. v.content = u.content
      BY <1>1, <2>1, <1>3
    <3> QED
      BY <1>1, <3>1, HintsSame
  <2>5. Visible(v)
    BY <1>1, <1>3 DEF Visible
  <2>6. Build(v, e) = Build(u, e)
    BY <1>1, BuildSame DEF SameList
  <2> QED
    BY <2>3, <2>4, <2>5, <2>6, <1>1 DEF GoodScreen, SameList
<1>4. CASE item_count(u) # 0
  <2>1. set_focus(u, e, c) = select_item(v, e, u.item)
    BY <1>4 DEF set_focus
  <2> HIDE DEF v
  <2>2. GoodList(v.list) /\ item_count(v) # 0
    BY <1>0, <1>1, <1>4 DEF SameList, item_count, items
  <2> DEFINE w == select_item(v, e, u.item)
  <2> HIDE DEF w
  <2>3. /\ ScreenOK(w) /\ SameList(v, w) /\ Visible(w) /\ w.hints = HintsOf(w, e)
    BY <1>0, <1>1, <2>2, SelectGood DEF w
  <2>4. Build(w, e) = Build(u, e)
    BY <2>3, <1>1, BuildSame DEF SameList
  <2>5. GoodScreen(w, e)
    BY <1>0, <1>1, <2>3, <2>4 DEF GoodScreen, SameList
  <2> QED
    BY <2>1, <2>5 DEF w
<1> QED
  BY <1>2, <1>3, <1>4 DEF Bools

\* open_page on a good screen.
LEMMA OpenPageKeeps ==
  ASSUME NEW u, NEW e, GoodScreen(u, e), EnvOK(e), NEW i
  PROVE  GoodScreen(open_page(u, e, i), e)
<1>1. CASE i \notin 1 .. PAGE_COUNT \/ i = u.page
  BY <1>1 DEF open_page
<1>2. CASE ~(i \notin 1 .. PAGE_COUNT \/ i = u.page)
  <2> DEFINE v == [u EXCEPT !.page = i]
  <2>1. v = [u EXCEPT !.page = i] /\ i \in 1 .. PAGE_COUNT
    BY <1>2
  <2>2. open_page(u, e, i) = ui_rebuild(v, e)
    BY <1>2 DEF open_page
  <2> HIDE DEF v
  <2>3. ScreenOK(v)
    BY <2>1 DEF GoodScreen, ScreenOK
  <2> QED
    BY <2>2, <2>3, RebuildGood
<1> QED
  BY <1>1, <1>2

\* modal_close keeps the list and the focus.
LEMMA ModalCloseOK ==
  ASSUME NEW u, ScreenOK(u), NEW e, NEW v, v = modal_close(u, e)
  PROVE  /\ ScreenOK(v) /\ SameList(u, v) /\ SameFocus(u, v) /\ SameRest(u, v)
         /\ u.hints = HintsOf(u, e) => v.hints = HintsOf(v, e)
<1>1. CASE modal_is_open(u)
  <2> DEFINE w == [u EXCEPT !.modal = NoModal]
  <2>1. v = ui_hints_changed(w, e)
    BY <1>1 DEF modal_close
  <2>2. ScreenOK(w) /\ SameList(u, w) /\ SameFocus(u, w) /\ SameRest(u, w)
    BY ModalSet
  <2> HIDE DEF w
  <2>3. ScreenOK(v) /\ SameList(w, v) /\ SameFocus(w, v) /\ SameRest(w, v) /\ v.hints = HintsOf(v, e)
    BY <2>1, <2>2, HintsChanged
  <2> QED
    BY <2>2, <2>3 DEF SameList, SameFocus, SameRest
<1>2. CASE ~modal_is_open(u)
  <2>1. v = u
    BY <1>2 DEF modal_close
  <2> QED
    BY <2>1 DEF SameList, SameFocus, SameRest
<1> QED
  BY <1>1, <1>2

\* modal_open keeps the list and the focus.
LEMMA ModalOpenOK ==
  ASSUME NEW u, ScreenOK(u), NEW e, NEW k, NEW c, NEW p, NEW v, v = modal_open(u, e, k, c, p)
  PROVE  /\ ScreenOK(v) /\ SameList(u, v) /\ SameFocus(u, v) /\ v.hints = HintsOf(v, e) /\ v.modal.kind = k
<1> DEFINE m == [kind |-> k, cancel |-> c, progress |-> p, focus |-> IF c THEN 0 ELSE 1]
           w == modal_close(u, e)
           z == [w EXCEPT !.modal = m]
<1>1. v = ui_hints_changed(z, e)
  BY DEF modal_open
<1>2. m.kind = k
  OBVIOUS
<1>3. ScreenOK(w) /\ SameList(u, w) /\ SameFocus(u, w)
  BY ModalCloseOK
<1> HIDE DEF m, w
<1>4. ScreenOK(z) /\ SameList(w, z) /\ SameFocus(w, z) /\ z.modal = m
  BY <1>3, ModalSet
<1> HIDE DEF z
<1>5. ScreenOK(v) /\ SameList(z, v) /\ SameFocus(z, v) /\ v.modal = z.modal /\ v.hints = HintsOf(v, e)
  BY <1>1, <1>4, HintsChanged
<1> QED
  BY <1>2, <1>3, <1>4, <1>5 DEF SameList, SameFocus

\* Modals on a good screen.
LEMMA ModalCloseKeeps ==
  ASSUME NEW u, NEW e, GoodScreen(u, e)
  PROVE  GoodScreen(modal_close(u, e), e)
<1>0. ScreenOK(u) /\ u.hints = HintsOf(u, e)
  BY DEF GoodScreen
<1> QED
  BY <1>0, ModalCloseOK, StaysGood

LEMMA ModalOpenKeeps ==
  ASSUME NEW u, NEW e, GoodScreen(u, e), NEW k, NEW v, \E c, p : v = modal_open(u, e, k, c, p)
  PROVE  GoodScreen(v, e) /\ v.modal.kind = k
<1>0. ScreenOK(u)
  BY DEF GoodScreen
<1>1. ScreenOK(v) /\ SameList(u, v) /\ SameFocus(u, v) /\ v.hints = HintsOf(v, e) /\ v.modal.kind = k
  BY <1>0, ModalOpenOK
<1> QED
  BY <1>1, StaysGood

\* theme_sync.
LEMMA ThemeSyncOK ==
  ASSUME NEW u, ScreenOK(u), NEW e
  PROVE  ScreenOK(theme_sync(u, e))
<1>1. CASE u.theme = e.set.dark
  BY <1>1 DEF theme_sync
<1>2. CASE u.theme # e.set.dark
  <2> DEFINE w == modal_close(u, e)
  <2>1. theme_sync(u, e) = [w EXCEPT !.theme = e.set.dark]
    BY <1>2 DEF theme_sync
  <2>2. ScreenOK(w)
    BY ModalCloseOK
  <2> HIDE DEF w
  <2> QED
    BY <2>1, <2>2, ThemeSet
<1> QED
  BY <1>1, <1>2

\* The theme, the save and the hints.
\* A save that fails opens its error.
LEMMA SaveGood ==
  ASSUME NEW u, NEW e, GoodScreen(u, e), NEW fails
  PROVE  /\ GoodScreen(save(u, e, fails), e)
         /\ fails /\ e.card = "READY" => save(u, e, fails).modal.kind = "error"
<1>1. CASE e.card = "READY" /\ fails
  <2>1. save(u, e, fails) = modal_open(u, e, "error", FALSE, FALSE)
    BY <1>1 DEF save, modal_error
  <2> DEFINE v == save(u, e, fails)
  <2> HIDE DEF v
  <2>2. \E c, p : v = modal_open(u, e, "error", c, p)
    BY <2>1 DEF v
  <2> QED
    BY <2>2, ModalOpenKeeps DEF v
<1>2. CASE ~(e.card = "READY" /\ fails)
  BY <1>2 DEF save
<1> QED
  BY <1>1, <1>2

\* ui_apply_theme makes a good screen.
LEMMA ApplyThemeGood ==
  ASSUME NEW u, ScreenOK(u), NEW e, EnvOK(e)
  PROVE  GoodScreen(ui_apply_theme(u, e), e)
  BY ThemeSyncOK, RebuildGood DEF ui_apply_theme

\* ui_hints_changed on a good screen.
LEMMA HintsKeep ==
  ASSUME NEW u, NEW e, GoodScreen(u, e)
  PROVE  GoodScreen(ui_hints_changed(u, e), e) /\ ui_hints_changed(u, e).modal = u.modal
<1> DEFINE v == ui_hints_changed(u, e)
<1> HIDE DEF v
<1>1. ScreenOK(v) /\ SameList(u, v) /\ SameFocus(u, v) /\ v.modal = u.modal /\ v.hints = HintsOf(v, e)
  BY HintsChanged DEF v, GoodScreen
<1>2. GoodScreen(v, e) /\ v.modal = u.modal
  BY <1>1, StaysGood
<1> QED
  BY <1>2 DEF v

\* The inductive invariant of the pages.
PagesInv == EnvOK(env) /\ GoodScreen(scr, env) /\ FailureIsTold

\* A step to a good screen, with its error where the save failed.
LEMMA DoKeeps ==
  ASSUME NEW u, NEW e, EnvOK(e), GoodScreen(u, e), NEW fails,
         fails /\ e.card = "READY" => u.modal.kind = "error", Do(u, e, fails)
  PROVE  PagesInv'
<1>1. scr' = u /\ env' = e /\ failed' = (fails /\ e.card = "READY")
  BY DEF Do
<1>2. EnvOK(env)' /\ GoodScreen(scr, env)'
  BY <1>1 DEF EnvOK, GoodScreen
<1>3. FailureIsTold'
  BY <1>1 DEF FailureIsTold
<1> QED
  BY <1>2, <1>3 DEF PagesInv

LEMMA DoNothingFailed ==
  ASSUME NEW u, NEW e, EnvOK(e), GoodScreen(u, e), Do(u, e, FALSE)
  PROVE  PagesInv'
  BY DoKeeps

\* A setting that changes.
\* A setting that changes leaves what the pages are built from.
LEMMA ChangedOK ==
  ASSUME NEW e, EnvOK(e), NEW o, NEW dir
  PROVE  EnvOK(Changed(e, o, dir))
<1>1. \E x : Changed(e, o, dir) = [e EXCEPT !.set = x]
  <2>1. CASE o = 0
    <3>1. Changed(e, o, dir) = [e EXCEPT !.set.def = LET n == Len(launch(e))
                                       IN launch(e)[((launch_default(e) - 1 + dir + n) % n) + 1]]
      BY <2>1 DEF Changed
    <3> QED
      BY <3>1
  <2>2. CASE o = 1
    <3>1. Changed(e, o, dir) = [e EXCEPT !.set.timeout = timeout_side(@, dir)]
      BY <2>2 DEF Changed
    <3> QED
      BY <3>1
  <2>3. CASE o = 2
    <3>1. Changed(e, o, dir) = [e EXCEPT !.set.bright = backlight_side(@, dir)]
      BY <2>3 DEF Changed
    <3> QED
      BY <3>1
  <2>4. CASE o \notin {0, 1, 2}
    BY <2>4 DEF Changed
  <2> QED
    BY <2>1, <2>2, <2>3, <2>4
<1>2. PICK x : Changed(e, o, dir) = [e EXCEPT !.set = x]
  BY <1>1
<1> DEFINE f == Changed(e, o, dir)
<1>3. f = [e EXCEPT !.set = x]
  BY <1>2
<1> HIDE DEF f
<1>4. EnvOK(f)
  BY <1>3 DEF EnvOK
<1> QED
  BY <1>4 DEF f

\* Left and Right on the settings page: the theme comes before the save.
LEMMA SettingsSideKeeps ==
  ASSUME PagesInv, NEW dir, NEW fails, settings_side(scr, dir, fails)
  PROVE  PagesInv'
<1> DEFINE o == option_of_item(env, scr.item)
           e == Changed(env, o, dir)
<1>0. EnvOK(env) /\ GoodScreen(scr, env) /\ ScreenOK(scr)
  BY DEF PagesInv, GoodScreen
<1>1. CASE o = 4
  <2>1. \E u : GoodScreen(u, env) /\ Do(u, env, FALSE)
    <3>1. Do(IF dir < 0 THEN set_focus(scr, env, FALSE) ELSE scr, env, FALSE)
      BY <1>1 DEF settings_side
    <3>2. GoodScreen(set_focus(scr, env, FALSE), env)
      BY <1>0, SetFocusKeeps DEF Bools
    <3> QED
      BY <1>0, <3>1, <3>2
  <2> QED
    BY <2>1, <1>0, DoNothingFailed
<1>2. CASE o # 4
  <2>1. EnvOK(e)
    BY <1>0, ChangedOK
  <2> DEFINE t == ui_apply_theme(scr, e)
             v == save(t, e, fails)
             w == ui_hints_changed(v, e)
  <2>2. Do(w, e, fails)
    BY <1>2 DEF settings_side
  <2> HIDE DEF e
  <2>3. GoodScreen(t, e)
    BY <1>0, <2>1, ApplyThemeGood
  <2> HIDE DEF t
  <2>4. GoodScreen(v, e) /\ (fails /\ e.card = "READY" => v.modal.kind = "error")
    BY <2>3, SaveGood
  <2> HIDE DEF v
  <2>5. GoodScreen(w, e) /\ w.modal = v.modal
    BY <2>4, HintsKeep
  <2> HIDE DEF w
  <2> QED
    BY <2>1, <2>2, <2>4, <2>5, DoKeeps
<1> QED
  BY <1>1, <1>2

\* Enter on the settings page.
LEMMA SettingsEnterKeeps ==
  ASSUME PagesInv, settings_enter(scr)
  PROVE  PagesInv'
<1>0. EnvOK(env) /\ GoodScreen(scr, env)
  BY DEF PagesInv
<1>1. \E u : GoodScreen(u, env) /\ Do(u, env, FALSE)
  <2> DEFINE v == modal_open(scr, env, "reset", TRUE, FALSE)
  <2>1. Do(IF option_of_item(env, scr.item) = 4 THEN v ELSE scr, env, FALSE)
    BY DEF settings_enter
  <2>2. \E c, p : v = modal_open(scr, env, "reset", c, p)
    OBVIOUS
  <2> HIDE DEF v
  <2>3. GoodScreen(v, env)
    BY <1>0, <2>2, ModalOpenKeeps
  <2> QED
    BY <1>0, <2>1, <2>3
<1> QED
  BY <1>0, <1>1, DoNothingFailed

\* The reset of the settings.
LEMMA ResetKeeps ==
  ASSUME PagesInv, NEW u, ScreenOK(u), NEW fails, reset_done(u, fails)
  PROVE  PagesInv'
<1> DEFINE e == [env EXCEPT !.set = DefaultSet, !.cfw = {"fix1", "fix2"}]
<1>0. EnvOK(env)
  BY DEF PagesInv
<1>1. EnvOK(e)
  <2> DEFINE c == {"fix1", "fix2"}
             f == [env EXCEPT !.set = DefaultSet, !.cfw = c]
  <2>1. f = [env EXCEPT !.set = DefaultSet, !.cfw = c]
    OBVIOUS
  <2> HIDE DEF f, c
  <2>2. EnvOK(f)
    BY <1>0, <2>1 DEF EnvOK
  <2> QED
    BY <2>2 DEF f, c
<1> DEFINE t == ui_apply_theme(u, e)
           v == save(t, e, fails)
<1>2. Do(v, e, fails)
  BY DEF reset_done
<1> HIDE DEF e
<1>3. GoodScreen(t, e)
  BY <1>1, ApplyThemeGood
<1> HIDE DEF t
<1>4. GoodScreen(v, e) /\ (fails /\ e.card = "READY" => v.modal.kind = "error")
  BY <1>3, SaveGood
<1> HIDE DEF v
<1> QED
  BY <1>1, <1>2, <1>4, DoKeeps

\* Enter on the CFW page: the rebuild keeps the error of the save.
LEMMA CfwEnterKeeps ==
  ASSUME PagesInv, NEW fails, cfw_enter(scr, fails)
  PROVE  PagesInv'
<1>0. EnvOK(env) /\ GoodScreen(scr, env) /\ ScreenOK(scr)
  BY DEF PagesInv, GoodScreen
<1>1. \E x : Do(ui_rebuild(save(scr, [env EXCEPT !.cfw = x], fails), [env EXCEPT !.cfw = x]), [env EXCEPT !.cfw = x], fails)
  BY DEF cfw_enter
<1>2. PICK x : Do(ui_rebuild(save(scr, [env EXCEPT !.cfw = x], fails), [env EXCEPT !.cfw = x]), [env EXCEPT !.cfw = x], fails)
  BY <1>1
<1> DEFINE e == [env EXCEPT !.cfw = x]
           v == save(scr, e, fails)
           w == ui_rebuild(v, e)
<1>3. Do(w, e, fails)
  BY <1>2
<1>4. e = [env EXCEPT !.cfw = x]
  OBVIOUS
<1> HIDE DEF e
<1>5. EnvOK(e)
  BY <1>0, <1>4 DEF EnvOK
<1>6. ScreenOK(v) /\ (fails /\ e.card = "READY" => v.modal.kind = "error")
  <2>1. CASE e.card = "READY" /\ fails
    <3>1. \E c, p : v = modal_open(scr, e, "error", c, p)
      BY <2>1 DEF save, modal_error
    <3> HIDE DEF v
    <3> QED
      BY <3>1, <1>0, ModalOpenOK
  <2>2. CASE ~(e.card = "READY" /\ fails)
    <3>1. v = scr
      BY <2>2 DEF save
    <3> QED
      BY <3>1, <2>2, <1>0
  <2> QED
    BY <2>1, <2>2
<1> HIDE DEF v
<1>7. GoodScreen(w, e) /\ w.modal = v.modal
  BY <1>5, <1>6, RebuildGood
<1> HIDE DEF w
<1> QED
  BY <1>3, <1>5, <1>6, <1>7, DoKeeps

\* Keys in a modal.
LEMMA ModalKeyKeeps ==
  ASSUME PagesInv, NEW k, NEW fails, modal_key(scr, k, fails)
  PROVE  PagesInv'
<1>0. EnvOK(env) /\ GoodScreen(scr, env) /\ ScreenOK(scr)
  BY DEF PagesInv, GoodScreen
<1>1. CASE Do(scr, env, FALSE)
  BY <1>0, <1>1, DoNothingFailed
<1>2. CASE \E f : Do(ui_hints_changed([scr EXCEPT !.modal.focus = f], env), env, FALSE)
  <2>1. PICK f : Do(ui_hints_changed([scr EXCEPT !.modal.focus = f], env), env, FALSE)
    BY <1>2
  <2>2. \E m : [scr EXCEPT !.modal.focus = f] = [scr EXCEPT !.modal = m]
    OBVIOUS
  <2>3. PICK m : [scr EXCEPT !.modal.focus = f] = [scr EXCEPT !.modal = m]
    BY <2>2
  <2> DEFINE u == [scr EXCEPT !.modal.focus = f]
             v == ui_hints_changed(u, env)
  <2>4. u = [scr EXCEPT !.modal = m] /\ Do(v, env, FALSE)
    BY <2>1, <2>3
  <2> HIDE DEF u
  <2>5. ScreenOK(u) /\ SameList(scr, u) /\ SameFocus(scr, u)
    BY <1>0, <2>4, ModalSet
  <2>6. ScreenOK(v) /\ SameList(u, v) /\ SameFocus(u, v) /\ v.hints = HintsOf(v, env)
    BY <2>5, HintsChanged
  <2> HIDE DEF v
  <2>7. SameList(scr, v) /\ SameFocus(scr, v)
    BY <2>5, <2>6 DEF SameList, SameFocus
  <2>8. GoodScreen(v, env)
    BY <1>0, <2>6, <2>7, StaysGood
  <2> QED
    BY <1>0, <2>4, <2>8, DoNothingFailed
<1>3. CASE reset_done(modal_close(scr, env), fails)
  <2>1. ScreenOK(modal_close(scr, env))
    BY <1>0, ModalCloseOK
  <2> QED
    BY <1>3, <2>1, ResetKeeps
<1>4. CASE Do(modal_close(scr, env), env, FALSE)
  BY <1>0, <1>4, ModalCloseKeeps, DoNothingFailed
<1>5. \/ Do(scr, env, FALSE)
      \/ \E f : Do(ui_hints_changed([scr EXCEPT !.modal.focus = f], env), env, FALSE)
      \/ reset_done(modal_close(scr, env), fails)
      \/ Do(modal_close(scr, env), env, FALSE)
  BY DEF modal_key
<1> QED
  BY <1>1, <1>2, <1>3, <1>4, <1>5

\* A boot or a payload that fails.
LEMMA ErrorKeeps ==
  ASSUME PagesInv, Do(modal_error(scr, env), env, FALSE)
  PROVE  PagesInv'
<1>0. EnvOK(env) /\ GoodScreen(scr, env)
  BY DEF PagesInv
<1> DEFINE v == modal_error(scr, env)
<1>1. \E c, p : v = modal_open(scr, env, "error", c, p)
  BY DEF modal_error
<1> HIDE DEF v
<1>2. GoodScreen(v, env)
  BY <1>0, <1>1, ModalOpenKeeps
<1> QED
  BY <1>0, <1>2, DoNothingFailed DEF v

\* Keys in the list.
LEMMA ContentKeyKeeps ==
  ASSUME PagesInv, NEW k, NEW fails, content_key(scr, k, fails)
  PROVE  PagesInv'
<1>0. EnvOK(env) /\ GoodScreen(scr, env) /\ ScreenOK(scr)
  BY DEF PagesInv, GoodScreen
<1>1. CASE Do(scr, env, FALSE)
  BY <1>0, <1>1, DoNothingFailed
<1>2. CASE \E i \in Int : Do(select_item(scr, env, i), env, FALSE)
  BY <1>0, <1>2, SelectKeeps, DoNothingFailed
<1>3. CASE Do(set_focus(scr, env, FALSE), env, FALSE)
  <2>1. GoodScreen(set_focus(scr, env, FALSE), env)
    BY <1>0, SetFocusKeeps DEF Bools
  <2> QED
    BY <1>0, <1>3, <2>1, DoNothingFailed
<1>4. CASE \E dir : settings_side(scr, dir, fails)
  BY <1>4, SettingsSideKeeps
<1>5. CASE page_enter(scr, fails)
  <2>1. \/ settings_enter(scr) \/ cfw_enter(scr, fails) \/ Do(scr, env, FALSE) \/ Do(modal_error(scr, env), env, FALSE)
    BY <1>5 DEF page_enter
  <2> QED
    BY <2>1, <1>1, SettingsEnterKeeps, CfwEnterKeeps, ErrorKeeps
<1>6. scr.item \in Int /\ scr.item - 1 \in Int /\ scr.item + 1 \in Int /\ 1 \in Int /\ item_count(scr) \in Int
  <2>1. scr.item \in Nat
    BY <1>0 DEF ScreenOK
  <2>2. GoodList(scr.list)
    BY <1>0, ListIsGood DEF GoodScreen
  <2> QED
    BY <2>1, <2>2 DEF GoodList, item_count, items
<1>7. \/ Do(scr, env, FALSE)
      \/ Do(select_item(scr, env, scr.item - 1), env, FALSE) \/ Do(select_item(scr, env, scr.item + 1), env, FALSE)
      \/ Do(select_item(scr, env, 1), env, FALSE) \/ Do(select_item(scr, env, item_count(scr)), env, FALSE)
      \/ Do(set_focus(scr, env, FALSE), env, FALSE)
      \/ settings_side(scr, IF k = "left" THEN -1 ELSE 1, fails)
      \/ page_enter(scr, fails)
  BY DEF content_key
<1> QED
  BY <1>1, <1>2, <1>3, <1>4, <1>5, <1>6, <1>7

\* Keys in the navigation.
LEMMA NavKeyKeeps ==
  ASSUME PagesInv, NEW k, nav_key(scr, k)
  PROVE  PagesInv'
<1>0. EnvOK(env) /\ GoodScreen(scr, env)
  BY DEF PagesInv
<1>1. CASE Do(scr, env, FALSE)
  BY <1>0, <1>1, DoNothingFailed
<1>2. CASE \E i : Do(open_page(scr, env, i), env, FALSE)
  BY <1>0, <1>2, OpenPageKeeps, DoNothingFailed
<1>3. CASE Do(set_focus(scr, env, TRUE), env, FALSE)
  <2>1. GoodScreen(set_focus(scr, env, TRUE), env)
    BY <1>0, SetFocusKeeps DEF Bools
  <2> QED
    BY <1>0, <1>3, <2>1, DoNothingFailed
<1>4. \/ Do(scr, env, FALSE) \/ Do(set_focus(scr, env, TRUE), env, FALSE)
      \/ Do(open_page(scr, env, scr.page - 1), env, FALSE) \/ Do(open_page(scr, env, scr.page + 1), env, FALSE)
      \/ Do(open_page(scr, env, 1), env, FALSE) \/ Do(open_page(scr, env, PAGE_COUNT), env, FALSE)
  BY DEF nav_key
<1> QED
  BY <1>1, <1>2, <1>3, <1>4

\* Any key.
LEMMA PollKeyKeeps ==
  ASSUME PagesInv, NEW k, NEW fails, poll_key(k, fails)
  PROVE  PagesInv'
<1>1. modal_key(scr, k, fails) \/ content_key(scr, k, fails) \/ nav_key(scr, k)
  BY DEF poll_key
<1> QED
  BY <1>1, ModalKeyKeeps, ContentKeyKeeps, NavKeyKeeps

\* A keyboard comes or goes.
LEMMA KbdKeeps ==
  ASSUME PagesInv, kbd_changes
  PROVE  PagesInv'
<1>0. EnvOK(env) /\ GoodScreen(scr, env) /\ ScreenOK(scr)
  BY DEF PagesInv, GoodScreen
<1>1. \E x : Do(ui_hints_changed(scr, [env EXCEPT !.kbd = x]), [env EXCEPT !.kbd = x], FALSE)
  BY DEF kbd_changes
<1>2. PICK x : Do(ui_hints_changed(scr, [env EXCEPT !.kbd = x]), [env EXCEPT !.kbd = x], FALSE)
  BY <1>1
<1> DEFINE e == [env EXCEPT !.kbd = x]
           v == ui_hints_changed(scr, e)
<1>3. Do(v, e, FALSE) /\ e = [env EXCEPT !.kbd = x]
  BY <1>2
<1> HIDE DEF e
<1>4. EnvOK(e) /\ e.card = env.card /\ e.titles = env.titles /\ e.pay = env.pay
  BY <1>0, <1>3 DEF EnvOK
<1>5. ScreenOK(v) /\ SameList(scr, v) /\ SameFocus(scr, v) /\ v.hints = HintsOf(v, e)
  BY <1>0, HintsChanged
<1> HIDE DEF v
<1>6. Visible(v)
  BY <1>0, <1>5, VisibleSame DEF GoodScreen
<1>7. Build(v, e) = Build(scr, env)
  BY <1>4, <1>5, BuildSame DEF SameList
<1>8. GoodScreen(v, e)
  BY <1>0, <1>5, <1>6, <1>7 DEF GoodScreen, SameList
<1> QED
  BY <1>3, <1>4, <1>8, DoNothingFailed

\* A short press of the power key.
LEMMA PowerKeyKeeps ==
  ASSUME PagesInv, power_key_click
  PROVE  PagesInv'
<1>0. EnvOK(env) /\ GoodScreen(scr, env) /\ ScreenOK(scr)
  BY DEF PagesInv, GoodScreen
<1> DEFINE u == modal_close(scr, env)
           v == [u EXCEPT !.page = PAGE_COUNT, !.pitem[PAGE_COUNT] = 1, !.content = TRUE]
<1>1. Do(ui_rebuild(v, env), env, FALSE)
  BY DEF power_key_click
<1>2. ScreenOK(u)
  BY <1>0, ModalCloseOK
<1>3. v = [u EXCEPT !.page = PAGE_COUNT, !.pitem[PAGE_COUNT] = 1, !.content = TRUE]
  OBVIOUS
<1> HIDE DEF u, v
<1>4. ScreenOK(v)
  <2>1. PAGE_COUNT = 7
    BY DEF PAGE_COUNT, PageNames
  <2>2. /\ v = [page |-> v.page, pitem |-> v.pitem, content |-> v.content, list |-> v.list, item |-> v.item,
                exp |-> v.exp, scroll |-> v.scroll, hints |-> v.hints, modal |-> v.modal, theme |-> v.theme]
        /\ v.page = PAGE_COUNT /\ v.pitem = [u.pitem EXCEPT ![PAGE_COUNT] = 1] /\ v.content = TRUE
        /\ v.item = u.item /\ v.exp = u.exp /\ v.scroll = u.scroll
    BY <1>2, <1>3 DEF ScreenOK
  <2>3. v.pitem \in [1 .. PAGE_COUNT -> Nat] /\ PAGE_COUNT \in 1 .. PAGE_COUNT
    <3>1. u.pitem \in [1 .. PAGE_COUNT -> Nat]
      BY <1>2 DEF ScreenOK
    <3> QED
      BY <2>1, <2>2, <3>1
  <2> QED
    BY <1>2, <2>2, <2>3 DEF ScreenOK, Bools
<1> QED
  BY <1>0, <1>1, <1>4, RebuildGood, DoNothingFailed

\* A long press of the power key.
LEMMA HoldKeeps ==
  ASSUME PagesInv, hold_shown \/ hold_ends
  PROVE  PagesInv'
<1>0. EnvOK(env) /\ GoodScreen(scr, env)
  BY DEF PagesInv
<1>1. CASE hold_shown
  <2> DEFINE v == modal_open(scr, env, "hold", FALSE, TRUE)
  <2>1. Do(v, env, FALSE)
    BY <1>1 DEF hold_shown
  <2>2. \E c, p : v = modal_open(scr, env, "hold", c, p)
    OBVIOUS
  <2> HIDE DEF v
  <2>3. GoodScreen(v, env)
    BY <1>0, <2>2, ModalOpenKeeps
  <2> QED
    BY <1>0, <2>1, <2>3, DoNothingFailed
<1>2. CASE hold_ends
  BY <1>0, <1>2, ModalCloseKeeps, DoNothingFailed DEF hold_ends
<1> QED
  BY <1>1, <1>2

\* launch_find gives an index, or 0.
LEMMA FindIsIndex ==
  ASSUME NEW e, EnvOK(e), NEW t
  PROVE  launch_find(e, t) \in Nat
<1> DEFINE T == {i \in DOMAIN launch(e) : launch(e)[i] = t}
<1>1. DOMAIN launch(e) = 1 .. Len(launch(e)) /\ Len(launch(e)) \in Nat
  BY LaunchIs
<1>2. CASE T = {}
  BY <1>2 DEF launch_find
<1>3. CASE T # {}
  <2>1. T \subseteq Nat
    BY <1>1
  <2>2. PICK x \in T : \A y \in T : x <= y
    <3> HIDE DEF T
    <3> QED
      BY <1>3, <2>1, NatSetMin
  <2>3. x \in DOMAIN launch(e) /\ launch(e)[x] = t /\ \A j \in 1 .. x - 1 : launch(e)[j] # t
    <3>1. x \in 1 .. Len(launch(e)) /\ launch(e)[x] = t
      BY <1>1, <2>2
    <3>2. ASSUME NEW j \in 1 .. x - 1, launch(e)[j] = t PROVE FALSE
      <4>1. j \in DOMAIN launch(e) /\ ~(x <= j)
        BY <1>1, <3>1
      <4> QED
        BY <4>1, <3>2, <2>2
    <3> QED
      BY <3>1, <3>2, <1>1
  <2>4. launch_find(e, t) \in DOMAIN launch(e)
    BY <2>3 DEF launch_find
  <2> QED
    BY <2>4, <1>1
<1> QED
  BY <1>2, <1>3

\* What a card brings is of the kind that pages are built from.
LEMMA ReloadedOK ==
  ASSUME EnvOK(env), NEW c \in Cards_ \cup {NoCard_}
  PROVE  EnvOK(Reloaded(c))
<1>1. CASE c \in Cards_
  <2>1. c.in = TRUE /\ c.titles \in Seq(STRING) /\ c.pay \in Nat
    BY <1>1, PagesAssumption
  <2>2. \E f, s : Reloaded(c) = [env EXCEPT !.card = "READY", !.titles = c.titles, !.pay = c.pay, !.cfw = f, !.set = s]
    BY <2>1 DEF Reloaded
  <2>3. PICK f, s : Reloaded(c) = [env EXCEPT !.card = "READY", !.titles = c.titles, !.pay = c.pay, !.cfw = f, !.set = s]
    BY <2>2
  <2> DEFINE e == Reloaded(c)
             t == c.titles
             p == c.pay
  <2>4. e = [env EXCEPT !.card = "READY", !.titles = t, !.pay = p, !.cfw = f, !.set = s]
    BY <2>3
  <2>5. (\E S : t \in Seq(S)) /\ p \in Nat
    BY <2>1
  <2> HIDE DEF e, t, p
  <2>6. /\ e = [card |-> e.card, titles |-> e.titles, pay |-> e.pay, kbd |-> e.kbd, set |-> e.set, cfw |-> e.cfw]
        /\ e.card = "READY" /\ e.titles = t /\ e.pay = p
    BY <2>4 DEF EnvOK
  <2>7. EnvOK(e)
    BY <2>5, <2>6 DEF EnvOK
  <2> QED
    BY <2>7 DEF e
<1>2. CASE c = NoCard_
  <2>1. Reloaded(c) = [env EXCEPT !.card = "NONE", !.titles = <<>>, !.pay = 0]
    BY <1>2 DEF Reloaded, NoCard_
  <2> DEFINE e == Reloaded(c)
  <2>2. e = [env EXCEPT !.card = "NONE", !.titles = <<>>, !.pay = 0]
    BY <2>1
  <2>3. <<>> \in Seq({})
    OBVIOUS
  <2> HIDE DEF e
  <2>4. /\ e = [card |-> e.card, titles |-> e.titles, pay |-> e.pay, kbd |-> e.kbd, set |-> e.set, cfw |-> e.cfw]
        /\ e.card = "NONE" /\ e.titles = <<>> /\ e.pay = 0
    BY <2>2 DEF EnvOK
  <2>5. EnvOK(e)
    BY <2>3, <2>4 DEF EnvOK
  <2> QED
    BY <2>5 DEF e
<1> QED
  BY <1>1, <1>2

\* A card comes or goes.
LEMMA CardKeeps ==
  ASSUME PagesInv, NEW c \in Cards_ \cup {NoCard_}, NEW wrong, card_changes(c, wrong)
  PROVE  PagesInv'
<1> DEFINE e == Reloaded(c)
           keep == IF scr.page = 1 /\ scr.item <= item_count(scr) THEN <<launch(env)[scr.item]>> ELSE <<>>
           u == theme_sync(modal_close(scr, env), e)
           v == IF wrong /\ c.in THEN modal_error(u, e) ELSE u
           j == IF launch_find(e, keep[1]) > 0 THEN launch_find(e, keep[1]) ELSE 1
           w == IF keep = <<>> THEN v ELSE [v EXCEPT !.pitem[1] = j]
<1>0. EnvOK(env) /\ GoodScreen(scr, env) /\ ScreenOK(scr)
  BY DEF PagesInv, GoodScreen
<1>1. Do(ui_rebuild(w, e), e, FALSE)
  BY DEF card_changes, ui_card_changed
<1>2. EnvOK(e)
  BY <1>0, ReloadedOK
<1> HIDE DEF e, keep
<1>3. ScreenOK(u)
  <2>1. ScreenOK(modal_close(scr, env))
    BY <1>0, ModalCloseOK
  <2> QED
    BY <2>1, ThemeSyncOK
<1> HIDE DEF u
<1>4. ScreenOK(v)
  <2>1. CASE wrong /\ c.in
    <3>1. \E a, p : v = modal_open(u, e, "error", a, p)
      BY <2>1 DEF modal_error
    <3> HIDE DEF v
    <3> QED
      BY <3>1, <1>3, ModalOpenOK
  <2>2. CASE ~(wrong /\ c.in)
    BY <2>2, <1>3
  <2> QED
    BY <2>1, <2>2
<1> HIDE DEF v
<1>5. j \in Nat
  <2>1. launch_find(e, keep[1]) \in Nat
    BY <1>2, FindIsIndex
  <2> QED
    BY <2>1
<1> HIDE DEF j
<1>6. w = v \/ w = [v EXCEPT !.pitem[1] = j]
  OBVIOUS
<1> HIDE DEF w
<1>7. ScreenOK(w)
  <2>1. PAGE_COUNT = 7
    BY DEF PAGE_COUNT, PageNames
  <2>2. CASE w = [v EXCEPT !.pitem[1] = j]
    BY <1>4, <1>5, <2>1, <2>2 DEF ScreenOK
  <2> QED
    BY <1>4, <1>6, <2>2
<1> QED
  BY <1>1, <1>2, <1>7, RebuildGood, DoNothingFailed

\* The info page again.
LEMMA BatteryKeeps ==
  ASSUME PagesInv, battery_tick
  PROVE  PagesInv'
<1>0. EnvOK(env) /\ ScreenOK(scr)
  BY DEF PagesInv, GoodScreen
<1> QED
  BY <1>0, RebuildGood, DoNothingFailed DEF battery_tick

\* The first screen.
LEMMA PagesInitGood == PagesInit => PagesInv
<1> SUFFICES ASSUME PagesInit PROVE PagesInv
  OBVIOUS
<1> DEFINE l == Layout(<<>>)
           p == [q \in 1 .. PAGE_COUNT |-> 1]
           u == [page |-> 1, pitem |-> p, content |-> TRUE, list |-> l, item |-> 1, exp |-> 0, scroll |-> 0,
                 hints |-> <<>>, modal |-> NoModal, theme |-> FALSE]
           f == {"fix1", "fix2"}
<1>1. scr = ui_rebuild(u, env) /\ failed = FALSE
  BY DEF PagesInit
<1>2. EnvOK(env)
  <2>1. env = [card |-> "NONE", titles |-> <<>>, pay |-> 0, kbd |-> FALSE, set |-> DefaultSet, cfw |-> f]
    BY DEF PagesInit
  <2>2. <<>> \in Seq({})
    OBVIOUS
  <2> HIDE DEF f
  <2> QED
    BY <2>1, <2>2 DEF EnvOK
<1>3. p \in [1 .. PAGE_COUNT -> Nat] /\ 1 \in 1 .. PAGE_COUNT
  BY DEF PAGE_COUNT, PageNames
<1> HIDE DEF p, l
<1>4. ScreenOK(u)
  BY <1>3 DEF ScreenOK, Bools
<1> HIDE DEF u
<1>5. GoodScreen(scr, env)
  BY <1>1, <1>2, <1>4, RebuildGood
<1> QED
  BY <1>1, <1>2, <1>5 DEF PagesInv, FailureIsTold

\* Every step keeps PagesInv; one case per action.
LEMMA PagesNextGood == PagesInv /\ [PagesNext]_page_vars => PagesInv'
<1> SUFFICES ASSUME PagesInv, [PagesNext]_page_vars PROVE PagesInv'
  OBVIOUS
<1>1. CASE UNCHANGED page_vars
  BY <1>1 DEF page_vars, PagesInv, EnvOK, GoodScreen, FailureIsTold
<1>2. CASE \E k \in Keys, fails \in BOOLEAN : poll_key(k, fails)
  BY <1>2, PollKeyKeeps
<1>3. CASE kbd_changes
  BY <1>3, KbdKeeps
<1>4. CASE power_key_click
  BY <1>4, PowerKeyKeeps
<1>5. CASE hold_shown \/ hold_ends
  BY <1>5, HoldKeeps
<1>6. CASE \E c \in Cards_ \cup {NoCard_}, wrong \in BOOLEAN : card_changes(c, wrong)
  BY <1>6, CardKeeps
<1>7. CASE battery_tick
  BY <1>7, BatteryKeeps
<1> QED
  BY <1>1, <1>2, <1>3, <1>4, <1>5, <1>6, <1>7 DEF PagesNext

\* PagesInv implies the two properties.
LEMMA PagesInvMeans == PagesInv => ScreenIsTrue /\ FocusIsVisible
<1> SUFFICES ASSUME PagesInv PROVE ScreenIsTrue /\ FocusIsVisible
  OBVIOUS
<1>1. EnvOK(env) /\ scr.page \in 1 .. PAGE_COUNT /\ scr.list = Layout(Build(scr, env))
  BY DEF PagesInv, GoodScreen, ScreenOK
<1>2. ShownIsMeant
  BY <1>1, ListIsMeant
<1>3. HintsAreTrue /\ FailureIsTold
  BY DEF PagesInv, GoodScreen, HintsAreTrue
<1>4. FocusIsVisible
  BY DEF PagesInv, GoodScreen, Visible, FocusIsVisible
<1> QED
  BY <1>2, <1>3, <1>4 DEF ScreenIsTrue

\* What the screen is made of, in every reachable state: the list is the one that the
\* page builds from the present card and settings, the item in focus is in the
\* window, the hints are those of the present focus, and a failed save is shown.
THEOREM PagesInvariant == PagesSpec => []PagesInv
  BY PagesInitGood, PagesNextGood, PTL DEF PagesSpec

\* The screen tells the truth (ui_rebuild, ui_hints_changed, save), for every card,
\* every number of entries and payloads and every limit of the list: item i of
\* the list is what the page's handler takes i for, the hints say what the keys
\* do, and a save that failed is on the screen.
THEOREM ScreenIsTrueTheorem == PagesSpec => []ScreenIsTrue
  BY PagesInvariant, PagesInvMeans, PTL

\* The item in focus exists, and all of it is in the window with its help and the
\* heading above it (scroll_to_item, expand), for all heights that let an item with
\* its heading fit the window.
THEOREM FocusIsVisibleTheorem == PagesSpec => []FocusIsVisible
  BY PagesInvariant, PagesInvMeans, PTL

=============================================================================
