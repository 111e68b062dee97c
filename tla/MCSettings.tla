---- MODULE MCSettings ----
(* Two sections and the one without a name; the menu sets key a/k, and a   *)
(* newer version wrote the others.  The table has room for two keys.       *)
EXTENDS Settings
MCSections == {"", "a"}
MCNames == {"k", "long", "cut"}
MCKnown == {<<"a", "k">>}
====
