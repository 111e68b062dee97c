----------------------------- MODULE MCOpenNboot ----------------------------
(* Parts of three block sizes with bad blocks in every place that the scan *)
(* crosses, and volumes of each FAT kind.                                  *)
EXTENDS OpenNboot

MCCandidates == <<2, 4, 1>>
MCFlashes == [ppb : {1, 2, 4}, bad : SUBSET {1, 2, 4}] \cup {[ppb |-> 1, bad |-> 1 .. 12]}

\* The entries of four sectors of a directory.
Dirs == {<<<<"lfn", "other">>, <<"deleted", "file">>, <<"file">>, <<"end">>>>,
         <<<<"other">>, <<"other">>, <<"label">>, <<"file">>>>,
         <<<<"other">>, <<"other">>, <<"label">>, <<"other">>>>}

\* The clusters of the file and of the root, and what follows the last one of
\* each: the end, nothing, a cluster that cannot be, or a circle.
Volume(f, d, p, r, n, e, t) ==
  [check |-> "ok", fat32 |-> f, spc |-> 2, size |-> n, root |-> r[1], file |-> p[1],
   dir |-> IF f THEN [c \in 2 .. 5 |-> IF c = r[1] THEN <<d[1], d[2]>> ELSE <<d[3], d[4]>>] ELSE d,
   fat |-> [x \in 2 .. 5 |-> CASE x = p[1] -> p[2] [] x = p[2] -> e [] x = r[1] -> r[2] [] OTHER -> t],
   sound |-> IF e \in 2 .. 5 THEN <<>> ELSE p]

MCVolumes ==
  {[Volume(FALSE, <<<<"file">>>>, <<2, 3>>, <<4, 5>>, 1, EOC, EOC) EXCEPT !.check = c] :
     c \in {"-2", "-3", "-5"}}
  \cup {Volume(f, d, w[1], w[2], n, e, t) :
          f \in BOOLEAN, d \in Dirs, n \in {0, 3, 7, 8, 9, 20}, e \in {EOC, 0, Beyond, 2}, t \in {EOC, 3},
          w \in {<< <<2, 4>>, <<3, 5>> >>, << <<5, 2>>, <<3, 4>> >>}}

\* Every volume with a flash that has no image, every flash with one volume.
MCInit ==
  /\ OpenNbootInit
  /\ \/ flash = [ppb |-> 1, bad |-> 1 .. 12]
     \/ vol.check = "-2"
MCSpec == MCInit /\ [][boot_main]_boot_vars /\ WF_boot_vars(boot_main)
=============================================================================
