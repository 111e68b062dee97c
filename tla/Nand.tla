-------------------------------- MODULE Nand --------------------------------
(***************************************************************************)
(* The NAND driver of openNBOOT (baremetal/lib/nand.c and ecc.c): the      *)
(* probe of the block size, and the load of the IPL, which skips bad       *)
(* blocks.  A page is read chunk by chunk; every wait can run out, the     *)
(* engine can find a chunk correctable or not, and the word with the       *)
(* bad-block marker, which is read past the engine, can fail to come or    *)
(* come with a bit turned over.                                            *)
(*                                                                         *)
(* A page of the flash is the number of the image page that it holds, -1   *)
(* when it holds none; a chunk in memory is the page it came from and the  *)
(* set of its bits that are wrong.  The counters that are only logged      *)
(* (corrections, retries) are left out.                                    *)
(***************************************************************************)
EXTENDS Integers, Sequences, FiniteSets

CONSTANTS
  Candidates,       \* the values of pages_per_block to try, in this order
  CHUNKS,           \* chunks of a page
  PAGE_READ_TRIES,
  MAX_BAD_SKIP,     \* of a load, and of the probe for each candidate
  IMAGE_PAGES,      \* HANDOFF_BYTES in pages
  FlipBits,         \* bits of a frame that can be wrong
  Flashes           \* the parts: [ppb, bad]

ASSUME NandAssumption ==
  /\ Candidates \in Seq(Nat \ {0}) /\ Len(Candidates) > 0
  /\ {CHUNKS, PAGE_READ_TRIES, MAX_BAD_SKIP, IMAGE_PAGES} \subseteq Nat \ {0}
  /\ FlipBits \subseteq 0 .. 4219   \* the bits that a position register can name
  /\ \A f \in Flashes : f.ppb \in Nat \ {0} /\ f.bad \subseteq Nat

VARIABLES
  flash,            \* external: its block size and its bad blocks
  pages_per_block,
  npc,              \* "off", "probe", "load", "page", "done"
  cand,             \* the candidate of the probe, 0 during the load
  block, skipped,
  page, chunk, try, \* of nand_read_page
  buf,              \* the chunks of the page in memory
  image,            \* the pages loaded so far
  nrc,
  misread           \* ghost: a good block was taken for a bad one, or a bad one for good

nand_vars == <<flash, pages_per_block, npc, cand, block, skipped, page, chunk, try, buf, image,
               nrc, misread>>
reading_page == <<page, chunk, try, buf>>
\* What nand_read_page leaves alone.
nand_rest == <<flash, pages_per_block, cand, skipped, misread>>

IPL_START_BLOCK == 1

-----------------------------------------------------------------------------
(* The part and its ECC engine (external).                                 *)

\* The writer skips the bad blocks whole; the image starts at block 1.
Content(p) ==
  LET b == p \div flash.ppb
      Good == (IPL_START_BLOCK .. b) \ flash.bad
  IN IF b \in Good THEN (Cardinality(Good) - 1) * flash.ppb + (p % flash.ppb) ELSE -1

\* A bad block is marked on its first page.
Marked(p) == p % flash.ppb = 0 /\ p \div flash.ppb \in flash.bad

seg_base == <<-112, 16, 144, 272, 400>>

\* A position register: which of the ten select bits are set, and the
\* position.  The engine names the bit of a frame, the first bit of a byte
\* being the most significant, by 8 * base + 2 * pos + parity - 4.
ErrorAt ==
  [b \in FlipBits |->
     CHOOSE reg \in [sel : {{i} : i \in 0 .. 9}, pos : 0 .. 511] :
       \E i \in reg.sel : 8 * seg_base[i \div 2 + 1] + 2 * reg.pos + (i % 2) - 4 = b]

Junk == [sel |-> {0, 1}, pos |-> 7]

\* What the engine can say of one chunk: nothing in time, no error, an
\* uncorrectable one, of which the data may have come as all ones, or up to
\* two positions, which may be none or junk.
Verdicts ==
  [kind : {"late", "clean", "bad", "ones"}, bits : {{}}, junk : {FALSE}]
    \cup {v \in [kind : {"fix"}, bits : SUBSET FlipBits, junk : BOOLEAN] : Cardinality(v.bits) <= 2}

-----------------------------------------------------------------------------
(* ecc.c.                                                                  *)

\* Mutant: a position below the base is left there.
ecc_locate_low(reg) ==
  IF Cardinality(reg.sel) # 1 THEN -1
  ELSE LET i == CHOOSE x \in reg.sel : TRUE
           r == 2 * reg.pos + (i % 2) - 4
       IN 8 * seg_base[i \div 2 + 1] + (IF r < 0 THEN 0 ELSE r)

\* The bit of the frame, most significant bit of a byte first, or -1.
ecc_locate(reg) ==
  IF Cardinality(reg.sel) # 1 THEN -1
  ELSE LET i == CHOOSE x \in reg.sel : TRUE
           r0 == 2 * reg.pos + (i % 2) - 4
           r == IF r0 < 0 THEN r0 + 8 ELSE r0
           base == seg_base[i \div 2 + 1] - (IF r0 < 0 THEN 1 ELSE 0)
           idx == base + r \div 8
       IN IF idx < 0 THEN -1 ELSE 8 * idx + (r % 8)

\* The data bits that ecc_apply turns over, and whether it fails: a position
\* that cannot be, or lies behind the tag of four bytes, or none at all.
ecc_apply(regs) ==
  LET at == {ecc_locate(reg) : reg \in regs} IN
  [flip |-> {b \in at : b >= 0 /\ b < 512 * 8},
   fails |-> regs = {} \/ \E b \in at : b = -1 \/ b >= (512 + 4) * 8]

-----------------------------------------------------------------------------
(* A page.                                                                 *)

\* All ones, as an erased chunk.
Blank == [of |-> -1, wrong |-> {}]

\* Starts nand_read_page.
StartPage(p) == page' = p /\ chunk' = 1 /\ try' = 1 /\ buf' = <<>>

Fail(rc) == npc' = "done" /\ nrc' = rc

\* nand_probe_geometry: on to the next candidate, or the end of the probe.
NextCandidate ==
  IF cand = Len(Candidates)
  THEN pages_per_block' = 0 /\ Fail("EPROBE") /\ UNCHANGED <<cand, block, skipped>>
  ELSE /\ cand' = cand + 1 /\ pages_per_block' = Candidates[cand + 1]
       /\ block' = IPL_START_BLOCK /\ skipped' = 0 /\ npc' = "probe" /\ UNCHANGED nrc

\* Mutant: every try starts over.
TryFails_forever ==
  /\ chunk' = 1 /\ UNCHANGED <<page, try, buf, npc, nrc, image, pages_per_block, cand, block, skipped>>

\* A try failed: read_page_once starts at the first chunk again, PAGE_READ_TRIES
\* times; then the probe takes the next candidate and the load stops.
TryFails ==
  /\ UNCHANGED <<page, buf, image>>
  /\ IF try < PAGE_READ_TRIES
     THEN /\ try' = try + 1 /\ chunk' = 1
          /\ UNCHANGED <<npc, nrc, pages_per_block, cand, block, skipped>>
     ELSE /\ UNCHANGED <<try, chunk>>
          /\ IF cand > 0 THEN NextCandidate
             ELSE Fail("read") /\ UNCHANGED <<pages_per_block, cand, block, skipped>>

\* A chunk is good.  The last one of a page ends the page: the probe compares
\* the magic, and the load takes the next page, of this block or the next.
ChunkDone(got) ==
  LET b == Append(SubSeq(buf, 1, chunk - 1), got) IN
  IF chunk < CHUNKS
  THEN buf' = b /\ chunk' = chunk + 1 /\ UNCHANGED <<page, try, npc, nrc, image, block, nand_rest>>
  ELSE IF cand > 0
  THEN /\ IF b[1] = [of |-> 0, wrong |-> {}]
          THEN npc' = "load" /\ cand' = 0 /\ block' = IPL_START_BLOCK /\ skipped' = 0
               /\ UNCHANGED <<pages_per_block, nrc>>
          ELSE NextCandidate
       /\ buf' = <<>> /\ UNCHANGED <<page, chunk, try, image, flash, misread>>
  ELSE /\ image' = Append(image, b)
       /\ UNCHANGED nand_rest
       /\ IF Len(image) + 1 = IMAGE_PAGES
          THEN Fail("ok") /\ buf' = <<>> /\ UNCHANGED <<block, page, chunk, try>>
          ELSE IF (page + 1) % pages_per_block # 0
          THEN StartPage(page + 1) /\ UNCHANGED <<npc, nrc, block>>
          ELSE block' = block + 1 /\ npc' = "load" /\ buf' = <<>> /\ UNCHANGED <<page, chunk, try, nrc>>

\* read_page_once, the rounds of its loop.  The engine does not correct in
\* place; an uncorrectable chunk is taken when it came as all ones, whatever
\* the page should hold.
read_chunk(v) ==
  /\ npc = "page"
  /\ LET regs == {ErrorAt[b] : b \in v.bits} \cup (IF v.junk THEN {Junk} ELSE {})
         got == [of |-> Content(page), wrong |-> {b \in v.bits : b < 512 * 8}]
         fix == ecc_apply(regs)
     IN CASE v.kind = "clean" -> ChunkDone(got)
          [] v.kind = "fix" /\ ~fix.fails ->
               ChunkDone([got EXCEPT !.wrong = (@ \ fix.flip) \cup (fix.flip \ @)])
          [] v.kind = "ones" -> ChunkDone(Blank)
          [] OTHER -> TryFails /\ UNCHANGED <<flash, misread>>

-----------------------------------------------------------------------------
(* The probe and the load.                                                 *)

NandInit ==
  /\ flash \in Flashes /\ pages_per_block = 0 /\ npc = "off" /\ cand = 0 /\ block = 0 /\ skipped = 0
  /\ page = 0 /\ chunk = 1 /\ try = 1 /\ buf = <<>> /\ image = <<>> /\ nrc = "none" /\ misread = FALSE

\* nand_init, and the entry of nand_probe_geometry.
nand_init ==
  /\ npc = "off" /\ npc' = "probe"
  /\ cand' = 1 /\ pages_per_block' = Candidates[1] /\ block' = IPL_START_BLOCK /\ skipped' = 0
  /\ UNCHANGED <<reading_page, image, nrc, flash, misread>>

\* How the word with a marker can come; there is no second try and no ECC.
MarkerReads == {"exact", "turned", "lost"}

\* A marker that cannot be read counts as bad, and one bit of it is enough to
\* turn the answer over.
block_is_bad(word) ==
  \/ word = "lost"
  \/ word = "exact" /\ Marked(block * pages_per_block)
  \/ word = "turned" /\ ~Marked(block * pages_per_block)

Judges(word) == misread' = (misread \/ ~(block_is_bad(word) <=> Marked(block * pages_per_block)))

\* The scan of the probe for a block that is not bad.
nand_probe_geometry(word) ==
  /\ npc = "probe" /\ Judges(word)
  /\ UNCHANGED <<image, flash>>
  /\ IF ~block_is_bad(word)
     THEN /\ StartPage(block * pages_per_block) /\ npc' = "page"
          /\ UNCHANGED <<pages_per_block, cand, block, skipped, nrc>>
     ELSE /\ UNCHANGED reading_page
          /\ IF skipped + 1 < MAX_BAD_SKIP
             THEN /\ block' = block + 1 /\ skipped' = skipped + 1
                  /\ UNCHANGED <<pages_per_block, cand, npc, nrc>>
             ELSE NextCandidate

\* The loop of nand_load_image, at the start of a block.
nand_load_image(word) ==
  /\ npc = "load" /\ Judges(word)
  /\ UNCHANGED <<pages_per_block, cand, image, flash>>
  /\ IF ~block_is_bad(word)
     THEN StartPage(block * pages_per_block) /\ npc' = "page" /\ UNCHANGED <<block, skipped, nrc>>
     ELSE /\ skipped' = skipped + 1 /\ UNCHANGED reading_page
          /\ IF skipped + 1 > MAX_BAD_SKIP
             THEN Fail("EBADRUN") /\ UNCHANGED block
             ELSE block' = block + 1 /\ UNCHANGED <<npc, nrc>>

NandStep ==
  \/ nand_init
  \/ \E word \in MarkerReads : nand_probe_geometry(word) \/ nand_load_image(word)
  \/ \E v \in Verdicts : read_chunk(v)

-----------------------------------------------------------------------------
(* Properties.                                                             *)

\* Page for page, every chunk without a wrong bit or all ones.
WholeImage ==
  /\ Len(image) = IMAGE_PAGES
  /\ \A k \in 1 .. IMAGE_PAGES :
       image[k] \in [1 .. CHUNKS -> {[of |-> k - 1, wrong |-> {}], Blank}]

(* When the load says so, the IPL in memory is the image: each page in its *)
(* place, and of each chunk every data bit that the engine found wrong put *)
(* right and no other touched, over bad blocks, tries that failed in the   *)
(* middle of a page, and positions at the edges of the segments            *)
(* (nand_load_image, ecc_apply).  Three things are not promised, because   *)
(* the code does not check them: a chunk that the engine gave up on may be *)
(* all ones (chunk_is_blank), a block whose marker came wrong or not at    *)
(* all is skipped or taken wrongly (block_is_bad), and the block size may  *)
(* not be that of the part (NoWrongCandidate).                             *)
LoadedIsImage == nrc = "ok" /\ ~misread /\ pages_per_block = flash.ppb => WholeImage

(* "No wrong candidate can pass this probe": the block size that the probe *)
(* settles on is that of the part.  It does not hold: when the blocks      *)
(* before it are bad, the image starts at the first page of a larger       *)
(* block.                                                                  *)
NoWrongCandidate == npc = "load" /\ ~misread => pages_per_block = flash.ppb
=============================================================================
