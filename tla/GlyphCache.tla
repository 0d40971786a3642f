------------------------------ MODULE GlyphCache ------------------------------
(***************************************************************************)
(* The cache of rasterised glyphs (get_raster of                           *)
(* kernel-core/src/rendering/text_box.rs) and its queue of eviction, two   *)
(* statics that are only ever changed together.  The queue is filled with  *)
(* push_back_unchecked, which is undefined when it is full.                *)
(***************************************************************************)
EXTENDS Naturals, Sequences, SequencesExt, FiniteSets

CONSTANT MAX_CACHE_ENTRIES  \* (256)

ASSUME CacheAssumption == MAX_CACHE_ENTRIES \in Nat \ {0}

\* A cache is a record: the glyphs in GLYPH_CACHE, and CACHE_ORDER.
EmptyCache == [cache |-> {}, order |-> <<>>]

Evict(c) == [cache |-> c.cache \ {Head(c.order)}, order |-> Tail(c.order)]

\* Mutant: a glyph that is found is noted as used, as if the queue were one of uses.
get_raster_again(c, glyph) ==
  LET room == IF Cardinality(c.cache) >= MAX_CACHE_ENTRIES /\ c.order # <<>>
              THEN Evict(c) ELSE c
  IN [cache |-> room.cache \cup {glyph}, order |-> Append(room.order, glyph)]

get_raster(c, glyph) ==
  IF glyph \in c.cache THEN c
  ELSE LET room == IF Cardinality(c.cache) >= MAX_CACHE_ENTRIES /\ c.order # <<>>
                   THEN Evict(c) ELSE c
       IN [cache |-> room.cache \cup {glyph}, order |-> Append(room.order, glyph)]

\* What the cache is after requests for glyphs, one by one.
Requested(c, glyphs) ==
  LET after[n \in 0 .. Len(glyphs)] ==
        IF n = 0 THEN c ELSE get_raster(after[n - 1], glyphs[n])
  IN after[Len(glyphs)]

\* The cache and its queue hold the same glyphs, each once, so that the queue has
\* room for one more whenever one is pushed (text_box.rs:44-46).
InStep(c) ==
  /\ ToSet(c.order) = c.cache
  /\ IsInjective(c.order)
  /\ Len(c.order) <= MAX_CACHE_ENTRIES
===============================================================================
