---------------------------- MODULE StoredOffsets ----------------------------
(***************************************************************************)
(* How a list of spans is stored, loaded and turned into the place where   *)
(* reading starts.  handle_file_offset_flush (common/state/src/state.rs)   *)
(* writes the list as words, FileOffsetState::offsets reads the words, and *)
(* FileSystem::get_initial_offset (common/fs/src/cache/mod.rs) prepares    *)
(* the list for a tailed file.                                             *)
(***************************************************************************)
EXTENDS SpanVec

(* The stored value: the end of the first span, then every start and end.  *)
Encode(spans) ==
    IF spans = <<>> THEN <<>>
    ELSE <<spans[1].end>>
             \o FlattenSeq([i \in DOMAIN spans |-> <<spans[i].start, spans[i].end>>])

(* The loading loop skips the first word and takes words in pairs, but it  *)
(* moves on by one word for each pair: the end of a span and the start of  *)
(* the next one are a pair too.  A lone word is the end of a span from 0.  *)
Pairs(words) ==
    IF Len(words) = 1 THEN <<Span(0, words[1])>>
    ELSE [i \in 1 .. Len(words) - 2 |-> Span(words[i + 1], words[i + 2])]

(* Span::new refuses a pair that ends before it starts, and offsets() then *)
(* fails as a whole: the process starts without any stored offsets.        *)
Loadable(words) == \A i \in DOMAIN Pairs(words) : Pairs(words)[i].start <= Pairs(words)[i].end

Loaded(words) == IF Loadable(words) THEN InsertAll(<<>>, Pairs(words)) ELSE <<>>

(* Where a file is read from, given what is known of it; no entry is the   *)
(* empty list, as with lookback from the start of the file.  A list with   *)
(* one span is extended to the start of the file.                          *)
InitialOffset(known) ==
    IF Len(known) = 1 THEN Insert(known, Span(0, known[1].start)) ELSE known
=============================================================================
