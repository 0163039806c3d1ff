------------------------------ MODULE Chunking ------------------------------
(***************************************************************************)
(* How a page of a document is cut into the chunks that are indexed:       *)
(* _split_sentences, _fixed_chunk, _heading_chunk and chunk_document of    *)
(* backend/app/services/ingestion_service.py.                              *)
(*                                                                         *)
(* A page is the sequence of sections that splitting at the headings       *)
(* gives.  A section is a sequence of sentences, and of a sentence only    *)
(* the number of its words matters.  A heading is a section whose first    *)
(* sentence is its line; the regular expression may take more lines than   *)
(* that, and these are the others.  A chunk is the heading it carries and  *)
(* its sentences, by the places they have on the page.                     *)
(*                                                                         *)
(* Left out: what the sentences say and the score of a chunk's quality,    *)
(* which is only logged.                                                   *)
(***************************************************************************)
EXTENDS Integers, Sequences, FiniteSets, SequencesExt, FiniteSetsExt

CONSTANTS
    size, overlap,       \* HR_CHUNK_RULES of the document's category
    MIN_CHUNK_WORDS,
    Length,              \* bound: the words a sentence may have
    MaxSections, MaxSentences   \* bounds on a page and on a section

VARIABLES
    page,    \* the sections of the page
    chunks   \* the chunks it gave

vars == <<page, chunks>>

Section == [heading : BOOLEAN,
            lengths : UNION {[1..n -> Length] : n \in 1..MaxSentences}]
Pages   == UNION {[1..n -> Section] : n \in 1..MaxSections}

-----------------------------------------------------------------------------
(* Sentences, by the places <<section, sentence>> they have                  *)

Sentences(p, i) == [j \in DOMAIN p[i].lengths |-> <<i, j>>]

Weight(p, s) == p[s[1]].lengths[s[2]]
Words(p, ss) ==
    LET words[n \in 0..Len(ss)] ==
            IF n = 0 THEN 0 ELSE words[n - 1] + Weight(p, ss[n])
    IN  words[Len(ss)]

All(p) ==
    LET all[n \in 0..Len(p)] ==
            IF n = 0 THEN <<>> ELSE all[n - 1] \o Sentences(p, n)
    IN  all[Len(p)]

-----------------------------------------------------------------------------
(* _fixed_chunk: as many sentences as fit; the next chunk begins with the    *)
(* last ones of the one before, up to so many words                          *)

Carried(p, ss) ==
    LET fits == {i \in 1..Len(ss) + 1 : Words(p, SubSeq(ss, i, Len(ss))) <= overlap}
    IN  SubSeq(ss, Min(fits), Len(ss))

LongEnough(p, ss) == Words(p, ss) >= MIN_CHUNK_WORDS
Kept(p, out, ss)  == IF LongEnough(p, ss) THEN Append(out, ss) ELSE out

\* acc: the chunks so far and the sentences of the one that is open.
Packed(p, acc, s) ==
    IF acc.open # <<>> /\ Words(p, acc.open) + Words(p, <<s>>) > size
    THEN [out |-> Kept(p, acc.out, acc.open), open |-> Append(Carried(p, acc.open), s)]
    ELSE [out |-> acc.out, open |-> Append(acc.open, s)]

Packing(p, ss) ==
    LET pack[n \in 0..Len(ss)] ==
            IF n = 0 THEN [out |-> <<>>, open |-> <<>>] ELSE Packed(p, pack[n - 1], ss[n])
    IN  pack[Len(ss)]

FixedChunk_LosesLast(p, ss) ==
    IF Words(p, ss) <= size THEN Kept(p, <<>>, ss) ELSE Packing(p, ss).out
FixedChunk(p, ss) ==
    IF Words(p, ss) <= size THEN Kept(p, <<>>, ss)
    ELSE Kept(p, Packing(p, ss).out, Packing(p, ss).open)

-----------------------------------------------------------------------------
(* _heading_chunk: section by section, each chunk under the last heading     *)

Under(heading, c) == [heading |-> heading, text |-> c]

Titled(heading, fixed) == [c \in DOMAIN fixed |-> Under(heading, fixed[c])]

\* acc: the chunks so far and the heading that holds.
HeadingSection(p, acc, i) ==
    LET ss   == Sentences(p, i)
        line == <<ss[1]>>
        body == Tail(ss)
    IN  IF p[i].heading
        THEN [heading |-> line,
              out |-> IF LongEnough(p, body) THEN Append(acc.out, Under(line, body)) ELSE acc.out]
        ELSE [heading |-> acc.heading,
              out |-> acc.out \o Titled(acc.heading, FixedChunk(p, ss))]

Sections(p) ==
    LET done[n \in 0..Len(p)] ==
            IF n = 0 THEN [heading |-> <<>>, out |-> <<>>]
            ELSE HeadingSection(p, done[n - 1], n)
    IN  done[Len(p)].out

ChunkWords(p, c) == Words(p, c.heading \o c.text)

Preserved(p, out) ==
    LET words[n \in 0..Len(out)] ==
            IF n = 0 THEN 0 ELSE words[n - 1] + ChunkWords(p, out[n])
    IN  words[Len(out)]

HeadingChunk(p) ==
    IF 2 * Preserved(p, Sections(p)) < Words(p, All(p))
    THEN Titled(<<>>, FixedChunk(p, All(p)))
    ELSE Sections(p)

\* chunk_document: what is too short even with its heading is dropped.
ChunkDocument(p) ==
    LET raw == HeadingChunk(p)
        kept[n \in 0..Len(raw)] ==
            IF n = 0 THEN <<>>
            ELSE IF ChunkWords(p, raw[n]) >= MIN_CHUNK_WORDS THEN Append(kept[n - 1], raw[n])
            ELSE kept[n - 1]
    IN  kept[Len(raw)]

-----------------------------------------------------------------------------
(* chunk_document_by_pages: one page after the other                         *)

Init == page = <<>> /\ chunks = <<>>

ChunkPage ==
    /\ page = <<>>
    /\ page' \in Pages
    /\ chunks' = ChunkDocument(page')

NextPage ==
    /\ page # <<>>
    /\ page' = <<>> /\ chunks' = <<>>

Next == ChunkPage \/ NextPage

Spec == Init /\ [][Next]_vars

-----------------------------------------------------------------------------
(* Properties                                                                *)

TypeOK ==
    /\ page \in Pages \cup {<<>>}
    /\ \A c \in DOMAIN chunks :
          Range(chunks[c].heading \o chunks[c].text) \subseteq Range(All(page))

\* The sentences of a text that are in no chunk are few: consecutive ones have
\* fewer than MIN_CHUNK_WORDS words. Sections, chunks and the last rest of a
\* section are each dropped when they are shorter than that, but the overlap takes
\* what a short chunk held into the next one (it is at least MIN_CHUNK_WORDS - 1 in
\* every category), and no drop meets another.
Lost == {s \in Range(All(page)) :
            \A c \in DOMAIN chunks : s \notin Range(chunks[c].heading \o chunks[c].text)}
LostPiecesAreShort ==
    \A i \in DOMAIN page :
        ~page[i].heading =>
            \A a, b \in DOMAIN page[i].lengths :
                (a <= b /\ \A j \in a..b : <<i, j>> \in Lost) =>
                    Words(page, SubSeq(Sentences(page, i), a, b)) < MIN_CHUNK_WORDS
=============================================================================
