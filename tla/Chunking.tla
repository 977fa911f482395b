------------------------------ MODULE Chunking ------------------------------
(***************************************************************************)
(* chunk_text of src/src/indexer.py: the generator that cuts the text of a *)
(* document into chunks for the embedding.  A text is its paragraphs, in   *)
(* sections that begin at headings; a paragraph is its length, a chunk the *)
(* pieces of paragraphs it joins.  The buffer is not flushed at a heading, *)
(* so sections leave no trace in the chunks.                               *)
(***************************************************************************)
EXTENDS Naturals, Sequences, FiniteSets

CONSTANTS
    MaxSize,        \* bound on CHUNK_SIZE
    MaxLen,         \* bound on the length of a paragraph
    MaxParas        \* bound on the paragraphs of a text

ASSUME ChunkingAssumption == {MaxSize, MaxLen, MaxParas} \subseteq Nat

VARIABLES
    text,           \* the lengths of the paragraphs
    size, overlap,  \* CHUNK_SIZE and CHUNK_OVERLAP
    para, offset,   \* where the generator is
    buf,            \* pieces not yet yielded
    out             \* chunks yielded

textVars == <<text, size, overlap, para, offset, buf, out>>

-----------------------------------------------------------------------------
Separator == 2                      \* "\n\n" between the pieces of a chunk
Texts     == UNION {[1 .. n -> 1 .. MaxLen] : n \in 0 .. MaxParas}

ChunkingInit ==
    /\ text \in Texts
    /\ size \in 0 .. MaxSize /\ overlap \in 0 .. MaxSize
    /\ para = 1 /\ offset = 0
    /\ buf = <<>> /\ out = <<>>

Piece(p, first, last) == [para |-> p, first |-> first, last |-> last]
PieceLen(x) == x.last - x.first + 1
Whole(p)    == Piece(p, 1, text[p])

(* The characters of a chunk, and the separators between its pieces. *)
Chars(chunk) == UNION {{j} \X (1 .. PieceLen(chunk[j])) : j \in DOMAIN chunk}
LenOf(chunk) == Cardinality(Chars(chunk)) + Separator * (IF chunk = <<>> THEN 0 ELSE Len(chunk) - 1)

Reading  == size > 0 /\ para <= Len(text)
Oversize == text[para] > size
\* Mutant: the overlap widens the step.
StrideWide == size + overlap

Stride   == IF size > overlap THEN size - overlap ELSE 1
Smaller(a, b) == IF a < b THEN a ELSE b
Yield(chunk)  == out' = Append(out, chunk)
\* Mutant: the separator is not counted.
FitsTight(p) == LenOf(buf) + text[p] <= size

Fits(p)       == LenOf(buf) + Separator + text[p] <= size

(* A chunk size of zero or less: the text is one chunk. *)
Unlimited ==
    /\ size = 0 /\ para <= Len(text)
    /\ Yield([p \in DOMAIN text |-> Whole(p)])
    /\ para' = Len(text) + 1
    /\ UNCHANGED <<text, size, overlap, offset, buf>>

(* Also an empty buffer has to leave room for a separator. *)
Join ==
    /\ Reading /\ ~Oversize /\ Fits(para)
    /\ buf' = Append(buf, Whole(para))
    /\ para' = para + 1
    /\ UNCHANGED <<text, size, overlap, offset, out>>

StartOver ==
    /\ Reading /\ ~Oversize /\ ~Fits(para)
    /\ IF buf # <<>> THEN Yield(buf) ELSE UNCHANGED out
    /\ buf' = <<Whole(para)>>
    /\ para' = para + 1
    /\ UNCHANGED <<text, size, overlap, offset>>

FlushBuf ==
    /\ Reading /\ Oversize /\ buf # <<>>
    /\ Yield(buf) /\ buf' = <<>>
    /\ UNCHANGED <<text, size, overlap, para, offset>>

Window ==
    /\ Reading /\ Oversize /\ buf = <<>>
    /\ Yield(<<Piece(para, offset + 1, Smaller(offset + size, text[para]))>>)
    /\ IF offset + Stride < text[para]
       THEN offset' = offset + Stride /\ UNCHANGED para
       ELSE offset' = 0 /\ para' = para + 1
    /\ UNCHANGED <<text, size, overlap, buf>>

LastBuf ==
    /\ para > Len(text) /\ buf # <<>>
    /\ Yield(buf) /\ buf' = <<>>
    /\ UNCHANGED <<text, size, overlap, para, offset>>

ChunkingNext == Unlimited \/ Join \/ StartOver \/ FlushBuf \/ Window \/ LastBuf

ChunkingSpec == ChunkingInit /\ [][ChunkingNext]_textVars

-----------------------------------------------------------------------------
(* Properties *)

(* The generator has ended. *)
Exhausted == para > Len(text) /\ buf = <<>>

(* No chunk is longer than the limit, for any overlap                      *)
(* (src/src/indexer.py:90-93).                                             *)
ChunksFit == size > 0 => \A i \in DOMAIN out : LenOf(out[i]) <= size

(* Every character of the text is in some chunk, and chunks keep the order *)
(* of the text (src/src/indexer.py:84-133).                                *)
NothingSkipped ==
    Exhausted =>
        /\ \A p \in DOMAIN text : \A k \in 1 .. text[p] :
            \E i \in DOMAIN out : \E j \in DOMAIN out[i] :
                out[i][j].para = p /\ out[i][j].first <= k /\ k <= out[i][j].last
        /\ \A i, j \in DOMAIN out : i < j =>
            LET a == out[i][1]  b == out[j][1] IN
            a.para < b.para \/ (a.para = b.para /\ a.first < b.first)

=============================================================================
