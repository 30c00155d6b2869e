-------------------------- MODULE DocumentChunking --------------------------
(***************************************************************************)
(* How the text of a research document is cut into chunks: lines become    *)
(* sections under their headings, short neighbours are merged, long ones   *)
(* are cut at sentence ends with an overlap.  A document grows by a line   *)
(* at a time; what is promised holds of every document on the way.         *)
(***************************************************************************)
EXTENDS Naturals, FiniteSets, Sequences, FiniteSetsExt

CONSTANTS
  Lines,      \* what a line can be, see LineType
  TargetTokens, HardMaxTokens, OverlapTokens,
  MaxLines    \* bound: lines of a document

\* what a line says, its tokens (ASCII words, ideographs and marks: a line of
\* another alphabet, or of underscores, has none), those that end a sentence,
\* whether it is marked as a heading, short enough for one, site furniture or
\* a page marker, and whether a blank line comes before it
LineType == [text : STRING, tokens : Nat, ends : SUBSET Nat, marked : BOOLEAN,
             brief : BOOLEAN, boilerplate : BOOLEAN, page : Nat, gap : BOOLEAN]

ConfigFits ==
  /\ 0 < TargetTokens /\ TargetTokens <= HardMaxTokens
  /\ TargetTokens \in Nat /\ HardMaxTokens \in Nat
  /\ OverlapTokens \in Nat /\ OverlapTokens < TargetTokens

ASSUME ChunkingAssumption == Lines \subseteq LineType /\ ConfigFits

VARIABLE document  \* a sequence of lines

-----------------------------------------------------------------------------
(* Tokens are numbered through the document *)

\* The number of tokens of the first i lines.
Upto ==
  LET n[i \in 0..Len(document)] == IF i = 0 THEN 0 ELSE n[i-1] + document[i].tokens
  IN n

Tokens(from, to) == Upto[to] - Upto[from-1]
TokensOf(i) == (Upto[i-1] + 1)..Upto[i]

-----------------------------------------------------------------------------
(* Sections: runs of lines, each under one heading *)

Marker(i) == document[i].page # 0
Repeated(i) ==
  /\ document[i].tokens >= 3
  /\ \E j \in 1..(i - 1) : /\ document[j].text = document[i].text
                           /\ ~Marker(j) /\ ~document[j].boilerplate
Skipped(i) == Marker(i) \/ document[i].boilerplate \/ Repeated(i)

\* A first line is taken for a title (one of up to 100 characters, as every
\* line here), a short line without a full stop for a heading.
Heading(i) == document[i].marked \/ i = 1 \/ document[i].brief

Kept == {i \in DOMAIN document : ~Skipped(i)}
Starts == {i \in Kept : Heading(i) \/ i - 1 \notin Kept}
PageAt(i) == LET markers == {j \in 1..i : Marker(j)}
             IN IF markers = {} THEN 0 ELSE document[Max(markers)].page

\* The last line of the section that starts at line i.
LastOf(i) == Max({j \in Kept : j >= i /\ i..j \subseteq Kept /\ (i+1)..j \cap Starts = {}})

-----------------------------------------------------------------------------
(* Merging *)

\* The section that starts at line i goes on with the one from line f.
\* (a mistake: what was left out between the two is not looked at)
MergeableAcross(f, i) ==
  f # 0 /\ PageAt(f) = PageAt(i) /\ Tokens(f, LastOf(i)) <= TargetTokens

Mergeable(f, i) ==
  /\ f # 0 /\ i - 1 \in Kept
  /\ PageAt(f) = PageAt(i) /\ Tokens(f, LastOf(i)) <= TargetTokens

\* Where the section begins that is the last one after line i, 0 for none.
LastBegins ==
  LET last[i \in 0..Len(document)] ==
        IF i = 0 THEN 0
        ELSE IF i \in Starts /\ ~Mergeable(last[i-1], i) THEN i ELSE last[i-1]
  IN last

Sections ==
  {[from |-> f, to |-> Max({i \in Kept : LastBegins[i] = f})] : f \in {LastBegins[i] : i \in Kept}}

-----------------------------------------------------------------------------
(* Cutting: a place in a section is the number of its tokens before it *)

Length(s) == Tokens(s.from, s.to)

\* The places after a sentence end, before an empty line, and the end.
SentenceEnds(s) ==
  LET place(i, k) == Tokens(s.from, i - 1) + k
  IN {Length(s)} \union
     {p \in 1..(Length(s) - 1) : \E i \in s.from..s.to :
        \/ \E k \in document[i].ends : k \in 1..document[i].tokens /\ p = place(i, k)
        \/ document[i].gap /\ p = place(i, 0)}

EndIndex(ends, start, target, hard) ==
  LET after == {k \in ends : target <= k /\ k <= hard}
      before == {k \in ends : start < k /\ k < target}
  IN IF after # {} THEN Min(after) ELSE IF before # {} THEN Max(before) ELSE hard

OverlapStart(ends, start, end) ==
  IF OverlapTokens = 0 THEN end
  ELSE LET desired == Max({start + 1, IF end > OverlapTokens THEN end - OverlapTokens ELSE 0})
           starts == {k \in ({0} \union ends) \ {Max(ends)} : desired <= k /\ k < end}
       IN Max({start + 1, IF starts = {} THEN desired ELSE Min(starts)})

\* Where a slice that starts at a place ends, and the next one starts.
HardEnd(s, start) == Min({start + HardMaxTokens, Length(s)})
EndOf(s, start) ==
  LET hard == HardEnd(s, start)
  IN  EndIndex(SentenceEnds(s), start, Min({start + TargetTokens, hard}), hard)
NextStart(s, start) ==
  IF EndOf(s, start) >= Length(s) THEN start
  ELSE OverlapStart(SentenceEnds(s), start, EndOf(s, start))

\* Where the slices of a long section start, from the last on again and again.
SliceStarts(s) ==
  LET start[k \in 0..Length(s)] == IF k = 0 THEN 0 ELSE NextStart(s, start[k-1])
  IN start

Slice(from, to, overlap) == [from |-> from, to |-> to, overlap |-> overlap]

Slices(s) ==
  IF Length(s) <= HardMaxTokens THEN {Slice(0, Length(s), 0)}
  ELSE LET start == SliceStarts(s)
       IN {Slice(0, EndOf(s, 0), 0)} \union
          {Slice(start[k], EndOf(s, start[k]), EndOf(s, start[k-1]) - start[k]) :
             k \in {n \in 1..Length(s) : EndOf(s, start[n-1]) < Length(s)}}

\* What is planned, unless a chunk is without a token: that is an error, as
\* is a document without chunks.
Chunks ==
  LET planned == UNION {{[section |-> s, slice |-> slice] : slice \in Slices(s)} : s \in Sections}
  IN  IF \E c \in planned : c.slice.to = c.slice.from THEN {} ELSE planned
Refused == Chunks = {}

\* The tokens a chunk holds.
Holds(chunk) ==
  LET before == Upto[chunk.section.from - 1]
  IN (before + chunk.slice.from + 1)..(before + chunk.slice.to)

-----------------------------------------------------------------------------
ChunkingInit == document = <<>>
Grow == Len(document) < MaxLines /\ \E l \in Lines : document' = Append(document, l)
ChunkingSpec == ChunkingInit /\ [][Grow]_document

-----------------------------------------------------------------------------
(* Properties *)

\* No chunk is longer than the hard limit, and one that is not the last of
\* its section is followed by one that starts later, with no more than the
\* configured overlap between the two.
ChunksFit ==
  \A c \in Chunks :
    LET slice == c.slice IN
    /\ slice.to - slice.from \in 1..HardMaxTokens
    /\ slice.overlap \in 0..OverlapTokens
    /\ slice.to < Length(c.section) =>
         \E next \in Slices(c.section) :
           slice.from < next.from /\ next.from = slice.to - next.overlap

\* Unless the document is refused, every token of the lines that are kept is
\* in a chunk; none of a line that is left out is, and no chunk takes text of
\* two pages.
NothingIsLost ==
  LET chunks == Chunks IN
  /\ chunks = {} \/ UNION {Holds(c) : c \in chunks} = UNION {TokensOf(i) : i \in Kept}
  /\ \A c \in chunks : \A i, j \in Kept :
       Holds(c) \cap TokensOf(i) # {} /\ Holds(c) \cap TokensOf(j) # {} => PageAt(i) = PageAt(j)

\* A document is refused only if it keeps nothing, or for a section without a
\* token that nothing could take in: what it touches on either side, if
\* anything, is a section too long to be merged.
RefusedForCause ==
  Refused => \/ Kept = {}
             \/ \E s \in Sections :
                  /\ Length(s) = 0
                  /\ \A t \in Sections :
                       t.to + 1 = s.from \/ s.to + 1 = t.from => Length(t) > TargetTokens

\* All three: chunks fit, together they are the document, and a document is
\* without them only for a reason.
ChunksAreWhole == ChunksFit /\ NothingIsLost /\ RefusedForCause
=============================================================================
