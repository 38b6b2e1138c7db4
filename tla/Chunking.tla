------------------------------ MODULE Chunking ------------------------------
(***************************************************************************)
(* services/chunking_service.py.  A text is the sequence of the lengths, in  *)
(* tokens, of its sentences; a token is its position in the text.  Every     *)
(* chunk is a run of consecutive tokens, <<first, last>>: the overlap is     *)
(* taken from the end of what precedes it.                                   *)
(***************************************************************************)
EXTENDS Naturals, Sequences, SequencesExt

CONSTANTS
    MaxTokens,      \* max_tokens, 400 in the code
    OverlapTokens   \* overlap_tokens, 50 in the code

ASSUME OverlapAssumption == /\ MaxTokens \in Nat /\ OverlapTokens \in Nat
                            /\ OverlapTokens < MaxTokens

Least(a, b)    == IF a <= b THEN a ELSE b
Greatest(a, b) == IF a <= b THEN b ELSE a

\* acc: the chunks so far; current_tokens is first..pos (empty when first > pos).
Flush(acc) ==
    acc.chunks \o (IF acc.first > acc.pos THEN <<>> ELSE <<<<acc.first, acc.pos>>>>)

\* Windows of max_tokens over a sentence longer than that, each starting
\* max_tokens - overlap_tokens after the one before.
HardSplit(pos, n) ==
    LET step == MaxTokens - OverlapTokens
    IN [i \in 1 .. (n + step - 1) \div step |->
          LET first == pos + (i - 1) * step + 1
          IN <<first, Least(first + MaxTokens - 1, pos + n)>>]

Pack(acc, n) ==
    IF n > MaxTokens
    THEN [chunks |-> Flush(acc) \o HardSplit(acc.pos, n),
          first |-> acc.pos + n + 1, pos |-> acc.pos + n]
    ELSE IF acc.pos + 1 - acc.first + n > MaxTokens
    THEN [chunks |-> Flush(acc),
          first |-> Greatest(acc.first, acc.pos + 1 - OverlapTokens),
          pos |-> acc.pos + n]
    ELSE [acc EXCEPT !.pos = @ + n]

ChunkText(sentences) ==
    Flush(FoldLeft(Pack, [chunks |-> <<>>, first |-> 1, pos |-> 0], sentences))

TokenCount(sentences) == FoldLeft(+, 0, sentences)

-----------------------------------------------------------------------------
\* What the chunks of a text have to be: in order, none twice or more than an
\* overlap longer than max_tokens, and together all its tokens.  A chunk of at most
\* overlap_tokens may be contained in the next one, which starts with all of it.
WellChunked(sentences) ==
    LET chunks == ChunkText(sentences) IN
    /\ chunks \in Seq(Nat \X Nat)
    /\ \A i \in 1 .. Len(chunks) : chunks[i][2] - chunks[i][1] < MaxTokens + OverlapTokens
    /\ \A i, j \in 1 .. Len(chunks) :
          i < j => /\ chunks[i][1] <= chunks[j][1] /\ chunks[i][2] <= chunks[j][2]
                   /\ chunks[i] # chunks[j]
    /\ UNION {chunks[i][1] .. chunks[i][2] : i \in 1 .. Len(chunks)}
          = 1 .. TokenCount(sentences)
=============================================================================
