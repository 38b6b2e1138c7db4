---------------------------- MODULE MCPublishing ----------------------------
(* Small instances of CoursePublishing.                                    *)
EXTENDS CoursePublishing, TLC

CONSTANTS l1, l2, l3

\* Two sentences that overlap in the second chunk; a sentence longer than
\* max_tokens.
Overlapping == <<2, 2>>
HardSplitText == <<1, 4>>
SpecialToken == <<1>>
NulText == <<2>>
SpecialTexts == {SpecialToken}
NulTexts == {NulText}
SmallTexts == {Overlapping, HardSplitText, SpecialToken, NulText}

\* chunk_text on every text of at most four sentences, from one token to more
\* than max_tokens.
ASSUME ShortTextsAssumption ==
    \A n \in 0 .. 4 : \A t \in [1 .. n -> 1 .. MaxTokens + 2] : WellChunked(t)

\* A lesson that can be indexed, one whose page may give a special token, and one
\* whose file holds a NUL.
GoodAndBad == l1 :> "upload" @@ l2 :> "url" @@ l3 :> "upload"
Sources == l1 :> {Overlapping, HardSplitText} @@ l2 :> {SpecialToken} @@ l3 :> {NulText}

OneUpload == l1 :> "upload"
OneSource == l1 :> {Overlapping}
=============================================================================
