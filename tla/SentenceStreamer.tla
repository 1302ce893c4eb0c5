-------------------------- MODULE SentenceStreamer --------------------------
(***************************************************************************)
(* The deltas of the model's answer are buffered and cut into pieces that  *)
(* can be spoken (voice/sentence_streamer.py).  A character is one of the  *)
(* kinds the cutting tells apart: a letter, a digit, a whole abbreviation  *)
(* ("Dr", "e.g"), a space (or tab), a line's end, a full stop, another end *)
(* of a sentence (! ?), and a mark between clauses (, ; : or a dash).      *)
(***************************************************************************)
EXTENDS Naturals, Sequences, SequencesExt

CONSTANTS Deltas,        \* what the model may answer next
          MaxText,       \* bound: characters pushed
          MinSentence,   \* min_sentence_chars
          MinClause, MinClauseWords,
          FirstWords,    \* first_chunk_words
          ShortSentence  \* words up to which a first sentence is kept whole (12)

VARIABLES
    text,      \* history: all that was pushed
    buf,       \* what waits to be spoken
    pieces,    \* history: what was emitted
    first      \* _first_emitted

vars == <<text, buf, pieces, first>>

Blank == {"space", "newline"}
Kinds == Blank \cup {"letter", "digit", "abbreviation", "stop", "mark", "clause"}

(* str.strip and str.lstrip of the characters from i on, up to j.          *)
Inked(s, i, j) == {k \in i .. j : s[k] \notin Blank}
Strip(s, i, j) == IF Inked(s, i, j) = {} THEN <<>>
                  ELSE SubSeq(s, Min(Inked(s, i, j)), Max(Inked(s, i, j)))
LStrip(s) == IF Inked(s, 1, Len(s)) = {} THEN <<>> ELSE SubSeq(s, Min(Inked(s, 1, Len(s))), Len(s))

(* Where the words of str.split() begin, within the first n characters.    *)
WordStarts(s, n) == {k \in 1 .. n : s[k] \notin Blank /\ (k = 1 \/ s[k - 1] \in Blank)}
WordEnd(s, k) == Max({j \in k .. Len(s) : \A i \in k .. j : s[i] \notin Blank})

(* The last of the spaces that follow position i.                          *)
PastSpaces(s, i) == Max({j \in i .. Len(s) : \A k \in (i + 1) .. j : s[k] = "space"})

-----------------------------------------------------------------------------
(* _is_boundary: a full stop counts before a blank or at the end of what   *)
(* there is, but not after an abbreviation, nor after a digit when more    *)
(* may come.                                                               *)
IsBoundary(s, i, flush) ==
    \/ s[i] \in {"newline", "mark"}
    \/ /\ s[i] = "stop"
       /\ i < Len(s) => s[i + 1] \in Blank
       /\ ~(i > 1 /\ s[i - 1] = "abbreviation" /\ (i > 2 => s[i - 2] \notin {"letter", "abbreviation", "stop"}))
       /\ ~(i = Len(s) /\ i > 1 /\ s[i - 1] = "digit" /\ ~flush)

Boundaries(s, flush) == {i \in DOMAIN s : IsBoundary(s, i, flush)}

(* _find_first_sentence_boundary, 0 if there is none.                      *)
SentenceEnd(s) ==
    IF Boundaries(s, FALSE) = {} THEN 0
    ELSE LET i == Min(Boundaries(s, FALSE))
         IN  IF s[i] = "newline" THEN i ELSE PastSpaces(s, i)

(* _find_first_clause_boundary                                             *)
ClauseEnds(s) ==
    {i \in DOMAIN s : /\ s[i] = "clause"
                      /\ i < Len(s) => s[i + 1] \in Blank
                      /\ Len(Strip(s, 1, i)) >= MinClause
                      /\ Cardinality(WordStarts(s, i)) >= MinClauseWords}

(* _find_delayed_word_boundary: the word that is still being written does  *)
(* not count.                                                              *)
Complete(s) == {k \in WordStarts(s, Len(s)) : WordEnd(s, k) < Len(s)}
WordEnds(s) ==
    {PastSpaces(s, WordEnd(s, k)) :
        k \in {k \in Complete(s) : Cardinality({j \in Complete(s) : j <= k}) = FirstWords}}

(* The first piece of an answer may end before its sentence does: _drain.  *)
EarlyEnds(s) ==
    LET e == SentenceEnd(s)
        before == {i \in 1 .. Len(s) : e = 0 \/ i < e}
    IN  IF e # 0 /\ Cardinality(WordStarts(s, e)) <= ShortSentence THEN {}
        ELSE IF ClauseEnds(s) # {} /\ Min(ClauseEnds(s)) \in before THEN {Min(ClauseEnds(s))}
        ELSE {i \in WordEnds(s) : i \in before /\ Strip(s, 1, i) # <<>>}

-----------------------------------------------------------------------------
(* The loop over the sentences: from[i] is what was emitted, or dropped as *)
(* blank, when it has passed character i; a sentence that is too short is  *)
(* spoken with the next.                                                   *)
Emitted(s, flush) ==
    LET least == IF first THEN MinSentence ELSE MinClause
        from[i \in 0 .. Len(s)] ==
            IF i = 0 THEN 0
            ELSE IF i \notin Boundaries(s, flush) THEN from[i - 1]
            ELSE LET piece == Strip(s, from[i - 1] + 1, PastSpaces(s, i))
                 IN  IF piece = <<>> \/ flush \/ Len(piece) >= least
                     THEN PastSpaces(s, i) ELSE from[i - 1]
    IN  from

Spoken(s, from) ==
    LET said[i \in 0 .. Len(s)] ==
            IF i = 0 THEN <<>>
            ELSE LET piece == Strip(s, from[i - 1] + 1, from[i])
                 IN  IF piece = <<>> THEN said[i - 1] ELSE Append(said[i - 1], piece)
    IN  said[Len(s)]

Rest_FromBoundary(s, from) == SubSeq(s, Max({0} \cup Boundaries(s, FALSE)) + 1, Len(s))

Rest(s, from) == SubSeq(s, from[Len(s)] + 1, Len(s))

Init ==
    /\ text = <<>> /\ buf = <<>> /\ pieces = <<>> /\ first = FALSE

PushChunk(delta) ==
    LET s == buf \o delta
    IN  /\ Len(text) + Len(delta) <= MaxText
        /\ text' = text \o delta
        /\ IF ~first /\ EarlyEnds(s) # {}
           THEN \E i \in EarlyEnds(s) :
                   /\ pieces' = Append(pieces, Strip(s, 1, i))
                   /\ buf' = LStrip(SubSeq(s, i + 1, Len(s)))
                   /\ first' = TRUE
           ELSE LET from == Emitted(s, FALSE)
                    said == Spoken(s, from)
                IN  /\ pieces' = pieces \o said
                    /\ buf' = Rest(s, from)
                    /\ first' = (first \/ said # <<>>)

Flush ==
    LET from == Emitted(buf, TRUE)
        rest == Strip(buf, from[Len(buf)] + 1, Len(buf))
    IN  /\ pieces' = pieces \o Spoken(buf, from) \o (IF rest = <<>> THEN <<>> ELSE <<rest>>)
        /\ buf' = <<>> /\ first' = FALSE
        /\ UNCHANGED text

(* For a new turn; what was not flushed is not said.                       *)
Reset ==
    /\ text' = <<>> /\ buf' = <<>> /\ pieces' = <<>> /\ first' = FALSE

Next == (\E d \in Deltas : PushChunk(d)) \/ Flush \/ Reset

Spec == Init /\ [][Next]_vars

-----------------------------------------------------------------------------
(* However the answer is cut into deltas, and these into pieces: a piece   *)
(* is as it is written, blanks within it and all, the next begins with     *)
(* what is not blank behind it, and only blanks are between the last and   *)
(* what waits to be spoken; so nothing is lost, said twice or out of       *)
(* order, and no piece is empty (push_chunk, flush).                       *)
NextInk(i) ==
    CHOOSE k \in i .. Len(text) + 1 :
       /\ k <= Len(text) => text[k] \notin Blank
       /\ \A j \in i .. k - 1 : text[j] \in Blank

SaidAsWritten ==
    LET ends[n \in 0 .. Len(pieces)] ==
            IF n = 0 THEN 0 ELSE NextInk(ends[n - 1] + 1) + Len(pieces[n]) - 1
        said == ends[Len(pieces)]
        passed == Len(text) - Len(buf)
    IN  /\ \A n \in DOMAIN pieces :
              LET end == ends[n]
              IN  /\ pieces[n] # <<>> /\ end <= Len(text)
                  /\ pieces[n] = SubSeq(text, end - Len(pieces[n]) + 1, end)
        /\ said <= passed /\ Inked(text, said + 1, passed) = {}
        /\ buf = SubSeq(text, passed + 1, Len(text))

(* What push_chunk emits is no fragment: it has the length of a clause or  *)
(* the words of a first piece.                                             *)
NoFragments ==
    \A i \in DOMAIN pieces' \ DOMAIN pieces :
       text' # text => \/ Len(pieces'[i]) >= MinClause
                       \/ Cardinality(WordStarts(pieces'[i], Len(pieces'[i]))) >= FirstWords

(* Both, in every step; there is nothing to say of the first state.         *)
SpokenWhole == [][SaidAsWritten' /\ NoFragments]_vars
=============================================================================
