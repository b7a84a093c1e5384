----------------------------- MODULE SummaryStream -----------------------------
(***************************************************************************)
(* Showing the summary of a search while the model still writes            *)
(* (internal/agentsearch: ChatJSONStream, partialSummary,                  *)
(* partialJSONString, search).  The answer is one JSON object that comes   *)
(* in pieces, cut anywhere: inside a field, an escape, the two halves of a *)
(* surrogate pair.  After each piece the server reads what it has so far   *)
(* and shows the part of the summary that is certain.                      *)
(*                                                                         *)
(* An answer is a sequence of fields, each named once, as the prompt asks  *)
(* for.  The text of the summary is a sequence of units: a letter, a       *)
(* space, an escape, a pair of surrogates, or half a pair by itself, which *)
(* JSON allows and the decoder replaces by a mark.                         *)
(***************************************************************************)
EXTENDS Integers, SequencesExt

CONSTANTS
    Answers,            \* sequences of fields, each a name and a value
    Pieces,             \* how many symbols a piece may have
    SummaryLimit        \* the length a summary is cut to

VARIABLES
    answer,             \* what the model writes
    received,           \* how many symbols of it have come
    stream,             \* open, or how it ended
    shown,              \* the summaries shown, oldest first
    settled,            \* summaryDone
    result              \* what the search returns

streamVars == <<answer, received, stream, shown, settled, result>>

Names == {"relevant", "summary", "other"}
Units == {"a", " ", "escape", "pair", "half"}

IsAnswer(a) ==
    /\ a \in Seq(Range(a))
    /\ \A i \in DOMAIN a :
         /\ a[i].name \in Names
         /\ a[i].name = "relevant" => a[i].value \in BOOLEAN
         /\ a[i].name = "summary" => a[i].value \in Seq(Units)
    /\ \A i, j \in DOMAIN a : a[i].name = a[j].name => i = j \/ a[i].name = "other"

ASSUME StreamAssumption ==
    /\ \A a \in Answers : IsAnswer(a)
    /\ Pieces \subseteq Nat
    /\ SummaryLimit \in Nat

NoResult == [relevant |-> FALSE, summary |-> <<>>]

\* Symbols: an escape has two, a pair is two escapes.
Size(unit) == CASE unit = "escape" -> 2 [] unit = "pair" -> 4 [] unit = "half" -> 2 [] OTHER -> 1
TextSize(text) == FoldSeq(LAMBDA unit, size : Size(unit) + size, 0, text)

\* A field is its name and colon, its value, and the comma or brace behind it; a text has its
\* quotes.
NameSize == 1
ValueSize(f) == IF f.name = "summary" THEN TextSize(f.value) + 2 ELSE 1
FieldSize(f) == NameSize + ValueSize(f) + 1
AnswerSize(a) == 1 + FoldSeq(LAMBDA f, size : FieldSize(f) + size, 0, a)

\* Where field i begins, behind the opening brace.
StartOf(a, i) == AnswerSize(SubSeq(a, 1, i - 1))
ValueEnds(a, i) == StartOf(a, i) + NameSize + ValueSize(a[i])

-----------------------------------------------------------------------------
(* partialJSONString: the units that have come in full *)

\* Decode also what has come of a pair: its first half.
Whole_HalfPairs(text, n) ==
    LET ends == {k \in 0..Len(text) : TextSize(SubSeq(text, 1, k)) <= n}
        k == CHOOSE k \in ends : \A j \in ends : j <= k
        rest == n - TextSize(SubSeq(text, 1, k)) IN
    SubSeq(text, 1, k) \o IF k < Len(text) /\ text[k + 1] = "pair" /\ rest >= 2 THEN <<"half">>
                          ELSE <<>>
Whole(text, n) ==
    LET ends == {k \in 0..Len(text) : /\ TextSize(SubSeq(text, 1, k)) <= n
                                      /\ "half" \notin Range(SubSeq(text, 1, k))}
        k == CHOOSE k \in ends : \A j \in ends : j <= k IN
    SubSeq(text, 1, k)

\* Is the closing quote reached?  Half a pair stops the reading before it.
Closed(text, n) == n > TextSize(text) /\ "half" \notin Range(text)

(* partialSummary: the summary in the first n symbols, and whether it is final *)

Nothing == [text |-> <<>>, final |-> FALSE]

ReadInFull(a, n, name) ==
    {i \in DOMAIN a : a[i].name = name /\ ValueEnds(a, i) <= n}
SaidRelevant(a, n, i) ==
    \E j \in ReadInFull(a, n, "relevant") : j < i /\ a[j].value

PartialSummary(a, n) ==
    LET late == {i \in ReadInFull(a, n, "summary") :
                   /\ a[i].value # <<>>
                   /\ \E j \in ReadInFull(a, n, "relevant") : j > i /\ a[j].value}
        open == {i \in DOMAIN a : /\ a[i].name = "summary"
                                  /\ StartOf(a, i) + NameSize < n
                                  /\ SaidRelevant(a, n, i)} IN
    IF late # {} THEN [text |-> a[CHOOSE i \in late : TRUE].value, final |-> TRUE]
    ELSE IF open # {}
         THEN LET i == CHOOSE i \in open : TRUE
                  length == n - (StartOf(a, i) + NameSize) - 1 IN
              [text |-> Whole(a[i].value, length), final |-> Closed(a[i].value, length)]
    ELSE Nothing

\* TrimSpace, and truncateRunes.
Trimmed(text) ==
    LET solid == {i \in DOMAIN text : text[i] # " "} IN
    IF solid = {} THEN <<>> ELSE SubSeq(text, Min(solid), Max(solid))
Cut(text) == IF Len(text) <= SummaryLimit THEN text ELSE SubSeq(text, 1, SummaryLimit)
Presented(text) == Cut(Trimmed(text))

-----------------------------------------------------------------------------
(* ChatJSONStream *)

LastShown == IF shown = <<>> THEN <<>> ELSE Last(shown)

PieceComes(k) ==
    LET n == received + k
        summary == PartialSummary(answer, n)
        text == Presented(summary.text) IN
    /\ stream = "open"
    /\ n <= AnswerSize(answer)
    /\ received' = n
    /\ settled' = (settled \/ summary.final)
    /\ shown' = IF settled \/ text = <<>> \/ text = LastShown THEN shown ELSE Append(shown, text)
    /\ UNCHANGED <<answer, stream, result>>

\* The stream breaks, the gateway reports an error, or the browser is gone.
StreamFails ==
    /\ stream = "open"
    /\ stream' = "failed"
    /\ UNCHANGED <<answer, received, shown, settled, result>>

\* [DONE]: the answer is read as a whole; what is not relevant has no summary (search).
ValueOf(a, name, default) ==
    LET named == {i \in DOMAIN a : a[i].name = name} IN
    IF named = {} THEN default ELSE a[CHOOSE i \in named : TRUE].value

ResultOf(a) ==
    LET relevant == ValueOf(a, "relevant", FALSE) IN
    [relevant |-> relevant,
     summary |-> IF relevant THEN Presented(ValueOf(a, "summary", <<>>)) ELSE <<>>]

StreamEnds ==
    /\ stream = "open"
    /\ received = AnswerSize(answer)
    /\ stream' = "done"
    /\ result' = ResultOf(answer)
    /\ UNCHANGED <<answer, received, shown, settled>>

StreamInit ==
    /\ answer \in Answers
    /\ received = 0
    /\ stream = "open"
    /\ shown = <<>>
    /\ settled = FALSE
    /\ result = NoResult

StreamNext == (\E k \in Pieces : PieceComes(k)) \/ StreamFails \/ StreamEnds

StreamSpec == StreamInit /\ [][StreamNext]_streamVars

-----------------------------------------------------------------------------
(* What must hold *)

\* A reader sees a text that grows and is never taken back, wherever the pieces are cut: each
\* summary shown begins as the one before, and the result begins as the last one
\* (ChatJSONStream).
SummariesGrow ==
    /\ \A i \in 2..Len(shown) : IsStrictPrefix(shown[i - 1], shown[i])
    /\ stream = "done" /\ shown # <<>> => IsPrefix(Last(shown), result.summary)

\* Nothing is shown of an answer that is not relevant, in whatever order its fields come
\* (partialSummary).
OnlyRelevantIsShown ==
    shown # <<>> => \E i \in DOMAIN answer : answer[i].name = "relevant" /\ answer[i].value

HasHalf(a) == \E i \in DOMAIN a : a[i].name = "summary" /\ "half" \in Range(a[i].value)

\* Nothing is held back either: when the stream ends the whole summary has been shown, unless
\* half a pair stopped the reading (partialJSONString).
AllIsShown ==
    stream = "done" /\ ~HasHalf(answer) => LastShown = result.summary

SummariesAreTrue == SummariesGrow /\ OnlyRelevantIsShown /\ AllIsShown

=============================================================================
