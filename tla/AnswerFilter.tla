------------------------------ MODULE AnswerFilter ------------------------------
(***************************************************************************)
(* SuggestedReplyStreamFilter: the answer arrives in chunks of any size,   *)
(* the blocks with suggested replies are taken out of it, and what is left *)
(* goes to the screen at once.  The opening marker is <s>, the closing one *)
(* <x>; letter case is left out, except for the letter whose lower case is *)
(* longer than itself.                                                     *)
(***************************************************************************)
EXTENDS Naturals, SequencesExt

CONSTANT MaxPieces  \* bound: the pieces an answer is made of

VARIABLES answer,  \* the whole answer, how much of it has arrived, and whether it has ended
          filter   \* state, buffer, visibleText, pendingWhitespace, blockRemoved, blocks; and
                   \* as history the concatenation of what push and finish returned
answering == <<answer, filter>>

Open == <<"<", "s", ">">>
Close == <<"<", "x", ">">>
Space == " "
Newline == "nl"
Wide == "I"           \* a letter with two characters in lower case
Pieces == {Open, Close, <<"s">>, <<Space>>, <<"<">>, <<Wide>>}
FilterInit ==
    /\ answer \in [text : {FlattenSeq(p) : p \in BoundedSeq(Pieces, MaxPieces)},
                   arrived : {0}, ended : {FALSE}]
    /\ filter = [state |-> "text", buffer |-> <<>>, visible |-> <<>>, pending |-> <<>>,
                 removed |-> FALSE, blocks |-> <<>>, emitted |-> <<>>]

\* slice, which stops at the end.
Upto(s, j) == SubSeq(s, 1, Min({j, Len(s)}))
From(s, i) == SubSeq(s, i, Len(s))
At(s, t, i) == i + Len(t) <= Len(s) + 1 /\ SubSeq(s, i, i + Len(t) - 1) = t
FirstAt(s, t, from) ==
    LET at == {i \in from..Len(s) : At(s, t, i)} IN IF at = {} THEN 0 ELSE Min(at)
\* indexOfCaseInsensitive: the place in the text in lower case.
Lower(s) == FlattenSeq([i \in DOMAIN s |-> IF s[i] = Wide THEN <<"i", "dot">> ELSE <<s[i]>>])
IndexOf(s, t) == FirstAt(Lower(s), t, 1)
\* partialMarkerLength: the longest end that could begin a marker.
MarkerPrefix(s) == Len(s) < Len(Open) /\ SubSeq(Open, 1, Len(s)) = s
\* MUTANT: nothing is held back.
PartialNone(s) == 0
Partial(s) ==
    Max({n \in 0..Min({Len(s), Len(Open) - 1}) : MarkerPrefix(From(s, Len(s) - n + 1))})

\* #emit: whitespace waits for the word after it, and gives way to a newline where a block was.
EmitOne(f, c) ==
    IF c = Space THEN [f EXCEPT !.pending = Append(@, c)]
    ELSE LET prefix == IF f.visible = <<>> THEN <<>>
                       ELSE IF f.removed THEN <<Newline>> ELSE f.pending
         IN  [f EXCEPT !.pending = <<>>, !.removed = FALSE,
                       !.visible = @ \o prefix \o <<c>>, !.emitted = @ \o prefix \o <<c>>]
Emit(f, chunk) == FoldLeft(EmitOne, f, chunk)

\* One turn of the loop in push; it ends when the buffer has no marker any more.
HasMarker(f) == IndexOf(f.buffer, IF f.state = "block" THEN Close ELSE Open) # 0
Turn(f) ==
    IF f.state = "block"
    THEN LET close == IndexOf(f.buffer, Close) IN
         [f EXCEPT !.blocks = Append(@, Upto(f.buffer, close - 1)),
                   !.buffer = From(@, close + Len(Close)), !.state = "text", !.removed = TRUE]
    ELSE LET open == IndexOf(f.buffer, Open) IN
         [Emit(f, Upto(f.buffer, open - 1)) EXCEPT
             !.buffer = From(f.buffer, open + Len(Open)), !.state = "block"]
Retain(f) ==
    IF f.state = "block" THEN f
    ELSE LET shown == Len(f.buffer) - Partial(f.buffer) IN
         [Emit(f, Upto(f.buffer, shown)) EXCEPT !.buffer = From(f.buffer, shown + 1)]
Pushed(f) ==
    LET most == Len(f.buffer) \div Len(Open)
        turns[n \in 0..most] ==
            IF n = 0 THEN f
            ELSE IF HasMarker(turns[n - 1]) THEN Turn(turns[n - 1]) ELSE turns[n - 1]
    IN  Retain(turns[most])
Push(n) ==
    /\ ~answer.ended /\ answer.arrived + n <= Len(answer.text)
    /\ filter' = Pushed([filter EXCEPT !.buffer =
                     @ \o SubSeq(answer.text, answer.arrived + 1, answer.arrived + n)])
    /\ answer' = [answer EXCEPT !.arrived = @ + n]
\* finish: an open block, and an opening marker that has begun, are dropped.
Finish ==
    /\ ~answer.ended /\ answer.arrived = Len(answer.text)
    /\ LET dropped == \/ filter.state = "block"
                      \/ Len(filter.buffer) >= 2 /\ MarkerPrefix(filter.buffer)
       IN  filter' = [(IF dropped THEN filter ELSE Emit(filter, filter.buffer))
                         EXCEPT !.buffer = <<>>]
    /\ answer' = [answer EXCEPT !.ended = TRUE]

FilterNext == Finish \/ \E n \in 1..(Len(answer.text) - answer.arrived) : Push(n)
FilterSpec == FilterInit /\ [][FilterNext]_answering
-----------------------------------------------------------------------------
(* Properties *)

\* The reference, on the whole answer: what is taken out, ...
Taken(t) ==
    LET from[i \in 1..(Len(t) + Len(Close))] ==
            IF i > Len(t) THEN {}
            ELSE IF At(t, Open, i)
                 THEN LET close == FirstAt(t, Close, i + Len(Open)) IN
                      IF close = 0 THEN {<<i, Len(t)>>}
                      ELSE {<<i, close + Len(Close) - 1>>} \cup from[close + Len(Close)]
            ELSE IF i + 1 = Len(t) /\ At(t, SubSeq(Open, 1, 2), i) THEN {<<i, Len(t)>>}
            ELSE from[i + 1]
    IN  from[1]
\* ... and what is left, with a newline where a block was and no whitespace at either end.
Left(t) ==
    LET out == UNION {b[1]..b[2] : b \in Taken(t)}
        words == {i \in DOMAIN t \ out : t[i] # Space}
        Before(i) == {j \in words : j < i}
        Prefix(i) == IF Before(i) = {} THEN <<>>
                     ELSE IF \E k \in out : k > Max(Before(i)) /\ k < i THEN <<Newline>>
                     ELSE SubSeq(t, Max(Before(i)) + 1, i - 1)
    IN  FlattenSeq([i \in DOMAIN t |-> IF i \in words THEN Prefix(i) \o <<t[i]>> ELSE <<>>])

\* However the answer was cut into chunks, what has been shown is what is kept, and in the end
\* it is the answer without its blocks; nothing is shown that a marker would take back.  With
\* the long letter before a marker the place of the marker is missed.
\* (SuggestedReplyStreamFilter)
AnswerIsWhatIsLeft ==
    /\ filter.emitted = filter.visible
    /\ \/ Contains(answer.text, Wide)
       \/ IF answer.ended THEN filter.visible = Left(answer.text)
                          ELSE IsPrefix(filter.visible, Left(answer.text))
===============================================================================
