------------------------------ MODULE TextChanges ------------------------------
(***************************************************************************)
(* The pure text operations behind write_file and replace_text, over all   *)
(* short inputs: the literal replacement with what its approval shows of   *)
(* it, and the line diff the user sees before he agrees to write_file.     *)
(*                                                                         *)
(* A line of a file is what a preview shows of it, what is beyond          *)
(* MAX_SEARCH_LINE_CHARS ("" if nothing), and whether a \r stands at its   *)
(* end.  Of the characters of a replacement only the first are used.       *)
(***************************************************************************)
EXTENDS Naturals, Sequences, SequencesExt

CONSTANTS Lines,     \* what short lines say, and the characters of a replacement
          MaxBlock,  \* the characters of a block the approval of replace_text shows
          MaxLines   \* bound: the length of a text

VARIABLES input,    \* the texts, and what the operation was given besides
          shown     \* its result: is "nothing" before it has run
textwork == <<input, shown>>

Upto(n, set) == UNION {[1..m -> set] : m \in 1..n}
\* Texts of short lines that end in \n, and short texts of lines of every kind.
Texts == Upto(MaxLines, [says : Lines, beyond : {""}, cr : {FALSE}])
RoughTexts == Upto(2, [says : {CHOOSE l \in Lines : TRUE}, beyond : {"", "x", "y"}, cr : BOOLEAN])
Short == Upto(2, Lines)
TextInit ==
    /\ input \in [before : Texts, after : Texts, context : {1}, max : 1..2, coarse : BOOLEAN]
            \cup [before : RoughTexts, after : RoughTexts, context : {1}, max : 1..2,
                  coarse : BOOLEAN]
            \cup [content : Upto(MaxLines, Lines), old : Short, new : {<<l>> : l \in Lines} \cup {<<>>},
                  all : BOOLEAN]
    /\ shown = [is |-> "nothing"]

(***************************************************************************)
(* replace_text                                                            *)
(***************************************************************************)
OccursAt(s, t, i) == i + Len(t) <= Len(s) + 1 /\ SubSeq(s, i, i + Len(t) - 1) = t
\* indexOf from an offset, or 0.
IndexOf(s, t, from) ==
    LET at == {i \in from..Len(s) : OccursAt(s, t, i)} IN IF at = {} THEN 0 ELSE Min(at)
Past(t, i) == i + Len(t)
\* countOccurrences: the next is looked for behind the last.
CountFrom(s, t) ==
    LET count[i \in 1..(Len(s) + Len(t) + 1)] ==
            LET at == IndexOf(s, t, i) IN IF at = 0 THEN 0 ELSE 1 + count[Past(t, at)]
    IN  count[1]
\* replaceLiteral: result and offset, after n replacements.
ReplaceLiteral(s, t, new, maximum) ==
    LET done[n \in 0..maximum] ==
            IF n = 0 THEN [result |-> <<>>, offset |-> 1]
            ELSE LET before == done[n - 1]
                     at == IndexOf(s, t, before.offset)
                 IN  IF at = 0 THEN before
                     ELSE [result |-> before.result \o SubSeq(s, before.offset, at - 1) \o new,
                           offset |-> Past(t, at)]
    IN  done[maximum].result \o SubSeq(s, done[maximum].offset, Len(s))
\* What the approval shows: the beginning of a long block.
Truncate(block) == SubSeq(block, 1, Min({Len(block), MaxBlock}))
Replace ==
    /\ "content" \in DOMAIN input /\ shown.is = "nothing"
    /\ LET n == CountFrom(input.content, input.old) IN
       shown' = IF n = 0 \/ (~input.all /\ n # 1) THEN [is |-> "refused"]
                ELSE [is |-> "text", text |-> ReplaceLiteral(input.content, input.old, input.new, n),
                      replacements |-> n, removes |-> Truncate(input.old),
                      adds |-> Truncate(input.new)]
    /\ UNCHANGED input

(***************************************************************************)
(* changePreview and diffText                                              *)
(***************************************************************************)
\* split(/\r?\n/): a \r before a line end goes, one at the end of the text stays.
SplitLines(t) == [i \in DOMAIN t |-> [t[i] EXCEPT !.cr = @ /\ i = Len(t)]]
OneLineLimited(l) == IF l.beyond = "" THEN l ELSE [l EXCEPT !.beyond = "cut", !.cr = FALSE]

Op(type, text) == [type |-> type, text |-> text]
Ops(type, lines) == [i \in DOMAIN lines |-> Op(type, lines[i])]
\* Below the size limit the classic table, read from its beginning.
\* MUTANT: the table is read the wrong way round.
PrefersNew(table, r, c) == table[r, c] >= table[r + 1, c]
PrefersOld(table, r, c) == table[r + 1, c] >= table[r, c + 1]
LcsOperations(b, a) ==
    LET table[r \in 1..(Len(b) + 1), c \in 1..(Len(a) + 1)] ==
            IF r > Len(b) \/ c > Len(a) THEN 0
            ELSE IF b[r] = a[c] THEN table[r + 1, c + 1] + 1
            ELSE Max({table[r + 1, c], table[r, c + 1]})
        rest[r \in 1..(Len(b) + 1), c \in 1..(Len(a) + 1)] ==
            IF r > Len(b) THEN Ops("add", SubSeq(a, c, Len(a)))
            ELSE IF c > Len(a) THEN Ops("del", SubSeq(b, r, Len(b)))
            ELSE IF b[r] = a[c] THEN <<Op("ctx", b[r])>> \o rest[r + 1, c + 1]
            ELSE IF PrefersOld(table, r, c) THEN <<Op("del", b[r])>> \o rest[r + 1, c]
            ELSE <<Op("add", a[c])>> \o rest[r, c + 1]
    IN  rest[1, 1]
\* Above it the whole block goes out and comes in.
CoarseOperations(b, a) == Ops("del", b) \o Ops("add", a)

CommonPrefix(b, a) == Max({n \in 0..Min({Len(b), Len(a)}) : SubSeq(b, 1, n) = SubSeq(a, 1, n)})
Ending(s, n) == SubSeq(s, Len(s) - n + 1, Len(s))
CommonSuffix(b, a, start) ==
    Max({n \in 0..(Min({Len(b), Len(a)}) - start) : Ending(b, n) = Ending(a, n)})
ComputeDiffLines(b, a, coarse) ==
    LET start == CommonPrefix(b, a)
        end == CommonSuffix(b, a, start)
        mb == SubSeq(b, start + 1, Len(b) - end)
        ma == SubSeq(a, start + 1, Len(a) - end)
    IN  Ops("ctx", SubSeq(b, 1, start))
        \o (IF coarse THEN CoarseOperations(mb, ma) ELSE LcsOperations(mb, ma))
        \o Ops("ctx", Ending(b, end))

\* Old and new line numbers count what is not added, and what is not removed.
Counted(all, i, types) == Len(SelectSeq(SubSeq(all, 1, i), LAMBDA o : o.type \in types))
OldNumber(all, i) == Counted(all, i, {"ctx", "del"})
NewNumber(all, i) == Counted(all, i, {"ctx", "add"})
Changed(all) == {i \in DOMAIN all : all[i].type # "ctx"}
\* The first changes, and the context of each, whatever is there.
Keep(all, max, context) ==
    LET allowed == {i \in Changed(all) : Cardinality({j \in Changed(all) : j <= i}) <= max}
    IN  {k \in DOMAIN all : \E i \in allowed : k \in (i - context)..(i + context)}
\* formatUnifiedDiff: a hunk for each run of kept lines.
Hunks(all, kept) ==
    LET Start(i) == i \in kept /\ i - 1 \notin kept
        End(i) == Min({j \in kept : j >= i /\ j + 1 \notin kept})
        First(i, Number(_, _), types) ==
            LET at == {j \in i..End(i) : all[j].type \in types}
            IN  IF at = {} THEN 0 ELSE Number(all, Min(at))
    IN  {[from |-> i, to |-> End(i),
          oldStart |-> First(i, OldNumber, {"ctx", "del"}),
          newStart |-> First(i, NewNumber, {"ctx", "add"})] : i \in {k \in kept : Start(k)}}
Preview ==
    /\ "before" \in DOMAIN input /\ shown.is = "nothing"
    /\ LET all == ComputeDiffLines(SplitLines(input.before), SplitLines(input.after), input.coarse)
           kept == Keep(all, input.max, input.context)
       IN  shown' = IF input.before = input.after THEN [is |-> "unchanged"]
                    ELSE [is |-> "preview", all |-> all, kept |-> kept, hunks |-> Hunks(all, kept),
                          lines |-> [k \in kept |-> OneLineLimited(all[k].text)],
                          omitted |-> Cardinality(Changed(all) \ kept)]
    /\ UNCHANGED input

TextNext == Replace \/ Preview
TextSpec == TextInit /\ [][TextNext]_textwork
-----------------------------------------------------------------------------
(* Properties *)

Side(all, types) ==
    LET mine == SelectSeq(all, LAMBDA o : o.type \in types) IN [i \in DOMAIN mine |-> mine[i].text]
\* The reference: the length of a longest common subsequence, by trying all.
Sub(s, at) == LET order == SetToSortSeq(at, <) IN [i \in DOMAIN order |-> s[order[i]]]
Longest(b, a) ==
    Max({Cardinality(x) : x \in {y \in SUBSET DOMAIN b :
            \E z \in SUBSET DOMAIN a : Sub(b, y) = Sub(a, z)}})
\* Where a hunk begins: behind the lines of its side that come before it.
Begins(start, before, count) == start = IF count = 0 THEN before ELSE before + 1

\* Two texts with the same lines differ in line ends alone.
SameLines(b, a) ==
    /\ Len(b) = Len(a) /\ b[Len(b)] = a[Len(a)]
    /\ \A i \in DOMAIN b : b[i].says = a[i].says /\ b[i].beyond = a[i].beyond
\* What the user sees before he agrees to write_file is the change of lines: those taken away
\* and added lead from the old lines to the new ones, as few as possible unless the change is
\* too large for the table; each change is shown or counted as left out, and each hunk names
\* the lines at which it stands.  A change that shows none is one of line ends only, which a
\* preview never tells, and lines that differ look alike only if both are cut.
\* (changePreview, diffText, computeDiffLines, lcsOperations, formatUnifiedDiff)
PreviewIsTheChange ==
    shown.is = "preview" =>
        LET all == shown.all
            b == SplitLines(input.before)
            a == SplitLines(input.after)
        IN
        /\ Side(all, {"ctx", "del"}) = b /\ Side(all, {"ctx", "add"}) = a
        /\ input.coarse \/ Len(all) = Len(b) + Len(a) - Longest(b, a)
        /\ Changed(all) = {} <=> SameLines(input.before, input.after)
        /\ \A i, j \in shown.kept :
              shown.lines[i] = shown.lines[j] =>
                  \/ all[i].text = all[j].text
                  \/ all[i].text.beyond # "" /\ all[j].text.beyond # ""
        /\ shown.omitted + Cardinality(Changed(all) \cap shown.kept) = Cardinality(Changed(all))
        /\ \A h \in shown.hunks :
               /\ Begins(h.oldStart, OldNumber(all, h.from - 1),
                         OldNumber(all, h.to) - OldNumber(all, h.from - 1))
               /\ Begins(h.newStart, NewNumber(all, h.from - 1),
                         NewNumber(all, h.to) - NewNumber(all, h.from - 1))

\* What replace_text writes has the new text at every place of the old one - the only one,
\* unless it was asked to replace all - and everything else as it was; where occurrences
\* overlap only their number is certain.  Its approval shows the beginnings of both blocks,
\* whole ones if they are short, and no diff.  (countOccurrences, replaceLiteral, truncate)
Occurrences == {i \in DOMAIN input.content : OccursAt(input.content, input.old, i)}
Overlapping == \E i, j \in Occurrences : i < j /\ j < i + Len(input.old)
Expected ==
    FlattenSeq([i \in DOMAIN input.content |->
        IF i \in Occurrences THEN input.new
        ELSE IF \E j \in Occurrences : j < i /\ i < j + Len(input.old) THEN <<>>
        ELSE <<input.content[i]>>])
ReplacementIsLiteral ==
    shown.is = "text" =>
        /\ Len(shown.text) + (shown.replacements * Len(input.old))
               = Len(input.content) + (shown.replacements * Len(input.new))
        /\ \/ Overlapping
           \/ shown.text = Expected /\ (input.all \/ Cardinality(Occurrences) = 1)
        /\ IsPrefix(shown.removes, input.old) /\ IsPrefix(shown.adds, input.new)
        /\ Len(input.old) <= MaxBlock => shown.removes = input.old
===============================================================================
