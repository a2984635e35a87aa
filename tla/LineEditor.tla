------------------------------ MODULE LineEditor ------------------------------
(***************************************************************************)
(* The input line of the dashboard: TerminalUi's text and cursor, the      *)
(* editing keys, the history with its search, the list of slash commands   *)
(* and the completion of @files.  The position in a list is left out: any  *)
(* of its entries may be the selected one.  Aliases and the subcommands of *)
(* /compress are left out too, and the modes are TerminalInput's.          *)
(***************************************************************************)
EXTENDS Naturals, Sequences, SequencesExt

CONSTANTS Typable,    \* characters that are keys
          Commands,   \* names of slash commands
          Files,      \* paths in the workspace
          Pasted,     \* a text that is pasted
          Past,       \* what was entered before
          MaxText,    \* bound: a text that gets longer
          MaxSent     \* bound: submitted lines; nothing is written after the last

VARIABLES line,  \* text and cursor; history and where in it; search: it is searched;
                 \* listClosed, atClosed: Escape closed the list of commands, of files;
                 \* waiting: readInput waits for it
          sent   \* what #submit passed on
editor == <<line, sent>>

LineInit ==
    /\ line = [text |-> <<>>, cursor |-> 0, past |-> Past, index |-> Len(Past),
               search |-> FALSE, listClosed |-> FALSE, atClosed |-> FALSE,
               waiting |-> TRUE]
    /\ sent = <<>>

Space == {" ", "\n"}
Size == Len(line.text)
From(text, i) == SubSeq(text, i + 1, Len(text))
Put(l, text, cursor) == [l EXCEPT !.text = text, !.cursor = cursor]
\* The characters behind the first a up to the b-th become new, with the cursor behind them.
Splice(l, a, b, new) ==
    Put(l, SubSeq(l.text, 1, a) \o new \o From(l.text, b), a + Len(new))

(***************************************************************************)
(* Where the editing keys go.                                              *)
(***************************************************************************)
LineStart == Max({0} \cup {i \in 1..line.cursor : line.text[i] = "\n"})
LineEnd == Min({Size} \cup {i \in line.cursor..(Size - 1) : line.text[i + 1] = "\n"})
Back(l, from, over) == Min({i \in 0..from : \A k \in (i + 1)..from : l.text[k] \in over})
Ahead(from, over) == Max({i \in from..Size : \A k \in (from + 1)..i : line.text[k] \in over})
NoSpace(l) == Range(l.text) \ Space
WordLeft == Back(line, Back(line, line.cursor, {" "}), NoSpace(line))
WordRight == Ahead(Ahead(line.cursor, {" "}), NoSpace(line))

(***************************************************************************)
(* Slash commands and files.                                               *)
(***************************************************************************)
IsCommand == line.text # <<>> /\ line.text[1] = "/"
Trim(text) ==
    LET used == {i \in 1..Len(text) : text[i] \notin Space}
    IN  IF used = {} THEN <<>> ELSE SubSeq(text, Min(used), Max(used))
\* The word behind the slash, spaces before it skipped.
Token ==
    LET rest == Trim(Tail(line.text))
        ends == {i \in 1..Len(rest) : rest[i] \in Space}
    IN  IF ends = {} THEN rest ELSE SubSeq(rest, 1, Min(ends) - 1)
Occurs(s, t) == \E i \in 0..(Len(t) - Len(s)) : SubSeq(t, i + 1, i + Len(s)) = s
CommandMatches == {c \in Commands : Len(Token) <= Len(c) /\ Occurs(Token, c)}
\* The first word behind the slash ends the name, also when it is empty.
NameEnd == Ahead(1, NoSpace(line))
\* MUTANT: the text behind the name is dropped.
CompleteSlashOnly(c, space) == Put(line, <<"/">> \o c, 1 + Len(c))
CompleteSlashCommand(c, space) ==
    LET rest == From(line.text, NameEnd)
        text == <<"/">> \o c \o IF rest = <<>> /\ space THEN <<" ">> ELSE rest
    IN  Put(line, text, Len(text))
CommonPrefix == <<"/">> \o LongestCommonPrefix(CommandMatches)

AtStart(l) == Back(l, l.cursor, NoSpace(l))
AtToken(l) == AtStart(l) < Len(l.text) /\ l.text[AtStart(l) + 1] = "@"
AtMatches ==
    LET start == AtStart(line)
    IN  {f \in Files : \/ line.cursor <= start + 1
                       \/ Occurs(SubSeq(line.text, start + 2, line.cursor), f)}
HistoryMatches ==
    LET query == Trim(line.text)
    IN  {h \in Range(line.past) : Len(query) <= Len(h) /\ Occurs(query, h)}

-----------------------------------------------------------------------------
(* The keys, each where the handlers before it pass it on *)

Becomes(l) == line' = l /\ UNCHANGED sent
Grows == Size < MaxText /\ Len(sent) < MaxSent
Palette == IsCommand /\ ~line.listClosed
FileList == AtToken(line) /\ ~line.atClosed

\* handleLineEditKey: they work wherever a text is edited.
MoveKey == \E to \in {LineStart, LineEnd, WordLeft, WordRight} : Becomes([line EXCEPT !.cursor = to])
KillToStart == Becomes(Splice(line, LineStart, line.cursor, <<>>))
KillToEnd == Becomes(Splice(line, line.cursor, LineEnd, <<>>))
KillWord == Becomes(Splice(line, WordLeft, line.cursor, <<>>))
ToggleSearch == Becomes([line EXCEPT !.search = ~@])
ShiftEnter == Grows /\ Becomes(Splice(line, line.cursor, line.cursor, <<"\n">>))
Paste ==
    /\ Grows
    /\ Becomes([Splice(line, line.cursor, line.cursor, Pasted) EXCEPT !.listClosed = FALSE])

\* handleHistoryKey: Tab and Enter take the selected entry, if there is one.
TakeFromHistory ==
    /\ line.search
    /\ IF HistoryMatches = {} THEN Becomes([line EXCEPT !.search = FALSE])
       ELSE \E h \in HistoryMatches : Becomes([Put(line, h, Len(h)) EXCEPT !.search = FALSE])

\* handlePaletteKey.  Enter with a command that is exact goes on to submit.
Tab ==
    /\ ~line.search /\ Palette
    /\ \E c \in CommandMatches : Becomes(CompleteSlashCommand(c, TRUE))
PaletteEnter ==
    /\ ~line.search /\ Palette
    /\ \E c \in CommandMatches \ {Token} :
          Becomes(IF Len(CommonPrefix) > Size THEN Put(line, CommonPrefix, Len(CommonPrefix))
                  ELSE CompleteSlashCommand(c, FALSE))
\* The selected entry does not take Enter.
PalettePasses == Palette => (CommandMatches = {} \/ Token \in Commands)

\* handleAtKey, Tab or Enter: the list of commands does not take Tab without a selection.
TakeFile(enter) ==
    /\ Grows /\ ~line.search /\ FileList /\ (enter => PalettePasses) /\ (~enter => ~Palette)
    /\ \E f \in AtMatches : Becomes([Splice(line, AtStart(line), line.cursor, f \o <<" ">>)
                                     EXCEPT !.atClosed = FALSE])
Escape ==
    \/ line.search /\ Becomes([line EXCEPT !.search = FALSE])
    \/ ~line.search /\ Palette /\ Becomes([line EXCEPT !.listClosed = TRUE])
    \/ ~line.search /\ ~Palette /\ FileList /\ Becomes([line EXCEPT !.atClosed = TRUE])

Submit ==
    /\ ~line.search /\ PalettePasses /\ (FileList => AtMatches = {}) /\ Len(sent) < MaxSent
    /\ LET value == Trim(line.text)
       IN  /\ line' = [Put(line, <<>>, 0) EXCEPT
                          !.past = IF value = <<>> THEN @ ELSE Append(@, value),
                          !.waiting = FALSE, !.listClosed = FALSE]
           /\ sent' = Append(sent, value)
\* readInput without a queued line; the queue is TerminalInput's.
ReadInput ==
    /\ ~line.waiting
    /\ Becomes([line EXCEPT !.index = Len(line.past), !.search = FALSE, !.waiting = TRUE,
                            !.listClosed = FALSE, !.atClosed = FALSE])

\* editInput, and what the key handler does after it.  slashCommandToken: one space for many.
Words(l) ==
    LET keep == {i \in 2..Len(l.text) : l.text[i] \in Space =>
                                            i > 2 /\ l.text[i - 1] \notin Space}
        order == SelectSeq([i \in DOMAIN l.text |-> i], LAMBDA i : i \in keep)
    IN  IF l.text = <<>> \/ l.text[1] # "/" THEN <<>>
        ELSE [k \in DOMAIN order |-> IF l.text[order[k]] \in Space THEN " "
                                                             ELSE l.text[order[k]]]
Edited(l) ==
    Becomes([l EXCEPT !.listClosed = @ /\ Words(l) = Words(line),
                      !.atClosed = @ /\ AtToken(l)])
Backspace == line.cursor > 0 /\ Edited(Splice(line, line.cursor - 1, line.cursor, <<>>))
Delete == line.cursor < Size /\ Edited(Splice(line, line.cursor, line.cursor + 1, <<>>))
Arrow ==
    \E to \in {IF line.cursor > 0 THEN line.cursor - 1 ELSE 0, Min({Size, line.cursor + 1}), 0, Size} :
        Edited([line EXCEPT !.cursor = to])
Type(c) == Grows /\ Edited(Splice(line, line.cursor, line.cursor, <<c>>))
\* recallHistory; the lists take the arrow keys before it.
RecallHistory(up) ==
    /\ ~line.search /\ ~Palette /\ ~FileList /\ line.past # <<>>
    /\ LET index == IF up THEN (IF line.index > 0 THEN line.index - 1 ELSE 0)
                    ELSE Min({line.index + 1, Len(line.past)})
           text == IF index = Len(line.past) THEN <<>> ELSE line.past[index + 1]
       IN  Edited([Put(line, text, Len(text)) EXCEPT !.index = index])

LineNext ==
    \/ MoveKey \/ KillToStart \/ KillToEnd \/ KillWord \/ ToggleSearch \/ ShiftEnter
    \/ Paste \/ TakeFromHistory \/ Tab \/ PaletteEnter
    \/ TakeFile(TRUE) \/ TakeFile(FALSE) \/ Escape \/ Submit \/ ReadInput
    \/ Backspace \/ Delete \/ Arrow \/ RecallHistory(TRUE) \/ RecallHistory(FALSE)
    \/ \E c \in Typable : Type(c)
LineSpec == LineInit /\ [][LineNext]_editor
-----------------------------------------------------------------------------
(* Properties *)

Kept(a, b) ==
    /\ SubSeq(line'.text, 1, a) = SubSeq(line.text, 1, a)
    /\ Len(line'.text) >= a + Size - b
    /\ From(line'.text, Len(line'.text) - (Size - b)) = From(line.text, b)
\* A key changes the line the cursor stands on and the breaks next to it, a completion the
\* command's name: the rest of a draft stays - unless Enter submits it, whole and once, an
\* entry of the history or the empty line behind the last takes its place, or the common
\* beginning of the commands that match is longer than all that was typed.  The cursor
\* stays in the text.  (#onKeypress, #handleLineEditKey, #handlePaletteKey, #handleAtKey)
DraftIsKept ==
    /\ line'.cursor \in 0..Len(line'.text)
    /\ \/ sent' = Append(sent, Trim(line.text)) /\ line'.text = <<>>
       \/ sent' = sent /\ \/ line'.text \in Range(line.past)
                          \/ line'.index = Len(line.past) /\ line'.text = <<>>
                          \/ Kept(IF LineStart > 0 THEN LineStart - 1 ELSE 0, Min({Size, LineEnd + 1}))
                          \/ IsCommand /\ Kept(1, NameEnd)
                          \/ IsCommand /\ Len(CommonPrefix) > Size /\ line'.text = CommonPrefix
===============================================================================
