------------------------------ MODULE FileAnswers ------------------------------
(***************************************************************************)
(* What read_file, list_files and search_files tell the model, over all    *)
(* small workspaces: each cuts its answer at several places, and truncated *)
(* is how the model learns of it.  A line of text takes one unit of        *)
(* output; a file is the number of its place in the order of the paths.    *)
(***************************************************************************)
EXTENDS Naturals, SequencesExt, FiniteSetsExt

CONSTANTS MaxFiles,    \* bound: files in the workspace
          MaxLines,    \* bound: lines of a file
          PageLines,   \* lines read_file shows without lineEnd
          MaxResults,  \* MAX_GLOB_RESULTS and MAX_SEARCH_FILES
          MaxOutput,   \* MAX_TOOL_OUTPUT
          MaxLimit,    \* bound: the limit of a search
          HitSets      \* the lines of a file that match

VARIABLES request,  \* the tool, its arguments, and what it finds in the workspace
          reply     \* its answer: is "nothing" before it has run
answers == <<request, reply>>

\* Texts; the lines of a wide one are longer than MAX_SEARCH_LINE_CHARS.
Texts == {"plain", "wide"}
\* Texts deeper than MAX_GLOB_DEPTH, in a directory that cannot be read, larger than
\* MAX_SEARCH_FILE_BYTES, or themselves not to be read.
Passed == {"deep", "closed", "large", "unreadable"}
Kinds == Texts \cup Passed \cup {"ignored", "secret", "link", "binary"}
\* Of the files of other kinds it is enough that they have a line that matches.
Candidates == [kind : {"plain"}, hits : HitSets] \cup
              [kind : Kinds \ {"plain"}, hits : {{1}}]
UpTo(n, S) == UNION {[1..k -> S] : k \in 0..n}
Requests ==
    [is : {"read"}, total : 1..MaxLines, start : 0..MaxLines, end : 0..MaxLines]
    \cup [is : {"list"}, files : UpTo(MaxFiles, {"plain", "ignored", "link", "deep", "closed"}),
          respect : BOOLEAN, limit : 1..MaxFiles]
    \cup [is : {"search"}, files : UpTo(MaxFiles, Candidates), limit : 1..MaxLimit, context : 0..1,
          ripgrep : {"found", "missing", "fails"}]
AnswersInit == request \in Requests /\ reply = [is |-> "nothing"]

Answer(shown, truncated) ==
    reply' = [is |-> "answer", shown |-> shown, truncated |-> truncated] /\ UNCHANGED request
\* truncate: the beginning of what is too long.
Cut(s) == SubSeq(s, 1, Min({Len(s), MaxOutput}))
First(s, n) == SubSeq(s, 1, Min({Len(s), n}))
\* filter: the elements of s that are in keep, in their order.
Those(s, keep) ==
    LET kept[i \in 0..Len(s)] ==
            IF i = 0 THEN <<>>
            ELSE IF s[i] \in keep THEN Append(kept[i - 1], s[i]) ELSE kept[i - 1]
    IN  kept[Len(s)]
Numbers(n) == [i \in 1..n |-> i]

(***************************************************************************)
(* read_file; 0 is an argument that is not given.                          *)
(***************************************************************************)
ReadStart == Max({1, request.start})
ReadEnd ==
    Min({request.total,
         IF request.end > 0 THEN request.end ELSE Min({request.total, ReadStart + PageLines - 1})})
ReadFile ==
    /\ request.is = "read"
    /\ LET numbered == [i \in 1..(IF ReadEnd < ReadStart THEN 0 ELSE ReadEnd - ReadStart + 1) |->
                           ReadStart + i - 1]
       IN  Answer(Cut(numbered), ReadEnd < request.total \/ Len(numbered) > MaxOutput)

(***************************************************************************)
(* list_files: the paths in order, without those a link takes out of the   *)
(* workspace and those .gitignore names.  What is too deep, or in a        *)
(* directory that cannot be read, the glob does not find.                  *)
(***************************************************************************)
Globbed(files) ==
    Those(Numbers(Len(files)), {f \in DOMAIN files : files[f] \notin {"deep", "closed"}})
Inside(files) == First(Globbed(files), MaxResults)
ListKept ==
    Those(Inside(request.files),
          {f \in DOMAIN request.files : /\ request.files[f] # "link"
                                        /\ request.files[f] = "ignored" => ~request.respect})
ListFiles ==
    /\ request.is = "list"
    /\ Answer(First(ListKept, request.limit),
              Len(ListKept) > request.limit \/ Len(Inside(request.files)) > MaxResults)

(***************************************************************************)
(* search_files with the built-in searcher                                 *)
(***************************************************************************)
\* Secrets and ignored files are left out before the files are counted; what leads outside, is
\* binary, too large or cannot be read is passed over when it is its turn.
GlobbedTexts == Globbed([f \in DOMAIN request.files |-> request.files[f].kind])
Searched ==
    First(Those(GlobbedTexts,
                {f \in DOMAIN request.files : request.files[f].kind \notin {"secret", "ignored"}}),
          MaxResults)
Hits(f) == Those(Numbers(MaxLines), request.files[f].hits)
\* renderHits: the first hits the budget allows, with the lines around them; of what is wide,
\* oneLineLimited leaves the beginning.
RenderHits(f, budget, limited) ==
    LET shown == Range(First(Hits(f), budget))
        keep == {n \in 1..MaxLines : \E hit \in shown : n \in (hit - Min({hit, request.context}))..
                                                               (hit + request.context)}
        order == Those(Numbers(MaxLines), keep)
        whole == ~limited \/ request.files[f].kind # "wide"
    IN  [lines |-> [i \in DOMAIN order |-> [file |-> f, line |-> order[i], hit |-> order[i] \in shown,
                                            whole |-> whole]],
         shown |-> Cardinality(shown)]
NothingFound == [lines |-> <<>>, matchCount |-> 0, truncated |-> Len(GlobbedTexts) > MaxResults,
                 stopped |-> FALSE]
\* MUTANT: hits that are left out of a file are not told.
SearchQuietly(found, f) ==
    LET hits == RenderHits(f, request.limit - found.matchCount, TRUE)
    IN  IF found.stopped \/ found.matchCount >= request.limit
        THEN [found EXCEPT !.truncated = TRUE, !.stopped = TRUE]
        ELSE IF request.files[f].kind \notin Texts THEN found
        ELSE [found EXCEPT !.lines = @ \o hits.lines, !.matchCount = @ + hits.shown]
SearchFile(found, f) ==
    LET hits == RenderHits(f, request.limit - found.matchCount, TRUE)
    IN  IF found.stopped \/ found.matchCount >= request.limit \/ Len(found.lines) > 2 * MaxOutput
        THEN [found EXCEPT !.truncated = TRUE, !.stopped = TRUE]
        ELSE IF request.files[f].kind \notin Texts THEN found
        ELSE [found EXCEPT !.lines = @ \o hits.lines, !.matchCount = @ + hits.shown,
                           !.truncated = @ \/ hits.shown < Cardinality(request.files[f].hits)]
Found ==
    LET found[i \in 0..Len(Searched)] ==
            IF i = 0 THEN NothingFound ELSE SearchFile(found[i - 1], Searched[i])
    IN  found[Len(Searched)]
SearchWorkspaceText ==
    /\ request.is = "search" /\ request.ripgrep = "missing"
    /\ Answer(Cut(Found.lines), Found.truncated \/ Len(Found.lines) > MaxOutput)

(***************************************************************************)
(* search_files with ripgrep, which has a limit for each file and no word  *)
(* about it, and ends with an error where it cannot read; what the process *)
(* printed too much is left out of the model.                              *)
(***************************************************************************)
RipgrepFiles ==
    Those(Numbers(Len(request.files)),
          {f \in DOMAIN request.files : request.files[f].kind \in Texts \cup {"deep", "large", "secret"}})
CanReadAll == \A f \in DOMAIN request.files : request.files[f].kind \notin {"closed", "unreadable"}
RipgrepLines ==
    LET lines[i \in 0..Len(RipgrepFiles)] ==
            IF i = 0 THEN <<>>
            ELSE lines[i - 1] \o RenderHits(RipgrepFiles[i], request.limit, FALSE).lines
    IN  lines[Len(RipgrepFiles)]
RipgrepSearch ==
    /\ request.is = "search" /\ request.ripgrep = "found" /\ CanReadAll
    /\ Answer(Cut(RipgrepLines), Len(RipgrepLines) > MaxOutput)
RipgrepFails ==
    /\ request.is = "search"
    /\ \/ request.ripgrep = "fails"
       \/ request.ripgrep = "found" /\ ~CanReadAll
    /\ reply' = [is |-> "error"] /\ UNCHANGED request

AnswersNext ==
    /\ reply.is = "nothing"
    /\ ReadFile \/ ListFiles \/ SearchWorkspaceText \/ RipgrepSearch \/ RipgrepFails
AnswersSpec == AnswersInit /\ [][AnswersNext]_answers
-----------------------------------------------------------------------------
(* Properties *)

Asked ==
    CASE request.is = "read" -> ReadStart..request.total
      [] request.is = "list" -> {f \in DOMAIN request.files :
                                    /\ request.files[f] # "link"
                                    /\ request.files[f] = "ignored" => ~request.respect}
      [] request.is = "search" -> {h \in (DOMAIN request.files) \X (1..MaxLines) :
                                    /\ request.files[h[1]].kind \in Texts \cup Passed
                                    /\ h[2] \in request.files[h[1]].hits}
Told ==
    IF request.is = "search"
    THEN {<<l.file, l.line>> : l \in {reply.shown[i] : i \in {k \in DOMAIN reply.shown : reply.shown[k].hit}}}
    ELSE Range(reply.shown)
\* What is left out without a word: by a list, what the glob does not find, and any file when it
\* found more than the list looks through; by ripgrep, hits of a file that has more than the
\* limit; by the built-in searcher, whole files.
Untold ==
    CASE request.is = "read" -> {}
      [] request.is = "list" -> {f \in Asked : \/ request.files[f] \in {"deep", "closed"}
                                               \/ Len(Globbed(request.files)) > MaxResults}
      [] request.is = "search" -> {h \in Asked :
             IF request.ripgrep = "found" THEN Cardinality(request.files[h[1]].hits) > request.limit
             ELSE request.files[h[1]].kind \in Passed}
\* An answer that is not marked as truncated has all that was asked for but what Untold names,
\* and no answer has a line, a file or a hit that is not there; the built-in searcher shows no
\* more hits than the limit, and only of lines that are too long not the whole.
\* (read_file, list_files, search_files, searchWorkspaceText, renderHits)
CutIsTold ==
    reply.is = "answer" =>
        /\ reply.truncated \/ Asked \ Untold \subseteq Told
        /\ request.is # "search" => Told \subseteq Asked
        /\ request.is = "search" =>
              \A i \in DOMAIN reply.shown :
                  reply.shown[i].whole \/ request.files[reply.shown[i].file].kind = "wide"
        /\ request.is = "search" /\ request.ripgrep = "missing" =>
              Told \subseteq Asked /\ Cardinality(Told) <= request.limit
===============================================================================
