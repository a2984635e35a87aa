-------------------------------- MODULE MCParts --------------------------------
(***************************************************************************)
(* Twelve small parts of orcode that do not touch each other, checked one  *)
(* at a time: part says which, its variables are the first of s1 to s6,    *)
(* and the others stay 0.  Parts with theorems have their constants here,  *)
(* the others their sizes.                                                 *)
(***************************************************************************)
EXTENDS Naturals, FiniteSets, Sequences

CONSTANTS MaxRecordings,                      \* Recorder
          Starts,                             \* LegacyImport
          Programs, MaxEdits,                 \* ConfigFile
          MaxOutput, MaxWritten, MaxCommands, \* ShellCommand
          Instances, Days, Members,           \* Spending
          MaxRunCost, DailyLimit, MaxPaid,
          CutFiles, CutCalls, CutMishaps,     \* CutRun
          ImageFiles, MaxImages, MaxBytes,    \* ImageSet
          MaxTotal, MaxChanges, MaxSends,
          LineLetters, LineKeys,              \* LineEditor: the characters, those that are keys
          LineCommands, LineFiles, LinePasted, LinePast, MaxDraft, MaxEntered,
          AnswerFiles, AnswerLines, AnswerHits, \* FileAnswers
          PageLines, MaxResults, AnswerOutput, MaxLimit

ASSUME PartsAssumption == MaxRecordings \in Nat /\ MaxOutput \in Nat /\ CutCalls \in Nat
ASSUME ImagesAssumption ==
    MaxImages \in Nat /\ MaxBytes \in Nat \ {0} /\ MaxTotal \in Nat /\ MaxSends \in Nat
ASSUME LineAssumption ==
    /\ LineKeys \cup {" ", "\n", "/"} \subseteq LineLetters
    /\ LineCommands \subseteq Seq(LineLetters) /\ LineFiles \subseteq Seq(LineLetters)
    /\ LinePasted \in Seq(LineLetters) /\ LinePast \in Seq(Seq(LineLetters))
ASSUME AnswersAssumption ==
    /\ AnswerFiles \in Nat /\ AnswerLines \in Nat \ {0} /\ AnswerHits \subseteq SUBSET (1..AnswerLines)
    /\ PageLines \in Nat /\ MaxResults \in Nat /\ AnswerOutput \in Nat /\ MaxLimit \in Nat
\* A limit is at least 0.01 (optionalLimit); the first day is day 1.
ASSUME BudgetAssumption ==
    /\ IsFiniteSet(Instances) /\ IsFiniteSet(Days) /\ Days \subseteq Nat /\ 1 \in Days
    /\ MaxRunCost \in Nat /\ DailyLimit \in Nat \ {0}

VARIABLES part, s1, s2, s3, s4, s5, s6

Voice == INSTANCE Recorder WITH capture <- s1, recs <- s2
Budget == INSTANCE Spending WITH
    files <- s1, open <- s2, work <- s3, today <- s4, history <- s5
Browser == INSTANCE BrowserCheck WITH body <- s1, socket <- s2, process <- s3, outcome <- s4
Shell == INSTANCE ShellCommand WITH
    Commands <- MaxCommands, caller <- s1, group <- s2, output <- s3
Text == INSTANCE TextChanges WITH Lines <- {"a", "b"}, MaxBlock <- 1, MaxLines <- 4,
    input <- s1, shown <- s2
Filter == INSTANCE AnswerFilter WITH MaxPieces <- 5, answer <- s1, filter <- s2
Config == INSTANCE ConfigFile WITH config <- s1, backup <- s2, prog <- s3, past <- s4
Legacy == INSTANCE LegacyImport WITH
    old <- s1, marker <- s2, chat <- s3, start <- s4, past <- s5
Cut == INSTANCE CutRun WITH
    Paths <- CutFiles, MaxCalls <- CutCalls, MaxMishaps <- CutMishaps,
    calls <- s1, lines <- s2, journal <- s3, files <- s4, report <- s5, mishaps <- s6

Line == INSTANCE LineEditor WITH
    Typable <- LineKeys, Commands <- LineCommands, Files <- LineFiles, Pasted <- LinePasted,
    Past <- LinePast, MaxText <- MaxDraft, MaxSent <- MaxEntered, line <- s1, sent <- s2
\* The values of a run, for the .cfg.
SomeKeys == {"a", "/", "@"}
SomeLetters == SomeKeys \cup {" ", "\n"}
SomeCommands == {<<"a", "a">>, <<"a", "a", "a">>}
SomeFiles == {<<"a">>}
SomePasted == <<" ">>
SomePast == <<<<"a">>, <<"/", "a">>>>

Answers == INSTANCE FileAnswers WITH
    MaxFiles <- AnswerFiles, MaxLines <- AnswerLines, MaxOutput <- AnswerOutput,
    HitSets <- AnswerHits, request <- s1, reply <- s2

Images == INSTANCE ImageSet WITH
    Paths <- ImageFiles, disk <- s1, pending <- s2, gate <- s3, sent <- s4

From3 == s3 = 0 /\ s4 = 0 /\ s5 = 0 /\ s6 = 0
From5 == s5 = 0 /\ s6 = 0
PartsInit ==
    \/ part = "voice" /\ Voice!VoiceInit /\ From3
    \/ part = "budget" /\ Budget!SpendingInit /\ s6 = 0
    \/ part = "browser" /\ Browser!BrowserInit /\ From5
    \/ part = "shell" /\ Shell!ShellInit /\ s4 = 0 /\ From5
    \/ part = "text" /\ Text!TextInit /\ From3
    \/ part = "filter" /\ Filter!FilterInit /\ From3
    \/ part = "config" /\ Config!ConfigInit /\ From5
    \/ part = "legacy" /\ Legacy!LegacyInit /\ s6 = 0
    \/ part = "cut" /\ Cut!CutInit
    \/ part = "line" /\ Line!LineInit /\ From3
    \/ part = "images" /\ Images!ImagesInit /\ From5
    \/ part = "answers" /\ Answers!AnswersInit /\ From3

Rest3 == UNCHANGED <<s3, s4, s5, s6>>
Rest5 == UNCHANGED <<s5, s6>>
PartsNext ==
    /\ UNCHANGED part
    /\ \/ part = "voice" /\ Voice!VoiceNext /\ Rest3
       \/ part = "budget" /\ Budget!SpendingNext /\ UNCHANGED s6
       \/ part = "browser" /\ Browser!BrowserNext /\ Rest5
       \/ part = "shell" /\ Shell!ShellNext /\ UNCHANGED s4 /\ Rest5
       \/ part = "text" /\ Text!TextNext /\ Rest3
       \/ part = "filter" /\ Filter!FilterNext /\ Rest3
       \/ part = "config" /\ Config!ConfigNext /\ Rest5
       \/ part = "legacy" /\ Legacy!LegacyNext /\ UNCHANGED s6
       \/ part = "cut" /\ Cut!CutNext
       \/ part = "line" /\ Line!LineNext /\ Rest3
       \/ part = "images" /\ Images!ImagesNext /\ Rest5
       \/ part = "answers" /\ Answers!AnswersNext /\ Rest3
partsVars == <<part, s1, s2, s3, s4, s5, s6>>
PartsSpec == PartsInit /\ [][PartsNext]_partsVars
-----------------------------------------------------------------------------
(* The properties of the parts; each is stated and explained in its module. *)

\* Recordings leave the machine only as the user agreed, and no file of them stays but in the
\* cases named there.
RecordingsStayPrivate == part = "voice" => Voice!RecordingsStayPrivate
\* Every cost is on the disk, in the session or in the run that made it, and instances together
\* overspend by one run each, beside what no check stands before.
SpendingIsBounded == part = "budget" => Budget!EveryCostIsBookedOnce /\ Budget!OverspendIsBounded
\* An inspection leaves no browser, no profile it could remove and no call that waits forever.
InspectionLeavesNothing == part = "browser" => Browser!InspectionLeavesNothing
\* A group that was stopped dies, and what was shown of a command is what its result has.
CommandsAreContained == part = "shell" => Shell!CommandsAreContained
\* A replacement takes the text literally, and what the user is shown of it is the change.
TextChangesAreTrue == part = "text" => Text!PreviewIsTheChange /\ Text!ReplacementIsLiteral
\* The answer shown is the answer without its block, however it arrived.
AnswerIsWhatIsLeft == part = "filter" => Filter!AnswerIsWhatIsLeft
\* With one program at a time the settings asked for last are loaded, and a file that is broken
\* is in its place or beside it.
SettingsSurvive == part = "config" => Config!BrokenConfigIsKept /\ Config!ChoicesSurvive
\* An old session is imported once.
ImportedOnce == part = "legacy" => Legacy!ImportedOnce
\* The report of a run that was cut is true and leaves nothing out, also of what undo would
\* restore.
CutRunIsToldRight == part = "cut" => Cut!CutRunIsToldRight /\ Cut!DriftTellsWhatUndoSkips
\* A key changes what it is about, and the rest of a draft stays.
DraftIsKept == [][part = "line" => Line!DraftIsKept]_partsVars
\* A tool that leaves something out of its answer says so, but in the two cases named there.
CutIsTold == part = "answers" => Answers!CutIsTold
\* The images of a message are those that were allowed.
ImagesSentAreAllowed == part = "images" => Images!ImagesSentAreAllowed
===============================================================================
