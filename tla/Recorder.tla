------------------------------- MODULE Recorder -------------------------------
(***************************************************************************)
(* /whisper: consent, a recorder process with its limits, the user's key,  *)
(* the transcription, and the temporary directory of each recording.  The  *)
(* limit monitor, the key and the death of the process end a recording in  *)
(* any order; phase is claimed synchronously, the rest takes its time.     *)
(***************************************************************************)
EXTENDS Naturals

CONSTANT MaxRecordings  \* bound: uses of /whisper that start a recording

VARIABLES capture,  \* runVoiceCapture: where it is, the recording it waits for, the stored consent
          recs      \* each recording: phase, the child, its file, who finalizes it, how far;
                    \* measuring: a tick of the monitor looks at the file; auto: autoStopped
                    \* has resolved; and as history whether it was sent, cancelled by the
                    \* user, and ended by a key that came while the limit was ending it
voice == <<capture, recs>>

Recordings == 1..MaxRecordings
NoRecording == [phase |-> "none", child |-> "none", file |-> "none", dir |-> FALSE,
                by |-> "nobody", stage |-> "none", measuring |-> FALSE, auto |-> FALSE,
                sent |-> 0, cancelled |-> FALSE, crossed |-> FALSE]
VoiceInit ==
    /\ capture = [pc |-> "idle", r |-> 0, consent |-> FALSE]
    /\ recs = [r \in Recordings |-> NoRecording]

At(pc) == capture.pc = pc
Goto(pc) == capture' = [capture EXCEPT !.pc = pc]
Change(r, changes) == recs' = [recs EXCEPT ![r] = changes]
Current == recs[capture.r]

\* ensureVoiceConsent: asked until given, and then stored.
Whisper ==
    /\ At("idle") /\ capture.r < MaxRecordings
    /\ Goto(IF capture.consent THEN "choose" ELSE "consent")
    /\ UNCHANGED recs
AnswerConsent(yes) ==
    /\ At("consent")
    /\ capture' = [capture EXCEPT !.consent = yes, !.pc = IF yes THEN "choose" ELSE "idle"]
    /\ UNCHANGED recs
\* selectAudioRecorder: the first provider that is available, or none.
NoRecorder == At("choose") /\ Goto("idle") /\ UNCHANGED recs
\* startProcessRecording: the directory is made first; a command that cannot be resolved
\* leaves it behind, a process that cannot be spawned does not.
StartFails(spawned) ==
    /\ At("choose")
    /\ capture' = [capture EXCEPT !.pc = "idle", !.r = @ + 1]
    /\ Change(capture'.r, [NoRecording EXCEPT !.phase = "unstarted", !.dir = ~spawned])
StartRecording ==
    /\ At("choose")
    /\ capture' = [capture EXCEPT !.pc = "waiting", !.r = @ + 1]
    /\ Change(capture'.r, [NoRecording EXCEPT !.phase = "recording", !.child = "alive",
                                              !.dir = TRUE])

(***************************************************************************)
(* The recorder process.                                                   *)
(***************************************************************************)
ChildWrites(r) ==
    /\ recs[r].child = "alive" /\ recs[r].file # "good" /\ recs[r].dir
    /\ Change(r, [recs[r] EXCEPT !.file = IF @ = "none" THEN "short" ELSE "good"])
ChildExits(r) ==
    /\ recs[r].child = "alive"
    /\ Change(r, [recs[r] EXCEPT !.child = "dead"])

(***************************************************************************)
(* The limit monitor: looks at the file, and claims the recording only if  *)
(* nobody else has done so meanwhile.                                      *)
(***************************************************************************)
Tick(r) ==
    /\ recs[r].phase = "recording" /\ ~recs[r].measuring
    /\ Change(r, [recs[r] EXCEPT !.measuring = TRUE])
    /\ UNCHANGED capture
Claim(rec, who) == [rec EXCEPT !.phase = "settling", !.by = who, !.stage = "signalled"]
Measured(r, limit) ==
    /\ recs[r].measuring
    /\ LET rec == [recs[r] EXCEPT !.measuring = FALSE] IN
       Change(r, IF limit /\ rec.phase = "recording" THEN Claim(rec, "monitor") ELSE rec)
    /\ UNCHANGED capture

(***************************************************************************)
(* finalize: the child gets its signal, after a grace SIGKILL, and after a *)
(* further delay nobody waits for it any more.  Then the file is read, or  *)
(* the directory removed.                                                  *)
(***************************************************************************)
Escalate(r) ==
    /\ recs[r].stage = "signalled" /\ recs[r].child = "alive"
    /\ Change(r, [recs[r] EXCEPT !.stage = "killed"])
    /\ UNCHANGED capture
GiveUpWaiting(r) ==
    /\ recs[r].stage = "killed" /\ recs[r].child = "alive"
    /\ Change(r, [recs[r] EXCEPT !.stage = "ended"])
    /\ UNCHANGED capture
ChildIsGone(r) ==
    /\ recs[r].stage \in {"signalled", "killed"} /\ recs[r].child = "dead"
    /\ Change(r, [recs[r] EXCEPT !.stage = "ended"])
    /\ UNCHANGED capture
Removed(rec) == [rec EXCEPT !.dir = FALSE, !.file = "none"]
Over(rec) == [rec EXCEPT !.by = "nobody", !.stage = "none"]
Done(rec) == [Over(rec) EXCEPT !.phase = "done"]
\* An automatic end resolves autoStopped with the audio; a file that is no use is removed.
FinalizeForMonitor(r) ==
    /\ recs[r].by = "monitor" /\ recs[r].stage = "ended"
    /\ Change(r, IF recs[r].file = "good" THEN [Done(recs[r]) EXCEPT !.auto = TRUE]
                                          ELSE Done(Removed(recs[r])))
    /\ UNCHANGED capture
\* handle.stop() returns the audio, or throws, with the phase as it was.
FinalizeForStop(r) ==
    /\ recs[r].by = "stop" /\ recs[r].stage = "ended"
    /\ IF recs[r].file = "good" THEN Change(r, Done(recs[r])) /\ Goto("transcribe")
                                ELSE Change(r, Over(Removed(recs[r]))) /\ Goto("idle")
FinalizeForCancel(r) ==
    /\ recs[r].by = "cancel" /\ recs[r].stage = "ended"
    /\ Change(r, Done(Removed(recs[r]))) /\ Goto("idle")

(***************************************************************************)
(* What runVoiceCapture waits for: the user's key or the automatic end.    *)
(***************************************************************************)
\* stop() refuses, and cancel() does nothing, once somebody else claimed the recording.
PressEnter ==
    /\ At("waiting")
    /\ IF Current.phase = "recording"
       THEN Change(capture.r, Claim(Current, "stop")) /\ Goto("settle")
       ELSE Change(capture.r, [Current EXCEPT !.crossed = TRUE]) /\ Goto("idle")
PressEscape ==
    /\ At("waiting")
    /\ LET rec == [Current EXCEPT !.cancelled = TRUE] IN
       IF rec.phase = "recording"
       THEN Change(capture.r, Claim(rec, "cancel")) /\ Goto("settle")
       ELSE Change(capture.r, [rec EXCEPT !.crossed = TRUE]) /\ Goto("idle")
LimitEnds ==
    /\ At("waiting") /\ Current.auto
    /\ Goto("transcribe") /\ UNCHANGED recs

\* MUTANT: the directory stays after an error.
TranscribedOnly(sent) ==
    /\ At("transcribe")
    /\ Change(capture.r, IF sent THEN Removed([Current EXCEPT !.sent = @ + 1]) ELSE Current)
    /\ Goto("idle")
\* transcribeAndInsert: a model that cannot be found is an error before anything is sent; the
\* directory goes in every case.
Transcribed(sent) ==
    /\ At("transcribe")
    /\ Change(capture.r, Removed([Current EXCEPT !.sent = IF sent THEN @ + 1 ELSE @]))
    /\ Goto("idle")

Finalizing(r) ==
    \/ Escalate(r) \/ GiveUpWaiting(r) \/ ChildIsGone(r)
    \/ FinalizeForMonitor(r) \/ FinalizeForStop(r) \/ FinalizeForCancel(r)
VoiceNext ==
    \/ Whisper \/ NoRecorder \/ StartRecording
    \/ \E b \in BOOLEAN : AnswerConsent(b) \/ StartFails(b) \/ Transcribed(b)
    \/ PressEnter \/ PressEscape \/ LimitEnds
    \/ \E r \in Recordings : \/ (ChildWrites(r) \/ ChildExits(r)) /\ UNCHANGED capture
                             \/ Tick(r) \/ \E limit \in BOOLEAN : Measured(r, limit)
                             \/ Finalizing(r)
VoiceSpec == VoiceInit /\ [][VoiceNext]_voice
-----------------------------------------------------------------------------
(* Properties *)

\* What the microphone heard leaves the machine only after the consent, once, and not at all
\* when the user pressed Escape; and when everything has come to rest nothing of it is left
\* on disk - unless the key came while a limit was ending the recording, or its command could
\* not be resolved.  (runVoiceCapture, startProcessRecording, transcribeAndInsert)
RecordingsStayPrivate ==
    \A r \in Recordings :
        /\ recs[r].sent > 0 => capture.consent /\ ~recs[r].cancelled /\ recs[r].sent = 1
        /\ \/ ~At("idle") \/ recs[r].phase = "recording" \/ recs[r].by # "nobody"
           \/ recs[r].crossed \/ recs[r].phase = "unstarted"
           \/ ~recs[r].dir
===============================================================================
