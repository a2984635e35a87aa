------------------------------ MODULE PartsProofs ------------------------------
(* Proofs about the small parts of MCParts, each under the specification that is model-  *)
(* checked, for every value of the parts' constants: recordings, the import of the old   *)
(* chat, the configuration file, the browser of an inspection, commands, the budget and  *)
(* the prompt line.  Then about the connection (Reconnect) and the credentials (ApiKeys), *)
(* under specifications of their own.                                                     *)
EXTENDS MCParts, Reconnect, ApiKeys, FiniteSetTheorems, SequenceTheorems, WellFoundedInduction,
        TLAPS

\* A part stays the part it is.
LEMMA PartStays == [PartsNext]_partsVars => part' = part
BY DEF PartsNext, partsVars

-----------------------------------------------------------------------------
(* Recorder: s1 is capture, s2 recs.  Recordings stay private however the limits, the    *)
(* user's key, the recorder process and the transcription interleave.                    *)

RecordingRec == [phase : {"none", "unstarted", "recording", "settling", "done"},
        child : {"none", "alive", "dead"}, file : {"none", "short", "good"}, dir : BOOLEAN,
        by : {"nobody", "monitor", "stop", "cancel"},
        stage : {"none", "signalled", "killed", "ended"}, measuring : BOOLEAN, auto : BOOLEAN,
        sent : Nat, cancelled : BOOLEAN, crossed : BOOLEAN]
Busy == {"waiting", "settle", "transcribe"}
Pcs == {"idle", "consent", "choose"} \cup Busy
CaptureRec == [pc : Pcs, r : 0..MaxRecordings, consent : BOOLEAN]

\* A recording that runVoiceCapture does not wait for is over for it: nothing is left of it
\* but what the property excepts, and only the monitor can still be at work on it.
IsOver(rec) ==
    /\ rec.phase # "recording" /\ rec.by \notin {"stop", "cancel"}
    /\ rec.phase = "unstarted" => rec.by = "nobody"
    /\ rec.crossed \/ rec.phase = "unstarted" \/ ~rec.dir

\* The recording it waits for has not been sent.  Whoever claims it has it alone, and what
\* an automatic end hands over is done.
IsCurrent(place, rec) ==
    /\ rec.sent = 0 /\ rec.phase # "unstarted"
    /\ place = "waiting" => /\ ~rec.cancelled /\ rec.by \in {"nobody", "monitor"}
                            /\ rec.auto => rec.phase = "done" /\ rec.by = "nobody"
    /\ place = "settle" => /\ rec.phase = "settling" /\ rec.by \in {"stop", "cancel"}
                           /\ rec.by = "stop" => ~rec.cancelled
    /\ place = "transcribe" => ~rec.cancelled /\ rec.phase = "done" /\ rec.by = "nobody"
IsSent(rec) == rec.sent > 0 => ~rec.cancelled /\ rec.sent = 1

\* Nobody gets to a recorder without the stored consent, which is not asked for again.
ICapture ==
    /\ s1 \in CaptureRec
    /\ s1.pc = "consent" => ~s1.consent
    /\ s1.pc \in Busy \cup {"choose"} => s1.consent
    /\ s1.pc \in {"consent", "choose"} => s1.r < MaxRecordings
    /\ s1.pc \in Busy => s1.r > 0
IRecs ==
    /\ s2 \in [Voice!Recordings -> RecordingRec]
    /\ \A r \in Voice!Recordings :
          /\ r > s1.r => s2[r] = Voice!NoRecording
          /\ r = s1.r /\ s1.pc \in Busy => IsCurrent(s1.pc, s2[r])
          /\ r # s1.r \/ s1.pc \notin Busy => IsOver(s2[r])
          /\ IsSent(s2[r]) /\ (s2[r].sent > 0 => s1.consent)
VoiceInv == ICapture /\ IRecs

LEMMA NothingYet == Voice!NoRecording \in RecordingRec /\ IsOver(Voice!NoRecording) /\ IsSent(Voice!NoRecording)
                    /\ Voice!NoRecording.sent = 0
BY DEF Voice!NoRecording, RecordingRec, IsOver, IsSent

LEMMA VoiceInitInv == ASSUME MaxRecordings \in Nat, Voice!VoiceInit PROVE VoiceInv
<1>1. ICapture
  BY DEF Voice!VoiceInit, ICapture, CaptureRec, Pcs, Busy
<1>2. \A r \in Voice!Recordings : s2[r] = Voice!NoRecording
  BY DEF Voice!VoiceInit
<1>3. s1.pc = "idle" /\ "idle" \notin Busy
  BY DEF Voice!VoiceInit, Busy
<1>4. s2 \in [Voice!Recordings -> RecordingRec]
  BY NothingYet DEF Voice!VoiceInit
<1>5. ~(0 > 0)
  OBVIOUS
<1>6. IRecs
  BY <1>2, <1>3, <1>4, <1>5, NothingYet, Zenon DEF IRecs
<1>. QED BY <1>1, <1>6 DEF VoiceInv

\* A step that changes one recording while runVoiceCapture stays where it is.
LEMMA InBackground ==
    ASSUME MaxRecordings \in Nat, VoiceInv, NEW r \in Voice!Recordings, NEW rec \in RecordingRec,
           s2[r] # Voice!NoRecording, s1' = s1, s2' = [s2 EXCEPT ![r] = rec],
           IsCurrent(s1.pc, s2[r]) => IsCurrent(s1.pc, rec),
           IsOver(s2[r]) => IsOver(rec),
           rec.sent = s2[r].sent, rec.cancelled = s2[r].cancelled
    PROVE  VoiceInv'
<1>1. ICapture'
  BY DEF VoiceInv, ICapture
<1>2. s2' \in [Voice!Recordings -> RecordingRec]
  BY DEF VoiceInv, IRecs
<1>3. IsSent(s2[r]) => IsSent(rec)
  BY DEF IsSent
<1>4. \A q \in Voice!Recordings : s2'[q] = IF q = r THEN rec ELSE s2[q]
  BY DEF VoiceInv, IRecs
<1>. QED BY <1>1, <1>2, <1>3, <1>4, Zenon DEF VoiceInv, IRecs

\* A step of runVoiceCapture with the recording it waits for.
LEMMA OfCapture ==
    ASSUME MaxRecordings \in Nat, VoiceInv, NEW rec \in RecordingRec, NEW to \in Busy \cup {"idle"},
           s1.pc \in Busy, s1' = [s1 EXCEPT !.pc = to],
           s2' = [s2 EXCEPT ![s1.r] = rec],
           to \in Busy => IsCurrent(to, rec), to = "idle" => IsOver(rec), IsSent(rec)
    PROVE  VoiceInv'
<1>1. ICapture' /\ s1'.pc = to /\ s1'.r = s1.r /\ s1'.consent /\ s1.r \in Voice!Recordings
  BY DEF VoiceInv, ICapture, CaptureRec, Pcs, Busy, Voice!Recordings
<1>2. s2' \in [Voice!Recordings -> RecordingRec]
  BY <1>1 DEF VoiceInv, IRecs
<1>3. \A q \in Voice!Recordings : s2'[q] = IF q = s1.r THEN rec ELSE s2[q]
  BY <1>1 DEF VoiceInv, IRecs
<1>4. ~(s1.r > s1.r)
  BY <1>1 DEF Voice!Recordings
<1>5. to \in Busy \/ to = "idle"
  OBVIOUS
<1>6. "idle" \notin Busy
  BY DEF Busy
<1>. QED BY <1>1, <1>2, <1>3, <1>4, <1>5, <1>6, Zenon DEF VoiceInv, IRecs

\* A step that begins a recording, or fails to.
LEMMA NextRecording ==
    ASSUME MaxRecordings \in Nat, VoiceInv, NEW rec \in RecordingRec, NEW to \in {"idle", "waiting"},
           s1.pc = "choose", s1' = [s1 EXCEPT !.pc = to, !.r = @ + 1],
           s2' = [s2 EXCEPT ![s1.r + 1] = rec],
           to = "waiting" => IsCurrent(to, rec), to = "idle" => IsOver(rec), rec.sent = 0
    PROVE  VoiceInv'
<1>0. /\ s1 \in CaptureRec /\ s1.consent /\ s1.r < MaxRecordings
      /\ s1.r + 1 \in Voice!Recordings /\ s1.pc \notin Busy
  BY DEF VoiceInv, ICapture, CaptureRec, Pcs, Busy, Voice!Recordings
<1>a. s1'.pc = to /\ s1'.r = s1.r + 1 /\ s1'.consent = s1.consent
  BY <1>0 DEF CaptureRec
<1>c. s1.r + 1 \in 0..MaxRecordings /\ to \in Pcs
  BY <1>0 DEF CaptureRec, Pcs, Busy
<1>d. s1' \in CaptureRec
  BY <1>0, <1>c DEF CaptureRec
<1>b. ICapture'
  BY <1>0, <1>a, <1>d DEF ICapture, Busy, Voice!Recordings
<1>1. /\ ICapture' /\ s1'.pc = to /\ s1'.r = s1.r + 1
      /\ s1'.consent = s1.consent /\ s1.r + 1 \in Voice!Recordings
      /\ s1.pc \notin Busy
  BY <1>0, <1>a, <1>b
<1>2. s2' \in [Voice!Recordings -> RecordingRec]
  BY <1>1 DEF VoiceInv, IRecs
<1>3. \A q \in Voice!Recordings : s2'[q] = IF q = s1.r + 1 THEN rec ELSE s2[q]
  BY <1>1 DEF VoiceInv, IRecs
<1>4. ~(s1.r + 1 > s1.r + 1) /\ \A q \in Voice!Recordings : q > s1.r + 1 => q > s1.r
  BY DEF Voice!Recordings, VoiceInv, ICapture, CaptureRec
<1>5. IsSent(rec) /\ ~(rec.sent > 0)
  BY DEF IsSent
<1>6. to \in Busy => to = "waiting"
  BY DEF Busy
<1>7. to \notin Busy => to = "idle"
  BY DEF Busy
<1>. QED BY <1>1, <1>2, <1>3, <1>4, <1>5, <1>6, <1>7, Zenon DEF VoiceInv, IRecs

\* A step of runVoiceCapture before a recording.
LEMMA BeforeRecording ==
    ASSUME MaxRecordings \in Nat, VoiceInv, ICapture', UNCHANGED s2,
           s1.pc \notin Busy, s1'.pc \notin Busy, s1'.r = s1.r,
           s1.consent => s1'.consent
    PROVE  VoiceInv'
BY Zenon DEF VoiceInv, IRecs

LEMMA Asked ==
    ASSUME MaxRecordings \in Nat, VoiceInv,
           Voice!Whisper \/ Voice!NoRecorder \/ \E b \in BOOLEAN : Voice!AnswerConsent(b)
    PROVE  VoiceInv'
<1>. USE DEF VoiceInv, ICapture, CaptureRec, Pcs, Busy, Voice!At, Voice!Goto
<1>1. CASE Voice!Whisper
  BY <1>1, BeforeRecording DEF Voice!Whisper
<1>2. CASE Voice!NoRecorder
  BY <1>2, BeforeRecording DEF Voice!NoRecorder
<1>3. ASSUME NEW b \in BOOLEAN, Voice!AnswerConsent(b) PROVE VoiceInv'
  BY <1>3, BeforeRecording DEF Voice!AnswerConsent
<1>. QED BY <1>1, <1>2, <1>3

LEMMA Begun ==
    ASSUME MaxRecordings \in Nat, VoiceInv, Voice!StartRecording \/ \E b \in BOOLEAN : Voice!StartFails(b)
    PROVE  VoiceInv'
<1>0. s1'.r = s1.r + 1 /\ s1.pc = "choose"
  BY DEF Voice!StartRecording, Voice!StartFails, Voice!At, VoiceInv, ICapture, CaptureRec
<1>1. CASE Voice!StartRecording
  <2>. DEFINE rec == [Voice!NoRecording EXCEPT !.phase = "recording", !.child = "alive", !.dir = TRUE]
  <2>1. rec \in RecordingRec /\ rec.sent = 0 /\ IsCurrent("waiting", rec)
    BY DEF RecordingRec, Voice!NoRecording, IsCurrent
  <2>2. /\ s1' = [s1 EXCEPT !.pc = "waiting", !.r = @ + 1]
        /\ s2' = [s2 EXCEPT ![s1.r + 1] = rec]
    BY <1>0, <1>1 DEF Voice!StartRecording, Voice!Change
  <2>. HIDE DEF rec
  <2>. QED BY <1>0, <2>1, <2>2, NextRecording
<1>2. ASSUME NEW b \in BOOLEAN, Voice!StartFails(b) PROVE VoiceInv'
  <2>. DEFINE rec == [Voice!NoRecording EXCEPT !.phase = "unstarted", !.dir = ~b]
  <2>1. rec \in RecordingRec /\ rec.sent = 0 /\ IsOver(rec)
    BY DEF RecordingRec, Voice!NoRecording, IsOver
  <2>2. /\ s1' = [s1 EXCEPT !.pc = "idle", !.r = @ + 1]
        /\ s2' = [s2 EXCEPT ![s1.r + 1] = rec]
    BY <1>0, <1>2 DEF Voice!StartFails, Voice!Change
  <2>. HIDE DEF rec
  <2>. QED BY <1>0, <2>1, <2>2, NextRecording
<1>. QED BY <1>1, <1>2

\* What goes on in a recording by itself: the process, the look at the file, and the end
\* of whoever claimed it.
LEMMA ByItself ==
    ASSUME MaxRecordings \in Nat, VoiceInv, NEW r \in Voice!Recordings,
           \/ (Voice!ChildWrites(r) \/ Voice!ChildExits(r)) /\ UNCHANGED s1
           \/ Voice!Tick(r) \/ \E limit \in BOOLEAN : Voice!Measured(r, limit)
           \/ Voice!Escalate(r) \/ Voice!GiveUpWaiting(r) \/ Voice!ChildIsGone(r) \/ Voice!FinalizeForMonitor(r)
    PROVE  VoiceInv'
<1>0. s2[r] \in RecordingRec
  BY DEF VoiceInv, IRecs
<1>1. CASE Voice!ChildWrites(r) /\ UNCHANGED s1
  <2>. DEFINE rec == [s2[r] EXCEPT !.file = IF @ = "none" THEN "short" ELSE "good"]
  <2>0. s2[r] # Voice!NoRecording
    BY <1>1 DEF Voice!ChildWrites, Voice!NoRecording
  <2>1. rec \in RecordingRec
    BY <1>0, <1>1 DEF RecordingRec
  <2>2. /\ IsCurrent(s1.pc, s2[r]) => IsCurrent(s1.pc, rec)
        /\ IsOver(s2[r]) => IsOver(rec)
        /\ rec.sent = s2[r].sent /\ rec.cancelled = s2[r].cancelled
    BY <1>0, <1>1 DEF RecordingRec, IsCurrent, IsOver, Voice!ChildWrites
  <2>3. s2' = [s2 EXCEPT ![r] = rec] /\ UNCHANGED s1
    BY <1>1 DEF Voice!ChildWrites, Voice!Change
  <2>. HIDE DEF rec
  <2>. QED BY <2>0, <2>1, <2>2, <2>3, InBackground
<1>2. CASE Voice!ChildExits(r) /\ UNCHANGED s1
  <2>. DEFINE rec == [s2[r] EXCEPT !.child = "dead"]
  <2>0. s2[r] # Voice!NoRecording
    BY <1>2 DEF Voice!ChildExits, Voice!NoRecording
  <2>1. rec \in RecordingRec
    BY <1>0, <1>2 DEF RecordingRec
  <2>2. /\ IsCurrent(s1.pc, s2[r]) => IsCurrent(s1.pc, rec)
        /\ IsOver(s2[r]) => IsOver(rec)
        /\ rec.sent = s2[r].sent /\ rec.cancelled = s2[r].cancelled
    BY <1>0, <1>2 DEF RecordingRec, IsCurrent, IsOver, Voice!ChildExits
  <2>3. s2' = [s2 EXCEPT ![r] = rec] /\ UNCHANGED s1
    BY <1>2 DEF Voice!ChildExits, Voice!Change
  <2>. HIDE DEF rec
  <2>. QED BY <2>0, <2>1, <2>2, <2>3, InBackground
<1>3. CASE Voice!Tick(r)
  <2>. DEFINE rec == [s2[r] EXCEPT !.measuring = TRUE]
  <2>0. s2[r] # Voice!NoRecording
    BY <1>3 DEF Voice!Tick, Voice!NoRecording
  <2>1. rec \in RecordingRec
    BY <1>0, <1>3 DEF RecordingRec
  <2>2. /\ IsCurrent(s1.pc, s2[r]) => IsCurrent(s1.pc, rec)
        /\ IsOver(s2[r]) => IsOver(rec)
        /\ rec.sent = s2[r].sent /\ rec.cancelled = s2[r].cancelled
    BY <1>0, <1>3 DEF RecordingRec, IsCurrent, IsOver, Voice!Tick
  <2>3. s2' = [s2 EXCEPT ![r] = rec] /\ UNCHANGED s1
    BY <1>3 DEF Voice!Tick, Voice!Change
  <2>. HIDE DEF rec
  <2>. QED BY <2>0, <2>1, <2>2, <2>3, InBackground
<1>4. ASSUME NEW limit \in BOOLEAN, Voice!Measured(r, limit) PROVE VoiceInv'
  <2>. DEFINE rec == LET m == [s2[r] EXCEPT !.measuring = FALSE] IN
                    IF limit /\ m.phase = "recording" THEN Voice!Claim(m, "monitor") ELSE m
  <2>0. s2[r] # Voice!NoRecording
    BY <1>4 DEF Voice!Measured, Voice!NoRecording
  <2>1. rec \in RecordingRec
    BY <1>0, <1>4 DEF RecordingRec, Voice!Claim
  <2>2. /\ IsCurrent(s1.pc, s2[r]) => IsCurrent(s1.pc, rec)
        /\ IsOver(s2[r]) => IsOver(rec)
        /\ rec.sent = s2[r].sent /\ rec.cancelled = s2[r].cancelled
    BY <1>0, <1>4 DEF RecordingRec, IsCurrent, IsOver, Voice!Measured, Voice!Claim
  <2>3. s2' = [s2 EXCEPT ![r] = rec] /\ UNCHANGED s1
    BY <1>4 DEF Voice!Measured, Voice!Change
  <2>. HIDE DEF rec
  <2>. QED BY <2>0, <2>1, <2>2, <2>3, InBackground
<1>5. CASE Voice!Escalate(r)
  <2>. DEFINE rec == [s2[r] EXCEPT !.stage = "killed"]
  <2>0. s2[r] # Voice!NoRecording
    BY <1>5 DEF Voice!Escalate, Voice!NoRecording
  <2>1. rec \in RecordingRec
    BY <1>0, <1>5 DEF RecordingRec
  <2>2. /\ IsCurrent(s1.pc, s2[r]) => IsCurrent(s1.pc, rec)
        /\ IsOver(s2[r]) => IsOver(rec)
        /\ rec.sent = s2[r].sent /\ rec.cancelled = s2[r].cancelled
    BY <1>0, <1>5 DEF RecordingRec, IsCurrent, IsOver, Voice!Escalate
  <2>3. s2' = [s2 EXCEPT ![r] = rec] /\ UNCHANGED s1
    BY <1>5 DEF Voice!Escalate, Voice!Change
  <2>. HIDE DEF rec
  <2>. QED BY <2>0, <2>1, <2>2, <2>3, InBackground
<1>6. CASE Voice!GiveUpWaiting(r) \/ Voice!ChildIsGone(r)
  <2>. DEFINE rec == [s2[r] EXCEPT !.stage = "ended"]
  <2>0. s2[r] # Voice!NoRecording
    BY <1>6 DEF Voice!GiveUpWaiting, Voice!ChildIsGone, Voice!NoRecording
  <2>1. rec \in RecordingRec
    BY <1>0, <1>6 DEF RecordingRec
  <2>2. /\ IsCurrent(s1.pc, s2[r]) => IsCurrent(s1.pc, rec)
        /\ IsOver(s2[r]) => IsOver(rec)
        /\ rec.sent = s2[r].sent /\ rec.cancelled = s2[r].cancelled
    BY <1>0, <1>6 DEF RecordingRec, IsCurrent, IsOver, Voice!GiveUpWaiting, Voice!ChildIsGone
  <2>3. s2' = [s2 EXCEPT ![r] = rec] /\ UNCHANGED s1
    BY <1>6 DEF Voice!GiveUpWaiting, Voice!ChildIsGone, Voice!Change
  <2>. HIDE DEF rec
  <2>. QED BY <2>0, <2>1, <2>2, <2>3, InBackground
<1>7. CASE Voice!FinalizeForMonitor(r)
  <2>. DEFINE rec == IF s2[r].file = "good" THEN [Voice!Done(s2[r]) EXCEPT !.auto = TRUE]
                                          ELSE Voice!Done(Voice!Removed(s2[r]))
  <2>0. s2[r] # Voice!NoRecording
    BY <1>7 DEF Voice!FinalizeForMonitor, Voice!NoRecording
  <2>1. rec \in RecordingRec
    BY <1>0, <1>7 DEF RecordingRec, Voice!Done, Voice!Over, Voice!Removed
  <2>a. /\ rec.sent = s2[r].sent /\ rec.cancelled = s2[r].cancelled
        /\ rec.crossed = s2[r].crossed /\ rec.phase = "done" /\ rec.by = "nobody"
        /\ rec.dir => s2[r].dir
    BY <1>0 DEF RecordingRec, Voice!Done, Voice!Over, Voice!Removed
  <2>b. s2[r].by = "monitor"
    BY <1>7 DEF Voice!FinalizeForMonitor
  <2>c. IsCurrent(s1.pc, s2[r]) => IsCurrent(s1.pc, rec)
    BY <2>a, <2>b DEF IsCurrent
  <2>d. IsOver(s2[r]) => IsOver(rec)
    BY <2>a, <2>b DEF IsOver
  <2>2. /\ IsCurrent(s1.pc, s2[r]) => IsCurrent(s1.pc, rec)
        /\ IsOver(s2[r]) => IsOver(rec)
        /\ rec.sent = s2[r].sent /\ rec.cancelled = s2[r].cancelled
    BY <2>a, <2>c, <2>d
  <2>3. s2' = [s2 EXCEPT ![r] = rec] /\ UNCHANGED s1
    BY <1>7 DEF Voice!FinalizeForMonitor, Voice!Change
  <2>. HIDE DEF rec
  <2>. QED BY <2>0, <2>1, <2>2, <2>3, InBackground
<1>. QED BY <1>1, <1>2, <1>3, <1>4, <1>5, <1>6, <1>7

LEMMA BusyPlaces == /\ {"waiting", "settle", "transcribe"} = Busy
                /\ \A to \in Busy : to # "idle"
BY DEF Busy

\* The end of a claimed recording goes back to runVoiceCapture.
LEMMA Finalized ==
    ASSUME MaxRecordings \in Nat, VoiceInv, NEW r \in Voice!Recordings,
           Voice!FinalizeForStop(r) \/ Voice!FinalizeForCancel(r)
    PROVE  VoiceInv'
<1>1. s2[r] \in RecordingRec /\ s2[r].by \in {"stop", "cancel"}
  BY DEF VoiceInv, IRecs, Voice!FinalizeForStop, Voice!FinalizeForCancel
<1>2. ~IsOver(s2[r])
  BY <1>1 DEF IsOver
<1>3. r = s1.r /\ s1.pc \in Busy
  BY <1>2 DEF VoiceInv, IRecs
<1>4. IsCurrent(s1.pc, s2[r])
  BY <1>3 DEF VoiceInv, IRecs
<1>5. s1.pc = "settle"
  BY <1>1, <1>3, <1>4 DEF IsCurrent, Busy
<1>6. s2[r].sent = 0 /\ s2[r].phase = "settling" /\ (s2[r].by = "stop" => ~s2[r].cancelled)
  BY <1>4, <1>5 DEF IsCurrent
<1>7. CASE Voice!FinalizeForStop(r) /\ s2[r].file = "good"
  <2>. DEFINE rec == Voice!Done(s2[r])
  <2>a. rec \in RecordingRec
    BY <1>1 DEF RecordingRec, Voice!Done, Voice!Over
  <2>b. /\ rec.sent = s2[r].sent /\ rec.cancelled = s2[r].cancelled
        /\ rec.phase = "done" /\ rec.by = "nobody"
    BY <1>1 DEF RecordingRec, Voice!Done, Voice!Over
  <2>c. s2[r].by = "stop"
    BY <1>7 DEF Voice!FinalizeForStop
  <2>1. rec \in RecordingRec /\ IsCurrent("transcribe", rec) /\ IsSent(rec)
    BY <1>6, <2>a, <2>b, <2>c DEF IsCurrent, IsSent
  <2>2. s2' = [s2 EXCEPT ![s1.r] = rec] /\ s1' = [s1 EXCEPT !.pc = "transcribe"]
    BY <1>3, <1>7 DEF Voice!FinalizeForStop, Voice!Change, Voice!Goto
  <2>. HIDE DEF rec
  <2>. QED BY <1>3, <2>1, <2>2, OfCapture, BusyPlaces
<1>8. CASE Voice!FinalizeForStop(r) /\ s2[r].file # "good"
  <2>. DEFINE rec == Voice!Over(Voice!Removed(s2[r]))
  <2>a. rec \in RecordingRec
    BY <1>1 DEF RecordingRec, Voice!Over, Voice!Removed
  <2>b. /\ rec.sent = s2[r].sent /\ rec.by = "nobody" /\ rec.dir = FALSE
        /\ rec.phase \in {s2[r].phase, "done"}
    BY <1>1 DEF RecordingRec, Voice!Over, Voice!Removed
  <2>1. rec \in RecordingRec /\ IsOver(rec) /\ IsSent(rec)
    BY <1>6, <2>a, <2>b DEF IsOver, IsSent
  <2>2. s2' = [s2 EXCEPT ![s1.r] = rec] /\ s1' = [s1 EXCEPT !.pc = "idle"]
    BY <1>3, <1>8 DEF Voice!FinalizeForStop, Voice!Change, Voice!Goto
  <2>. HIDE DEF rec
  <2>. QED BY <1>3, <2>1, <2>2, OfCapture, BusyPlaces
<1>9. CASE Voice!FinalizeForCancel(r)
  <2>. DEFINE rec == Voice!Done(Voice!Removed(s2[r]))
  <2>a. rec \in RecordingRec
    BY <1>1 DEF RecordingRec, Voice!Done, Voice!Over, Voice!Removed
  <2>b. /\ rec.sent = s2[r].sent /\ rec.by = "nobody" /\ rec.dir = FALSE
        /\ rec.phase \in {s2[r].phase, "done"}
    BY <1>1 DEF RecordingRec, Voice!Done, Voice!Over, Voice!Removed
  <2>1. rec \in RecordingRec /\ IsOver(rec) /\ IsSent(rec)
    BY <1>6, <2>a, <2>b DEF IsOver, IsSent
  <2>2. s2' = [s2 EXCEPT ![s1.r] = rec] /\ s1' = [s1 EXCEPT !.pc = "idle"]
    BY <1>3, <1>9 DEF Voice!FinalizeForCancel, Voice!Change, Voice!Goto
  <2>. HIDE DEF rec
  <2>. QED BY <1>3, <2>1, <2>2, OfCapture, BusyPlaces
<1>. QED BY <1>7, <1>8, <1>9

\* The user's key, the automatic end and the transcription.
LEMMA Waited ==
    ASSUME MaxRecordings \in Nat, VoiceInv,
           Voice!PressEnter \/ Voice!PressEscape \/ Voice!LimitEnds \/ \E b \in BOOLEAN : Voice!Transcribed(b)
    PROVE  VoiceInv'
<1>1. s1.pc \in {"waiting", "transcribe"} /\ s1.pc \in Busy
  BY DEF Voice!PressEnter, Voice!PressEscape, Voice!LimitEnds, Voice!Transcribed, Voice!At, Busy
<1>2. s1.r \in Voice!Recordings
  BY <1>1 DEF VoiceInv, ICapture, CaptureRec, Voice!Recordings
<1>3. Voice!Current \in RecordingRec /\ IsCurrent(s1.pc, Voice!Current) /\ Voice!Current = s2[s1.r]
  BY <1>1, <1>2 DEF VoiceInv, IRecs, Voice!Current
<1>4. Voice!Current.sent = 0 /\ ~Voice!Current.cancelled
  BY <1>1, <1>3 DEF IsCurrent
<1>5. CASE Voice!PressEnter /\ Voice!Current.phase = "recording"
  <2>. DEFINE rec == Voice!Claim(Voice!Current, "stop")
  <2>a. rec \in RecordingRec
    BY <1>3, ZenonT(40) DEF RecordingRec, Voice!Claim
  <2>b. /\ rec.sent = Voice!Current.sent /\ rec.phase = "settling"
        /\ rec.by \in {"stop", "cancel"} /\ (rec.by = "stop" => rec.cancelled = Voice!Current.cancelled)
    BY <1>3 DEF RecordingRec, Voice!Claim
  <2>1. rec \in RecordingRec /\ IsCurrent("settle", rec) /\ IsSent(rec)
    BY <1>4, <2>a, <2>b DEF IsCurrent, IsSent
  <2>2. s2' = [s2 EXCEPT ![s1.r] = rec] /\ s1' = [s1 EXCEPT !.pc = "settle"]
    BY <1>5 DEF Voice!PressEnter, Voice!Change, Voice!Goto
  <2>. HIDE DEF rec
  <2>. QED BY <1>1, <2>1, <2>2, OfCapture, BusyPlaces
<1>6. CASE Voice!PressEnter /\ Voice!Current.phase # "recording"
  <2>. DEFINE rec == [Voice!Current EXCEPT !.crossed = TRUE]
  <2>0. Voice!Current.by \in {"nobody", "monitor"}
    BY <1>3, <1>6 DEF IsCurrent, Voice!PressEnter, Voice!At
  <2>a. rec \in RecordingRec
    BY <1>3 DEF RecordingRec
  <2>b. /\ rec.sent = Voice!Current.sent /\ rec.by = Voice!Current.by /\ rec.phase = Voice!Current.phase
        /\ rec.crossed = TRUE
    BY <1>3 DEF RecordingRec
  <2>c. rec.phase # "recording" /\ (rec.phase = "unstarted" => rec.by = "nobody")
    BY <1>3, <1>6, <2>b DEF IsCurrent
  <2>1. rec \in RecordingRec /\ IsOver(rec) /\ IsSent(rec)
    BY <1>4, <2>0, <2>a, <2>b, <2>c DEF IsOver, IsSent
  <2>2. s2' = [s2 EXCEPT ![s1.r] = rec] /\ s1' = [s1 EXCEPT !.pc = "idle"]
    BY <1>6 DEF Voice!PressEnter, Voice!Change, Voice!Goto
  <2>. HIDE DEF rec
  <2>. QED BY <1>1, <2>1, <2>2, OfCapture, BusyPlaces
<1>7. CASE Voice!PressEscape /\ Voice!Current.phase = "recording"
  <2>. DEFINE rec == Voice!Claim([Voice!Current EXCEPT !.cancelled = TRUE], "cancel")
  <2>a. rec \in RecordingRec
    BY <1>3, ZenonT(40) DEF RecordingRec, Voice!Claim
  <2>b. /\ rec.sent = Voice!Current.sent /\ rec.phase = "settling"
        /\ rec.by \in {"stop", "cancel"} /\ (rec.by = "stop" => rec.cancelled = Voice!Current.cancelled)
    BY <1>3 DEF RecordingRec, Voice!Claim
  <2>1. rec \in RecordingRec /\ IsCurrent("settle", rec) /\ IsSent(rec)
    BY <1>4, <2>a, <2>b DEF IsCurrent, IsSent
  <2>2. s2' = [s2 EXCEPT ![s1.r] = rec] /\ s1' = [s1 EXCEPT !.pc = "settle"]
    BY <1>3, <1>7 DEF Voice!PressEscape, Voice!Change, Voice!Goto, RecordingRec
  <2>. HIDE DEF rec
  <2>. QED BY <1>1, <2>1, <2>2, OfCapture, BusyPlaces
<1>8. CASE Voice!PressEscape /\ Voice!Current.phase # "recording"
  <2>. DEFINE rec == [[Voice!Current EXCEPT !.cancelled = TRUE] EXCEPT !.crossed = TRUE]
  <2>0. Voice!Current.by \in {"nobody", "monitor"}
    BY <1>3, <1>8 DEF IsCurrent, Voice!PressEscape, Voice!At
  <2>a. rec \in RecordingRec
    BY <1>3 DEF RecordingRec
  <2>b. /\ rec.sent = Voice!Current.sent /\ rec.by = Voice!Current.by /\ rec.phase = Voice!Current.phase
        /\ rec.crossed = TRUE
    BY <1>3 DEF RecordingRec
  <2>c. rec.phase # "recording" /\ (rec.phase = "unstarted" => rec.by = "nobody")
    BY <1>3, <1>8, <2>b DEF IsCurrent
  <2>1. rec \in RecordingRec /\ IsOver(rec) /\ IsSent(rec)
    BY <1>4, <2>0, <2>a, <2>b, <2>c DEF IsOver, IsSent
  <2>2. s2' = [s2 EXCEPT ![s1.r] = rec] /\ s1' = [s1 EXCEPT !.pc = "idle"]
    BY <1>3, <1>8 DEF Voice!PressEscape, Voice!Change, Voice!Goto, RecordingRec
  <2>. HIDE DEF rec
  <2>. QED BY <1>1, <2>1, <2>2, OfCapture, BusyPlaces
<1>9. CASE Voice!LimitEnds
  <2>1. IsCurrent("transcribe", Voice!Current) /\ IsSent(Voice!Current)
    BY <1>3, <1>4, <1>9 DEF IsCurrent, IsSent, Voice!LimitEnds, Voice!At
  <2>2. s2' = [s2 EXCEPT ![s1.r] = Voice!Current] /\ s1' = [s1 EXCEPT !.pc = "transcribe"]
    BY <1>2, <1>3, <1>9 DEF Voice!LimitEnds, Voice!Goto, VoiceInv, IRecs
  <2>. QED BY <1>1, <1>3, <2>1, <2>2, OfCapture, BusyPlaces
<1>10. ASSUME NEW b \in BOOLEAN, Voice!Transcribed(b) PROVE VoiceInv'
  <2>. DEFINE rec == Voice!Removed([Voice!Current EXCEPT !.sent = IF b THEN @ + 1 ELSE @])
  <2>0. Voice!Current.phase = "done" /\ Voice!Current.by = "nobody"
    BY <1>3, <1>10 DEF IsCurrent, Voice!Transcribed, Voice!At
  <2>. DEFINE counted == [Voice!Current EXCEPT !.sent = IF b THEN @ + 1 ELSE @]
  <2>c. Voice!Current.sent \in Nat /\ (IF b THEN Voice!Current.sent + 1 ELSE Voice!Current.sent) \in Nat
    BY <1>3 DEF RecordingRec
  <2>d. counted \in RecordingRec
    BY <1>3, <2>c DEF RecordingRec
  <2>a. Voice!Removed(counted) \in RecordingRec
    BY <2>d DEF RecordingRec, Voice!Removed
  <2>b. /\ rec.phase = Voice!Current.phase /\ rec.by = Voice!Current.by /\ rec.dir = FALSE
        /\ rec.sent \in {Voice!Current.sent, Voice!Current.sent + 1} /\ rec.cancelled = Voice!Current.cancelled
    BY <1>3 DEF RecordingRec, Voice!Removed
  <2>1. rec \in RecordingRec /\ IsOver(rec) /\ IsSent(rec)
    BY <1>4, <2>0, <2>a, <2>b DEF IsOver, IsSent
  <2>2. s2' = [s2 EXCEPT ![s1.r] = rec] /\ s1' = [s1 EXCEPT !.pc = "idle"]
    BY <1>10 DEF Voice!Transcribed, Voice!Change, Voice!Goto
  <2>. HIDE DEF rec
  <2>. QED BY <1>1, <2>1, <2>2, OfCapture, BusyPlaces
<1>. QED BY <1>5, <1>6, <1>7, <1>8, <1>9, <1>10

LEMMA VoiceStep == VoiceInv /\ [PartsNext]_partsVars /\ part = "voice" => VoiceInv'
<1>1. [PartsNext]_partsVars /\ part = "voice" => Voice!VoiceNext \/ UNCHANGED Voice!voice
  BY DEF PartsNext, partsVars, Voice!voice
<1>2. VoiceInv /\ Voice!VoiceNext => VoiceInv'
  BY Asked, Begun, ByItself, Finalized, Waited, PartsAssumption DEF Voice!VoiceNext, Voice!Finalizing
<1>3. VoiceInv /\ UNCHANGED Voice!voice => VoiceInv'
  BY DEF Voice!voice, VoiceInv, ICapture, IRecs
<1>. QED BY <1>1, <1>2, <1>3

\* What the microphone heard is sent with consent, once, and never after Escape, and leaves
\* no file behind but in the two cases the property names; for any number of recordings.
\* (runVoiceCapture, startProcessRecording)
THEOREM Private == PartsSpec => []RecordingsStayPrivate
<1>. DEFINE Inv == part = "voice" => VoiceInv
<1>1. PartsInit => Inv
  BY VoiceInitInv, PartsAssumption DEF PartsInit
<1>2. Inv /\ [PartsNext]_partsVars => Inv'
  BY VoiceStep, PartStays
<1>3. Inv => RecordingsStayPrivate
  BY DEF VoiceInv, IRecs, IsOver, IsSent, RecordingsStayPrivate, Voice!RecordingsStayPrivate,
         Voice!At, Busy
<1>. QED BY <1>1, <1>2, <1>3, PTL DEF PartsSpec

-----------------------------------------------------------------------------
(* LegacyImport: s1 is old, s2 marker, s3 chat, s4 start, s5 past.  The old chat is       *)
(* imported once, its text is kept, and a chat the user has deleted stays deleted.        *)

UnderWay == {"read", "look", "save"}
ChatDeleted == s5.deleted /\ ~s5.raced /\ ~s5.unmarked

LegacyType ==
    /\ s1 \in {"v1", "garbled", "gone"} /\ s2 \in {"none", "renamed", "note"}
    /\ s3 \in {Legacy!NoChat, Legacy!Imported}
    /\ s4 \in [Starts -> UnderWay \cup {"new", "mark", "up", "dead"}]
    /\ s5 \in [deleted : BOOLEAN, raced : BOOLEAN, unmarked : BOOLEAN]

\* The old text is in its place or under the marker's name, and one that cannot be read is
\* imported by nobody.
LegacyOld ==
    /\ s1 = "gone" => s2 = "renamed"
    /\ s1 = "garbled" => s3 = Legacy!NoChat /\ \A i \in Starts : s4[i] \notin {"look", "save", "mark"}

\* Whoever is through has seen or made a marker; and when a chat is deleted nobody is left
\* on the way to save it, nor can set out.
LegacyMarker ==
    /\ \A i \in Starts : s4[i] = "up" /\ ~s5.unmarked /\ s1 # "garbled" => s2 # "none"
    /\ ChatDeleted => /\ s3 = Legacy!NoChat /\ s2 # "none"
                  /\ \A i \in Starts : s4[i] \notin UnderWay

LegacyInv == LegacyType /\ LegacyOld /\ LegacyMarker

LEMMA MergeKeepsOne == Legacy!Merged(Legacy!Imported, Legacy!Imported, Legacy!Imported) = Legacy!Imported
BY DEF Legacy!Merged, Legacy!Imported

LEMMA LegacyInitInv == Legacy!LegacyInit => LegacyInv
BY DEF Legacy!LegacyInit, LegacyInv, LegacyType, LegacyOld, LegacyMarker, ChatDeleted, UnderWay

LEMMA LegacyStepType ==
    ASSUME LegacyInv, NEW i \in Starts,
           \/ Legacy!SeesMarker(i) \/ Legacy!ReadsOld(i) \/ Legacy!LooksForChat(i) \/ Legacy!SavesChat(i)
           \/ \E how \in {"rename", "note", "fail"} : Legacy!Marks(i, how)
           \/ Legacy!Crashes(i) \/ Legacy!DeletesChat(i)
    PROVE  LegacyType'
<1>. USE DEF LegacyInv, LegacyType, UnderWay, Legacy!Goto
<1>1. CASE Legacy!SeesMarker(i)
  BY <1>1 DEF Legacy!SeesMarker
<1>2. CASE Legacy!ReadsOld(i)
  BY <1>2 DEF Legacy!ReadsOld
<1>3. CASE Legacy!LooksForChat(i)
  BY <1>3 DEF Legacy!LooksForChat
<1>4. CASE Legacy!SavesChat(i)
  BY <1>4, MergeKeepsOne DEF Legacy!SavesChat
<1>5. ASSUME NEW how \in {"rename", "note", "fail"}, Legacy!Marks(i, how) PROVE LegacyType'
  BY <1>5 DEF Legacy!Marks
<1>6. CASE Legacy!Crashes(i)
  BY <1>6 DEF Legacy!Crashes
<1>7. CASE Legacy!DeletesChat(i)
  BY <1>7 DEF Legacy!DeletesChat
<1>. QED BY <1>1, <1>2, <1>3, <1>4, <1>5, <1>6, <1>7

LEMMA LegacyStepOld ==
    ASSUME LegacyInv, NEW i \in Starts,
           \/ Legacy!SeesMarker(i) \/ Legacy!ReadsOld(i) \/ Legacy!LooksForChat(i) \/ Legacy!SavesChat(i)
           \/ \E how \in {"rename", "note", "fail"} : Legacy!Marks(i, how)
           \/ Legacy!Crashes(i) \/ Legacy!DeletesChat(i)
    PROVE  LegacyOld'
<1>. USE DEF LegacyInv, LegacyType, LegacyOld, UnderWay, Legacy!Goto
<1>1. CASE Legacy!SeesMarker(i)
  BY <1>1 DEF Legacy!SeesMarker
<1>2. CASE Legacy!ReadsOld(i)
  BY <1>2 DEF Legacy!ReadsOld
<1>3. CASE Legacy!LooksForChat(i)
  BY <1>3 DEF Legacy!LooksForChat
<1>4. CASE Legacy!SavesChat(i)
  BY <1>4 DEF Legacy!SavesChat
<1>5. ASSUME NEW how \in {"rename", "note", "fail"}, Legacy!Marks(i, how) PROVE LegacyOld'
  BY <1>5 DEF Legacy!Marks
<1>6. CASE Legacy!Crashes(i)
  BY <1>6 DEF Legacy!Crashes
<1>7. CASE Legacy!DeletesChat(i)
  BY <1>7 DEF Legacy!DeletesChat
<1>. QED BY <1>1, <1>2, <1>3, <1>4, <1>5, <1>6, <1>7

LEMMA LegacyStepMarker ==
    ASSUME LegacyInv, NEW i \in Starts,
           \/ Legacy!SeesMarker(i) \/ Legacy!ReadsOld(i) \/ Legacy!LooksForChat(i) \/ Legacy!SavesChat(i)
           \/ \E how \in {"rename", "note", "fail"} : Legacy!Marks(i, how)
           \/ Legacy!Crashes(i) \/ Legacy!DeletesChat(i)
    PROVE  LegacyMarker'
<1>. USE DEF LegacyInv, LegacyType, LegacyOld, LegacyMarker, ChatDeleted, UnderWay, Legacy!Goto
<1>1. CASE Legacy!SeesMarker(i)
  BY <1>1 DEF Legacy!SeesMarker
<1>2. CASE Legacy!ReadsOld(i)
  BY <1>2 DEF Legacy!ReadsOld
<1>3. CASE Legacy!LooksForChat(i)
  BY <1>3 DEF Legacy!LooksForChat
<1>4. CASE Legacy!SavesChat(i)
  BY <1>4 DEF Legacy!SavesChat
<1>5. ASSUME NEW how \in {"rename", "note", "fail"}, Legacy!Marks(i, how) PROVE LegacyMarker'
  BY <1>5 DEF Legacy!Marks
<1>6. CASE Legacy!Crashes(i)
  BY <1>6 DEF Legacy!Crashes
<1>7. CASE Legacy!DeletesChat(i)
  BY <1>7 DEF Legacy!DeletesChat
<1>. QED BY <1>1, <1>2, <1>3, <1>4, <1>5, <1>6, <1>7

LEMMA LegacyStep == LegacyInv /\ [PartsNext]_partsVars /\ part = "legacy" => LegacyInv'
<1>1. [PartsNext]_partsVars /\ part = "legacy" => Legacy!LegacyNext \/ UNCHANGED Legacy!importing
  BY DEF PartsNext, partsVars, Legacy!importing
<1>2. LegacyInv /\ Legacy!LegacyNext => LegacyInv'
  BY LegacyStepType, LegacyStepOld, LegacyStepMarker DEF Legacy!LegacyNext, LegacyInv
<1>3. LegacyInv /\ UNCHANGED Legacy!importing => LegacyInv'
  BY DEF Legacy!importing, LegacyInv, LegacyType, LegacyOld, LegacyMarker, ChatDeleted
<1>. QED BY <1>1, <1>2, <1>3

\* The import of the old chat happens once, loses no text and brings no deleted chat back,
\* for any number of instances that start at any time (migrateLegacySession).
THEOREM OnceForAll == PartsSpec => []ImportedOnce
<1>. DEFINE Inv == part = "legacy" => LegacyInv
<1>1. PartsInit => Inv
  BY LegacyInitInv DEF PartsInit
<1>2. Inv /\ [PartsNext]_partsVars => Inv'
  BY LegacyStep, PartStays
<1>3. Inv => ImportedOnce
  BY DEF LegacyInv, LegacyType, LegacyOld, LegacyMarker, ChatDeleted, ImportedOnce,
         Legacy!ImportedOnce, Legacy!NoChat, Legacy!Imported
<1>. QED BY <1>1, <1>2, <1>3, PTL DEF PartsSpec

-----------------------------------------------------------------------------
(* ConfigFile: s1 is config, s2 backup, s3 prog, s4 past.  What the user asked for last   *)
(* is what the next start has, and a text that cannot be parsed is kept.                   *)

Saving == {"preserve", "rename", "write"}
Choices == [Config!Fields -> {"default", "chosen"}]
Program == [pc : {"down", "idle"} \cup Saving, settings : Choices]
ConfigRec == [is : {"absent", "object", "broken"}, settings : [Config!Fields -> Config!Values],
              number : Nat]
ConfigPast == [changes : Nat, edits : Nat, asked : Choices, broken : Nat, shared : BOOLEAN,
               excused : SUBSET {"unreadable", "rename", "write", "crash"}]

ConfigType ==
    /\ s1 \in ConfigRec /\ s2 \in Nat /\ s3 \in [Programs -> Program] /\ s4 \in ConfigPast
    /\ s1.is # "broken" => s1.number = 0

IsShared(h) == h.shared
MovedAside(h) == ~IsShared(h) /\ h.excused \cap {"unreadable", "rename"} = {}
NothingFailed(h) == ~IsShared(h) /\ h.excused = {}

\* One program has the file at a time.
ConfigOne ==
    ~IsShared(s4) => \A p, q \in Programs : p # q => s3[p].pc = "down" \/ s3[q].pc = "down"

\* The last broken text is the file or the backup, and what a save is about to do fits it.
ConfigBroken ==
    MovedAside(s4) =>
        /\ s1.is = "broken" => s1.number = s4.broken
        /\ s1.is # "broken" => s4.broken = 0 \/ s2 = s4.broken
        /\ \A p \in Programs : /\ s3[p].pc = "rename" => s1.is = "broken"
                               /\ s3[p].pc = "write" => s1.is # "broken"

\* What was asked for is in the memory of the program that runs, and, when none saves, in
\* the file; a file without settings stands for the defaults.
InFile == IF s1.is = "object" THEN Config!Validated(s1.settings) ELSE Config!Defaults
ConfigAsked ==
    NothingFailed(s4) =>
        /\ \A p \in Programs : s3[p].pc # "down" => s3[p].settings = s4.asked
        /\ (\A p \in Programs : s3[p].pc \notin Saving) => InFile = s4.asked

ConfigInv == ConfigType /\ ConfigOne /\ ConfigBroken /\ ConfigAsked

LEMMA DefaultsAreAsked == Config!Defaults \in Choices /\ Config!Defaults \in [Config!Fields -> Config!Values]
                          /\ Config!Validated(Config!Defaults) = Config!Defaults
BY DEF Config!Defaults, Choices, Config!Validated, Config!Values

LEMMA ValidatedIsAsked ==
    ASSUME NEW settings \in [Config!Fields -> Config!Values]
    PROVE  Config!Validated(settings) \in Choices
BY DEF Config!Validated, Choices, Config!Values

LEMMA AskedIsValid ==
    ASSUME NEW settings \in Choices
    PROVE  Config!Validated(settings) = settings /\ settings \in [Config!Fields -> Config!Values]
BY DEF Config!Validated, Choices, Config!Values

LEMMA ConfigInitInv == Config!ConfigInit => ConfigInv
<1>. SUFFICES ASSUME Config!ConfigInit PROVE ConfigInv
  OBVIOUS
<1>1. /\ s1.is = "absent" /\ s1.number = 0 /\ s1 \in ConfigRec /\ s2 = 0
      /\ \A p \in Programs : s3[p].pc = "down"
      /\ s4.asked = Config!Defaults /\ s4.broken = 0
  BY DefaultsAreAsked DEF Config!ConfigInit, Config!Down, ConfigRec
<1>2. Config!Down \in Program
  BY DefaultsAreAsked DEF Config!Down, Program
<1>3. s3 \in [Programs -> Program] /\ s4 \in ConfigPast
  BY <1>2, DefaultsAreAsked DEF Config!ConfigInit, ConfigPast
<1>4. ConfigType
  BY <1>1, <1>3 DEF ConfigType
<1>5. ConfigOne /\ ConfigBroken /\ ConfigAsked
  BY <1>1 DEF ConfigOne, ConfigBroken, ConfigAsked, InFile, Saving
<1>. QED BY <1>4, <1>5 DEF ConfigInv

\* One program takes a step.
Moves(p, place, settings) ==
    /\ s3' \in [Programs -> Program] /\ s3'[p].pc = place /\ s3'[p].settings = settings
    /\ \A q \in Programs : q # p => s3'[q] = s3[q]

LEMMA ProgramMoves ==
    ASSUME ConfigType, NEW p \in Programs, NEW new \in Program, s3' = [s3 EXCEPT ![p] = new]
    PROVE  Moves(p, new.pc, new.settings)
BY DEF ConfigType, Moves

LEMMA ConfigLoad ==
    ASSUME ConfigInv, NEW p \in Programs, NEW readable \in BOOLEAN, Config!Load(p, readable)
    PROVE  ConfigInv'
<1>. DEFINE loaded == IF readable /\ s1.is = "object" THEN Config!Validated(s1.settings)
                      ELSE Config!Defaults
            new == [pc |-> "idle", settings |-> loaded]
<1>1. loaded \in Choices /\ new \in Program /\ new.pc = "idle" /\ new.settings = loaded
  BY DefaultsAreAsked, ValidatedIsAsked DEF ConfigInv, ConfigType, ConfigRec, Program
<1>2. s3' = [s3 EXCEPT ![p] = new] /\ s3[p].pc = "down" /\ s1' = s1 /\ s2' = s2
  BY DEF Config!Load
<1>. HIDE DEF new
<1>3. Moves(p, "idle", loaded)
  BY <1>1, <1>2, ProgramMoves DEF ConfigInv
<1>4. readable => loaded = InFile
  BY DEF InFile
<1>. HIDE DEF loaded
<1>5. /\ s4' \in ConfigPast /\ s4'.broken = s4.broken /\ s4'.asked = s4.asked
      /\ IsShared(s4') <=> IsShared(s4) \/ ~Config!Alone(p)
      /\ s4'.excused = IF readable THEN s4.excused ELSE s4.excused \cup {"unreadable"}
  BY DEF Config!Load, ConfigInv, ConfigType, ConfigPast, IsShared, Config!Alone
<1>6. ConfigType'
  BY <1>2, <1>3, <1>5 DEF ConfigInv, ConfigType, Moves
<1>7. ConfigOne'
  BY <1>3, <1>5 DEF ConfigInv, ConfigOne, Moves, Config!Alone
<1>8. ConfigBroken'
  BY <1>2, <1>3, <1>5 DEF ConfigInv, ConfigBroken, Moves, MovedAside
<1>9. ConfigAsked'
  <2>. SUFFICES ASSUME NothingFailed(s4') PROVE ConfigAsked'
    BY DEF ConfigAsked
  <2>1. readable /\ NothingFailed(s4) /\ \A q \in Programs \ {p} : s3[q].pc = "down"
    BY <1>5 DEF NothingFailed, Config!Alone
  <2>2. InFile = s4.asked
    BY <1>2, <2>1 DEF ConfigInv, ConfigAsked, Saving
  <2>3. InFile' = InFile
    BY <1>2 DEF InFile
  <2>. QED BY <1>3, <1>4, <1>5, <2>1, <2>2, <2>3 DEF ConfigAsked, Moves
<1>. QED BY <1>6, <1>7, <1>8, <1>9 DEF ConfigInv

LEMMA ConfigChange ==
    ASSUME ConfigInv, NEW p \in Programs, NEW f \in Config!Fields, NEW value \in {"default", "chosen"},
           Config!Change(p, f, value)
    PROVE  ConfigInv'
<1>. DEFINE new == [s3[p] EXCEPT !.pc = "preserve", !.settings[f] = value]
            changed == [s3[p].settings EXCEPT ![f] = value]
<1>1. s3[p] \in Program
  BY DEF ConfigInv, ConfigType
<1>2. changed \in Choices
  BY <1>1 DEF Program, Choices
<1>3. new \in Program /\ new.pc = "preserve" /\ new.settings = changed
  BY <1>1, <1>2 DEF Program, Saving
<1>4. s3' = [s3 EXCEPT ![p] = new] /\ s3[p].pc = "idle" /\ s1' = s1 /\ s2' = s2
  BY <1>1 DEF Config!Change, Program, ConfigInv, ConfigType
<1>. HIDE DEF new
<1>5. Moves(p, "preserve", changed)
  BY <1>3, <1>4, ProgramMoves DEF ConfigInv
<1>6. [s4.asked EXCEPT ![f] = value] \in Choices
  BY DEF ConfigInv, ConfigType, ConfigPast, Choices
<1>7. /\ s4' \in ConfigPast /\ s4'.broken = s4.broken /\ s4'.asked = [s4.asked EXCEPT ![f] = value]
      /\ s4'.shared = s4.shared /\ s4'.excused = s4.excused
  <2>1. s4 \in ConfigPast
    BY DEF ConfigInv, ConfigType
  <2>2. s4' = [s4 EXCEPT !.changes = s4.changes + 1, !.asked = [s4.asked EXCEPT ![f] = value]]
    BY <2>1 DEF Config!Change, ConfigPast
  <2>3. s4.changes + 1 \in Nat
    BY <2>1 DEF ConfigPast
  <2>. QED BY <1>6, <2>1, <2>2, <2>3 DEF ConfigPast
<1>8. ConfigType'
  BY <1>4, <1>5, <1>7 DEF ConfigInv, ConfigType, Moves
<1>9. ConfigOne'
  BY <1>4, <1>5, <1>7 DEF ConfigInv, ConfigOne, Moves, IsShared
<1>10. ConfigBroken'
  BY <1>4, <1>5, <1>7 DEF ConfigInv, ConfigBroken, Moves, MovedAside, IsShared
<1>11. ConfigAsked'
  <2>. SUFFICES ASSUME NothingFailed(s4') PROVE ConfigAsked'
    BY DEF ConfigAsked
  <2>1. NothingFailed(s4) /\ \A q \in Programs \ {p} : s3[q].pc = "down"
    BY <1>4, <1>7 DEF NothingFailed, IsShared, ConfigInv, ConfigOne
  <2>2. s3[p].settings = s4.asked
    BY <1>4, <2>1 DEF ConfigInv, ConfigAsked
  <2>. QED BY <1>5, <1>7, <2>1, <2>2 DEF ConfigAsked, Moves, Saving
<1>. QED BY <1>8, <1>9, <1>10, <1>11 DEF ConfigInv

\* The steps of a save: the program has what was asked for, and nobody else is up.
LEMMA ConfigSave ==
    ASSUME ConfigInv, NEW p \in Programs, NEW to \in {"rename", "write", "idle"},
           s3[p].pc \in Saving, s3' = [s3 EXCEPT ![p].pc = to],
           s1' \in ConfigRec, s2' \in Nat, s1'.is # "broken" => s1'.number = 0,
           s4' \in ConfigPast, s4'.broken = s4.broken, s4'.asked = s4.asked, s4'.shared = s4.shared,
           s4.excused \subseteq s4'.excused,
           MovedAside(s4') =>
               /\ s1'.is = "broken" => s1'.number = s4.broken
               /\ s1'.is # "broken" => s4.broken = 0 \/ s2' = s4.broken
               /\ to = "rename" => s1'.is = "broken"
               /\ to = "write" => s1'.is # "broken",
           NothingFailed(s4') /\ to = "idle" =>
               s1'.is = "object" /\ s1'.settings = s3[p].settings
    PROVE  ConfigInv'
<1>. DEFINE new == [s3[p] EXCEPT !.pc = to]
<1>1. s3[p] \in Program
  BY DEF ConfigInv, ConfigType
<1>2. new \in Program /\ new.pc = to /\ new.settings = s3[p].settings
  BY <1>1 DEF Program, Saving
<1>3. s3' = [s3 EXCEPT ![p] = new]
  BY <1>1 DEF Program, ConfigInv, ConfigType
<1>. HIDE DEF new
<1>4. Moves(p, to, s3[p].settings)
  BY <1>2, <1>3, ProgramMoves DEF ConfigInv
<1>5. ~IsShared(s4') => ~IsShared(s4) /\ \A q \in Programs \ {p} : s3[q].pc = "down" /\ s3'[q] = s3[q]
  BY <1>4 DEF ConfigInv, ConfigOne, IsShared, Saving, Moves
<1>6. ConfigType'
  BY <1>4 DEF ConfigType, Moves
<1>7. ConfigOne'
  BY <1>4, <1>5 DEF ConfigInv, ConfigOne, Moves
<1>8. ConfigBroken'
  BY <1>4, <1>5 DEF ConfigBroken, Moves, MovedAside
<1>9. ConfigAsked'
  <2>. SUFFICES ASSUME NothingFailed(s4') PROVE ConfigAsked'
    BY DEF ConfigAsked
  <2>1. NothingFailed(s4) /\ \A q \in Programs \ {p} : s3[q].pc = "down" /\ s3'[q] = s3[q]
    BY <1>5 DEF NothingFailed
  <2>2. s3[p].settings = s4.asked /\ s4.asked \in Choices
    BY <2>1 DEF ConfigInv, ConfigType, ConfigPast, ConfigAsked, Saving
  <2>3. to = "idle" => InFile' = s4.asked
    BY <2>2, AskedIsValid DEF InFile
  <2>4. to # "idle" => to \in Saving
    BY DEF Saving
  <2>. QED BY <1>4, <2>1, <2>2, <2>3, <2>4 DEF ConfigAsked, Moves
<1>. QED BY <1>6, <1>7, <1>8, <1>9 DEF ConfigInv

LEMMA ConfigPreserve ==
    ASSUME ConfigInv, NEW p \in Programs, NEW readable \in BOOLEAN, Config!Preserve(p, readable)
    PROVE  ConfigInv'
<1>. DEFINE to == IF readable /\ s1.is = "broken" THEN "rename" ELSE "write"
<1>1. /\ s3[p].pc = "preserve" /\ s3' = [s3 EXCEPT ![p].pc = to] /\ s1' = s1 /\ s2' = s2
      /\ to \in {"rename", "write", "idle"} /\ to # "idle"
      /\ to = "rename" => s1.is = "broken"
      /\ to = "write" => ~readable \/ s1.is # "broken"
  BY DEF Config!Preserve
<1>. HIDE DEF to
<1>2. /\ s4' \in ConfigPast /\ s4'.broken = s4.broken /\ s4'.asked = s4.asked
      /\ s4'.shared = s4.shared /\ s4.excused \subseteq s4'.excused
      /\ ~readable => "unreadable" \in s4'.excused
  BY DEF Config!Preserve, ConfigInv, ConfigType, ConfigPast
<1>3. s1' \in ConfigRec /\ s2' \in Nat /\ (s1'.is # "broken" => s1'.number = 0)
  BY <1>1 DEF ConfigInv, ConfigType
<1>4. ASSUME MovedAside(s4')
      PROVE  /\ s1'.is = "broken" => s1'.number = s4.broken
             /\ s1'.is # "broken" => s4.broken = 0 \/ s2' = s4.broken
             /\ to = "rename" => s1'.is = "broken"
             /\ to = "write" => s1'.is # "broken"
  <2>1. readable /\ MovedAside(s4)
    BY <1>2, <1>4 DEF MovedAside, IsShared
  <2>. QED BY <1>1, <2>1 DEF ConfigInv, ConfigBroken
<1>5. s3[p].pc \in Saving
  BY <1>1 DEF Saving
<1>. QED BY <1>1, <1>2, <1>3, <1>4, <1>5, ConfigSave

LEMMA ConfigRename ==
    ASSUME ConfigInv, NEW p \in Programs, NEW ok \in BOOLEAN, Config!Rename(p, ok)
    PROVE  ConfigInv'
<1>1. s3[p].pc = "rename" /\ s3' = [s3 EXCEPT ![p].pc = "write"] /\ s3[p].pc \in Saving
  BY DEF Config!Rename, Saving
<1>2. /\ s4' \in ConfigPast /\ s4'.broken = s4.broken /\ s4'.asked = s4.asked
      /\ s4'.shared = s4.shared /\ s4.excused \subseteq s4'.excused
      /\ ~ok => "rename" \in s4'.excused
  BY DEF Config!Rename, ConfigInv, ConfigType, ConfigPast
<1>3. CASE ok /\ s1.is # "absent"
  <2>1. s1'.is = "absent" /\ s1'.number = 0 /\ s1' \in ConfigRec /\ s2' = s1.number
    BY <1>3, DefaultsAreAsked DEF Config!Rename, ConfigRec
  <2>2. s2' \in Nat
    BY <2>1 DEF ConfigInv, ConfigType, ConfigRec
  <2>3. MovedAside(s4') => s2' = s4.broken
    BY <1>1, <1>2, <2>1 DEF ConfigInv, ConfigBroken, MovedAside, IsShared
  <2>. QED BY <1>1, <1>2, <2>1, <2>2, <2>3, ConfigSave
<1>4. CASE ~(ok /\ s1.is # "absent")
  <2>1. s1' = s1 /\ s2' = s2
    BY <1>4 DEF Config!Rename
  <2>2. s1' \in ConfigRec /\ s2' \in Nat /\ (s1'.is # "broken" => s1'.number = 0)
    BY <2>1 DEF ConfigInv, ConfigType
  <2>3. ~MovedAside(s4')
    <3>1. CASE ~ok
      BY <1>2, <3>1 DEF MovedAside
    <3>2. CASE s1.is = "absent"
      BY <1>1, <1>2, <3>2 DEF ConfigInv, ConfigBroken, MovedAside, IsShared
    <3>. QED BY <1>4, <3>1, <3>2
  <2>. QED BY <1>1, <1>2, <2>2, <2>3, ConfigSave
<1>. QED BY <1>3, <1>4

LEMMA ConfigWrite ==
    ASSUME ConfigInv, NEW p \in Programs, NEW ok \in BOOLEAN, Config!Write(p, ok)
    PROVE  ConfigInv'
<1>1. /\ s3[p].pc = "write" /\ s3' = [s3 EXCEPT ![p].pc = "idle"] /\ s3[p].pc \in Saving
      /\ s2' = s2 /\ s1' = IF ok THEN Config!Object(s3[p].settings) ELSE s1
  BY DEF Config!Write, Saving
<1>2. /\ s4' \in ConfigPast /\ s4'.broken = s4.broken /\ s4'.asked = s4.asked
      /\ s4'.shared = s4.shared /\ s4.excused \subseteq s4'.excused
      /\ ~ok => "write" \in s4'.excused
  BY DEF Config!Write, ConfigInv, ConfigType, ConfigPast
<1>3. s3[p].settings \in Choices
  BY DEF ConfigInv, ConfigType, Program
<1>4. ok => /\ s1'.is = "object" /\ s1'.number = 0 /\ s1'.settings = s3[p].settings
            /\ s1' \in ConfigRec
  BY <1>1, <1>3, AskedIsValid DEF Config!Object, ConfigRec
<1>5. s1' \in ConfigRec /\ s2' \in Nat /\ (s1'.is # "broken" => s1'.number = 0)
  BY <1>1, <1>4 DEF ConfigInv, ConfigType
<1>6. ASSUME MovedAside(s4')
      PROVE  /\ s1'.is # "broken" /\ (s4.broken = 0 \/ s2' = s4.broken)
  BY <1>1, <1>2, <1>4, <1>6 DEF ConfigInv, ConfigBroken, MovedAside, IsShared
<1>7. NothingFailed(s4') => s1'.is = "object" /\ s1'.settings = s3[p].settings
  BY <1>2, <1>4 DEF NothingFailed
<1>. QED BY <1>1, <1>2, <1>5, <1>6, <1>7, ConfigSave

LEMMA ConfigEnds ==
    ASSUME ConfigInv, NEW p \in Programs, Config!Ends(p)
    PROVE  ConfigInv'
<1>1. Config!Down \in Program /\ Config!Down.pc = "down" /\ Config!Down.settings = Config!Defaults
  BY DefaultsAreAsked DEF Config!Down, Program
<1>2. s3' = [s3 EXCEPT ![p] = Config!Down] /\ s3[p].pc # "down" /\ s1' = s1 /\ s2' = s2
  BY DEF Config!Ends
<1>3. Moves(p, "down", Config!Defaults)
  BY <1>1, <1>2, ProgramMoves DEF ConfigInv
<1>4. /\ s4' \in ConfigPast /\ s4'.broken = s4.broken /\ s4'.asked = s4.asked
      /\ s4'.shared = s4.shared /\ s4.excused \subseteq s4'.excused
      /\ s4'.excused = {} => s3[p].pc = "idle"
  BY DEF Config!Ends, ConfigInv, ConfigType, ConfigPast
<1>5. ConfigType'
  BY <1>2, <1>3, <1>4 DEF ConfigInv, ConfigType, Moves
<1>6. ConfigOne'
  BY <1>3, <1>4 DEF ConfigInv, ConfigOne, Moves, IsShared
<1>7. ConfigBroken'
  BY <1>2, <1>3, <1>4 DEF ConfigInv, ConfigBroken, Moves, MovedAside, IsShared
<1>8. ConfigAsked'
  <2>. SUFFICES ASSUME NothingFailed(s4') PROVE ConfigAsked'
    BY DEF ConfigAsked
  <2>1. NothingFailed(s4) /\ s3[p].pc = "idle"
    BY <1>4 DEF NothingFailed, IsShared
  <2>2. (\A q \in Programs : s3'[q].pc \notin Saving) => \A q \in Programs : s3[q].pc \notin Saving
    BY <1>3, <2>1 DEF Moves, Saving
  <2>3. InFile' = InFile
    BY <1>2 DEF InFile
  <2>. QED BY <1>3, <1>4, <2>1, <2>2, <2>3 DEF ConfigInv, ConfigAsked, Moves
<1>. QED BY <1>5, <1>6, <1>7, <1>8 DEF ConfigInv

\* By hand, while no program runs.
LEMMA ConfigEdited ==
    ASSUME ConfigInv,
           \/ \E f \in Config!Fields, v \in Config!Values : Config!EditField(f, v)
           \/ Config!EditBreaks
    PROVE  ConfigInv'
<1>1. s3' = s3 /\ s2' = s2 /\ \A p \in Programs : s3[p].pc = "down"
  BY DEF Config!EditField, Config!EditBreaks
<1>2. ConfigOne'
  BY <1>1 DEF ConfigOne
<1>3. ASSUME NEW f \in Config!Fields, NEW v \in Config!Values, Config!EditField(f, v) PROVE ConfigInv'
  <2>. DEFINE settings == [s1.settings EXCEPT ![f] = v]
              value == IF v = "invalid" THEN "default" ELSE v
              asked == [s4.asked EXCEPT ![f] = value]
  <2>1. s1 \in ConfigRec /\ s4 \in ConfigPast
    BY DEF ConfigInv, ConfigType
  <2>2. settings \in [Config!Fields -> Config!Values] /\ asked \in Choices
    BY <2>1 DEF ConfigRec, ConfigPast, Choices, Config!Values
  <2>3. s1.is = "object" /\ s1' = [s1 EXCEPT !.settings = settings]
        /\ s4' = [s4 EXCEPT !.edits = s4.edits + 1, !.asked = asked]
    BY <1>3, <2>1 DEF Config!EditField, ConfigRec, ConfigPast
  <2>4. Config!Validated(s1.settings) = s4.asked => Config!Validated(settings) = asked
    BY <2>1 DEF Config!Validated, ConfigRec, ConfigPast, Choices, Config!Values
  <2>. HIDE DEF settings, asked
  <2>5. s1'.is = "object" /\ s1'.settings = settings /\ s1'.number = s1.number /\ s1' \in ConfigRec
    BY <2>1, <2>2, <2>3 DEF ConfigRec
  <2>a. s4.edits + 1 \in Nat
    BY <2>1 DEF ConfigPast
  <2>6. /\ s4' \in ConfigPast /\ s4'.broken = s4.broken /\ s4'.asked = asked
        /\ s4'.shared = s4.shared /\ s4'.excused = s4.excused
    BY <2>1, <2>2, <2>3, <2>a DEF ConfigPast
  <2>7. ConfigType'
    BY <1>1, <2>3, <2>5, <2>6 DEF ConfigInv, ConfigType
  <2>8. ConfigBroken'
    BY <1>1, <2>3, <2>5, <2>6 DEF ConfigInv, ConfigBroken, MovedAside, IsShared
  <2>9. ConfigAsked'
    <3>1. NothingFailed(s4') => NothingFailed(s4)
      BY <2>6 DEF NothingFailed, IsShared
    <3>. QED BY <1>1, <2>3, <2>4, <2>5, <2>6, <3>1 DEF ConfigInv, ConfigAsked, InFile, Saving
  <2>. QED BY <1>2, <2>7, <2>8, <2>9 DEF ConfigInv
<1>4. ASSUME Config!EditBreaks PROVE ConfigInv'
  <2>1. s4 \in ConfigPast /\ s4.edits + 1 \in Nat
    BY DEF ConfigInv, ConfigType, ConfigPast
  <2>2. /\ s1'.is = "broken" /\ s1'.number = s4.edits + 1 /\ s1' \in ConfigRec
    BY <1>4, <2>1, DefaultsAreAsked DEF Config!EditBreaks, Config!Broken, ConfigRec
  <2>3. /\ s4' \in ConfigPast /\ s4'.broken = s4.edits + 1 /\ s4'.asked = Config!Defaults
    BY <1>4, <2>1, DefaultsAreAsked DEF Config!EditBreaks, ConfigPast
  <2>4. ConfigType'
    BY <1>1, <2>2, <2>3 DEF ConfigInv, ConfigType
  <2>5. ConfigBroken'
    BY <1>1, <2>2, <2>3 DEF ConfigBroken
  <2>6. ConfigAsked'
    BY <1>1, <2>2, <2>3 DEF ConfigAsked, InFile
  <2>. QED BY <1>2, <2>4, <2>5, <2>6 DEF ConfigInv
<1>. QED BY <1>3, <1>4

LEMMA ConfigStep == ConfigInv /\ [PartsNext]_partsVars /\ part = "config" => ConfigInv'
<1>1. [PartsNext]_partsVars /\ part = "config" => Config!ConfigNext \/ UNCHANGED Config!configuration
  BY DEF PartsNext, partsVars, Config!configuration
<1>2. ConfigInv /\ Config!ConfigNext => ConfigInv'
  BY ConfigLoad, ConfigPreserve, ConfigRename, ConfigWrite, ConfigEnds, ConfigChange, ConfigEdited
     DEF Config!ConfigNext
<1>3. ConfigInv /\ UNCHANGED Config!configuration => ConfigInv'
  BY DEF Config!configuration, ConfigInv, ConfigType, ConfigOne, ConfigBroken, ConfigAsked, InFile
<1>. QED BY <1>1, <1>2, <1>3

\* With one program at a time, whatever else is in the file, however saves, ends of programs
\* and edits by hand follow each other, the settings asked for last are those the next start
\* has, and a text that could not be parsed is in its place or beside it; for any number of
\* programs.  (loadConfigDetailed, saveConfig, preserveBrokenConfig)
THEOREM ChoicesAreKept == PartsSpec => []SettingsSurvive
<1>. DEFINE Inv == part = "config" => ConfigInv
<1>1. PartsInit => Inv
  BY ConfigInitInv DEF PartsInit
<1>2. Inv /\ [PartsNext]_partsVars => Inv'
  BY ConfigStep, PartStays
<1>3. ConfigInv => Config!BrokenConfigIsKept
  <2>. SUFFICES ASSUME ConfigInv PROVE Config!BrokenConfigIsKept
    OBVIOUS
  <2>1. MovedAside(s4) => s1.number = s4.broken \/ s4.broken = 0 \/ s2 = s4.broken
    BY DEF ConfigInv, ConfigBroken
  <2>. QED BY <2>1 DEF MovedAside, IsShared, Config!BrokenConfigIsKept
<1>4. ConfigInv => Config!ChoicesSurvive
  <2>. SUFFICES ASSUME ConfigInv, NothingFailed(s4), \A p \in Programs : s3[p].pc \notin Saving,
                       s1.is = "object"
                PROVE  Config!Validated(s1.settings) = s4.asked
    BY DEF NothingFailed, IsShared, Saving, Config!ChoicesSurvive
  <2>. QED BY DEF ConfigInv, ConfigAsked, InFile
<1>5. Inv => SettingsSurvive
  BY <1>3, <1>4 DEF SettingsSurvive
<1>. QED BY <1>1, <1>2, <1>5, PTL DEF PartsSpec

-----------------------------------------------------------------------------
(* ShellCommand: s1 is caller, s2 group, s3 output.  What was shown of a command is what  *)
(* its result has, and a group that was stopped dies.                                      *)

ShellOutput ==
    /\ s3 \in [written : Nat, kept : Nat, live : Nat, truncated : BOOLEAN]
    /\ s3.live = s3.kept /\ s3.kept <= MaxOutput /\ s3.kept <= s3.written
    /\ s3.truncated <=> s3.written > s3.kept

\* A signal that has fired before the outcome finds no process, or stops it at once.
ShellCaller ==
    /\ s1 \in [kind : Shell!Kinds, command : Nat, signal : BOOLEAN, cancelled : BOOLEAN,
               exited : BOOLEAN,
               outcome : {"none", "aborted", "error", "passed", "failed", "no-auth", "exit"}]
    /\ s1.signal /\ s1.outcome = "none" => s2.leader = "none"
    /\ s1.cancelled => s1.outcome = "aborted"

ShellGroup ==
    /\ s2 \in [leader : {"none", "alive", "dead"}, child : {"none", "holding", "quiet", "dead"},
               code : 0..1, stop : {"none", "timeout", "abort"}, kill : {"none", "pending", "sent"}]
    /\ s2.leader = "none" => s2.kill = "none"
    /\ \/ s2.stop = "none" \/ s1.exited \/ s2.kill = "pending"
       \/ s2.leader = "dead" /\ s2.child \in {"none", "dead"}

ShellInv == ShellOutput /\ ShellCaller /\ ShellGroup

LEMMA MinOfTwo ==
    ASSUME NEW m \in Nat, NEW n \in Nat
    PROVE  Shell!Min({m, n}) = IF m <= n THEN m ELSE n
BY DEF Shell!Min

LEMMA ShellInitInv == Shell!ShellInit => ShellInv
<1>. SUFFICES ASSUME Shell!ShellInit PROVE ShellInv
  OBVIOUS
<1>1. PICK k \in Shell!Kinds :
        s1 = [kind |-> k, command |-> 0, outcome |-> "none", signal |-> FALSE,
              cancelled |-> FALSE, exited |-> FALSE]
  BY DEF Shell!ShellInit
<1>2. ShellOutput
  BY PartsAssumption DEF Shell!ShellInit, Shell!NoOutput, ShellOutput
<1>3. ShellCaller
  BY <1>1 DEF ShellCaller
<1>4. ShellGroup
  BY DEF Shell!ShellInit, Shell!NoGroup, ShellGroup
<1>. QED BY <1>2, <1>3, <1>4 DEF ShellInv

LEMMA ShellData ==
    ASSUME ShellInv, NEW n \in 1..2, Shell!Data(n)
    PROVE  ShellInv'
<1>. DEFINE room == MaxOutput - s3.kept
            adopted == IF n <= room THEN n ELSE room
<1>1. room \in Nat /\ n \in Nat /\ n >= 1 /\ adopted \in Nat
  BY PartsAssumption DEF ShellInv, ShellOutput
<1>2. Shell!Min({n, room}) = adopted
  BY <1>1, MinOfTwo
<1>3. s3' = [written |-> s3.written + n, kept |-> s3.kept + adopted, live |-> s3.live + adopted,
             truncated |-> s3.truncated \/ n > room] /\ s1' = s1 /\ s2' = s2
  BY <1>2 DEF Shell!Data, Shell!Adopted
<1>4. s3.written \in Nat /\ s3.kept \in Nat /\ s3.truncated \in BOOLEAN /\ MaxOutput \in Nat
  BY PartsAssumption DEF ShellInv, ShellOutput
<1>5. s3.written + n \in Nat /\ s3.kept + adopted \in Nat
      /\ s3.kept + adopted <= MaxOutput /\ s3.kept + adopted <= s3.written + n
  BY <1>1, <1>4 DEF ShellInv, ShellOutput
<1>6. (s3.truncated \/ n > room) <=> s3.written + n > s3.kept + adopted
  BY <1>1, <1>4 DEF ShellInv, ShellOutput
<1>7. s3.live = s3.kept
  BY DEF ShellInv, ShellOutput
<1>8. (s3.truncated \/ n > room) \in BOOLEAN
  OBVIOUS
<1>. HIDE DEF adopted, room
<1>9. ShellOutput'
  BY <1>3, <1>5, <1>6, <1>7, <1>8 DEF ShellOutput
<1>. QED BY <1>3, <1>9 DEF ShellInv, ShellCaller, ShellGroup

LEMMA ShellEnds ==
    ASSUME ShellInv,
           \/ Shell!Start \/ Shell!SpawnFails \/ Shell!Timeout \/ Shell!Abort
           \/ \E denied \in BOOLEAN : Shell!Close(denied)
    PROVE  ShellInv'
<1>. USE DEF ShellInv, ShellCaller, ShellGroup
<1>1. CASE Shell!Start
  <2>1. ShellOutput'
    BY <1>1, PartsAssumption DEF Shell!Start, Shell!NoOutput, ShellOutput
  <2>2. CASE s1.signal
    BY <1>1, <2>1, <2>2 DEF Shell!Start, Shell!Settle
  <2>3. CASE ~s1.signal
    BY <1>1, <2>1, <2>3 DEF Shell!Start, Shell!NoGroup
  <2>. QED BY <2>2, <2>3
<1>2. CASE Shell!SpawnFails
  BY <1>2 DEF Shell!SpawnFails, Shell!Settle, ShellOutput
<1>3. CASE Shell!Timeout
  BY <1>3 DEF Shell!Timeout, Shell!Stop, Shell!Stopped, Shell!Settle, Shell!Waiting, ShellOutput
<1>4. CASE Shell!Abort
  BY <1>4, ZenonT(40) DEF Shell!Abort, Shell!Stopped, ShellOutput
<1>5. ASSUME NEW denied \in BOOLEAN, Shell!Close(denied) PROVE ShellInv'
  <2>1. Shell!Outcome(s2.code, denied) \in {"passed", "failed", "no-auth", "exit"}
    BY DEF Shell!Outcome
  <2>2. ~s1.signal /\ s1.outcome = "none" /\ s2.stop = "none" /\ s3' = s3
    BY <1>5 DEF Shell!Close, Shell!Waiting
  <2>3. CASE Shell!MoreCommands(s2.code)
    BY <1>5, <2>2, <2>3 DEF Shell!Close, Shell!NoGroup, ShellOutput
  <2>4. CASE ~Shell!MoreCommands(s2.code)
    <3>1. s1' = [s1 EXCEPT !.outcome = Shell!Outcome(s2.code, denied), !.cancelled = s1.signal]
          /\ s2' = s2
      BY <1>5, <2>4 DEF Shell!Close, Shell!Settle
    <3>. QED BY <2>1, <2>2, <3>1 DEF ShellOutput
  <2>. QED BY <2>3, <2>4
<1>. QED BY <1>1, <1>2, <1>3, <1>4, <1>5

LEMMA ShellProcesses ==
    ASSUME ShellInv,
           \/ Shell!SigKill \/ Shell!OrcodeExits \/ Shell!ChildExits
           \/ \E holds \in BOOLEAN : Shell!StartChild(holds)
           \/ \E code \in 0..1 : Shell!LeaderExits(code)
    PROVE  ShellInv'
<1>. USE DEF ShellInv, ShellCaller, ShellGroup, ShellOutput
<1>1. CASE Shell!SigKill
  <2>1. s2' = [s2 EXCEPT !.kill = "sent", !.leader = "dead",
                         !.child = IF s2.child = "none" THEN s2.child ELSE "dead"]
        /\ s1' = s1 /\ s3' = s3
    BY <1>1 DEF Shell!SigKill
  <2>2. s2'.child \in {"none", "dead"} /\ s2'.leader = "dead" /\ s2'.kill = "sent"
        /\ s2'.stop = s2.stop /\ s2'.code = s2.code
    BY <2>1
  <2>3. ShellGroup'
    BY <2>1, <2>2
  <2>4. ShellCaller'
    BY <1>1, <2>1, <2>2 DEF Shell!SigKill
  <2>. QED BY <2>1, <2>3, <2>4
<1>2. CASE Shell!OrcodeExits
  BY <1>2 DEF Shell!OrcodeExits
<1>3. CASE Shell!ChildExits
  BY <1>3 DEF Shell!ChildExits
<1>4. ASSUME NEW holds \in BOOLEAN, Shell!StartChild(holds) PROVE ShellInv'
  BY <1>4 DEF Shell!StartChild
<1>5. ASSUME NEW code \in 0..1, Shell!LeaderExits(code) PROVE ShellInv'
  BY <1>5 DEF Shell!LeaderExits
<1>. QED BY <1>1, <1>2, <1>3, <1>4, <1>5

LEMMA ShellStep == ShellInv /\ [PartsNext]_partsVars /\ part = "shell" => ShellInv'
<1>1. [PartsNext]_partsVars /\ part = "shell" => Shell!ShellNext \/ UNCHANGED Shell!shell
  BY DEF PartsNext, partsVars, Shell!shell
<1>2. ShellInv /\ Shell!ShellNext => ShellInv'
  BY ShellData, ShellEnds, ShellProcesses DEF Shell!ShellNext
<1>3. ShellInv /\ UNCHANGED Shell!shell => ShellInv'
  BY DEF Shell!shell, ShellInv, ShellOutput, ShellCaller, ShellGroup
<1>. QED BY <1>1, <1>2, <1>3

\* However a command ends - by itself, by its limit, by the user, with children that outlive
\* it - what was shown is what its result has, a cancelled verification has no verdict, and a
\* group that was stopped is dead or has its SIGKILL coming while orcode is there; for every
\* limit of the output and every number of commands.  (runProcess, appendBounded, runVerify)
THEOREM Contained == PartsSpec => []CommandsAreContained
<1>. DEFINE Inv == part = "shell" => ShellInv
<1>1. PartsInit => Inv
  BY ShellInitInv DEF PartsInit
<1>2. Inv /\ [PartsNext]_partsVars => Inv'
  BY ShellStep, PartStays
<1>3. Inv => CommandsAreContained
  BY DEF ShellInv, ShellOutput, ShellCaller, ShellGroup, CommandsAreContained,
         Shell!CommandsAreContained
<1>. QED BY <1>1, <1>2, <1>3, PTL DEF PartsSpec

-----------------------------------------------------------------------------
(* BrowserCheck: s1 is body, s2 socket, s3 process, s4 outcome.  An inspection that has   *)
(* ended leaves no browser, no profile unless removing it failed, and no call waits on a   *)
(* connection that is gone.                                                                *)

BrowserInv ==
    /\ s2 \in [state : {"none", "connecting", "open", "gone"}, pending : SUBSET Nat,
               asked : SUBSET Nat, late : SUBSET Nat]
    /\ s4 \in [is : {"none", "racing", "failed to start", "waiting", "ended"},
             profile : {"none", "made", "gone", "left"}]
    /\ s1 \in [pc : {"start", "http", "off", "opening", "failed", "send", "await", "load", "done"},
               call : Nat, load : {"before", "seen", "missed"}, shot : BOOLEAN]
    /\ s4.is = "ended" => s3 \in {"killed", "dead"} /\ s4.profile # "made"
    /\ s2.state = "gone" => s2.pending \subseteq s2.late

LEMMA BrowserInitInv == Browser!BrowserInit => BrowserInv
BY DEF Browser!BrowserInit, BrowserInv

LEMMA Successor ==
    ASSUME NEW n \in Nat
    PROVE  n + 1 \in Nat
OBVIOUS

LEMMA AfterIsBody ==
    ASSUME BrowserInv, NEW n, NEW ok \in BOOLEAN
    PROVE  Browser!After(n, ok) \in [pc : {"start", "http", "off", "opening", "failed", "send",
               "await", "load", "done"}, call : Nat, load : {"before", "seen", "missed"}, shot : BOOLEAN]
BY DEF BrowserInv, Browser!After, Browser!Navigate

LEMMA BrowserBody ==
    ASSUME BrowserInv,
           \/ Browser!Connect \/ Browser!HttpFails \/ Browser!Opens \/ Browser!Send
           \/ Browser!LoadEvent \/ Browser!LoadTimesOut \/ Browser!BodyEnds
           \/ \E ok \in BOOLEAN : Browser!StartBrowser(ok)
    PROVE  BrowserInv'
<1>. USE DEF BrowserInv, Browser!BodyAt, Browser!BodyTo
<1>1. CASE Browser!Connect
  BY <1>1 DEF Browser!Connect
<1>2. CASE Browser!HttpFails
  BY <1>2 DEF Browser!HttpFails
<1>3. CASE Browser!Opens
  BY <1>3 DEF Browser!Opens
<1>4. CASE Browser!Send
  <2>1. PICK n \in Nat :
          /\ s1' = [s1 EXCEPT !.pc = "await", !.call = n]
          /\ s2' = IF s2.state = "open"
                   THEN [s2 EXCEPT !.pending = s2.pending \cup {n}, !.asked = s2.asked \cup {n}]
                   ELSE [s2 EXCEPT !.pending = s2.pending \cup {n}, !.late = s2.late \cup {n}]
          /\ s3' = s3 /\ s4' = s4
    <3>1. s1.call \in Nat
      OBVIOUS
    <3>2. s1.call + 1 \in Nat
      BY <3>1, Successor
    <3>. QED BY <1>4, <3>2 DEF Browser!Send
  <2>2. CASE s2.state = "open"
    BY <2>1, <2>2
  <2>3. CASE s2.state # "open"
    BY <2>1, <2>3
  <2>. QED BY <2>2, <2>3
<1>5. CASE Browser!LoadEvent
  BY <1>5 DEF Browser!LoadEvent
<1>6. CASE Browser!LoadTimesOut
  BY <1>6 DEF Browser!LoadTimesOut
<1>7. CASE Browser!BodyEnds
  BY <1>7 DEF Browser!BodyEnds
<1>8. ASSUME NEW ok \in BOOLEAN, Browser!StartBrowser(ok) PROVE BrowserInv'
  BY <1>8 DEF Browser!StartBrowser
<1>. QED BY <1>1, <1>2, <1>3, <1>4, <1>5, <1>6, <1>7, <1>8

LEMMA BrowserProcess ==
    ASSUME BrowserInv,
           \/ Browser!OnGone \/ Browser!Crashes \/ Browser!Timeout \/ Browser!Kill
           \/ \E ok \in BOOLEAN : Browser!Return(ok)
           \/ \E ok \in BOOLEAN, n \in Browser!Numbers : Browser!Answer(n, ok)
    PROVE  BrowserInv'
<1>. USE DEF BrowserInv
<1>1. CASE Browser!OnGone
  <2>1. s1' \in [pc : {"start", "http", "off", "opening", "failed", "send", "await", "load", "done"},
                 call : Nat, load : {"before", "seen", "missed"}, shot : BOOLEAN]
    BY <1>1, AfterIsBody DEF Browser!OnGone, Browser!Rejected
  <2>. QED BY <1>1, <2>1 DEF Browser!OnGone
<1>2. CASE Browser!Crashes
  BY <1>2 DEF Browser!Crashes
<1>3. CASE Browser!Timeout
  BY <1>3 DEF Browser!Timeout
<1>4. CASE Browser!Kill
  BY <1>4 DEF Browser!Kill
<1>5. ASSUME NEW ok \in BOOLEAN, Browser!Return(ok) PROVE BrowserInv'
  BY <1>5 DEF Browser!Return
<1>6. ASSUME NEW ok \in BOOLEAN, NEW n \in Browser!Numbers, Browser!Answer(n, ok) PROVE BrowserInv'
  <2>1. s1' \in [pc : {"start", "http", "off", "opening", "failed", "send", "await", "load", "done"},
                 call : Nat, load : {"before", "seen", "missed"}, shot : BOOLEAN]
    BY <1>6, AfterIsBody DEF Browser!Answer
  <2>. QED BY <1>6, <2>1 DEF Browser!Answer
<1>. QED BY <1>1, <1>2, <1>3, <1>4, <1>5, <1>6

LEMMA BrowserStep == BrowserInv /\ [PartsNext]_partsVars /\ part = "browser" => BrowserInv'
<1>1. [PartsNext]_partsVars /\ part = "browser" => Browser!BrowserNext \/ UNCHANGED Browser!browser
  BY DEF PartsNext, partsVars, Browser!browser
<1>2. BrowserInv /\ Browser!BrowserNext => BrowserInv'
  BY BrowserBody, BrowserProcess DEF Browser!BrowserNext
<1>3. BrowserInv /\ UNCHANGED Browser!browser => BrowserInv'
  BY DEF Browser!browser, BrowserInv
<1>. QED BY <1>1, <1>2, <1>3

\* Whatever order the limit, the crash of the browser, its answers and the end of the
\* inspection come in, the browser is killed or dead and the profile removed, unless that
\* failed, when inspectUrl returns, and what still waits on an ended connection was sent after it had ended.
\* (runWithHardTimeout, CdpClient)
THEOREM NothingLeft == PartsSpec => []InspectionLeavesNothing
<1>. DEFINE Inv == part = "browser" => BrowserInv
<1>1. PartsInit => Inv
  BY BrowserInitInv DEF PartsInit
<1>2. Inv /\ [PartsNext]_partsVars => Inv'
  BY BrowserStep, PartStays
<1>3. Inv => InspectionLeavesNothing
  BY DEF BrowserInv, InspectionLeavesNothing, Browser!InspectionLeavesNothing
<1>. QED BY <1>1, <1>2, <1>3, PTL DEF PartsSpec

-----------------------------------------------------------------------------
(* Induction, and what is computed by a fold over a set or by recursion on a number. *)

\* A set of numbers with 0 and the successor of each of its members is Nat.
LEMMA Induction ==
    ASSUME NEW S \in SUBSET Nat, 0 \in S, \A n \in S : n + 1 \in S
    PROVE  S = Nat
<1>. SUFFICES ASSUME Nat \ S # {} PROVE FALSE
  OBVIOUS
<1>. DEFINE R == OpToRel(<, Nat)
<1>1. IsWellFoundedOn(R, Nat)
  BY NatLessThanWellFounded
<1>2. PICK m \in Nat \ S : \A y \in Nat \ S : ~(<<y, m>> \in R)
  <2>. HIDE DEF R
  <2>. QED BY <1>1, WFMin
<1>3. m # 0 /\ m - 1 \in Nat /\ (m - 1) + 1 = m
  OBVIOUS
<1>4. m - 1 \notin S
  BY <1>3
<1>5. <<m - 1, m>> \in R
  BY <1>3 DEF OpToRel
<1>. QED BY <1>2, <1>3, <1>4, <1>5

\* A family of subsets of a finite set that has a set whenever it has the smaller ones has all.
LEMMA SubsetInduction ==
    ASSUME NEW D, IsFiniteSet(D), NEW P,
           \A s \in SUBSET D : (\A t \in SUBSET s : t # s => t \in P) => s \in P
    PROVE  SUBSET D \subseteq P
<1>. DEFINE R == StrictSubsetOrdering(D)
            T == (SUBSET D) \ P
<1>. SUFFICES ASSUME T # {} PROVE FALSE
  OBVIOUS
<1>1. IsWellFoundedOn(R, SUBSET D)
  <2>1. IsWellFoundedOn(StrictSubsetOrdering(D), FiniteSubsetsOf(D))
    BY FS_StrictSubsetOrderingWellFounded
  <2>2. FiniteSubsetsOf(D) = SUBSET D
    BY FS_FiniteSubsetsOfFinite
  <2>. QED BY <2>1, <2>2
<1>2. PICK s \in T : \A t \in T : ~(<<t, s>> \in R)
  <2>1. T \subseteq SUBSET D /\ T # {}
    OBVIOUS
  <2>. HIDE DEF R, T
  <2>. QED BY <1>1, <2>1, WFMin
<1>3. \A t \in SUBSET s : t # s => <<t, s>> \in R
  BY DEF StrictSubsetOrdering
<1>4. \A t \in SUBSET s : t # s => t \in P
  <2>1. \A t \in SUBSET s : t \in SUBSET D
    OBVIOUS
  <2>. SUFFICES ASSUME NEW t \in SUBSET s, t # s, t \notin P PROVE FALSE
    OBVIOUS
  <2>2. t \in T /\ <<t, s>> \in R
    BY <1>3, <2>1
  <2>. HIDE DEF R, T
  <2>. QED BY <1>2, <2>2
<1>. QED BY <1>2, <1>4

\* What a fold computes from a member and the fold of the others exists.
Unfolds(g, s, base, h, c) == g[s] = IF s = {} THEN base ELSE h[<<c[s], g[s \ {c[s]}]>>]
LEMMA FoldExists ==
    ASSUME NEW D, IsFiniteSet(D), NEW V, NEW base \in V, NEW h \in [D \X V -> V],
           NEW c, \A s \in SUBSET D : s # {} => c[s] \in s
    PROVE  \E g \in [SUBSET D -> V] : \A s \in SUBSET D : Unfolds(g, s, base, h, c)
<1>. DEFINE Upto(n) == {s \in SUBSET D : Cardinality(s) <= n}
            Good(g, n) == \A s \in Upto(n) : Unfolds(g, s, base, h, c)
            S == {n \in Nat : \E g \in [SUBSET D -> V] : Good(g, n)}
<1>1. \A s \in SUBSET D : IsFiniteSet(s) /\ Cardinality(s) \in Nat
  BY FS_Subset, FS_CardinalityType
<1>2. 0 \in S
  <2>1. \A s \in Upto(0) : s = {}
    BY <1>1, FS_EmptySet
  <2>2. [s \in SUBSET D |-> base] \in [SUBSET D -> V]
    OBVIOUS
  <2>3. Good([s \in SUBSET D |-> base], 0)
    BY <2>1 DEF Unfolds
  <2>. QED BY <2>2, <2>3
<1>3. ASSUME NEW n \in S PROVE n + 1 \in S
  <2>1. PICK g \in [SUBSET D -> V] : Good(g, n)
    OBVIOUS
  <2>. DEFINE new == [s \in SUBSET D |-> IF s = {} THEN base ELSE h[<<c[s], g[s \ {c[s]}]>>]]
  <2>2. \A s \in SUBSET D : s # {} => c[s] \in D /\ s \ {c[s]} \in SUBSET D
    OBVIOUS
  <2>3. \A s \in SUBSET D : s # {} => h[<<c[s], g[s \ {c[s]}]>>] \in V
    BY <2>2
  <2>4. new \in [SUBSET D -> V]
    BY <2>3
  <2>5. \A t \in Upto(n) : new[t] = g[t]
    BY <2>1 DEF Unfolds
  <2>6. ASSUME NEW s \in Upto(n + 1), s # {} PROVE s \ {c[s]} \in Upto(n)
    <3>1. c[s] \in s /\ s \in SUBSET D
      BY <2>6
    <3>2. Cardinality(s \ {c[s]}) = Cardinality(s) - 1
      BY <1>1, <3>1, FS_RemoveElement
    <3>3. Cardinality(s \ {c[s]}) <= n
      BY <1>1, <2>6, <3>2
    <3>. QED BY <2>2, <2>6, <3>3
  <2>7. Good(new, n + 1)
    <3>. SUFFICES ASSUME NEW s \in Upto(n + 1) PROVE Unfolds(new, s, base, h, c)
      OBVIOUS
    <3>1. CASE s = {}
      BY <3>1 DEF Unfolds
    <3>2. CASE s # {}
      <4>1. new[s \ {c[s]}] = g[s \ {c[s]}]
        BY <2>5, <2>6, <3>2
      <4>2. new[s] = h[<<c[s], g[s \ {c[s]}]>>]
        BY <3>2
      <4>. QED BY <3>2, <4>1, <4>2 DEF Unfolds
    <3>. QED BY <3>1, <3>2
  <2>. HIDE DEF new, Good
  <2>. QED BY <2>4, <2>7
<1>4. S = Nat
  <2>. HIDE DEF S
  <2>1. S \in SUBSET Nat
    BY DEF S
  <2>. QED BY <1>2, <1>3, <2>1, Induction
<1>5. Cardinality(D) \in S
  BY <1>1, <1>4
<1>6. PICK g \in [SUBSET D -> V] : Good(g, Cardinality(D))
  BY <1>5
<1>7. \A s \in SUBSET D : s \in Upto(Cardinality(D))
  BY <1>1, FS_Subset
<1>. QED BY <1>6, <1>7
-----------------------------------------------------------------------------
\* What the members of a set have in all, whichever member is taken out first.
Sums(g, f, D) ==
    /\ g \in [SUBSET D -> Nat]
    /\ g[{}] = 0
    /\ \A s \in SUBSET D : \A x \in s : g[s] = f[x] + g[s \ {x}]

OneByOne(g, f, D) ==
    /\ g \in [SUBSET D -> Nat]
    /\ g[{}] = 0
    /\ \A s \in SUBSET D : s # {} => \E x \in s : g[s] = f[x] + g[s \ {x}]
LEMMA SumUnfolds ==
    ASSUME NEW D, IsFiniteSet(D), NEW f \in [D -> Nat]
    PROVE  \E g : OneByOne(g, f, D) /\ Budget!Sum(f) = g[D]
<1>. DEFINE c == [s \in SUBSET D |-> CHOOSE x \in s : TRUE]
            h == [p \in D \X Nat |-> f[p[1]] + p[2]]
            Body(g) == [s \in SUBSET D |-> IF s = {} THEN 0
                           ELSE LET x == CHOOSE x \in s : TRUE IN f[x] + g[s \ {x}]]
            G == CHOOSE g : g = Body(g)
<1>1. Budget!Sum(f) = G[D]
  BY Zenon DEF Budget!Sum, Budget!FoldFunction, Budget!FoldFunctionOnSet, Budget!MapThenFoldSet
<1>2. \A s \in SUBSET D : s # {} => c[s] \in s
  OBVIOUS
<1>3. h \in [D \X Nat -> Nat] /\ \A x \in D, n \in Nat : h[<<x, n>>] = f[x] + n
  OBVIOUS
<1>4. PICK g \in [SUBSET D -> Nat] : \A s \in SUBSET D : Unfolds(g, s, 0, h, c)
  <2>. HIDE DEF c, h
  <2>. QED BY <1>2, <1>3, FoldExists
<1>5. \A s \in SUBSET D : s # {} => h[<<c[s], g[s \ {c[s]}]>>] = f[c[s]] + g[s \ {c[s]}]
  <2>1. \A s \in SUBSET D : s # {} => c[s] \in D /\ s \ {c[s]} \in SUBSET D
    BY <1>2
  <2>2. \A s \in SUBSET D : s # {} => g[s \ {c[s]}] \in Nat
    BY <2>1
  <2>. HIDE DEF c, h
  <2>. QED BY <1>3, <2>1, <2>2
<1>6. g = Body(g)
  <2>1. \A s \in SUBSET D : g[s] = IF s = {} THEN 0 ELSE f[c[s]] + g[s \ {c[s]}]
    BY <1>4, <1>5, Zenon DEF Unfolds
  <2>. QED BY <2>1
<1>7. G = Body(G)
  <2>. HIDE DEF Body
  <2>. QED BY <1>6
<1>8. \A s \in SUBSET D : G[s] = IF s = {} THEN 0 ELSE f[c[s]] + G[s \ {c[s]}]
  <2>. HIDE DEF G
  <2>. QED BY <1>7
<1>9. SUBSET D \subseteq {s \in SUBSET D : G[s] \in Nat}
  <2>. DEFINE P == {s \in SUBSET D : G[s] \in Nat}
  <2>. HIDE DEF G, c
  <2>1. ASSUME NEW s \in SUBSET D, \A t \in SUBSET s : t # s => t \in P PROVE s \in P
    <3>1. CASE s = {}
      <4>1. G[s] = 0
        BY <1>8, <3>1
      <4>. QED BY <4>1
    <3>2. CASE s # {}
      <4>1. s \ {c[s]} \in P /\ f[c[s]] \in Nat
        BY <1>2, <2>1, <3>2
      <4>2. G[s] = f[c[s]] + G[s \ {c[s]}]
        BY <1>8, <3>2
      <4>3. G[s \ {c[s]}] \in Nat
        BY <4>1
      <4>. QED BY <4>1, <4>2, <4>3
    <3>. QED BY <3>1, <3>2
  <2>. HIDE DEF P
  <2>2. SUBSET D \subseteq P
    BY <2>1, SubsetInduction
  <2>. QED BY <2>2 DEF P
<1>10. DOMAIN G = SUBSET D
  <2>. HIDE DEF G
  <2>. QED BY <1>7
<1>11. G \in [SUBSET D -> Nat]
  <2>1. G = [s \in SUBSET D |-> G[s]]
    <3>. HIDE DEF G
    <3>. QED BY <1>7, <1>10
  <2>. HIDE DEF G
  <2>. QED BY <1>9, <2>1
<1>. HIDE DEF G, c
<1>. QED BY <1>1, <1>2, <1>8, <1>11 DEF OneByOne

\* The sum of a function on a finite set, and on each of its subsets.
LEMMA SumIs ==
    ASSUME NEW D, IsFiniteSet(D), NEW f \in [D -> Nat]
    PROVE  \E g : Sums(g, f, D) /\ Budget!Sum(f) = g[D]
<1>0. PICK g : OneByOne(g, f, D) /\ Budget!Sum(f) = g[D]
  BY SumUnfolds
<1>1. /\ g \in [SUBSET D -> Nat] /\ g[{}] = 0
      /\ \A s \in SUBSET D : s # {} => \E x \in s : g[s] = f[x] + g[s \ {x}]
  BY <1>0 DEF OneByOne
<1>. DEFINE P == {s \in SUBSET D : \A x \in s : g[s] = f[x] + g[s \ {x}]}
<1>2. ASSUME NEW s \in SUBSET D, \A t \in SUBSET s : t # s => t \in P PROVE s \in P
  <2>. SUFFICES ASSUME NEW x \in s PROVE g[s] = f[x] + g[s \ {x}]
    OBVIOUS
  <2>1. PICK y \in s : g[s] = f[y] + g[s \ {y}]
    BY <1>1
  <2>2. CASE x = y
    BY <2>1, <2>2
  <2>3. CASE x # y
    <3>. DEFINE rest == (s \ {x}) \ {y}
    <3>1. rest = (s \ {y}) \ {x}
      OBVIOUS
    <3>2. s \ {y} \in P /\ s \ {x} \in P /\ x \in s \ {y} /\ y \in s \ {x}
      BY <1>2, <2>3
    <3>3. g[s \ {y}] = f[x] + g[rest] /\ g[s \ {x}] = f[y] + g[rest]
      BY <3>1, <3>2
    <3>4. f[x] \in Nat /\ f[y] \in Nat /\ g[rest] \in Nat
      BY <1>1
    <3>. HIDE DEF rest
    <3>. QED BY <2>1, <3>3, <3>4
  <2>. QED BY <2>2, <2>3
<1>3. SUBSET D \subseteq P
  <2>. HIDE DEF P
  <2>. QED BY <1>2, SubsetInduction
<1>. QED BY <1>0, <1>1, <1>3 DEF Sums

LEMMA SumType ==
    ASSUME NEW D, IsFiniteSet(D), NEW f \in [D -> Nat]
    PROVE  Budget!Sum(f) \in Nat
<1>1. PICK g : Sums(g, f, D) /\ Budget!Sum(f) = g[D]
  BY SumIs
<1>. QED BY <1>1 DEF Sums

\* Sums of functions one of which is nowhere greater than the other.
LEMMA PartsCompare ==
    ASSUME NEW D, IsFiniteSet(D), NEW f1 \in [D -> Nat], NEW f2 \in [D -> Nat],
           NEW g1, NEW g2, Sums(g1, f1, D), Sums(g2, f2, D),
           NEW S \in SUBSET D, \A x \in S : f1[x] <= f2[x]
    PROVE  g1[S] <= g2[S]
<1>. DEFINE P == {s \in SUBSET D : s \subseteq S => g1[s] <= g2[s]}
<1>1. ASSUME NEW s \in SUBSET D, \A t \in SUBSET s : t # s => t \in P PROVE s \in P
  <2>. SUFFICES ASSUME s \subseteq S PROVE g1[s] <= g2[s]
    OBVIOUS
  <2>1. CASE s = {}
    BY <2>1 DEF Sums
  <2>2. CASE s # {}
    <3>1. PICK x \in s : TRUE
      BY <2>2
    <3>2. s \ {x} \in P /\ s \ {x} \subseteq S
      BY <1>1, <3>1
    <3>3. g1[s \ {x}] <= g2[s \ {x}]
      BY <3>2
    <3>4. g1[s] = f1[x] + g1[s \ {x}] /\ g2[s] = f2[x] + g2[s \ {x}]
      BY <3>1 DEF Sums
    <3>5. f1[x] \in Nat /\ f2[x] \in Nat /\ f1[x] <= f2[x]
      BY <3>1
    <3>6. g1[s \ {x}] \in Nat /\ g2[s \ {x}] \in Nat
      BY <3>1 DEF Sums
    <3>. QED BY <3>3, <3>4, <3>5, <3>6
  <2>. QED BY <2>1, <2>2
<1>2. SUBSET D \subseteq P
  <2>. HIDE DEF P
  <2>. QED BY <1>1, SubsetInduction
<1>. QED BY <1>2

LEMMA SumCompare ==
    ASSUME NEW D, IsFiniteSet(D), NEW f1 \in [D -> Nat], NEW f2 \in [D -> Nat],
           \A x \in D : f1[x] <= f2[x]
    PROVE  Budget!Sum(f1) <= Budget!Sum(f2)
<1>1. PICK g1 : Sums(g1, f1, D) /\ Budget!Sum(f1) = g1[D]
  BY SumIs
<1>2. PICK g2 : Sums(g2, f2, D) /\ Budget!Sum(f2) = g2[D]
  BY SumIs
<1>3. D \in SUBSET D
  OBVIOUS
<1>4. g1[D] <= g2[D]
  BY <1>1, <1>2, <1>3, PartsCompare
<1>. QED BY <1>1, <1>2, <1>4

\* The sum follows a change of one member.
LEMMA SumChange ==
    ASSUME NEW D, IsFiniteSet(D), NEW f1 \in [D -> Nat], NEW f2 \in [D -> Nat],
           NEW x \in D, \A y \in D \ {x} : f2[y] = f1[y]
    PROVE  Budget!Sum(f2) + f1[x] = Budget!Sum(f1) + f2[x]
<1>1. PICK g1 : Sums(g1, f1, D) /\ Budget!Sum(f1) = g1[D]
  BY SumIs
<1>2. PICK g2 : Sums(g2, f2, D) /\ Budget!Sum(f2) = g2[D]
  BY SumIs
<1>. DEFINE S == D \ {x}
<1>3. S \in SUBSET D /\ (\A y \in S : f1[y] <= f2[y]) /\ (\A y \in S : f2[y] <= f1[y])
  OBVIOUS
<1>4. g1[S] <= g2[S] /\ g2[S] <= g1[S]
  <2>. HIDE DEF S
  <2>1. g1[S] <= g2[S]
    BY <1>1, <1>2, <1>3, PartsCompare
  <2>2. g2[S] <= g1[S]
    BY <1>1, <1>2, <1>3, PartsCompare
  <2>. QED BY <2>1, <2>2
<1>5. g1[D] = f1[x] + g1[S] /\ g2[D] = f2[x] + g2[S]
  BY <1>1, <1>2 DEF Sums
<1>6. g1[S] \in Nat /\ g2[S] \in Nat /\ f1[x] \in Nat /\ f2[x] \in Nat
  BY <1>1, <1>2, <1>3 DEF Sums
<1>. HIDE DEF S
<1>. QED BY <1>1, <1>2, <1>4, <1>5, <1>6

\* The sum of sums.
LEMMA SumPlus ==
    ASSUME NEW D, IsFiniteSet(D), NEW f1 \in [D -> Nat], NEW f2 \in [D -> Nat],
           NEW f \in [D -> Nat], \A x \in D : f[x] = f1[x] + f2[x]
    PROVE  Budget!Sum(f) = Budget!Sum(f1) + Budget!Sum(f2)
<1>1. PICK g1 : Sums(g1, f1, D) /\ Budget!Sum(f1) = g1[D]
  BY SumIs
<1>2. PICK g2 : Sums(g2, f2, D) /\ Budget!Sum(f2) = g2[D]
  BY SumIs
<1>3. PICK g : Sums(g, f, D) /\ Budget!Sum(f) = g[D]
  BY SumIs
<1>. DEFINE P == {s \in SUBSET D : g[s] = g1[s] + g2[s]}
<1>4. ASSUME NEW s \in SUBSET D, \A t \in SUBSET s : t # s => t \in P PROVE s \in P
  <2>1. CASE s = {}
    BY <1>1, <1>2, <1>3, <2>1 DEF Sums
  <2>2. CASE s # {}
    <3>1. PICK x \in s : TRUE
      BY <2>2
    <3>2. s \ {x} \in P
      BY <1>4, <3>1
    <3>3. g[s \ {x}] = g1[s \ {x}] + g2[s \ {x}]
      BY <3>2
    <3>4. g1[s] = f1[x] + g1[s \ {x}] /\ g2[s] = f2[x] + g2[s \ {x}]
      BY <1>1, <1>2, <3>1 DEF Sums
    <3>5. g[s] = (f1[x] + f2[x]) + g[s \ {x}]
      BY <1>3, <3>1 DEF Sums
    <3>6. f1[x] \in Nat /\ f2[x] \in Nat
      BY <3>1
    <3>7. g1[s \ {x}] \in Nat /\ g2[s \ {x}] \in Nat
      BY <1>1, <1>2, <3>1 DEF Sums
    <3>. QED BY <3>3, <3>4, <3>5, <3>6, <3>7
  <2>. QED BY <2>1, <2>2
<1>5. SUBSET D \subseteq P
  <2>. HIDE DEF P
  <2>. QED BY <1>4, SubsetInduction
<1>. QED BY <1>1, <1>2, <1>3, <1>5

LEMMA SumOfNothing ==
    ASSUME NEW D, IsFiniteSet(D), NEW f \in [D -> Nat], \A x \in D : f[x] = 0
    PROVE  Budget!Sum(f) = 0
<1>1. Budget!Sum(f) = Budget!Sum(f) + Budget!Sum(f)
  BY SumPlus
<1>. QED BY <1>1, SumType
-----------------------------------------------------------------------------
(* Spending: s1 is files, s2 open, s3 work, s4 today, s5 history.  Every cost is found   *)
(* again, and the budget holds but for the runs under way and what nothing checks.       *)

DayCosts == [Days -> Nat]
DoingRec == [kind : {"idle", "run", "free", "panel", "judge"}, observed : Nat,
             waiting : SUBSET Members]
HistoryRec == [paid : Nat, lost : Nat, unchecked : Nat]

\* What an instance has spent on a day that no check stood before and no file has.
Unsaved(w, saved, held) ==
    IF w.kind \in {"free", "judge"} THEN held - saved ELSE Budget!NotBooked(w)
\* What it may still book today without a check.
MayCost(w) == IF w.kind = "run" THEN MaxRunCost - w.observed ELSE Budget!NotBooked(w)
\* A session has what its file has, and what the run under way has cost.
IsInStep(w, saved, held) ==
    /\ saved <= held
    /\ w.kind \in {"idle", "panel"} => held = saved
    /\ w.kind = "run" => held <= saved + w.observed /\ w.observed <= MaxRunCost
FitsDays(w, f, o, now) ==
    \A d \in Days : IsInStep(w, f[d], o[d]) /\ (d > now => o[d] = 0)

BudgetType ==
    /\ s1 \in [Instances -> DayCosts] /\ s2 \in [Instances -> DayCosts]
    /\ s3 \in [Instances -> DoingRec] /\ s4 \in Days /\ s5 \in HistoryRec
UnsavedOn(d) == [i \in Instances |-> Unsaved(s3[i], s1[i][d], s2[i][d])]
OneRunEach == [i \in Instances |-> MaxRunCost]
AtMost(w, held, now) == held + (IF now THEN MayCost(w) ELSE 0)
AtMostOn(d) == [i \in Instances |-> AtMost(s3[i], s2[i][d], d = s4)]
\* No file has more than its session, and the sessions have no more than the limit, a run of
\* each instance and what was not checked, even when all runs under way cost what they may.
\* The last part needs the one before it: a run begins when the files are below the limit,
\* and the other sessions may be ahead of theirs.
FitsAll == \A i \in Instances : FitsDays(s3[i], s1[i], s2[i], s4)
UnsavedIsUnchecked == \A d \in Days : Budget!Sum(UnsavedOn(d)) <= s5.unchecked
SessionsAreBounded ==
    \A d \in Days : Budget!Sum(AtMostOn(d)) < DailyLimit + Budget!Sum(OneRunEach) + s5.unchecked
BudgetInv ==
    /\ BudgetType
    /\ FitsAll
    /\ Budget!EveryCostIsBookedOnce
    /\ UnsavedIsUnchecked
    /\ SessionsAreBounded

LEMMA BudgetSizes == IsFiniteSet(Instances) /\ IsFiniteSet(Days) /\ Days \subseteq Nat
                     /\ 1 \in Days /\ MaxRunCost \in Nat /\ DailyLimit \in Nat \ {0}
BY BudgetAssumption

LEMMA WeightTypes ==
    ASSUME NEW w \in DoingRec, NEW saved \in Nat, NEW held \in Nat, IsInStep(w, saved, held)
    PROVE  /\ Unsaved(w, saved, held) \in Nat /\ MayCost(w) \in Nat /\ Budget!NotBooked(w) \in Nat
           /\ \A now \in BOOLEAN : AtMost(w, held, now) \in Nat
<1>1. Budget!NotBooked(w) \in Nat
  BY DEF Budget!NotBooked, DoingRec
<1>2. Unsaved(w, saved, held) \in Nat
  <2>1. saved <= held
    BY DEF IsInStep
  <2>2. held - saved \in Nat
    BY <2>1
  <2>. QED BY <1>1, <2>2, Zenon DEF Unsaved
<1>3. MayCost(w) \in Nat
  <2>1. CASE w.kind = "run"
    <3>1. w.observed <= MaxRunCost /\ w.observed \in Nat
      BY <2>1 DEF IsInStep, DoingRec
    <3>2. MaxRunCost - w.observed \in Nat
      BY <3>1, BudgetSizes
    <3>. QED BY <2>1, <3>2 DEF MayCost
  <2>. QED BY <1>1, <2>1, Zenon DEF MayCost
<1>. QED BY <1>1, <1>2, <1>3 DEF AtMost

HeldBy == [i \in Instances |-> Budget!Sum(s2[i])]
NotBookedBy == [i \in Instances |-> Budget!NotBooked(s3[i])]
SumsAreTyped ==
    /\ \A d \in Days : UnsavedOn(d) \in [Instances -> Nat] /\ AtMostOn(d) \in [Instances -> Nat]
    /\ HeldBy \in [Instances -> Nat] /\ NotBookedBy \in [Instances -> Nat]
    /\ OneRunEach \in [Instances -> Nat]
LEMMA SumTypes == BudgetType /\ FitsAll => SumsAreTyped
<1>. SUFFICES ASSUME BudgetType, FitsAll PROVE SumsAreTyped
  OBVIOUS
<1>1. \A i \in Instances, d \in Days :
          s3[i] \in DoingRec /\ s1[i][d] \in Nat /\ s2[i][d] \in Nat
          /\ IsInStep(s3[i], s1[i][d], s2[i][d])
  BY DEF BudgetType, DayCosts, FitsAll, FitsDays
<1>2. \A i \in Instances, d \in Days :
          /\ Unsaved(s3[i], s1[i][d], s2[i][d]) \in Nat /\ Budget!NotBooked(s3[i]) \in Nat
          /\ AtMost(s3[i], s2[i][d], d = s4) \in Nat
  BY <1>1, WeightTypes
<1>3. \A i \in Instances : Budget!Sum(s2[i]) \in Nat
  BY SumType, BudgetSizes DEF BudgetType, DayCosts
<1>4. \A i \in Instances : Budget!NotBooked(s3[i]) \in Nat
  BY <1>2, BudgetSizes
<1>5. \A d \in Days : UnsavedOn(d) \in [Instances -> Nat]
  BY <1>2 DEF UnsavedOn
<1>6. \A d \in Days : AtMostOn(d) \in [Instances -> Nat]
  BY <1>2 DEF AtMostOn
<1>7. OneRunEach \in [Instances -> Nat]
  BY BudgetSizes DEF OneRunEach
<1>8. HeldBy \in [Instances -> Nat]
  BY <1>3 DEF HeldBy
<1>9. NotBookedBy \in [Instances -> Nat]
  BY <1>4 DEF NotBookedBy
<1>. QED BY <1>5, <1>6, <1>7, <1>8, <1>9 DEF SumsAreTyped

LEMMA BudgetInitInv == Budget!SpendingInit => BudgetInv
<1>. SUFFICES ASSUME Budget!SpendingInit PROVE BudgetInv
  OBVIOUS
<1>1. BudgetType
  BY BudgetSizes DEF Budget!SpendingInit, BudgetType, DayCosts, DoingRec, HistoryRec,
     Budget!Nothing, Budget!Idle
<1>2. \A i \in Instances, d \in Days : s1[i][d] = 0 /\ s2[i][d] = 0
  BY DEF Budget!SpendingInit, Budget!Nothing
<1>3. \A i \in Instances : s3[i] = Budget!Idle
  BY DEF Budget!SpendingInit
<1>4. /\ IsInStep(Budget!Idle, 0, 0) /\ Unsaved(Budget!Idle, 0, 0) = 0 /\ MayCost(Budget!Idle) = 0
      /\ Budget!NotBooked(Budget!Idle) = 0
  BY DEF IsInStep, Unsaved, MayCost, Budget!Idle, Budget!NotBooked
<1>5. FitsAll
  BY <1>2, <1>3, <1>4 DEF FitsAll, FitsDays
<1>. SumsAreTyped
  BY <1>1, <1>5, SumTypes
<1>6. \A i \in Instances : Budget!Sum(s2[i]) = 0
  BY <1>1, <1>2, SumOfNothing, BudgetSizes DEF BudgetType, DayCosts
<1>7. Budget!EveryCostIsBookedOnce
  <2>1. Budget!Booked = 0
    <3>1. \A i \in Instances : HeldBy[i] = 0
      BY <1>6 DEF HeldBy
    <3>2. Budget!Sum(HeldBy) = 0
      BY <3>1, SumOfNothing, BudgetSizes DEF SumsAreTyped
    <3>. QED BY <3>2 DEF HeldBy, Budget!Booked
  <2>2. Budget!UnderWay = 0
    <3>1. \A i \in Instances : NotBookedBy[i] = 0
      BY <1>3, <1>4 DEF NotBookedBy
    <3>2. Budget!Sum(NotBookedBy) = 0
      BY <3>1, SumOfNothing, BudgetSizes DEF SumsAreTyped
    <3>. QED BY <3>2 DEF NotBookedBy, Budget!UnderWay
  <2>. QED BY <2>1, <2>2 DEF Budget!EveryCostIsBookedOnce, Budget!SpendingInit
<1>8. s5.unchecked = 0
  BY DEF Budget!SpendingInit
<1>9. ASSUME NEW d \in Days
      PROVE  Budget!Sum(UnsavedOn(d)) = 0 /\ Budget!Sum(AtMostOn(d)) = 0
  <2>1. \A i \in Instances : UnsavedOn(d)[i] = 0
    BY <1>2, <1>3, <1>4 DEF UnsavedOn
  <2>2. \A i \in Instances : AtMostOn(d)[i] = 0
    BY <1>2, <1>3, <1>4 DEF AtMostOn, AtMost
  <2>3. UnsavedOn(d) \in [Instances -> Nat] /\ AtMostOn(d) \in [Instances -> Nat]
    BY DEF SumsAreTyped
  <2>. QED BY <2>1, <2>2, <2>3, SumOfNothing, BudgetSizes
<1>10. Budget!Sum(OneRunEach) \in Nat
  BY SumType, BudgetSizes DEF SumsAreTyped
<1>11. UnsavedIsUnchecked
  BY <1>8, <1>9 DEF UnsavedIsUnchecked
<1>12. SessionsAreBounded
  BY <1>8, <1>9, <1>10, BudgetSizes DEF SessionsAreBounded
<1>. QED BY <1>1, <1>5, <1>7, <1>11, <1>12 DEF BudgetInv

LEMMA TypesNext == BudgetType' /\ FitsAll' => SumsAreTyped'
BY SumTypes, PTL

\* A step in which one instance goes from one state to another.
Shift(i, f, o, w, h) ==
    /\ s1' = [s1 EXCEPT ![i] = f] /\ s2' = [s2 EXCEPT ![i] = o] /\ s3' = [s3 EXCEPT ![i] = w]
    /\ s4' = s4 /\ s5' = h
    /\ FitsDays(w, f, o, s4)
    /\ Budget!Sum(o) + Budget!NotBooked(w) + h.lost + s5.paid
           = Budget!Sum(s2[i]) + Budget!NotBooked(s3[i]) + s5.lost + h.paid
    /\ \A d \in Days : Unsaved(w, f[d], o[d]) + s5.unchecked
                           <= Unsaved(s3[i], s1[i][d], s2[i][d]) + h.unchecked

LEMMA MoveTypes ==
    ASSUME BudgetInv, NEW i \in Instances, NEW f \in DayCosts, NEW o \in DayCosts,
           NEW w \in DoingRec, NEW h \in HistoryRec, Shift(i, f, o, w, h)
    PROVE  /\ BudgetType' /\ FitsAll' /\ SumsAreTyped /\ SumsAreTyped'
           /\ s1'[i] = f /\ s2'[i] = o /\ s3'[i] = w
           /\ \A j \in Instances \ {i} : s1'[j] = s1[j] /\ s2'[j] = s2[j] /\ s3'[j] = s3[j]
<1>1. BudgetType /\ FitsAll
  BY DEF BudgetInv
<1>2. s1'[i] = f /\ s2'[i] = o /\ s3'[i] = w
  BY <1>1 DEF Shift, BudgetType
<1>3. \A j \in Instances \ {i} : s1'[j] = s1[j] /\ s2'[j] = s2[j] /\ s3'[j] = s3[j]
  BY <1>1 DEF Shift, BudgetType
<1>4. BudgetType'
  BY <1>1 DEF Shift, BudgetType
<1>5. s4' = s4 /\ FitsDays(w, f, o, s4)
  BY DEF Shift
<1>6. \A j \in Instances : FitsDays(s3'[j], s1'[j], s2'[j], s4')
  BY <1>1, <1>2, <1>3, <1>5 DEF FitsAll
<1>7. FitsAll'
  BY <1>6 DEF FitsAll
<1>8. SumsAreTyped /\ SumsAreTyped'
  BY <1>1, <1>4, <1>7, SumTypes, TypesNext
<1>. QED BY <1>2, <1>3, <1>4, <1>7, <1>8

LEMMA MoveIsBooked ==
    ASSUME BudgetInv, NEW i \in Instances, NEW f \in DayCosts, NEW o \in DayCosts,
           NEW w \in DoingRec, NEW h \in HistoryRec, Shift(i, f, o, w, h)
    PROVE  Budget!EveryCostIsBookedOnce' /\ UnsavedIsUnchecked'
<1>1. /\ BudgetType' /\ FitsAll' /\ SumsAreTyped /\ SumsAreTyped'
      /\ s1'[i] = f /\ s2'[i] = o /\ s3'[i] = w
      /\ \A j \in Instances \ {i} : s1'[j] = s1[j] /\ s2'[j] = s2[j] /\ s3'[j] = s3[j]
  BY MoveTypes
<1>2. BudgetType /\ Budget!EveryCostIsBookedOnce /\ UnsavedIsUnchecked
  BY DEF BudgetInv
<1>3. HeldBy \in [Instances -> Nat] /\ HeldBy' \in [Instances -> Nat]
  BY <1>1 DEF SumsAreTyped
<1>4. NotBookedBy \in [Instances -> Nat] /\ NotBookedBy' \in [Instances -> Nat]
  BY <1>1 DEF SumsAreTyped
<1>5. Budget!Sum(HeldBy') + Budget!Sum(s2[i]) = Budget!Sum(HeldBy) + Budget!Sum(o)
  <2>1. HeldBy[i] = Budget!Sum(s2[i]) /\ HeldBy'[i] = Budget!Sum(o)
    BY <1>1 DEF HeldBy
  <2>2. \A j \in Instances \ {i} : HeldBy'[j] = HeldBy[j]
    BY <1>1 DEF HeldBy
  <2>. QED BY <1>3, <2>1, <2>2, SumChange, BudgetSizes
<1>6. Budget!Sum(NotBookedBy') + Budget!NotBooked(s3[i])
          = Budget!Sum(NotBookedBy) + Budget!NotBooked(w)
  <2>1. NotBookedBy[i] = Budget!NotBooked(s3[i]) /\ NotBookedBy'[i] = Budget!NotBooked(w)
    BY <1>1 DEF NotBookedBy
  <2>2. \A j \in Instances \ {i} : NotBookedBy'[j] = NotBookedBy[j]
    BY <1>1 DEF NotBookedBy
  <2>. QED BY <1>4, <2>1, <2>2, SumChange, BudgetSizes
<1>7. Budget!EveryCostIsBookedOnce'
  <2>1. /\ Budget!Sum(HeldBy) \in Nat /\ Budget!Sum(HeldBy') \in Nat
        /\ Budget!Sum(NotBookedBy) \in Nat /\ Budget!Sum(NotBookedBy') \in Nat
    BY <1>3, <1>4, SumType, BudgetSizes
  <2>2. Budget!Sum(s2[i]) \in Nat /\ Budget!Sum(o) \in Nat
    BY <1>2, SumType, BudgetSizes DEF BudgetType, DayCosts
  <2>3. Budget!NotBooked(s3[i]) \in Nat /\ Budget!NotBooked(w) \in Nat
    BY <1>2 DEF BudgetType, DoingRec, Budget!NotBooked
  <2>4. s5.lost \in Nat /\ s5.paid \in Nat /\ h.lost \in Nat /\ h.paid \in Nat /\ s5' = h
    BY <1>2 DEF BudgetType, HistoryRec, Shift
  <2>5. Budget!Sum(HeldBy) + Budget!Sum(NotBookedBy) + s5.lost = s5.paid
    BY <1>2 DEF Budget!EveryCostIsBookedOnce, Budget!Booked, Budget!UnderWay, HeldBy, NotBookedBy
  <2>6. Budget!Sum(o) + Budget!NotBooked(w) + h.lost + s5.paid
            = Budget!Sum(s2[i]) + Budget!NotBooked(s3[i]) + s5.lost + h.paid
    BY DEF Shift
  <2>7. Budget!Sum(HeldBy') + Budget!Sum(NotBookedBy') + h.lost = h.paid
    <3>. DEFINE a == Budget!Sum(HeldBy)     a1 == Budget!Sum(HeldBy')
                b == Budget!Sum(NotBookedBy)     b1 == Budget!Sum(NotBookedBy')
                x == Budget!Sum(s2[i])     x1 == Budget!Sum(o)
                y == Budget!NotBooked(s3[i])     y1 == Budget!NotBooked(w)
    <3>1. a \in Nat /\ a1 \in Nat /\ b \in Nat /\ b1 \in Nat
      BY <2>1
    <3>2. x \in Nat /\ x1 \in Nat /\ y \in Nat /\ y1 \in Nat
      BY <2>2, <2>3
    <3>3. a1 + x = a + x1 /\ b1 + y = b + y1
      BY <1>5, <1>6
    <3>4. a + b + s5.lost = s5.paid /\ x1 + y1 + h.lost + s5.paid = x + y + s5.lost + h.paid
      BY <2>5, <2>6
    <3>. HIDE DEF a, a1, b, b1, x, x1, y, y1
    <3>5. a1 + b1 + h.lost = h.paid
      BY <2>4, <3>1, <3>2, <3>3, <3>4
    <3>. QED BY <3>5 DEF a1, b1
  <2>8. Budget!Booked' = Budget!Sum(HeldBy') /\ Budget!UnderWay' = Budget!Sum(NotBookedBy')
    BY DEF Budget!Booked, Budget!UnderWay, HeldBy, NotBookedBy
  <2>. QED BY <2>4, <2>7, <2>8 DEF Budget!EveryCostIsBookedOnce
<1>8. ASSUME NEW d \in Days PROVE Budget!Sum(UnsavedOn(d)') <= h.unchecked
  <2>1. UnsavedOn(d) \in [Instances -> Nat] /\ UnsavedOn(d)' \in [Instances -> Nat]
    BY <1>1 DEF SumsAreTyped
  <2>2. UnsavedOn(d)[i] = Unsaved(s3[i], s1[i][d], s2[i][d])
        /\ UnsavedOn(d)'[i] = Unsaved(w, f[d], o[d])
    BY <1>1 DEF UnsavedOn
  <2>3. \A j \in Instances \ {i} : UnsavedOn(d)'[j] = UnsavedOn(d)[j]
    BY <1>1 DEF UnsavedOn
  <2>4. Budget!Sum(UnsavedOn(d)') + UnsavedOn(d)[i] = Budget!Sum(UnsavedOn(d)) + UnsavedOn(d)'[i]
    BY <2>1, <2>3, SumChange, BudgetSizes
  <2>5. Budget!Sum(UnsavedOn(d)) \in Nat /\ Budget!Sum(UnsavedOn(d)') \in Nat
    BY <2>1, SumType, BudgetSizes
  <2>6. UnsavedOn(d)[i] \in Nat /\ UnsavedOn(d)'[i] \in Nat
    BY <2>1
  <2>7. s5.unchecked \in Nat /\ h.unchecked \in Nat
    BY <1>2 DEF BudgetType, HistoryRec
  <2>8. Budget!Sum(UnsavedOn(d)) <= s5.unchecked
    BY <1>2 DEF UnsavedIsUnchecked
  <2>9. UnsavedOn(d)'[i] + s5.unchecked <= UnsavedOn(d)[i] + h.unchecked
    BY <2>2 DEF Shift
  <2>. QED BY <2>4, <2>5, <2>6, <2>7, <2>8, <2>9
<1>9. UnsavedIsUnchecked'
  BY <1>8 DEF UnsavedIsUnchecked, Shift
<1>. QED BY <1>7, <1>9

LEMMA MoveIsBounded ==
    ASSUME BudgetInv, NEW i \in Instances, NEW f \in DayCosts, NEW o \in DayCosts,
           NEW w \in DoingRec, NEW h \in HistoryRec, Shift(i, f, o, w, h),
           \A d \in Days : AtMost(w, o[d], d = s4) + s5.unchecked
                               <= AtMost(s3[i], s2[i][d], d = s4) + h.unchecked
    PROVE  BudgetInv'
<1>1. /\ BudgetType' /\ FitsAll' /\ SumsAreTyped /\ SumsAreTyped'
      /\ s1'[i] = f /\ s2'[i] = o /\ s3'[i] = w
      /\ \A j \in Instances \ {i} : s1'[j] = s1[j] /\ s2'[j] = s2[j] /\ s3'[j] = s3[j]
  BY MoveTypes
<1>2. BudgetType /\ SessionsAreBounded /\ s4' = s4 /\ s5' = h
  BY DEF BudgetInv, Shift
<1>3. ASSUME NEW d \in Days
      PROVE  Budget!Sum(AtMostOn(d)') < DailyLimit + Budget!Sum(OneRunEach) + h.unchecked
  <2>1. AtMostOn(d) \in [Instances -> Nat] /\ AtMostOn(d)' \in [Instances -> Nat]
    BY <1>1 DEF SumsAreTyped
  <2>2. AtMostOn(d)[i] = AtMost(s3[i], s2[i][d], d = s4)
        /\ AtMostOn(d)'[i] = AtMost(w, o[d], d = s4)
    BY <1>1, <1>2 DEF AtMostOn
  <2>3. \A j \in Instances \ {i} : AtMostOn(d)'[j] = AtMostOn(d)[j]
    BY <1>1, <1>2 DEF AtMostOn
  <2>4. Budget!Sum(AtMostOn(d)') + AtMostOn(d)[i] = Budget!Sum(AtMostOn(d)) + AtMostOn(d)'[i]
    BY <2>1, <2>3, SumChange, BudgetSizes
  <2>5. Budget!Sum(AtMostOn(d)) \in Nat /\ Budget!Sum(AtMostOn(d)') \in Nat
        /\ Budget!Sum(OneRunEach) \in Nat
    BY <1>1, <2>1, SumType, BudgetSizes DEF SumsAreTyped
  <2>6. AtMostOn(d)[i] \in Nat /\ AtMostOn(d)'[i] \in Nat
    BY <2>1
  <2>7. s5.unchecked \in Nat /\ h.unchecked \in Nat
    BY <1>2 DEF BudgetType, HistoryRec
  <2>8. Budget!Sum(AtMostOn(d)) < DailyLimit + Budget!Sum(OneRunEach) + s5.unchecked
    BY <1>2 DEF SessionsAreBounded
  <2>9. AtMostOn(d)'[i] + s5.unchecked <= AtMostOn(d)[i] + h.unchecked
    BY <2>2
  <2>. QED BY <2>4, <2>5, <2>6, <2>7, <2>8, <2>9, BudgetSizes
<1>4. SessionsAreBounded'
  <2>1. OneRunEach' = OneRunEach
    BY DEF OneRunEach
  <2>. QED BY <1>2, <1>3, <2>1 DEF SessionsAreBounded
<1>. QED BY <1>1, <1>4, MoveIsBooked DEF BudgetInv

LEMMA AddCostIs ==
    ASSUME s4 \in Days, NEW o \in DayCosts, NEW a \in Nat
    PROVE  /\ Budget!AddCost(o, a) \in DayCosts
           /\ Budget!Sum(Budget!AddCost(o, a)) = Budget!Sum(o) + a
           /\ \A d \in Days : Budget!AddCost(o, a)[d] = IF d = s4 THEN o[d] + a ELSE o[d]
<1>. DEFINE n == Budget!AddCost(o, a)
<1>1. n \in [Days -> Nat] /\ o \in [Days -> Nat]
  BY DEF DayCosts, Budget!AddCost
<1>2. \A d \in Days : n[d] = IF d = s4 THEN o[d] + a ELSE o[d]
  BY DEF DayCosts, Budget!AddCost
<1>3. Budget!Sum(n) + o[s4] = Budget!Sum(o) + n[s4]
  <2>. HIDE DEF n
  <2>1. (\A d \in Days \ {s4} : n[d] = o[d]) /\ IsFiniteSet(Days)
    BY <1>2, BudgetSizes
  <2>. QED BY <1>1, <2>1, SumChange
<1>4. Budget!Sum(n) \in Nat /\ Budget!Sum(o) \in Nat /\ o[s4] \in Nat /\ n[s4] = o[s4] + a
  <2>. HIDE DEF n
  <2>. QED BY <1>1, <1>2, SumType, BudgetSizes
<1>. HIDE DEF n
<1>5. Budget!Sum(n) = Budget!Sum(o) + a
  <2>. DEFINE sn == Budget!Sum(n)  so == Budget!Sum(o)
  <2>1. sn + o[s4] = so + (o[s4] + a) /\ sn \in Nat /\ so \in Nat /\ o[s4] \in Nat
    BY <1>3, <1>4
  <2>. HIDE DEF sn, so
  <2>2. sn = so + a
    BY <2>1
  <2>. QED BY <2>2 DEF sn, so
<1>. QED BY <1>1, <1>2, <1>5 DEF n, DayCosts

\* What is known of the instance that makes a step.
LEMMA Actor ==
    ASSUME BudgetInv, NEW i \in Instances
    PROVE  /\ s4 \in Days /\ s1[i] \in DayCosts /\ s2[i] \in DayCosts /\ s3[i] \in DoingRec
           /\ s5 \in HistoryRec /\ s5.paid \in Nat /\ s5.lost \in Nat /\ s5.unchecked \in Nat
           /\ Budget!Sum(s1[i]) \in Nat /\ Budget!Sum(s2[i]) \in Nat
           /\ s3[i].observed \in Nat /\ s3[i].waiting \in SUBSET Members
           /\ \A d \in Days : /\ s1[i][d] \in Nat /\ s2[i][d] \in Nat
                              /\ IsInStep(s3[i], s1[i][d], s2[i][d]) /\ (d > s4 => s2[i][d] = 0)
           /\ s1 = [s1 EXCEPT ![i] = s1[i]] /\ s2 = [s2 EXCEPT ![i] = s2[i]]
           /\ s3 = [s3 EXCEPT ![i] = s3[i]]
<1>1. BudgetType /\ FitsAll
  BY DEF BudgetInv
<1>2. s4 \in Days /\ s1[i] \in DayCosts /\ s2[i] \in DayCosts /\ s3[i] \in DoingRec
      /\ s5 \in HistoryRec
  BY <1>1 DEF BudgetType
<1>3. s5.paid \in Nat /\ s5.lost \in Nat /\ s5.unchecked \in Nat
  BY <1>2 DEF HistoryRec
<1>4. s3[i].observed \in Nat /\ s3[i].waiting \in SUBSET Members
  BY <1>2 DEF DoingRec
<1>5. Budget!Sum(s1[i]) \in Nat /\ Budget!Sum(s2[i]) \in Nat
  BY <1>2, SumType, BudgetSizes DEF DayCosts
<1>6. \A d \in Days : /\ s1[i][d] \in Nat /\ s2[i][d] \in Nat
                      /\ IsInStep(s3[i], s1[i][d], s2[i][d]) /\ (d > s4 => s2[i][d] = 0)
  BY <1>1, <1>2 DEF FitsAll, FitsDays, DayCosts
<1>7. /\ s1 = [s1 EXCEPT ![i] = s1[i]] /\ s2 = [s2 EXCEPT ![i] = s2[i]]
      /\ s3 = [s3 EXCEPT ![i] = s3[i]]
  BY <1>1 DEF BudgetType
<1>. QED BY <1>2, <1>3, <1>4, <1>5, <1>6, <1>7

LEMMA IdleIs == Budget!Idle \in DoingRec /\ Budget!NotBooked(Budget!Idle) = 0
                /\ (\A d \in Days : Unsaved(Budget!Idle, d, d) = 0) /\ MayCost(Budget!Idle) = 0
                /\ (\A n \in Nat : IsInStep(Budget!Idle, n, n))
                /\ Budget!Idle.kind = "idle" /\ Budget!Idle.observed = 0
                /\ Budget!Idle.waiting = {}
BY DEF Budget!Idle, DoingRec, Budget!NotBooked, Unsaved, MayCost, IsInStep

More(h, a, l, u) ==
    [paid |-> h.paid + a, lost |-> h.lost + l, unchecked |-> h.unchecked + u]
Now(k, n, r) == [kind |-> k, observed |-> n, waiting |-> r]

LEMMA MoreIs == ASSUME NEW h \in HistoryRec PROVE h = More(h, 0, 0, 0)
<1>1. h.paid \in Nat /\ h.lost \in Nat /\ h.unchecked \in Nat
  BY DEF HistoryRec
<1>2. h = [paid |-> h.paid, lost |-> h.lost, unchecked |-> h.unchecked]
  BY DEF HistoryRec
<1>3. h.paid + 0 = h.paid /\ h.lost + 0 = h.lost /\ h.unchecked + 0 = h.unchecked
  BY <1>1
<1>. QED BY <1>2, <1>3 DEF More


\* The same of an instance in terms of what it does and what that has cost so far.
Tasks == {"idle", "run", "free", "panel", "judge"}
Pending(k, n) == IF k = "panel" THEN n ELSE 0
Ahead(k, n, f, o) == IF k \in {"free", "judge"} THEN o - f ELSE Pending(k, n)
Open(k, n) == IF k = "run" THEN MaxRunCost - n ELSE Pending(k, n)
FitsNumbers(k, n, f, o) ==
    /\ f <= o
    /\ k \in {"idle", "panel"} => o = f
    /\ k = "run" => o <= f + n /\ n <= MaxRunCost

LEMMA NowIs ==
    ASSUME NEW k \in Tasks, NEW n \in Nat, NEW r \in SUBSET Members
    PROVE  /\ Now(k, n, r) \in DoingRec /\ Budget!NotBooked(Now(k, n, r)) = Pending(k, n)
           /\ MayCost(Now(k, n, r)) = Open(k, n)
           /\ \A p, q \in Nat :
                 /\ Unsaved(Now(k, n, r), p, q) = Ahead(k, n, p, q)
                 /\ IsInStep(Now(k, n, r), p, q) <=> FitsNumbers(k, n, p, q)
<1>1. Now(k, n, r) \in DoingRec /\ Now(k, n, r).kind = k /\ Now(k, n, r).observed = n
  BY DEF Now, DoingRec, Tasks
<1>. QED BY <1>1 DEF Budget!NotBooked, MayCost, Unsaved, IsInStep, Pending, Open, Ahead,
            FitsNumbers

LEMMA ActorNow ==
    ASSUME NEW w \in DoingRec
    PROVE  /\ w = Now(w.kind, w.observed, w.waiting)
           /\ \A n : [w EXCEPT !.observed = n] = Now(w.kind, n, w.waiting)
           /\ Budget!Idle = Now("idle", 0, {})
           /\ \A k : [Budget!Idle EXCEPT !.kind = k] = Now(k, 0, {})
<1>1. w = Now(w.kind, w.observed, w.waiting)
  BY DEF Now, DoingRec
<1>2. \A n : [w EXCEPT !.observed = n] = Now(w.kind, n, w.waiting)
  BY <1>1 DEF Now
<1>4. Budget!Idle = Now("idle", 0, {})
  BY DEF Now, Budget!Idle
<1>5. \A k : [Budget!Idle EXCEPT !.kind = k] = Now(k, 0, {})
  BY <1>4 DEF Now
<1>. QED BY <1>1, <1>2, <1>4, <1>5

\* What a step may change on a day: today is the day it is on, u what it pays unchecked.
FitsStep(k, n, f, o, k1, n1, f1, o1, today, u) ==
    /\ FitsNumbers(k1, n1, f1, o1)
    /\ Ahead(k1, n1, f1, o1) <= Ahead(k, n, f, o) + u
    /\ o1 + (IF today THEN Open(k1, n1) ELSE 0) <= o + (IF today THEN Open(k, n) ELSE 0) + u

BudgetStep(i, f, o, k, n, r, a, l, u) ==
    /\ f \in DayCosts /\ o \in DayCosts
    /\ k \in Tasks /\ n \in Nat /\ r \in SUBSET Members
    /\ a \in Nat /\ l \in Nat /\ u \in Nat
    /\ s1' = [s1 EXCEPT ![i] = f] /\ s2' = [s2 EXCEPT ![i] = o]
    /\ s3' = [s3 EXCEPT ![i] = Now(k, n, r)] /\ s4' = s4 /\ s5' = More(s5, a, l, u)
    /\ Budget!Sum(o) + Pending(k, n) + l
           = Budget!Sum(s2[i]) + Pending(s3[i].kind, s3[i].observed) + a
    /\ \A d \in Days :
          /\ FitsStep(s3[i].kind, s3[i].observed, s1[i][d], s2[i][d], k, n, f[d], o[d], d = s4, u)
          /\ d > s4 => o[d] = 0

LEMMA AStep ==
    ASSUME BudgetInv, NEW i \in Instances, NEW f, NEW o, NEW k, NEW n, NEW r, NEW a, NEW l, NEW u,
           BudgetStep(i, f, o, k, n, r, a, l, u)
    PROVE  BudgetInv'
<1>0. /\ f \in DayCosts /\ o \in DayCosts /\ k \in Tasks /\ n \in Nat /\ r \in SUBSET Members
      /\ a \in Nat /\ l \in Nat /\ u \in Nat
      /\ s1' = [s1 EXCEPT ![i] = f] /\ s2' = [s2 EXCEPT ![i] = o]
      /\ s3' = [s3 EXCEPT ![i] = Now(k, n, r)] /\ s4' = s4 /\ s5' = More(s5, a, l, u)
  BY DEF BudgetStep
<1>. USE <1>0
<1>a. /\ Budget!Sum(o) + Pending(k, n) + l
             = Budget!Sum(s2[i]) + Pending(s3[i].kind, s3[i].observed) + a
       /\ \A d \in Days :
             /\ FitsStep(s3[i].kind, s3[i].observed, s1[i][d], s2[i][d], k, n, f[d], o[d], d = s4,
                u)
             /\ d > s4 => o[d] = 0
  BY DEF BudgetStep
<1>. DEFINE w == Now(k, n, r)
            h == More(s5, a, l, u)
<1>1. /\ s5 \in HistoryRec /\ s5.paid \in Nat /\ s5.lost \in Nat /\ s5.unchecked \in Nat
      /\ s3[i] \in DoingRec /\ s3[i].observed \in Nat /\ s3[i].kind \in Tasks
      /\ s3[i].waiting \in SUBSET Members
  BY Actor DEF DoingRec, Tasks
<1>2. h \in HistoryRec /\ h.paid = s5.paid + a /\ h.lost = s5.lost + l
      /\ h.unchecked = s5.unchecked + u
  BY <1>1 DEF More, HistoryRec
<1>3. /\ w \in DoingRec
      /\ Budget!NotBooked(w) = Pending(k, n) /\ MayCost(w) = Open(k, n)
      /\ \A p, q \in Nat : /\ Unsaved(w, p, q) = Ahead(k, n, p, q)
                           /\ IsInStep(w, p, q) <=> FitsNumbers(k, n, p, q)
  BY NowIs
<1>4. s3[i] = Now(s3[i].kind, s3[i].observed, s3[i].waiting)
  BY <1>1, ActorNow
<1>5. /\ Budget!NotBooked(s3[i]) = Pending(s3[i].kind, s3[i].observed)
      /\ MayCost(s3[i]) = Open(s3[i].kind, s3[i].observed)
      /\ \A p, q \in Nat : Unsaved(s3[i], p, q) = Ahead(s3[i].kind, s3[i].observed, p, q)
  <2>. DEFINE k0 == s3[i].kind  n0 == s3[i].observed  r0 == s3[i].waiting
  <2>1. k0 \in Tasks /\ n0 \in Nat /\ r0 \in SUBSET Members /\ s3[i] = Now(k0, n0, r0)
    BY <1>1, <1>4
  <2>. HIDE DEF k0, n0, r0
  <2>2. /\ Budget!NotBooked(s3[i]) = Pending(k0, n0)
        /\ MayCost(s3[i]) = Open(k0, n0)
        /\ \A p, q \in Nat : Unsaved(s3[i], p, q) = Ahead(k0, n0, p, q)
    BY <2>1, NowIs
  <2>. QED BY <2>2 DEF k0, n0
<1>6. \A d \in Days : f[d] \in Nat /\ o[d] \in Nat /\ s1[i][d] \in Nat /\ s2[i][d] \in Nat
  BY Actor DEF DayCosts
<1>7. FitsDays(w, f, o, s4)
  <2>. HIDE DEF w, h
  <2>. QED BY <1>a, <1>3, <1>6 DEF FitsDays, FitsStep
<1>8. Budget!Sum(o) + Budget!NotBooked(w) + h.lost + s5.paid
          = Budget!Sum(s2[i]) + Budget!NotBooked(s3[i]) + s5.lost + h.paid
  <2>. DEFINE x == Budget!Sum(o)  y == Budget!Sum(s2[i])
              p == Pending(k, n)  q == Pending(s3[i].kind, s3[i].observed)
  <2>1. x \in Nat /\ y \in Nat
    BY Actor, SumType, BudgetSizes DEF DayCosts
  <2>2. p \in Nat /\ q \in Nat
    BY <1>1 DEF Pending
  <2>3. x + p + l = y + q + a
    BY <1>a
  <2>. HIDE DEF x, y, p, q
  <2>4. x + p + (s5.lost + l) + s5.paid = y + q + s5.lost + (s5.paid + a)
    BY <1>1, <2>1, <2>2, <2>3
  <2>. QED BY <1>2, <1>3, <1>5, <2>4 DEF x, y, p, q
<1>9. \A d \in Days : Unsaved(w, f[d], o[d]) + s5.unchecked
                         <= Unsaved(s3[i], s1[i][d], s2[i][d]) + h.unchecked
  <2>. SUFFICES ASSUME NEW d \in Days
                PROVE  Unsaved(w, f[d], o[d]) + s5.unchecked
                         <= Unsaved(s3[i], s1[i][d], s2[i][d]) + h.unchecked
    OBVIOUS
  <2>. DEFINE x == Ahead(k, n, f[d], o[d])
              y == Ahead(s3[i].kind, s3[i].observed, s1[i][d], s2[i][d])
  <2>1. x <= y + u
    BY <1>a DEF FitsStep
  <2>2. x \in Int /\ y \in Int
    <3>1. f[d] \in Nat /\ o[d] \in Nat /\ s1[i][d] \in Nat /\ s2[i][d] \in Nat
      BY <1>6
    <3>2. o[d] - f[d] \in Int /\ s2[i][d] - s1[i][d] \in Int
      BY <3>1
    <3>3. Pending(k, n) \in Int /\ Pending(s3[i].kind, s3[i].observed) \in Int
      BY <1>1 DEF Pending
    <3>. QED BY <3>2, <3>3 DEF Ahead
  <2>. HIDE DEF x, y
  <2>3. x + s5.unchecked <= y + (s5.unchecked + u)
    BY <1>1, <2>1, <2>2
  <2>. QED BY <1>2, <1>3, <1>5, <1>6, <2>3 DEF x, y
<1>10. \A d \in Days : AtMost(w, o[d], d = s4) + s5.unchecked
                          <= AtMost(s3[i], s2[i][d], d = s4) + h.unchecked
  <2>. SUFFICES ASSUME NEW d \in Days
                PROVE  AtMost(w, o[d], d = s4) + s5.unchecked
                         <= AtMost(s3[i], s2[i][d], d = s4) + h.unchecked
    OBVIOUS
  <2>. DEFINE x == IF d = s4 THEN Open(k, n) ELSE 0
              y == IF d = s4 THEN Open(s3[i].kind, s3[i].observed) ELSE 0
  <2>1. o[d] + x <= s2[i][d] + y + u
    BY <1>a DEF FitsStep
  <2>2. x \in Int /\ y \in Int
    BY <1>1, BudgetSizes DEF Open, Pending
  <2>3. AtMost(w, o[d], d = s4) = o[d] + x /\ AtMost(s3[i], s2[i][d], d = s4) = s2[i][d] + y
    BY <1>3, <1>5, Zenon DEF AtMost
  <2>. HIDE DEF x, y
  <2>4. o[d] + x + s5.unchecked <= s2[i][d] + y + (s5.unchecked + u)
    BY <1>1, <1>6, <2>1, <2>2
  <2>. QED BY <1>2, <2>3, <2>4
<1>11. Shift(i, f, o, w, h)
  BY <1>7, <1>8, <1>9 DEF Shift
<1>. HIDE DEF w, h
<1>. QED BY <1>2, <1>3, <1>10, <1>11, MoveIsBounded
LEMMA ActorNumbers ==
    ASSUME BudgetInv, NEW i \in Instances
    PROVE  /\ s3[i].kind \in Tasks /\ s3[i].observed \in Nat
           /\ \A d \in Days :
                 /\ s1[i][d] \in Nat /\ s2[i][d] \in Nat /\ (d > s4 => s2[i][d] = 0)
                 /\ FitsNumbers(s3[i].kind, s3[i].observed, s1[i][d], s2[i][d])
<1>1. s3[i] \in DoingRec /\ s3[i].kind \in Tasks /\ s3[i].observed \in Nat
      /\ s3[i].waiting \in SUBSET Members
  BY Actor DEF DoingRec, Tasks
<1>2. s3[i] = Now(s3[i].kind, s3[i].observed, s3[i].waiting)
  BY <1>1, ActorNow
<1>3. \A d \in Days : /\ s1[i][d] \in Nat /\ s2[i][d] \in Nat /\ (d > s4 => s2[i][d] = 0)
                      /\ IsInStep(s3[i], s1[i][d], s2[i][d])
  BY Actor
<1>4. \A p, q \in Nat : IsInStep(s3[i], p, q) <=> FitsNumbers(s3[i].kind, s3[i].observed, p, q)
  <2>. DEFINE k0 == s3[i].kind  n0 == s3[i].observed  r0 == s3[i].waiting
  <2>1. k0 \in Tasks /\ n0 \in Nat /\ r0 \in SUBSET Members /\ s3[i] = Now(k0, n0, r0)
    BY <1>1, <1>2
  <2>. HIDE DEF k0, n0, r0
  <2>2. \A p, q \in Nat : IsInStep(s3[i], p, q) <=> FitsNumbers(k0, n0, p, q)
    BY <2>1, NowIs
  <2>. QED BY <2>2 DEF k0, n0
<1>. QED BY <1>1, <1>3, <1>4


LEMMA BudgetCompress ==
    ASSUME BudgetInv, NEW i \in Instances, Budget!Compress(i)
    PROVE  BudgetInv'
<1>. DEFINE f == Budget!AddCost(s2[i], 1)
            o == Budget!AddCost(s2[i], 1)
            k == s3[i].kind
            n == s3[i].observed + 1
            r == s3[i].waiting
            a == 1
            l == 0
            u == IF Budget!Doing(i, "free") THEN 1 ELSE 0
<1>1. /\ s4 \in Days /\ s1[i] \in DayCosts /\ s2[i] \in DayCosts /\ s3[i] \in DoingRec
      /\ s5 \in HistoryRec /\ Budget!Sum(s1[i]) \in Nat /\ Budget!Sum(s2[i]) \in Nat
      /\ s3[i].observed \in Nat /\ s3[i].waiting \in SUBSET Members
      /\ s1 = [s1 EXCEPT ![i] = s1[i]] /\ s2 = [s2 EXCEPT ![i] = s2[i]]
      /\ s3 = [s3 EXCEPT ![i] = s3[i]]
  BY Actor
<1>2. s3[i].kind \in {"run", "free"} /\ s3[i].observed = 0 /\ s3[i].observed < MaxRunCost
      /\ (Budget!Doing(i, "free") <=> s3[i].kind = "free")
  BY DEF Budget!Compress, Budget!CostsOfRun, Budget!InRun, Budget!Doing
<1>3. a \in Nat /\ l \in Nat /\ u \in Nat /\ k \in Tasks /\ n \in Nat /\ r \in SUBSET Members
  <2>1. a \in Nat /\ l \in Nat /\ u \in Nat
    BY <1>1
  <2>2. k \in Tasks
    BY ActorNumbers DEF Tasks
  <2>3. n \in Nat
    BY <1>1
  <2>4. r \in SUBSET Members
    BY <1>1
  <2>. QED BY <2>1, <2>2, <2>3, <2>4
<1>4. f \in DayCosts /\ o \in DayCosts
  BY <1>1, <1>3, AddCostIs DEF Budget!Nothing, DayCosts
<1>5. s1' = [s1 EXCEPT ![i] = f] /\ s2' = [s2 EXCEPT ![i] = o] /\ s4' = s4
  BY <1>1 DEF Budget!Compress, Budget!Save, Budget!Observed, Budget!CostsOfRun
<1>6. s3' = [s3 EXCEPT ![i] = Now(k, n, r)]
  BY <1>1, <1>2, ActorNow DEF Budget!Compress, Budget!Save, Budget!Observed, Budget!CostsOfRun
<1>7. s5' = More(s5, a, l, u)
  BY <1>2 DEF Budget!Compress, Budget!Save, Budget!Observed, Budget!CostsOfRun, Budget!Pay, More
<1>8. Budget!Sum(o) + Pending(k, n) + l = Budget!Sum(s2[i]) + Pending(s3[i].kind,
      s3[i].observed) + a
  <2>1. Budget!Sum(o) = Budget!Sum(s2[i]) + 1
    BY <1>1, <1>3, AddCostIs
  <2>2. Pending(k, n) = 0
    BY <1>2 DEF Pending
  <2>3. Pending(s3[i].kind, s3[i].observed) = 0
    BY <1>2 DEF Pending
  <2>. HIDE DEF o
  <2>. QED BY <1>1, <1>3, <2>1, <2>2, <2>3
<1>9. ASSUME NEW d \in Days
      PROVE  /\ FitsStep(s3[i].kind, s3[i].observed, s1[i][d], s2[i][d], k, n, f[d], o[d], d = s4,
                u)
             /\ d > s4 => o[d] = 0
  <2>1. /\ s1[i][d] \in Nat /\ s2[i][d] \in Nat /\ (d > s4 => s2[i][d] = 0) /\ s4 \in Nat
        /\ d \in Nat
        /\ FitsNumbers(s3[i].kind, s3[i].observed, s1[i][d], s2[i][d])
    BY <1>1, ActorNumbers, BudgetSizes
  <2>2. o[d] = IF d = s4 THEN s2[i][d] + 1 ELSE s2[i][d]
    BY <1>1, <1>3, AddCostIs, ZenonT(40)
  <2>3. f[d] = IF d = s4 THEN s2[i][d] + 1 ELSE s2[i][d]
    BY <1>1, <1>3, AddCostIs, ZenonT(40)
  <2>. HIDE DEF f, o
  <2>4. CASE s3[i].kind = "run" /\ d = s4
    BY <1>1, <1>2, <1>3, <2>1, <2>2, <2>3, <2>4, BudgetSizes DEF FitsStep, FitsNumbers, Ahead,
       Pending, Open
  <2>5. CASE s3[i].kind = "run" /\ d # s4
    BY <1>1, <1>2, <1>3, <2>1, <2>2, <2>3, <2>5, BudgetSizes DEF FitsStep, FitsNumbers, Ahead,
       Pending, Open
  <2>6. CASE s3[i].kind = "free" /\ d = s4
    BY <1>1, <1>2, <1>3, <2>1, <2>2, <2>3, <2>6, BudgetSizes DEF FitsStep, FitsNumbers, Ahead,
       Pending, Open
  <2>7. CASE s3[i].kind = "free" /\ d # s4
    BY <1>1, <1>2, <1>3, <2>1, <2>2, <2>3, <2>7, BudgetSizes DEF FitsStep, FitsNumbers, Ahead,
       Pending, Open
  <2>. QED BY <1>2, <2>4, <2>5, <2>6, <2>7
<1>10. BudgetStep(i, f, o, k, n, r, a, l, u)
  <2>. HIDE DEF f, o, k, n, r, a, l, u
  <2>. QED BY <1>3, <1>4, <1>5, <1>6, <1>7, <1>8, <1>9 DEF BudgetStep
<1>. HIDE DEF f, o, k, n, r, a, l, u
<1>. QED BY <1>10, AStep


LEMMA BudgetCallCosts ==
    ASSUME BudgetInv, NEW i \in Instances, Budget!CallCosts(i)
    PROVE  BudgetInv'
<1>. DEFINE f == s1[i]
            o == Budget!AddCost(s2[i], 1)
            k == s3[i].kind
            n == s3[i].observed + 1
            r == s3[i].waiting
            a == 1
            l == 0
            u == IF Budget!Doing(i, "free") THEN 1 ELSE 0
<1>1. /\ s4 \in Days /\ s1[i] \in DayCosts /\ s2[i] \in DayCosts /\ s3[i] \in DoingRec
      /\ s5 \in HistoryRec /\ Budget!Sum(s1[i]) \in Nat /\ Budget!Sum(s2[i]) \in Nat
      /\ s3[i].observed \in Nat /\ s3[i].waiting \in SUBSET Members
      /\ s1 = [s1 EXCEPT ![i] = s1[i]] /\ s2 = [s2 EXCEPT ![i] = s2[i]]
      /\ s3 = [s3 EXCEPT ![i] = s3[i]]
  BY Actor
<1>2. s3[i].kind \in {"run", "free"} /\ s3[i].observed < MaxRunCost
      /\ (Budget!Doing(i, "free") <=> s3[i].kind = "free")
  BY DEF Budget!CallCosts, Budget!CostsOfRun, Budget!InRun, Budget!Doing
<1>3. a \in Nat /\ l \in Nat /\ u \in Nat /\ k \in Tasks /\ n \in Nat /\ r \in SUBSET Members
  <2>1. a \in Nat /\ l \in Nat /\ u \in Nat
    BY <1>1
  <2>2. k \in Tasks
    BY ActorNumbers DEF Tasks
  <2>3. n \in Nat
    BY <1>1
  <2>4. r \in SUBSET Members
    BY <1>1
  <2>. QED BY <2>1, <2>2, <2>3, <2>4
<1>4. f \in DayCosts /\ o \in DayCosts
  BY <1>1, <1>3, AddCostIs DEF Budget!Nothing, DayCosts
<1>5. s1' = [s1 EXCEPT ![i] = f] /\ s2' = [s2 EXCEPT ![i] = o] /\ s4' = s4
  BY <1>1 DEF Budget!CallCosts, Budget!Observed, Budget!CostsOfRun
<1>6. s3' = [s3 EXCEPT ![i] = Now(k, n, r)]
  BY <1>1, <1>2, ActorNow DEF Budget!CallCosts, Budget!Observed, Budget!CostsOfRun
<1>7. s5' = More(s5, a, l, u)
  BY <1>2 DEF Budget!CallCosts, Budget!Observed, Budget!CostsOfRun, Budget!Pay, More
<1>8. Budget!Sum(o) + Pending(k, n) + l = Budget!Sum(s2[i]) + Pending(s3[i].kind,
      s3[i].observed) + a
  <2>1. Budget!Sum(o) = Budget!Sum(s2[i]) + 1
    BY <1>1, <1>3, AddCostIs
  <2>2. Pending(k, n) = 0
    BY <1>2 DEF Pending
  <2>3. Pending(s3[i].kind, s3[i].observed) = 0
    BY <1>2 DEF Pending
  <2>. HIDE DEF o
  <2>. QED BY <1>1, <1>3, <2>1, <2>2, <2>3
<1>9. ASSUME NEW d \in Days
      PROVE  /\ FitsStep(s3[i].kind, s3[i].observed, s1[i][d], s2[i][d], k, n, f[d], o[d], d = s4,
                u)
             /\ d > s4 => o[d] = 0
  <2>1. /\ s1[i][d] \in Nat /\ s2[i][d] \in Nat /\ (d > s4 => s2[i][d] = 0) /\ s4 \in Nat
        /\ d \in Nat
        /\ FitsNumbers(s3[i].kind, s3[i].observed, s1[i][d], s2[i][d])
    BY <1>1, ActorNumbers, BudgetSizes
  <2>2. o[d] = IF d = s4 THEN s2[i][d] + 1 ELSE s2[i][d]
    BY <1>1, <1>3, AddCostIs, ZenonT(40)
  <2>3. f[d] = s1[i][d]
    OBVIOUS
  <2>. HIDE DEF f, o
  <2>4. CASE s3[i].kind = "run" /\ d = s4
    BY <1>1, <1>2, <1>3, <2>1, <2>2, <2>3, <2>4, BudgetSizes DEF FitsStep, FitsNumbers, Ahead,
       Pending, Open
  <2>5. CASE s3[i].kind = "run" /\ d # s4
    BY <1>1, <1>2, <1>3, <2>1, <2>2, <2>3, <2>5, BudgetSizes DEF FitsStep, FitsNumbers, Ahead,
       Pending, Open
  <2>6. CASE s3[i].kind = "free" /\ d = s4
    BY <1>1, <1>2, <1>3, <2>1, <2>2, <2>3, <2>6, BudgetSizes DEF FitsStep, FitsNumbers, Ahead,
       Pending, Open
  <2>7. CASE s3[i].kind = "free" /\ d # s4
    BY <1>1, <1>2, <1>3, <2>1, <2>2, <2>3, <2>7, BudgetSizes DEF FitsStep, FitsNumbers, Ahead,
       Pending, Open
  <2>. QED BY <1>2, <2>4, <2>5, <2>6, <2>7
<1>10. BudgetStep(i, f, o, k, n, r, a, l, u)
  <2>. HIDE DEF f, o, k, n, r, a, l, u
  <2>. QED BY <1>3, <1>4, <1>5, <1>6, <1>7, <1>8, <1>9 DEF BudgetStep
<1>. HIDE DEF f, o, k, n, r, a, l, u
<1>. QED BY <1>10, AStep


LEMMA BudgetEndRun ==
    ASSUME BudgetInv, NEW i \in Instances, Budget!EndRun(i)
    PROVE  BudgetInv'
<1>. DEFINE f == s2[i]
            o == s2[i]
            k == "idle"
            n == 0
            r == {}
            a == 0
            l == 0
            u == 0
<1>1. /\ s4 \in Days /\ s1[i] \in DayCosts /\ s2[i] \in DayCosts /\ s3[i] \in DoingRec
      /\ s5 \in HistoryRec /\ Budget!Sum(s1[i]) \in Nat /\ Budget!Sum(s2[i]) \in Nat
      /\ s3[i].observed \in Nat /\ s3[i].waiting \in SUBSET Members
      /\ s1 = [s1 EXCEPT ![i] = s1[i]] /\ s2 = [s2 EXCEPT ![i] = s2[i]]
      /\ s3 = [s3 EXCEPT ![i] = s3[i]]
  BY Actor
<1>2. s3[i].kind \in {"run", "free"}
  BY DEF Budget!EndRun, Budget!InRun
<1>3. a \in Nat /\ l \in Nat /\ u \in Nat /\ k \in Tasks /\ n \in Nat /\ r \in SUBSET Members
  <2>1. a \in Nat /\ l \in Nat /\ u \in Nat
    BY <1>1
  <2>2. k \in Tasks
    BY ActorNumbers DEF Tasks
  <2>3. n \in Nat
    BY <1>1
  <2>4. r \in SUBSET Members
    BY <1>1
  <2>. QED BY <2>1, <2>2, <2>3, <2>4
<1>4. f \in DayCosts /\ o \in DayCosts
  BY <1>1, <1>3, AddCostIs DEF Budget!Nothing, DayCosts
<1>5. s1' = [s1 EXCEPT ![i] = f] /\ s2' = [s2 EXCEPT ![i] = o] /\ s4' = s4
  BY <1>1 DEF Budget!EndRun, Budget!Save
<1>6. s3' = [s3 EXCEPT ![i] = Now(k, n, r)]
  BY <1>1, <1>2, ActorNow DEF Budget!EndRun, Budget!Save
<1>7. s5' = More(s5, a, l, u)
  BY <1>1, MoreIs DEF Budget!EndRun, Budget!Save
<1>8. Budget!Sum(o) + Pending(k, n) + l = Budget!Sum(s2[i]) + Pending(s3[i].kind,
      s3[i].observed) + a
  <2>1. Budget!Sum(o) = Budget!Sum(s2[i])
    OBVIOUS
  <2>2. Pending(k, n) = 0
    BY <1>2 DEF Pending
  <2>3. Pending(s3[i].kind, s3[i].observed) = 0
    BY <1>2 DEF Pending
  <2>. HIDE DEF o
  <2>. QED BY <1>1, <1>3, <2>1, <2>2, <2>3
<1>9. ASSUME NEW d \in Days
      PROVE  /\ FitsStep(s3[i].kind, s3[i].observed, s1[i][d], s2[i][d], k, n, f[d], o[d], d = s4,
                u)
             /\ d > s4 => o[d] = 0
  <2>1. /\ s1[i][d] \in Nat /\ s2[i][d] \in Nat /\ (d > s4 => s2[i][d] = 0) /\ s4 \in Nat
        /\ d \in Nat
        /\ FitsNumbers(s3[i].kind, s3[i].observed, s1[i][d], s2[i][d])
    BY <1>1, ActorNumbers, BudgetSizes
  <2>2. o[d] = s2[i][d]
    OBVIOUS
  <2>3. f[d] = s2[i][d]
    OBVIOUS
  <2>. HIDE DEF f, o
  <2>4. CASE s3[i].kind = "run" /\ d = s4
    BY <1>1, <1>2, <1>3, <2>1, <2>2, <2>3, <2>4, BudgetSizes DEF FitsStep, FitsNumbers, Ahead,
       Pending, Open
  <2>5. CASE s3[i].kind = "run" /\ d # s4
    BY <1>1, <1>2, <1>3, <2>1, <2>2, <2>3, <2>5, BudgetSizes DEF FitsStep, FitsNumbers, Ahead,
       Pending, Open
  <2>6. CASE s3[i].kind = "free" /\ d = s4
    BY <1>1, <1>2, <1>3, <2>1, <2>2, <2>3, <2>6, BudgetSizes DEF FitsStep, FitsNumbers, Ahead,
       Pending, Open
  <2>7. CASE s3[i].kind = "free" /\ d # s4
    BY <1>1, <1>2, <1>3, <2>1, <2>2, <2>3, <2>7, BudgetSizes DEF FitsStep, FitsNumbers, Ahead,
       Pending, Open
  <2>. QED BY <1>2, <2>4, <2>5, <2>6, <2>7
<1>10. BudgetStep(i, f, o, k, n, r, a, l, u)
  <2>. HIDE DEF f, o, k, n, r, a, l, u
  <2>. QED BY <1>3, <1>4, <1>5, <1>6, <1>7, <1>8, <1>9 DEF BudgetStep
<1>. HIDE DEF f, o, k, n, r, a, l, u
<1>. QED BY <1>10, AStep


LEMMA BudgetEndUnreported ==
    ASSUME BudgetInv, NEW i \in Instances, Budget!EndUnreportedRun(i)
    PROVE  BudgetInv'
<1>. DEFINE f == Budget!AddCost(s2[i], 1)
            o == Budget!AddCost(s2[i], 1)
            k == "idle"
            n == 0
            r == {}
            a == 1
            l == 0
            u == IF Budget!Doing(i, "free") THEN 1 ELSE 0
<1>1. /\ s4 \in Days /\ s1[i] \in DayCosts /\ s2[i] \in DayCosts /\ s3[i] \in DoingRec
      /\ s5 \in HistoryRec /\ Budget!Sum(s1[i]) \in Nat /\ Budget!Sum(s2[i]) \in Nat
      /\ s3[i].observed \in Nat /\ s3[i].waiting \in SUBSET Members
      /\ s1 = [s1 EXCEPT ![i] = s1[i]] /\ s2 = [s2 EXCEPT ![i] = s2[i]]
      /\ s3 = [s3 EXCEPT ![i] = s3[i]]
  BY Actor
<1>2. s3[i].kind \in {"run", "free"} /\ s3[i].observed = 0 /\ s3[i].observed < MaxRunCost
      /\ (Budget!Doing(i, "free") <=> s3[i].kind = "free")
  BY DEF Budget!EndUnreportedRun, Budget!CostsOfRun, Budget!InRun, Budget!Doing
<1>3. a \in Nat /\ l \in Nat /\ u \in Nat /\ k \in Tasks /\ n \in Nat /\ r \in SUBSET Members
  <2>1. a \in Nat /\ l \in Nat /\ u \in Nat
    BY <1>1
  <2>2. k \in Tasks
    BY ActorNumbers DEF Tasks
  <2>3. n \in Nat
    BY <1>1
  <2>4. r \in SUBSET Members
    BY <1>1
  <2>. QED BY <2>1, <2>2, <2>3, <2>4
<1>4. f \in DayCosts /\ o \in DayCosts
  BY <1>1, <1>3, AddCostIs DEF Budget!Nothing, DayCosts
<1>5. s1' = [s1 EXCEPT ![i] = f] /\ s2' = [s2 EXCEPT ![i] = o] /\ s4' = s4
  BY <1>1 DEF Budget!EndUnreportedRun, Budget!Save, Budget!CostsOfRun
<1>6. s3' = [s3 EXCEPT ![i] = Now(k, n, r)]
  BY <1>1, <1>2, ActorNow DEF Budget!EndUnreportedRun, Budget!Save, Budget!CostsOfRun
<1>7. s5' = More(s5, a, l, u)
  BY <1>2 DEF Budget!EndUnreportedRun, Budget!Save, Budget!CostsOfRun, Budget!Pay, More
<1>8. Budget!Sum(o) + Pending(k, n) + l = Budget!Sum(s2[i]) + Pending(s3[i].kind,
      s3[i].observed) + a
  <2>1. Budget!Sum(o) = Budget!Sum(s2[i]) + 1
    BY <1>1, <1>3, AddCostIs
  <2>2. Pending(k, n) = 0
    BY <1>2 DEF Pending
  <2>3. Pending(s3[i].kind, s3[i].observed) = 0
    BY <1>2 DEF Pending
  <2>. HIDE DEF o
  <2>. QED BY <1>1, <1>3, <2>1, <2>2, <2>3
<1>9. ASSUME NEW d \in Days
      PROVE  /\ FitsStep(s3[i].kind, s3[i].observed, s1[i][d], s2[i][d], k, n, f[d], o[d], d = s4,
                u)
             /\ d > s4 => o[d] = 0
  <2>1. /\ s1[i][d] \in Nat /\ s2[i][d] \in Nat /\ (d > s4 => s2[i][d] = 0) /\ s4 \in Nat
        /\ d \in Nat
        /\ FitsNumbers(s3[i].kind, s3[i].observed, s1[i][d], s2[i][d])
    BY <1>1, ActorNumbers, BudgetSizes
  <2>2. o[d] = IF d = s4 THEN s2[i][d] + 1 ELSE s2[i][d]
    BY <1>1, <1>3, AddCostIs
  <2>3. f[d] = IF d = s4 THEN s2[i][d] + 1 ELSE s2[i][d]
    BY <1>1, <1>3, AddCostIs
  <2>. HIDE DEF f, o
  <2>4. CASE s3[i].kind = "run" /\ d = s4
    BY <1>1, <1>2, <1>3, <2>1, <2>2, <2>3, <2>4, BudgetSizes DEF FitsStep, FitsNumbers, Ahead,
       Pending, Open
  <2>5. CASE s3[i].kind = "run" /\ d # s4
    BY <1>1, <1>2, <1>3, <2>1, <2>2, <2>3, <2>5, BudgetSizes DEF FitsStep, FitsNumbers, Ahead,
       Pending, Open
  <2>6. CASE s3[i].kind = "free" /\ d = s4
    BY <1>1, <1>2, <1>3, <2>1, <2>2, <2>3, <2>6, BudgetSizes DEF FitsStep, FitsNumbers, Ahead,
       Pending, Open
  <2>7. CASE s3[i].kind = "free" /\ d # s4
    BY <1>1, <1>2, <1>3, <2>1, <2>2, <2>3, <2>7, BudgetSizes DEF FitsStep, FitsNumbers, Ahead,
       Pending, Open
  <2>. QED BY <1>2, <2>4, <2>5, <2>6, <2>7
<1>10. BudgetStep(i, f, o, k, n, r, a, l, u)
  <2>. HIDE DEF f, o, k, n, r, a, l, u
  <2>. QED BY <1>3, <1>4, <1>5, <1>6, <1>7, <1>8, <1>9 DEF BudgetStep
<1>. HIDE DEF f, o, k, n, r, a, l, u
<1>. QED BY <1>10, AStep


LEMMA BudgetBeginFreeRun ==
    ASSUME BudgetInv, NEW i \in Instances, Budget!BeginRun(i, FALSE)
    PROVE  BudgetInv'
<1>. DEFINE f == s1[i]
            o == s2[i]
            k == "free"
            n == 0
            r == {}
            a == 0
            l == 0
            u == 0
<1>1. /\ s4 \in Days /\ s1[i] \in DayCosts /\ s2[i] \in DayCosts /\ s3[i] \in DoingRec
      /\ s5 \in HistoryRec /\ Budget!Sum(s1[i]) \in Nat /\ Budget!Sum(s2[i]) \in Nat
      /\ s3[i].observed \in Nat /\ s3[i].waiting \in SUBSET Members
      /\ s1 = [s1 EXCEPT ![i] = s1[i]] /\ s2 = [s2 EXCEPT ![i] = s2[i]]
      /\ s3 = [s3 EXCEPT ![i] = s3[i]]
  BY Actor
<1>2. s3[i].kind = "idle"
  BY DEF Budget!BeginRun, Budget!Doing
<1>3. a \in Nat /\ l \in Nat /\ u \in Nat /\ k \in Tasks /\ n \in Nat /\ r \in SUBSET Members
  <2>1. a \in Nat /\ l \in Nat /\ u \in Nat
    BY <1>1
  <2>2. k \in Tasks
    BY ActorNumbers DEF Tasks
  <2>3. n \in Nat
    BY <1>1
  <2>4. r \in SUBSET Members
    BY <1>1
  <2>. QED BY <2>1, <2>2, <2>3, <2>4
<1>4. f \in DayCosts /\ o \in DayCosts
  BY <1>1, <1>3, AddCostIs DEF Budget!Nothing, DayCosts
<1>5. s1' = [s1 EXCEPT ![i] = f] /\ s2' = [s2 EXCEPT ![i] = o] /\ s4' = s4
  BY <1>1 DEF Budget!BeginRun
<1>6. s3' = [s3 EXCEPT ![i] = Now(k, n, r)]
  BY <1>1, <1>2, ActorNow DEF Budget!BeginRun
<1>7. s5' = More(s5, a, l, u)
  BY <1>1, MoreIs DEF Budget!BeginRun
<1>8. Budget!Sum(o) + Pending(k, n) + l = Budget!Sum(s2[i]) + Pending(s3[i].kind,
      s3[i].observed) + a
  <2>1. Budget!Sum(o) = Budget!Sum(s2[i])
    OBVIOUS
  <2>2. Pending(k, n) = 0
    BY <1>2 DEF Pending
  <2>3. Pending(s3[i].kind, s3[i].observed) = 0
    BY <1>2 DEF Pending
  <2>. HIDE DEF o
  <2>. QED BY <1>1, <1>3, <2>1, <2>2, <2>3
<1>9. ASSUME NEW d \in Days
      PROVE  /\ FitsStep(s3[i].kind, s3[i].observed, s1[i][d], s2[i][d], k, n, f[d], o[d], d = s4,
                u)
             /\ d > s4 => o[d] = 0
  <2>1. /\ s1[i][d] \in Nat /\ s2[i][d] \in Nat /\ (d > s4 => s2[i][d] = 0) /\ s4 \in Nat
        /\ d \in Nat
        /\ FitsNumbers(s3[i].kind, s3[i].observed, s1[i][d], s2[i][d])
    BY <1>1, ActorNumbers, BudgetSizes
  <2>2. o[d] = s2[i][d]
    OBVIOUS
  <2>3. f[d] = s1[i][d]
    OBVIOUS
  <2>. HIDE DEF f, o
  <2>4. CASE s3[i].kind = "idle" /\ d = s4
    BY <1>1, <1>2, <1>3, <2>1, <2>2, <2>3, <2>4, BudgetSizes DEF FitsStep, FitsNumbers, Ahead,
       Pending, Open
  <2>5. CASE s3[i].kind = "idle" /\ d # s4
    BY <1>1, <1>2, <1>3, <2>1, <2>2, <2>3, <2>5, BudgetSizes DEF FitsStep, FitsNumbers, Ahead,
       Pending, Open
  <2>. QED BY <1>2, <2>4, <2>5
<1>10. BudgetStep(i, f, o, k, n, r, a, l, u)
  <2>. HIDE DEF f, o, k, n, r, a, l, u
  <2>. QED BY <1>3, <1>4, <1>5, <1>6, <1>7, <1>8, <1>9 DEF BudgetStep
<1>. HIDE DEF f, o, k, n, r, a, l, u
<1>. QED BY <1>10, AStep


LEMMA BudgetBeginPanel ==
    ASSUME BudgetInv, NEW i \in Instances, Budget!BeginPanel(i)
    PROVE  BudgetInv'
<1>. DEFINE f == s1[i]
            o == s2[i]
            k == "panel"
            n == 0
            r == Members
            a == 0
            l == 0
            u == 0
<1>1. /\ s4 \in Days /\ s1[i] \in DayCosts /\ s2[i] \in DayCosts /\ s3[i] \in DoingRec
      /\ s5 \in HistoryRec /\ Budget!Sum(s1[i]) \in Nat /\ Budget!Sum(s2[i]) \in Nat
      /\ s3[i].observed \in Nat /\ s3[i].waiting \in SUBSET Members
      /\ s1 = [s1 EXCEPT ![i] = s1[i]] /\ s2 = [s2 EXCEPT ![i] = s2[i]]
      /\ s3 = [s3 EXCEPT ![i] = s3[i]]
  BY Actor
<1>2. s3[i].kind = "idle"
  BY DEF Budget!BeginPanel, Budget!Doing
<1>3. a \in Nat /\ l \in Nat /\ u \in Nat /\ k \in Tasks /\ n \in Nat /\ r \in SUBSET Members
  <2>1. a \in Nat /\ l \in Nat /\ u \in Nat
    BY <1>1
  <2>2. k \in Tasks
    BY ActorNumbers DEF Tasks
  <2>3. n \in Nat
    BY <1>1
  <2>4. r \in SUBSET Members
    BY <1>1
  <2>. QED BY <2>1, <2>2, <2>3, <2>4
<1>4. f \in DayCosts /\ o \in DayCosts
  BY <1>1, <1>3, AddCostIs DEF Budget!Nothing, DayCosts
<1>5. s1' = [s1 EXCEPT ![i] = f] /\ s2' = [s2 EXCEPT ![i] = o] /\ s4' = s4
  BY <1>1 DEF Budget!BeginPanel, Now
<1>6. s3' = [s3 EXCEPT ![i] = Now(k, n, r)]
  BY <1>1, <1>2, ActorNow DEF Budget!BeginPanel, Now
<1>7. s5' = More(s5, a, l, u)
  BY <1>1, MoreIs DEF Budget!BeginPanel, Now
<1>8. Budget!Sum(o) + Pending(k, n) + l = Budget!Sum(s2[i]) + Pending(s3[i].kind,
      s3[i].observed) + a
  <2>1. Budget!Sum(o) = Budget!Sum(s2[i])
    OBVIOUS
  <2>2. Pending(k, n) = n
    BY <1>2 DEF Pending
  <2>3. Pending(s3[i].kind, s3[i].observed) = 0
    BY <1>2 DEF Pending
  <2>. HIDE DEF o
  <2>. QED BY <1>1, <1>3, <2>1, <2>2, <2>3
<1>9. ASSUME NEW d \in Days
      PROVE  /\ FitsStep(s3[i].kind, s3[i].observed, s1[i][d], s2[i][d], k, n, f[d], o[d], d = s4,
                u)
             /\ d > s4 => o[d] = 0
  <2>1. /\ s1[i][d] \in Nat /\ s2[i][d] \in Nat /\ (d > s4 => s2[i][d] = 0) /\ s4 \in Nat
        /\ d \in Nat
        /\ FitsNumbers(s3[i].kind, s3[i].observed, s1[i][d], s2[i][d])
    BY <1>1, ActorNumbers, BudgetSizes
  <2>2. o[d] = s2[i][d]
    OBVIOUS
  <2>3. f[d] = s1[i][d]
    OBVIOUS
  <2>. HIDE DEF f, o
  <2>4. CASE s3[i].kind = "idle" /\ d = s4
    BY <1>1, <1>2, <1>3, <2>1, <2>2, <2>3, <2>4, BudgetSizes DEF FitsStep, FitsNumbers, Ahead,
       Pending, Open
  <2>5. CASE s3[i].kind = "idle" /\ d # s4
    BY <1>1, <1>2, <1>3, <2>1, <2>2, <2>3, <2>5, BudgetSizes DEF FitsStep, FitsNumbers, Ahead,
       Pending, Open
  <2>. QED BY <1>2, <2>4, <2>5
<1>10. BudgetStep(i, f, o, k, n, r, a, l, u)
  <2>. HIDE DEF f, o, k, n, r, a, l, u
  <2>. QED BY <1>3, <1>4, <1>5, <1>6, <1>7, <1>8, <1>9 DEF BudgetStep
<1>. HIDE DEF f, o, k, n, r, a, l, u
<1>. QED BY <1>10, AStep


LEMMA BudgetPanelAnswers ==
    ASSUME BudgetInv, NEW i \in Instances, NEW m \in Members, NEW cost \in 0..1,
           NEW ok \in BOOLEAN, Budget!PanelAnswers(i, m, cost, ok)
    PROVE  BudgetInv'
<1>. DEFINE f == s1[i]
            o == s2[i]
            k == s3[i].kind
            n == s3[i].observed + IF ok THEN cost ELSE 0
            r == s3[i].waiting \ {m}
            a == cost
            l == IF ok THEN 0 ELSE cost
            u == cost
<1>1. /\ s4 \in Days /\ s1[i] \in DayCosts /\ s2[i] \in DayCosts /\ s3[i] \in DoingRec
      /\ s5 \in HistoryRec /\ Budget!Sum(s1[i]) \in Nat /\ Budget!Sum(s2[i]) \in Nat
      /\ s3[i].observed \in Nat /\ s3[i].waiting \in SUBSET Members
      /\ s1 = [s1 EXCEPT ![i] = s1[i]] /\ s2 = [s2 EXCEPT ![i] = s2[i]]
      /\ s3 = [s3 EXCEPT ![i] = s3[i]]
  BY Actor
<1>2. s3[i].kind = "panel"
  BY DEF Budget!PanelAnswers, Budget!Doing
<1>3. a \in Nat /\ l \in Nat /\ u \in Nat /\ k \in Tasks /\ n \in Nat /\ r \in SUBSET Members
  <2>1. a \in Nat /\ l \in Nat /\ u \in Nat
    BY <1>1
  <2>2. k \in Tasks
    BY ActorNumbers DEF Tasks
  <2>3. n \in Nat
    BY <1>1
  <2>4. r \in SUBSET Members
    BY <1>1
  <2>. QED BY <2>1, <2>2, <2>3, <2>4
<1>4. f \in DayCosts /\ o \in DayCosts
  BY <1>1, <1>3, AddCostIs DEF Budget!Nothing, DayCosts
<1>5. s1' = [s1 EXCEPT ![i] = f] /\ s2' = [s2 EXCEPT ![i] = o] /\ s4' = s4
  BY <1>1 DEF Budget!PanelAnswers, Now
<1>6. s3' = [s3 EXCEPT ![i] = Now(k, n, r)]
  BY <1>1, <1>2, ActorNow DEF Budget!PanelAnswers, Now
<1>7. s5' = More(s5, a, l, u)
  BY <1>2 DEF Budget!PanelAnswers, Now, Budget!Pay, More
<1>8. Budget!Sum(o) + Pending(k, n) + l = Budget!Sum(s2[i]) + Pending(s3[i].kind,
      s3[i].observed) + a
  <2>1. Budget!Sum(o) = Budget!Sum(s2[i])
    OBVIOUS
  <2>2. Pending(k, n) = n
    BY <1>2 DEF Pending
  <2>3. Pending(s3[i].kind, s3[i].observed) = s3[i].observed
    BY <1>2 DEF Pending
  <2>. HIDE DEF o
  <2>. QED BY <1>1, <1>3, <2>1, <2>2, <2>3
<1>9. ASSUME NEW d \in Days
      PROVE  /\ FitsStep(s3[i].kind, s3[i].observed, s1[i][d], s2[i][d], k, n, f[d], o[d], d = s4,
                u)
             /\ d > s4 => o[d] = 0
  <2>1. /\ s1[i][d] \in Nat /\ s2[i][d] \in Nat /\ (d > s4 => s2[i][d] = 0) /\ s4 \in Nat
        /\ d \in Nat
        /\ FitsNumbers(s3[i].kind, s3[i].observed, s1[i][d], s2[i][d])
    BY <1>1, ActorNumbers, BudgetSizes
  <2>2. o[d] = s2[i][d]
    OBVIOUS
  <2>3. f[d] = s1[i][d]
    OBVIOUS
  <2>. HIDE DEF f, o
  <2>4. CASE s3[i].kind = "panel" /\ d = s4
    BY <1>1, <1>2, <1>3, <2>1, <2>2, <2>3, <2>4, BudgetSizes DEF FitsStep, FitsNumbers, Ahead,
       Pending, Open
  <2>5. CASE s3[i].kind = "panel" /\ d # s4
    BY <1>1, <1>2, <1>3, <2>1, <2>2, <2>3, <2>5, BudgetSizes DEF FitsStep, FitsNumbers, Ahead,
       Pending, Open
  <2>. QED BY <1>2, <2>4, <2>5
<1>10. BudgetStep(i, f, o, k, n, r, a, l, u)
  <2>. HIDE DEF f, o, k, n, r, a, l, u
  <2>. QED BY <1>3, <1>4, <1>5, <1>6, <1>7, <1>8, <1>9 DEF BudgetStep
<1>. HIDE DEF f, o, k, n, r, a, l, u
<1>. QED BY <1>10, AStep


LEMMA BudgetPanelBooks ==
    ASSUME BudgetInv, NEW i \in Instances, Budget!PanelBooks(i)
    PROVE  BudgetInv'
<1>. DEFINE f == s1[i]
            o == Budget!AddCost(s2[i], s3[i].observed)
            k == "judge"
            n == 0
            r == {}
            a == 0
            l == 0
            u == 0
<1>1. /\ s4 \in Days /\ s1[i] \in DayCosts /\ s2[i] \in DayCosts /\ s3[i] \in DoingRec
      /\ s5 \in HistoryRec /\ Budget!Sum(s1[i]) \in Nat /\ Budget!Sum(s2[i]) \in Nat
      /\ s3[i].observed \in Nat /\ s3[i].waiting \in SUBSET Members
      /\ s1 = [s1 EXCEPT ![i] = s1[i]] /\ s2 = [s2 EXCEPT ![i] = s2[i]]
      /\ s3 = [s3 EXCEPT ![i] = s3[i]]
  BY Actor
<1>2. s3[i].kind = "panel"
  BY DEF Budget!PanelBooks, Budget!Doing
<1>3. a \in Nat /\ l \in Nat /\ u \in Nat /\ k \in Tasks /\ n \in Nat /\ r \in SUBSET Members
  <2>1. a \in Nat /\ l \in Nat /\ u \in Nat
    BY <1>1
  <2>2. k \in Tasks
    BY ActorNumbers DEF Tasks
  <2>3. n \in Nat
    BY <1>1
  <2>4. r \in SUBSET Members
    BY <1>1
  <2>. QED BY <2>1, <2>2, <2>3, <2>4
<1>4. f \in DayCosts /\ o \in DayCosts
  BY <1>1, <1>3, AddCostIs DEF Budget!Nothing, DayCosts
<1>5. s1' = [s1 EXCEPT ![i] = f] /\ s2' = [s2 EXCEPT ![i] = o] /\ s4' = s4
  BY <1>1 DEF Budget!PanelBooks
<1>6. s3' = [s3 EXCEPT ![i] = Now(k, n, r)]
  BY <1>1, <1>2, ActorNow DEF Budget!PanelBooks
<1>7. s5' = More(s5, a, l, u)
  BY <1>1, MoreIs DEF Budget!PanelBooks
<1>8. Budget!Sum(o) + Pending(k, n) + l = Budget!Sum(s2[i]) + Pending(s3[i].kind,
      s3[i].observed) + a
  <2>1. Budget!Sum(o) = Budget!Sum(s2[i]) + s3[i].observed
    BY <1>1, <1>3, AddCostIs
  <2>2. Pending(k, n) = 0
    BY <1>2 DEF Pending
  <2>3. Pending(s3[i].kind, s3[i].observed) = s3[i].observed
    BY <1>2 DEF Pending
  <2>. HIDE DEF o
  <2>. QED BY <1>1, <1>3, <2>1, <2>2, <2>3
<1>9. ASSUME NEW d \in Days
      PROVE  /\ FitsStep(s3[i].kind, s3[i].observed, s1[i][d], s2[i][d], k, n, f[d], o[d], d = s4,
                u)
             /\ d > s4 => o[d] = 0
  <2>1. /\ s1[i][d] \in Nat /\ s2[i][d] \in Nat /\ (d > s4 => s2[i][d] = 0) /\ s4 \in Nat
        /\ d \in Nat
        /\ FitsNumbers(s3[i].kind, s3[i].observed, s1[i][d], s2[i][d])
    BY <1>1, ActorNumbers, BudgetSizes
  <2>2. o[d] = IF d = s4 THEN s2[i][d] + s3[i].observed ELSE s2[i][d]
    BY <1>1, <1>3, AddCostIs
  <2>3. f[d] = s1[i][d]
    OBVIOUS
  <2>. HIDE DEF f, o
  <2>4. CASE s3[i].kind = "panel" /\ d = s4
    BY <1>1, <1>2, <1>3, <2>1, <2>2, <2>3, <2>4, BudgetSizes DEF FitsStep, FitsNumbers, Ahead,
       Pending, Open
  <2>5. CASE s3[i].kind = "panel" /\ d # s4
    BY <1>1, <1>2, <1>3, <2>1, <2>2, <2>3, <2>5, BudgetSizes DEF FitsStep, FitsNumbers, Ahead,
       Pending, Open
  <2>. QED BY <1>2, <2>4, <2>5
<1>10. BudgetStep(i, f, o, k, n, r, a, l, u)
  <2>. HIDE DEF f, o, k, n, r, a, l, u
  <2>. QED BY <1>3, <1>4, <1>5, <1>6, <1>7, <1>8, <1>9 DEF BudgetStep
<1>. HIDE DEF f, o, k, n, r, a, l, u
<1>. QED BY <1>10, AStep


LEMMA BudgetPanelEnds ==
    ASSUME BudgetInv, NEW i \in Instances, NEW cost \in 0..1, Budget!PanelEnds(i, cost)
    PROVE  BudgetInv'
<1>. DEFINE f == Budget!AddCost(s2[i], cost)
            o == Budget!AddCost(s2[i], cost)
            k == "idle"
            n == 0
            r == {}
            a == cost
            l == 0
            u == cost
<1>1. /\ s4 \in Days /\ s1[i] \in DayCosts /\ s2[i] \in DayCosts /\ s3[i] \in DoingRec
      /\ s5 \in HistoryRec /\ Budget!Sum(s1[i]) \in Nat /\ Budget!Sum(s2[i]) \in Nat
      /\ s3[i].observed \in Nat /\ s3[i].waiting \in SUBSET Members
      /\ s1 = [s1 EXCEPT ![i] = s1[i]] /\ s2 = [s2 EXCEPT ![i] = s2[i]]
      /\ s3 = [s3 EXCEPT ![i] = s3[i]]
  BY Actor
<1>2. s3[i].kind = "judge"
  BY DEF Budget!PanelEnds, Budget!Doing
<1>3. a \in Nat /\ l \in Nat /\ u \in Nat /\ k \in Tasks /\ n \in Nat /\ r \in SUBSET Members
  <2>1. a \in Nat /\ l \in Nat /\ u \in Nat
    BY <1>1
  <2>2. k \in Tasks
    BY ActorNumbers DEF Tasks
  <2>3. n \in Nat
    BY <1>1
  <2>4. r \in SUBSET Members
    BY <1>1
  <2>. QED BY <2>1, <2>2, <2>3, <2>4
<1>4. f \in DayCosts /\ o \in DayCosts
  BY <1>1, <1>3, AddCostIs DEF Budget!Nothing, DayCosts
<1>5. s1' = [s1 EXCEPT ![i] = f] /\ s2' = [s2 EXCEPT ![i] = o] /\ s4' = s4
  BY <1>1 DEF Budget!PanelEnds, Budget!Save
<1>6. s3' = [s3 EXCEPT ![i] = Now(k, n, r)]
  BY <1>1, <1>2, ActorNow DEF Budget!PanelEnds, Budget!Save
<1>7. s5' = More(s5, a, l, u)
  BY <1>2 DEF Budget!PanelEnds, Budget!Save, Budget!Pay, More
<1>8. Budget!Sum(o) + Pending(k, n) + l = Budget!Sum(s2[i]) + Pending(s3[i].kind,
      s3[i].observed) + a
  <2>1. Budget!Sum(o) = Budget!Sum(s2[i]) + cost
    BY <1>1, <1>3, AddCostIs
  <2>2. Pending(k, n) = 0
    BY <1>2 DEF Pending
  <2>3. Pending(s3[i].kind, s3[i].observed) = 0
    BY <1>2 DEF Pending
  <2>. HIDE DEF o
  <2>. QED BY <1>1, <1>3, <2>1, <2>2, <2>3
<1>9. ASSUME NEW d \in Days
      PROVE  /\ FitsStep(s3[i].kind, s3[i].observed, s1[i][d], s2[i][d], k, n, f[d], o[d], d = s4,
                u)
             /\ d > s4 => o[d] = 0
  <2>1. /\ s1[i][d] \in Nat /\ s2[i][d] \in Nat /\ (d > s4 => s2[i][d] = 0) /\ s4 \in Nat
        /\ d \in Nat
        /\ FitsNumbers(s3[i].kind, s3[i].observed, s1[i][d], s2[i][d])
    BY <1>1, ActorNumbers, BudgetSizes
  <2>2. o[d] = IF d = s4 THEN s2[i][d] + cost ELSE s2[i][d]
    BY <1>1, <1>3, AddCostIs
  <2>3. f[d] = IF d = s4 THEN s2[i][d] + cost ELSE s2[i][d]
    BY <1>1, <1>3, AddCostIs
  <2>. HIDE DEF f, o
  <2>4. CASE s3[i].kind = "judge" /\ d = s4
    BY <1>1, <1>2, <1>3, <2>1, <2>2, <2>3, <2>4, BudgetSizes DEF FitsStep, FitsNumbers, Ahead,
       Pending, Open
  <2>5. CASE s3[i].kind = "judge" /\ d # s4
    BY <1>1, <1>2, <1>3, <2>1, <2>2, <2>3, <2>5, BudgetSizes DEF FitsStep, FitsNumbers, Ahead,
       Pending, Open
  <2>. QED BY <1>2, <2>4, <2>5
<1>10. BudgetStep(i, f, o, k, n, r, a, l, u)
  <2>. HIDE DEF f, o, k, n, r, a, l, u
  <2>. QED BY <1>3, <1>4, <1>5, <1>6, <1>7, <1>8, <1>9 DEF BudgetStep
<1>. HIDE DEF f, o, k, n, r, a, l, u
<1>. QED BY <1>10, AStep


LEMMA BudgetTranscribes ==
    ASSUME BudgetInv, NEW i \in Instances, Budget!Transcribe(i, TRUE)
    PROVE  BudgetInv'
<1>. DEFINE f == Budget!AddCost(s2[i], 1)
            o == Budget!AddCost(s2[i], 1)
            k == s3[i].kind
            n == s3[i].observed
            r == s3[i].waiting
            a == 1
            l == 0
            u == 1
<1>1. /\ s4 \in Days /\ s1[i] \in DayCosts /\ s2[i] \in DayCosts /\ s3[i] \in DoingRec
      /\ s5 \in HistoryRec /\ Budget!Sum(s1[i]) \in Nat /\ Budget!Sum(s2[i]) \in Nat
      /\ s3[i].observed \in Nat /\ s3[i].waiting \in SUBSET Members
      /\ s1 = [s1 EXCEPT ![i] = s1[i]] /\ s2 = [s2 EXCEPT ![i] = s2[i]]
      /\ s3 = [s3 EXCEPT ![i] = s3[i]]
  BY Actor
<1>2. s3[i].kind = "idle"
  BY DEF Budget!Transcribe, Budget!Doing
<1>3. a \in Nat /\ l \in Nat /\ u \in Nat /\ k \in Tasks /\ n \in Nat /\ r \in SUBSET Members
  <2>1. a \in Nat /\ l \in Nat /\ u \in Nat
    BY <1>1
  <2>2. k \in Tasks
    BY ActorNumbers DEF Tasks
  <2>3. n \in Nat
    BY <1>1
  <2>4. r \in SUBSET Members
    BY <1>1
  <2>. QED BY <2>1, <2>2, <2>3, <2>4
<1>4. f \in DayCosts /\ o \in DayCosts
  BY <1>1, <1>3, AddCostIs DEF Budget!Nothing, DayCosts
<1>5. s1' = [s1 EXCEPT ![i] = f] /\ s2' = [s2 EXCEPT ![i] = o] /\ s4' = s4
  BY <1>1 DEF Budget!Transcribe, Budget!Save
<1>6. s3' = [s3 EXCEPT ![i] = Now(k, n, r)]
  BY <1>1, <1>2, ActorNow DEF Budget!Transcribe, Budget!Save
<1>7. s5' = More(s5, a, l, u)
  BY <1>2 DEF Budget!Transcribe, Budget!Save, Budget!Pay, More
<1>8. Budget!Sum(o) + Pending(k, n) + l = Budget!Sum(s2[i]) + Pending(s3[i].kind,
      s3[i].observed) + a
  <2>1. Budget!Sum(o) = Budget!Sum(s2[i]) + 1
    BY <1>1, <1>3, AddCostIs
  <2>2. Pending(k, n) = 0
    BY <1>2 DEF Pending
  <2>3. Pending(s3[i].kind, s3[i].observed) = 0
    BY <1>2 DEF Pending
  <2>. HIDE DEF o
  <2>. QED BY <1>1, <1>3, <2>1, <2>2, <2>3
<1>9. ASSUME NEW d \in Days
      PROVE  /\ FitsStep(s3[i].kind, s3[i].observed, s1[i][d], s2[i][d], k, n, f[d], o[d], d = s4,
                u)
             /\ d > s4 => o[d] = 0
  <2>1. /\ s1[i][d] \in Nat /\ s2[i][d] \in Nat /\ (d > s4 => s2[i][d] = 0) /\ s4 \in Nat
        /\ d \in Nat
        /\ FitsNumbers(s3[i].kind, s3[i].observed, s1[i][d], s2[i][d])
    BY <1>1, ActorNumbers, BudgetSizes
  <2>2. o[d] = IF d = s4 THEN s2[i][d] + 1 ELSE s2[i][d]
    BY <1>1, <1>3, AddCostIs
  <2>3. f[d] = IF d = s4 THEN s2[i][d] + 1 ELSE s2[i][d]
    BY <1>1, <1>3, AddCostIs
  <2>. HIDE DEF f, o
  <2>4. CASE s3[i].kind = "idle" /\ d = s4
    BY <1>1, <1>2, <1>3, <2>1, <2>2, <2>3, <2>4, BudgetSizes DEF FitsStep, FitsNumbers, Ahead,
       Pending, Open
  <2>5. CASE s3[i].kind = "idle" /\ d # s4
    BY <1>1, <1>2, <1>3, <2>1, <2>2, <2>3, <2>5, BudgetSizes DEF FitsStep, FitsNumbers, Ahead,
       Pending, Open
  <2>. QED BY <1>2, <2>4, <2>5
<1>10. BudgetStep(i, f, o, k, n, r, a, l, u)
  <2>. HIDE DEF f, o, k, n, r, a, l, u
  <2>. QED BY <1>3, <1>4, <1>5, <1>6, <1>7, <1>8, <1>9 DEF BudgetStep
<1>. HIDE DEF f, o, k, n, r, a, l, u
<1>. QED BY <1>10, AStep


LEMMA BudgetTranscribeFails ==
    ASSUME BudgetInv, NEW i \in Instances, Budget!Transcribe(i, FALSE)
    PROVE  BudgetInv'
<1>. DEFINE f == s1[i]
            o == s2[i]
            k == s3[i].kind
            n == s3[i].observed
            r == s3[i].waiting
            a == 1
            l == 1
            u == 1
<1>1. /\ s4 \in Days /\ s1[i] \in DayCosts /\ s2[i] \in DayCosts /\ s3[i] \in DoingRec
      /\ s5 \in HistoryRec /\ Budget!Sum(s1[i]) \in Nat /\ Budget!Sum(s2[i]) \in Nat
      /\ s3[i].observed \in Nat /\ s3[i].waiting \in SUBSET Members
      /\ s1 = [s1 EXCEPT ![i] = s1[i]] /\ s2 = [s2 EXCEPT ![i] = s2[i]]
      /\ s3 = [s3 EXCEPT ![i] = s3[i]]
  BY Actor
<1>2. s3[i].kind = "idle"
  BY DEF Budget!Transcribe, Budget!Doing
<1>3. a \in Nat /\ l \in Nat /\ u \in Nat /\ k \in Tasks /\ n \in Nat /\ r \in SUBSET Members
  <2>1. a \in Nat /\ l \in Nat /\ u \in Nat
    BY <1>1
  <2>2. k \in Tasks
    BY ActorNumbers DEF Tasks
  <2>3. n \in Nat
    BY <1>1
  <2>4. r \in SUBSET Members
    BY <1>1
  <2>. QED BY <2>1, <2>2, <2>3, <2>4
<1>4. f \in DayCosts /\ o \in DayCosts
  BY <1>1, <1>3, AddCostIs DEF Budget!Nothing, DayCosts
<1>5. s1' = [s1 EXCEPT ![i] = f] /\ s2' = [s2 EXCEPT ![i] = o] /\ s4' = s4
  BY <1>1 DEF Budget!Transcribe
<1>6. s3' = [s3 EXCEPT ![i] = Now(k, n, r)]
  BY <1>1, <1>2, ActorNow DEF Budget!Transcribe
<1>7. s5' = More(s5, a, l, u)
  BY <1>2 DEF Budget!Transcribe, Budget!Pay, More
<1>8. Budget!Sum(o) + Pending(k, n) + l = Budget!Sum(s2[i]) + Pending(s3[i].kind,
      s3[i].observed) + a
  <2>1. Budget!Sum(o) = Budget!Sum(s2[i])
    OBVIOUS
  <2>2. Pending(k, n) = 0
    BY <1>2 DEF Pending
  <2>3. Pending(s3[i].kind, s3[i].observed) = 0
    BY <1>2 DEF Pending
  <2>. HIDE DEF o
  <2>. QED BY <1>1, <1>3, <2>1, <2>2, <2>3
<1>9. ASSUME NEW d \in Days
      PROVE  /\ FitsStep(s3[i].kind, s3[i].observed, s1[i][d], s2[i][d], k, n, f[d], o[d], d = s4,
                u)
             /\ d > s4 => o[d] = 0
  <2>1. /\ s1[i][d] \in Nat /\ s2[i][d] \in Nat /\ (d > s4 => s2[i][d] = 0) /\ s4 \in Nat
        /\ d \in Nat
        /\ FitsNumbers(s3[i].kind, s3[i].observed, s1[i][d], s2[i][d])
    BY <1>1, ActorNumbers, BudgetSizes
  <2>2. o[d] = s2[i][d]
    OBVIOUS
  <2>3. f[d] = s1[i][d]
    OBVIOUS
  <2>. HIDE DEF f, o
  <2>4. CASE s3[i].kind = "idle" /\ d = s4
    BY <1>1, <1>2, <1>3, <2>1, <2>2, <2>3, <2>4, BudgetSizes DEF FitsStep, FitsNumbers, Ahead,
       Pending, Open
  <2>5. CASE s3[i].kind = "idle" /\ d # s4
    BY <1>1, <1>2, <1>3, <2>1, <2>2, <2>3, <2>5, BudgetSizes DEF FitsStep, FitsNumbers, Ahead,
       Pending, Open
  <2>. QED BY <1>2, <2>4, <2>5
<1>10. BudgetStep(i, f, o, k, n, r, a, l, u)
  <2>. HIDE DEF f, o, k, n, r, a, l, u
  <2>. QED BY <1>3, <1>4, <1>5, <1>6, <1>7, <1>8, <1>9 DEF BudgetStep
<1>. HIDE DEF f, o, k, n, r, a, l, u
<1>. QED BY <1>10, AStep


LEMMA BudgetClear ==
    ASSUME BudgetInv, NEW i \in Instances, Budget!Clear(i)
    PROVE  BudgetInv'
<1>. DEFINE f == s2[i]
            o == s2[i]
            k == s3[i].kind
            n == s3[i].observed
            r == s3[i].waiting
            a == 0
            l == 0
            u == 0
<1>1. /\ s4 \in Days /\ s1[i] \in DayCosts /\ s2[i] \in DayCosts /\ s3[i] \in DoingRec
      /\ s5 \in HistoryRec /\ Budget!Sum(s1[i]) \in Nat /\ Budget!Sum(s2[i]) \in Nat
      /\ s3[i].observed \in Nat /\ s3[i].waiting \in SUBSET Members
      /\ s1 = [s1 EXCEPT ![i] = s1[i]] /\ s2 = [s2 EXCEPT ![i] = s2[i]]
      /\ s3 = [s3 EXCEPT ![i] = s3[i]]
  BY Actor
<1>2. s3[i].kind = "idle"
  BY DEF Budget!Clear, Budget!Doing
<1>3. a \in Nat /\ l \in Nat /\ u \in Nat /\ k \in Tasks /\ n \in Nat /\ r \in SUBSET Members
  <2>1. a \in Nat /\ l \in Nat /\ u \in Nat
    BY <1>1
  <2>2. k \in Tasks
    BY ActorNumbers DEF Tasks
  <2>3. n \in Nat
    BY <1>1
  <2>4. r \in SUBSET Members
    BY <1>1
  <2>. QED BY <2>1, <2>2, <2>3, <2>4
<1>4. f \in DayCosts /\ o \in DayCosts
  BY <1>1, <1>3, AddCostIs DEF Budget!Nothing, DayCosts
<1>5. s1' = [s1 EXCEPT ![i] = f] /\ s2' = [s2 EXCEPT ![i] = o] /\ s4' = s4
  BY <1>1 DEF Budget!Clear, Budget!Save
<1>6. s3' = [s3 EXCEPT ![i] = Now(k, n, r)]
  BY <1>1, <1>2, ActorNow DEF Budget!Clear, Budget!Save
<1>7. s5' = More(s5, a, l, u)
  BY <1>1, MoreIs DEF Budget!Clear, Budget!Save
<1>8. Budget!Sum(o) + Pending(k, n) + l = Budget!Sum(s2[i]) + Pending(s3[i].kind,
      s3[i].observed) + a
  <2>1. Budget!Sum(o) = Budget!Sum(s2[i])
    OBVIOUS
  <2>2. Pending(k, n) = 0
    BY <1>2 DEF Pending
  <2>3. Pending(s3[i].kind, s3[i].observed) = 0
    BY <1>2 DEF Pending
  <2>. HIDE DEF o
  <2>. QED BY <1>1, <1>3, <2>1, <2>2, <2>3
<1>9. ASSUME NEW d \in Days
      PROVE  /\ FitsStep(s3[i].kind, s3[i].observed, s1[i][d], s2[i][d], k, n, f[d], o[d], d = s4,
                u)
             /\ d > s4 => o[d] = 0
  <2>1. /\ s1[i][d] \in Nat /\ s2[i][d] \in Nat /\ (d > s4 => s2[i][d] = 0) /\ s4 \in Nat
        /\ d \in Nat
        /\ FitsNumbers(s3[i].kind, s3[i].observed, s1[i][d], s2[i][d])
    BY <1>1, ActorNumbers, BudgetSizes
  <2>2. o[d] = s2[i][d]
    OBVIOUS
  <2>3. f[d] = s2[i][d]
    OBVIOUS
  <2>. HIDE DEF f, o
  <2>4. CASE s3[i].kind = "idle" /\ d = s4
    BY <1>1, <1>2, <1>3, <2>1, <2>2, <2>3, <2>4, BudgetSizes DEF FitsStep, FitsNumbers, Ahead,
       Pending, Open
  <2>5. CASE s3[i].kind = "idle" /\ d # s4
    BY <1>1, <1>2, <1>3, <2>1, <2>2, <2>3, <2>5, BudgetSizes DEF FitsStep, FitsNumbers, Ahead,
       Pending, Open
  <2>. QED BY <1>2, <2>4, <2>5
<1>10. BudgetStep(i, f, o, k, n, r, a, l, u)
  <2>. HIDE DEF f, o, k, n, r, a, l, u
  <2>. QED BY <1>3, <1>4, <1>5, <1>6, <1>7, <1>8, <1>9 DEF BudgetStep
<1>. HIDE DEF f, o, k, n, r, a, l, u
<1>. QED BY <1>10, AStep


LEMMA BudgetDeleteChat ==
    ASSUME BudgetInv, NEW i \in Instances, Budget!DeleteChat(i)
    PROVE  BudgetInv'
<1>. DEFINE f == Budget!Nothing
            o == Budget!Nothing
            k == s3[i].kind
            n == s3[i].observed
            r == s3[i].waiting
            a == 0
            l == Budget!Sum(s1[i])
            u == 0
<1>1. /\ s4 \in Days /\ s1[i] \in DayCosts /\ s2[i] \in DayCosts /\ s3[i] \in DoingRec
      /\ s5 \in HistoryRec /\ Budget!Sum(s1[i]) \in Nat /\ Budget!Sum(s2[i]) \in Nat
      /\ s3[i].observed \in Nat /\ s3[i].waiting \in SUBSET Members
      /\ s1 = [s1 EXCEPT ![i] = s1[i]] /\ s2 = [s2 EXCEPT ![i] = s2[i]]
      /\ s3 = [s3 EXCEPT ![i] = s3[i]]
  BY Actor
<1>2. s3[i].kind = "idle"
  BY DEF Budget!DeleteChat, Budget!Doing
<1>3. a \in Nat /\ l \in Nat /\ u \in Nat /\ k \in Tasks /\ n \in Nat /\ r \in SUBSET Members
  <2>1. a \in Nat /\ l \in Nat /\ u \in Nat
    BY <1>1
  <2>2. k \in Tasks
    BY ActorNumbers DEF Tasks
  <2>3. n \in Nat
    BY <1>1
  <2>4. r \in SUBSET Members
    BY <1>1
  <2>. QED BY <2>1, <2>2, <2>3, <2>4
<1>4. f \in DayCosts /\ o \in DayCosts
  BY <1>1, <1>3, AddCostIs DEF Budget!Nothing, DayCosts
<1>5. s1' = [s1 EXCEPT ![i] = f] /\ s2' = [s2 EXCEPT ![i] = o] /\ s4' = s4
  BY <1>1 DEF Budget!DeleteChat, Budget!Save
<1>6. s3' = [s3 EXCEPT ![i] = Now(k, n, r)]
  BY <1>1, <1>2, ActorNow DEF Budget!DeleteChat, Budget!Save
<1>7. s5' = More(s5, a, l, u)
  BY <1>2 DEF Budget!DeleteChat, Budget!Save, Budget!Pay, More
<1>8. Budget!Sum(o) + Pending(k, n) + l = Budget!Sum(s2[i]) + Pending(s3[i].kind,
      s3[i].observed) + a
  <2>1. Budget!Nothing \in [Days -> Nat] /\ \A d \in Days : Budget!Nothing[d] = 0
    BY DEF Budget!Nothing
  <2>2. Budget!Sum(o) = 0
    BY <2>1, SumOfNothing, BudgetSizes
  <2>3. s1[i] = s2[i]
    <3>1. \A d \in Days : s1[i][d] = s2[i][d]
      BY <1>2, Actor DEF IsInStep
    <3>. QED BY <1>1, <3>1 DEF DayCosts
  <2>4. Pending(s3[i].kind, s3[i].observed) = 0 /\ Pending(k, n) = 0
    BY <1>2 DEF Pending
  <2>. HIDE DEF o
  <2>. QED BY <1>1, <2>2, <2>3, <2>4
<1>9. ASSUME NEW d \in Days
      PROVE  /\ FitsStep(s3[i].kind, s3[i].observed, s1[i][d], s2[i][d], k, n, f[d], o[d], d = s4,
                u)
             /\ d > s4 => o[d] = 0
  <2>1. /\ s1[i][d] \in Nat /\ s2[i][d] \in Nat /\ (d > s4 => s2[i][d] = 0) /\ s4 \in Nat
        /\ d \in Nat
        /\ FitsNumbers(s3[i].kind, s3[i].observed, s1[i][d], s2[i][d])
    BY <1>1, ActorNumbers, BudgetSizes
  <2>2. o[d] = 0
    BY DEF Budget!Nothing
  <2>3. f[d] = 0
    BY DEF Budget!Nothing
  <2>. HIDE DEF f, o
  <2>4. CASE s3[i].kind = "idle" /\ d = s4
    BY <1>1, <1>2, <1>3, <2>1, <2>2, <2>3, <2>4, BudgetSizes DEF FitsStep, FitsNumbers, Ahead,
       Pending, Open
  <2>5. CASE s3[i].kind = "idle" /\ d # s4
    BY <1>1, <1>2, <1>3, <2>1, <2>2, <2>3, <2>5, BudgetSizes DEF FitsStep, FitsNumbers, Ahead,
       Pending, Open
  <2>. QED BY <1>2, <2>4, <2>5
<1>10. BudgetStep(i, f, o, k, n, r, a, l, u)
  <2>. HIDE DEF f, o, k, n, r, a, l, u
  <2>. QED BY <1>3, <1>4, <1>5, <1>6, <1>7, <1>8, <1>9 DEF BudgetStep
<1>. HIDE DEF f, o, k, n, r, a, l, u
<1>. QED BY <1>10, AStep


LEMMA BudgetDies ==
    ASSUME BudgetInv, NEW i \in Instances, Budget!Dies(i)
    PROVE  BudgetInv'
<1>. DEFINE f == s1[i]
            o == s1[i]
            k == "idle"
            n == 0
            r == {}
            a == 0
            l == Budget!NotBooked(s3[i]) + (Budget!Sum(s2[i]) - Budget!Sum(s1[i]))
            u == 0
<1>1. /\ s4 \in Days /\ s1[i] \in DayCosts /\ s2[i] \in DayCosts /\ s3[i] \in DoingRec
      /\ s5 \in HistoryRec /\ Budget!Sum(s1[i]) \in Nat /\ Budget!Sum(s2[i]) \in Nat
      /\ s3[i].observed \in Nat /\ s3[i].waiting \in SUBSET Members
      /\ s1 = [s1 EXCEPT ![i] = s1[i]] /\ s2 = [s2 EXCEPT ![i] = s2[i]]
      /\ s3 = [s3 EXCEPT ![i] = s3[i]]
  BY Actor
<1>2. s3[i].kind \in Tasks \ {"idle"}
  BY ActorNumbers DEF Budget!Dies, Budget!Doing
<1>3. a \in Nat /\ l \in Nat /\ u \in Nat /\ k \in Tasks /\ n \in Nat /\ r \in SUBSET Members
  <2>1. a \in Nat /\ l \in Nat /\ u \in Nat
    <3>1. \A d \in Days : s1[i][d] <= s2[i][d]
      BY Actor DEF IsInStep
    <3>2. Budget!Sum(s1[i]) <= Budget!Sum(s2[i])
      BY <1>1, <3>1, SumCompare, BudgetSizes DEF DayCosts
    <3>3. Budget!NotBooked(s3[i]) \in Nat
      BY <1>1 DEF Budget!NotBooked
    <3>. QED BY <1>1, <3>2, <3>3
  <2>2. k \in Tasks
    BY ActorNumbers DEF Tasks
  <2>3. n \in Nat
    BY <1>1
  <2>4. r \in SUBSET Members
    BY <1>1
  <2>. QED BY <2>1, <2>2, <2>3, <2>4
<1>4. f \in DayCosts /\ o \in DayCosts
  BY <1>1, <1>3, AddCostIs DEF Budget!Nothing, DayCosts
<1>5. s1' = [s1 EXCEPT ![i] = f] /\ s2' = [s2 EXCEPT ![i] = o] /\ s4' = s4
  BY <1>1 DEF Budget!Dies
<1>6. s3' = [s3 EXCEPT ![i] = Now(k, n, r)]
  BY <1>1, <1>2, ActorNow DEF Budget!Dies
<1>7. s5' = More(s5, a, l, u)
  BY <1>2 DEF Budget!Dies, Budget!Pay, More
<1>8. Budget!Sum(o) + Pending(k, n) + l = Budget!Sum(s2[i]) + Pending(s3[i].kind,
      s3[i].observed) + a
  <2>1. Pending(k, n) = 0
    BY DEF Pending
  <2>2. Budget!NotBooked(s3[i]) = Pending(s3[i].kind, s3[i].observed)
    BY DEF Pending, Budget!NotBooked
  <2>3. Pending(s3[i].kind, s3[i].observed) \in Nat
    BY <1>1 DEF Pending
  <2>. QED BY <1>1, <2>1, <2>2, <2>3
<1>9. ASSUME NEW d \in Days
      PROVE  /\ FitsStep(s3[i].kind, s3[i].observed, s1[i][d], s2[i][d], k, n, f[d], o[d], d = s4,
                u)
             /\ d > s4 => o[d] = 0
  <2>1. /\ s1[i][d] \in Nat /\ s2[i][d] \in Nat /\ (d > s4 => s2[i][d] = 0) /\ s4 \in Nat
        /\ d \in Nat
        /\ FitsNumbers(s3[i].kind, s3[i].observed, s1[i][d], s2[i][d])
    BY <1>1, ActorNumbers, BudgetSizes
  <2>2. o[d] = s1[i][d]
    OBVIOUS
  <2>3. f[d] = s1[i][d]
    OBVIOUS
  <2>. HIDE DEF f, o
  <2>4. CASE s3[i].kind = "run" /\ d = s4
    BY <1>1, <1>2, <1>3, <2>1, <2>2, <2>3, <2>4, BudgetSizes DEF FitsStep, FitsNumbers, Ahead,
       Pending, Open
  <2>5. CASE s3[i].kind = "run" /\ d # s4
    BY <1>1, <1>2, <1>3, <2>1, <2>2, <2>3, <2>5, BudgetSizes DEF FitsStep, FitsNumbers, Ahead,
       Pending, Open
  <2>6. CASE s3[i].kind = "free" /\ d = s4
    BY <1>1, <1>2, <1>3, <2>1, <2>2, <2>3, <2>6, BudgetSizes DEF FitsStep, FitsNumbers, Ahead,
       Pending, Open
  <2>7. CASE s3[i].kind = "free" /\ d # s4
    BY <1>1, <1>2, <1>3, <2>1, <2>2, <2>3, <2>7, BudgetSizes DEF FitsStep, FitsNumbers, Ahead,
       Pending, Open
  <2>8. CASE s3[i].kind = "panel" /\ d = s4
    BY <1>1, <1>2, <1>3, <2>1, <2>2, <2>3, <2>8, BudgetSizes DEF FitsStep, FitsNumbers, Ahead,
       Pending, Open
  <2>9. CASE s3[i].kind = "panel" /\ d # s4
    BY <1>1, <1>2, <1>3, <2>1, <2>2, <2>3, <2>9, BudgetSizes DEF FitsStep, FitsNumbers, Ahead,
       Pending, Open
  <2>10. CASE s3[i].kind = "judge" /\ d = s4
    BY <1>1, <1>2, <1>3, <2>1, <2>2, <2>3, <2>10, BudgetSizes DEF FitsStep, FitsNumbers, Ahead,
       Pending, Open
  <2>11. CASE s3[i].kind = "judge" /\ d # s4
    BY <1>1, <1>2, <1>3, <2>1, <2>2, <2>3, <2>11, BudgetSizes DEF FitsStep, FitsNumbers, Ahead,
       Pending, Open
  <2>. QED BY <1>2, <2>4, <2>5, <2>6, <2>7, <2>8, <2>9, <2>10, <2>11 DEF Tasks
<1>10. BudgetStep(i, f, o, k, n, r, a, l, u)
  <2>. HIDE DEF f, o, k, n, r, a, l, u
  <2>. QED BY <1>3, <1>4, <1>5, <1>6, <1>7, <1>8, <1>9 DEF BudgetStep
<1>. HIDE DEF f, o, k, n, r, a, l, u
<1>. QED BY <1>10, AStep
\* While the files are below the limit the sessions are bounded today, whatever is under way:
\* each is ahead of its file by what it has not saved unchecked and by its run.
Below == Budget!Spent(s4) < DailyLimit
TodayIsBounded ==
    Budget!Sum(AtMostOn(s4)) < DailyLimit + Budget!Sum(OneRunEach) + s5.unchecked
LEMMA BelowIsBounded == BudgetType /\ FitsAll /\ UnsavedIsUnchecked /\ Below => TodayIsBounded
<1>. SUFFICES ASSUME BudgetType, FitsAll, UnsavedIsUnchecked, Below PROVE TodayIsBounded
  OBVIOUS
<1>. DEFINE saved == [i \in Instances |-> s1[i][s4]]
            unsaved == UnsavedOn(s4)
            extra == [i \in Instances |-> OneRunEach[i] + unsaved[i]]
            all == [i \in Instances |-> saved[i] + extra[i]]
<1>1. s4 \in Days /\ SumsAreTyped /\ s5.unchecked \in Nat
  BY SumTypes DEF BudgetType, HistoryRec
<1>2. /\ saved \in [Instances -> Nat] /\ unsaved \in [Instances -> Nat]
      /\ OneRunEach \in [Instances -> Nat] /\ AtMostOn(s4) \in [Instances -> Nat]
  BY <1>1 DEF BudgetType, DayCosts, SumsAreTyped
<1>3. extra \in [Instances -> Nat]
  <2>. HIDE DEF unsaved
  <2>. QED BY <1>2
<1>4. all \in [Instances -> Nat]
  <2>. HIDE DEF saved, extra
  <2>. QED BY <1>2, <1>3
<1>5. ASSUME NEW i \in Instances PROVE AtMostOn(s4)[i] <= all[i]
  <2>. DEFINE k == s3[i].kind  n == s3[i].observed  x == s1[i][s4]  y == s2[i][s4]
  <2>1. s3[i] \in DoingRec /\ k \in Tasks /\ n \in Nat /\ x \in Nat /\ y \in Nat
        /\ IsInStep(s3[i], x, y)
    BY <1>1 DEF BudgetType, DayCosts, DoingRec, Tasks, FitsAll, FitsDays
  <2>2. AtMostOn(s4)[i] = y + MayCost(s3[i])
    BY DEF AtMostOn, AtMost
  <2>3. all[i] = x + (MaxRunCost + Unsaved(s3[i], x, y))
    BY DEF OneRunEach, UnsavedOn
  <2>4. y + MayCost(s3[i]) <= x + (MaxRunCost + Unsaved(s3[i], x, y))
    <3>1. CASE k = "run"
      <4>1. y <= x + n /\ n <= MaxRunCost /\ MayCost(s3[i]) = MaxRunCost - n
            /\ Unsaved(s3[i], x, y) = 0
        BY <2>1, <3>1 DEF IsInStep, MayCost, Unsaved, Budget!NotBooked
      <4>. HIDE DEF k, n, x, y
      <4>. QED BY <2>1, <4>1, BudgetSizes
    <3>2. CASE k \in {"free", "judge"}
      <4>1. MayCost(s3[i]) = 0 /\ Unsaved(s3[i], x, y) = y - x
        BY <2>1, <3>2 DEF IsInStep, MayCost, Unsaved, Budget!NotBooked
      <4>. HIDE DEF k, n, x, y
      <4>. QED BY <2>1, <4>1, BudgetSizes
    <3>3. CASE k = "panel"
      <4>1. y = x /\ MayCost(s3[i]) = n /\ Unsaved(s3[i], x, y) = n
        BY <2>1, <3>3 DEF IsInStep, MayCost, Unsaved, Budget!NotBooked
      <4>. HIDE DEF k, n, x, y
      <4>. QED BY <2>1, <4>1, BudgetSizes
    <3>4. CASE k = "idle"
      <4>1. y = x /\ MayCost(s3[i]) = 0 /\ Unsaved(s3[i], x, y) = 0
        BY <2>1, <3>4 DEF IsInStep, MayCost, Unsaved, Budget!NotBooked
      <4>. HIDE DEF k, n, x, y
      <4>. QED BY <2>1, <4>1, BudgetSizes
    <3>. QED BY <2>1, <3>1, <3>2, <3>3, <3>4 DEF Tasks
  <2>. QED BY <2>2, <2>3, <2>4
<1>6. Budget!Sum(extra) = Budget!Sum(OneRunEach) + Budget!Sum(unsaved)
  <2>1. \A i \in Instances : extra[i] = OneRunEach[i] + unsaved[i]
    OBVIOUS
  <2>. HIDE DEF extra, unsaved
  <2>2. IsFiniteSet(Instances) /\ OneRunEach \in [Instances -> Nat]
        /\ unsaved \in [Instances -> Nat] /\ extra \in [Instances -> Nat]
    BY <1>2, <1>3, BudgetSizes
  <2>. QED BY <2>1, <2>2, SumPlus, ZenonT(40)
<1>7. Budget!Sum(all) = Budget!Sum(saved) + Budget!Sum(extra)
  <2>1. \A i \in Instances : all[i] = saved[i] + extra[i]
    OBVIOUS
  <2>. HIDE DEF all, saved, extra
  <2>. QED BY <1>2, <1>3, <1>4, <2>1, SumPlus, BudgetSizes
<1>8. Budget!Sum(AtMostOn(s4)) <= Budget!Sum(all)
  <2>. HIDE DEF all
  <2>. QED BY <1>2, <1>4, <1>5, SumCompare, BudgetSizes
<1>9. Budget!Sum(saved) < DailyLimit
  BY DEF Below, Budget!Spent
<1>10. Budget!Sum(unsaved) <= s5.unchecked
  BY <1>1 DEF UnsavedIsUnchecked
<1>11. /\ Budget!Sum(AtMostOn(s4)) \in Nat /\ Budget!Sum(all) \in Nat /\ Budget!Sum(saved) \in Nat
       /\ Budget!Sum(extra) \in Nat /\ Budget!Sum(unsaved) \in Nat
       /\ Budget!Sum(OneRunEach) \in Nat
  <2>. HIDE DEF all, saved, extra, unsaved
  <2>. QED BY <1>2, <1>3, <1>4, SumType, BudgetSizes
<1>. HIDE DEF all, saved, extra, unsaved
<1>. QED BY <1>1, <1>6, <1>7, <1>8, <1>9, <1>10, <1>11, BudgetSizes DEF TodayIsBounded
LEMMA BelowNext ==
    BudgetType' /\ FitsAll' /\ UnsavedIsUnchecked' /\ Below' => TodayIsBounded'
BY BelowIsBounded, PTL

\* On another day than today there is what was booked, and no more is.
LEMMA OtherDays ==
    ASSUME BudgetInv, SumsAreTyped', s2' = s2, s5'.unchecked = s5.unchecked
    PROVE  \A d \in Days \ {s4'} : Budget!Sum(AtMostOn(d)')
                                      < DailyLimit + Budget!Sum(OneRunEach) + s5'.unchecked
<1>. SUFFICES ASSUME NEW d \in Days \ {s4'}
              PROVE  Budget!Sum(AtMostOn(d)') < DailyLimit + Budget!Sum(OneRunEach) + s5.unchecked
  OBVIOUS
<1>1. BudgetType /\ FitsAll /\ SumsAreTyped /\ SessionsAreBounded /\ s5.unchecked \in Nat
  BY SumTypes DEF BudgetInv, BudgetType, HistoryRec
<1>2. AtMostOn(d) \in [Instances -> Nat] /\ AtMostOn(d)' \in [Instances -> Nat]
      /\ OneRunEach \in [Instances -> Nat]
  BY <1>1 DEF SumsAreTyped
<1>3. ASSUME NEW i \in Instances PROVE AtMostOn(d)'[i] <= AtMostOn(d)[i]
  <2>1. /\ s3[i] \in DoingRec /\ s1[i][d] \in Nat /\ s2[i][d] \in Nat
        /\ IsInStep(s3[i], s1[i][d], s2[i][d])
    BY <1>1 DEF BudgetType, DayCosts, FitsAll, FitsDays
  <2>2. MayCost(s3[i]) \in Nat
    BY <2>1, WeightTypes
  <2>3. AtMostOn(d)'[i] = s2[i][d] + 0
    BY DEF AtMostOn, AtMost
  <2>4. AtMostOn(d)[i] = s2[i][d] + IF d = s4 THEN MayCost(s3[i]) ELSE 0
    BY DEF AtMostOn, AtMost
  <2>. QED BY <2>1, <2>2, <2>3, <2>4
<1>4. Budget!Sum(AtMostOn(d)') <= Budget!Sum(AtMostOn(d))
  BY <1>2, <1>3, SumCompare, BudgetSizes
<1>5. Budget!Sum(AtMostOn(d)') \in Nat /\ Budget!Sum(AtMostOn(d)) \in Nat
      /\ Budget!Sum(OneRunEach) \in Nat
  BY <1>2, SumType, BudgetSizes
<1>6. Budget!Sum(AtMostOn(d)) < DailyLimit + Budget!Sum(OneRunEach) + s5.unchecked
  BY <1>1 DEF SessionsAreBounded
<1>. QED BY <1>1, <1>4, <1>5, <1>6, BudgetSizes

LEMMA BothDays ==
    ASSUME BudgetInv, SumsAreTyped', s2' = s2, s5'.unchecked = s5.unchecked, TodayIsBounded'
    PROVE  SessionsAreBounded'
<1>1. OneRunEach' = OneRunEach
  BY DEF OneRunEach
<1>2. ASSUME NEW d \in Days, d = s4'
      PROVE  Budget!Sum(AtMostOn(d)') < DailyLimit + Budget!Sum(OneRunEach) + s5'.unchecked
  BY <1>1, <1>2 DEF TodayIsBounded, AtMostOn
<1>3. \A d \in Days : Budget!Sum(AtMostOn(d)') < DailyLimit + Budget!Sum(OneRunEach) + s5'.unchecked
  BY <1>2, OtherDays
<1>. QED BY <1>1, <1>3 DEF SessionsAreBounded

LEMMA BudgetBeginRun ==
    ASSUME BudgetInv, NEW i \in Instances, Budget!BeginRun(i, TRUE)
    PROVE  BudgetInv'
<1>. DEFINE w == Now("run", 0, {})
<1>1. /\ s4 \in Days /\ s1[i] \in DayCosts /\ s2[i] \in DayCosts /\ s3[i] \in DoingRec
      /\ s5 \in HistoryRec /\ s1 = [s1 EXCEPT ![i] = s1[i]] /\ s2 = [s2 EXCEPT ![i] = s2[i]]
      /\ s5.unchecked \in Nat /\ Budget!Sum(s2[i]) \in Nat /\ s5.paid \in Nat /\ s5.lost \in Nat
  BY Actor
<1>2. s3[i].kind = "idle" /\ Below /\ s1' = s1 /\ s2' = s2 /\ s4' = s4 /\ s5' = s5
  <2>1. s3[i].kind = "idle" /\ ~Budget!Exceeded /\ s1' = s1 /\ s2' = s2 /\ s4' = s4 /\ s5' = s5
    BY DEF Budget!BeginRun, Budget!Doing
  <2>2. [j \in Instances |-> s1[j][s4]] \in [Instances -> Nat]
    BY <1>1 DEF BudgetInv, BudgetType, DayCosts
  <2>3. Budget!Spent(s4) \in Nat
    BY <2>2, SumType, BudgetSizes DEF Budget!Spent
  <2>. QED BY <2>1, <2>3, BudgetSizes DEF Budget!Exceeded, Below
<1>3. s3' = [s3 EXCEPT ![i] = w]
  BY <1>1, ActorNow DEF Budget!BeginRun
<1>4. /\ w \in DoingRec /\ Budget!NotBooked(w) = 0
      /\ \A p, q \in Nat : Unsaved(w, p, q) = 0 /\ (IsInStep(w, p, q) <=> FitsNumbers("run", 0, p,
         q))
  <2>1. "run" \in Tasks /\ 0 \in Nat /\ {} \in SUBSET Members
    BY DEF Tasks
  <2>. QED BY <2>1, NowIs DEF Pending, Ahead
<1>5. Budget!NotBooked(s3[i]) = 0
  BY <1>2 DEF Budget!NotBooked
<1>. HIDE DEF w
<1>6. ASSUME NEW d \in Days
      PROVE  /\ IsInStep(w, s1[i][d], s2[i][d]) /\ (d > s4 => s2[i][d] = 0)
             /\ Unsaved(w, s1[i][d], s2[i][d]) = 0 /\ Unsaved(s3[i], s1[i][d], s2[i][d]) = 0
  <2>1. s1[i][d] \in Nat /\ s2[i][d] \in Nat /\ (d > s4 => s2[i][d] = 0)
        /\ FitsNumbers(s3[i].kind, s3[i].observed, s1[i][d], s2[i][d])
    BY ActorNumbers
  <2>2. FitsNumbers("run", 0, s1[i][d], s2[i][d])
    BY <1>2, <2>1, BudgetSizes DEF FitsNumbers
  <2>3. Unsaved(s3[i], s1[i][d], s2[i][d]) = 0
    BY <1>2, <1>5 DEF Unsaved
  <2>. QED BY <1>4, <2>1, <2>2, <2>3
<1>7. FitsDays(w, s1[i], s2[i], s4)
  BY <1>6 DEF FitsDays
<1>8. Shift(i, s1[i], s2[i], w, s5)
  BY <1>1, <1>2, <1>3, <1>4, <1>5, <1>6, <1>7 DEF Shift
<1>9. /\ BudgetType' /\ FitsAll' /\ SumsAreTyped'
      /\ Budget!EveryCostIsBookedOnce' /\ UnsavedIsUnchecked'
  BY <1>1, <1>4, <1>8, MoveTypes, MoveIsBooked
<1>10. Below'
  BY <1>2 DEF Below, Budget!Spent
<1>11. SessionsAreBounded'
  BY <1>2, <1>9, <1>10, BelowNext, BothDays
<1>. QED BY <1>9, <1>11 DEF BudgetInv

LEMMA BudgetMidnight == ASSUME BudgetInv, Budget!Midnight PROVE BudgetInv'
<1>1. /\ s4 \in Days /\ s4' \in Days /\ s4' = s4 + 1 /\ s4 \in Nat
      /\ s1' = s1 /\ s2' = s2 /\ s3' = s3 /\ s5' = s5
  BY BudgetSizes DEF Budget!Midnight, BudgetInv, BudgetType
<1>2. BudgetType /\ FitsAll /\ Budget!EveryCostIsBookedOnce /\ UnsavedIsUnchecked
  BY DEF BudgetInv
<1>3. BudgetType'
  BY <1>1, <1>2 DEF BudgetType
<1>4. FitsAll'
  <2>1. \A d \in Days : d > s4' => d > s4
    BY <1>1, BudgetSizes
  <2>. QED BY <1>1, <1>2, <2>1 DEF FitsAll, FitsDays
<1>5. Budget!EveryCostIsBookedOnce'
  BY <1>1, <1>2 DEF Budget!EveryCostIsBookedOnce, Budget!Booked, Budget!UnderWay
<1>6. UnsavedIsUnchecked'
  BY <1>1, <1>2 DEF UnsavedIsUnchecked, UnsavedOn
<1>7. SumsAreTyped'
  BY <1>3, <1>4, TypesNext
<1>8. Below'
  <2>. DEFINE saved == [i \in Instances |-> s1[i][s4']]
  <2>1. \A i \in Instances : s1[i][s4'] = 0
    <3>. SUFFICES ASSUME NEW i \in Instances PROVE s1[i][s4'] = 0
      OBVIOUS
    <3>1. s2[i][s4'] = 0 /\ s1[i][s4'] <= s2[i][s4'] /\ s1[i][s4'] \in Nat
      BY <1>1, Actor DEF IsInStep
    <3>. QED BY <3>1
  <2>2. saved \in [Instances -> Nat] /\ \A i \in Instances : saved[i] = 0
    BY <2>1
  <2>3. Budget!Sum(saved) = 0
    <3>. HIDE DEF saved
    <3>. QED BY <2>2, SumOfNothing, BudgetSizes
  <2>. QED BY <1>1, <2>3, BudgetSizes DEF Below, Budget!Spent
<1>9. SessionsAreBounded'
  BY <1>1, <1>3, <1>4, <1>6, <1>7, <1>8, BelowNext, BothDays
<1>. QED BY <1>3, <1>4, <1>5, <1>6, <1>9 DEF BudgetInv

LEMMA BudgetStepInv == ASSUME BudgetInv, Budget!SpendingNext PROVE BudgetInv'
<1>1. CASE Budget!Midnight
  BY <1>1, BudgetMidnight
<1>2. ASSUME NEW i \in Instances,
             \/ \E readable \in BOOLEAN : Budget!BeginRun(i, readable)
             \/ Budget!Compress(i) \/ Budget!CallCosts(i) \/ Budget!EndRun(i)
             \/ Budget!EndUnreportedRun(i) \/ Budget!BeginPanel(i) \/ Budget!PanelBooks(i)
             \/ \E m \in Members, cost \in 0..1, ok \in BOOLEAN : Budget!PanelAnswers(i, m, cost,
                ok)
             \/ \E cost \in 0..1 : Budget!PanelEnds(i, cost)
             \/ \E ok \in BOOLEAN : Budget!Transcribe(i, ok)
             \/ Budget!Clear(i) \/ Budget!DeleteChat(i) \/ Budget!Dies(i)
      PROVE  BudgetInv'
  <2>1. CASE \E readable \in BOOLEAN : Budget!BeginRun(i, readable)
    BY <2>1, BudgetBeginRun, BudgetBeginFreeRun
  <2>2. CASE Budget!Compress(i)
    BY <2>2, BudgetCompress
  <2>3. CASE Budget!CallCosts(i)
    BY <2>3, BudgetCallCosts
  <2>4. CASE Budget!EndRun(i)
    BY <2>4, BudgetEndRun
  <2>5. CASE Budget!EndUnreportedRun(i)
    BY <2>5, BudgetEndUnreported
  <2>6. CASE Budget!BeginPanel(i)
    BY <2>6, BudgetBeginPanel
  <2>7. CASE Budget!PanelBooks(i)
    BY <2>7, BudgetPanelBooks
  <2>8. CASE \E m \in Members, cost \in 0..1, ok \in BOOLEAN : Budget!PanelAnswers(i, m, cost, ok)
    BY <2>8, BudgetPanelAnswers
  <2>9. CASE \E cost \in 0..1 : Budget!PanelEnds(i, cost)
    BY <2>9, BudgetPanelEnds
  <2>10. CASE \E ok \in BOOLEAN : Budget!Transcribe(i, ok)
    BY <2>10, BudgetTranscribes, BudgetTranscribeFails
  <2>11. CASE Budget!Clear(i)
    BY <2>11, BudgetClear
  <2>12. CASE Budget!DeleteChat(i)
    BY <2>12, BudgetDeleteChat
  <2>13. CASE Budget!Dies(i)
    BY <2>13, BudgetDies
  <2>. QED BY <1>2, <2>1, <2>2, <2>3, <2>4, <2>5, <2>6, <2>7, <2>8, <2>9, <2>10, <2>11, <2>12,
              <2>13
<1>. QED BY <1>1, <1>2 DEF Budget!SpendingNext

\* The files never have more than the sessions, so what bounds these bounds the day's spend.
LEMMA BudgetInvImplies ==
    ASSUME BudgetInv PROVE Budget!EveryCostIsBookedOnce /\ Budget!OverspendIsBounded
<1>. SUFFICES ASSUME NEW d \in Days
              PROVE  Budget!Spent(d) < DailyLimit + Budget!Sum(OneRunEach) + s5.unchecked
  BY DEF BudgetInv, Budget!OverspendIsBounded, OneRunEach
<1>. DEFINE saved == [i \in Instances |-> s1[i][d]]
<1>1. BudgetType /\ FitsAll /\ SumsAreTyped /\ SessionsAreBounded /\ s5.unchecked \in Nat
  BY SumTypes DEF BudgetInv, BudgetType, HistoryRec
<1>2. /\ saved \in [Instances -> Nat] /\ AtMostOn(d) \in [Instances -> Nat]
      /\ OneRunEach \in [Instances -> Nat]
  BY <1>1 DEF SumsAreTyped, BudgetType, DayCosts
<1>3. ASSUME NEW i \in Instances PROVE saved[i] <= AtMostOn(d)[i]
  <2>1. /\ s3[i] \in DoingRec /\ s1[i][d] \in Nat /\ s2[i][d] \in Nat
        /\ IsInStep(s3[i], s1[i][d], s2[i][d])
    BY <1>1 DEF BudgetType, DayCosts, FitsAll, FitsDays
  <2>2. MayCost(s3[i]) \in Nat
    BY <2>1, WeightTypes
  <2>3. s1[i][d] <= s2[i][d]
    BY <2>1 DEF IsInStep
  <2>4. AtMostOn(d)[i] = s2[i][d] + IF d = s4 THEN MayCost(s3[i]) ELSE 0
    BY DEF AtMostOn, AtMost
  <2>. QED BY <2>1, <2>2, <2>3, <2>4
<1>4. Budget!Sum(saved) <= Budget!Sum(AtMostOn(d))
  <2>. HIDE DEF saved
  <2>. QED BY <1>2, <1>3, SumCompare, BudgetSizes
<1>5. Budget!Sum(saved) \in Nat /\ Budget!Sum(AtMostOn(d)) \in Nat
      /\ Budget!Sum(OneRunEach) \in Nat
  <2>. HIDE DEF saved
  <2>. QED BY <1>2, SumType, BudgetSizes
<1>6. Budget!Sum(AtMostOn(d)) < DailyLimit + Budget!Sum(OneRunEach) + s5.unchecked
  BY <1>1 DEF SessionsAreBounded
<1>7. Budget!Spent(d) = Budget!Sum(saved)
  BY DEF Budget!Spent
<1>. HIDE DEF saved
<1>. QED BY <1>1, <1>4, <1>5, <1>6, <1>7, BudgetSizes

\* Every cost is on the disk, in the session or in the run that made it, but what was lost with
\* a failed call, a deleted chat or a dead process; and however many instances run together,
\* a day's spend passes the limit by no more than one run of each and what is not checked.
THEOREM SpendingStaysBounded == PartsSpec => []SpendingIsBounded
<1>. DEFINE Inv == part = "budget" => BudgetInv
<1>1. PartsInit => Inv
  BY BudgetInitInv DEF PartsInit
<1>2. Inv /\ [PartsNext]_partsVars => Inv'
  <2>. SUFFICES ASSUME Inv, [PartsNext]_partsVars, part' = "budget" PROVE BudgetInv'
    OBVIOUS
  <2>1. part = "budget" /\ BudgetInv
    BY PartStays
  <2>2. CASE PartsNext
    <3>1. Budget!SpendingNext
      BY <2>1, <2>2 DEF PartsNext
    <3>. QED BY <2>1, <3>1, BudgetStepInv
  <2>3. CASE UNCHANGED partsVars
    <3>1. s1' = s1 /\ s2' = s2 /\ s3' = s3 /\ s4' = s4 /\ s5' = s5
      BY <2>3 DEF partsVars
    <3>. QED BY <2>1, <3>1 DEF BudgetInv, BudgetType, FitsAll, FitsDays, UnsavedIsUnchecked,
              UnsavedOn, SessionsAreBounded, AtMostOn, Budget!EveryCostIsBookedOnce,
              Budget!Booked, Budget!UnderWay
  <2>. QED BY <2>2, <2>3
<1>3. Inv => SpendingIsBounded
  BY BudgetInvImplies DEF SpendingIsBounded
<1>. QED BY <1>1, <1>2, <1>3, PTL DEF PartsSpec

-----------------------------------------------------------------------------
(* LineEditor: s1 is line.  A key leaves the draft alone but for what it is about. *)

Letters == LineLetters
LineText == Seq(Letters)
LineRec == [text : LineText, cursor : Nat, past : Seq(LineText), index : Nat, search : BOOLEAN,
            listClosed : BOOLEAN, atClosed : BOOLEAN, waiting : BOOLEAN]
IsLine(l) == l \in LineRec /\ l.cursor \in 0..Len(l.text) /\ l.index \in 0..Len(l.past)

\* The line of l, with other text, cursor and place in the history.
IsLike(next, l, text, cursor, index) ==
    /\ next \in LineRec /\ next.text = text /\ next.cursor = cursor /\ next.past = l.past
    /\ next.index = index

-----------------------------------------------------------------------------
(* Least and greatest numbers *)

LEMMA LeastIs ==
    ASSUME NEW S \in SUBSET Nat, S # {}
    PROVE  Line!Min(S) \in S /\ \A x \in S : Line!Min(S) <= x
<1>1. \E x \in S : \A y \in S : x <= y
  <2>. DEFINE R == OpToRel(<, Nat)
  <2>1. IsWellFoundedOn(R, Nat)
    BY NatLessThanWellFounded
  <2>2. PICK m \in S : \A y \in S : ~(<<y, m>> \in R)
    <3>. HIDE DEF R
    <3>. QED BY <2>1, WFMin
  <2>3. \A y \in S : m <= y
    <3>. SUFFICES ASSUME NEW y \in S, y < m PROVE FALSE
      OBVIOUS
    <3>1. <<y, m>> \in R
      BY DEF OpToRel
    <3>. QED BY <2>2, <3>1
  <2>. QED BY <2>3
<1>. QED BY <1>1 DEF Line!Min

LEMMA GreatestIs ==
    ASSUME NEW S \in SUBSET Nat, S # {}, NEW n \in Nat, \A x \in S : x <= n
    PROVE  Line!Max(S) \in S /\ \A x \in S : x <= Line!Max(S)
<1>. DEFINE T == {n - x : x \in S}
<1>1. T \in SUBSET Nat /\ T # {}
  <2>1. \A x \in S : x \in Nat /\ n - x \in Nat
    OBVIOUS
  <2>2. PICK x \in S : TRUE
    OBVIOUS
  <2>3. n - x \in T
    OBVIOUS
  <2>. QED BY <2>1, <2>3
<1>2. PICK m \in T : \A y \in T : m <= y
  <2>. HIDE DEF T
  <2>. QED BY <1>1, LeastIs
<1>3. PICK x \in S : m = n - x
  OBVIOUS
<1>4. \A y \in S : y <= x
  <2>. SUFFICES ASSUME NEW y \in S PROVE y <= x
    OBVIOUS
  <2>1. m <= n - y
    BY <1>2
  <2>. QED BY <1>3, <2>1
<1>5. \E z \in S : \A y \in S : z >= y
  BY <1>4
<1>. QED BY <1>5 DEF Line!Max

-----------------------------------------------------------------------------
(* Places in the text *)

LEMMA LettersAre ==
    /\ LineKeys \subseteq Letters /\ " " \in Letters /\ "\n" \in Letters /\ "/" \in Letters
    /\ LineCommands \subseteq LineText /\ LineFiles \subseteq LineText /\ LinePasted \in LineText
    /\ LinePast \in Seq(LineText)
BY LineAssumption DEF Letters, LineText

LEMMA BreakIsNoWord == \A l : "\n" \notin Line!NoSpace(l)
BY DEF Line!NoSpace, Line!Space
LEMMA BreakIsNoBlank == "\n" \notin {" "}
OBVIOUS

LEMMA BackIs ==
    ASSUME NEW l \in LineRec, NEW from \in Nat, NEW over
    PROVE  /\ Line!Back(l, from, over) \in 0..from
           /\ \A k \in (Line!Back(l, from, over) + 1)..from : l.text[k] \in over
<1>. DEFINE S == {i \in 0..from : \A k \in (i + 1)..from : l.text[k] \in over}
<1>1. S \in SUBSET Nat /\ from \in S
  OBVIOUS
<1>2. Line!Back(l, from, over) = Line!Min(S)
  BY DEF Line!Back
<1>3. Line!Min(S) \in S
  <2>. HIDE DEF S
  <2>. QED BY <1>1, LeastIs
<1>. QED BY <1>2, <1>3

LEMMA AheadIs ==
    ASSUME s1 \in LineRec, NEW from \in 0..Len(s1.text), NEW over
    PROVE  Line!Ahead(from, over) \in from..Len(s1.text)
<1>. DEFINE n == Len(s1.text)
            S == {i \in from..n : \A k \in (from + 1)..i : s1.text[k] \in over}
<1>1. n \in Nat
  BY DEF LineRec, LineText
<1>2. S \in SUBSET Nat /\ from \in S /\ \A i \in S : i <= n
  BY <1>1
<1>3. Line!Ahead(from, over) = Line!Max(S)
  BY DEF Line!Ahead, Line!Size
<1>4. Line!Max(S) \in S
  <2>. HIDE DEF S
  <2>. QED BY <1>1, <1>2, GreatestIs
<1>. QED BY <1>3, <1>4

LEMMA LineStartIs ==
    ASSUME IsLine(s1)
    PROVE  /\ Line!LineStart \in 0..s1.cursor
           /\ Line!LineStart > 0 => s1.text[Line!LineStart] = "\n"
<1>. DEFINE S == {0} \cup {i \in 1..s1.cursor : s1.text[i] = "\n"}
<1>1. s1.cursor \in Nat
  BY DEF IsLine, LineRec
<1>2. S \in SUBSET Nat /\ S # {} /\ \A i \in S : i <= s1.cursor
  BY <1>1
<1>3. Line!LineStart = Line!Max(S)
  BY DEF Line!LineStart
<1>4. Line!Max(S) \in S
  <2>. HIDE DEF S
  <2>. QED BY <1>1, <1>2, GreatestIs
<1>. QED BY <1>1, <1>3, <1>4

LEMMA LineEndIs == ASSUME IsLine(s1) PROVE Line!LineEnd \in s1.cursor..Len(s1.text)
<1>. DEFINE n == Len(s1.text)
            S == {n} \cup {i \in s1.cursor..(n - 1) : s1.text[i + 1] = "\n"}
<1>1. n \in Nat /\ s1.cursor \in 0..n
  BY DEF IsLine, LineRec, LineText
<1>2. S \in SUBSET Nat /\ S # {} /\ S \subseteq s1.cursor..n
  BY <1>1
<1>3. Line!LineEnd = Line!Min(S)
  BY DEF Line!LineEnd, Line!Size
<1>4. Line!Min(S) \in S
  <2>. HIDE DEF S
  <2>. QED BY <1>2, LeastIs
<1>. QED BY <1>2, <1>3, <1>4

\* A word ends where its line does.
LEMMA StaysInLine ==
    ASSUME NEW l \in LineRec, NEW from \in Nat, NEW start \in 0..from,
           start > 0 => l.text[start] = "\n", NEW over, "\n" \notin over
    PROVE  Line!Back(l, from, over) \in start..from
<1>. DEFINE at == Line!Back(l, from, over)
<1>1. at \in 0..from
  BY BackIs
<1>2. \A k \in (at + 1)..from : l.text[k] \in over
  BY BackIs
<1>. HIDE DEF at
<1>3. at >= start
  <2>. SUFFICES ASSUME at < start PROVE FALSE
    BY <1>1
  <2>1. start \in (at + 1)..from /\ start > 0
    BY <1>1
  <2>2. l.text[start] = "\n"
    BY <2>1
  <2>3. l.text[start] \in over
    BY <1>2, <2>1
  <2>. QED BY <2>2, <2>3
<1>. QED BY <1>1, <1>3 DEF at

LEMMA WordsStayInLine ==
    ASSUME IsLine(s1)
    PROVE  /\ Line!WordLeft \in Line!LineStart..s1.cursor
           /\ Line!AtStart(s1) \in Line!LineStart..s1.cursor
           /\ Line!WordRight \in 0..Len(s1.text)
<1>1. s1 \in LineRec /\ s1.cursor \in Nat /\ s1.cursor \in 0..Len(s1.text) /\ Len(s1.text) \in Nat
  BY DEF IsLine, LineRec, LineText
<1>2. Line!LineStart \in 0..s1.cursor
  BY LineStartIs
<1>3. Line!LineStart > 0 => s1.text[Line!LineStart] = "\n"
  BY LineStartIs
<1>4. Line!AtStart(s1) \in Line!LineStart..s1.cursor
  BY <1>1, <1>2, <1>3, StaysInLine, BreakIsNoWord DEF Line!AtStart
<1>5. Line!WordLeft \in Line!LineStart..s1.cursor
  <2>. DEFINE blanks == Line!Back(s1, s1.cursor, {" "})
  <2>1. blanks \in Line!LineStart..s1.cursor
    BY <1>1, <1>2, <1>3, StaysInLine, BreakIsNoBlank
  <2>2. Line!WordLeft = Line!Back(s1, blanks, Line!NoSpace(s1))
    BY DEF Line!WordLeft
  <2>. HIDE DEF blanks
  <2>3. blanks \in Nat /\ Line!LineStart \in 0..blanks
    BY <1>1, <1>2, <2>1
  <2>4. Line!Back(s1, blanks, Line!NoSpace(s1)) \in Line!LineStart..blanks
    BY <1>1, <1>3, <2>3, StaysInLine, BreakIsNoWord
  <2>. QED BY <1>1, <1>2, <2>1, <2>2, <2>3, <2>4
<1>6. Line!WordRight \in 0..Len(s1.text)
  <2>. DEFINE blanks == Line!Ahead(s1.cursor, {" "})
  <2>1. blanks \in s1.cursor..Len(s1.text)
    BY <1>1, AheadIs
  <2>2. Line!WordRight = Line!Ahead(blanks, Line!NoSpace(s1))
    BY DEF Line!WordRight
  <2>. HIDE DEF blanks
  <2>3. blanks \in 0..Len(s1.text)
    BY <1>1, <2>1
  <2>4. Line!Ahead(blanks, Line!NoSpace(s1)) \in blanks..Len(s1.text)
    BY <1>1, <2>3, AheadIs
  <2>. QED BY <1>1, <2>2, <2>3, <2>4
<1>. QED BY <1>4, <1>5, <1>6

-----------------------------------------------------------------------------
(* Lines and what is put into them *)

LEMMA LineIs ==
    ASSUME NEW l \in LineRec
    PROVE  /\ l = [text |-> l.text, cursor |-> l.cursor, past |-> l.past, index |-> l.index,
                   search |-> l.search, listClosed |-> l.listClosed, atClosed |-> l.atClosed,
                   waiting |-> l.waiting]
           /\ l.text \in LineText /\ l.cursor \in Nat /\ l.past \in Seq(LineText) /\ l.index \in Nat
           /\ l.search \in BOOLEAN /\ l.listClosed \in BOOLEAN /\ l.atClosed \in BOOLEAN
           /\ l.waiting \in BOOLEAN /\ Len(l.text) \in Nat
<1>1. l.text \in Seq(Letters)
  BY DEF LineRec, LineText
<1>. QED BY <1>1 DEF LineRec

LEMMA PutIs ==
    ASSUME NEW l \in LineRec, NEW text \in LineText, NEW n \in Nat
    PROVE  IsLike(Line!Put(l, text, n), l, text, n, l.index)
<1>1. Line!Put(l, text, n) =
          [text |-> text, cursor |-> n, past |-> l.past, index |-> l.index, search |-> l.search,
           listClosed |-> l.listClosed, atClosed |-> l.atClosed, waiting |-> l.waiting]
  <2>. DEFINE m == [l EXCEPT !.text = text]
  <2>1. m = [text |-> text, cursor |-> l.cursor, past |-> l.past, index |-> l.index,
             search |-> l.search, listClosed |-> l.listClosed, atClosed |-> l.atClosed,
             waiting |-> l.waiting]
    BY LineIs
  <2>2. Line!Put(l, text, n) = [m EXCEPT !.cursor = n]
    BY DEF Line!Put
  <2>. HIDE DEF m
  <2>. QED BY <2>1, <2>2
<1>. QED BY <1>1, LineIs DEF LineRec, IsLike

\* The flags say nothing of the text.
LEMMA FlagsAre ==
    ASSUME NEW l \in LineRec, NEW b \in BOOLEAN
    PROVE  /\ IsLike([l EXCEPT !.search = b], l, l.text, l.cursor, l.index)
           /\ IsLike([l EXCEPT !.listClosed = b], l, l.text, l.cursor, l.index)
           /\ IsLike([l EXCEPT !.atClosed = b], l, l.text, l.cursor, l.index)
           /\ IsLike([l EXCEPT !.waiting = b], l, l.text, l.cursor, l.index)
<1>1. [l EXCEPT !.search = b] =
          [text |-> l.text, cursor |-> l.cursor, past |-> l.past, index |-> l.index, search |-> b,
           listClosed |-> l.listClosed, atClosed |-> l.atClosed, waiting |-> l.waiting]
  BY LineIs
<1>2. [l EXCEPT !.listClosed = b] =
          [text |-> l.text, cursor |-> l.cursor, past |-> l.past, index |-> l.index,
           search |-> l.search, listClosed |-> b, atClosed |-> l.atClosed, waiting |-> l.waiting]
  BY LineIs
<1>3. [l EXCEPT !.atClosed = b] =
          [text |-> l.text, cursor |-> l.cursor, past |-> l.past, index |-> l.index,
           search |-> l.search, listClosed |-> l.listClosed, atClosed |-> b, waiting |-> l.waiting]
  BY LineIs
<1>4. [l EXCEPT !.waiting = b] =
          [text |-> l.text, cursor |-> l.cursor, past |-> l.past, index |-> l.index,
           search |-> l.search, listClosed |-> l.listClosed, atClosed |-> l.atClosed, waiting |-> b]
  BY LineIs
<1>. QED BY <1>1, <1>2, <1>3, <1>4, LineIs DEF LineRec, IsLike

LEMMA CursorIs ==
    ASSUME NEW l \in LineRec, NEW n \in Nat
    PROVE  /\ IsLike([l EXCEPT !.cursor = n], l, l.text, n, l.index)
           /\ IsLike([l EXCEPT !.index = n], l, l.text, l.cursor, n)
<1>1. [l EXCEPT !.cursor = n] =
          [text |-> l.text, cursor |-> n, past |-> l.past, index |-> l.index, search |-> l.search,
           listClosed |-> l.listClosed, atClosed |-> l.atClosed, waiting |-> l.waiting]
  BY LineIs
<1>2. [l EXCEPT !.index = n] =
          [text |-> l.text, cursor |-> l.cursor, past |-> l.past, index |-> n, search |-> l.search,
           listClosed |-> l.listClosed, atClosed |-> l.atClosed, waiting |-> l.waiting]
  BY LineIs
<1>. QED BY <1>1, <1>2, LineIs DEF LineRec, IsLike

LEMMA PieceIs ==
    ASSUME NEW s \in LineText, NEW a \in Nat, NEW b \in Nat, a <= b, b <= Len(s)
    PROVE  /\ SubSeq(s, a + 1, b) \in LineText /\ Len(SubSeq(s, a + 1, b)) = b - a
           /\ \A i \in 1..(b - a) : SubSeq(s, a + 1, b)[i] = s[a + i]
<1>1. s \in Seq(Letters) /\ a + 1 \in Nat /\ b \in Nat
  BY DEF LineText
<1>2. /\ SubSeq(s, a + 1, b) \in Seq(Letters) /\ Len(SubSeq(s, a + 1, b)) = b - a
      /\ \A i \in 1..(b - a) : SubSeq(s, a + 1, b)[i] = s[a + i]
  BY <1>1
<1>. QED BY <1>2 DEF LineText

LEMMA JoinIs ==
    ASSUME NEW s \in LineText, NEW t \in LineText
    PROVE  /\ s \o t \in LineText /\ Len(s \o t) = Len(s) + Len(t)
           /\ Len(s) \in Nat /\ Len(t) \in Nat
           /\ \A i \in 1..Len(s) : (s \o t)[i] = s[i]
           /\ \A i \in 1..Len(t) : (s \o t)[Len(s) + i] = t[i]
<1>1. s \in Seq(Letters) /\ t \in Seq(Letters)
  BY DEF LineText
<1>2. s \o t \in Seq(Letters) /\ Len(s \o t) = Len(s) + Len(t) /\ Len(s) \in Nat /\ Len(t) \in Nat
  BY <1>1
<1>3. \A i \in 1..Len(s) : (s \o t)[i] = s[i]
  BY <1>1
<1>4. \A i \in 1..Len(t) : (s \o t)[Len(s) + i] = t[i]
  BY <1>1
<1>. QED BY <1>2, <1>3, <1>4 DEF LineText

LEMMA SameText ==
    ASSUME NEW s \in LineText, NEW t \in LineText, Len(s) = Len(t),
           \A i \in 1..Len(s) : s[i] = t[i]
    PROVE  s = t
BY SeqEqual DEF LineText

LEMMA OneLetter ==
    ASSUME NEW c \in Letters
    PROVE  <<c>> \in LineText /\ Len(<<c>>) = 1 /\ <<c>>[1] = c
BY DEF LineText

\* What Splice makes of a text, place by place.
IsSpliced(text, l, a, b, new) ==
    /\ text \in LineText
    /\ IsLike(Line!Splice(l, a, b, new), l, text, a + Len(new), l.index)
    /\ Len(new) \in Nat /\ Len(text) = a + Len(new) + (Len(l.text) - b)
    /\ \A i \in 1..a : text[i] = l.text[i]
    /\ \A i \in 1..(Len(l.text) - b) : text[a + Len(new) + i] = l.text[b + i]
LEMMA SpliceIs ==
    ASSUME NEW l \in LineRec, NEW a \in Nat, NEW b \in Nat, a <= b, b <= Len(l.text),
           NEW new \in LineText
    PROVE  \E text : IsSpliced(text, l, a, b, new)
<1>. DEFINE n == Len(l.text)
            head == SubSeq(l.text, 1, a)
            rest == SubSeq(l.text, b + 1, n)
            first == head \o new
            text == first \o rest
<1>1. l.text \in LineText /\ n \in Nat
  BY LineIs
<1>2. head \in LineText /\ Len(head) = a /\ \A i \in 1..a : head[i] = l.text[i]
  <2>1. /\ SubSeq(l.text, 0 + 1, a) \in LineText /\ Len(SubSeq(l.text, 0 + 1, a)) = a - 0
        /\ \A i \in 1..(a - 0) : SubSeq(l.text, 0 + 1, a)[i] = l.text[0 + i]
    BY <1>1, PieceIs
  <2>2. 0 + 1 = 1 /\ a - 0 = a /\ \A i \in 1..a : 0 + i = i
    OBVIOUS
  <2>. QED BY <2>1, <2>2
<1>3. rest \in LineText /\ Len(rest) = n - b /\ \A i \in 1..(n - b) : rest[i] = l.text[b + i]
  BY <1>1, PieceIs
<1>4. Line!Splice(l, a, b, new) = Line!Put(l, text, a + Len(new))
  BY DEF Line!Splice, Line!From
<1>. HIDE DEF head, rest
<1>5. /\ first \in LineText /\ Len(first) = a + Len(new) /\ Len(new) \in Nat
      /\ \A i \in 1..a : first[i] = l.text[i]
  BY <1>2, JoinIs
<1>. HIDE DEF first
<1>6. /\ text \in LineText /\ Len(text) = a + Len(new) + (n - b)
      /\ \A i \in 1..(a + Len(new)) : text[i] = first[i]
      /\ \A i \in 1..(n - b) : text[a + Len(new) + i] = l.text[b + i]
  <2>1. /\ text \in LineText /\ Len(text) = Len(first) + Len(rest)
        /\ \A i \in 1..Len(first) : text[i] = first[i]
        /\ \A i \in 1..Len(rest) : text[Len(first) + i] = rest[i]
    BY <1>3, <1>5, JoinIs
  <2>. HIDE DEF text
  <2>. QED BY <1>3, <1>5, <2>1
<1>. HIDE DEF text, n
<1>7. \A i \in 1..a : text[i] = l.text[i]
  <2>1. \A i \in 1..a : i \in 1..(a + Len(new))
    BY <1>5
  <2>. QED BY <1>5, <1>6, <2>1
<1>8. IsLike(Line!Splice(l, a, b, new), l, text, a + Len(new), l.index)
  BY <1>4, <1>5, <1>6, PutIs
<1>. QED BY <1>5, <1>6, <1>7, <1>8 DEF n, IsSpliced

-----------------------------------------------------------------------------
(* What is kept *)

\* Kept, of two texts: the first a characters, and those behind the b-th.
KeepsEnds(next, text, a, b) ==
    /\ SubSeq(next, 1, a) = SubSeq(text, 1, a)
    /\ Len(next) >= a + Len(text) - b
    /\ SubSeq(next, Len(next) - (Len(text) - b) + 1, Len(next)) = SubSeq(text, b + 1, Len(text))

LEMMA KeptIs ==
    ASSUME NEW a, NEW b PROVE Line!Kept(a, b) = KeepsEnds(s1'.text, s1.text, a, b)
BY DEF Line!Kept, KeepsEnds, Line!Size, Line!From

LEMMA PlacesAreKept ==
    ASSUME NEW text \in LineText, NEW next \in LineText, NEW a \in Nat, NEW b \in Nat,
           a <= b, b <= Len(text), Len(next) >= a + Len(text) - b,
           \A i \in 1..a : next[i] = text[i],
           \A i \in 1..(Len(text) - b) : next[Len(next) - (Len(text) - b) + i] = text[b + i]
    PROVE  KeepsEnds(next, text, a, b)
<1>. DEFINE n == Len(text)
            m == Len(next)
            k == m - (n - b)
<1>1. n \in Nat /\ m \in Nat
  BY DEF LineText
<1>2. k \in Nat /\ k <= m /\ a <= m /\ a <= n /\ m - k = n - b
  BY <1>1
<1>3. SubSeq(next, 1, a) = SubSeq(text, 1, a)
  <2>1. /\ SubSeq(next, 0 + 1, a) \in LineText /\ Len(SubSeq(next, 0 + 1, a)) = a - 0
        /\ \A i \in 1..(a - 0) : SubSeq(next, 0 + 1, a)[i] = next[0 + i]
    BY <1>2, PieceIs
  <2>2. /\ SubSeq(text, 0 + 1, a) \in LineText /\ Len(SubSeq(text, 0 + 1, a)) = a - 0
        /\ \A i \in 1..(a - 0) : SubSeq(text, 0 + 1, a)[i] = text[0 + i]
    BY <1>2, PieceIs
  <2>3. 0 + 1 = 1 /\ a - 0 = a /\ \A i \in 1..a : 0 + i = i
    OBVIOUS
  <2>. QED BY <2>1, <2>2, <2>3, SameText
<1>4. SubSeq(next, k + 1, m) = SubSeq(text, b + 1, n)
  <2>0. m <= Len(next) /\ n <= Len(text) /\ b <= n
    BY <1>1
  <2>. HIDE DEF k, m, n
  <2>1. /\ SubSeq(next, k + 1, m) \in LineText /\ Len(SubSeq(next, k + 1, m)) = m - k
        /\ \A i \in 1..(m - k) : SubSeq(next, k + 1, m)[i] = next[k + i]
    BY <1>1, <1>2, <2>0, PieceIs
  <2>2. /\ SubSeq(text, b + 1, n) \in LineText /\ Len(SubSeq(text, b + 1, n)) = n - b
        /\ \A i \in 1..(n - b) : SubSeq(text, b + 1, n)[i] = text[b + i]
    BY <1>1, <2>0, PieceIs
  <2>3. \A i \in 1..(n - b) : next[k + i] = text[b + i]
    BY DEF k, m, n
  <2>. QED BY <1>2, <2>1, <2>2, <2>3, SameText
<1>. QED BY <1>3, <1>4 DEF KeepsEnds

LEMMA TextIsKept ==
    ASSUME NEW text \in LineText, NEW a \in Nat, NEW b \in Nat, a <= b, b <= Len(text)
    PROVE  KeepsEnds(text, text, a, b)
<1>1. Len(text) \in Nat
  BY DEF LineText
<1>2. /\ Len(text) >= a + Len(text) - b
      /\ \A i \in 1..(Len(text) - b) : Len(text) - (Len(text) - b) + i = b + i
  BY <1>1
<1>. QED BY <1>2, PlacesAreKept

LineFirst == IF Line!LineStart > 0 THEN Line!LineStart - 1 ELSE 0
LineLast == Line!Min({Line!Size, Line!LineEnd + 1})

LEMMA EdgesAre ==
    ASSUME IsLine(s1)
    PROVE  /\ LineFirst \in Nat /\ LineLast \in Nat
           /\ LineFirst <= LineLast /\ LineLast <= Len(s1.text)
           /\ s1.cursor \in Nat /\ Line!LineStart \in Nat /\ Line!LineEnd \in Nat
           /\ LineFirst <= Line!LineStart /\ Line!LineStart <= s1.cursor
           /\ s1.cursor <= Line!LineEnd /\ Line!LineEnd <= LineLast
           /\ s1.cursor > 0 => LineFirst <= s1.cursor - 1
           /\ s1.cursor < Len(s1.text) => s1.cursor + 1 <= LineLast
<1>. DEFINE n == Len(s1.text)
            S == {n, Line!LineEnd + 1}
<1>1. n \in Nat /\ s1.cursor \in 0..n
  BY DEF IsLine, LineRec, LineText
<1>2. Line!LineStart \in 0..s1.cursor /\ Line!LineEnd \in s1.cursor..n
  BY LineStartIs, LineEndIs
<1>3. LineLast = Line!Min(S)
  BY DEF LineLast, Line!Size
<1>4. S \in SUBSET Nat /\ S # {}
  BY <1>1, <1>2
<1>5. Line!Min(S) \in S /\ \A x \in S : Line!Min(S) <= x
  <2>. HIDE DEF S
  <2>. QED BY <1>4, LeastIs
<1>6. LineLast \in {n, Line!LineEnd + 1} /\ LineLast <= n /\ LineLast <= Line!LineEnd + 1
  BY <1>3, <1>5
<1>. HIDE DEF n
<1>. QED BY <1>1, <1>2, <1>6 DEF LineFirst, n

\* What a step has to show.
Shown == IsLine(s1') /\ Line!DraftIsKept

LEMMA TextStays ==
    ASSUME IsLine(s1), NEW n \in 0..Len(s1.text), NEW i \in 0..Len(s1.past),
           IsLike(s1', s1, s1.text, n, i), s2' = s2
    PROVE  Shown
<1>1. s1.text \in LineText /\ s1'.text = s1.text /\ s1'.cursor = n /\ s1' \in LineRec
  BY LineIs DEF IsLike, IsLine
<1>2. KeepsEnds(s1'.text, s1.text, LineFirst, LineLast)
  BY <1>1, EdgesAre, TextIsKept
<1>3. Line!Kept(LineFirst, LineLast)
  BY <1>2, KeptIs
<1>. QED BY <1>1, <1>3 DEF Shown, IsLine, IsLike, Line!DraftIsKept, LineFirst, LineLast

LEMMA SpliceStays ==
    ASSUME IsLine(s1), NEW a \in Nat, NEW b \in Nat, NEW new \in LineText,
           LineFirst <= a, a <= b, b <= LineLast, s2' = s2,
           IsLike(s1', Line!Splice(s1, a, b, new), Line!Splice(s1, a, b, new).text,
                  Line!Splice(s1, a, b, new).cursor, Line!Splice(s1, a, b, new).index)
    PROVE  Shown
<1>. DEFINE m == Line!Splice(s1, a, b, new)
            n == Len(s1.text)
<1>1. /\ s1 \in LineRec /\ s1.text \in LineText /\ n \in Nat /\ s1.index \in 0..Len(s1.past)
      /\ LineFirst \in Nat /\ LineLast \in Nat /\ LineFirst <= LineLast /\ LineLast <= n
  BY LineIs, EdgesAre DEF IsLine
<1>a. b <= Len(s1.text)
  BY <1>1
<1>b. PICK text : IsSpliced(text, s1, a, b, new)
  BY <1>1, <1>a, SpliceIs
<1>2. /\ text \in LineText /\ IsLike(m, s1, text, a + Len(new), s1.index)
      /\ Len(new) \in Nat /\ Len(text) = a + Len(new) + (n - b)
      /\ \A i \in 1..a : text[i] = s1.text[i]
      /\ \A i \in 1..(n - b) : text[a + Len(new) + i] = s1.text[b + i]
  BY <1>b DEF IsSpliced
<1>. HIDE DEF m, n
<1>3. /\ s1' \in LineRec /\ s1'.text = text /\ s1'.cursor = a + Len(new)
      /\ s1'.past = s1.past /\ s1'.index = s1.index
  BY <1>2 DEF IsLike, m
<1>4. KeepsEnds(text, s1.text, LineFirst, LineLast)
  <2>1. Len(text) >= LineFirst + n - LineLast
    BY <1>1, <1>2
  <2>2. \A i \in 1..LineFirst : text[i] = s1.text[i]
    BY <1>1, <1>2
  <2>3. \A i \in 1..(n - LineLast) : text[Len(text) - (n - LineLast) + i] = s1.text[LineLast + i]
    <3>. SUFFICES ASSUME NEW i \in 1..(n - LineLast)
                  PROVE  text[Len(text) - (n - LineLast) + i] = s1.text[LineLast + i]
      OBVIOUS
    <3>. DEFINE j == LineLast - b + i
    <3>. DEFINE k == Len(new)
    <3>a. k \in Nat /\ Len(text) = a + k + (n - b) /\ n \in Nat /\ LineLast \in Nat
      BY <1>1, <1>2
    <3>. HIDE DEF k
    <3>b. j \in 1..(n - b) /\ b + j = LineLast + i
      BY <1>1
    <3>c. a + k + j = Len(text) - (n - LineLast) + i
      BY <3>a
    <3>1. /\ j \in 1..(n - b) /\ a + Len(new) + j = Len(text) - (n - LineLast) + i
          /\ b + j = LineLast + i
      BY <3>b, <3>c DEF k
    <3>. HIDE DEF j
    <3>. QED BY <1>2, <3>1
  <2>4. s1.text \in LineText /\ n = Len(s1.text)
    BY <1>1 DEF n
  <2>. QED BY <1>1, <1>2, <2>1, <2>2, <2>3, <2>4, PlacesAreKept
<1>5. Line!Kept(LineFirst, LineLast)
  BY <1>3, <1>4, KeptIs
<1>6. a + Len(new) \in 0..Len(text)
  BY <1>1, <1>2
<1>. QED BY <1>1, <1>3, <1>5, <1>6 DEF Shown, IsLine, Line!DraftIsKept, LineFirst, LineLast

\* A text of the history, and the empty one behind it.
LEMMA RecalledIs ==
    ASSUME IsLine(s1), NEW text \in LineText, NEW i \in 0..Len(s1.past), s2' = s2,
           IsLike(s1', s1, text, Len(text), i),
           text \in Line!Range(s1.past) \/ (i = Len(s1.past) /\ text = <<>>)
    PROVE  Shown
<1>1. /\ s1' \in LineRec /\ s1'.text = text /\ s1'.cursor = Len(text) /\ s1'.past = s1.past
      /\ s1'.index = i
  BY DEF IsLike
<1>2. Len(text) \in 0..Len(text)
  BY DEF LineText
<1>. QED BY <1>1, <1>2 DEF Shown, IsLine, Line!DraftIsKept

LEMMA Like ==
    ASSUME NEW l, NEW m, NEW next, NEW text, NEW n, NEW i, IsLike(m, l, text, n, i),
           IsLike(next, m, m.text, m.cursor, m.index)
    PROVE  IsLike(next, l, text, n, i)
BY DEF IsLike

LEMMA LikeItself == ASSUME NEW l \in LineRec PROVE IsLike(l, l, l.text, l.cursor, l.index)
BY DEF IsLike

LEMMA EditedIs ==
    ASSUME NEW l \in LineRec, Line!Edited(l)
    PROVE  IsLike(s1', l, l.text, l.cursor, l.index) /\ s2' = s2
<1>. DEFINE b == l.listClosed /\ Line!Words(l) = Line!Words(s1)
            c == l.atClosed /\ Line!AtToken(l)
            m == [l EXCEPT !.listClosed = b]
<1>1. s1' = [m EXCEPT !.atClosed = m.atClosed /\ Line!AtToken(l)] /\ s2' = s2
  BY DEF Line!Edited, Line!Becomes
<1>2. b \in BOOLEAN /\ (m.atClosed /\ Line!AtToken(l)) \in BOOLEAN
  OBVIOUS
<1>. HIDE DEF b
<1>3. IsLike(m, l, l.text, l.cursor, l.index)
  BY <1>2, FlagsAre
<1>4. m \in LineRec
  BY <1>3 DEF IsLike
<1>. HIDE DEF m
<1>5. IsLike(s1', m, m.text, m.cursor, m.index)
  BY <1>1, <1>2, <1>4, FlagsAre
<1>. QED BY <1>1, <1>3, <1>5, Like

-----------------------------------------------------------------------------
(* The keys *)

LEMMA NothingIsText == <<>> \in LineText /\ Len(<<>>) = 0 /\ 0 \in Nat
BY DEF LineText

LEMMA SpliceIsLine ==
    ASSUME NEW l \in LineRec, NEW a \in Nat, NEW b \in Nat, a <= b, b <= Len(l.text),
           NEW new \in LineText
    PROVE  Line!Splice(l, a, b, new) \in LineRec
BY SpliceIs DEF IsLike, IsSpliced

\* A key that replaces a part of its line.
LEMMA SplicedStays ==
    ASSUME IsLine(s1), NEW a \in Nat, NEW b \in Nat, NEW new \in LineText,
           LineFirst <= a, a <= b, b <= LineLast, s2' = s2, s1' = Line!Splice(s1, a, b, new)
    PROVE  Shown
<1>1. s1 \in LineRec /\ b <= Len(s1.text)
  BY EdgesAre DEF IsLine
<1>2. Line!Splice(s1, a, b, new) \in LineRec
  BY <1>1, SpliceIsLine
<1>. QED BY <1>2, SpliceStays, LikeItself

LEMMA EditedSpliceStays ==
    ASSUME IsLine(s1), NEW a \in Nat, NEW b \in Nat, NEW new \in LineText,
           LineFirst <= a, a <= b, b <= LineLast, Line!Edited(Line!Splice(s1, a, b, new))
    PROVE  Shown
<1>1. s1 \in LineRec /\ b <= Len(s1.text)
  BY EdgesAre DEF IsLine
<1>2. Line!Splice(s1, a, b, new) \in LineRec
  BY <1>1, SpliceIsLine
<1>. QED BY <1>2, EditedIs, SpliceStays

\* One that puts something in where the cursor is.
LEMMA CursorIsInLine ==
    ASSUME IsLine(s1)
    PROVE  /\ s1.cursor \in Nat /\ LineFirst <= s1.cursor
           /\ s1.cursor <= s1.cursor /\ s1.cursor <= LineLast
           /\ s1 \in LineRec /\ s1.index \in 0..Len(s1.past) /\ s1.cursor \in 0..Len(s1.text)
           /\ Len(s1.text) \in Nat
<1>1. Len(s1.text) \in Nat
  BY DEF IsLine, LineRec, LineText
<1>. QED BY <1>1, EdgesAre DEF IsLine

LEMMA LineMove == ASSUME IsLine(s1), Line!MoveKey PROVE Shown
<1>1. PICK to \in {Line!LineStart, Line!LineEnd, Line!WordLeft, Line!WordRight} :
         s1' = [s1 EXCEPT !.cursor = to] /\ s2' = s2
  BY DEF Line!MoveKey, Line!Becomes
<1>2. to \in 0..Len(s1.text) /\ to \in Nat
  BY CursorIsInLine, EdgesAre, WordsStayInLine, LineEndIs
<1>. QED BY <1>1, <1>2, CursorIsInLine, CursorIs, TextStays

LEMMA LineKills ==
    ASSUME IsLine(s1), Line!KillToStart \/ Line!KillToEnd \/ Line!KillWord PROVE Shown
<1>1. CASE Line!KillToStart
  <2>1. s1' = Line!Splice(s1, Line!LineStart, s1.cursor, <<>>) /\ s2' = s2
    BY <1>1 DEF Line!KillToStart, Line!Becomes
  <2>. QED BY <2>1, EdgesAre, CursorIsInLine, NothingIsText, SplicedStays
<1>2. CASE Line!KillToEnd
  <2>1. s1' = Line!Splice(s1, s1.cursor, Line!LineEnd, <<>>) /\ s2' = s2
    BY <1>2 DEF Line!KillToEnd, Line!Becomes
  <2>. QED BY <2>1, EdgesAre, CursorIsInLine, NothingIsText, SplicedStays
<1>3. CASE Line!KillWord
  <2>1. s1' = Line!Splice(s1, Line!WordLeft, s1.cursor, <<>>) /\ s2' = s2
    BY <1>3 DEF Line!KillWord, Line!Becomes
  <2>2. Line!WordLeft \in Nat /\ LineFirst <= Line!WordLeft /\ Line!WordLeft <= s1.cursor
    BY EdgesAre, WordsStayInLine
  <2>. QED BY <2>1, <2>2, CursorIsInLine, NothingIsText, SplicedStays
<1>. QED BY <1>1, <1>2, <1>3

LEMMA LineToggle == ASSUME IsLine(s1), Line!ToggleSearch PROVE Shown
<1>1. s1' = [s1 EXCEPT !.search = ~s1.search] /\ s2' = s2
  BY DEF Line!ToggleSearch, Line!Becomes
<1>2. (~s1.search) \in BOOLEAN
  OBVIOUS
<1>. QED BY <1>1, <1>2, CursorIsInLine, FlagsAre, TextStays

LEMMA LinePuts ==
    ASSUME IsLine(s1), Line!ShiftEnter \/ Line!Paste \/ \E c \in LineKeys : Line!Type(c) PROVE Shown
<1>1. CASE Line!ShiftEnter
  <2>1. s1' = Line!Splice(s1, s1.cursor, s1.cursor, <<"\n">>) /\ s2' = s2
    BY <1>1 DEF Line!ShiftEnter, Line!Becomes
  <2>2. <<"\n">> \in LineText
    BY LettersAre, OneLetter
  <2>. QED BY <2>1, <2>2, CursorIsInLine, SplicedStays
<1>2. CASE Line!Paste
  <2>. DEFINE m == Line!Splice(s1, s1.cursor, s1.cursor, LinePasted)
  <2>1. s1' = [m EXCEPT !.listClosed = FALSE] /\ s2' = s2
    BY <1>2 DEF Line!Paste, Line!Becomes
  <2>2. LinePasted \in LineText
    BY LettersAre
  <2>3. m \in LineRec
    BY <2>2, CursorIsInLine, SpliceIsLine
  <2>4. IsLike([m EXCEPT !.listClosed = FALSE], m, m.text, m.cursor, m.index)
    <3>. HIDE DEF m
    <3>. QED BY <2>3, FlagsAre
  <2>. QED BY <2>1, <2>2, <2>4, CursorIsInLine, SpliceStays
<1>3. ASSUME NEW c \in LineKeys, Line!Type(c) PROVE Shown
  <2>1. Line!Edited(Line!Splice(s1, s1.cursor, s1.cursor, <<c>>))
    BY <1>3 DEF Line!Type
  <2>2. <<c>> \in LineText
    BY LettersAre, OneLetter
  <2>. QED BY <2>1, <2>2, CursorIsInLine, EditedSpliceStays
<1>. QED BY <1>1, <1>2, <1>3

LEMMA LineDeletes == ASSUME IsLine(s1), Line!Backspace \/ Line!Delete PROVE Shown
<1>1. CASE Line!Backspace
  <2>1. s1.cursor > 0 /\ Line!Edited(Line!Splice(s1, s1.cursor - 1, s1.cursor, <<>>))
    BY <1>1 DEF Line!Backspace
  <2>2. s1.cursor - 1 \in Nat /\ LineFirst <= s1.cursor - 1 /\ s1.cursor - 1 <= s1.cursor
    BY <2>1, EdgesAre
  <2>. QED BY <2>1, <2>2, CursorIsInLine, NothingIsText, EditedSpliceStays
<1>2. CASE Line!Delete
  <2>1. s1.cursor < Len(s1.text) /\ Line!Edited(Line!Splice(s1, s1.cursor, s1.cursor + 1, <<>>))
    BY <1>2 DEF Line!Delete, Line!Size
  <2>2. s1.cursor + 1 \in Nat /\ s1.cursor <= s1.cursor + 1 /\ s1.cursor + 1 <= LineLast
    BY <2>1, EdgesAre
  <2>. QED BY <2>1, <2>2, CursorIsInLine, NothingIsText, EditedSpliceStays
<1>. QED BY <1>1, <1>2

LEMMA LineArrow == ASSUME IsLine(s1), Line!Arrow PROVE Shown
<1>. DEFINE n == Len(s1.text)
            right == Line!Min({n, s1.cursor + 1})
            left == IF s1.cursor > 0 THEN s1.cursor - 1 ELSE 0
<1>1. PICK to \in {left, right, 0, n} : Line!Edited([s1 EXCEPT !.cursor = to])
  BY DEF Line!Arrow, Line!Size
<1>2. right \in 0..n
  <2>. DEFINE S == {n, s1.cursor + 1}
  <2>1. S \in SUBSET Nat /\ S # {} /\ n \in S
    BY CursorIsInLine
  <2>2. right = Line!Min(S)
    OBVIOUS
  <2>. HIDE DEF S, right, n
  <2>3. right \in S /\ right <= n
    BY <2>1, <2>2, LeastIs
  <2>. QED BY <2>1, <2>3
<1>3. to \in 0..n
  <2>. HIDE DEF right
  <2>1. left \in 0..n /\ 0 \in 0..n /\ n \in 0..n
    BY CursorIsInLine
  <2>. HIDE DEF left, n
  <2>. QED BY <1>1, <1>2, <2>1
<1>4. IsLike([s1 EXCEPT !.cursor = to], s1, s1.text, to, s1.index)
  <2>1. to \in Nat /\ s1 \in LineRec
    BY <1>3, CursorIsInLine
  <2>. QED BY <2>1, CursorIs
<1>. DEFINE m == [s1 EXCEPT !.cursor = to]
<1>5. Line!Edited(m) /\ m \in LineRec
  BY <1>1, <1>4 DEF IsLike
<1>. HIDE DEF m
<1>6. IsLike(s1', m, m.text, m.cursor, m.index) /\ s2' = s2
  BY <1>5, EditedIs
<1>7. IsLike(s1', s1, s1.text, to, s1.index)
  BY <1>4, <1>6, Like DEF m
<1>. QED BY <1>3, <1>6, <1>7, CursorIsInLine, TextStays

-----------------------------------------------------------------------------
(* Commands, files, history *)

LEMMA FileIsTaken ==
    ASSUME IsLine(s1), NEW enter \in BOOLEAN, Line!TakeFile(enter) PROVE Shown
<1>1. PICK f \in LineFiles :
         /\ s1' = [Line!Splice(s1, Line!AtStart(s1), s1.cursor, f \o <<" ">>)
                     EXCEPT !.atClosed = FALSE]
         /\ s2' = s2
  BY DEF Line!TakeFile, Line!AtMatches, Line!Becomes
<1>2. f \o <<" ">> \in LineText
  <2>1. f \in LineText /\ <<" ">> \in LineText
    BY LettersAre, OneLetter
  <2>. QED BY <2>1, JoinIs
<1>3. Line!AtStart(s1) \in Nat /\ LineFirst <= Line!AtStart(s1) /\ Line!AtStart(s1) <= s1.cursor
  BY EdgesAre, WordsStayInLine
<1>. DEFINE new == f \o <<" ">>
            at == Line!AtStart(s1)
            m == Line!Splice(s1, at, s1.cursor, new)
<1>4. s1.cursor \in Nat /\ s1.cursor <= LineLast /\ s1.cursor <= Len(s1.text) /\ s1 \in LineRec
  BY CursorIsInLine
<1>5. s1' = [m EXCEPT !.atClosed = FALSE] /\ s2' = s2 /\ new \in LineText /\ at \in Nat
      /\ LineFirst <= at /\ at <= s1.cursor
  BY <1>1, <1>2, <1>3
<1>. HIDE DEF new, at
<1>6. m \in LineRec
  BY <1>4, <1>5, SpliceIsLine
<1>7. IsLike([m EXCEPT !.atClosed = FALSE], m, m.text, m.cursor, m.index)
  <2>. HIDE DEF m
  <2>. QED BY <1>6, FlagsAre
<1>. QED BY <1>4, <1>5, <1>7, SpliceStays

\* A command is completed in front of what follows its name.
LEMMA CompletedIs ==
    ASSUME IsLine(s1), Line!IsCommand, NEW c \in LineText, NEW space \in BOOLEAN,
           s1' = Line!CompleteSlashCommand(c, space), s2' = s2
    PROVE  Shown
<1>. DEFINE n == Len(s1.text)
            b == Line!NameEnd
            rest == SubSeq(s1.text, b + 1, n)
            end == IF rest = <<>> /\ space THEN <<" ">> ELSE rest
            start == <<"/">> \o c
            text == start \o end
<1>1. s1 \in LineRec /\ s1.text \in LineText /\ n \in Nat /\ s1.index \in 0..Len(s1.past)
  BY LineIs DEF IsLine
<1>2. s1.text[1] = "/" /\ n >= 1
  <2>1. s1.text # <<>> /\ s1.text[1] = "/"
    BY DEF Line!IsCommand
  <2>. QED BY <1>1, <2>1 DEF LineText
<1>3. b \in 1..n
  BY <1>1, <1>2, AheadIs DEF Line!NameEnd
<1>4. rest \in LineText /\ Len(rest) = n - b /\ \A i \in 1..(n - b) : rest[i] = s1.text[b + i]
  <2>. HIDE DEF b
  <2>. QED BY <1>1, <1>3, PieceIs
<1>5. s1' = Line!Put(s1, text, Len(text))
  BY DEF Line!CompleteSlashCommand, Line!From, Line!Size
<1>6. start \in LineText /\ Len(start) \in Nat /\ Len(start) >= 1 /\ start[1] = "/"
  <2>1. <<"/">> \in LineText /\ Len(<<"/">>) = 1 /\ <<"/">>[1] = "/"
    BY LettersAre, OneLetter
  <2>2. /\ start \in LineText /\ Len(start) = Len(<<"/">>) + Len(c) /\ Len(c) \in Nat
        /\ \A i \in 1..Len(<<"/">>) : start[i] = <<"/">>[i]
    BY <2>1, JoinIs
  <2>. HIDE DEF start
  <2>. QED BY <2>1, <2>2
<1>7. end \in LineText /\ Len(end) \in Nat /\ Len(end) >= n - b
      /\ \A i \in 1..(n - b) : end[Len(end) - (n - b) + i] = s1.text[b + i]
  <2>1. CASE rest = <<>> /\ space
    <3>1. n - b = 0 /\ end = <<" ">>
      BY <1>4, <2>1
    <3>2. end \in LineText /\ Len(end) = 1
      BY <3>1, LettersAre, OneLetter
    <3>. HIDE DEF end, rest, b, n
    <3>3. Len(end) \in Nat /\ Len(end) >= n - b
      <4>1. n - b = 0
        BY <3>1, Zenon
      <4>2. Len(end) = 1
        BY <3>2
      <4>. HIDE DEF end, b, n
      <4>. QED BY <4>1, <4>2, SMT
    <3>4. \A i \in 1..0 : FALSE
      OBVIOUS
    <3>5. \A i \in 1..(n - b) : FALSE
      <4>1. n - b = 0
        BY <3>1
      <4>. QED BY <3>4, <4>1, Zenon
    <3>. QED BY <3>2, <3>3, <3>5
  <2>2. CASE ~(rest = <<>> /\ space)
    <3>1. end = rest
      BY <2>2
    <3>. HIDE DEF end, rest, b, n
    <3>2. b \in Nat /\ n - b \in Nat
      BY <1>1, <1>3
    <3>3. \A i \in 1..(n - b) : Len(end) - (n - b) + i = i
      BY <1>4, <3>1, <3>2
    <3>. QED BY <1>4, <3>1, <3>2, <3>3
  <2>. QED BY <2>1, <2>2
<1>. HIDE DEF start, end, b, rest
<1>8. /\ text \in LineText /\ Len(text) = Len(start) + Len(end)
      /\ \A i \in 1..Len(start) : text[i] = start[i]
      /\ \A i \in 1..Len(end) : text[Len(start) + i] = end[i]
  BY <1>6, <1>7, JoinIs
<1>. HIDE DEF text, n
<1>9. KeepsEnds(text, s1.text, 1, b)
  <2>1. b \in Nat /\ 1 <= b /\ b <= n /\ 1 \in Nat /\ n - b \in Nat
    BY <1>1, <1>3
  <2>2. Len(text) >= 1 + n - b
    BY <1>1, <1>6, <1>7, <1>8, <2>1
  <2>3. \A i \in 1..1 : text[i] = s1.text[i]
    <3>1. text[1] = start[1]
      BY <1>6, <1>8
    <3>. QED BY <1>2, <1>6, <3>1
  <2>4. \A i \in 1..(n - b) : text[Len(text) - (n - b) + i] = s1.text[b + i]
    <3>. SUFFICES ASSUME NEW i \in 1..(n - b)
                  PROVE  text[Len(text) - (n - b) + i] = s1.text[b + i]
      OBVIOUS
    <3>. DEFINE j == Len(end) - (n - b) + i
    <3>1. j \in 1..Len(end) /\ Len(start) + j = Len(text) - (n - b) + i
      BY <1>6, <1>7, <1>8, <2>1
    <3>2. end[j] = s1.text[b + i]
      BY <1>7
    <3>. HIDE DEF j
    <3>. QED BY <1>8, <3>1, <3>2
  <2>. QED BY <1>1, <1>8, <2>1, <2>2, <2>3, <2>4, PlacesAreKept DEF n
<1>10. IsLike(s1', s1, text, Len(text), s1.index) /\ Len(text) \in Nat
  BY <1>1, <1>5, <1>6, <1>7, <1>8, PutIs
<1>11. Line!Kept(1, Line!NameEnd)
  BY <1>9, <1>10, KeptIs DEF IsLike, b
<1>12. Len(text) \in 0..Len(text)
  BY <1>10
<1>. QED BY <1>1, <1>10, <1>11, <1>12 DEF Shown, IsLine, IsLike, Line!DraftIsKept

LEMMA CommonIsText ==
    ASSUME NEW S \in SUBSET LineText, S # {}
    PROVE  Line!LongestCommonPrefix(S) \in LineText
<1>. DEFINE P == Line!CommonPrefixes(S)
<1>1. PICK one \in S : TRUE
  OBVIOUS
<1>2. one \in LineText /\ Len(one) \in Nat
  BY DEF LineText
<1>3. ASSUME NEW s \in LineText, NEW p \in Line!Prefixes(s) PROVE p \in LineText
  <2>1. PICK k \in 0..Len(s) : p = SubSeq(s, 1, k)
    BY DEF Line!Prefixes
  <2>2. s \in Seq(Letters)
    BY DEF LineText
  <2>3. SubSeq(s, 1, k) \in Seq(Letters)
    BY <2>1, <2>2
  <2>. QED BY <2>1, <2>3 DEF LineText
<1>4. \A p \in P : p \in LineText /\ Len(p) \in Nat /\ Len(p) <= Len(one)
  <2>. SUFFICES ASSUME NEW p \in P PROVE p \in LineText /\ Len(p) \in Nat /\ Len(p) <= Len(one)
    OBVIOUS
  <2>1. /\ p \in UNION {Line!Prefixes(s) : s \in S}
        /\ \A t \in S : Line!IsPrefix(p, t)
    BY DEF Line!CommonPrefixes
  <2>2. PICK s \in S : p \in Line!Prefixes(s)
    BY <2>1
  <2>3. p \in LineText
    BY <1>3, <2>2
  <2>4. Len(p) <= Len(one)
    BY <2>1 DEF Line!IsPrefix
  <2>. QED BY <2>3, <2>4 DEF LineText
<1>5. <<>> \in P
  <2>1. \A s \in S : SubSeq(s, 1, 0) = <<>> /\ Len(s) \in Nat
    BY DEF LineText
  <2>2. <<>> \in Line!Prefixes(one)
    BY <1>2, <2>1 DEF Line!Prefixes
  <2>3. \A t \in S : Line!IsPrefix(<<>>, t)
    <3>1. Len(<<>>) = 0 /\ SubSeq(<<>>, 1, 0) = <<>>
      OBVIOUS
    <3>. QED BY <2>1, <3>1 DEF Line!IsPrefix
  <2>. QED BY <2>2, <2>3 DEF Line!CommonPrefixes
<1>. HIDE DEF P
<1>. DEFINE lengths == {Len(p) : p \in P}
<1>6. lengths \in SUBSET Nat /\ lengths # {} /\ \A x \in lengths : x <= Len(one)
  BY <1>4, <1>5
<1>7. PICK most \in lengths : \A x \in lengths : x <= most
  <2>. HIDE DEF lengths
  <2>. QED BY <1>2, <1>6, GreatestIs
<1>8. PICK p \in P : most = Len(p)
  OBVIOUS
<1>9. \A q \in P : Len(q) <= Len(p)
  BY <1>7, <1>8
<1>10. Line!LongestCommonPrefix(S) \in P
  BY <1>8, <1>9 DEF P, Line!LongestCommonPrefix
<1>. QED BY <1>4, <1>10

LEMMA CommandsAreTexts ==
    ASSUME NEW c \in Line!CommandMatches
    PROVE  /\ c \in LineText
           /\ Line!CommonPrefix \in LineText /\ Len(Line!CommonPrefix) \in Nat
<1>1. Line!CommandMatches \in SUBSET LineText /\ Line!CommandMatches # {}
  BY LettersAre DEF Line!CommandMatches
<1>2. Line!LongestCommonPrefix(Line!CommandMatches) \in LineText
  BY <1>1, CommonIsText
<1>3. <<"/">> \in LineText
  BY LettersAre, OneLetter
<1>4. Line!CommonPrefix \in LineText
  BY <1>2, <1>3, JoinIs DEF Line!CommonPrefix
<1>. QED BY <1>1, <1>4 DEF LineText

LEMMA LineCompletes == ASSUME IsLine(s1), Line!Tab \/ Line!PaletteEnter PROVE Shown
<1>1. CASE Line!Tab
  <2>1. PICK c \in Line!CommandMatches : s1' = Line!CompleteSlashCommand(c, TRUE) /\ s2' = s2
    BY <1>1 DEF Line!Tab, Line!Becomes
  <2>2. Line!IsCommand
    BY <1>1 DEF Line!Tab, Line!Palette
  <2>. QED BY <2>1, <2>2, CommandsAreTexts, CompletedIs
<1>2. CASE Line!PaletteEnter
  <2>. DEFINE common == Line!CommonPrefix
  <2>1. PICK c \in Line!CommandMatches :
           s1' = (IF Len(common) > Line!Size THEN Line!Put(s1, common, Len(common))
                  ELSE Line!CompleteSlashCommand(c, FALSE)) /\ s2' = s2
    BY <1>2 DEF Line!PaletteEnter, Line!Becomes
  <2>2. Line!IsCommand
    BY <1>2 DEF Line!PaletteEnter, Line!Palette
  <2>3. c \in LineText /\ common \in LineText /\ Len(common) \in Nat
    BY CommandsAreTexts
  <2>. HIDE DEF common
  <2>4. CASE Len(common) > Line!Size
    <3>1. IsLike(s1', s1, common, Len(common), s1.index)
      BY <2>1, <2>3, <2>4, CursorIsInLine, PutIs
    <3>2. Len(common) \in 0..Len(common)
      BY <2>3
    <3>. QED BY <2>1, <2>2, <2>4, <3>1, <3>2, CursorIsInLine
             DEF Shown, IsLine, IsLike, Line!DraftIsKept, common
  <2>5. CASE ~(Len(common) > Line!Size)
    BY <2>1, <2>2, <2>3, <2>5, CompletedIs
  <2>. QED BY <2>4, <2>5
<1>. QED BY <1>1, <1>2

LEMMA RangeIs ==
    ASSUME NEW T, NEW s \in Seq(T)
    PROVE  /\ Line!Range(s) \subseteq T
           /\ \A i \in 1..Len(s) : s[i] \in Line!Range(s)
BY DEF Line!Range

LEMMA LineTakes == ASSUME IsLine(s1), Line!TakeFromHistory PROVE Shown
<1>1. CASE Line!HistoryMatches = {}
  <2>1. s1' = [s1 EXCEPT !.search = FALSE] /\ s2' = s2
    BY <1>1 DEF Line!TakeFromHistory, Line!Becomes
  <2>. QED BY <2>1, CursorIsInLine, FlagsAre, TextStays
<1>2. CASE Line!HistoryMatches # {}
  <2>1. PICK h \in Line!Range(s1.past) :
           s1' = [Line!Put(s1, h, Len(h)) EXCEPT !.search = FALSE] /\ s2' = s2
    BY <1>2 DEF Line!TakeFromHistory, Line!Becomes, Line!HistoryMatches
  <2>2. h \in LineText /\ Len(h) \in Nat
    <3>1. s1.past \in Seq(LineText)
      BY LineIs DEF IsLine
    <3>2. h \in LineText
      BY <2>1, <3>1, RangeIs
    <3>. QED BY <3>2 DEF LineText
  <2>. DEFINE m == Line!Put(s1, h, Len(h))
  <2>3. IsLike(m, s1, h, Len(h), s1.index)
    BY <2>2, CursorIsInLine, PutIs
  <2>4. s1' = [m EXCEPT !.search = FALSE]
    BY <2>1
  <2>. HIDE DEF m
  <2>5. IsLike(s1', m, m.text, m.cursor, m.index)
    BY <2>3, <2>4, FlagsAre DEF IsLike
  <2>6. IsLike(s1', s1, h, Len(h), s1.index)
    BY <2>3, <2>5, Like
  <2>. QED BY <2>1, <2>2, <2>6, CursorIsInLine, RecalledIs
<1>. QED BY <1>1, <1>2

LEMMA LineEscape == ASSUME IsLine(s1), Line!Escape PROVE Shown
<1>1. /\ s2' = s2
      /\ \/ s1' = [s1 EXCEPT !.search = FALSE]
         \/ s1' = [s1 EXCEPT !.listClosed = TRUE]
         \/ s1' = [s1 EXCEPT !.atClosed = TRUE]
  BY DEF Line!Escape, Line!Becomes
<1>2. IsLike(s1', s1, s1.text, s1.cursor, s1.index)
  BY <1>1, CursorIsInLine, FlagsAre
<1>. QED BY <1>1, <1>2, CursorIsInLine, TextStays

LEMMA LineReads == ASSUME IsLine(s1), Line!ReadInput PROVE Shown
<1>. DEFINE n == Len(s1.past)
<1>1. s1' = [s1 EXCEPT !.index = n, !.search = FALSE, !.waiting = TRUE, !.listClosed = FALSE,
                       !.atClosed = FALSE]
      /\ s2' = s2
  BY DEF Line!ReadInput, Line!Becomes
<1>2. s1 \in LineRec /\ n \in Nat
  <2>1. s1.past \in Seq(LineText) /\ s1 \in LineRec
    BY LineIs DEF IsLine
  <2>. QED BY <2>1
<1>. HIDE DEF n
<1>. DEFINE l1 == [s1 EXCEPT !.index = n]
            l2 == [l1 EXCEPT !.search = FALSE]
            l3 == [l2 EXCEPT !.waiting = TRUE]
            l4 == [l3 EXCEPT !.listClosed = FALSE]
<1>3. s1' = [l4 EXCEPT !.atClosed = FALSE]
  BY <1>1
<1>4. IsLike(s1', s1, s1.text, s1.cursor, n)
  <2>1. IsLike(l1, s1, s1.text, s1.cursor, n)
    BY <1>2, CursorIs
  <2>. HIDE DEF l1
  <2>2. IsLike(l2, s1, s1.text, s1.cursor, n)
    BY <2>1, FlagsAre DEF IsLike
  <2>. HIDE DEF l2
  <2>3. IsLike(l3, s1, s1.text, s1.cursor, n)
    BY <2>2, FlagsAre DEF IsLike
  <2>. HIDE DEF l3
  <2>4. IsLike(l4, s1, s1.text, s1.cursor, n)
    BY <2>3, FlagsAre DEF IsLike
  <2>. HIDE DEF l4
  <2>. QED BY <1>3, <2>4, FlagsAre DEF IsLike
<1>5. n \in 0..n
  BY <1>2
<1>. QED BY <1>1, <1>4, <1>5, CursorIsInLine, TextStays DEF n

LEMMA TrimIs == ASSUME NEW text \in LineText PROVE Line!Trim(text) \in LineText
<1>. DEFINE used == {i \in 1..Len(text) : text[i] \notin Line!Space}
<1>1. text \in Seq(Letters) /\ Len(text) \in Nat
  BY DEF LineText
<1>2. Line!Trim(text) = IF used = {} THEN <<>> ELSE SubSeq(text, Line!Min(used), Line!Max(used))
  BY DEF Line!Trim
<1>3. used \in SUBSET Nat /\ used \subseteq 1..Len(text) /\ \A x \in used : x <= Len(text)
  BY <1>1
<1>. HIDE DEF used
<1>4. CASE used = {}
  BY <1>2, <1>4, NothingIsText
<1>5. CASE used # {}
  <2>1. Line!Min(used) \in used /\ Line!Max(used) \in used
    BY <1>1, <1>3, <1>5, LeastIs, GreatestIs
  <2>2. Line!Min(used) \in 1..Len(text) /\ Line!Max(used) \in 1..Len(text)
    BY <1>3, <2>1
  <2>3. SubSeq(text, Line!Min(used), Line!Max(used)) \in Seq(Letters)
    BY <1>1, <2>2
  <2>. QED BY <1>2, <1>5, <2>3 DEF LineText
<1>. QED BY <1>4, <1>5

LEMMA LineSubmits == ASSUME IsLine(s1), Line!Submit PROVE Shown
<1>. DEFINE value == Line!Trim(s1.text)
            after == IF value = <<>> THEN s1.past ELSE Append(s1.past, value)
            m == Line!Put(s1, <<>>, 0)
<1>1. /\ s1' = [m EXCEPT !.past = IF value = <<>> THEN m.past ELSE Append(m.past, value),
                         !.waiting = FALSE, !.listClosed = FALSE]
      /\ s2' = Append(s2, value)
  BY DEF Line!Submit
<1>2. /\ s1 \in LineRec /\ s1.index \in 0..Len(s1.past) /\ s1.past \in Seq(LineText)
      /\ value \in LineText
  BY LineIs, TrimIs DEF IsLine
<1>3. IsLike(m, s1, <<>>, 0, s1.index)
  BY <1>2, NothingIsText, CursorIsInLine, PutIs
<1>4. after \in Seq(LineText) /\ s1.index \in 0..Len(after)
  <2>. HIDE DEF value
  <2>1. Append(s1.past, value) \in Seq(LineText) /\ Len(Append(s1.past, value)) = Len(s1.past) + 1
        /\ Len(s1.past) \in Nat
    BY <1>2
  <2>. HIDE DEF after
  <2>2. after \in {s1.past, Append(s1.past, value)}
    BY DEF after
  <2>. QED BY <1>2, <2>1, <2>2
<1>. HIDE DEF value, m
<1>5. m.past = s1.past /\ m \in LineRec /\ m.text = <<>> /\ m.cursor = 0 /\ m.index = s1.index
  BY <1>3 DEF IsLike
<1>6. s1' = [m EXCEPT !.past = after, !.waiting = FALSE, !.listClosed = FALSE]
  BY <1>1, <1>5
<1>. HIDE DEF after
<1>. DEFINE l1 == [m EXCEPT !.past = after]
            l2 == [l1 EXCEPT !.waiting = FALSE]
<1>7. s1' = [l2 EXCEPT !.listClosed = FALSE]
  BY <1>6
<1>8. l1 \in LineRec /\ l1.text = <<>> /\ l1.cursor = 0 /\ l1.past = after /\ l1.index = s1.index
  <2>1. l1 = [text |-> m.text, cursor |-> m.cursor, past |-> after, index |-> m.index,
              search |-> m.search, listClosed |-> m.listClosed, atClosed |-> m.atClosed,
              waiting |-> m.waiting]
    BY <1>5, LineIs
  <2>. HIDE DEF l1
  <2>. QED BY <1>4, <1>5, <2>1, LineIs DEF LineRec
<1>. HIDE DEF l1
<1>9. l2 \in LineRec /\ l2.text = <<>> /\ l2.cursor = 0 /\ l2.past = after /\ l2.index = s1.index
  BY <1>8, FlagsAre DEF IsLike
<1>. HIDE DEF l2
<1>10. /\ s1' \in LineRec /\ s1'.text = <<>> /\ s1'.cursor = 0 /\ s1'.past = after
       /\ s1'.index = s1.index
  BY <1>7, <1>9, FlagsAre DEF IsLike
<1>11. IsLine(s1')
  <2>1. s1'.cursor \in 0..Len(s1'.text)
    BY <1>10, NothingIsText
  <2>2. s1'.index \in 0..Len(s1'.past)
    BY <1>4, <1>10
  <2>. QED BY <1>10, <2>1, <2>2 DEF IsLine
<1>12. s1'.cursor \in 0..Len(s1'.text) /\ s1'.text = <<>>
  BY <1>10, <1>11 DEF IsLine
<1>13. s2' = Append(s2, Line!Trim(s1.text))
  BY <1>1 DEF value
<1>. QED BY <1>11, <1>12, <1>13 DEF Shown, Line!DraftIsKept

LEMMA LineRecalls ==
    ASSUME IsLine(s1), NEW up \in BOOLEAN, Line!RecallHistory(up) PROVE Shown
<1>. DEFINE n == Len(s1.past)
            down == Line!Min({s1.index + 1, n})
            index == IF up THEN (IF s1.index > 0 THEN s1.index - 1 ELSE 0) ELSE down
            text == IF index = n THEN <<>> ELSE s1.past[index + 1]
            m == Line!Put(s1, text, Len(text))
            l == [m EXCEPT !.index = index]
<1>1. Line!Edited(l)
  BY DEF Line!RecallHistory
<1>2. s1 \in LineRec /\ s1.index \in 0..n /\ s1.past \in Seq(LineText) /\ n \in Nat
  <2>1. s1 \in LineRec /\ s1.index \in 0..n /\ s1.past \in Seq(LineText)
    BY LineIs DEF IsLine
  <2>. QED BY <2>1
<1>3. down \in 0..n
  <2>. DEFINE S == {s1.index + 1, n}
  <2>1. S \in SUBSET Nat /\ S # {} /\ n \in S
    BY <1>2
  <2>2. down = Line!Min(S)
    OBVIOUS
  <2>. HIDE DEF S, down, n
  <2>3. down \in S /\ down <= n
    BY <2>1, <2>2, LeastIs
  <2>. QED BY <2>1, <2>3
<1>4. index \in 0..n
  <2>. HIDE DEF down, n
  <2>. QED BY <1>2, <1>3
<1>. HIDE DEF down, index
<1>5. /\ text \in LineText /\ Len(text) \in Nat
      /\ text \in Line!Range(s1.past) \/ (index = Len(s1.past) /\ text = <<>>)
  <2>1. CASE index = n
    BY <2>1, NothingIsText
  <2>2. CASE index # n
    <3>1. index + 1 \in 1..n
      BY <1>2, <1>4, <2>2
    <3>2. s1.past[index + 1] \in LineText /\ s1.past[index + 1] \in Line!Range(s1.past)
      <4>1. s1.past[index + 1] \in LineText
        BY <1>2, <3>1
      <4>2. s1.past[index + 1] \in Line!Range(s1.past)
        BY <1>2, <3>1, RangeIs
      <4>. QED BY <4>1, <4>2
    <3>3. text = s1.past[index + 1]
      BY <2>2
    <3>. QED BY <3>2, <3>3 DEF LineText
  <2>. QED BY <2>1, <2>2
<1>. HIDE DEF text
<1>6. IsLike(m, s1, text, Len(text), s1.index)
  BY <1>2, <1>5, PutIs
<1>. HIDE DEF m
<1>7. IsLike(l, m, m.text, m.cursor, index)
  <2>1. m \in LineRec /\ index \in Nat
    BY <1>2, <1>4, <1>6 DEF IsLike
  <2>. QED BY <2>1, CursorIs
<1>. HIDE DEF l
<1>8. IsLike(l, s1, text, Len(text), index)
  BY <1>6, <1>7 DEF IsLike
<1>9. IsLike(s1', l, l.text, l.cursor, l.index) /\ s2' = s2
  BY <1>1, <1>8, EditedIs DEF IsLike
<1>10. IsLike(s1', s1, text, Len(text), index)
  BY <1>8, <1>9, Like
<1>. QED BY <1>4, <1>5, <1>9, <1>10, RecalledIs

LEMMA LineStep == ASSUME IsLine(s1), Line!LineNext PROVE Shown
BY LineMove, LineKills, LineToggle, LinePuts, LineTakes, LineCompletes, FileIsTaken, LineEscape,
   LineSubmits, LineReads, LineDeletes, LineArrow, LineRecalls DEF Line!LineNext

LEMMA LineInitInv == Line!LineInit => IsLine(s1)
<1>. SUFFICES ASSUME Line!LineInit PROVE IsLine(s1)
  OBVIOUS
<1>1. LinePast \in Seq(LineText) /\ Len(LinePast) \in Nat
  <2>1. LinePast \in Seq(LineText)
    BY LettersAre
  <2>. QED BY <2>1
<1>2. s1 = [text |-> <<>>, cursor |-> 0, past |-> LinePast, index |-> Len(LinePast),
            search |-> FALSE, listClosed |-> FALSE, atClosed |-> FALSE, waiting |-> TRUE]
  BY DEF Line!LineInit
<1>. QED BY <1>1, <1>2, NothingIsText DEF IsLine, LineRec

\* Whatever is typed, completed, recalled or deleted, in whatever order: a key changes what it is
\* about, and the rest of the draft stays; for any characters, commands, files and history.
\* (#onKeypress, #handleLineEditKey, #handlePaletteKey, #handleAtKey, recallHistory)
THEOREM DraftsAreKept == PartsSpec => DraftIsKept
<1>. DEFINE Inv == part = "line" => IsLine(s1)
            Kept == part = "line" => Line!DraftIsKept
<1>1. PartsInit => Inv
  BY LineInitInv DEF PartsInit
<1>2. ASSUME Inv, [PartsNext]_partsVars PROVE Inv' /\ [Kept]_partsVars
  <2>1. CASE part = "line" /\ Line!LineNext
    <3>1. Shown
      BY <1>2, <2>1, LineStep
    <3>. QED BY <3>1 DEF Shown
  <2>2. CASE UNCHANGED partsVars
    BY <1>2, <2>2 DEF partsVars, IsLine
  <2>3. CASE part # "line"
    BY <1>2, <2>3, PartStays
  <2>4. \/ part = "line" /\ Line!LineNext
        \/ UNCHANGED partsVars
        \/ part # "line"
    BY <1>2 DEF PartsNext
  <2>. QED BY <2>1, <2>2, <2>3, <2>4
<1>. QED BY <1>1, <1>2, PTL DEF PartsSpec, DraftIsKept

-----------------------------------------------------------------------------
(* The service.  Reconnect keeps the safety part of RetriedRequest and its monitor counts *)
(* the attempts of the request it is asked about; the key in force of ApiKeys.            *)

IType ==
    /\ kind \in [Requests -> Kinds]
    /\ phase \in [Requests -> Live \cup Ended]
    /\ tries \in [Requests -> Nat]
    /\ mon \in [Requests -> Nat]
    /\ aborted \in [Requests -> BOOLEAN]

\* A request about to be sent, or waiting to be, may still be sent; one that is
\* under way or was answered has been sent.
IAttempts ==
    \A r \in Requests :
        /\ phase[r] \in {"begin", "wait"} => tries[r] < Limit(kind[r])
        /\ phase[r] \in {"fly", "answer", "error"} => tries[r] > 0
        /\ phase[r] = "aborted" => aborted[r]
        /\ kind[r] = "stream" => ~aborted[r]

IMon ==
    \A r \in Requests :
        /\ IsRest(r) /\ phase[r] \in Live => mon[r] = tries[r]
        /\ ~IsRest(r) => mon[r] <= tries[r]
        /\ IsRest(r) /\ phase[r] \in {"answer", "error"} => mon[r] = 0

IInv == IType /\ IAttempts /\ IMon

\* A request of every kind may be sent at least once.
LEMMA LimitPositive == \A k \in Kinds : Limit(k) \in Nat /\ Limit(k) > 0
BY ReconnectAssumption DEF Kinds, Limit, Policy, Idempotent

LEMMA InitInv == Init => IInv
<1>. SUFFICES ASSUME Init PROVE IInv
  OBVIOUS
<1>1. IType
  BY DEF Init, IType, Live, Ended
<1>2. IAttempts
  <2>1. \A r \in Requests : tries[r] = 0 /\ phase[r] = "begin" /\ kind[r] \in Kinds
    BY DEF Init
  <2>2. \A r \in Requests : aborted[r] = FALSE
    BY DEF Init
  <2>. QED BY <2>1, <2>2, LimitPositive DEF IAttempts
<1>3. IMon
  <2>1. \A r \in Requests : mon[r] = 0 /\ tries[r] = 0
    BY DEF Init
  <2>2. 0 <= 0
    OBVIOUS
  <2>3. \A r \in Requests : mon[r] = tries[r] /\ mon[r] <= tries[r] /\ mon[r] = 0
    BY <2>1, <2>2, Zenon
  <2>. QED BY <2>3, Zenon DEF IMon
<1>. QED BY <1>1, <1>2, <1>3 DEF IInv

\* A step of one request keeps the types.
LEMMA StepType ==
    ASSUME IInv, NEW r \in Requests, Step(r) \/ Abort(r)
    PROVE  IType'
<1>1. CASE Begin(r)
  BY <1>1 DEF IInv, IType, Begin, BeforeRequest, Ctx, Live, Ended
<1>2. CASE Answered(r)
  BY <1>2 DEF IInv, IType, Answered, AfterSuccess, AfterError, Attempted, Ctx, Live, Ended
<1>3. CASE AbortedInFlight(r)
  BY <1>3 DEF IInv, IType, AbortedInFlight, Live, Ended
<1>4. CASE Failed(r)
  BY <1>4 DEF IInv, IType, Failed, AfterError, Attempted, Ctx, Live, Ended
<1>5. CASE Wake(r)
  BY <1>5 DEF IInv, IType, Wake, Live, Ended
<1>6. CASE AbortedInWait(r)
  BY <1>6 DEF IInv, IType, AbortedInWait, Live, Ended
<1>7. CASE StreamSend(r)
  BY <1>7 DEF IInv, IType, StreamSend, BeforeRequest, Ctx, Live, Ended
<1>8. CASE StreamAnswered(r)
  BY <1>8 DEF IInv, IType, StreamAnswered, AfterSuccess, AfterError, Ctx, Live, Ended
<1>9. CASE Abort(r)
  BY <1>9 DEF IInv, IType, Abort, Live, Ended
<1>. QED BY <1>1, <1>2, <1>3, <1>4, <1>5, <1>6, <1>7, <1>8, <1>9 DEF Step

\* ... and that a live request may be sent again.
LEMMA StepAttempts ==
    ASSUME IInv, NEW r \in Requests, Step(r) \/ Abort(r)
    PROVE  IAttempts'
<1>. USE LimitPositive DEF IInv, IType, IAttempts, IsRest
<1>1. CASE Begin(r)
  BY <1>1 DEF Begin
<1>2. CASE Answered(r)
  BY <1>2 DEF Answered, Attempted
<1>3. CASE AbortedInFlight(r)
  BY <1>3 DEF AbortedInFlight
<1>4. CASE Failed(r)
  BY <1>4 DEF Failed, Attempted, CanRetry
<1>5. CASE Wake(r)
  BY <1>5 DEF Wake
<1>6. CASE AbortedInWait(r)
  BY <1>6 DEF AbortedInWait
<1>7. CASE StreamSend(r)
  BY <1>7 DEF StreamSend
<1>8. CASE StreamAnswered(r)
  BY <1>8 DEF StreamAnswered, CanRetry
<1>9. CASE Abort(r)
  BY <1>9 DEF Abort
<1>. QED BY <1>1, <1>2, <1>3, <1>4, <1>5, <1>6, <1>7, <1>8, <1>9 DEF Step

\* ... and the monitor's count.
LEMMA StepMon ==
    ASSUME IInv, NEW r \in Requests, Step(r) \/ Abort(r)
    PROVE  IMon'
<1>. USE DEF IInv, IType, IMon, IsRest, Live, Ctx
<1>1. CASE Begin(r)
  BY <1>1 DEF Begin, BeforeRequest
<1>2. CASE Answered(r)
  BY <1>2 DEF Answered, Attempted, AfterSuccess, AfterError
<1>3. CASE AbortedInFlight(r)
  BY <1>3 DEF AbortedInFlight
<1>4. CASE Failed(r)
  BY <1>4 DEF Failed, Attempted, AfterError, IAttempts
<1>5. CASE Wake(r)
  BY <1>5 DEF Wake
<1>6. CASE AbortedInWait(r)
  BY <1>6 DEF AbortedInWait
<1>7. CASE StreamSend(r)
  BY <1>7 DEF StreamSend, BeforeRequest
<1>8. CASE StreamAnswered(r)
  BY <1>8 DEF StreamAnswered, AfterSuccess, AfterError, IAttempts
<1>9. CASE Abort(r)
  BY <1>9 DEF Abort
<1>. QED BY <1>1, <1>2, <1>3, <1>4, <1>5, <1>6, <1>7, <1>8, <1>9 DEF Step

LEMMA NextInv == IInv /\ [Next]_vars => IInv'
<1>1. ASSUME IInv, NEW r \in Requests, Step(r) \/ Abort(r) PROVE IInv'
  BY <1>1, StepType, StepAttempts, StepMon DEF IInv
<1>2. IInv /\ UNCHANGED vars => IInv'
  BY DEF vars, IInv, IType, IAttempts, IMon, IsRest
<1>. QED BY <1>1, <1>2 DEF Next

THEOREM Invariant == Spec => []IInv
BY InitInv, NextInv, PTL DEF Spec

\* The attempt the user is told of is the attempt that is made (attemptOf,
\* beforeRequest), and a request that is settled leaves no count behind (afterSuccess,
\* afterError), for any number of concurrent requests.
THEOREM Counted == Spec => []AttemptsAreCounted
<1>1. IInv => AttemptsAreCounted
  BY DEF IInv, IMon, AttemptsAreCounted, MonitorCountsAttempts, SettledIsForgotten, Ctx
<1>. QED BY <1>1, Invariant, PTL

-----------------------------------------------------------------------------
(* The refinement: which step of RetriedRequest each step is. *)

LEMMA Sends ==
    ASSUME IInv, NEW r \in Requests, Begin(r) \/ StreamSend(r)
    PROVE  [Promise!Next]_(Promise!vars)
<1>. USE DEF IInv, IType
<1>1. CASE Begin(r) /\ aborted[r]
  <2>1. Outcome' = [Outcome EXCEPT ![r] = "aborted"]
    BY <1>1 DEF Begin, Outcome, Live
  <2>2. Outcome[r] = "open"
    BY <1>1 DEF Begin, Outcome, Live
  <2>3. Promise!End(r)
    BY <1>1, <2>1, <2>2 DEF Begin, Promise!End, Promise!Outcomes
  <2>. QED BY <2>3 DEF Promise!Next
<1>2. CASE (Begin(r) \/ StreamSend(r)) /\ ~aborted[r]
  <2>1. Outcome' = Outcome /\ Outcome[r] = "open"
    BY <1>2 DEF Begin, StreamSend, Outcome, Live
  <2>2. tries[r] < Limit(kind[r])
    BY <1>2 DEF Begin, StreamSend, IAttempts
  <2>3. tries' = [tries EXCEPT ![r] = @ + 1] /\ UNCHANGED <<kind, aborted>>
    BY <1>2 DEF Begin, StreamSend
  <2>4. Promise!Attempt(r)
    BY <1>2, <2>1, <2>2, <2>3 DEF Promise!Attempt
  <2>. QED BY <2>4 DEF Promise!Next
<1>3. StreamSend(r) => ~aborted[r]
  BY DEF StreamSend, IAttempts, IsRest
<1>. QED BY <1>1, <1>2, <1>3

\* A request that ends with an answer or an error had been sent.
LEMMA Ends ==
    ASSUME IInv, NEW r \in Requests, NEW o \in {"answer", "error"},
           phase[r] = "fly", phase' = [phase EXCEPT ![r] = o],
           UNCHANGED <<kind, tries, aborted>>
    PROVE  Promise!Next
<1>. USE DEF IInv, IType
<1>1. Outcome[r] = "open" /\ Outcome' = [Outcome EXCEPT ![r] = o]
  BY DEF Outcome, Live
<1>2. tries[r] > 0
  BY DEF IAttempts
<1>3. Promise!End(r)
  BY <1>1, <1>2 DEF Promise!End, Promise!Outcomes
<1>. QED BY <1>3 DEF Promise!Next

\* A request that goes on, to wait or to its next attempt, is still open.
LEMMA GoesOn ==
    ASSUME IInv, NEW r \in Requests, NEW p \in Live,
           phase[r] \in Live, phase' = [phase EXCEPT ![r] = p],
           UNCHANGED <<kind, tries, aborted>>
    PROVE  UNCHANGED Promise!vars
BY DEF IInv, IType, Outcome, Live, Promise!vars

\* A request ends as aborted only when its caller aborted it.
LEMMA EndsAborted ==
    ASSUME IInv, NEW r \in Requests, AbortedInFlight(r) \/ AbortedInWait(r)
    PROVE  Promise!Next
<1>. USE DEF IInv, IType
<1>1. Outcome[r] = "open" /\ Outcome' = [Outcome EXCEPT ![r] = "aborted"]
  BY DEF Outcome, Live, AbortedInFlight, AbortedInWait
<1>2. Promise!End(r)
  BY <1>1 DEF Promise!End, Promise!Outcomes, AbortedInFlight, AbortedInWait
<1>. QED BY <1>2 DEF Promise!Next

LEMMA StepKeepsPromise ==
    ASSUME IInv, NEW r \in Requests, Step(r) \/ Abort(r)
    PROVE  [Promise!Next]_(Promise!vars)
<1>1. CASE Begin(r) \/ StreamSend(r)
  BY <1>1, Sends
<1>2. CASE Answered(r)
  BY <1>2, Ends DEF Answered, Attempted
<1>3. CASE AbortedInFlight(r) \/ AbortedInWait(r)
  BY <1>3, EndsAborted
<1>4. CASE Failed(r)
  <2>1. CASE CanRetry(r)
    BY <1>4, <2>1, GoesOn DEF Failed, Live
  <2>2. CASE ~CanRetry(r)
    BY <1>4, <2>2, Ends DEF Failed, Attempted
  <2>. QED BY <2>1, <2>2
<1>5. CASE Wake(r)
  BY <1>5, GoesOn DEF Wake, Live
<1>6. CASE StreamAnswered(r)
  <2>1. PICK s \in Statuses :
           phase' = [phase EXCEPT ![r] = IF s \in Transient /\ CanRetry(r) THEN "begin"
                                         ELSE IF NoStatus(s) THEN "error" ELSE "answer"]
    BY <1>6 DEF StreamAnswered
  <2>2. CASE s \in Transient /\ CanRetry(r)
    BY <1>6, <2>1, <2>2, GoesOn DEF StreamAnswered, Live
  <2>3. CASE ~(s \in Transient /\ CanRetry(r))
    BY <1>6, <2>1, <2>3, Ends DEF StreamAnswered
  <2>. QED BY <2>2, <2>3
<1>7. CASE Abort(r)
  <2>1. Promise!Abort(r)
    BY <1>7 DEF Abort, Promise!Abort, Outcome, Live
  <2>. QED BY <2>1 DEF Promise!Next
<1>. QED BY <1>1, <1>2, <1>3, <1>4, <1>5, <1>6, <1>7 DEF Step

\* What a caller of the connection layer may rely on: limited attempts, none after an
\* abort or the end, and no answer without an attempt (fetchWithReconnect).
THEOREM KeepsPromise == Spec => Promise!Safety
<1>1. Init => Promise!Init
  BY DEF Init, Promise!Init, Outcome, Live
<1>2. IInv /\ [Next]_vars => [Promise!Next]_(Promise!vars)
  <2>1. IInv /\ Next => [Promise!Next]_(Promise!vars)
    BY StepKeepsPromise DEF Next
  <2>2. UNCHANGED vars => UNCHANGED Promise!vars
    BY DEF vars, Promise!vars, Outcome
  <2>. QED BY <2>1, <2>2
<1>. QED BY <1>1, <1>2, Invariant, PTL DEF Spec, Promise!Safety

-----------------------------------------------------------------------------
(* The key *)

MaybeKey == Keys \cup {NoKey}
IKeyTypes ==
    /\ health \in [Keys -> {"good", "spent", "revoked"}]
    /\ keychain \in MaybeKey
    /\ pc \in [Procs -> Places]
    /\ key \in [Procs -> MaybeKey] /\ spare \in [Procs -> MaybeKey]
    /\ cand \in [Procs -> MaybeKey] /\ refused \in [Procs -> MaybeKey]
    /\ drops \in [Procs -> BOOLEAN] /\ clients \in [Procs -> SUBSET Keys]

\* The refusal was not about the key.
Elsewhere == "refused elsewhere" \in kinds
Revoked(k) == k # NoKey => health[k] = "revoked"

\* Clients are built only with the key in force.
ClientsFit(p) == clients[p] \subseteq {key[p]} /\ (pc[p] = "off" => clients[p] = {})

\* What an instance was told stays true: the key it was told is rejected, and the one whose
\* entry it is about to delete, is revoked.
ToldRight(p) ==
    /\ Revoked(refused[p])
    /\ pc[p] = "delete" /\ drops[p] => Revoked(cand[p])

\* Only a check of the plain modes has the rejected key in force.
HasOther(p) ==
    /\ pc[p] = "off" => refused[p] = NoKey
    /\ pc[p] = "check" /\ mode[p] = "dashboard" => refused[p] = NoKey
    /\ pc[p] \in {"idle", "prompt", "validate", "store", "delete", "spare"} =>
           key[p] = NoKey \/ key[p] # refused[p]

KeyFits(p) == ClientsFit(p) /\ (Elsewhere \/ (ToldRight(p) /\ HasOther(p)))
IKeys == IKeyTypes /\ UsableKeyIsKeptAlone /\ \A p \in Procs : KeyFits(p)

\* OpenRouter rejects only a revoked key, and accepts none.
LEMMA ReportsTell ==
    ASSUME NEW k
    PROVE  /\ "rejected" \in Reports(k) => health[k] = "revoked"
           /\ "ok" \in Reports(k) => health[k] # "revoked"
BY DEF Reports, Report, CreditsRead, Sources

LEMMA InitKeys == KeysInit => IKeys
BY KeysAssumption
DEF KeysInit, IKeys, IKeyTypes, KeyFits, ClientsFit, ToldRight, HasOther, Revoked,
                      MaybeKey, Places, UsableKeyIsKeptAlone

\* A step of one instance changes what is known of that one only.
Entries(q) == <<mode[q], pc[q], key[q], cand[q], drops[q], clients[q], refused[q]>>
StepOf(p) == /\ health' = health /\ kinds \subseteq kinds'
             /\ \A q \in Procs : q # p => Entries(q)' = Entries(q)

LEMMA OneInstance ==
    ASSUME IKeys, NEW p \in Procs, StepOf(p), IKeyTypes', KeyFits(p)', UsableKeyIsKeptAlone'
    PROVE  IKeys'
<1>1. ASSUME NEW q \in Procs, q # p PROVE KeyFits(q)'
  <2>1. /\ mode'[q] = mode[q] /\ pc'[q] = pc[q] /\ key'[q] = key[q] /\ cand'[q] = cand[q]
        /\ drops'[q] = drops[q] /\ clients'[q] = clients[q] /\ refused'[q] = refused[q]
    BY <1>1 DEF StepOf, Entries
  <2>2. health' = health /\ (Elsewhere => Elsewhere') /\ KeyFits(q)
    BY DEF StepOf, Elsewhere, IKeys
  <2>3. ClientsFit(q)'
    BY <2>1, <2>2 DEF KeyFits, ClientsFit
  <2>4. ToldRight(q) => ToldRight(q)'
    BY <2>1, <2>2 DEF ToldRight, Revoked
  <2>5. HasOther(q) => HasOther(q)'
    BY <2>1, <2>2 DEF HasOther
  <2>. QED BY <2>2, <2>3, <2>4, <2>5 DEF KeyFits
<1>. QED BY <1>1 DEF IKeys

LEMMA StartKeys == ASSUME IKeys, NEW p \in Procs, Start(p) PROVE IKeys'
<1>1. IKeyTypes'
  <2>1. PICK stored \in {keychain, NoKey} :
          LET k == IF stored # NoKey THEN stored ELSE Env[p] IN
          /\ key' = [key EXCEPT ![p] = k]
          /\ spare' = [spare EXCEPT ![p] = IF stored # NoKey THEN Env[p] ELSE NoKey]
          /\ pc' = [pc EXCEPT ![p] = IF k # NoKey THEN "check"
                                     ELSE IF mode[p] = "batch" THEN "away" ELSE "prompt"]
    BY DEF Start, Goto
  <2>2. Env[p] \in MaybeKey /\ stored \in MaybeKey
    BY KeysAssumption DEF IKeys, IKeyTypes, MaybeKey
  <2>3. key' \in [Procs -> MaybeKey] /\ spare' \in [Procs -> MaybeKey]
    BY <2>1, <2>2 DEF IKeys, IKeyTypes, MaybeKey
  <2>4. pc' \in [Procs -> Places]
    BY <2>1 DEF IKeys, IKeyTypes, Places
  <2>. QED BY <2>3, <2>4 DEF Start, history, IKeys, IKeyTypes
<1>2. StepOf(p)
  BY DEF Start, Goto, history, IKeys, IKeyTypes, StepOf, Entries
<1>3. KeyFits(p)'
  BY KeysAssumption
  DEF Start, Goto, history, IKeys, IKeyTypes, KeyFits, ClientsFit, ToldRight, HasOther,
      Revoked, Elsewhere
<1>4. UsableKeyIsKeptAlone'
  BY DEF Start, Goto, history, IKeys, UsableKeyIsKeptAlone
<1>. QED BY <1>1, <1>2, <1>3, <1>4, OneInstance

LEMMA CheckOkKeys == ASSUME IKeys, NEW p \in Procs, CheckOk(p) PROVE IKeys'
<1>1. IKeyTypes'
  BY ReportsTell
  DEF CheckOk, SameKey, NoSpare, Goto, history, IKeys, IKeyTypes, MaybeKey, Places
<1>2. StepOf(p)
  BY DEF CheckOk, SameKey, NoSpare, Goto, history, IKeys, IKeyTypes, StepOf, Entries
<1>3. KeyFits(p)'
  BY ReportsTell
  DEF CheckOk, SameKey, NoSpare, Goto, history, IKeys, IKeyTypes, KeyFits, ClientsFit,
      ToldRight, HasOther, Revoked, Elsewhere
<1>4. UsableKeyIsKeptAlone'
  BY DEF CheckOk, SameKey, NoSpare, Goto, history, IKeys, UsableKeyIsKeptAlone
<1>. QED BY <1>1, <1>2, <1>3, <1>4, OneInstance

LEMMA CheckRejectedKeys == ASSUME IKeys, NEW p \in Procs, CheckRejected(p) PROVE IKeys'
<1>1. IKeyTypes'
  BY ReportsTell
  DEF CheckRejected, Discard, Refuse, SetKey, Goto, IKeys, IKeyTypes, MaybeKey, Places
<1>2. StepOf(p)
  BY DEF CheckRejected, Discard, Refuse, SetKey, Goto, IKeys, IKeyTypes, StepOf, Entries
<1>3. KeyFits(p)'
  BY ReportsTell
  DEF CheckRejected, Discard, Refuse, SetKey, Goto, IKeys, IKeyTypes, KeyFits, ClientsFit,
      ToldRight, HasOther, Revoked, Elsewhere
<1>4. UsableKeyIsKeptAlone'
  BY DEF CheckRejected, Discard, Refuse, SetKey, Goto, IKeys, UsableKeyIsKeptAlone
<1>. QED BY <1>1, <1>2, <1>3, <1>4, OneInstance

LEMMA CheckFailedKeys == ASSUME IKeys, NEW p \in Procs, CheckFailed(p) PROVE IKeys'
<1>1. IKeyTypes'
  BY DEF CheckFailed, SameKey, NoSpare, Goto, history, IKeys, IKeyTypes, MaybeKey, Places
<1>2. StepOf(p)
  BY DEF CheckFailed, SameKey, NoSpare, Goto, history, IKeys, IKeyTypes, StepOf, Entries
<1>3. KeyFits(p)'
  BY
  DEF CheckFailed, SameKey, NoSpare, Goto, history, IKeys, IKeyTypes, KeyFits, ClientsFit,
      ToldRight, HasOther, Revoked, Elsewhere
<1>4. UsableKeyIsKeptAlone'
  BY DEF CheckFailed, SameKey, NoSpare, Goto, history, IKeys, UsableKeyIsKeptAlone
<1>. QED BY <1>1, <1>2, <1>3, <1>4, OneInstance

LEMMA DeleteKeys == ASSUME IKeys, NEW p \in Procs, Delete(p) PROVE IKeys'
<1>1. /\ pc[p] = "delete" /\ pc' = [pc EXCEPT ![p] = AfterDelete(p)]
      /\ cand' = [cand EXCEPT ![p] = NoKey] /\ drops' = [drops EXCEPT ![p] = FALSE]
      /\ spare' = spare \/ spare' = [spare EXCEPT ![p] = NoKey]
      /\ UNCHANGED <<mode, health, refused>>
  BY DEF Delete, Goto, NoSpare
<1>2. AfterDelete(p) \in {"away", "spare", "prompt"}
  BY DEF AfterDelete
<1>3. \/ /\ drops[p] /\ keychain # NoKey /\ keychain' = NoKey
         /\ lost' = IF health[keychain] = "revoked" THEN lost ELSE lost \cup {keychain}
         /\ kinds' = IF keychain = cand[p] THEN kinds ELSE kinds \cup {"replaced meanwhile"}
         /\ key' = [key EXCEPT ![p] = NoKey] /\ clients' = [clients EXCEPT ![p] = {}]
      \/ UNCHANGED <<keychain, lost, kinds, key, clients>>
  BY DEF Delete, SetKey, SameKey
<1>4. IKeyTypes'
  BY <1>1, <1>2, <1>3 DEF IKeys, IKeyTypes, MaybeKey, Places
<1>5. StepOf(p)
  BY <1>1, <1>3 DEF IKeys, IKeyTypes, StepOf, Entries
<1>6. KeyFits(p)'
  BY <1>1, <1>2, <1>3
  DEF IKeys, IKeyTypes, KeyFits, ClientsFit, ToldRight, HasOther, Revoked, Elsewhere
<1>7. UsableKeyIsKeptAlone'
  <2>1. drops[p] /\ keychain # NoKey /\ keychain = cand[p] => Elsewhere \/ health[keychain] = "revoked"
    BY <1>1 DEF IKeys, KeyFits, ToldRight, Revoked
  <2>. QED BY <1>3, <2>1 DEF IKeys, UsableKeyIsKeptAlone, Elsewhere
<1>. QED BY <1>4, <1>5, <1>6, <1>7, OneInstance

LEMMA TakeSpareKeys == ASSUME IKeys, NEW p \in Procs, TakeSpare(p) PROVE IKeys'
<1>1. IKeyTypes'
  BY DEF TakeSpare, SetKey, SameKey, NoSpare, Goto, history, IKeys, IKeyTypes, MaybeKey, Places
<1>2. StepOf(p)
  BY DEF TakeSpare, SetKey, SameKey, NoSpare, Goto, history, IKeys, IKeyTypes, StepOf, Entries
<1>3. KeyFits(p)'
  BY
  DEF TakeSpare, SetKey, SameKey, NoSpare, Goto, history, IKeys, IKeyTypes, KeyFits,
      ClientsFit, ToldRight, HasOther, Revoked, Elsewhere
<1>4. UsableKeyIsKeptAlone'
  BY DEF TakeSpare, SetKey, SameKey, NoSpare, Goto, history, IKeys, UsableKeyIsKeptAlone
<1>. QED BY <1>1, <1>2, <1>3, <1>4, OneInstance

LEMMA EnterKeys == ASSUME IKeys, NEW p \in Procs, Enter(p) PROVE IKeys'
<1>1. IKeyTypes'
  BY DEF Enter, SameKey, Goto, history, IKeys, IKeyTypes, MaybeKey, Places
<1>2. StepOf(p)
  BY DEF Enter, SameKey, Goto, history, IKeys, IKeyTypes, StepOf, Entries
<1>3. KeyFits(p)'
  BY
  DEF Enter, SameKey, Goto, history, IKeys, IKeyTypes, KeyFits, ClientsFit, ToldRight,
      HasOther, Revoked, Elsewhere
<1>4. UsableKeyIsKeptAlone'
  BY DEF Enter, SameKey, Goto, history, IKeys, UsableKeyIsKeptAlone
<1>. QED BY <1>1, <1>2, <1>3, <1>4, OneInstance

LEMMA ValidateOkKeys == ASSUME IKeys, NEW p \in Procs, ValidateOk(p) PROVE IKeys'
<1>1. IKeyTypes'
  BY DEF ValidateOk, SameKey, Goto, IKeys, IKeyTypes, MaybeKey, Places
<1>2. StepOf(p)
  BY DEF ValidateOk, SameKey, Goto, IKeys, IKeyTypes, StepOf, Entries
<1>3. KeyFits(p)'
  BY
  DEF ValidateOk, SameKey, Goto, IKeys, IKeyTypes, KeyFits, ClientsFit, ToldRight, HasOther,
      Revoked, Elsewhere
<1>4. UsableKeyIsKeptAlone'
  BY DEF ValidateOk, SameKey, Goto, IKeys, UsableKeyIsKeptAlone
<1>. QED BY <1>1, <1>2, <1>3, <1>4, OneInstance

LEMMA ValidateFailedKeys == ASSUME IKeys, NEW p \in Procs, ValidateFailed(p) PROVE IKeys'
<1>1. IKeyTypes'
  BY DEF ValidateFailed, SameKey, Goto, history, IKeys, IKeyTypes, MaybeKey, Places
<1>2. StepOf(p)
  BY DEF ValidateFailed, SameKey, Goto, history, IKeys, IKeyTypes, StepOf, Entries
<1>3. KeyFits(p)'
  BY
  DEF ValidateFailed, SameKey, Goto, history, IKeys, IKeyTypes, KeyFits, ClientsFit, ToldRight,
      HasOther, Revoked, Elsewhere
<1>4. UsableKeyIsKeptAlone'
  BY DEF ValidateFailed, SameKey, Goto, history, IKeys, UsableKeyIsKeptAlone
<1>. QED BY <1>1, <1>2, <1>3, <1>4, OneInstance

LEMMA StoreKeys == ASSUME IKeys, NEW p \in Procs, Store(p) PROVE IKeys'
<1>1. IKeyTypes'
  BY KeysAssumption DEF Store, SetKey, SameKey, Goto, IKeys, IKeyTypes, MaybeKey, Places
<1>2. StepOf(p)
  BY DEF Store, SetKey, SameKey, Goto, IKeys, IKeyTypes, StepOf, Entries
<1>3. KeyFits(p)'
  BY KeysAssumption
  DEF Store, SetKey, SameKey, Goto, IKeys, IKeyTypes, KeyFits, ClientsFit, ToldRight, HasOther,
      Revoked, Elsewhere
<1>4. UsableKeyIsKeptAlone'
  BY DEF Store, SetKey, SameKey, Goto, IKeys, UsableKeyIsKeptAlone
<1>. QED BY <1>1, <1>2, <1>3, <1>4, OneInstance

LEMMA UseOkKeys == ASSUME IKeys, NEW p \in Procs, UseOk(p) PROVE IKeys'
<1>1. IKeyTypes'
  BY DEF UseOk, IKeys, IKeyTypes, MaybeKey, Places
<1>2. StepOf(p)
  BY DEF UseOk, IKeys, IKeyTypes, StepOf, Entries
<1>3. KeyFits(p)'
  BY DEF UseOk, IKeys, IKeyTypes, KeyFits, ClientsFit, ToldRight, HasOther, Revoked, Elsewhere
<1>4. UsableKeyIsKeptAlone'
  BY DEF UseOk, IKeys, UsableKeyIsKeptAlone
<1>. QED BY <1>1, <1>2, <1>3, <1>4, OneInstance

LEMMA UseRejectedKeys == ASSUME IKeys, NEW p \in Procs, UseRejected(p) PROVE IKeys'
<1>1. IKeyTypes'
  BY ReportsTell, ZenonT(40)
  DEF UseRejected, Discard, Refuse, SetKey, SameKey, Goto, IKeys, IKeyTypes, MaybeKey, Places
<1>2. StepOf(p)
  BY DEF UseRejected, Discard, Refuse, SetKey, SameKey, Goto, IKeys, IKeyTypes, StepOf, Entries
<1>3. KeyFits(p)'
  BY ReportsTell, ZenonT(40)
  DEF UseRejected, Discard, Refuse, SetKey, SameKey, Goto, IKeys, IKeyTypes, KeyFits,
      ClientsFit, ToldRight, HasOther, Revoked, Elsewhere
<1>4. UsableKeyIsKeptAlone'
  BY DEF UseRejected, Discard, Refuse, SetKey, SameKey, Goto, IKeys, UsableKeyIsKeptAlone
<1>. QED BY <1>1, <1>2, <1>3, <1>4, OneInstance

LEMMA ChangeKeyKeys == ASSUME IKeys, NEW p \in Procs, ChangeKey(p) PROVE IKeys'
<1>1. IKeyTypes'
  BY DEF ChangeKey, SameKey, Goto, history, IKeys, IKeyTypes, MaybeKey, Places
<1>2. StepOf(p)
  BY DEF ChangeKey, SameKey, Goto, history, IKeys, IKeyTypes, StepOf, Entries
<1>3. KeyFits(p)'
  BY
  DEF ChangeKey, SameKey, Goto, history, IKeys, IKeyTypes, KeyFits, ClientsFit, ToldRight,
      HasOther, Revoked, Elsewhere
<1>4. UsableKeyIsKeptAlone'
  BY DEF ChangeKey, SameKey, Goto, history, IKeys, UsableKeyIsKeptAlone
<1>. QED BY <1>1, <1>2, <1>3, <1>4, OneInstance

LEMMA ForgetKeyKeys == ASSUME IKeys, NEW p \in Procs, ForgetKey(p) PROVE IKeys'
<1>1. IKeyTypes'
  BY DEF ForgetKey, SetKey, SameKey, history, IKeys, IKeyTypes, MaybeKey, Places
<1>2. StepOf(p)
  BY DEF ForgetKey, SetKey, SameKey, history, IKeys, IKeyTypes, StepOf, Entries
<1>3. KeyFits(p)'
  BY
  DEF ForgetKey, SetKey, SameKey, history, IKeys, IKeyTypes, KeyFits, ClientsFit, ToldRight,
      HasOther, Revoked, Elsewhere
<1>4. UsableKeyIsKeptAlone'
  BY DEF ForgetKey, SetKey, SameKey, history, IKeys, UsableKeyIsKeptAlone
<1>. QED BY <1>1, <1>2, <1>3, <1>4, OneInstance

LEMMA WorsenKeys == ASSUME IKeys, NEW k \in Keys, Worsen(k) PROVE IKeys'
<1>1. IKeyTypes' /\ UsableKeyIsKeptAlone'
  BY DEF Worsen, history, IKeys, IKeyTypes, UsableKeyIsKeptAlone
<1>2. \A m \in Keys : health[m] = "revoked" => health'[m] = "revoked"
  BY DEF Worsen, IKeys, IKeyTypes
<1>3. ASSUME NEW p \in Procs PROVE KeyFits(p)'
  BY <1>2
  DEF Worsen, history, IKeys, IKeyTypes, MaybeKey, KeyFits, ClientsFit, ToldRight, HasOther,
              Revoked, Elsewhere
<1>. QED BY <1>1, <1>3 DEF IKeys

\* A usable key is lost only by the two accidents named there, an instance does not go on with a
\* key it was told is rejected, and no cached client carries another key than the one in force -
\* for any instances, keys, modes and environments.
\* (shouldReplaceCredential, discardRejectedInferenceKey, dropClients)
THEOREM KeysInForce == KeysSpec => []KeyInForce
<1>1. IKeys /\ [KeysNext]_allVars => IKeys'
  <2>1. IKeys /\ UNCHANGED allVars => IKeys'
    BY
    DEF allVars, keysVars, history, IKeys, IKeyTypes, KeyFits, ClientsFit, ToldRight, HasOther,
           Revoked, Elsewhere, UsableKeyIsKeptAlone
  <2>2. ASSUME IKeys, NEW p \in Procs, Check(p) \/ User(p) PROVE IKeys'
    BY <2>2, StartKeys, CheckOkKeys, CheckRejectedKeys, CheckFailedKeys, DeleteKeys,
       TakeSpareKeys,
       EnterKeys, ValidateOkKeys, ValidateFailedKeys, StoreKeys, UseOkKeys, UseRejectedKeys,
       ChangeKeyKeys, ForgetKeyKeys DEF Check, User
  <2>. QED BY <2>1, <2>2, WorsenKeys DEF KeysNext
<1>2. IKeys => KeyInForce
  BY DEF IKeys, KeyFits, ClientsFit, HasOther, Elsewhere, KeyInForce, RejectedKeyIsNotUsed,
         ClientsFollowKey
<1>. QED BY InitKeys, <1>1, <1>2, PTL DEF KeysSpec
=============================================================================
