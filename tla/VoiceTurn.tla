------------------------------ MODULE VoiceTurn ------------------------------
(***************************************************************************)
(* One push-to-talk turn: EnergyBasedVAD finds an utterance in the frames  *)
(* of the microphone, VoiceManager.listen_once makes a status of it, and   *)
(* VoiceRuntime.listen_and_process takes that to the agent and back to     *)
(* IDLE.  One thread does all of it, so a turn is a function of what the   *)
(* microphone, the transcription and the agent return.                     *)
(*                                                                         *)
(* Time is in ticks; a frame is whether it is loud and when it is          *)
(* processed; limits are the four durations of the detector.               *)
(***************************************************************************)
LOCAL INSTANCE Integers
LOCAL INSTANCE Sequences

None == -1    \* no time yet

FreshVad(now) ==
    [state |-> "WAITING_FOR_SPEECH", start |-> now, speech |-> None, silence |-> None]

\* Noise that ends too early starts the whole wait again, at this frame.
EndOfSpeech(limits, vad, now) ==
    IF vad.silence = None THEN [vad EXCEPT !.silence = now]
    ELSE IF now - vad.silence < limits.endSilence THEN vad
    ELSE IF vad.silence - vad.speech >= limits.minSpeech THEN [vad EXCEPT !.state = "COMPLETE"]
    ELSE FreshVad(now)

ProcessFrame(limits, vad, frame) ==
    CASE vad.state = "WAITING_FOR_SPEECH" ->
            IF frame.at - vad.start > limits.wait THEN [vad EXCEPT !.state = "TIMEOUT"]
            ELSE IF frame.loud THEN [vad EXCEPT !.state = "SPEECH_ACTIVE", !.speech = frame.at]
            ELSE vad
      [] vad.state = "SPEECH_ACTIVE" ->
            IF frame.at - vad.speech > limits.maxUtterance THEN [vad EXCEPT !.state = "COMPLETE"]
            ELSE IF frame.loud THEN [vad EXCEPT !.silence = None]
            ELSE EndOfSpeech(limits, vad, frame.at)
      [] OTHER -> vad

\* The recording loop over the frames so far; the detector was reset at time 0.
Heard(limits, frames) ==
    LET after[n \in 0 .. Len(frames)] ==
            IF n = 0 THEN FreshVad(0) ELSE ProcessFrame(limits, after[n - 1], frames[n])
    IN  after[Len(frames)]

\* "capture" is what becomes of the recording: it fails, or the detector ends it.
ListenOnce(capture, transcription) ==
    CASE capture = "TIMEOUT" -> "TIMEOUT"
      [] capture = "COMPLETE" /\ transcription = "text"  -> "TRANSCRIBED"
      [] capture = "COMPLETE" /\ transcription = "empty" -> "TRANSCRIPTION_EMPTY"
      [] OTHER -> "ERROR"

------------------------------------------------------------------------------
Allowed == [
    STOPPED          |-> {"IDLE"},
    IDLE             |-> {"LISTENING", "STOPPED", "ERROR"},
    LISTENING        |-> {"TRANSCRIBING", "IDLE", "ERROR"},
    TRANSCRIBING     |-> {"PROCESSING", "IDLE", "ERROR"},
    PROCESSING       |-> {"SPEAKING", "WAITING_APPROVAL", "IDLE", "ERROR"},
    SPEAKING         |-> {"WAITING_APPROVAL", "IDLE", "ERROR"},
    WAITING_APPROVAL |-> {"IDLE", "ERROR"},
    ERROR            |-> {"IDLE", "STOPPED"}]

\* _transition_to: ERROR and STOPPED are always allowed.
MayGo(from, to) == to = from \/ to \in Allowed[from] \union {"ERROR", "STOPPED"}

\* The states of listen_and_process, after IDLE.
Turn(status, agent) ==
    CASE status = "ERROR" -> <<"LISTENING", "ERROR", "IDLE">>
      [] status = "TRANSCRIBED" ->
            <<"LISTENING", "TRANSCRIBING", "PROCESSING">> \o
                (CASE agent = "answers" -> <<"SPEAKING", "IDLE">>
                   [] agent = "asks"    -> <<"SPEAKING", "WAITING_APPROVAL", "IDLE">>
                   [] agent = "raises"  -> <<"ERROR", "IDLE">>)
      [] OTHER -> <<"LISTENING", "IDLE">>

------------------------------------------------------------------------------
\* What the detector's fields say between two frames, the last one at "now", or
\* after the one that ended the recording.
VadOK(limits, vad, now) ==
    /\ vad.start \in 0 .. now
    /\ vad.state \in {"WAITING_FOR_SPEECH", "TIMEOUT"} => vad.speech = None /\ vad.silence = None
    /\ vad.state = "WAITING_FOR_SPEECH" => now - vad.start <= limits.wait
    /\ vad.state = "TIMEOUT" => now - vad.start > limits.wait
    /\ vad.state \in {"SPEECH_ACTIVE", "COMPLETE"} =>
        /\ vad.speech \in vad.start .. now /\ vad.speech - vad.start <= limits.wait
        /\ vad.silence # None => vad.silence \in vad.speech .. now
    /\ vad.state = "SPEECH_ACTIVE" =>
        /\ now - vad.speech <= limits.maxUtterance
        /\ vad.silence # None => vad.silence = now \/ now - vad.silence < limits.endSilence
    /\ vad.state = "COMPLETE" =>
        \/ now - vad.speech > limits.maxUtterance
        \/ /\ vad.silence # None /\ now - vad.silence >= limits.endSilence
           /\ vad.silence - vad.speech >= limits.minSpeech

\* An utterance that is sent on was spoken: from a loud frame it lasted long
\* enough, with no pause as long as the one that ended it; or it was cut off.
IsUtterance(limits, frames) ==
    LET n == Len(frames) IN
    \E s \in 1 .. n :
        /\ frames[s].loud
        /\ \/ frames[n].at - frames[s].at > limits.maxUtterance
           \/ \E e \in s + 1 .. n :
                /\ \A i \in e .. n : ~ frames[i].loud
                /\ frames[e].at - frames[s].at >= limits.minSpeech
                /\ frames[n].at - frames[e].at >= limits.endSilence
        /\ \A i, j \in s .. n - 1 :
            (i <= j /\ \A k \in i .. j : ~ frames[k].loud)
            => frames[j].at - frames[i].at < limits.endSilence

\* Whatever happens, a turn takes allowed transitions only and ends ready for the
\* next one, and the agent is asked when there is a text and at no other time.
TurnComesBack(capture, transcription, agent) ==
    LET path == <<"IDLE">> \o Turn(ListenOnce(capture, transcription), agent) IN
    /\ \A i \in 1 .. Len(path) - 1 : MayGo(path[i], path[i + 1])
    /\ path[Len(path)] = "IDLE"
    /\ (\E i \in DOMAIN path : path[i] = "PROCESSING")
        <=> (capture = "COMPLETE" /\ transcription = "text")
==============================================================================
