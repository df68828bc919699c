---------------------------- MODULE VoiceController ----------------------------
(***************************************************************************)
(* The voice controller of the control surface (lib/voice.ts) with the     *)
(* handlers of HomePage that drive it: the microphone behind two awaits,   *)
(* the browser's speech recognisers, the two speech engines with their     *)
(* promises and events, the restart timers of the hands-free mode and the  *)
(* page that may go away under all of them.                                *)
(*                                                                         *)
(* One action is one turn of the browser's event loop.  The browser has    *)
(* speech recognition and speech synthesis.  What the drive loop computes  *)
(* is in AudioAnalyzer and NeuralCore; here it is a loop that runs or not. *)
(***************************************************************************)
EXTENDS Naturals

CONSTANTS Recognisers,   \* SpeechRecognition objects
          MaxTexts,      \* bound: texts spoken
          MaxOpens,      \* bound: calls of startListening in progress
          MaxTimers,     \* bound: pending restart timers of one kind
          MaxMics,       \* bound: microphone streams that run
          None           \* no object

ASSUME BoundsAssumption ==
  MaxTexts \in Nat /\ MaxOpens \in Nat \ {0} /\ MaxTimers \in Nat /\ MaxMics \in Nat
ASSUME NoneAssumption == None \notin Recognisers \cup Nat

VARIABLES
  status,        \* VoiceController.status
  handsFree,     \* VoiceController.handsFree
  mounted,       \* HomePage is on the screen
  asked,         \* calls of startListening that wait for getUserMedia
  resuming,      \* calls of startListening that wait for AudioContext.resume
  stream,        \* this.stream is set, and with it the audio context and the analyser
  mics,          \* microphone streams whose tracks run
  overlapped,    \* history: a call opened a microphone on top of another
  recognition,   \* this.recognition
  active,        \* this.recognitionActive
  recogniser,    \* [Recognisers -> RecogniserState]: what the browser does with each
  raf,           \* this.raf is set
  frames,        \* drive loop frames the browser has scheduled
  audioElement,  \* this.audioElement: the text it plays, or None
  phase,         \* [Texts -> Phase]: what the browser does with each text
  restarts,      \* pending timers set when a recogniser failed or ended
  resumes,       \* pending timers set when a text was spoken to its end
  mountTimer     \* the timer of HomePage's hands-free effect is pending

microphone == <<asked, resuming, stream, mics, overlapped>>
listener   == <<recognition, active, recogniser>>
loop       == <<raf, frames>>
speech     == <<audioElement, phase>>
timers     == <<restarts, resumes, mountTimer>>
page       == <<handsFree, mounted>>
vars       == <<status, microphone, listener, loop, speech, timers, page>>

Texts == 1..MaxTexts
Status == {"idle", "listening", "speaking"}

\* A recogniser that runs, was told to stop (it may still deliver what it heard),
\* or has delivered its one final result and is about to end.
RecogniserState == {"free", "live", "stopping", "done"}

\* A text is loaded and played by an Audio element; when that fails, or was paused
\* before play() had settled ("halted" by an interruption, "aborted" by anything
\* else), it falls back to an utterance of speechSynthesis, which ends, or is
\* cancelled and reports that later.
Phase == {"new", "loading", "playing", "aborted", "halted", "uttering", "cancelled", "off"}

Init ==
  /\ status = "idle" /\ mounted = TRUE
  /\ handsFree \in BOOLEAN
  /\ asked = (IF handsFree THEN 1 ELSE 0) /\ resuming = 0
  /\ stream = FALSE /\ mics = 0 /\ overlapped = FALSE
  /\ recognition = None /\ active = FALSE
  /\ recogniser = [r \in Recognisers |-> "free"]
  /\ raf = FALSE /\ frames = 0
  /\ audioElement = None /\ phase = [t \in Texts |-> "new"]
  /\ restarts = 0 /\ resumes = 0 /\ mountTimer = handsFree
-------------------------------------------------------------------------------
(* What the methods do to their part of the state. *)

\* n calls of startListening in a row: each returns at once while listening.
Ask(n) ==
  LET opens == IF status = "listening" THEN 0 ELSE n IN
  /\ asked + resuming + opens <= MaxOpens
  /\ asked' = asked + opens
  /\ overlapped' = (overlapped \/ opens > 1 \/ (opens > 0 /\ (asked + resuming > 0 \/ stream)))
  /\ UNCHANGED <<resuming, stream, mics>>

StartDriveLoop == raf' = TRUE /\ frames' = IF raf THEN frames ELSE frames + 1

StopDriveLoop == raf' = FALSE /\ frames' = IF raf THEN frames - 1 ELSE frames

\* recognition.stop() reaches the current recogniser only while it counts as active.
Stopped == [r \in Recognisers |->
  IF r = recognition /\ active /\ recogniser[r] = "live" THEN "stopping" ELSE recogniser[r]]

\* start() of a new recogniser may throw.
StartRecognition ==
  IF active
  THEN UNCHANGED listener
  ELSE \E r \in Recognisers, starts \in BOOLEAN :
         /\ recogniser[r] = "free"
         /\ recognition' = r /\ active' = starts
         /\ recogniser' = [recogniser EXCEPT ![r] = IF starts THEN "live" ELSE "free"]

\* A mutant: the tracks of the stream are not stopped.
ReleaseMicForgets == stream' = FALSE /\ UNCHANGED mics

ReleaseMic == stream' = FALSE /\ mics' = IF stream THEN mics - 1 ELSE mics

\* stopListening, apart from the status.  heard is the recogniser whose result or
\* error it answers, if it answers one.
StopListening(heard) ==
  /\ StopDriveLoop
  /\ recognition' = None /\ active' = FALSE
  /\ recogniser' = [r \in Recognisers |-> IF r = heard THEN "done" ELSE Stopped[r]]
  /\ ReleaseMic
  /\ UNCHANGED <<asked, resuming, overlapped>>

NotListening == IF status = "listening" THEN "idle" ELSE status

\* pause() of the current element: play() that has not settled rejects.
Paused(unsettled) == [t \in Texts |->
  IF t # audioElement THEN phase[t]
  ELSE IF phase[t] = "loading" THEN unsettled ELSE "off"]

\* speechSynthesis.cancel(): the utterance reports an error later.
Cancelled(ph) == [t \in Texts |-> IF ph[t] = "uttering" THEN "cancelled" ELSE ph[t]]

\* stopSpeaking, apart from the status.
Silenced == Cancelled(Paused("aborted"))
Interrupted == Cancelled(Paused("halted"))

\* A mutant: the text before it goes on.
SpeakOver(t, first) ==
  /\ phase[t] = "new" /\ \A u \in Texts : u < t => phase[u] # "new"
  /\ first \in {"loading", "uttering"}
  /\ phase' = [phase EXCEPT ![t] = first]
  /\ audioElement' = IF first = "loading" THEN t ELSE audioElement
  /\ status' = "speaking"

\* speak(text) with the neural engine or the system one; it leaves "speaking".
Speak(t, first) ==
  /\ phase[t] = "new" /\ \A u \in Texts : u < t => phase[u] # "new"
  /\ first \in {"loading", "uttering"}
  /\ phase' = [Silenced EXCEPT ![t] = first]
  /\ audioElement' = IF first = "loading" THEN t ELSE None
  /\ status' = "speaking"
-------------------------------------------------------------------------------
(* startListening, past its two awaits. *)

\* getUserMedia resolves: the stream and its audio context replace the old ones.
Granted ==
  /\ asked > 0 /\ mics < MaxMics
  /\ asked' = asked - 1 /\ resuming' = resuming + 1
  /\ stream' = TRUE /\ mics' = mics + 1
  /\ UNCHANGED <<status, overlapped, listener, loop, speech, timers, page>>

\* resume resolves: listening, whatever the status has become.
Resumed ==
  /\ resuming > 0
  /\ resuming' = resuming - 1
  /\ status' = "listening"
  /\ StartDriveLoop
  /\ StartRecognition
  /\ UNCHANGED <<asked, stream, mics, overlapped, speech, timers, page>>

\* Either await rejects: permission, device, or a context closed meanwhile.  What
\* has been opened stays open.
ListeningFails ==
  /\ \/ asked > 0 /\ asked' = asked - 1 /\ UNCHANGED resuming
     \/ resuming > 0 /\ resuming' = resuming - 1 /\ UNCHANGED asked
  /\ status' = NotListening
  /\ UNCHANGED <<stream, mics, overlapped, listener, loop, speech, timers, page>>
-------------------------------------------------------------------------------
(* The events of a recogniser. *)

Hears(r) == recogniser[r] \in {"live", "stopping"}

\* A final result with a stop word: stopListening, then interrupt.
HearsStop(r) ==
  /\ Hears(r)
  /\ StopListening(r)
  /\ phase' = Interrupted /\ audioElement' = None
  /\ status' = "idle"
  /\ UNCHANGED <<timers, page>>

\* Any other final result goes to HomePage, which starts a mission or asks for a
\* chat answer, or says its own reply at once.
HearsTranscript(r) ==
  /\ Hears(r)
  /\ StopListening(r)
  /\ status' = NotListening
  /\ UNCHANGED <<speech, timers, page>>

HearsSmallTalk(r) ==
  /\ Hears(r)
  /\ mounted
  /\ \E t \in Texts, first \in {"loading", "uttering"} : Speak(t, first)
  /\ raf' = TRUE /\ frames' = IF raf THEN frames ELSE frames + 1   \* stopped, then started
  /\ recognition' = None /\ active' = FALSE
  /\ recogniser' = [Stopped EXCEPT ![r] = "done"]
  /\ ReleaseMic
  /\ UNCHANGED <<asked, resuming, overlapped, timers, page>>

\* The 300 ms timer of onerror and onend.
RestartLater ==
  IF handsFree /\ status # "speaking"
  THEN restarts < MaxTimers /\ restarts' = restarts + 1
  ELSE UNCHANGED restarts

\* onerror: "no-speech" and "aborted" restart, "not-allowed" stops listening, any
\* other error is left to onend.
RecognitionErrs(r) ==
  /\ Hears(r)
  /\ \/ /\ RestartLater
        /\ recogniser' = [recogniser EXCEPT ![r] = "done"]
        /\ UNCHANGED <<status, microphone, recognition, active, loop>>
     \/ StopListening(r) /\ status' = NotListening /\ UNCHANGED restarts
     \/ /\ recogniser' = [recogniser EXCEPT ![r] = "done"]
        /\ UNCHANGED <<status, microphone, recognition, active, loop, restarts>>
  /\ UNCHANGED <<speech, resumes, mountTimer, page>>

\* onend: the flag is cleared for whichever recogniser is the current one by now.
RecognitionEnds(r) ==
  /\ recogniser[r] # "free"
  /\ recogniser' = [recogniser EXCEPT ![r] = "free"]
  /\ active' = FALSE
  /\ RestartLater
  /\ UNCHANGED <<status, microphone, recognition, loop, speech, resumes, mountTimer, page>>
-------------------------------------------------------------------------------
(* The events of the speech engines. *)

\* play() settles.
Plays(t) ==
  /\ phase[t] = "loading"
  /\ phase' = [phase EXCEPT ![t] = "playing"]
  /\ UNCHANGED <<status, microphone, listener, loop, audioElement, timers, page>>

\* A mutant: handleFallback leaves the current element playing.
FallbackBeside(t) ==
  /\ phase[t] \in {"loading", "playing", "aborted", "halted"}
  /\ phase' = [Cancelled(phase) EXCEPT ![t] = "uttering"]
  /\ audioElement' = IF audioElement = t THEN None ELSE audioElement
  /\ status' = "speaking"
  /\ StartDriveLoop
  /\ UNCHANGED <<microphone, listener, timers, page>>

\* handleFallback, on an error event or when play() rejects: it pauses the element
\* that is current by now, and utters its own text.
Fallback(t) ==
  /\ phase[t] \in {"loading", "playing", "aborted", "halted"}
  /\ phase' = [Silenced EXCEPT ![t] = "uttering"]
  /\ audioElement' = None
  /\ status' = "speaking"
  /\ StartDriveLoop
  /\ UNCHANGED <<microphone, listener, timers, page>>

\* onended of the element, onend of the utterance.
SpokenToTheEnd(t) ==
  /\ phase[t] \in {"playing", "uttering"}
  /\ phase' = [phase EXCEPT ![t] = "off"]
  /\ audioElement' = IF phase[t] = "playing" THEN None ELSE audioElement
  /\ status' = "idle"
  /\ IF handsFree THEN resumes < MaxTimers /\ resumes' = resumes + 1 ELSE UNCHANGED resumes
  /\ UNCHANGED <<microphone, listener, loop, restarts, mountTimer, page>>

\* A mutant: an utterance that fails is not noticed.
UtteranceErrsUnseen(t) ==
  /\ phase[t] \in {"uttering", "cancelled"}
  /\ phase' = [phase EXCEPT ![t] = "off"]
  /\ UNCHANGED <<status, microphone, listener, loop, audioElement, timers, page>>

\* onerror of an utterance that failed or was cancelled, by then perhaps under a
\* newer text.
UtteranceErrs(t) ==
  /\ phase[t] \in {"uttering", "cancelled"}
  /\ phase' = [phase EXCEPT ![t] = "off"]
  /\ status' = "idle"
  /\ UNCHANGED <<microphone, listener, loop, audioElement, timers, page>>

\* A chat answer or a mission's result arrives and voice replies are on.  An answer
\* asked for before the page went away is still spoken.
Reply(t) ==
  /\ \E first \in {"loading", "uttering"} : Speak(t, first)
  /\ raf' = TRUE /\ frames' = IF raf THEN frames ELSE frames + 1
  /\ IF status = "listening"
     THEN /\ recognition' = None /\ active' = FALSE /\ recogniser' = Stopped
          /\ ReleaseMic /\ UNCHANGED <<asked, resuming, overlapped>>
     ELSE UNCHANGED <<microphone, listener>>
  /\ UNCHANGED <<timers, page>>
-------------------------------------------------------------------------------
(* Timers. *)

RestartTimer ==
  /\ restarts > 0 /\ restarts' = restarts - 1
  /\ IF handsFree /\ status # "speaking" THEN Ask(1) ELSE UNCHANGED microphone
  /\ UNCHANGED <<status, listener, loop, speech, resumes, mountTimer, page>>

ResumeTimer ==
  /\ resumes > 0 /\ resumes' = resumes - 1
  /\ IF handsFree /\ status = "idle" THEN Ask(1) ELSE UNCHANGED microphone
  /\ UNCHANGED <<status, listener, loop, speech, restarts, mountTimer, page>>

\* The 500 ms timer of the hands-free effect looks at nothing.
MountTimer ==
  /\ mountTimer /\ mountTimer' = FALSE
  /\ Ask(1)
  /\ UNCHANGED <<status, listener, loop, speech, restarts, resumes, page>>
-------------------------------------------------------------------------------
(* The user on HomePage. *)

\* toggleListening: stop the microphone, or silence the speech and open it.
ToggleListening ==
  /\ mounted
  /\ IF status = "listening"
     THEN StopListening(None) /\ status' = "idle" /\ UNCHANGED <<audioElement, phase>>
     ELSE /\ Ask(1) /\ UNCHANGED <<listener, loop>>
          /\ status' = "idle"
          /\ IF status = "speaking" THEN phase' = Interrupted /\ audioElement' = None
                                    ELSE UNCHANGED <<audioElement, phase>>
  /\ UNCHANGED <<timers, page>>

\* toggleHandsFree, and the effect that runs because handsFree has changed: two or
\* three calls of startListening and the timer of the fourth.
HandsFreeOn ==
  /\ mounted
  /\ ~handsFree /\ handsFree' = TRUE
  /\ Ask(IF status = "idle" THEN 3 ELSE 1)
  /\ mountTimer' = (status = "idle")
  /\ UNCHANGED <<status, listener, loop, speech, restarts, resumes, mounted>>

HandsFreeOff ==
  /\ mounted
  /\ handsFree /\ handsFree' = FALSE
  /\ StopListening(None) /\ status' = NotListening
  /\ mountTimer' = FALSE
  /\ UNCHANGED <<speech, restarts, resumes, mounted>>

\* Leaving the page: dispose, with the effect's timer cleared.
Unmount ==
  /\ mounted /\ mounted' = FALSE
  /\ StopListening(None)
  /\ phase' = Silenced /\ audioElement' = None
  /\ status' = IF status = "speaking" THEN "idle" ELSE status
  /\ mountTimer' = FALSE
  /\ UNCHANGED <<restarts, resumes, handsFree>>
-------------------------------------------------------------------------------
User == ToggleListening \/ HandsFreeOn \/ HandsFreeOff \/ Unmount

Recognition ==
  \E r \in Recognisers :
    HearsStop(r) \/ HearsTranscript(r) \/ HearsSmallTalk(r) \/ RecognitionErrs(r) \/ RecognitionEnds(r)

Speech(t) == Plays(t) \/ Fallback(t) \/ SpokenToTheEnd(t) \/ UtteranceErrs(t)

Opening == Granted \/ Resumed \/ ListeningFails
Timer == RestartTimer \/ ResumeTimer \/ MountTimer

Next == User \/ Recognition \/ Opening \/ Timer \/ \E t \in Texts : Reply(t) \/ Speech(t)

Spec == Init /\ [][Next]_vars

\* The speech engines settle what was given to them: audio loads or fails, and ends.
FairSpec == Spec /\ \A t \in Texts : WF_vars(Speech(t))
-------------------------------------------------------------------------------
TypeOK ==
  /\ status \in Status /\ handsFree \in BOOLEAN /\ mounted \in BOOLEAN
  /\ asked \in Nat /\ resuming \in Nat /\ asked + resuming <= MaxOpens
  /\ stream \in BOOLEAN /\ mics \in Nat /\ overlapped \in BOOLEAN
  /\ recognition \in Recognisers \cup {None} /\ active \in BOOLEAN
  /\ recogniser \in [Recognisers -> RecogniserState]
  /\ raf \in BOOLEAN /\ frames \in Nat
  /\ audioElement \in Texts \cup {None}
  /\ phase \in [Texts -> Phase]
  /\ mics <= MaxMics
  /\ restarts \in 0..MaxTimers /\ resumes \in 0..MaxTimers /\ mountTimer \in BOOLEAN

Sounding == {t \in Texts : phase[t] \in {"loading", "playing", "uttering"}}

\* Two texts are never spoken on top of each other, however late a play() promise
\* rejects and its fallback starts (voice.ts speak, handleFallback, stopSpeaking).
OneVoice == \A t, u \in Sounding : t = u

\* The element a later stopSpeaking pauses is the one that sounds, so that none plays
\* on out of reach of every further stop; and while the status says "speaking",
\* something is being said or about to be.
StatusIsTrue ==
  /\ \A t \in Texts : phase[t] \in {"loading", "playing"} <=> t = audioElement
  /\ status = "speaking" => Sounding # {}

\* At most one drive loop runs, also after microphone and speech started and stopped
\* it in turn; and a microphone that no field refers to, which nothing can stop any
\* more, is there only if a call of startListening opened one on top of another.
NothingStray ==
  /\ frames = IF raf THEN 1 ELSE 0
  /\ overlapped \/ mics = IF stream THEN 1 ELSE 0

\* Speech always ends, whatever fails in the engines.
SpeechEnds == []<>(status # "speaking")

\* voice.ts:382: "First-class interruption: halt speech and, if listening, the mic
\* too."  A text that was interrupted is not spoken after all.
InterruptHalts ==
  [][\A t \in Texts : phase[t] = "halted" => phase'[t] # "uttering"]_vars
===============================================================================
