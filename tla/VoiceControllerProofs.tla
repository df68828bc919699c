-------------------------- MODULE VoiceControllerProofs --------------------------
(***************************************************************************)
(* For any number of texts, recognisers, calls and timers: KERAI speaks    *)
(* with one voice that a stop reaches, the status tells the truth about    *)
(* it, and no drive loop and no microphone runs that nothing refers to.    *)
(*                                                                         *)
(* The state falls into parts that no action mixes.  For each part: its    *)
(* invariant, what a step may do to it, and that this keeps the invariant. *)
(***************************************************************************)
EXTENDS VoiceController, TLAPS

\* None is neither a text nor a recogniser.
LEMMA NoneApart == None \notin Texts /\ None \notin Recognisers /\ Texts \subseteq Nat
BY NoneAssumption, BoundsAssumption DEF Texts
-------------------------------------------------------------------------------
(* The drive loop. *)

LoopOwned == raf \in BOOLEAN /\ frames = IF raf THEN 1 ELSE 0

LoopStep == UNCHANGED loop \/ StartDriveLoop \/ StopDriveLoop

\* Every action leaves the loop alone, starts it or stops it.
LEMMA LoopSteps == [Next]_vars => LoopStep
<1> USE DEF LoopStep
<1>1. User => LoopStep
  BY DEF User, ToggleListening, HandsFreeOn, HandsFreeOff, Unmount, StopListening
<1>2. Recognition => LoopStep
  BY DEF Recognition, HearsStop, HearsTranscript, HearsSmallTalk, RecognitionErrs,
    RecognitionEnds, StopListening, StartDriveLoop
<1>3. Opening \/ Timer => LoopStep
  BY DEF Opening, Granted, Resumed, ListeningFails, Timer, RestartTimer, ResumeTimer, MountTimer
<1>4. ASSUME NEW t \in Texts, Reply(t) \/ Speech(t) PROVE LoopStep
  BY <1>4 DEF Reply, Speech, Plays, Fallback, SpokenToTheEnd, UtteranceErrs, StartDriveLoop
<1>5. QED
  BY <1>1, <1>2, <1>3, <1>4 DEF Next, vars

LEMMA LoopKept == LoopOwned /\ LoopStep => LoopOwned'
<1> SUFFICES ASSUME LoopOwned, LoopStep PROVE LoopOwned'
  OBVIOUS
<1>1. CASE UNCHANGED loop
  BY <1>1 DEF LoopOwned, loop
<1>2. CASE raf
  <2>1. frames = 1
    BY <1>2 DEF LoopOwned
  <2>2. CASE StartDriveLoop
    <3>1. raf' = TRUE /\ frames' = 1
      BY <1>2, <2>1, <2>2 DEF StartDriveLoop
    <3>2. QED
      BY <3>1, Zenon DEF LoopOwned
  <2>3. CASE StopDriveLoop
    <3>1. raf' = FALSE /\ frames' = frames - 1
      BY <1>2, <2>3 DEF StopDriveLoop
    <3>2. frames' = 0
      BY <2>1, <3>1
    <3>3. QED
      BY <3>1, <3>2, Zenon DEF LoopOwned
  <2>4. QED
    BY <1>1, <2>2, <2>3 DEF LoopStep
<1>3. CASE ~raf
  <2>1. frames = 0
    BY <1>3 DEF LoopOwned
  <2>2. CASE StartDriveLoop
    <3>1. raf' = TRUE /\ frames' = frames + 1
      BY <1>3, <2>2 DEF StartDriveLoop
    <3>2. frames' = 1
      BY <2>1, <3>1
    <3>3. QED
      BY <3>1, <3>2, Zenon DEF LoopOwned
  <2>3. CASE StopDriveLoop
    <3>1. raf' = FALSE /\ frames' = 0
      BY <1>3, <2>1, <2>3 DEF StopDriveLoop
    <3>2. QED
      BY <3>1, Zenon DEF LoopOwned
  <2>4. QED
    BY <1>1, <2>2, <2>3 DEF LoopStep
<1>4. QED
  BY <1>2, <1>3
-------------------------------------------------------------------------------
(* The microphone. *)

\* Unless calls have overlapped, one is in progress at most, and it waits for a
\* microphone only while none is open.
MicOwned ==
  /\ asked \in Nat /\ resuming \in Nat /\ asked + resuming <= MaxOpens
  /\ stream \in BOOLEAN /\ mics \in Nat /\ mics <= MaxMics /\ overlapped \in BOOLEAN
  /\ stream => mics > 0
  /\ ~overlapped =>
       /\ asked + resuming <= 1
       /\ asked > 0 => ~stream
       /\ mics = IF stream THEN 1 ELSE 0

MicStep ==
  \/ UNCHANGED microphone
  \/ \E n \in 1..3 : Ask(n)
  \/ ReleaseMic /\ UNCHANGED <<asked, resuming, overlapped>>
  \/ Opening

\* Every action leaves the microphone alone, asks for it, releases it, or is one of
\* startListening.
LEMMA MicSteps == [Next]_vars => MicStep
<1> USE DEF MicStep
<1>1. User => MicStep
  BY DEF User, ToggleListening, HandsFreeOn, HandsFreeOff, Unmount, StopListening
<1>2. Recognition => MicStep
  BY DEF Recognition, HearsStop, HearsTranscript, HearsSmallTalk, RecognitionErrs,
    RecognitionEnds, StopListening
<1>3. Timer => MicStep
  BY DEF Timer, RestartTimer, ResumeTimer, MountTimer
<1>4. ASSUME NEW t \in Texts, Reply(t) \/ Speech(t) PROVE MicStep
  BY <1>4 DEF Reply, Speech, Plays, Fallback, SpokenToTheEnd, UtteranceErrs
<1>5. QED
  BY <1>1, <1>2, <1>3, <1>4 DEF Next, vars

LEMMA MicKept == MicOwned /\ MicStep => MicOwned'
<1> SUFFICES ASSUME MicOwned, MicStep PROVE MicOwned'
  OBVIOUS
<1> USE BoundsAssumption DEF MicOwned
<1>1. CASE UNCHANGED microphone
  BY <1>1 DEF microphone
<1>2. ASSUME NEW n \in 1..3, Ask(n) PROVE MicOwned'
  <2>1. PICK opens \in 0..3 :
          /\ asked + resuming + opens <= MaxOpens
          /\ asked' = asked + opens
          /\ overlapped' = (overlapped \/ opens > 1 \/ (opens > 0 /\ (asked + resuming > 0 \/ stream)))
          /\ UNCHANGED <<resuming, stream, mics>>
    BY <1>2 DEF Ask
  <2>2. overlapped' \in BOOLEAN
    BY <2>1
  <2>3. /\ asked' \in Nat /\ resuming' \in Nat /\ asked' + resuming' <= MaxOpens
        /\ stream' \in BOOLEAN /\ mics' \in Nat /\ mics' <= MaxMics
        /\ stream' => mics' > 0
    BY <2>1
  <2>4. ASSUME ~overlapped' PROVE ~overlapped /\ (opens = 0 \/ (opens = 1 /\ asked + resuming = 0 /\ ~stream))
    <3>1. ~overlapped /\ ~(opens > 1) /\ ~(opens > 0 /\ asked + resuming > 0) /\ ~(opens > 0 /\ stream)
      BY <2>1, <2>4, Zenon
    <3>2. QED
      BY <3>1
  <2>5. ASSUME ~overlapped'
        PROVE  asked' + resuming' <= 1 /\ (asked' > 0 => ~stream') /\ mics' = IF stream' THEN 1 ELSE 0
    BY <2>1, <2>4, <2>5
  <2>6. QED
    BY <2>2, <2>3, <2>5
<1>3. CASE ReleaseMic /\ UNCHANGED <<asked, resuming, overlapped>>
  <2>1. stream' = FALSE /\ UNCHANGED <<asked, resuming, overlapped>>
    BY <1>3 DEF ReleaseMic
  <2>2. mics' \in Nat /\ mics' <= MaxMics
    BY <1>3 DEF ReleaseMic
  <2>3. ASSUME ~overlapped PROVE mics' = 0
    BY <1>3, <2>3 DEF ReleaseMic
  <2>4. ~overlapped' => mics' = IF stream' THEN 1 ELSE 0
    BY <2>1, <2>3
  <2>5. QED
    BY <2>1, <2>2, <2>4
<1>4. CASE Granted
  BY <1>4 DEF Granted
<1>5. CASE Resumed
  BY <1>5 DEF Resumed
<1>6. CASE ListeningFails
  BY <1>6 DEF ListeningFails
<1>7. QED
  BY <1>1, <1>2, <1>3, <1>4, <1>5, <1>6 DEF MicStep, Opening

LEMMA LoopInit == Init => LoopOwned
<1>1. Init => raf = FALSE /\ frames = 0
  BY DEF Init
<1>2. QED
  BY <1>1, Zenon DEF LoopOwned

LEMMA MicInit == Init => MicOwned
<1> SUFFICES ASSUME Init PROVE MicOwned
  OBVIOUS
<1>1. stream = FALSE /\ mics = 0 /\ overlapped = FALSE /\ resuming = 0 /\ asked \in 0..1
  BY DEF Init
<1>2. /\ asked \in Nat /\ resuming \in Nat /\ asked + resuming <= MaxOpens
      /\ mics \in Nat /\ mics <= MaxMics /\ asked + resuming <= 1
  BY <1>1, BoundsAssumption
<1>3. mics = IF stream THEN 1 ELSE 0
  BY <1>1, Zenon
<1>4. QED
  BY <1>1, <1>2, <1>3 DEF MicOwned

\* What runs is what the fields refer to: one drive loop at most, whatever starts and
\* stops it, and no microphone out of reach unless two calls have overlapped.
THEOREM NothingRunsAstray == Spec => []NothingStray
<1>1. Init => LoopOwned /\ MicOwned
  BY MicInit, LoopInit
<1>2. LoopOwned /\ MicOwned /\ [Next]_vars => LoopOwned' /\ MicOwned'
  BY LoopSteps, LoopKept, MicSteps, MicKept
<1>3. LoopOwned /\ MicOwned => NothingStray
  BY DEF LoopOwned, MicOwned, NothingStray
<1>4. QED
  BY <1>1, <1>2, <1>3, PTL DEF Spec
-------------------------------------------------------------------------------
(* The voice. *)

Sounds == {"loading", "playing", "uttering"}

VoiceOwned ==
  /\ audioElement \in Texts \cup {None} /\ phase \in [Texts -> Phase]
  /\ OneVoice /\ StatusIsTrue

SpeechStep ==
  \/ UNCHANGED speech /\ (status' = "speaking" => status = "speaking")
  \/ /\ phase' \in {Silenced, Interrupted} /\ audioElement' = None
     /\ status' # "speaking"
  \/ \E t \in Texts, first \in {"loading", "uttering"} : Speak(t, first)
  \/ \E t \in Texts : Speech(t)

\* Every action leaves the speech and its status alone, silences it, begins a text, or
\* is an event of a text.
LEMMA SpeechSteps == [Next]_vars => SpeechStep
<1> USE DEF SpeechStep, NotListening
<1>1. User => SpeechStep
  BY DEF User, ToggleListening, HandsFreeOn, HandsFreeOff, Unmount, speech
<1>2. Recognition => SpeechStep
  BY DEF Recognition, HearsStop, HearsTranscript, HearsSmallTalk, RecognitionErrs,
    RecognitionEnds, speech
<1>3. Opening \/ Timer => SpeechStep
  BY DEF Opening, Granted, Resumed, ListeningFails, Timer, RestartTimer, ResumeTimer, MountTimer
<1>4. ASSUME NEW t \in Texts, Reply(t) PROVE SpeechStep
  BY <1>4 DEF Reply
<1>5. QED
  BY <1>1, <1>2, <1>3, <1>4 DEF Next, vars

\* Nothing sounds once the speech was silenced.
LEMMA SilenceIsQuiet ==
  ASSUME VoiceOwned, NEW t \in Texts
  PROVE  /\ Silenced[t] \in Phase /\ Silenced[t] \notin Sounds
         /\ Interrupted[t] \in Phase /\ Interrupted[t] \notin Sounds
<1>1. phase[t] \in Phase /\ (phase[t] \in {"loading", "playing"} <=> t = audioElement)
  BY DEF VoiceOwned, StatusIsTrue
<1>2. ASSUME NEW unsettled \in {"aborted", "halted"}
      PROVE  /\ Cancelled(Paused(unsettled))[t] \in Phase
             /\ Cancelled(Paused(unsettled))[t] \notin Sounds
  <2>1. /\ Paused(unsettled)[t] \in Phase
        /\ Paused(unsettled)[t] \notin {"loading", "playing"}
    BY <1>1 DEF Paused, Phase
  <2>2. QED
    BY <2>1 DEF Cancelled, Phase, Sounds
<1>3. QED
  BY <1>2 DEF Silenced, Interrupted

\* One text that begins in silence is one voice; it is the element's or an utterance.
LEMMA BeginsInSilence ==
  ASSUME VoiceOwned, NEW t \in Texts, NEW first \in {"loading", "uttering"},
         phase' = [Silenced EXCEPT ![t] = first],
         audioElement' = IF first = "loading" THEN t ELSE None
  PROVE  VoiceOwned'
<1>1. /\ phase'[t] = first
      /\ \A u \in Texts : u # t => phase'[u] = Silenced[u]
      /\ phase' \in [Texts -> Phase]
  <2>1. \A u \in Texts : Silenced[u] \in Phase
    BY SilenceIsQuiet
  <2>2. Silenced \in [Texts -> Phase]
    BY <2>1 DEF Silenced, Cancelled
  <2>3. QED
    BY <2>2 DEF Phase
<1>2. \A u \in Texts : u # t => phase'[u] \notin Sounds
  BY <1>1, SilenceIsQuiet
<1>3. Sounding' = {t}
  BY <1>1, <1>2 DEF Sounding, Sounds
<1>4. \A u \in Texts : phase'[u] \in {"loading", "playing"} <=> u = audioElement'
  BY <1>1, <1>2, NoneApart DEF Sounds
<1>5. QED
  BY <1>1, <1>3, <1>4 DEF VoiceOwned, OneVoice, StatusIsTrue

LEMMA VoiceKept == VoiceOwned /\ SpeechStep => VoiceOwned'
<1> SUFFICES ASSUME VoiceOwned, SpeechStep PROVE VoiceOwned'
  OBVIOUS
<1>0. /\ audioElement \in Texts \cup {None} /\ phase \in [Texts -> Phase]
      /\ \A t \in Texts : phase[t] \in {"loading", "playing"} <=> t = audioElement
      /\ \A t, u \in Sounding : t = u
      /\ status = "speaking" => Sounding # {}
  BY DEF VoiceOwned, OneVoice, StatusIsTrue
<1>1. CASE UNCHANGED speech /\ (status' = "speaking" => status = "speaking")
  <2>1. Sounding' = Sounding
    BY <1>1 DEF speech, Sounding
  <2>2. QED
    BY <1>0, <1>1, <2>1 DEF speech, VoiceOwned, OneVoice, StatusIsTrue
<1>2. CASE /\ phase' \in {Silenced, Interrupted} /\ audioElement' = None
           /\ status' # "speaking"
  <2>1. \A t \in Texts : phase'[t] \in Phase /\ phase'[t] \notin Sounds
    BY <1>2, SilenceIsQuiet
  <2>2. phase' \in [Texts -> Phase]
    BY <1>2, <2>1 DEF Silenced, Interrupted, Cancelled
  <2>3. Sounding' = {}
    BY <2>1 DEF Sounding, Sounds
  <2>4. QED
    BY <1>2, <2>1, <2>2, <2>3, NoneApart DEF VoiceOwned, OneVoice, StatusIsTrue, Sounds
<1>3. ASSUME NEW t \in Texts, NEW first \in {"loading", "uttering"}, Speak(t, first)
      PROVE VoiceOwned'
  BY <1>3, BeginsInSilence DEF Speak
<1>4. ASSUME NEW t \in Texts, Fallback(t) PROVE VoiceOwned'
  BY <1>4, BeginsInSilence DEF Fallback
<1>5. ASSUME NEW t \in Texts, Plays(t) PROVE VoiceOwned'
  <2>1. phase'[t] = "playing" /\ phase[t] = "loading" /\ phase' \in [Texts -> Phase]
    BY <1>0, <1>5 DEF Plays, Phase
  <2>2. \A u \in Texts : u # t => phase'[u] = phase[u]
    BY <1>0, <1>5 DEF Plays
  <2>3. Sounding' = Sounding
    BY <2>1, <2>2 DEF Sounding
  <2>4. UNCHANGED <<audioElement, status>>
    BY <1>5 DEF Plays
  <2>5. QED
    BY <1>0, <2>1, <2>2, <2>3, <2>4 DEF VoiceOwned, OneVoice, StatusIsTrue
<1>6. ASSUME NEW t \in Texts, SpokenToTheEnd(t) \/ UtteranceErrs(t) PROVE VoiceOwned'
  <2>1. phase'[t] = "off" /\ phase' \in [Texts -> Phase] /\ status' # "speaking"
    BY <1>0, <1>6 DEF SpokenToTheEnd, UtteranceErrs, Phase
  <2>2. \A u \in Texts : u # t => phase'[u] = phase[u]
    BY <1>0, <1>6 DEF SpokenToTheEnd, UtteranceErrs
  <2>3. Sounding' \subseteq Sounding
    BY <2>1, <2>2 DEF Sounding
  <2>4. audioElement' = IF phase[t] = "playing" THEN None ELSE audioElement
    BY <1>6 DEF SpokenToTheEnd, UtteranceErrs
  <2>5. phase[t] # "loading"
    BY <1>6 DEF SpokenToTheEnd, UtteranceErrs
  <2>6. \A u \in Texts : phase'[u] \in {"loading", "playing"} <=> u = audioElement'
    BY <1>0, <2>1, <2>2, <2>4, <2>5, NoneApart
  <2>7. audioElement' \in Texts \cup {None}
    BY <1>0, <2>4
  <2>8. QED
    BY <1>0, <2>1, <2>3, <2>6, <2>7 DEF VoiceOwned, OneVoice, StatusIsTrue
<1>7. QED
  BY <1>1, <1>2, <1>3, <1>4, <1>5, <1>6 DEF SpeechStep, Speech

LEMMA VoiceInit == Init => VoiceOwned
BY NoneApart DEF Init, VoiceOwned, OneVoice, StatusIsTrue, Sounding, Phase

LEMMA VoiceAlwaysOwned == Spec => []VoiceOwned
<1>1. Init => VoiceOwned
  BY VoiceInit
<1>2. VoiceOwned /\ [Next]_vars => VoiceOwned'
  BY SpeechSteps, VoiceKept
<1>3. QED
  BY <1>1, <1>2, PTL DEF Spec

\* No two texts are spoken on top of each other, in whatever order promises, events
\* and interruptions come and however many texts there are.
THEOREM SpeaksWithOneVoice == Spec => []OneVoice
<1>1. VoiceOwned => OneVoice
  BY DEF VoiceOwned
<1>2. QED
  BY <1>1, VoiceAlwaysOwned, PTL

\* The sound is always within reach of a stop, and "speaking" is never shown over
\* silence.
THEOREM StatusTellsTheTruth == Spec => []StatusIsTrue
<1>1. VoiceOwned => StatusIsTrue
  BY DEF VoiceOwned
<1>2. QED
  BY <1>1, VoiceAlwaysOwned, PTL
-------------------------------------------------------------------------------
(* The rest of the types. *)

TimersTyped == restarts \in 0..MaxTimers /\ resumes \in 0..MaxTimers

LEMMA TimersKept == TimersTyped /\ [Next]_vars => TimersTyped'
<1> SUFFICES ASSUME TimersTyped, [Next]_vars PROVE TimersTyped'
  OBVIOUS
<1> DEFINE Runs(now, before) == \/ now = before
                                \/ before > 0 /\ now = before - 1
                                \/ before < MaxTimers /\ now = before + 1
<1>1. Runs(restarts', restarts) /\ Runs(resumes', resumes)
  <2>1. CASE User \/ Opening \/ UNCHANGED vars
    BY <2>1 DEF User, ToggleListening, HandsFreeOn, HandsFreeOff, Unmount, Opening, Granted,
      Resumed, ListeningFails, timers, vars
  <2>2. CASE Recognition
    BY <2>2 DEF Recognition, HearsStop, HearsTranscript, HearsSmallTalk, RecognitionErrs,
      RecognitionEnds, RestartLater, timers
  <2>3. CASE Timer
    BY <2>3 DEF Timer, RestartTimer, ResumeTimer, MountTimer
  <2>4. ASSUME NEW t \in Texts, Reply(t) \/ Speech(t)
        PROVE  Runs(restarts', restarts) /\ Runs(resumes', resumes)
    BY <2>4 DEF Reply, Speech, Plays, Fallback, SpokenToTheEnd, UtteranceErrs, timers
  <2>5. QED
    BY <2>1, <2>2, <2>3, <2>4 DEF Next
<1>2. QED
  BY <1>1, BoundsAssumption DEF TimersTyped

ListenerTyped ==
  /\ recognition \in Recognisers \cup {None} /\ active \in BOOLEAN
  /\ recogniser \in [Recognisers -> RecogniserState]

LEMMA ListenerKept == ListenerTyped /\ [Next]_vars => ListenerTyped'
<1> SUFFICES ASSUME ListenerTyped, [Next]_vars PROVE ListenerTyped'
  OBVIOUS
<1> USE DEF ListenerTyped
<1>0. /\ Stopped \in [Recognisers -> RecogniserState]
      /\ \A h : [r \in Recognisers |-> IF r = h THEN "done" ELSE Stopped[r]]
                  \in [Recognisers -> RecogniserState]
      /\ \A r \in Recognisers, x \in RecogniserState :
           /\ [Stopped EXCEPT ![r] = x] \in [Recognisers -> RecogniserState]
           /\ [recogniser EXCEPT ![r] = x] \in [Recognisers -> RecogniserState]
  BY DEF Stopped, RecogniserState
<1>1. ASSUME NEW h, StopListening(h) PROVE ListenerTyped'
  BY <1>0, <1>1 DEF StopListening
<1>2. ASSUME NEW r \in Recognisers, NEW x \in RecogniserState,
             recogniser' = [recogniser EXCEPT ![r] = x], UNCHANGED recognition,
             active' \in {FALSE, active}
      PROVE  ListenerTyped'
  BY <1>0, <1>2
<1>3. CASE UNCHANGED listener
  BY <1>3 DEF listener
<1>4. ASSUME recognition' = None, active' = FALSE, NEW r \in Recognisers,
             recogniser' \in {Stopped, [Stopped EXCEPT ![r] = "done"]}
      PROVE  ListenerTyped'
  BY <1>0, <1>4 DEF RecogniserState
<1>5. CASE recognition' = None /\ active' = FALSE /\ recogniser' = Stopped
  BY <1>0, <1>5
<1>6. CASE User
  BY <1>1, <1>3, <1>6 DEF User, ToggleListening, HandsFreeOn, HandsFreeOff, Unmount
<1>7. ASSUME NEW r \in Recognisers, HearsStop(r) \/ HearsTranscript(r) PROVE ListenerTyped'
  BY <1>1, <1>7 DEF HearsStop, HearsTranscript
<1>8. ASSUME NEW r \in Recognisers, HearsSmallTalk(r) PROVE ListenerTyped'
  BY <1>4, <1>8 DEF HearsSmallTalk
<1>9. ASSUME NEW r \in Recognisers, RecognitionErrs(r) PROVE ListenerTyped'
  BY <1>1, <1>2, <1>9 DEF RecognitionErrs, RecogniserState
<1>10. ASSUME NEW r \in Recognisers, RecognitionEnds(r) PROVE ListenerTyped'
  BY <1>2, <1>10 DEF RecognitionEnds, RecogniserState
<1>11. CASE Granted \/ ListeningFails
  BY <1>3, <1>11 DEF Granted, ListeningFails
<1>12. CASE Resumed
  <2>1. CASE active
    BY <1>3, <1>12, <2>1 DEF Resumed, StartRecognition
  <2>2. ASSUME NEW r \in Recognisers, NEW starts \in BOOLEAN,
               recognition' = r, active' = starts,
               recogniser' = [recogniser EXCEPT ![r] = IF starts THEN "live" ELSE "free"]
        PROVE  ListenerTyped'
    BY <1>0, <2>2 DEF RecogniserState
  <2>3. QED
    BY <1>12, <2>1, <2>2 DEF Resumed, StartRecognition
<1>13. CASE Timer
  BY <1>3, <1>13 DEF Timer, RestartTimer, ResumeTimer, MountTimer
<1>14. ASSUME NEW t \in Texts, Reply(t) \/ Speech(t) PROVE ListenerTyped'
  BY <1>3, <1>5, <1>14 DEF Reply, Speech, Plays, Fallback, SpokenToTheEnd, UtteranceErrs
<1>15. CASE UNCHANGED vars
  BY <1>3, <1>15 DEF vars
<1>16. QED
  BY <1>6, <1>7, <1>8, <1>9, <1>10, <1>11, <1>12, <1>13, <1>14, <1>15
  DEF Next, Recognition, Opening

PageTyped ==
  /\ status \in Status
  /\ handsFree \in BOOLEAN /\ mounted \in BOOLEAN /\ mountTimer \in BOOLEAN

LEMMA PageKept == PageTyped /\ [Next]_vars => PageTyped'
<1> SUFFICES ASSUME PageTyped, [Next]_vars PROVE PageTyped'
  OBVIOUS
<1> USE DEF PageTyped
<1>1. status' \in Status
  <2>1. status' \in {status, NotListening, "idle", "listening", "speaking"}
    BY DEF Next, User, ToggleListening, HandsFreeOn, HandsFreeOff, Unmount, Recognition, HearsStop,
      HearsTranscript, HearsSmallTalk, RecognitionErrs, RecognitionEnds, Opening, Granted, Resumed,
      ListeningFails, Timer, RestartTimer, ResumeTimer, MountTimer, Reply, Speech, Plays, Fallback,
      SpokenToTheEnd, UtteranceErrs, Speak, NotListening, vars
  <2>2. QED
    BY <2>1 DEF NotListening, Status
<1>2. mountTimer' \in {mountTimer, FALSE, status = "idle"}
  BY DEF Next, User, ToggleListening, HandsFreeOn, HandsFreeOff, Unmount, Recognition, HearsStop,
    HearsTranscript, HearsSmallTalk, RecognitionErrs, RecognitionEnds, Opening, Granted, Resumed,
    ListeningFails, Timer, RestartTimer, ResumeTimer, MountTimer, Reply, Speech, Plays, Fallback,
    SpokenToTheEnd, UtteranceErrs, timers, vars
<1>3. handsFree' \in {handsFree, TRUE, FALSE} /\ mounted' \in {mounted, FALSE}
  BY DEF Next, User, ToggleListening, HandsFreeOn, HandsFreeOff, Unmount, Recognition, HearsStop,
    HearsTranscript, HearsSmallTalk, RecognitionErrs, RecognitionEnds, Opening, Granted, Resumed,
    ListeningFails, Timer, RestartTimer, ResumeTimer, MountTimer, Reply, Speech, Plays, Fallback,
    SpokenToTheEnd, UtteranceErrs, page, vars
<1>4. QED
  BY <1>1, <1>2, <1>3

\* The controller keeps its types.
THEOREM VoiceTypeOK == Spec => []TypeOK
<1> DEFINE Parts ==
      LoopOwned /\ MicOwned /\ VoiceOwned /\ TimersTyped /\ ListenerTyped /\ PageTyped
<1>1. Init => Parts
  <2>1. Init => TimersTyped
    BY BoundsAssumption DEF Init, TimersTyped
  <2>2. Init => ListenerTyped
    BY DEF Init, ListenerTyped, RecogniserState
  <2>3. Init => PageTyped
    BY DEF Init, PageTyped, Status
  <2>4. QED
    BY <2>1, <2>2, <2>3, LoopInit, MicInit, VoiceInit
<1>2. Parts /\ [Next]_vars => Parts'
  BY LoopSteps, LoopKept, MicSteps, MicKept, SpeechSteps, VoiceKept, TimersKept, ListenerKept,
    PageKept
<1>3. Parts => TypeOK
  <2>1. LoopOwned => raf \in BOOLEAN /\ frames \in Nat
    BY DEF LoopOwned
  <2>2. QED
    BY <2>1 DEF MicOwned, VoiceOwned, TimersTyped, ListenerTyped, PageTyped, TypeOK
<1>4. QED
  BY <1>1, <1>2, <1>3, PTL DEF Spec
===============================================================================
