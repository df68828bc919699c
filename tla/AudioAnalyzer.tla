----------------------------- MODULE AudioAnalyzer -----------------------------
(***************************************************************************)
(* From sound to the five knobs of the Neural Core: the analyser's bytes,  *)
(* the attack/release meters, the speech detector of lib/audio.ts, and the *)
(* drive loop of lib/voice.ts, which takes the microphone's drive, the     *)
(* pulses of the speech, or nothing.                                       *)
(*                                                                         *)
(* Levels are in percent.  A frame lasts 1 to 50 ms; the exponential       *)
(* smoothing is abstracted to the share of the distance that a frame       *)
(* covers, a tenth or a half, rounded so that it arrives.                  *)
(***************************************************************************)
EXTENDS Integers

CONSTANTS Bytes,        \* levels a bin of getByteFrequencyData may have
          MaxSilence    \* bound: the frames of silence that are told apart

VARIABLES
  source,     \* what the drive loop follows: "mic", "speech" or "rest"
  analysis,   \* the fields of the AudioAnalyzer
  envelope,   \* VoiceController.envelope
  elapsed,    \* frames since speakingSince, up to HalfSecond
  smoothed,   \* what the driveSmoother remembers, its largest component
  drive,      \* the drive the core was last given, its largest component
  looping     \* the drive loop runs

vars == <<source, analysis, envelope, elapsed, smoothed, drive, looping>>

Unit == 100
Infinite == -1                  \* Number.POSITIVE_INFINITY
HalfSecond == 10                \* in frames of 50 ms
SpeechHold == 11                \* 0.55 s, in frames of 50 ms
SpeechThreshold == 16
Shares == {2, 10}               \* a frame covers 1/share of the distance

\* A mutant: no bounds.
Unclamped(v) == v

Clamp01(v) == IF v < 0 THEN 0 ELSE IF v > Unit THEN Unit ELSE v

Larger(v, w) == IF v > w THEN v ELSE w

\* approach, and SmoothedMeter.push on a clamped target: part of the way there.
Approach(v, target, share) ==
  IF target >= v THEN v + ((target - v) + share - 1) \div share
                 ELSE v - ((v - target) + share - 1) \div share

Fresh == [amp |-> 0, low |-> 0, mid |-> 0, high |-> 0,
          speech |-> FALSE, below |-> 0, silence |-> Infinite]

\* normalize: a byte, 0 to 255, read as if it were decibels.
MinDecibels == -100
MaxDecibels == -30
Normalize(v) == Clamp01(((v - MinDecibels) * Unit) \div (MaxDecibels - MinDecibels))

\* The part of update that follows the meters: a is the analysis, amp the meter.
DetectSpeech(a, amp) ==
  LET above  == amp > SpeechThreshold
      below  == IF above THEN 0 ELSE a.below + 1
      ends   == a.speech /\ ~above /\ below > SpeechHold
      speech == above \/ (a.speech /\ ~ends)
  IN  [speech  |-> speech,
       below   |-> IF ends THEN 0 ELSE IF below > SpeechHold THEN SpeechHold ELSE below,
       silence |-> IF speech THEN 0
                   ELSE IF a.silence = Infinite \/ a.silence = MaxSilence THEN a.silence
                   ELSE a.silence + 1]

\* update on a window w of one level per band.
Update(a, w, share) ==
  LET low  == Normalize(w.low)
      mid  == Normalize(w.mid)
      high == Normalize(w.high)
      peak == Larger(low, Larger(mid, high))
      amp  == Approach(a.amp, Clamp01((peak * 135) \div 100), share)
      s    == DetectSpeech(a, amp)
  IN  [amp |-> amp,
       low  |-> Approach(a.low, Clamp01((low * 19) \div 10), share),
       mid  |-> Approach(a.mid, Clamp01((mid * 19) \div 10), share),
       high |-> Approach(a.high, Clamp01((high * 22) \div 10), share),
       speech |-> s.speech, below |-> s.below, silence |-> s.silence]

\* toDrive: the five knobs.
ToDrive(a) ==
  [scale   |-> Clamp01((a.amp * 150) \div 100),
   inner   |-> Clamp01((a.low * 150 + a.amp * 25) \div 100),
   deform  |-> Clamp01((a.mid * 145 + a.amp * 30) \div 100),
   strand  |-> Clamp01((a.high * 160 + a.amp * 20) \div 100),
   density |-> Clamp01(((a.amp + IF a.speech THEN 20 ELSE 0) * 125) \div 100)]

Loudest(d) ==
  Larger(Larger(d.scale, d.inner), Larger(d.deform, Larger(d.strand, d.density)))

\* sin(min(1, 2 * elapsed) * pi): half a wave in the first half second, then 0.
Wave == <<0, 31, 59, 81, 95, 100, 95, 81, 59, 31, 0>>

\* The drive loop's target while KERAI speaks: the largest is deform or strand.
Pulse(env, frames) == (((env * Wave[frames + 1]) \div Unit) * 85) \div 100
SpeechDrive(pulse) == Larger(24 + (pulse * 60) \div 100, 32 + (pulse * 55) \div 100)
-------------------------------------------------------------------------------
Init ==
  /\ source = "rest" /\ analysis = Fresh
  /\ envelope = 0 /\ elapsed = 0 /\ smoothed = 0 /\ drive = 0 /\ looping = FALSE

\* startListening constructs an AudioAnalyzer.
OpenMic ==
  /\ source # "mic" /\ source' = "mic"
  /\ analysis' = Fresh
  /\ looping' = TRUE
  /\ UNCHANGED <<envelope, elapsed, smoothed, drive>>

\* stopListening drops it and stops the loop; stopDriveLoop gives the core no drive,
\* and the smoother is not told.
CloseMic ==
  /\ source = "mic" /\ source' = "rest"
  /\ analysis' = Fresh
  /\ drive' = 0 /\ looping' = FALSE
  /\ UNCHANGED <<envelope, elapsed, smoothed>>

\* speak and speakFallbackSystem.
StartSpeech ==
  /\ source # "mic" /\ source' = "speech"
  /\ envelope' \in {80, 0} /\ elapsed' = 0
  /\ looping' = TRUE
  /\ UNCHANGED <<analysis, smoothed, drive>>

\* onplay and onboundary.
Boundary ==
  /\ source = "speech" /\ envelope' = Unit
  /\ UNCHANGED <<source, analysis, elapsed, smoothed, drive, looping>>

\* Hands-free is switched off while KERAI speaks: stopListening stops the loop.
LoopStops ==
  /\ source = "speech" /\ looping /\ looping' = FALSE
  /\ UNCHANGED <<source, analysis, envelope, elapsed, smoothed, drive>>

\* The end of a text or stopSpeaking; an utterance that fails gives the core nothing.
\* The loop goes on.
EndSpeech ==
  /\ source = "speech" /\ source' = "rest"
  /\ envelope' = 0 /\ drive' \in {0, drive}
  /\ UNCHANGED <<analysis, elapsed, smoothed, looping>>

\* One frame of the drive loop: the smoother is pushed and the core given the result,
Push(target, share) ==
  /\ looping
  /\ smoothed' = Approach(smoothed, target, share) /\ drive' = smoothed'

\* ... with an analyzer,
MicFrame(w, share) ==
  /\ source = "mic"
  /\ analysis' = Update(analysis, w, share)
  /\ Push(Loudest(ToDrive(analysis')), share)
  /\ UNCHANGED <<source, envelope, elapsed, looping>>

\* ... while KERAI speaks,
SpeechFrame ==
  /\ source = "speech"
  /\ envelope' = Approach(envelope, 0, 2)
  /\ elapsed' = IF elapsed < HalfSecond THEN elapsed + 1 ELSE elapsed
  /\ Push(SpeechDrive(Pulse(envelope', elapsed')), 2)
  /\ UNCHANGED <<source, analysis, looping>>

\* A mutant: no frame at rest pushes anything.
RestFrameHolds ==
  /\ source = "rest" /\ looping /\ drive' = smoothed
  /\ UNCHANGED <<source, analysis, envelope, elapsed, smoothed, looping>>

\* ... and at rest.
RestFrame ==
  /\ source = "rest" /\ Push(0, 2)
  /\ UNCHANGED <<source, analysis, envelope, elapsed, looping>>

Window == [low : Bytes, mid : Bytes, high : Bytes]

Next ==
  \/ OpenMic \/ CloseMic \/ StartSpeech \/ Boundary \/ LoopStops \/ EndSpeech
  \/ SpeechFrame \/ RestFrame
  \/ \E w \in Window, share \in Shares : MicFrame(w, share)

Spec == Init /\ [][Next]_vars

\* The browser calls the frames of the loop.
Fairness == WF_vars(RestFrame)
-------------------------------------------------------------------------------

\* Every level the renderer may be given lies between 0 and 1 (audio.ts:15), whatever
\* is heard and however the three sources follow each other.
TypeOK ==
  /\ source \in {"mic", "speech", "rest"} /\ looping \in BOOLEAN
  /\ drive \in 0..Unit /\ smoothed \in 0..Unit
  /\ \A band \in {"amp", "low", "mid", "high"} : analysis[band] \in 0..Unit
  /\ envelope \in 0..Unit /\ elapsed \in 0..HalfSecond
  /\ analysis.speech \in BOOLEAN /\ analysis.below \in 0..SpeechHold
  /\ analysis.silence \in {Infinite} \cup 0..MaxSilence

\* When KERAI has fallen silent the ring comes to rest, although the smoother still
\* remembers what was loud and the first frame gives the core that again.
DriveSettles == <>[](source = "rest" /\ looping) => <>[](drive = 0)
===============================================================================
