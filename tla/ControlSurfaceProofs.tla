--------------------------- MODULE ControlSurfaceProofs ---------------------------
(***************************************************************************)
(* For any tables of states, tools, lists, sockets, missions and bounds:   *)
(* the types of every part of the control surface, the one frame loop of   *)
(* a core and how far its layers reach, the card of a completed mission,   *)
(* and the pages whose answers come in any order.                          *)
(*                                                                         *)
(* Each part has an inductive invariant of its own, which its steps keep   *)
(* and a step of another part leaves alone; SurfaceInv is all of them.     *)
(***************************************************************************)
EXTENDS MCControlSurface, LiveStoreProofs, WellFoundedInduction, TLAPS

(* Audio analysis and the drive loop. *)

\* Every step of the computation is bounded by 0 and Unit.
LEMMA LevelsClamped == \A v \in Int : Core!Clamp01(v) \in 0..100
  BY DEF Core!Clamp01, Core!Unit

\* The larger of two levels is a level.
LEMMA LevelsLarger == \A v, w \in 0..100 : Core!Larger(v, w) \in 0..100
  BY DEF Core!Larger

\* Smoothing does not overshoot.
LEMMA LevelsApproach ==
  \A v, target \in 0..100, share \in Core!Shares : Core!Approach(v, target, share) \in 0..100
<1> SUFFICES ASSUME NEW v \in 0..100, NEW target \in 0..100, NEW share \in {2, 10}
             PROVE  Core!Approach(v, target, share) \in 0..100
  BY DEF Core!Shares
<1>1. CASE share = 2
  BY <1>1 DEF Core!Approach
<1>2. CASE share = 10
  BY <1>2 DEF Core!Approach
<1>3. QED
  BY <1>1, <1>2

\* The speech detector's counters stay within their bounds.
LEMMA SpeechDetected ==
  ASSUME NEW a, NEW amp \in 0..100,
         a.speech \in BOOLEAN, a.below \in 0..11, a.silence \in {-1} \cup 0..MaxSilence
  PROVE  /\ Core!DetectSpeech(a, amp).speech \in BOOLEAN
         /\ Core!DetectSpeech(a, amp).below \in 0..11
         /\ Core!DetectSpeech(a, amp).silence \in {-1} \cup 0..MaxSilence
<1> USE AudioAssumption DEF Core!DetectSpeech, Core!SpeechHold, Core!SpeechThreshold, Core!Infinite
<1>1. Core!DetectSpeech(a, amp).speech \in BOOLEAN
  OBVIOUS
<1>2. Core!DetectSpeech(a, amp).below \in 0..11
  OBVIOUS
<1>3. Core!DetectSpeech(a, amp).silence \in {-1} \cup 0..MaxSilence
  OBVIOUS
<1>4. QED
  BY <1>1, <1>2, <1>3

\* toDrive: the five knobs of any analysis are levels.
LEMMA DriveBounded ==
  ASSUME NEW a, a.amp \in 0..100, a.low \in 0..100, a.mid \in 0..100, a.high \in 0..100,
         a.speech \in BOOLEAN
  PROVE  Core!Loudest(Core!ToDrive(a)) \in 0..100
<1> DEFINE d == Core!ToDrive(a)
<1>1. /\ d.scale \in 0..100 /\ d.inner \in 0..100 /\ d.deform \in 0..100
      /\ d.strand \in 0..100 /\ d.density \in 0..100
  <2> DEFINE amp == a.amp  low == a.low  mid == a.mid  high == a.high
  <2>1. amp \in Int /\ low \in Int /\ mid \in Int /\ high \in Int
    OBVIOUS
  <2> HIDE DEF amp, low, mid, high
  <2>2. /\ (amp * 150) \div 100 \in Int /\ (low * 150 + amp * 25) \div 100 \in Int
        /\ (mid * 145 + amp * 30) \div 100 \in Int
        /\ (high * 160 + amp * 20) \div 100 \in Int
    BY <2>1
  <2>3. ((a.amp + IF a.speech THEN 20 ELSE 0) * 125) \div 100 \in Int
    OBVIOUS
  <2>4. QED
    BY <2>2, <2>3, LevelsClamped DEF Core!ToDrive, amp, low, mid, high
<1> HIDE DEF d
<1>2. /\ Core!Larger(d.scale, d.inner) \in 0..100
      /\ Core!Larger(d.strand, d.density) \in 0..100
  BY <1>1, LevelsLarger
<1>3. Core!Larger(d.deform, Core!Larger(d.strand, d.density)) \in 0..100
  BY <1>1, <1>2, LevelsLarger
<1>4. QED
  BY <1>2, <1>3, LevelsLarger DEF Core!Loudest, d

\* The pulses of the speech are bounded too, whatever part of the wave they are at.
LEMMA PulseBounded ==
  \A env \in 0..100, frames \in 0..10 : Core!SpeechDrive(Core!Pulse(env, frames)) \in 0..100
<1> SUFFICES ASSUME NEW env \in 0..100, NEW frames \in 0..10
             PROVE  Core!SpeechDrive(Core!Pulse(env, frames)) \in 0..100
  OBVIOUS
<1> DEFINE wave == Core!Wave[frames + 1]
<1>1. wave \in 0..100
  BY DEF Core!Wave
<1> HIDE DEF wave
<1> DEFINE product == env * wave
<1>2. product \in Nat /\ product <= env * 100
  BY <1>1
<1> HIDE DEF product
<1>3. ((product \div 100) * 85) \div 100 \in 0..85
  <2>1. product \in Int /\ 0 <= product /\ product <= 10000
    BY <1>2
  <2>2. product \div 100 \in Int /\ 0 <= product \div 100 /\ product \div 100 <= 100
    BY <2>1
  <2>3. QED
    BY <2>2
<1>4. Core!Pulse(env, frames) \in 0..85
  BY <1>3 DEF Core!Pulse, Core!Unit, product, wave
<1>5. QED
  BY <1>4 DEF Core!SpeechDrive, Core!Larger

\* update: the meters and the detector stay in range.
LEMMA UpdateBounded ==
  ASSUME Core!TypeOK, NEW w \in Core!Window, NEW share \in Core!Shares
  PROVE  /\ \A band \in {"amp", "low", "mid", "high"} :
              Core!Update(analysis, w, share)[band] \in 0..100
         /\ Core!Update(analysis, w, share).speech \in BOOLEAN
         /\ Core!Update(analysis, w, share).below \in 0..11
         /\ Core!Update(analysis, w, share).silence \in {-1} \cup 0..MaxSilence
<1> DEFINE low   == Core!Normalize(w.low)
           mid   == Core!Normalize(w.mid)
           high  == Core!Normalize(w.high)
           peak  == Core!Larger(low, Core!Larger(mid, high))
           amp   == Core!Approach(analysis.amp, Core!Clamp01((peak * 135) \div 100), share)
           heard == Core!DetectSpeech(analysis, amp)
           next  == Core!Update(analysis, w, share)
<1>1. /\ analysis.amp \in 0..100 /\ analysis.low \in 0..100
      /\ analysis.mid \in 0..100 /\ analysis.high \in 0..100
      /\ analysis.speech \in BOOLEAN /\ analysis.below \in 0..11
      /\ analysis.silence \in {-1} \cup 0..MaxSilence
  BY DEF Core!TypeOK, Core!Unit, Core!SpeechHold, Core!Infinite
<1>2. low \in 0..100 /\ mid \in 0..100 /\ high \in 0..100
  <2>1. w.low \in Bytes /\ w.mid \in Bytes /\ w.high \in Bytes
    BY DEF Core!Window
  <2>2. w.low \in Int /\ w.mid \in Int /\ w.high \in Int
    <3>1. \A v \in Bytes : v \in Int
      BY AudioAssumption
    <3>2. QED
      BY <2>1, <3>1
  <2>3. /\ ((w.low + 100) * 100) \div 70 \in Int /\ ((w.mid + 100) * 100) \div 70 \in Int
        /\ ((w.high + 100) * 100) \div 70 \in Int
    BY <2>2
  <2>4. \A v \in Int : Core!Normalize(v) = Core!Clamp01(((v + 100) * 100) \div 70)
    BY DEF Core!Normalize, Core!MinDecibels, Core!MaxDecibels, Core!Unit
  <2>5. QED
    BY <2>2, <2>3, <2>4, LevelsClamped
<1>3. peak \in 0..100
  BY <1>2 DEF Core!Larger
<1>4. amp \in 0..100
  <2>1. (peak * 135) \div 100 \in Int
    BY <1>3
  <2>2. QED
    BY <1>1, <2>1, LevelsClamped, LevelsApproach
<1>5. /\ heard.speech \in BOOLEAN /\ heard.below \in 0..11
      /\ heard.silence \in {-1} \cup 0..MaxSilence
  BY <1>1, <1>4, SpeechDetected
<1> HIDE DEF low, mid, high
<1>6. next = [amp |-> amp,
              low  |-> Core!Approach(analysis.low, Core!Clamp01((low * 19) \div 10), share),
              mid  |-> Core!Approach(analysis.mid, Core!Clamp01((mid * 19) \div 10), share),
              high |-> Core!Approach(analysis.high, Core!Clamp01((high * 22) \div 10), share),
              speech |-> heard.speech, below |-> heard.below, silence |-> heard.silence]
  BY DEF Core!Update, low, mid, high
<1> HIDE DEF amp, heard, next
<1>7. next.low \in 0..100 /\ next.mid \in 0..100 /\ next.high \in 0..100
  <2>1. (low * 19) \div 10 \in Int /\ (mid * 19) \div 10 \in Int /\ (high * 22) \div 10 \in Int
    BY <1>2
  <2>2. QED
    BY <1>1, <1>6, <2>1, LevelsClamped, LevelsApproach
<1>8. next.amp \in 0..100 /\ next.speech = heard.speech /\ next.below = heard.below
      /\ next.silence = heard.silence
  BY <1>4, <1>6
<1>9. QED
  BY <1>5, <1>7, <1>8 DEF next

\* Every frame, whatever it follows, leaves levels.
LEMMA AudioKept == Core!TypeOK /\ [Core!Next]_audioVars => Core!TypeOK'
<1> SUFFICES ASSUME Core!TypeOK, [Core!Next]_audioVars PROVE Core!TypeOK'
  OBVIOUS
<1>1. /\ envelope \in 0..100 /\ smoothed \in 0..100 /\ elapsed \in 0..10
      /\ 0 \in 0..100 /\ 2 \in Core!Shares
  BY DEF Core!TypeOK, Core!Unit, Core!HalfSecond, Core!Shares
<1>2. Core!Approach(envelope, 0, 2) \in 0..100
  BY <1>1, LevelsApproach
<1>3. ASSUME NEW target \in 0..100, NEW share \in Core!Shares, Core!Push(target, share)
      PROVE  smoothed' \in 0..100 /\ drive' \in 0..100 /\ looping
  BY <1>1, <1>3, LevelsApproach DEF Core!Push
<1>4. ASSUME Core!SpeechFrame
      PROVE  /\ envelope' \in 0..100 /\ elapsed' \in 0..10
             /\ smoothed' \in 0..100 /\ drive' \in 0..100
  <2>1. envelope' \in 0..100 /\ elapsed' \in 0..10
    BY <1>4, <1>1, <1>2 DEF Core!SpeechFrame, Core!HalfSecond
  <2>2. Core!SpeechDrive(Core!Pulse(envelope', elapsed')) \in 0..100
    BY <2>1, PulseBounded
  <2>3. QED
    BY <1>4, <1>1, <1>3, <2>1, <2>2 DEF Core!SpeechFrame
<1> USE AudioAssumption DEF Core!TypeOK, Core!Unit, Core!SpeechHold, Core!Infinite, Core!HalfSecond
<1>5. CASE Core!OpenMic
  BY <1>5 DEF Core!OpenMic, Core!Fresh
<1>6. CASE Core!CloseMic
  <2>1. source' = "rest" /\ looping' = FALSE /\ drive' = 0 /\ smoothed' = smoothed
    BY <1>6 DEF Core!CloseMic
  <2>2. UNCHANGED <<envelope, elapsed>>
    BY <1>6 DEF Core!CloseMic
  <2>3. /\ \A band \in {"amp", "low", "mid", "high"} : analysis'[band] = 0
        /\ analysis'.below = 0 /\ analysis'.silence = -1
    BY <1>6 DEF Core!CloseMic, Core!Fresh
  <2>4. analysis'.speech \in BOOLEAN
    BY <1>6 DEF Core!CloseMic, Core!Fresh
  <2>5. source' \in {"mic", "speech", "rest"} /\ looping' \in BOOLEAN
    BY <2>1
  <2>6. drive' \in 0..100 /\ smoothed' \in 0..100 /\ envelope' \in 0..100 /\ elapsed' \in 0..10
    BY <1>1, <2>1, <2>2
  <2>7. \A band \in {"amp", "low", "mid", "high"} : analysis'[band] \in 0..100
    BY <2>3
  <2>8. analysis'.below \in 0..11
    BY <2>3
  <2>9. analysis'.silence \in {-1} \cup 0..MaxSilence
    BY <2>3
  <2>10. QED
    BY <2>4, <2>5, <2>6, <2>7, <2>8, <2>9
<1>7. CASE Core!StartSpeech
  BY <1>7 DEF Core!StartSpeech
<1>8. CASE Core!Boundary
  BY <1>8 DEF Core!Boundary
<1>9. CASE Core!LoopStops
  BY <1>9 DEF Core!LoopStops
<1>10. CASE Core!EndSpeech
  BY <1>10 DEF Core!EndSpeech
<1>11. CASE Core!SpeechFrame
  BY <1>1, <1>2, <1>3, <1>11, <1>4 DEF Core!SpeechFrame
<1>12. CASE Core!RestFrame
  <2>1. smoothed' \in 0..100 /\ drive' \in 0..100
    BY <1>1, <1>3, <1>12 DEF Core!RestFrame
  <2>2. QED
    BY <1>12, <2>1 DEF Core!RestFrame
<1>13. ASSUME NEW w \in Core!Window, NEW share \in Core!Shares, Core!MicFrame(w, share)
       PROVE  Core!TypeOK'
  <2>1. /\ \A band \in {"amp", "low", "mid", "high"} : analysis'[band] \in 0..100
        /\ analysis'.speech \in BOOLEAN /\ analysis'.below \in 0..11
        /\ analysis'.silence \in {-1} \cup 0..MaxSilence
    BY <1>13, UpdateBounded DEF Core!MicFrame
  <2>2. Core!Loudest(Core!ToDrive(analysis')) \in 0..100
    BY <2>1, DriveBounded
  <2>3. smoothed' \in 0..100 /\ drive' \in 0..100
    BY <1>3, <1>13, <2>2 DEF Core!MicFrame
  <2>4. UNCHANGED <<source, envelope, elapsed, looping>>
    BY <1>13 DEF Core!MicFrame
  <2>5. QED
    BY <2>1, <2>3, <2>4
<1>14. CASE UNCHANGED audioVars
  BY <1>14 DEF audioVars
<1>15. QED
  BY <1>5, <1>6, <1>7, <1>8, <1>9, <1>10, <1>11, <1>12, <1>13, <1>14 DEF Core!Next
-------------------------------------------------------------------------------
(* The Neural Core. *)

(* The extremes of a set of numbers. *)

\* That a set of naturals has a least element is what the well-foundedness of < says.
LEMMA SmallestOfNaturals ==
  ASSUME NEW S \in SUBSET Nat, S # {}
  PROVE  \E m \in S : \A n \in S : m <= n
<1> DEFINE R == OpToRel(<, Nat)
<1>1. IsWellFoundedOn(R, Nat)
  BY NatLessThanWellFounded
<1>2. \A i, j \in Nat : i < j => <<i, j>> \in R
  BY DEF OpToRel
<1> HIDE DEF R
<1>3. PICK m \in S : \A n \in S : ~ (<<n, m>> \in R)
  BY <1>1, WFMin
<1>4. ASSUME NEW n \in S PROVE m <= n
  <2>1. n \in Nat /\ m \in Nat
    OBVIOUS
  <2>2. ~ (n < m)
    BY <1>2, <1>3, <2>1
  <2>3. QED
    BY <2>1, <2>2
<1>5. QED
  BY <1>4

\* Max and Min of a bounded set are members of it and bound it.
LEMMA Extremes ==
  ASSUME NEW S, NEW a \in Nat, NEW b \in Nat, S \subseteq a..b, S # {}
  PROVE  /\ Core!Max(S) \in a..b /\ Core!Min(S) \in a..b
<1>1. \E m \in S : \A n \in S : m <= n
  <2>1. S \in SUBSET Nat
    OBVIOUS
  <2>2. QED
    BY <2>1, SmallestOfNaturals
<1>2. \E m \in S : \A n \in S : m >= n
  <2> DEFINE T == {b - n : n \in S}
  <2>1. \A n \in S : b - n \in Nat
    OBVIOUS
  <2>2. T \in SUBSET Nat /\ T # {}
    BY <2>1
  <2> HIDE DEF T
  <2>3. PICK t \in T : \A u \in T : t <= u
    BY <2>2, SmallestOfNaturals
  <2>4. PICK m \in S : t = b - m
    BY DEF T
  <2>5. ASSUME NEW n \in S PROVE m >= n
    <3>1. b - n \in T
      BY DEF T
    <3>2. b - m <= b - n
      BY <2>3, <2>4, <3>1
    <3>3. m \in Int /\ n \in Int
      OBVIOUS
    <3>4. QED
      BY <3>2, <3>3
  <2>6. QED
    BY <2>5
<1>3. Core!Min(S) \in S
  BY <1>1 DEF Core!Min
<1>4. Core!Max(S) \in S
  BY <1>2 DEF Core!Max
<1>5. QED
  BY <1>3, <1>4

\* A rounded product grows with its factors.
LEMMA TimesGrows ==
  \A a, b, x, y :
    a \in Nat /\ b \in Nat /\ x \in Nat /\ y \in Nat /\ a <= x /\ b <= y =>
      Core!Times(a, b) \in Nat /\ Core!Times(a, b) <= Core!Times(x, y)
<1> SUFFICES ASSUME NEW a \in Nat, NEW b \in Nat, NEW x \in Nat, NEW y \in Nat, a <= x, b <= y
             PROVE  Core!Times(a, b) \in Nat /\ Core!Times(a, b) <= Core!Times(x, y)
  OBVIOUS
<1>1. a * b \in Nat /\ a * y \in Nat /\ x * y \in Nat
  OBVIOUS
<1>2. a * b <= a * y
  OBVIOUS
<1>3. a * y <= x * y
  OBVIOUS
<1>4. \A p, q \in Nat : p <= q =>
        (p + 1000 - 1) \div 1000 \in Nat /\ (p + 1000 - 1) \div 1000 <= (q + 1000 - 1) \div 1000
  OBVIOUS
<1>5. a * b <= x * y
  BY <1>1, <1>2, <1>3
<1>6. QED
  BY <1>1, <1>4, <1>5 DEF Core!Times, Core!Thousand

\* Such a product is a natural number.
LEMMA TimesTyped == \A a, b : a \in Nat /\ b \in Nat => Core!Times(a, b) \in Nat
<1> SUFFICES ASSUME NEW a \in Nat, NEW b \in Nat PROVE Core!Times(a, b) \in Nat
  OBVIOUS
<1>1. QED
  BY TimesGrows, a <= a, b <= b

\* Whatever rows a knob is between, it is between the least and the greatest of the table.
LEMMA Knobs ==
  ASSUME mix # {}, mix \subseteq CoreStates
  PROVE  /\ Core!Hi("radius") \in 380..450 /\ Core!Lo("radius") \in 380..450
         /\ Core!Hi("radiusPulse") \in 12..40
         /\ Core!Hi("strandSpread") \in 90..160
         /\ Core!Hi("deformation") \in 40..180
         /\ Core!Hi("particleSpread") \in 200..200
<1> DEFINE States == {"idle", "listening", "thinking", "speaking", "executing",
                      "waitingApproval", "error"}
<1>1. mix \subseteq States /\ "idle" \in States
  BY CoreAssumption
<1> USE DEF Core!NEURAL_STATES, Core!Idle, Core!Listening, Core!Thinking, Core!Speaking,
      Core!Executing, Core!WaitingApproval, Core!Error, Core!Params
<1>2. \A s \in States : Core!NEURAL_STATES[s].radius \in 380..450
  OBVIOUS
<1>3. \A s \in States : Core!NEURAL_STATES[s].radiusPulse \in 12..40
  OBVIOUS
<1>4. \A s \in States : Core!NEURAL_STATES[s].strandSpread \in 90..160
  OBVIOUS
<1>5. \A s \in States : Core!NEURAL_STATES[s].deformation \in 40..180
  OBVIOUS
<1>6. Core!NEURAL_STATES["idle"].particleSpread \in 200..200
  OBVIOUS
<1> USE DEF Core!Values, Core!Approached
<1> HIDE DEF Core!NEURAL_STATES
<1>7. Core!Values("radius") \subseteq 380..450 /\ Core!Values("radius") # {}
  BY <1>1, <1>2
<1>8. Core!Values("radiusPulse") \subseteq 12..40 /\ Core!Values("radiusPulse") # {}
  BY <1>1, <1>3
<1>9. Core!Values("strandSpread") \subseteq 90..160 /\ Core!Values("strandSpread") # {}
  BY <1>1, <1>4
<1>10. Core!Values("deformation") \subseteq 40..180 /\ Core!Values("deformation") # {}
  BY <1>1, <1>5
<1>11. Core!Values("particleSpread") \subseteq 200..200 /\ Core!Values("particleSpread") # {}
  BY <1>1, <1>6
<1> HIDE DEF Core!Values, Core!Approached, Core!Params
<1>12. Core!Hi("radius") \in 380..450 /\ Core!Lo("radius") \in 380..450
  <2> DEFINE least == 380
             most  == 450
  <2>1. least \in Nat /\ most \in Nat
    OBVIOUS
  <2>2. Core!Values("radius") \subseteq least..most
    BY <1>7
  <2> HIDE DEF least, most
  <2>3. Core!Hi("radius") \in least..most
    BY <1>7, <2>1, <2>2, Extremes DEF Core!Hi
  <2>4. Core!Lo("radius") \in least..most
    BY <1>7, <2>1, <2>2, Extremes DEF Core!Lo
  <2>5. QED
    BY <2>3, <2>4 DEF least, most
<1>13. Core!Hi("radiusPulse") \in 12..40
  BY <1>8, Extremes DEF Core!Hi
<1>14. Core!Hi("strandSpread") \in 90..160
  BY <1>9, Extremes DEF Core!Hi
<1>15. Core!Hi("deformation") \in 40..180
  BY <1>10, Extremes DEF Core!Hi
<1>16. Core!Hi("particleSpread") \in 200..200
  BY <1>11, Extremes DEF Core!Hi
<1>17. QED
  BY <1>12, <1>13, <1>14, <1>15, <1>16

\* The strands swing out with what bounds the radius, their bend and their shaking.
LEMMA StrandGrows ==
  ASSUME Core!CoreTypeOK, NEW top \in Nat, NEW jolt \in Nat, NEW quake \in Nat,
         Core!BaseRadius \in 0..top,
         Core!Percent(2200, chaosSpike) \in 0..jolt, Core!Percent(35, chaosSpike) \in 0..quake
  PROVE  /\ Core!StrandReach \in Nat
         /\ Core!StrandReach <=
              Core!Times(Core!Times(Core!Times(Core!Times(top, 1144), 1000 + Core!Times(180, 2500 + jolt)),
                                    1000 + quake), 1030)
<1> DEFINE base   == Core!BaseRadius
           broad  == 1000 + Core!Times(Core!Hi("strandSpread"), 900)
           knob   == Core!Hi("deformation")
           swing  == 1000 + Core!Percent(1500, loud) + Core!Percent(2200, chaosSpike)
           deform == 1000 + Core!Times(knob, swing)
           shaken == 1000 + Core!Percent(35, chaosSpike)
           bend   == 2500 + jolt
           most   == 1000 + Core!Times(180, bend)
           shake  == 1000 + quake
<1>1. Core!Hi("strandSpread") \in 90..160 /\ knob \in 40..180 /\ loud \in 0..100
  BY Knobs DEF Core!CoreTypeOK, Core!Unit
<1>2. base \in Nat /\ base <= top /\ shaken \in Nat /\ shake \in Nat /\ shaken <= shake
  OBVIOUS
<1>3. broad \in Nat /\ broad <= 1144
  BY <1>1 DEF Core!Times, Core!Thousand
<1>4. swing \in Nat /\ bend \in Nat /\ swing <= bend
  <2>1. Core!Percent(1500, loud) \in Nat /\ Core!Percent(1500, loud) <= 1500
    BY <1>1 DEF Core!Percent
  <2>2. QED
    BY <2>1
<1>5. Core!StrandReach =
        Core!Times(Core!Times(Core!Times(Core!Times(base, broad), deform), shaken), 1030)
  BY DEF Core!StrandReach, Core!Thousand
<1>6. knob \in Nat /\ knob <= 180 /\ 180 \in Nat /\ 1144 \in Nat /\ 1030 \in Nat
  BY <1>1
<1> HIDE DEF base, broad, knob, swing, shaken, bend, shake
<1>7. deform \in Nat /\ most \in Nat /\ deform <= most
  <2>1. /\ Core!Times(knob, swing) \in Nat /\ Core!Times(180, bend) \in Nat
        /\ Core!Times(knob, swing) <= Core!Times(180, bend)
    BY <1>4, <1>6, TimesGrows, TimesTyped
  <2>2. QED
    BY <2>1
<1> HIDE DEF deform, most
<1> DEFINE x == Core!Times(base, broad)
           y == Core!Times(top, 1144)
<1>8. x \in Nat /\ y \in Nat /\ x <= y
  BY <1>2, <1>3, <1>6, TimesGrows, TimesTyped
<1> HIDE DEF x, y
<1> DEFINE v == Core!Times(x, deform)
           w == Core!Times(y, most)
<1>9. v \in Nat /\ w \in Nat /\ v <= w
  BY <1>7, <1>8, TimesGrows, TimesTyped
<1> HIDE DEF v, w
<1>10. /\ Core!Times(v, shaken) \in Nat /\ Core!Times(w, shake) \in Nat
       /\ Core!Times(v, shaken) <= Core!Times(w, shake)
  BY <1>2, <1>9, TimesGrows, TimesTyped
<1>11. /\ Core!Times(Core!Times(v, shaken), 1030) \in Nat
       /\ Core!Times(Core!Times(v, shaken), 1030) <= Core!Times(Core!Times(w, shake), 1030)
  BY <1>6, <1>10, TimesGrows, 1030 <= 1030
<1>12. QED
  BY <1>5, <1>11 DEF v, w, x, y, most, bend, shake

\* Layer by layer, with every knob at its worst and the loudest drive: what is multiplied
\* grows with its factors, so the largest factors bound the product.
LEMMA Rings == Core!CoreTypeOK => Core!RingFits
<1> SUFFICES ASSUME Core!CoreTypeOK PROVE Core!RingFits
  OBVIOUS
<1>1. /\ Core!Hi("radius") \in 380..450 /\ Core!Hi("radiusPulse") \in 12..40
      /\ Core!Hi("particleSpread") = 200 /\ loud \in 0..100 /\ chaosSpike \in 0..100
  BY Knobs DEF Core!CoreTypeOK, Core!Unit
<1>2. /\ Core!Percent(85, loud) \in 0..85 /\ Core!Percent(40, loud) \in 0..40
      /\ Core!Percent(40, chaosSpike) \in 0..40 /\ Core!Percent(35, chaosSpike) \in 0..35
  BY <1>1 DEF Core!Percent
<1>3. Core!Percent(2200, chaosSpike) \in Nat /\ Core!Percent(2200, chaosSpike) <= 2200
  BY <1>1 DEF Core!Percent
<1>4. Core!Percent(40, 0) = 0 /\ Core!Percent(2200, 0) = 0 /\ Core!Percent(35, 0) = 0
  BY DEF Core!Percent
<1> USE DEF Core!Thousand
<1>5. Core!BaseRadius \in 0..554 /\ (chaosSpike = 0 => Core!BaseRadius \in 0..532)
  <2> DEFINE a == Core!Hi("radius") + Core!Hi("radiusPulse")
             b == 1000 + Core!Percent(85, loud)
             c == 1000 + Core!Percent(40, chaosSpike)
             r == Core!Times(a, b)
  <2>1. a \in Nat /\ b \in Nat /\ 490 \in Nat /\ 1085 \in Nat /\ a <= 490 /\ b <= 1085
    BY <1>1, <1>2
  <2>2. c \in Nat /\ c <= 1040 /\ (chaosSpike = 0 => c = 1000) /\ 1040 \in Nat /\ 532 \in Nat
    BY <1>2, <1>4
  <2>3. Core!BaseRadius = Core!Times(r, c)
    BY DEF Core!BaseRadius
  <2> HIDE DEF a, b, c
  <2>4. r \in Nat /\ r <= Core!Times(490, 1085)
    BY <2>1, TimesGrows
  <2>5. Core!Times(490, 1085) = 532 /\ Core!Times(532, 1040) = 554
    BY DEF Core!Times
  <2> HIDE DEF r
  <2>6. Core!Times(r, c) \in Nat /\ Core!Times(r, c) <= 554
    <3>1. r <= 532
      BY <2>4, <2>5
    <3>2. Core!Times(r, c) \in Nat /\ Core!Times(r, c) <= Core!Times(532, 1040)
      BY <2>2, <2>4, <3>1, TimesGrows
    <3>3. QED
      BY <2>5, <3>2
  <2>7. Core!Times(r, 1000) \in Nat /\ Core!Times(r, 1000) <= 532
    BY <2>4, <2>5 DEF Core!Times
  <2>8. QED
    BY <2>2, <2>3, <2>6, <2>7
<1>6. Core!InnerReach <= 1000 /\ Core!HotspotReach <= 1000 /\ Core!HaloReach <= 1000
  BY <1>5 DEF Core!InnerReach, Core!HotspotReach, Core!HaloReach, Core!Times
<1>7. Core!ParticleReach <= 1000
  BY <1>1, <1>5 DEF Core!ParticleReach, Core!Times
<1>8. Core!WispReach <= 1000
  <2> DEFINE e == Core!Times(Core!BaseRadius, 1020 + 250)
             c == 1000 + Core!Percent(40, loud)
             ends == Core!Times(e, c)
  <2>1. e \in 0..704
    BY <1>5 DEF Core!Times
  <2>2. c \in 1000..1040
    BY <1>2
  <2> HIDE DEF e, c
  <2>3. e \in Nat /\ c \in Nat /\ 704 \in Nat /\ 1040 \in Nat /\ e <= 704 /\ c <= 1040
    BY <2>1, <2>2
  <2>4. ends \in Nat /\ ends <= Core!Times(704, 1040)
    BY <2>3, TimesGrows
  <2>5. Core!Times(704, 1040) = 733
    BY DEF Core!Times
  <2> HIDE DEF ends
  <2>6. (ends + Core!Times(ends, 1550) + 1) \div 2 <= 1000
    BY <2>4, <2>5 DEF Core!Times
  <2>7. Core!WispReach = (ends + Core!Times(ends, 1550) + 1) \div 2
    BY DEF Core!WispReach, ends, e, c
  <2>8. QED
    BY <2>6, <2>7
<1>9. CASE chaosSpike = 0
  <2> DEFINE top  == 532
             none == 0
  <2>1. top \in Nat /\ none \in Nat
    OBVIOUS
  <2>2. /\ Core!BaseRadius \in 0..top
        /\ Core!Percent(2200, chaosSpike) \in 0..none /\ Core!Percent(35, chaosSpike) \in 0..none
    BY <1>4, <1>5, <1>9
  <2> HIDE DEF top, none
  <2>3. /\ Core!StrandReach \in Nat
        /\ Core!StrandReach <=
             Core!Times(Core!Times(Core!Times(Core!Times(top, 1144), 1000 + Core!Times(180, 2500 + none)),
                                   1000 + none), 1030)
    BY <2>1, <2>2, StrandGrows
  <2>4. /\ Core!Times(532, 1144) = 609 /\ Core!Times(180, 2500 + 0) = 450
        /\ Core!Times(609, 1000 + 450) = 884 /\ Core!Times(884, 1000 + 0) = 884
        /\ Core!Times(884, 1030) <= 1000 /\ Core!Times(884, 1030) \in Nat
    BY DEF Core!Times
  <2>5. Core!StrandReach \in Nat /\ Core!StrandReach <= Core!Times(884, 1030)
    BY <2>3, <2>4 DEF top, none
  <2>6. Core!StrandReach <= 1000
    BY <2>4, <2>5
  <2>7. QED
    BY <1>6, <1>7, <1>8, <1>9, <2>6 DEF Core!RingFits
<1>10. CASE chaosSpike # 0
  <2> DEFINE top   == 554
             jolt  == 2200
             quake == 35
  <2>1. top \in Nat /\ jolt \in Nat /\ quake \in Nat
    OBVIOUS
  <2>2. /\ Core!BaseRadius \in 0..top
        /\ Core!Percent(2200, chaosSpike) \in 0..jolt /\ Core!Percent(35, chaosSpike) \in 0..quake
    BY <1>2, <1>3, <1>5
  <2> HIDE DEF top, jolt, quake
  <2>3. /\ Core!StrandReach \in Nat
        /\ Core!StrandReach <=
             Core!Times(Core!Times(Core!Times(Core!Times(top, 1144), 1000 + Core!Times(180, 2500 + jolt)),
                                   1000 + quake), 1030)
    BY <2>1, <2>2, StrandGrows
  <2>4. /\ Core!Times(554, 1144) = 634 /\ Core!Times(180, 2500 + 2200) = 846
        /\ Core!Times(634, 1000 + 846) = 1171 /\ Core!Times(1171, 1000 + 35) = 1212
        /\ Core!Times(1212, 1030) <= 1250 /\ Core!Times(1212, 1030) \in Nat
    BY DEF Core!Times
  <2>5. Core!StrandReach \in Nat /\ Core!StrandReach <= Core!Times(1212, 1030)
    BY <2>3, <2>4 DEF top, jolt, quake
  <2>6. Core!StrandReach <= 1250 /\ 1000 + 1000 \div 4 = 1250
    BY <2>4, <2>5
  <2>7. QED
    BY <1>6, <1>7, <1>8, <1>10, <2>6 DEF Core!RingFits
<1>11. QED
  BY <1>9, <1>10

\* The rows the knobs are a mixture of.
Mixture == mix # {} /\ mix \subseteq CoreStates

\* With every table row's radius above every pulse no frame of the core throws.
LEMMA NoThrow == Mixture => ~Core!DrawThrows
<1>1. ASSUME Mixture PROVE ~Core!DrawThrows
  <2>1. Core!Lo("radius") \in 380..450 /\ Core!Hi("radiusPulse") \in 12..40
    BY <1>1, Knobs DEF Mixture
  <2>2. QED
    BY <2>1 DEF Core!DrawThrows
<1>2. QED
  BY <1>1

\* The same of the state a frame leaves behind, in which it draws.
LEMMA NoThrowNext == Mixture' => ~Core!DrawThrows'
  BY NoThrow, PTL

\* A hidden core has a frame scheduled only if it was mounted hidden and never shown,
\* and only such a core has ever overwritten one.
LoopInv ==
  /\ Core!CoreTypeOK /\ Core!OneFrameLoop
  /\ running /\ hidden /\ pending => bornHidden /\ strays = 0

\* The loudest drive is one of the levels.
LEMMA FullDriveBounded == Core!FullDrive \in 0..100
<1> DEFINE a == [amp |-> Core!Unit, low |-> Core!Unit, mid |-> Core!Unit, high |-> Core!Unit,
                 speech |-> TRUE]
<1>1. /\ a.amp \in 0..100 /\ a.low \in 0..100 /\ a.mid \in 0..100 /\ a.high \in 0..100
      /\ a.speech \in BOOLEAN
  BY DEF Core!Unit
<1>2. Core!FullDrive = Core!Loudest(Core!ToDrive(a))
  BY DEF Core!FullDrive
<1> HIDE DEF a
<1>3. QED
  BY <1>1, <1>2, DriveBounded

\* Every step keeps the loop: a frame that draws schedules its successor, hiding cancels it.
LEMMA LoopKept == LoopInv /\ [Core!CoreNext]_coreVars => LoopInv'
<1> SUFFICES ASSUME LoopInv, [Core!CoreNext]_coreVars PROVE LoopInv'
  OBVIOUS
<1>1. Core!FullDrive \in 0..100
  BY FullDriveBounded
<1> USE DEF LoopInv, Core!CoreTypeOK, Core!OneFrameLoop, Core!Unit, Core!loop, Core!props, Core!knobs
<1>2. CASE Core!SetProps
  BY <1>2 DEF Core!SetProps
<1>3. CASE Core!Frame
  <2>1. prevState' = state /\ chaosSpike' \in Core!Spikes
    BY <1>3 DEF Core!Frame, Core!Advance
  <2>2. chaosSpike' \in 0..100
    BY <2>1 DEF Core!Spikes
  <2>3. loud' \in 0..100
    <3>1. \E raw \in 0..100 : loud' \in {Core!Larger(loud, raw), raw}
      BY <1>1, <1>3 DEF Core!Frame, Core!Advance
    <3>2. QED
      BY <3>1 DEF Core!Larger
  <2>4. Mixture'
    BY <1>3 DEF Core!Frame, Core!Advance, Mixture
  <2>5. ~Core!DrawThrows'
    BY <2>4, NoThrowNext
  <2>6. /\ running /\ ~hidden /\ UNCHANGED <<running, hidden, bornHidden, state, rawLoud>>
        /\ \/ pending' = TRUE /\ strays' = strays
           \/ strays > 0 /\ pending' = TRUE /\ strays' = IF pending THEN strays ELSE strays - 1
    BY <1>3, <2>5 DEF Core!Frame
  <2>7. strays' \in 0..1 /\ strays' <= strays /\ pending' = TRUE
    BY <2>6
  <2>8. QED
    BY <2>1, <2>2, <2>3, <2>4, <2>6, <2>7 DEF Mixture
<1>4. CASE Core!DeadFrame
  <2>1. ~running /\ UNCHANGED <<running, hidden, bornHidden, state, rawLoud, prevState, chaosSpike, mix, loud>>
    BY <1>4 DEF Core!DeadFrame
  <2>2. CASE pending' = FALSE /\ strays' = strays
    BY <2>1, <2>2
  <2>3. CASE pending' = pending /\ strays > 0 /\ strays' = strays - 1
    BY <2>1, <2>3
  <2>4. QED
    BY <1>4, <2>2, <2>3 DEF Core!DeadFrame
<1>5. CASE Core!Hide
  BY <1>5 DEF Core!Hide
<1>6. CASE Core!Show
  <2>1. /\ hidden /\ ~hidden' /\ hidden' \in BOOLEAN
        /\ UNCHANGED <<running, bornHidden, state, rawLoud, prevState, chaosSpike, mix, loud>>
    BY <1>6 DEF Core!Show
  <2>2. CASE running
    <3>1. pending' /\ pending' \in BOOLEAN /\ strays' = IF pending THEN strays + 1 ELSE strays
      BY <1>6, <2>2 DEF Core!Show
    <3>2. CASE pending
      <4>1. bornHidden /\ strays = 0 /\ strays' = 1
        BY <2>1, <2>2, <3>1, <3>2
      <4>2. QED
        BY <2>1, <2>2, <3>1, <4>1
    <3>3. CASE ~pending
      BY <2>1, <2>2, <3>1, <3>3
    <3>4. QED
      BY <3>2, <3>3
  <2>3. CASE ~running
    <3>1. pending' = pending /\ strays' = strays
      BY <1>6, <2>3 DEF Core!Show
    <3>2. QED
      BY <2>1, <2>3, <3>1
  <2>4. QED
    BY <2>2, <2>3
<1>7. CASE Core!Dispose
  BY <1>7 DEF Core!Dispose
<1>8. CASE UNCHANGED coreVars
  BY <1>8 DEF coreVars
<1>9. QED
  BY <1>2, <1>3, <1>4, <1>5, <1>6, <1>7, <1>8 DEF Core!CoreNext

\* Mounted, visible or hidden, a core has its first frame scheduled.
LEMMA CoreStarts == Core!CoreInit => LoopInv
<1> SUFFICES ASSUME Core!CoreInit PROVE LoopInv
  OBVIOUS
<1>1. /\ running /\ hidden \in BOOLEAN /\ bornHidden = hidden /\ pending /\ strays = 0
      /\ state \in CoreStates /\ rawLoud = FALSE /\ prevState = state /\ chaosSpike = 0
      /\ mix = {"idle"} /\ loud = 0
  BY DEF Core!CoreInit
<1>2. Core!OneFrameLoop
  BY <1>1 DEF Core!OneFrameLoop
<1>3. Core!CoreTypeOK
  <2>1. running \in BOOLEAN /\ bornHidden \in BOOLEAN /\ pending \in BOOLEAN /\ rawLoud \in BOOLEAN
    BY DEF Core!CoreInit
  <2>2. mix \subseteq CoreStates /\ mix # {}
    BY <1>1, CoreAssumption
  <2>3. chaosSpike \in 0..100 /\ loud \in 0..100 /\ strays \in 0..1
    BY <1>1
  <2>4. QED
    BY <1>1, <2>1, <2>2, <2>3 DEF Core!CoreTypeOK, Core!Unit
<1>4. QED
  BY <1>1, <1>2, <1>3 DEF LoopInv
-------------------------------------------------------------------------------
(* The mission checklist. *)

Entries == Checklist!Entries
ToolEnds == {"TOOL_COMPLETED", "TOOL_FAILED"}

\* Every tool that was started, other than the one that is busy, has ended since.
Settled(s, busy) ==
  \A i \in 1..Len(s) : s[i].type = "TOOL_STARTED" =>
    \/ s[i].tool = busy
    \/ \E j \in 1..Len(s) : i < j /\ s[j].tool = s[i].tool /\ s[j].type \in ToolEnds

\* What the last verification says.
LastVerified(s, saysFailed) ==
  \A i \in 1..Len(s) :
    /\ s[i].type = "VERIFICATION"
    /\ \A j \in 1..Len(s) : s[j].type = "VERIFICATION" => j <= i
    => s[i].saysFailed = saysFailed

\* Behind each position of the list a there are, up to n, all that are newer.
Continuous(a, n) == \A i \in 1..Len(a) : \A q \in a[i]..n : \E j \in i..Len(a) : a[j] = q

\* The worker's side and the page's side of the types.
TrailTyped ==
  /\ agent \in {"waiting", "working", "completing", "done"} \cup Tools
  /\ missionStatus \in Checklist!Status /\ goalSaysFailed \in BOOLEAN
  /\ owed \subseteq Entries /\ trail \in Seq(Entries) /\ Len(trail) <= MaxEvents
ListTyped ==
  /\ sent \in 0..Len(trail) /\ missed \in BOOLEAN /\ slips \in 0..MaxSlips
  /\ activity \in Seq(1..Len(trail)) /\ Len(activity) <= Limit

\* No end of a tool is owed to the table, and a verification only while it completes.
OwedKinds ==
  \A e \in owed :
    /\ e.type # "TOOL_STARTED"
    /\ e.type = "VERIFICATION" => agent = "completing" /\ e.saysFailed = goalSaysFailed

\* A run that has not ended otherwise owes an end only to the tool it is in; a mission
\* that completes has just been verified.
RunInv ==
  /\ missionStatus = "Completed" => agent = "done"
  /\ Settled(trail, agent) \/ (agent = "done" /\ missionStatus # "Completed")
  /\ \/ agent = "completing" /\ \A e \in owed : e.type # "VERIFICATION"
     \/ missionStatus = "Completed"
     => LastVerified(trail, goalSaysFailed)

ChecklistInv ==
  /\ TrailTyped /\ ListTyped /\ OwedKinds /\ RunInv
  /\ ~missed => Continuous(activity, sent)

\* The bounds are numbers, with room for an entry.
LEMMA Bounds ==
  Limit \in Nat /\ Limit >= 1 /\ MaxEvents \in Nat /\ MaxEvents >= 1 /\ MaxSlips \in Nat
<1>1. Limit \in Nat \ {0} /\ MaxEvents \in Nat \ {0} /\ MaxSlips \in Nat
  BY ListsAssumption
<1>2. QED
  BY <1>1

\* What a sequence is behind its last entry, and what it was.
LEMMA Appended ==
  ASSUME NEW S, NEW s \in Seq(S), NEW e \in S
  PROVE  /\ Append(s, e) \in Seq(S) /\ Len(s) \in Nat /\ Len(Append(s, e)) = Len(s) + 1
         /\ Append(s, e)[Len(s) + 1] = e
         /\ \A i \in 1..Len(s) : Append(s, e)[i] = s[i]
  OBVIOUS

\* A new entry leaves every tool settled that it does not start; a tool that starts is
\* the one that is busy.
LEMMA SettledAppends ==
  ASSUME NEW s \in Seq(Entries), NEW e \in Entries, NEW busy, Settled(s, busy),
         e.type # "TOOL_STARTED" \/ e.tool = busy
  PROVE  Settled(Append(s, e), busy)
<1> DEFINE t == Append(s, e)
<1>1. /\ Len(s) \in Nat /\ Len(t) = Len(s) + 1 /\ t[Len(s) + 1] = e
      /\ \A i \in 1..Len(s) : t[i] = s[i]
  BY Appended
<1> HIDE DEF t
<1> SUFFICES ASSUME NEW i \in 1..Len(t), t[i].type = "TOOL_STARTED", t[i].tool # busy
             PROVE  \E j \in 1..Len(t) : i < j /\ t[j].tool = t[i].tool /\ t[j].type \in ToolEnds
  BY DEF Settled, t
<1>2. i # Len(s) + 1
  BY <1>1
<1>3. i \in 1..Len(s) /\ t[i] = s[i]
  BY <1>1, <1>2
<1>4. PICK j \in 1..Len(s) : i < j /\ s[j].tool = s[i].tool /\ s[j].type \in ToolEnds
  BY <1>3 DEF Settled
<1>5. j \in 1..Len(t) /\ t[j] = s[j]
  BY <1>1, <1>4
<1>6. QED
  BY <1>3, <1>4, <1>5

\* A tool that ends is settled.
LEMMA EndSettles ==
  ASSUME NEW s \in Seq(Entries), NEW e \in Entries, Settled(s, e.tool), e.type \in ToolEnds, NEW idle
  PROVE  Settled(Append(s, e), idle)
<1> DEFINE t == Append(s, e)
<1>1. Len(s) \in Nat /\ Len(t) = Len(s) + 1 /\ t[Len(s) + 1] = e
  BY Appended
<1>2. Settled(t, e.tool)
  BY SettledAppends
<1> HIDE DEF t
<1> SUFFICES ASSUME NEW i \in 1..Len(t), t[i].type = "TOOL_STARTED"
             PROVE  \E j \in 1..Len(t) : i < j /\ t[j].tool = t[i].tool /\ t[j].type \in ToolEnds
  BY DEF Settled, t
<1>3. CASE t[i].tool = e.tool
  <2>1. i # Len(s) + 1
    BY <1>1 DEF ToolEnds
  <2>2. i < Len(s) + 1 /\ Len(s) + 1 \in 1..Len(t)
    BY <1>1, <2>1
  <2>3. QED
    BY <1>1, <1>3, <2>2
<1>4. CASE t[i].tool # e.tool
  BY <1>2, <1>4 DEF Settled
<1>5. QED
  BY <1>3, <1>4

\* The last verification stays the last unless there is a new one, which is the last then.
LEMMA VerifiedAppends ==
  ASSUME NEW s \in Seq(Entries), NEW e \in Entries, NEW flag,
         IF e.type = "VERIFICATION" THEN e.saysFailed = flag ELSE LastVerified(s, flag)
  PROVE  LastVerified(Append(s, e), flag)
<1> DEFINE t == Append(s, e)
<1>1. /\ Len(s) \in Nat /\ Len(t) = Len(s) + 1 /\ t[Len(s) + 1] = e
      /\ \A i \in 1..Len(s) : t[i] = s[i]
  BY Appended
<1> HIDE DEF t
<1> SUFFICES ASSUME NEW i \in 1..Len(t), t[i].type = "VERIFICATION",
                    \A j \in 1..Len(t) : t[j].type = "VERIFICATION" => j <= i
             PROVE  t[i].saysFailed = flag
  BY DEF LastVerified, t
<1>2. CASE e.type = "VERIFICATION"
  <2>1. Len(s) + 1 \in 1..Len(t) /\ Len(s) + 1 <= i
    BY <1>1, <1>2
  <2>2. i = Len(s) + 1
    BY <1>1, <2>1
  <2>3. QED
    BY <1>1, <1>2, <2>2
<1>3. CASE e.type # "VERIFICATION"
  <2>1. i # Len(s) + 1
    BY <1>1, <1>3
  <2>2. i \in 1..Len(s) /\ t[i] = s[i]
    BY <1>1, <2>1
  <2>3. \A j \in 1..Len(s) : s[j].type = "VERIFICATION" => j <= i
    BY <1>1
  <2>4. QED
    BY <1>3, <2>2, <2>3 DEF LastVerified
<1>4. QED
  BY <1>2, <1>3

\* No tool is called what the agent is when it is in none.
LEMMA NoToolStates ==
  \A idle \in {"waiting", "working", "completing", "done"} :
    idle \notin Tools /\ idle # Checklist!NoTool
  BY ListsAssumption DEF Checklist!NoTool

\* With the agent in no tool, none is owed an end.
LEMMA SettledForAll ==
  ASSUME NEW s \in Seq(Entries), NEW idle \in {"waiting", "working", "completing", "done"},
         Settled(s, idle), NEW busy
  PROVE  Settled(s, busy)
<1>1. \A i \in 1..Len(s) : s[i].tool \in Tools \cup {Checklist!NoTool}
  <2>1. \A i \in 1..Len(s) : s[i] \in Entries
    OBVIOUS
  <2>2. \A e \in Entries : e.tool \in Tools \cup {Checklist!NoTool}
    BY DEF Entries, Checklist!Entries
  <2>3. QED
    BY <2>1, <2>2
<1>2. \A i \in 1..Len(s) : s[i].tool # idle
  BY <1>1, NoToolStates
<1>3. QED
  BY <1>2 DEF Settled

\* What is published are entries.
LEMMA PlainEntries ==
  \A type \in Checklist!Types : Checklist!Plain(type) \in Entries /\ Checklist!Plain(type).type = type
  BY DEF Entries, Checklist!Entries, Checklist!Plain, Checklist!Entry

\* The same of the entries with a tool or a verdict.
LEMMA ToolEntries ==
  \A type \in Checklist!Types, tool \in Tools \cup {Checklist!NoTool}, saysFailed \in BOOLEAN :
    /\ Checklist!Entry(type, tool, saysFailed) \in Entries
    /\ Checklist!Entry(type, tool, saysFailed).type = type
    /\ Checklist!Entry(type, tool, saysFailed).tool = tool
    /\ Checklist!Entry(type, tool, saysFailed).saysFailed = saysFailed
  BY DEF Entries, Checklist!Entries, Checklist!Entry

\* What the Server owes is no verification and no tool's.
LEMMA FromServerKinds ==
  /\ Checklist!FromServer \subseteq Entries
  /\ \A e \in Checklist!FromServer : e.type # "VERIFICATION" /\ e.type # "TOOL_STARTED"
  BY PlainEntries DEF Checklist!FromServer, Checklist!Types

\* The table only grows: the page's side of the types is not disturbed.
LEMMA TrailGrows ==
  ASSUME TrailTyped, ListTyped, NEW e \in Entries, Checklist!Publish(e),
         UNCHANGED <<sent, activity, missed, slips>>
  PROVE  /\ trail' = Append(trail, e) /\ trail' \in Seq(Entries) /\ Len(trail') <= MaxEvents
         /\ ListTyped'
<1>1. /\ trail \in Seq(Entries) /\ Len(trail) \in Nat /\ MaxEvents \in Nat
      /\ Len(trail) < MaxEvents /\ trail' = Append(trail, e)
  BY Bounds DEF TrailTyped, Checklist!Publish
<1>2. trail' \in Seq(Entries) /\ Len(trail') = Len(trail) + 1
  BY <1>1, Appended
<1>3. \A i \in 1..Len(activity) : activity[i] \in 1..Len(trail')
  BY <1>1, <1>2 DEF ListTyped
<1>4. activity \in Seq(1..Len(trail'))
  <2>1. activity \in Seq(1..Len(trail)) /\ 1..Len(trail) \subseteq 1..Len(trail')
    BY <1>1, <1>2 DEF ListTyped
  <2>2. QED
    BY <2>1
<1>5. sent \in 0..Len(trail')
  BY <1>1, <1>2 DEF ListTyped
<1>6. QED
  BY <1>1, <1>2, <1>4, <1>5 DEF ListTyped
-------------------------------------------------------------------------------
\* An entry that is published later than its row changed, or at once: it starts no tool,
\* and a verification completes the mission.
LEMMA PublishKeeps ==
  ASSUME ChecklistInv, NEW e \in Entries, Checklist!Publish(e), e.type # "TOOL_STARTED",
         e.type = "VERIFICATION" => agent = "completing" /\ e.saysFailed = goalSaysFailed,
         owed' = owed \ {e},
         UNCHANGED <<agent, missionStatus, goalSaysFailed, sent, activity, missed, slips>>
  PROVE  ChecklistInv'
<1>1. TrailTyped /\ ListTyped /\ OwedKinds /\ RunInv
  BY DEF ChecklistInv
<1>2. /\ trail' = Append(trail, e) /\ trail' \in Seq(Entries) /\ Len(trail') <= MaxEvents
      /\ ListTyped'
  BY <1>1, TrailGrows
<1>3. trail \in Seq(Entries)
  BY <1>1 DEF TrailTyped
<1>4. TrailTyped' /\ OwedKinds'
  BY <1>1, <1>2 DEF TrailTyped, OwedKinds
<1>5. Settled(trail, agent) => Settled(trail', agent)
  BY <1>2, <1>3, SettledAppends
<1>6. ASSUME \/ agent = "completing" /\ \A f \in owed' : f.type # "VERIFICATION"
             \/ missionStatus = "Completed"
      PROVE  LastVerified(trail', goalSaysFailed)
  <2>1. CASE e.type = "VERIFICATION"
    BY <1>2, <1>3, <2>1, VerifiedAppends
  <2>2. CASE e.type # "VERIFICATION"
    <3>1. (\A f \in owed' : f.type # "VERIFICATION") => \A f \in owed : f.type # "VERIFICATION"
      BY <2>2
    <3>2. LastVerified(trail, goalSaysFailed)
      BY <1>1, <1>6, <3>1 DEF RunInv
    <3>3. QED
      BY <1>2, <1>3, <2>2, <3>2, VerifiedAppends
  <2>3. QED
    BY <2>1, <2>2
<1>7. RunInv'
  BY <1>1, <1>5, <1>6 DEF RunInv
<1>8. QED
  BY <1>2, <1>4, <1>7 DEF ChecklistInv

\* A change of the status owes an entry to the table.
LEMMA OwingKeeps ==
  ASSUME ChecklistInv, NEW status, NEW e \in Entries, Checklist!Owing(status, e)
  PROVE  /\ missionStatus' = status /\ owed' = owed \cup {e} /\ owed' \subseteq Entries
         /\ UNCHANGED <<trail, sent, activity, missed, slips>>
  BY DEF Checklist!Owing, Checklist!list, ChecklistInv, TrailTyped

\* The page's side: what is behind each position of the list.
LEMMA AppendContinues ==
  ASSUME NEW a \in Seq(Nat), NEW n \in Nat, Continuous(a, n)
  PROVE  Continuous(Append(a, n + 1), n + 1) /\ Continuous(Append(a, n + 1), n)
<1> DEFINE t == Append(a, n + 1)
<1>1. /\ Len(a) \in Nat /\ Len(t) = Len(a) + 1 /\ t[Len(a) + 1] = n + 1
      /\ \A i \in 1..Len(a) : t[i] = a[i] /\ a[i] \in Nat
  BY Appended
<1> HIDE DEF t
<1>2. ASSUME NEW i \in 1..Len(t), NEW q \in t[i]..(n + 1)
      PROVE  \E j \in i..Len(t) : t[j] = q
  <2>1. CASE q = n + 1
    BY <1>1, <2>1
  <2>2. CASE q # n + 1
    <3>1. i \in 1..Len(a) /\ t[i] = a[i]
      <4>1. i # Len(a) + 1
        BY <1>1, <2>2
      <4>2. QED
        BY <1>1, <4>1
    <3>2. q \in a[i]..n
      BY <1>1, <2>2, <3>1
    <3>3. PICK j \in i..Len(a) : a[j] = q
      BY <3>1, <3>2 DEF Continuous
    <3>4. j \in i..Len(t) /\ t[j] = a[j]
      BY <1>1, <3>1, <3>3
    <3>5. QED
      BY <3>3, <3>4
  <2>3. QED
    BY <2>1, <2>2
<1>3. \A i \in 1..Len(t) : \A q \in t[i]..n : q \in t[i]..(n + 1)
  <2>1. \A i \in 1..Len(t) : t[i] \in Nat
    <3>1. ASSUME NEW i \in 1..Len(t) PROVE t[i] \in Nat
      <4>1. CASE i = Len(a) + 1
        BY <1>1, <4>1
      <4>2. CASE i # Len(a) + 1
        BY <1>1, <4>2
      <4>3. QED
        BY <4>1, <4>2
    <3>2. QED
      BY <3>1
  <2>2. QED
    BY <2>1
<1>4. QED
  BY <1>2, <1>3 DEF Continuous, t

\* The oldest may fall off.
LEMMA TailContinues ==
  ASSUME NEW a \in Seq(Nat), a # <<>>, NEW n \in Nat, Continuous(a, n)
  PROVE  Continuous(Tail(a), n)
<1> DEFINE t == Tail(a)
<1>1. /\ Len(a) \in Nat /\ Len(a) > 0 /\ Len(t) = Len(a) - 1
      /\ \A i \in 1..Len(t) : t[i] = a[i + 1]
  OBVIOUS
<1> HIDE DEF t
<1>2. ASSUME NEW i \in 1..Len(t), NEW q \in t[i]..n PROVE \E j \in i..Len(t) : t[j] = q
  <2>1. i + 1 \in 1..Len(a) /\ t[i] = a[i + 1]
    BY <1>1
  <2>2. PICK j \in (i + 1)..Len(a) : a[j] = q
    BY <2>1 DEF Continuous
  <2>3. j - 1 \in i..Len(t) /\ j - 1 \in 1..Len(t) /\ (j - 1) + 1 = j
    BY <1>1, <2>2
  <2>4. t[j - 1] = a[(j - 1) + 1]
    BY <1>1, <2>3
  <2>5. QED
    BY <2>2, <2>3, <2>4
<1>3. QED
  BY <1>2 DEF Continuous, t

\* A streamed entry, sent for good or once more, is the newest; what is left of the list
\* stays behind it.
LEMMA StreamKeeps ==
  ASSUME ListTyped, trail \in Seq(Entries), Checklist!Stream
  PROVE  /\ sent + 1 \in 1..Len(trail) /\ sent \in Nat
         /\ activity' \in Seq(1..Len(trail)) /\ Len(activity') <= Limit
         /\ Continuous(activity, sent) => Continuous(activity', sent + 1) /\ Continuous(activity', sent)
<1> DEFINE all == 1..Len(trail)
           e   == sent + 1
<1>1. /\ Len(trail) \in Nat /\ sent \in Nat /\ sent < Len(trail) /\ Limit \in Nat /\ Limit >= 1
      /\ activity \in Seq(all) /\ Len(activity) \in Nat /\ Len(activity) <= Limit
  BY Bounds DEF ListTyped, Checklist!Stream
<1>2. e \in all /\ all \subseteq Nat
  BY <1>1
<1>3. activity \in Seq(Nat)
  BY <1>1, <1>2
<1> HIDE DEF all
<1>4. CASE Len(activity) < Limit
  <2>1. activity' = Append(activity, e)
    BY <1>4 DEF Checklist!Stream
  <2> HIDE DEF e
  <2>2. activity' \in Seq(all) /\ Len(activity') = Len(activity) + 1
    BY <1>1, <1>2, <2>1, Appended
  <2>3. Len(activity') <= Limit
    BY <1>1, <1>4, <2>2
  <2>4. QED
    BY <1>1, <1>2, <1>3, <2>1, <2>2, <2>3, AppendContinues DEF all, e
<1>5. CASE ~(Len(activity) < Limit)
  <2> DEFINE rest == Tail(activity)
  <2>1. activity' = Append(rest, e) /\ activity # <<>>
    BY <1>1, <1>5 DEF Checklist!Stream
  <2>2. rest \in Seq(all) /\ rest \in Seq(Nat) /\ Len(rest) = Len(activity) - 1
    BY <1>1, <1>3, <2>1
  <2>3. Continuous(activity, sent) => Continuous(rest, sent)
    BY <1>1, <1>3, <2>1, TailContinues
  <2> HIDE DEF e, rest
  <2>4. activity' \in Seq(all) /\ Len(activity') = Len(rest) + 1
    BY <1>2, <2>1, <2>2, Appended
  <2>5. Len(activity') <= Limit
    BY <1>1, <1>5, <2>2, <2>4
  <2>6. QED
    BY <1>1, <1>2, <2>1, <2>2, <2>3, <2>4, <2>5, AppendContinues DEF all, e
<1>6. QED
  BY <1>4, <1>5

\* An answer is a stretch of the table up to the moment it was read: it has all that is
\* newer than its oldest entry, up to the last one that was sent if it is no older.
LEMMA RefreshKeeps ==
  ASSUME ListTyped, trail \in Seq(Entries), NEW n \in 0..Len(trail), NEW room,
         room = IF n < Limit THEN n ELSE Limit,
         activity' = [i \in 1..room |-> n - room + i], missed' = (n < sent),
         UNCHANGED <<trail, sent, slips>>
  PROVE  ListTyped' /\ (~missed' => Continuous(activity', sent'))
<1>1. Len(trail) \in Nat /\ Limit \in Nat /\ sent \in 0..Len(trail) /\ room \in 0..n /\ room <= Limit
  BY Bounds DEF ListTyped
<1>2. /\ Len(activity') = room
      /\ \A i \in 1..room : activity'[i] = n - room + i /\ activity'[i] \in 1..Len(trail)
  BY <1>1
<1>3. activity' \in Seq(1..Len(trail))
  BY <1>1, <1>2
<1>4. ListTyped'
  BY <1>1, <1>2, <1>3 DEF ListTyped
<1>5. ASSUME ~(n < sent), NEW i \in 1..Len(activity'), NEW q \in activity'[i]..sent
      PROVE  \E j \in i..Len(activity') : activity'[j] = q
  <2>1. activity'[i] = n - room + i /\ i \in 1..room
    BY <1>2, <1>5
  <2>2. q \in Nat /\ q <= n /\ n - room + i <= q
    BY <1>1, <1>5, <2>1
  <2>3. q - (n - room) \in i..room /\ q - (n - room) \in 1..room
    BY <1>1, <2>1, <2>2
  <2>4. activity'[q - (n - room)] = n - room + (q - (n - room))
    BY <1>2, <2>3
  <2>5. n - room + (q - (n - room)) = q
    BY <1>1, <2>2
  <2>6. QED
    BY <1>2, <2>3, <2>4, <2>5
<1>6. ~missed' => ~(n < sent)
  OBVIOUS
<1>7. ~(n < sent) => Continuous(activity', sent)
  BY <1>5 DEF Continuous
<1>8. QED
  BY <1>4, <1>6, <1>7

\* Every step of the worker, the Server and the page keeps the invariant.
LEMMA ChecklistKept == ChecklistInv /\ [Checklist!Next]_checklistVars => ChecklistInv'
<1> SUFFICES ASSUME ChecklistInv, [Checklist!Next]_checklistVars PROVE ChecklistInv'
  OBVIOUS
<1>1. /\ TrailTyped /\ ListTyped /\ OwedKinds /\ RunInv
      /\ trail \in Seq(Entries) /\ owed \subseteq Entries
      /\ ~missed => Continuous(activity, sent)
  BY DEF ChecklistInv, TrailTyped
<1>2. ASSUME TrailTyped', OwedKinds', RunInv', UNCHANGED <<trail, sent, activity, missed, slips>>
      PROVE  ChecklistInv'
  BY <1>1, <1>2 DEF ChecklistInv, ListTyped
<1>3. ASSUME NEW e \in owed, Checklist!Published(e) PROVE ChecklistInv'
  BY <1>1, <1>3, PublishKeeps DEF Checklist!Published, Checklist!list, OwedKinds
<1>4. CASE Checklist!Claimed
  <2> DEFINE e == Checklist!Plain("MISSION_STARTED")
  <2>1. /\ agent = "waiting" /\ agent' = "working" /\ missionStatus = "Created"
        /\ Checklist!Owing("Running", e) /\ goalSaysFailed' = goalSaysFailed
    BY <1>4 DEF Checklist!Claimed
  <2>2. e \in Entries /\ e.type = "MISSION_STARTED"
    BY PlainEntries DEF Checklist!Types
  <2> HIDE DEF e
  <2>3. /\ missionStatus' = "Running" /\ owed' = owed \cup {e} /\ owed' \subseteq Entries
        /\ UNCHANGED <<trail, sent, activity, missed, slips>>
    BY <2>1, <2>2, OwingKeeps
  <2>4. TrailTyped' /\ OwedKinds'
    BY <1>1, <2>1, <2>2, <2>3 DEF TrailTyped, OwedKinds, Checklist!Status
  <2>5. Settled(trail, "waiting")
    BY <1>1, <2>1 DEF RunInv
  <2>6. Settled(trail, "working")
    BY <1>1, <2>5, SettledForAll
  <2>7. RunInv'
    BY <2>1, <2>3, <2>6 DEF RunInv
  <2>8. QED
    BY <1>2, <2>3, <2>4, <2>7
<1>5. ASSUME NEW tool \in Tools, Checklist!ToolStarts(tool) PROVE ChecklistInv'
  <2> DEFINE e == Checklist!Entry("TOOL_STARTED", tool, FALSE)
  <2>1. /\ agent = "working" /\ agent' = tool /\ Checklist!GoesOn /\ Checklist!Publish(e)
        /\ UNCHANGED <<missionStatus, goalSaysFailed, owed, sent, activity, missed, slips>>
    BY <1>5 DEF Checklist!ToolStarts, Checklist!list
  <2>2. e \in Entries /\ e.type = "TOOL_STARTED" /\ e.tool = tool
    <3>1. "TOOL_STARTED" \in Checklist!Types /\ tool \in Tools \cup {Checklist!NoTool}
      BY DEF Checklist!Types, Checklist!ToolTypes
    <3>2. QED
      BY <3>1, ToolEntries
  <2> HIDE DEF e
  <2>3. missionStatus # "Completed" /\ Settled(trail, tool)
    BY <1>1, <2>1, SettledForAll DEF RunInv
  <2>4. /\ trail' = Append(trail, e) /\ trail' \in Seq(Entries) /\ Len(trail') <= MaxEvents
        /\ ListTyped'
    BY <1>1, <2>1, <2>2, TrailGrows
  <2>5. Settled(trail', tool)
    BY <1>1, <2>2, <2>3, <2>4, SettledAppends
  <2>6. tool \notin {"waiting", "working", "completing", "done"}
    BY NoToolStates
  <2>7. TrailTyped' /\ OwedKinds' /\ RunInv'
    <3>1. \A f \in owed : f.type # "VERIFICATION"
      BY <1>1, <2>1 DEF OwedKinds
    <3>2. QED
      BY <1>1, <2>1, <2>3, <2>4, <2>5, <2>6, <3>1 DEF TrailTyped, OwedKinds, RunInv
  <2>8. QED
    BY <1>1, <2>1, <2>4, <2>7 DEF ChecklistInv
<1>6. CASE Checklist!ToolEnds
  <2>1. PICK type \in {"TOOL_COMPLETED", "TOOL_FAILED"} :
          Checklist!Publish(Checklist!Entry(type, agent, FALSE))
    BY <1>6 DEF Checklist!ToolEnds
  <2> DEFINE e == Checklist!Entry(type, agent, FALSE)
  <2>2. /\ agent \in Tools /\ agent' = "working" /\ Checklist!Publish(e)
        /\ UNCHANGED <<missionStatus, goalSaysFailed, owed, sent, activity, missed, slips>>
    BY <1>6, <2>1 DEF Checklist!ToolEnds, Checklist!list
  <2>3. e \in Entries /\ e.type \in ToolEnds /\ e.tool = agent
    <3>1. type \in Checklist!Types /\ type \in ToolEnds /\ agent \in Tools \cup {Checklist!NoTool}
      BY <2>2 DEF ToolEnds, Checklist!Types, Checklist!ToolTypes
    <3>2. QED
      BY <3>1, ToolEntries
  <2> HIDE DEF e
  <2>4. agent \notin {"waiting", "working", "completing", "done"}
    BY <2>2, NoToolStates
  <2>5. missionStatus # "Completed" /\ Settled(trail, agent)
    BY <1>1, <2>4 DEF RunInv
  <2>6. /\ trail' = Append(trail, e) /\ trail' \in Seq(Entries) /\ Len(trail') <= MaxEvents
        /\ ListTyped'
    BY <1>1, <2>2, <2>3, TrailGrows
  <2>7. Settled(trail', "working")
    BY <1>1, <2>3, <2>5, <2>6, EndSettles
  <2>8. TrailTyped' /\ OwedKinds' /\ RunInv'
    <3>1. \A f \in owed : f.type # "VERIFICATION"
      BY <1>1, <2>4 DEF OwedKinds
    <3>2. QED
      BY <1>1, <2>2, <2>5, <2>6, <2>7, <3>1 DEF TrailTyped, OwedKinds, RunInv
  <2>9. QED
    BY <1>1, <2>2, <2>6, <2>8 DEF ChecklistInv
<1>7. CASE Checklist!VerificationFails
  <2> DEFINE e == Checklist!Entry("VERIFICATION", Checklist!NoTool, TRUE)
  <2>1. /\ agent = "working" /\ Checklist!Publish(e)
        /\ UNCHANGED <<agent, missionStatus, goalSaysFailed, owed, sent, activity, missed, slips>>
    BY <1>7 DEF Checklist!VerificationFails, Checklist!process, Checklist!list
  <2>2. e \in Entries /\ e.type = "VERIFICATION"
    BY ToolEntries DEF Checklist!Types, Checklist!ToolTypes
  <2> HIDE DEF e
  <2>3. missionStatus # "Completed" /\ Settled(trail, agent)
    BY <1>1, <2>1 DEF RunInv
  <2>4. /\ trail' = Append(trail, e) /\ trail' \in Seq(Entries) /\ Len(trail') <= MaxEvents
        /\ ListTyped'
    BY <1>1, <2>1, <2>2, TrailGrows
  <2>5. Settled(trail', agent)
    BY <1>1, <2>2, <2>3, <2>4, SettledAppends
  <2>6. TrailTyped' /\ OwedKinds' /\ RunInv'
    BY <1>1, <2>1, <2>3, <2>4, <2>5 DEF TrailTyped, OwedKinds, RunInv
  <2>7. QED
    BY <1>1, <2>1, <2>4, <2>6 DEF ChecklistInv
<1>8. CASE Checklist!Verifying
  <2> DEFINE e == Checklist!Entry("VERIFICATION", Checklist!NoTool, goalSaysFailed)
  <2>1. /\ agent = "working" /\ agent' = "completing"
        /\ Checklist!Owing("Verifying", e) /\ goalSaysFailed' = goalSaysFailed
    BY <1>8 DEF Checklist!Verifying
  <2>2. e \in Entries /\ e.type = "VERIFICATION" /\ e.saysFailed = goalSaysFailed
    BY <1>1, ToolEntries DEF TrailTyped, Checklist!Types, Checklist!ToolTypes
  <2> HIDE DEF e
  <2>3. /\ missionStatus' = "Verifying" /\ owed' = owed \cup {e} /\ owed' \subseteq Entries
        /\ UNCHANGED <<trail, sent, activity, missed, slips>>
    BY <2>1, <2>2, OwingKeeps
  <2>4. TrailTyped' /\ OwedKinds'
    BY <1>1, <2>1, <2>2, <2>3 DEF TrailTyped, OwedKinds, Checklist!Status
  <2>5. Settled(trail, "completing")
    BY <1>1, <2>1, SettledForAll DEF RunInv
  <2>6. RunInv'
    BY <2>1, <2>2, <2>3, <2>5 DEF RunInv
  <2>7. QED
    BY <1>2, <2>3, <2>4, <2>6
<1>9. CASE Checklist!Completed
  <2> DEFINE e == Checklist!Plain("MISSION_COMPLETED")
  <2>1. /\ agent = "completing" /\ agent' = "done" /\ Checklist!GoesOn
        /\ Checklist!Owing("Completed", e) /\ goalSaysFailed' = goalSaysFailed
    BY <1>9 DEF Checklist!Completed
  <2>2. e \in Entries /\ e.type = "MISSION_COMPLETED"
    BY PlainEntries DEF Checklist!Types
  <2> HIDE DEF e
  <2>3. /\ missionStatus' = "Completed" /\ owed' = owed \cup {e} /\ owed' \subseteq Entries
        /\ UNCHANGED <<trail, sent, activity, missed, slips>>
    BY <2>1, <2>2, OwingKeeps
  <2>4. \A f \in owed : f.type # "VERIFICATION"
    BY <2>1, FromServerKinds DEF Checklist!GoesOn
  <2>5. TrailTyped' /\ OwedKinds'
    BY <1>1, <2>1, <2>2, <2>3, <2>4 DEF TrailTyped, OwedKinds, Checklist!Status
  <2>6. Settled(trail, "done") /\ LastVerified(trail, goalSaysFailed)
    BY <1>1, <2>1, <2>4, SettledForAll DEF RunInv
  <2>7. RunInv'
    BY <2>1, <2>3, <2>6 DEF RunInv
  <2>8. QED
    BY <1>2, <2>3, <2>5, <2>7
<1>10. CASE Checklist!RunEnds
  <2>1. /\ agent \notin {"waiting", "done"} /\ agent' = "done"
        /\ UNCHANGED <<goalSaysFailed, trail, sent, activity, missed, slips>>
    BY <1>10 DEF Checklist!RunEnds, Checklist!list
  <2>2. missionStatus # "Completed"
    BY <1>1, <2>1 DEF RunInv
  <2>3. /\ missionStatus' \in Checklist!Status /\ missionStatus' # "Completed"
        /\ \/ owed' = owed \cap Checklist!FromServer
           \/ owed' = (owed \cap Checklist!FromServer) \cup {Checklist!Plain("MISSION_FAILED")}
    BY <1>1, <1>10, <2>2 DEF Checklist!RunEnds, TrailTyped, Checklist!Status
  <2>4. /\ Checklist!Plain("MISSION_FAILED") \in Entries
        /\ Checklist!Plain("MISSION_FAILED").type = "MISSION_FAILED"
    BY PlainEntries DEF Checklist!Types
  <2>5. TrailTyped'
    BY <1>1, <2>1, <2>3, <2>4 DEF TrailTyped
  <2>6. OwedKinds'
    BY <2>3, <2>4, FromServerKinds DEF OwedKinds
  <2>7. RunInv'
    BY <2>1, <2>3 DEF RunInv
  <2>8. QED
    BY <1>2, <2>1, <2>5, <2>6, <2>7
<1>11. CASE Checklist!CancelledByUser
  <2> DEFINE e == Checklist!Plain("MISSION_CANCELLED")
  <2>1. Checklist!Owing("Cancelled", e) /\ UNCHANGED <<agent, goalSaysFailed>>
    BY <1>11 DEF Checklist!CancelledByUser
  <2>2. e \in Entries /\ e.type = "MISSION_CANCELLED"
    BY PlainEntries DEF Checklist!Types
  <2> HIDE DEF e
  <2>3. /\ missionStatus' = "Cancelled" /\ owed' = owed \cup {e} /\ owed' \subseteq Entries
        /\ UNCHANGED <<trail, sent, activity, missed, slips>>
    BY <2>1, <2>2, OwingKeeps
  <2>4. TrailTyped' /\ OwedKinds'
    BY <1>1, <2>1, <2>2, <2>3 DEF TrailTyped, OwedKinds, Checklist!Status
  <2>5. RunInv'
    <3>1. \A f \in owed : f \in owed'
      BY <2>3
    <3>2. QED
      BY <1>1, <2>1, <2>3, <3>1 DEF RunInv
  <2>6. QED
    BY <1>2, <2>3, <2>4, <2>5
<1>12. ASSUME UNCHANGED <<agent, missionStatus, goalSaysFailed, owed, trail>>, ListTyped',
              ~missed' => Continuous(activity', sent')
       PROVE  ChecklistInv'
  BY <1>1, <1>12 DEF ChecklistInv, TrailTyped, OwedKinds, RunInv
<1>13. CASE Checklist!Streamed \/ Checklist!Repeated
  <2>1. /\ Checklist!Stream /\ sent' \in {sent, sent + 1} /\ slips' \in 0..MaxSlips
        /\ UNCHANGED <<agent, missionStatus, goalSaysFailed, owed, trail, missed>>
    <3>1. slips \in 0..MaxSlips /\ MaxSlips \in Nat
      BY <1>1, Bounds DEF ListTyped
    <3>2. QED
      BY <1>13, <3>1 DEF Checklist!Streamed, Checklist!Repeated, Checklist!Slip, Checklist!Stream,
        Checklist!process
  <2>2. /\ sent + 1 \in 1..Len(trail) /\ sent \in Nat
        /\ activity' \in Seq(1..Len(trail)) /\ Len(activity') <= Limit
        /\ Continuous(activity, sent) => Continuous(activity', sent + 1) /\ Continuous(activity', sent)
    BY <1>1, <2>1, StreamKeeps
  <2>3. Len(trail) \in Nat
    BY <1>1
  <2>4. sent' \in 0..Len(trail)
    BY <2>1, <2>2, <2>3
  <2>5. ListTyped'
    BY <1>1, <2>1, <2>2, <2>4 DEF ListTyped
  <2>6. ~missed' => Continuous(activity', sent')
    BY <1>1, <2>1, <2>2
  <2>7. QED
    BY <1>12, <2>1, <2>5, <2>6
<1>14. CASE Checklist!Overlooked
  <2>1. /\ sent < Len(trail) /\ sent' = sent + 1 /\ missed' = TRUE
        /\ slips < MaxSlips /\ slips' = slips + 1 /\ activity' = activity
        /\ UNCHANGED <<agent, missionStatus, goalSaysFailed, owed, trail>>
    BY <1>14 DEF Checklist!Overlooked, Checklist!Slip, Checklist!process
  <2>2. Len(trail) \in Nat /\ MaxSlips \in Nat /\ sent \in 0..Len(trail) /\ slips \in 0..MaxSlips
    BY <1>1, Bounds DEF ListTyped
  <2>3. sent' \in 0..Len(trail) /\ slips' \in 0..MaxSlips
    BY <2>1, <2>2
  <2>4. ListTyped'
    BY <1>1, <2>1, <2>3 DEF ListTyped
  <2>5. QED
    BY <1>12, <2>1, <2>4
<1>15. CASE Checklist!Refreshed
  <2>1. PICK n \in 0..Len(trail) :
          LET room == IF n < Limit THEN n ELSE Limit IN
          /\ activity' = [i \in 1..room |-> n - room + i] /\ missed' = (n < sent)
          /\ UNCHANGED <<agent, missionStatus, goalSaysFailed, owed, trail, sent, slips>>
    BY <1>15 DEF Checklist!Refreshed, Checklist!process
  <2>2. ListTyped' /\ (~missed' => Continuous(activity', sent'))
    BY <1>1, <2>1, RefreshKeeps
  <2>3. QED
    BY <1>12, <2>1, <2>2
<1>16. CASE Checklist!Crowded
  <2>1. /\ activity # <<>> /\ activity' = Tail(activity)
        /\ UNCHANGED <<agent, missionStatus, goalSaysFailed, owed, trail, sent, missed, slips>>
    BY <1>16 DEF Checklist!Crowded, Checklist!process
  <2>2. /\ activity \in Seq(1..Len(trail)) /\ Len(activity) <= Limit /\ Len(activity) \in Nat
        /\ Limit \in Nat /\ Len(trail) \in Nat /\ sent \in Nat
    BY <1>1, Bounds DEF ListTyped
  <2>3. activity' \in Seq(1..Len(trail)) /\ Len(activity') = Len(activity) - 1
    BY <2>1, <2>2
  <2>4. Len(activity') <= Limit
    BY <2>2, <2>3
  <2>5. ListTyped'
    BY <1>1, <2>1, <2>3, <2>4 DEF ListTyped
  <2>6. activity \in Seq(Nat)
    <3>1. 1..Len(trail) \subseteq Nat
      BY <2>2
    <3>2. QED
      BY <2>2, <3>1
  <2>7. ~missed' => Continuous(activity', sent')
    BY <1>1, <2>1, <2>2, <2>6, TailContinues
  <2>8. QED
    BY <1>12, <2>1, <2>5, <2>7
<1>17. CASE UNCHANGED checklistVars
  BY <1>1, <1>17 DEF checklistVars, ChecklistInv, TrailTyped, ListTyped, OwedKinds, RunInv
<1>18. QED
  BY <1>3, <1>4, <1>5, <1>6, <1>7, <1>8, <1>9, <1>10, <1>11, <1>13, <1>14, <1>15, <1>16, <1>17
     DEF Checklist!Next

\* A mission that is created has run no tool.
LEMMA ChecklistStarts == Checklist!Init => ChecklistInv
<1> SUFFICES ASSUME Checklist!Init PROVE ChecklistInv
  OBVIOUS
<1> DEFINE e == Checklist!Plain("MISSION_CREATED")
<1>1. /\ agent = "waiting" /\ missionStatus = "Created" /\ goalSaysFailed \in BOOLEAN
      /\ owed = {} /\ trail = <<e>> /\ sent = 0 /\ activity = <<>> /\ missed = FALSE /\ slips = 0
  BY DEF Checklist!Init
<1>2. e \in Entries /\ e.type = "MISSION_CREATED"
  BY PlainEntries DEF Checklist!Types
<1> HIDE DEF e
<1>3. trail \in Seq(Entries) /\ Len(trail) = 1 /\ trail[1] = e
  BY <1>1, <1>2
<1>4. Limit >= 0 /\ MaxEvents >= 1 /\ MaxSlips \in Nat
  BY Bounds
<1>5. TrailTyped
  BY <1>1, <1>3, <1>4 DEF TrailTyped, Checklist!Status
<1>6. ListTyped
  <2>1. /\ <<>> \in Seq(1..Len(trail)) /\ Len(<<>>) = 0 /\ 0 <= Limit
        /\ 0 \in 0..Len(trail) /\ 0 \in 0..MaxSlips
    BY <1>3, <1>4
  <2>2. QED
    BY <1>1, <2>1 DEF ListTyped
<1>7. OwedKinds /\ RunInv
  BY <1>1, <1>2, <1>3 DEF OwedKinds, RunInv, Settled
<1>8. Continuous(activity, sent)
  BY <1>1 DEF Continuous
<1>9. QED
  BY <1>5, <1>6, <1>7, <1>8 DEF ChecklistInv

\* Each part of the checklist has at most one step of a key.
LEMMA StepsOfParts ==
  ASSUME ChecklistInv
  PROVE  /\ \A s \in Checklist!CreatedStep : s = [key |-> "created", stage |-> "done"]
         /\ \A s \in Checklist!PlanningStep : s.key = "planning"
         /\ \A s, t \in Checklist!PlanningStep : s = t
         /\ \A s \in Checklist!ToolSteps :
              \E name \in Tools : s = [key |-> name, stage |-> Checklist!ToolStage(name)]
         /\ \A s \in Checklist!VerifyStep : s.key = "verify"
         /\ \A s, t \in Checklist!VerifyStep : s = t
         /\ \A s \in Checklist!EndStep : s.key = "done" /\ s.stage # "active"
         /\ \A s, t \in Checklist!EndStep : s = t
<1> USE DEF Checklist!Step, Checklist!NoStep
<1>1. \A s \in Checklist!CreatedStep : s = [key |-> "created", stage |-> "done"]
  BY DEF Checklist!CreatedStep
<1>2. /\ \A s \in Checklist!PlanningStep : s.key = "planning"
      /\ \A s, t \in Checklist!PlanningStep : s = t
  BY DEF Checklist!PlanningStep
<1>3. \A s \in Checklist!ToolSteps :
        \E name \in Tools : s = [key |-> name, stage |-> Checklist!ToolStage(name)]
  BY DEF Checklist!ToolSteps
<1>4. \A s \in Checklist!VerifyStep :
        \E i \in Checklist!Verifications :
          /\ \A other \in Checklist!Verifications : other <= i
          /\ s = [key |-> "verify", stage |-> Checklist!VerifyStage(Checklist!Shown(i))]
  BY DEF Checklist!VerifyStep
<1>5. \A i \in Checklist!Verifications : i \in Nat
  BY DEF Checklist!Verifications
<1>6. /\ \A s \in Checklist!VerifyStep : s.key = "verify"
      /\ \A s, t \in Checklist!VerifyStep : s = t
  BY <1>4, <1>5
<1>7. /\ \A s \in Checklist!EndStep : s.key = "done" /\ s.stage # "active"
      /\ \A s, t \in Checklist!EndStep : s = t
  BY DEF Checklist!EndStep
<1>8. QED
  BY <1>1, <1>2, <1>3, <1>6, <1>7

\* Where a step comes from is told by its key.
LEMMA KeysTell ==
  ASSUME ChecklistInv, NEW s \in Checklist!Checklist
  PROVE  \/ s = [key |-> "starting", stage |-> "active"] /\ Checklist!Checklist = {s}
         \/ s \in Checklist!CreatedStep /\ s.key = "created"
         \/ s \in Checklist!PlanningStep /\ s.key = "planning"
         \/ s \in Checklist!ToolSteps /\ s.key \in Tools
         \/ s \in Checklist!VerifyStep /\ s.key = "verify"
         \/ s \in Checklist!EndStep /\ s.key = "done"
<1> DEFINE steps == Checklist!CreatedStep \cup Checklist!PlanningStep \cup Checklist!ToolSteps
                      \cup Checklist!VerifyStep \cup Checklist!EndStep
<1>1. Checklist!Checklist = IF steps = {} THEN Checklist!Step("starting", "active") ELSE steps
  BY DEF Checklist!Checklist
<1>2. CASE steps = {}
  BY <1>1, <1>2 DEF Checklist!Step
<1>3. CASE steps # {}
  <2>1. s \in steps
    BY <1>1, <1>3
  <2>2. CASE s \in Checklist!ToolSteps
    BY <2>2, StepsOfParts
  <2>3. CASE s \notin Checklist!ToolSteps
    BY <2>1, <2>3, StepsOfParts
  <2>4. QED
    BY <2>2, <2>3
<1>4. QED
  BY <1>2, <1>3

\* React tells the rows apart.
LEMMA KeysDiffer == ChecklistInv => \A s, t \in Checklist!Checklist : s.key = t.key => s = t
<1> SUFFICES ASSUME ChecklistInv, NEW s \in Checklist!Checklist, NEW t \in Checklist!Checklist,
                    s.key = t.key
             PROVE  s = t
  OBVIOUS
<1>1. {"created", "planning", "verify", "done", "starting"} \cap Tools = {}
  BY ListsAssumption
<1>2. CASE s = [key |-> "starting", stage |-> "active"] /\ Checklist!Checklist = {s}
  BY <1>2
<1>3. CASE s \in Checklist!CreatedStep /\ s.key = "created"
  BY <1>1, <1>3, KeysTell, StepsOfParts
<1>4. CASE s \in Checklist!PlanningStep /\ s.key = "planning"
  BY <1>1, <1>4, KeysTell, StepsOfParts
<1>5. CASE s \in Checklist!ToolSteps /\ s.key \in Tools
  <2>1. t \in Checklist!ToolSteps
    BY <1>1, <1>5, KeysTell
  <2>2. QED
    BY <1>5, <2>1, StepsOfParts
<1>6. CASE s \in Checklist!VerifyStep /\ s.key = "verify"
  BY <1>1, <1>6, KeysTell, StepsOfParts
<1>7. CASE s \in Checklist!EndStep /\ s.key = "done"
  BY <1>1, <1>7, KeysTell, StepsOfParts
<1>8. QED
  BY <1>2, <1>3, <1>4, <1>5, <1>6, <1>7, KeysTell

\* The type invariant follows, with the keys.
LEMMA ChecklistTyped == ChecklistInv => Checklist!TypeOK
  BY KeysDiffer DEF ChecklistInv, TrailTyped, ListTyped, Entries, Checklist!TypeOK

\* The entries behind a position of the list are in it, and what they are.
LEMMA ListTells ==
  ASSUME ListTyped, Continuous(activity, Len(trail)), NEW i \in 1..Len(activity)
  PROVE  /\ activity[i] \in 1..Len(trail) /\ Checklist!Shown(i) = trail[activity[i]]
         /\ \A q \in activity[i]..Len(trail) :
              \E j \in i..Len(activity) :
                j \in 1..Len(activity) /\ activity[j] = q /\ Checklist!Shown(j) = trail[q]
<1>1. activity[i] \in 1..Len(trail)
  BY DEF ListTyped
<1>2. ASSUME NEW q \in activity[i]..Len(trail)
      PROVE  \E j \in i..Len(activity) :
               j \in 1..Len(activity) /\ activity[j] = q /\ Checklist!Shown(j) = trail[q]
  <2>1. PICK j \in i..Len(activity) : activity[j] = q
    BY DEF Continuous
  <2>2. j \in 1..Len(activity)
    BY DEF ListTyped
  <2>3. QED
    BY <2>1, <2>2 DEF Checklist!Shown
<1>3. QED
  BY <1>1, <1>2 DEF Checklist!Shown

\* A mission that is completed, and that the page has been told of, has no step in progress.
LEMMA CardSettled == ChecklistInv => Checklist!CompletedCard
<1> SUFFICES ASSUME ChecklistInv, missionStatus = "Completed", sent = Len(trail), ~missed,
                    NEW s \in Checklist!Drawn
             PROVE  /\ s.stage # "active"
                    /\ s.key = "verify" /\ ~goalSaysFailed => s.stage = "done"
  BY DEF Checklist!CompletedCard
<1>1. missionStatus \in Checklist!Terminal
  BY DEF Checklist!Terminal
<1>2. /\ agent = "done" /\ Settled(trail, "done") /\ LastVerified(trail, goalSaysFailed)
      /\ ListTyped /\ Continuous(activity, Len(trail)) /\ Len(trail) \in Nat
  BY DEF ChecklistInv, RunInv, TrailTyped
<1>3. s \in Checklist!Checklist /\ \E t \in Checklist!Checklist : t # s
  BY DEF Checklist!Drawn
<1>4. {"created", "planning", "verify", "done", "starting"} \cap Tools = {}
  BY ListsAssumption
<1>5. CASE s = [key |-> "starting", stage |-> "active"] /\ Checklist!Checklist = {s}
  BY <1>3, <1>5
<1>6. CASE s \in Checklist!CreatedStep /\ s.key = "created"
  BY <1>6, StepsOfParts
<1>7. CASE s \in Checklist!PlanningStep /\ s.key = "planning"
  <2>1. s.stage = "done"
    BY <1>1, <1>7 DEF Checklist!PlanningStep, Checklist!Step, Checklist!NoStep
  <2>2. QED
    BY <1>7, <2>1
<1>8. CASE s \in Checklist!ToolSteps /\ s.key \in Tools
  <2>1. PICK name \in Tools :
          /\ \E type \in Checklist!ToolTypes : Checklist!ToolHappened(type, name)
          /\ s = [key |-> name, stage |-> Checklist!ToolStage(name)]
    BY <1>8 DEF Checklist!ToolSteps, Checklist!Step
  <2>2. \/ Checklist!ToolHappened("TOOL_FAILED", name)
        \/ Checklist!ToolHappened("TOOL_COMPLETED", name)
    <3>1. SUFFICES ASSUME Checklist!ToolHappened("TOOL_STARTED", name)
                   PROVE  \E j \in 1..Len(activity) :
                            Checklist!Shown(j).type \in ToolEnds /\ Checklist!Shown(j).tool = name
      BY <2>1, <3>1 DEF Checklist!ToolHappened, Checklist!ToolTypes, ToolEnds
    <3>2. PICK i \in 1..Len(activity) :
            Checklist!Shown(i).type = "TOOL_STARTED" /\ Checklist!Shown(i).tool = name
      BY <3>1 DEF Checklist!ToolHappened
    <3>3. name # "done"
      BY <1>4
    <3>4. /\ activity[i] \in 1..Len(trail)
          /\ trail[activity[i]].type = "TOOL_STARTED" /\ trail[activity[i]].tool = name
      BY <1>2, <3>2, ListTells
    <3>5. PICK q \in 1..Len(trail) :
            activity[i] < q /\ trail[q].tool = name /\ trail[q].type \in ToolEnds
      BY <1>2, <3>3, <3>4 DEF Settled
    <3>6. q \in activity[i]..Len(trail)
      BY <1>2, <3>4, <3>5
    <3>7. PICK j \in 1..Len(activity) : Checklist!Shown(j) = trail[q]
      BY <1>2, <3>6, ListTells
    <3>8. QED
      BY <3>5, <3>7
  <2>3. s.stage # "active"
    BY <2>1, <2>2 DEF Checklist!ToolStage
  <2>4. QED
    BY <1>4, <1>8, <2>3
<1>9. CASE s \in Checklist!VerifyStep /\ s.key = "verify"
  <2>1. PICK i \in Checklist!Verifications :
          /\ \A other \in Checklist!Verifications : other <= i
          /\ s = [key |-> "verify", stage |-> Checklist!VerifyStage(Checklist!Shown(i))]
    BY <1>9 DEF Checklist!VerifyStep, Checklist!Step
  <2>2. i \in 1..Len(activity) /\ Checklist!Shown(i).type = "VERIFICATION"
    BY <2>1 DEF Checklist!Verifications
  <2>3. activity[i] \in 1..Len(trail) /\ Checklist!Shown(i) = trail[activity[i]]
    BY <1>2, <2>2, ListTells
  <2>4. ASSUME NEW q \in 1..Len(trail), trail[q].type = "VERIFICATION" PROVE q <= activity[i]
    <3>1. SUFFICES ASSUME ~(q <= activity[i]) PROVE FALSE
      OBVIOUS
    <3>2. q \in activity[i]..Len(trail)
      BY <1>2, <2>3, <3>1
    <3>3. PICK j \in i..Len(activity) :
            j \in 1..Len(activity) /\ activity[j] = q /\ Checklist!Shown(j) = trail[q]
      BY <1>2, <2>2, <3>2, ListTells
    <3>4. j <= i
      BY <2>1, <2>4, <3>3 DEF Checklist!Verifications
    <3>5. j = i
      BY <2>2, <3>3, <3>4
    <3>6. QED
      BY <2>3, <3>1, <3>3, <3>5
  <2>5. Checklist!Shown(i).saysFailed = goalSaysFailed
    BY <1>2, <2>2, <2>3, <2>4 DEF LastVerified
  <2>6. QED
    BY <1>1, <2>1, <2>5 DEF Checklist!VerifyStage
<1>10. CASE s \in Checklist!EndStep /\ s.key = "done"
  BY <1>10, StepsOfParts
<1>11. QED
  BY <1>3, <1>5, <1>6, <1>7, <1>8, <1>9, <1>10, KeysTell
-------------------------------------------------------------------------------
(* The home page: types. *)

\* With what LiveStoreProofs shows of the results and the bubble.
HomeInv == HomeTypeOK /\ ReadOnce /\ ThinkingIsTrue

\* The bubble holds a reply.
LEMMA ReplyTyped ==
  ASSUME NEW text \in {"none", "thinking", "answer"}, NEW of \in 0..MaxChats,
         ShowChatReply(text, of)
  PROVE  reply' \in Reply /\ replyTimer' \in BOOLEAN
  BY DEF ShowChatReply, Reply

\* Every turn of the page keeps its types.
LEMMA HomeKept == HomeInv /\ [HomeNext]_homeVars => HomeInv'
<1> SUFFICES ASSUME HomeInv, [HomeNext]_homeVars PROVE HomeInv'
  OBVIOUS
<1>1. ReadOnce' /\ ThinkingIsTrue'
  BY ReadOnceStep, ThinkingStep DEF HomeInv
<1>2. spoken' \subseteq Ids /\ said' \in [Ids -> 0..2]
  BY <1>1 DEF ReadOnce
<1>3. MaxChats \in Nat /\ MaxCreates \in Nat /\ NoReply \in Reply
  BY RequestsAssumption DEF NoReply, Reply
<1>4. HomeTypeOK
  BY DEF HomeInv
<1>5. /\ missions \in [Ids -> Shown] /\ voiceReplies \in BOOLEAN /\ command \in BOOLEAN
      /\ reply \in Reply /\ replyTimer \in BOOLEAN
      /\ chats \subseteq 1..chatsAsked /\ chatsAsked \in 0..MaxChats
      /\ creating \in BOOLEAN /\ creates \in 0..MaxCreates
  BY <1>4 DEF HomeTypeOK
<1>6. SUFFICES HomeTypeOK'
  BY <1>1 DEF HomeInv
<1> USE DEF results, chat, making
<1>7. CASE ListChanges
  BY <1>2, <1>5, <1>7 DEF ListChanges, HomeTypeOK
<1>8. CASE ToggleVoiceReplies
  BY <1>2, <1>5, <1>8 DEF ToggleVoiceReplies, HomeTypeOK
<1>9. CASE Reopen
  <2>1. /\ reply' = NoReply /\ replyTimer' \in BOOLEAN /\ command' \in BOOLEAN
        /\ chats' = {} /\ creating' \in BOOLEAN /\ creates' = 0
        /\ UNCHANGED <<missions, voiceReplies, chatsAsked>>
    BY <1>9 DEF Reopen
  <2>2. QED
    BY <1>2, <1>3, <1>5, <2>1 DEF HomeTypeOK
<1>10. CASE ReplyTimer
  BY <1>2, <1>3, <1>5, <1>10 DEF ReplyTimer, HomeTypeOK
<1>11. CASE Dismiss
  BY <1>2, <1>3, <1>5, <1>11 DEF Dismiss, HomeTypeOK
<1>12. CASE Type
  BY <1>2, <1>5, <1>12 DEF Type, HomeTypeOK
<1>13. ASSUME NEW typed \in BOOLEAN, MakeMission(typed) PROVE HomeTypeOK'
  BY <1>2, <1>3, <1>5, <1>13 DEF MakeMission, CreateMission, HomeTypeOK
<1>14. ASSUME NEW traits, HandleInput(traits) PROVE HomeTypeOK'
  <2>1. CASE AnswerLocally
    <3>1. reply' \in Reply /\ replyTimer' \in BOOLEAN
      BY <1>3, <2>1, ReplyTyped DEF AnswerLocally
    <3>2. QED
      BY <1>2, <1>5, <2>1, <3>1 DEF AnswerLocally, HomeTypeOK
  <2>2. CASE AskChat
    <3>1. chatsAsked' = chatsAsked + 1 /\ chatsAsked' \in 0..MaxChats /\ chats' = chats \cup {chatsAsked'}
      BY <1>3, <1>5, <2>2 DEF AskChat
    <3>2. chats' \subseteq 1..chatsAsked'
      BY <1>3, <1>5, <3>1
    <3>3. reply' \in Reply /\ replyTimer' \in BOOLEAN
      BY <2>2, <3>1, ReplyTyped DEF AskChat
    <3>4. UNCHANGED <<missions, voiceReplies, creating, creates>> /\ command' \in BOOLEAN
      BY <2>2 DEF AskChat
    <3>5. QED
      BY <1>2, <1>5, <3>1, <3>2, <3>3, <3>4 DEF HomeTypeOK
  <2>3. CASE MakeMission(TRUE)
    BY <1>13, <2>3
  <2>4. QED
    BY <1>14, <2>1, <2>2, <2>3 DEF HandleInput
<1>15. CASE CreateEnds
  <2>1. creates > 0 /\ creates' = creates - 1 /\ creates' \in 0..MaxCreates
    BY <1>3, <1>5, <1>15 DEF CreateEnds
  <2>2. creating' \in BOOLEAN
    BY <1>15 DEF CreateEnds
  <2>3. command' \in BOOLEAN
    BY <1>5, <1>15 DEF CreateEnds
  <2>4. QED
    BY <1>2, <1>5, <1>15, <2>1, <2>2, <2>3 DEF CreateEnds, HomeTypeOK
<1>16. ASSUME NEW c \in 1..MaxChats, ChatAnswered(c) PROVE HomeTypeOK'
  <2>1. reply' \in Reply /\ replyTimer' \in BOOLEAN
    BY <1>3, <1>16, ReplyTyped DEF ChatAnswered
  <2>2. chats' \subseteq 1..chatsAsked
    BY <1>5, <1>16 DEF ChatAnswered
  <2>3. QED
    BY <1>2, <1>5, <1>16, <2>1, <2>2 DEF ChatAnswered, HomeTypeOK
<1>17. CASE UNCHANGED homeVars
  BY <1>2, <1>5, <1>17 DEF homeVars, HomeTypeOK
<1>18. QED
  BY <1>5, <1>7, <1>8, <1>9, <1>10, <1>11, <1>12, <1>13, <1>14, <1>15, <1>16, <1>17
    DEF HomeNext, Submit, Heard, QuickAction

\* An opened page has read and asked nothing.
LEMMA HomeStarts == HomeInit => HomeInv
<1> SUFFICES ASSUME HomeInit PROVE HomeInv
  OBVIOUS
<1>1. MaxChats \in Nat /\ MaxCreates \in Nat /\ NoReply \in Reply /\ NoReply.text = "none"
  BY RequestsAssumption DEF NoReply, Reply
<1>2. /\ missions \in [Ids -> Shown] /\ spoken = {} /\ said \in [Ids -> 0..2]
      /\ \A m \in Ids : said[m] = 0
  BY DEF HomeInit, Shown
<1>3. HomeTypeOK
  <2>1. /\ voiceReplies \in BOOLEAN /\ command \in BOOLEAN /\ replyTimer \in BOOLEAN
        /\ creating \in BOOLEAN
    BY DEF HomeInit
  <2>2. reply \in Reply /\ chats = {} /\ chatsAsked = 0 /\ creates = 0
    BY <1>1 DEF HomeInit
  <2>3. chats \subseteq 1..chatsAsked /\ chatsAsked \in 0..MaxChats /\ creates \in 0..MaxCreates
    BY <1>1, <2>2
  <2>4. QED
    BY <1>2, <2>1, <2>2, <2>3 DEF HomeTypeOK
<1>4. QED
  BY <1>1, <1>2, <1>3 DEF HomeInit, HomeInv, ReadOnce, ThinkingIsTrue
-------------------------------------------------------------------------------
(* The data pages. *)

\* What an answer on its way holds: on the system page, the one that is heeded is no
\* older than what is shown; elsewhere the refresh that follows a change is in progress
\* and will hold the change.
Following ==
  /\ \A i \in Pages!Slots : requests[i].stage = "answered" => requests[i].got \in 0..data
  /\ page \in Pages!Guarded =>
       /\ ~behind /\ edit = "none" /\ latest # Pages!EditSlot
       /\ requests[latest].stage = "answered" => requests[latest].got >= shown
  /\ edit = "refreshing" =>
       /\ requests[Pages!EditSlot].stage # "free"
       /\ requests[Pages!EditSlot].stage = "answered" => requests[Pages!EditSlot].got >= mine
  /\ edit # "refreshing" =>
       /\ requests[Pages!EditSlot].stage = "free"
       /\ shown >= mine \/ behind

\* The data pages' types, with that.
PagesInv == Pages!TypeOK /\ Following

\* The continuation of a refresh keeps it: the one step that may take back what a page
\* has shown.
LEMMA AppliedKeeps ==
  ASSUME PagesInv, NEW i \in Pages!Slots, Pages!Applied(i)
  PROVE  PagesInv'
<1> USE DEF Pages!Slots, Pages!EditSlot, Pages!PollSlot, Pages!Nothing, Pages!Free
<1>1. /\ requests \in [1..3 -> Pages!Request] /\ data \in 0..MaxData /\ latest \in 1..3
      /\ shown \in {-1} \cup 0..data /\ mine \in {-1} \cup 0..data /\ behind \in BOOLEAN
      /\ MaxData \in Nat
  BY RequestsAssumption DEF PagesInv, Pages!TypeOK
<1>2. /\ requests[i].stage \in {"answered", "failed"}
      /\ requests' = [requests EXCEPT ![i] = Pages!Free]
      /\ UNCHANGED <<page, data, latest, mine, failures>>
      /\ edit' = IF i = 2 THEN "none" ELSE edit
  BY DEF Pages!Applied
<1>3. requests' \in [1..3 -> Pages!Request] /\ requests'[i].stage = "free"
  BY <1>1, <1>2 DEF Pages!Request
<1>4. \A j \in 1..3 : j # i => requests'[j] = requests[j]
  BY <1>1, <1>2
<1>5. CASE ~Pages!Heeded(i)
  <2>1. UNCHANGED <<shown, error, behind>> /\ page \in Pages!Guarded /\ i # latest
    BY <1>5 DEF Pages!Applied, Pages!Heeded
  <2>2. edit = "none"
    BY <2>1 DEF PagesInv, Following
  <2>3. Pages!TypeOK'
    BY <1>1, <1>2, <1>3, <2>1, <2>2 DEF PagesInv, Pages!TypeOK
  <2>4. Following'
    BY <1>1, <1>2, <1>3, <1>4, <2>1, <2>2 DEF PagesInv, Following
  <2>5. QED
    BY <2>3, <2>4 DEF PagesInv
<1>6. CASE Pages!Heeded(i) /\ requests[i].stage = "answered"
  <2>1. /\ shown' = requests[i].got /\ error' = FALSE
        /\ behind' = (behind \/ requests[i].got < shown)
    BY <1>6 DEF Pages!Applied
  <2>2. requests[i].got \in 0..data
    BY <1>6 DEF PagesInv, Following
  <2>3. behind' \in BOOLEAN /\ (behind \/ requests[i].got < shown => behind')
    BY <1>1, <2>1
  <2>4. Pages!TypeOK'
    BY <1>1, <1>2, <1>3, <2>1, <2>2, <2>3 DEF PagesInv, Pages!TypeOK
  <2>5. ASSUME page \in Pages!Guarded PROVE ~behind' /\ requests[i].got >= shown /\ i = latest
    BY <1>1, <1>6, <2>1, <2>2, <2>5 DEF PagesInv, Following, Pages!Heeded
  <2>6. shown' >= mine' \/ behind' \/ edit' = "refreshing"
    <3>1. CASE i = 2
      BY <1>1, <1>2, <1>6, <2>1, <2>2, <3>1 DEF PagesInv, Following
    <3>2. CASE i # 2 /\ edit # "refreshing"
      <4>1. shown >= mine \/ behind
        BY <3>2 DEF PagesInv, Following
      <4>2. shown' = requests[i].got /\ mine' = mine
        BY <1>2, <2>1
      <4>3. CASE requests[i].got < shown \/ behind
        BY <2>3, <4>3
      <4>4. CASE ~(requests[i].got < shown \/ behind)
        BY <1>1, <2>2, <4>1, <4>2, <4>4
      <4>5. QED
        BY <4>3, <4>4
    <3>3. QED
      BY <1>2, <3>1, <3>2
  <2>7. Following'
    BY <1>1, <1>2, <1>3, <1>4, <2>1, <2>5, <2>6 DEF PagesInv, Following
  <2>8. QED
    BY <2>4, <2>7 DEF PagesInv
<1>7. CASE Pages!Heeded(i) /\ requests[i].stage = "failed"
  <2>1. /\ error' = (page # "/settings") /\ shown' = shown
        /\ behind' = (behind \/ i = 2)
    BY <1>7 DEF Pages!Applied
  <2>2. behind' \in BOOLEAN /\ (behind \/ i = 2 => behind')
    BY <1>1, <2>1
  <2>3. Pages!TypeOK'
    BY <1>1, <1>2, <1>3, <2>1, <2>2 DEF PagesInv, Pages!TypeOK
  <2>4. page \in Pages!Guarded => i # 2
    BY <1>7 DEF PagesInv, Following, Pages!Heeded
  <2>5. ASSUME page \in Pages!Guarded PROVE ~behind' /\ i = latest /\ edit = "none"
    BY <1>7, <2>1, <2>4, <2>5 DEF PagesInv, Following, Pages!Heeded
  <2>6. shown' >= mine' \/ behind' \/ edit' = "refreshing"
    BY <1>2, <2>1, <2>2 DEF PagesInv, Following
  <2>7. Following'
    BY <1>1, <1>2, <1>3, <1>4, <2>1, <2>5, <2>6 DEF PagesInv, Following
  <2>8. QED
    BY <2>3, <2>7 DEF PagesInv
<1>8. QED
  BY <1>2, <1>5, <1>6, <1>7

\* Every other step of the page, the server and the user keeps it.
LEMMA PagesKept == PagesInv /\ [Pages!Next]_pagesVars => PagesInv'
<1> SUFFICES ASSUME PagesInv, [Pages!Next]_pagesVars PROVE PagesInv'
  OBVIOUS
<1> USE RequestsAssumption, LiveAssumption DEF PagesInv, Pages!TypeOK, Following, Pages!Request, Pages!Slots,
      Pages!EditSlot, Pages!PollSlot, Pages!Guarded, Pages!Nothing, Pages!Free, Pages!Asked
<1>1. CASE Pages!DataChanges
  BY <1>1 DEF Pages!DataChanges
<1>2. CASE Pages!RefreshClicked
  BY <1>2 DEF Pages!RefreshClicked, Pages!Ask
<1>3. CASE Pages!Poll
  BY <1>3 DEF Pages!Poll, Pages!Ask, Pages!Polled
<1>4. CASE Pages!EditSent
  BY <1>4 DEF Pages!EditSent, Pages!Edited
<1>5. CASE Pages!EditDone
  <2>1. /\ edit = "sent" /\ data < MaxData /\ data' = data + 1 /\ mine' = data + 1
        /\ UNCHANGED <<page, error, behind, failures>>
    BY <1>5 DEF Pages!EditDone
  <2>2. CASE page \in Pages!Answering
    <3>1. shown' = data + 1 /\ edit' = "none" /\ UNCHANGED <<requests, latest>>
      BY <1>5, <2>2 DEF Pages!EditDone
    <3>2. QED
      BY <2>1, <3>1
  <2>3. CASE page \notin Pages!Answering
    <3>1. /\ requests[2].stage = "free" /\ requests' = [requests EXCEPT ![2] = Pages!Asked]
          /\ latest' = 2 /\ edit' = "refreshing" /\ shown' = shown
      BY <1>5, <2>3 DEF Pages!EditDone, Pages!Ask
    <3>2. QED
      BY <2>1, <3>1
  <2>4. QED
    BY <2>2, <2>3
<1>6. CASE Pages!EditFails
  BY <1>6 DEF Pages!EditFails
<1>7. ASSUME NEW to \in Pages!Routes, Pages!Navigate(to) PROVE PagesInv'
  <2>1. /\ page' = to /\ requests' = Pages!Mounted /\ latest' = 1
        /\ shown' = -1 /\ error' = FALSE /\ edit' = "none" /\ mine' = -1 /\ behind' = FALSE
        /\ UNCHANGED <<data, failures>>
    BY <1>7 DEF Pages!Navigate
  <2>2. /\ requests'[2].stage = "free" /\ requests'[1].stage = "asked"
        /\ requests' \in [1..3 -> Pages!Request]
        /\ \A i \in 1..3 : requests'[i].stage # "answered"
    BY <2>1 DEF Pages!Mounted
  <2>3. Pages!TypeOK'
    <3>1. page' \in Pages!Routes /\ data' \in 0..MaxData /\ failures' \in 0..MaxFaults
      BY <2>1
    <3>2. latest' \in 1..3 /\ shown' \in {-1} /\ mine' \in {-1}
      BY <2>1
    <3>3. error' \in BOOLEAN /\ behind' \in BOOLEAN /\ edit' \in {"none", "sent", "refreshing"}
      BY <2>1
    <3>4. QED
      BY <2>2, <3>1, <3>2, <3>3
  <2>4. Following'
    BY <2>1, <2>2
  <2>5. QED
    BY <2>3, <2>4
<1>8. ASSUME NEW i \in Pages!Slots, Pages!Answered(i) PROVE PagesInv'
  BY <1>8 DEF Pages!Answered
<1>9. ASSUME NEW i \in Pages!Slots, Pages!Failed(i) PROVE PagesInv'
  BY <1>9 DEF Pages!Failed
<1>10. CASE UNCHANGED pagesVars
  BY <1>10 DEF pagesVars
<1>11. QED
  BY <1>1, <1>2, <1>3, <1>4, <1>5, <1>6, <1>7, <1>8, <1>9, <1>10, AppliedKeeps
    DEF Pages!Next, Pages!EditEnds, Pages!RequestEnds
-------------------------------------------------------------------------------
(* The control surface: all parts. *)

\* The invariants of all parts: one that rests keeps its own as well.
SurfaceInv ==
  Core!TypeOK /\ LoopInv /\ ArrivalInv /\ ChecklistInv /\ HomeInv /\ PagesInv

\* Nothing has been heard.
LEMMA AudioStarts == Core!Init => Core!TypeOK
<1> SUFFICES ASSUME Core!Init PROVE Core!TypeOK
  OBVIOUS
<1>1. /\ source = "rest" /\ analysis = Core!Fresh /\ envelope = 0 /\ elapsed = 0
      /\ smoothed = 0 /\ drive = 0 /\ looping = FALSE
  BY DEF Core!Init
<1>2. /\ \A band \in {"amp", "low", "mid", "high"} : analysis[band] = 0
      /\ analysis.below = 0 /\ analysis.silence = -1
  BY <1>1 DEF Core!Fresh, Core!Infinite
<1>3. analysis.speech \in BOOLEAN
  BY <1>1 DEF Core!Fresh
<1>4. /\ \A band \in {"amp", "low", "mid", "high"} : analysis[band] \in 0..100
      /\ analysis.below \in 0..11
  BY <1>2
<1>5. analysis.silence \in {-1} \cup 0..MaxSilence
  BY <1>2
<1>6. /\ envelope \in 0..100 /\ smoothed \in 0..100 /\ drive \in 0..100 /\ elapsed \in 0..10
      /\ source \in {"mic", "speech", "rest"}
  BY <1>1
<1>7. looping \in BOOLEAN
  BY <1>1
<1>8. QED
  BY <1>3, <1>4, <1>5, <1>6, <1>7
    DEF Core!TypeOK, Core!Unit, Core!SpeechHold, Core!Infinite, Core!HalfSecond

\* A mounted page has asked; a resting one has nothing in progress.
LEMMA PagesStart == Pages!Init \/ PagesRest => PagesInv
<1> SUFFICES ASSUME Pages!Init \/ PagesRest PROVE PagesInv
  OBVIOUS
<1>1. /\ page \in Pages!Routes /\ data = 0 /\ latest = 1 /\ shown = -1 /\ error = FALSE
      /\ edit = "none" /\ mine = -1 /\ behind = FALSE /\ failures = 0
  BY DEF Pages!Init, PagesRest, Pages!PollSlot, Pages!Nothing, Pages!Routes, Pages!Polled,
    Pages!Edited
<1>2. /\ requests \in [1..3 -> Pages!Request] /\ requests[2].stage = "free"
      /\ \A i \in 1..3 : requests[i].stage # "answered"
  <2>1. requests \in {Pages!Mounted, [i \in 1..3 |-> Pages!Free]}
    BY DEF Pages!Init, PagesRest, Pages!Slots
  <2>2. Pages!Free \in Pages!Request /\ Pages!Asked \in Pages!Request
    BY DEF Pages!Free, Pages!Asked, Pages!Request, Pages!Nothing
  <2>3. Pages!Free.stage = "free" /\ Pages!Asked.stage = "asked"
    BY DEF Pages!Free, Pages!Asked
  <2>4. Pages!Mounted = [i \in 1..3 |-> IF i = 1 THEN Pages!Asked ELSE Pages!Free]
    BY DEF Pages!Mounted, Pages!Slots, Pages!PollSlot
  <2>5. QED
    BY <2>1, <2>2, <2>3, <2>4
<1>3. MaxData \in Nat /\ MaxFaults \in Nat
  BY RequestsAssumption, LiveAssumption
<1>4. Pages!TypeOK
  <2>1. error \in BOOLEAN /\ behind \in BOOLEAN
    BY <1>1
  <2>2. data \in 0..MaxData /\ failures \in 0..MaxFaults /\ latest \in 1..3
    BY <1>1, <1>3
  <2>3. shown \in {-1} \cup 0..data /\ mine \in {-1} \cup 0..data
        /\ edit \in {"none", "sent", "refreshing"}
    BY <1>1
  <2>4. QED
    BY <1>1, <1>2, <2>1, <2>2, <2>3 DEF Pages!TypeOK, Pages!Slots, Pages!Nothing
<1>5. Following
  BY <1>1, <1>2 DEF Following, Pages!Slots, Pages!EditSlot
<1>6. QED
  BY <1>4, <1>5 DEF PagesInv

\* Every part starts in its invariant, whether it runs or rests.
LEMMA SurfaceStarts == SurfaceInit => SurfaceInv
<1> SUFFICES ASSUME SurfaceInit PROVE SurfaceInv
  OBVIOUS
<1>1. /\ Core!Init /\ Core!CoreInit /\ Init /\ Checklist!Init /\ HomeInit
      /\ Pages!Init \/ PagesRest
  BY DEF SurfaceInit, CoreRests, LiveRests, ChecklistRests, HomeRests
<1>2. QED
  BY <1>1, AudioStarts, CoreStarts, ArrivalStarts, ChecklistStarts, HomeStarts, PagesStart
    DEF SurfaceInv

\* A step of one part is a step of that part and none of the others.
LEMMA SurfaceKept == SurfaceInv /\ [SurfaceNext]_surfaceVars => SurfaceInv'
<1> SUFFICES ASSUME SurfaceInv, [SurfaceNext]_surfaceVars PROVE SurfaceInv'
  OBVIOUS
<1>1. /\ [Core!Next]_audioVars /\ [Core!CoreNext]_coreVars /\ [Next]_vars
      /\ [Checklist!Next]_checklistVars /\ [HomeNext]_homeVars /\ [Pages!Next]_pagesVars
  <2>1. CASE AudioStep
    BY <2>1 DEF AudioStep
  <2>2. CASE CoreStep
    BY <2>2 DEF CoreStep
  <2>3. CASE LiveStep
    BY <2>3 DEF LiveStep
  <2>4. CASE ChecklistStep
    BY <2>4 DEF ChecklistStep
  <2>5. CASE HomeStep
    BY <2>5 DEF HomeStep
  <2>6. CASE PagesStep
    BY <2>6 DEF PagesStep
  <2>7. CASE UNCHANGED surfaceVars
    BY <2>7 DEF surfaceVars
  <2>8. QED
    BY <2>1, <2>2, <2>3, <2>4, <2>5, <2>6, <2>7 DEF SurfaceNext
<1>2. QED
  BY <1>1, AudioKept, LoopKept, ArrivalKept, ChecklistKept, HomeKept, PagesKept DEF SurfaceInv

\* So the surface never leaves them.
LEMMA SurfaceHolds == SurfaceSpec => []SurfaceInv
  BY SurfaceStarts, SurfaceKept, PTL DEF SurfaceSpec

\* For any tables, lists, sockets, missions and bounds: every part keeps its types, the
\* levels the renderer is given stay between 0 and 1, no list of activity outgrows its
\* limit, and every row of a checklist has a key of its own.
THEOREM SurfaceIsTyped == SurfaceSpec => []SurfaceTypeOK
<1>1. SurfaceInv => SurfaceTypeOK
  BY ChecklistTyped DEF SurfaceInv, LoopInv, ArrivalInv, LiveInv, HomeInv, PagesInv, SurfaceTypeOK
<1>2. QED
  BY <1>1, SurfaceHolds, PTL

\* However a core is hidden, shown, given other states and disposed of, a visible one
\* has one frame scheduled, and never a second loop unless it was mounted in a hidden tab.
THEOREM CoreHasOneLoop == SurfaceSpec => []OneFrameLoop
<1>1. SurfaceInv => OneFrameLoop
  BY DEF SurfaceInv, LoopInv, OneFrameLoop
<1>2. QED
  BY <1>1, SurfaceHolds, PTL

\* Between whatever rows of the table the knobs are, to and from an error too, and however
\* loud it is: hotspots, particles, wisps, the inner energy and the halo up to its last
\* coloured stop stay on the canvas.  The strands do while no error shakes them, and then
\* overshoot it by less than a quarter; the fading rim of the halo is excepted.
THEOREM RingAlwaysFits == SurfaceSpec => []RingFits
<1>1. SurfaceInv => RingFits
  BY Rings DEF SurfaceInv, LoopInv, RingFits
<1>2. QED
  BY <1>1, SurfaceHolds, PTL

\* For any tools, any limit of the list and any number of slips: when the page has been
\* told of all entries of a completed mission and its list lacks none that is newer than
\* its oldest, nothing on the card is in progress and the last verification is shown,
\* although any answer, however old, may have replaced the list on the way.
THEOREM CompletedCardIsSettled == SurfaceSpec => []CompletedCard
<1>1. SurfaceInv => CompletedCard
  BY CardSettled DEF SurfaceInv, CompletedCard
<1>2. QED
  BY <1>1, SurfaceHolds, PTL

\* In whatever order the answers come: the system page does not go back, and the other
\* pages show their own change when they have followed it to the end.
THEOREM PagesStayFresh == SurfaceSpec => []FreshPages
<1>1. SurfaceInv => FreshPages
  BY DEF SurfaceInv, PagesInv, Following, FreshPages, Pages!FreshPages
<1>2. QED
  BY <1>1, SurfaceHolds, PTL

\* On the surface too there is one socket or a timer, an announced state is shown, waits to
\* be published or handled, or is on its way unless the page has missed it, a result is read
\* out once, and the bubble does not say "thinking" of a question that is answered.
THEOREM SurfaceKeepsLists ==
  SurfaceSpec => [](OneConnection /\ ChangesArrive /\ SpokenOnce /\ ThinkingIsTrue)
<1>1. SurfaceInv => OneConnection /\ ChangesArrive /\ SpokenOnce /\ ThinkingIsTrue
  BY DEF SurfaceInv, ArrivalInv, LiveInv, Connected, HomeInv, ReadOnce, SpokenOnce
<1>2. QED
  BY <1>1, SurfaceHolds, PTL
===============================================================================
