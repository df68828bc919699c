------------------------------- MODULE NeuralCore -------------------------------
(***************************************************************************)
(* The Neural Core: the table of lib/neural.ts and the renderer of         *)
(* KeraiNeuralCore.tsx, a frame loop of its own that is started, hidden,   *)
(* shown and disposed under React, moves every knob toward the row of the  *)
(* current state, and draws the ring from the knobs and the audio drive.   *)
(*                                                                         *)
(* A smoothed value lies between the values it has been approaching: the   *)
(* model keeps the rows (mix) and the loudest drive (loud) it may still be *)
(* a mixture of, and the highest spike, and judges the drawing by its      *)
(* worst case.  Lengths are in thousandths of half the canvas.  Colours    *)
(* cannot fail and are left out.                                           *)
(***************************************************************************)
EXTENDS AudioAnalyzer, FiniteSetsExt

CONSTANT CoreStates      \* the states the core is given

VARIABLES
  running,     \* the effect has not been cleaned up
  hidden,      \* document.hidden, and the effect's copy of it
  bornHidden,  \* history: the core was mounted in a hidden tab
  pending,     \* the frame whose id raf holds is scheduled
  strays,      \* scheduled frames whose ids have been overwritten
  state,       \* the prop: the state to show
  rawLoud,     \* the prop: the drive is at its loudest (not at rest)
  prevState,   \* the state of the last frame
  chaosSpike,  \* bound of the jolt of an error, in percent
  mix,         \* rows the interpolated knobs are a mixture of
  loud         \* bound of the smoothed drive, in percent

loop     == <<running, hidden, bornHidden, pending, strays>>
props    == <<state, rawLoud>>
knobs    == <<prevState, chaosSpike, mix, loud>>
coreVars == <<loop, props, knobs>>

\* One row of the table: the knobs the shape depends on.
Params(radius, pulse, spread, deformation, particleSpread) ==
  [radius |-> radius, radiusPulse |-> pulse, strandSpread |-> spread,
   deformation |-> deformation, particleSpread |-> particleSpread]

Idle            == Params(420, 14, 110, 50, 200)
Listening       == Params(440, 30, 150, 160, 300)
Thinking        == Params(380, 12, 100, 60, 180)
Speaking        == Params(450, 40, 160, 180, 320)
Executing       == Params(450, 25, 140, 100, 280)
WaitingApproval == Params(400, 20, 100, 40, 160)
Error           == Params(390, 18, 90, 120, 140)

NEURAL_STATES ==
  [idle |-> Idle, listening |-> Listening, thinking |-> Thinking, speaking |-> Speaking,
   executing |-> Executing, waitingApproval |-> WaitingApproval, error |-> Error]

\* The calls of approachKey: particleSpread has none and keeps the idle row's value.
Approached == {"radius", "radiusPulse", "strandSpread", "deformation"}

Values(knob) ==
  {NEURAL_STATES[s][knob] : s \in IF knob \in Approached THEN mix ELSE {"idle"}}

Hi(knob) == Max(Values(knob))
Lo(knob) == Min(Values(knob))
-------------------------------------------------------------------------------
(* draw: how far from the centre each layer reaches at most. *)

Thousand == 1000
Times(a, b) == (a * b + Thousand - 1) \div Thousand
Percent(weight, p) == (weight * p + 99) \div 100

\* A mutant: a slipped decimal point.
BaseRadiusTenfold ==
  Times(Times(Hi("radius") + Hi("radiusPulse"), Thousand + Percent(850, loud)),
        Thousand + Percent(40, chaosSpike))

\* baseRadius: breathing, audio scale, and the jolt of an error.
BaseRadius ==
  Times(Times(Hi("radius") + Hi("radiusPulse"), Thousand + Percent(85, loud)),
        Thousand + Percent(40, chaosSpike))

\* buildStrand: the outermost strand where its four octaves add up.
StrandReach ==
  LET deform == Times(Hi("deformation"),
                      Thousand + Percent(1500, loud) + Percent(2200, chaosSpike))
  IN  Times(Times(Times(Times(BaseRadius, Thousand + Times(Hi("strandSpread"), 900)),
                        Thousand + deform),
                  Thousand + Percent(35, chaosSpike)), 1030)

\* Layer 5 fades from its stop at 0.8 to nothing at 2.15 radii; this is that stop.
HaloReach     == Times(BaseRadius, 250 + ((2150 - 250) * 8) \div 10)
InnerReach    == Times(BaseRadius, 1080)
HotspotReach  == Times(BaseRadius, 1050 + 420)
ParticleReach == Times(Times(BaseRadius, 520 + Hi("particleSpread")), 1070)

\* A wisp bends outward between its ends; its middle is half way to its control point.
WispReach ==
  LET ends == Times(Times(BaseRadius, 1020 + 250), Thousand + Percent(40, loud))
  IN  (ends + Times(ends, 1550) + 1) \div 2

\* arc and createRadialGradient throw on a negative radius: with the smallest
\* circle negative the frame ends in an exception.
DrawThrows == Lo("radius") < Hi("radiusPulse")
-------------------------------------------------------------------------------
CoreInit ==
  /\ running = TRUE /\ hidden \in BOOLEAN /\ bornHidden = hidden
  /\ pending = TRUE /\ strays = 0
  /\ state \in CoreStates /\ rawLoud = FALSE
  /\ prevState = state /\ chaosSpike = 0
  /\ mix = {"idle"} /\ loud = 0

\* React passes a state and a drive; whatever the last frame has seen.
SetProps ==
  /\ running
  /\ state' \in CoreStates /\ rawLoud' \in BOOLEAN
  /\ UNCHANGED <<loop, knobs>>

Audible == state \in {"listening", "speaking"}

\* The loudest drive the analyzer can send.
FullDrive == Loudest(ToDrive([amp |-> Unit, low |-> Unit, mid |-> Unit, high |-> Unit,
                              speech |-> TRUE]))

\* An error destabilizes; while it is shown the spike decays, and the bound with it
\* once the spike is gone.
Spikes ==
  IF state # prevState THEN {IF state = "error" THEN Unit ELSE 0}
  ELSE IF state = "error" THEN {chaosSpike, 0} ELSE {chaosSpike}

\* The body of frame: smooth the drive, approach the row, draw.  Smoothing either
\* still holds a share of what was before, or has arrived.
Advance ==
  LET raw == IF Audible /\ rawLoud THEN FullDrive ELSE 0 IN
  /\ prevState' = state /\ chaosSpike' \in Spikes
  /\ mix' \in {mix \cup {state}, {state}}
  /\ loud' \in {Larger(loud, raw), raw}

\* frame: the browser calls one of the scheduled frames of a visible tab.  It
\* schedules its successor last, after draw, and overwrites raf.
Frame ==
  /\ running /\ ~hidden
  /\ Advance
  /\ \/ pending /\ pending' = ~DrawThrows' /\ UNCHANGED strays
     \/ /\ strays > 0
        /\ IF DrawThrows' THEN strays' = strays - 1 /\ UNCHANGED pending
           ELSE pending' = TRUE /\ strays' = IF pending THEN strays ELSE strays - 1
  /\ UNCHANGED <<running, hidden, bornHidden, props>>

\* A frame that returns at once: the effect was cleaned up.
DeadFrame ==
  /\ ~running /\ ~hidden
  /\ \/ pending /\ pending' = FALSE /\ UNCHANGED strays
     \/ strays > 0 /\ strays' = strays - 1 /\ UNCHANGED pending
  /\ UNCHANGED <<running, hidden, bornHidden, props, knobs>>

\* A mutant: hiding the tab does not cancel the frame.
HideKeepsFrame ==
  /\ ~hidden /\ hidden' = TRUE
  /\ UNCHANGED <<running, bornHidden, pending, strays, props, knobs>>

\* onVisibility, while the listener is there; cancelAnimationFrame reaches the frame
\* raf holds.
Hide ==
  /\ ~hidden /\ hidden' = TRUE
  /\ pending' = IF running THEN FALSE ELSE pending
  /\ UNCHANGED <<running, bornHidden, strays, props, knobs>>

Show ==
  /\ hidden /\ hidden' = FALSE
  /\ IF running THEN pending' = TRUE /\ strays' = IF pending THEN strays + 1 ELSE strays
                ELSE UNCHANGED <<pending, strays>>
  /\ UNCHANGED <<running, bornHidden, props, knobs>>

\* The effect's cleanup.
Dispose ==
  /\ running /\ running' = FALSE
  /\ pending' = FALSE
  /\ UNCHANGED <<hidden, bornHidden, strays, props, knobs>>

CoreNext == SetProps \/ Frame \/ DeadFrame \/ Hide \/ Show \/ Dispose

CoreSpec == CoreInit /\ [][CoreNext]_coreVars
-------------------------------------------------------------------------------
CoreTypeOK ==
  /\ running \in BOOLEAN /\ hidden \in BOOLEAN /\ bornHidden \in BOOLEAN
  /\ pending \in BOOLEAN /\ strays \in 0..1
  /\ state \in CoreStates /\ rawLoud \in BOOLEAN /\ prevState \in CoreStates
  /\ chaosSpike \in 0..Unit /\ mix \subseteq CoreStates /\ mix # {} /\ loud \in 0..Unit

\* Hiding, showing and an exception in draw never leave the ring of a visible page
\* without a frame scheduled, and never start a second loop beside the first, except
\* in a core that was mounted in a hidden tab; a third one never.
OneFrameLoop ==
  /\ running /\ ~hidden => pending \/ strays > 0
  /\ strays = 0 \/ (bornHidden /\ strays = 1)

\* In the middle of any transition between states and at the loudest the drawing stays
\* on the canvas: hotspots, particles, wisps, the inner energy and the halo up to its last
\* colour stop always, also while an error shakes the ring; its strands while none does,
\* and otherwise they swing out by less than a quarter of half the canvas.  The halo's
\* fading rim, beyond that stop, may be cut off: it reaches 2.15 radii.
RingFits ==
  /\ \A reach \in {HaloReach, InnerReach, HotspotReach, ParticleReach, WispReach} :
       reach <= Thousand
  /\ StrandReach <= IF chaosSpike = 0 THEN Thousand ELSE Thousand + Thousand \div 4
===============================================================================
