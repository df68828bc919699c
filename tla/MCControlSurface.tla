----------------------------- MODULE MCControlSurface -----------------------------
(***************************************************************************)
(* The parts of the control surface for TLC.  They share no state a model  *)
(* of this size could relate, so an instance chooses one of them, part, at *)
(* the start and runs it on its own while the others stay at rest, in a    *)
(* state in which nothing they are owed fairness for can happen.           *)
(***************************************************************************)
EXTENDS LiveStore, HomePage, Integers

CONSTANTS Bytes, MaxSilence, CoreStates, Tools, Limit, MaxEvents, MaxSlips, MaxData

ASSUME AudioAssumption == Bytes \subseteq 0..255 /\ MaxSilence \in Nat
ASSUME CoreAssumption ==
  /\ "idle" \in CoreStates
  /\ CoreStates \subseteq {"idle", "listening", "thinking", "speaking", "executing",
                            "waitingApproval", "error"}
\* The keys of the tools' steps carry a prefix of their own, "tool-".
ASSUME ListsAssumption ==
  /\ Limit \in Nat \ {0} /\ MaxEvents \in Nat \ {0} /\ MaxSlips \in Nat
  /\ Tools \cap {"created", "planning", "verify", "done", "starting", "waiting", "working",
                 "completing", "no tool"} = {}
ASSUME RequestsAssumption == MaxChats \in Nat /\ MaxCreates \in Nat /\ MaxData \in Nat

VARIABLES
  part,
  \* AudioAnalyzer
  source, analysis, envelope, elapsed, smoothed, drive, looping,
  \* NeuralCore
  running, hidden, bornHidden, pending, strays, state, rawLoud, prevState, chaosSpike,
  mix, loud,
  \* MissionChecklist
  agent, missionStatus, goalSaysFailed, owed, trail, sent, activity, missed, slips,
  \* Pages
  page, data, requests, latest, shown, error, edit, mine, behind, failures

audioVars == <<source, analysis, envelope, elapsed, smoothed, drive, looping>>
coreVars == <<running, hidden, bornHidden, pending, strays, state, rawLoud, prevState,
  chaosSpike, mix, loud>>
checklistVars == <<agent, missionStatus, goalSaysFailed, owed, trail, sent, activity, missed, slips>>
pagesVars == <<page, data, requests, latest, shown, error, edit, mine, behind, failures>>

Core      == INSTANCE NeuralCore
Checklist == INSTANCE MissionChecklist
Pages     == INSTANCE Pages

surfaceVars == <<part, audioVars, coreVars, vars, checklistVars, homeVars, pagesVars>>

Parts == {"audio", "core", "live", "checklist", "home", "pages"}

CoreRests      == Core!CoreInit /\ hidden /\ state = "idle"
LiveRests      == Init /\ up
ChecklistRests == Checklist!Init /\ ~goalSaysFailed
HomeRests      == HomeInit /\ ~voiceReplies
PagesRest ==
  /\ page = "/models" /\ data = 0
  /\ requests = [i \in Pages!Slots |-> Pages!Free] /\ latest = Pages!PollSlot
  /\ shown = Pages!Nothing /\ error = FALSE
  /\ edit = "none" /\ mine = Pages!Nothing /\ behind = FALSE /\ failures = 0

SurfaceInit ==
  /\ part \in Parts
  /\ Core!Init
  /\ IF part = "core" THEN Core!CoreInit ELSE CoreRests
  /\ IF part = "live" THEN Init ELSE LiveRests
  /\ IF part = "checklist" THEN Checklist!Init ELSE ChecklistRests
  /\ IF part = "home" THEN HomeInit ELSE HomeRests
  /\ IF part = "pages" THEN Pages!Init ELSE PagesRest

AudioStep ==
  /\ part = "audio" /\ Core!Next
  /\ UNCHANGED <<part, coreVars, vars, checklistVars, homeVars, pagesVars>>
CoreStep ==
  /\ part = "core" /\ Core!CoreNext
  /\ UNCHANGED <<part, audioVars, vars, checklistVars, homeVars, pagesVars>>
LiveStep ==
  /\ part = "live" /\ Next
  /\ UNCHANGED <<part, audioVars, coreVars, checklistVars, homeVars, pagesVars>>
ChecklistStep ==
  /\ part = "checklist" /\ Checklist!Next
  /\ UNCHANGED <<part, audioVars, coreVars, vars, homeVars, pagesVars>>
HomeStep ==
  /\ part = "home" /\ HomeNext
  /\ UNCHANGED <<part, audioVars, coreVars, vars, checklistVars, pagesVars>>
PagesStep ==
  /\ part = "pages" /\ Pages!Next
  /\ UNCHANGED <<part, audioVars, coreVars, vars, checklistVars, homeVars>>

SurfaceNext ==
  \/ AudioStep \/ CoreStep \/ LiveStep \/ ChecklistStep \/ HomeStep \/ PagesStep

SurfaceSpec ==
  /\ SurfaceInit /\ [][SurfaceNext]_surfaceVars
  /\ Core!Fairness /\ Fairness
-------------------------------------------------------------------------------
\* The types of all parts.
SurfaceTypeOK ==
  /\ Core!TypeOK /\ Core!CoreTypeOK /\ TypeOK /\ Checklist!TypeOK
  /\ HomeTypeOK /\ Pages!TypeOK

\* With nothing heard or said the ring comes to rest (audio.ts, voice.ts).
DriveSettles == Core!DriveSettles

\* A core on a visible page has one frame loop (KeraiNeuralCore.tsx).
OneFrameLoop == Core!OneFrameLoop
\* The ring stays on the canvas in the middle of any transition between states, its
\* strands unless an error shakes them and the rim of its halo apart; while the core is
\* not the part that runs its ring is at rest.
RingFits == part = "core" => Core!RingFits

\* The card of a completed mission is settled and verified once the page knows all of
\* its entries (activity.ts, live.ts).
CompletedCard == Checklist!CompletedCard

\* Answers in any order do not take back what a page has shown (SystemPage.tsx,
\* AutomationsPage.tsx and the others).
FreshPages == Pages!FreshPages
===============================================================================
