----------------------- MODULE SqliteMissionStoreProofs -----------------------
(***************************************************************************)
(* For any finite set of missions and any set of callers: the statement-   *)
(* level store is type-correct and implements MissionLifecycle.            *)
(***************************************************************************)
EXTENDS SqliteMissionStore, FiniteSetTheorems, TLAPS

\* Every target in the transition table is a status.
LEMMA AllowedInStatus == \A s \in Status : Allowed[s] \subseteq Status
BY DEF Allowed, Status, Terminal

\* The number of creations, from which CreatedAt ranks are taken, is a natural.
LEMMA NextBirthNat == NextBirth \in Nat
<1> DEFINE S == {m \in Missions : status[m] # "Unborn"}
<1>1. IsFiniteSet(S)
  BY FiniteMissions, FS_Subset
<1>2. Cardinality(S) \in Nat
  BY <1>1, FS_CardinalityType
<1>3. QED
  BY <1>2 DEF NextBirth

\* One step of the store keeps the types.
LEMMA TypeStep == TypeOK /\ [Next]_vars => TypeOK'
<1> USE DEF TypeOK
<1> SUFFICES ASSUME TypeOK, [Next]_vars PROVE TypeOK'
  OBVIOUS
<1>1. ASSUME NEW c \in Clients, NEW m \in Missions, NEW next \in Status, CallTransition(c, m, next)
      PROVE TypeOK'
  BY <1>1 DEF CallTransition, Enter, Call, TransitionCall, Idle, Unread
<1>2. ASSUME NEW c \in Clients, NEW m \in Missions, NEW out \in Outcome \ {"none"}, CallSetResult(c, m, out)
      PROVE TypeOK'
  BY <1>2 DEF CallSetResult, Enter, Call, SetResultCall, Idle, Unread
<1>3. ASSUME NEW c \in Clients, TransitionSelect(c) PROVE TypeOK'
  <2>1. call[c] \in TransitionCall
    BY <1>3 DEF TransitionSelect, AtSelect, Call, SetResultCall, TransitionCall, Idle
  <2>2. CASE Reads(c, status[call[c].mission]) /\ IsAllowed(status[call[c].mission], call[c].write)
    <3>1. [call[c] EXCEPT !.seen = status[call[c].mission]] \in TransitionCall
      BY <2>1, <2>2 DEF TransitionCall, IsAllowed
    <3>2. QED
      BY <1>3, <2>2, <3>1 DEF TransitionSelect, Reads, Call
  <2>3. CASE Return(c)
    BY <1>3, <2>3 DEF TransitionSelect, Return, Call
  <2>4. QED
    BY <1>3, <2>2, <2>3 DEF TransitionSelect
<1>4. ASSUME NEW c \in Clients, TransitionUpdate(c) PROVE TypeOK'
  <2>1. call[c] \in TransitionCall
    BY <1>4 DEF TransitionUpdate, AtUpdate, Call, SetResultCall, TransitionCall, Idle
  <2>2. call[c].write \in RowState
    BY <2>1 DEF TransitionCall, RowState
  <2>3. QED
    BY <1>4, <2>2 DEF TransitionUpdate, Return, Call
<1>5. ASSUME NEW c \in Clients, TransitionRetry(c) PROVE TypeOK'
  <2>1. call[c] \in TransitionCall
    BY <1>5 DEF TransitionRetry, AtUpdate, Call, SetResultCall, TransitionCall, Idle
  <2>2. [call[c] EXCEPT !.seen = Unread] \in TransitionCall
    BY <2>1 DEF TransitionCall
  <2>3. QED
    BY <1>5, <2>2 DEF TransitionRetry, Reads, Call
<1>6. ASSUME NEW c \in Clients, SetResultSelect(c) PROVE TypeOK'
  <2>1. call[c] \in SetResultCall
    BY <1>6 DEF SetResultSelect, AtSelect, Call, SetResultCall, TransitionCall, Idle
  <2>2. CASE Reads(c, status[call[c].mission]) /\ status[call[c].mission] \in Status
    <3>1. [call[c] EXCEPT !.seen = status[call[c].mission]] \in SetResultCall
      BY <2>1, <2>2 DEF SetResultCall
    <3>2. QED
      BY <1>6, <2>2, <3>1 DEF SetResultSelect, Reads, Call
  <2>3. CASE Return(c)
    BY <1>6, <2>3 DEF SetResultSelect, Return, Call
  <2>4. QED
    BY <1>6, <2>2, <2>3 DEF SetResultSelect
<1>7. ASSUME NEW c \in Clients, SetResultUpdate(c) PROVE TypeOK'
  <2>1. call[c] \in SetResultCall
    BY <1>7 DEF SetResultUpdate, AtUpdate, Call, SetResultCall, TransitionCall, Idle
  <2>2. call[c].write \in Outcome
    BY <2>1 DEF SetResultCall
  <2>3. QED
    BY <1>7, <2>2 DEF SetResultUpdate, Return, Call
<1>8. ASSUME NEW m \in Missions, Create(m) PROVE TypeOK'
  BY <1>8, NextBirthNat DEF Create, RowState, Status
<1>9. ASSUME NEW m \in Missions, ClaimNext(m) PROVE TypeOK'
  BY <1>9 DEF ClaimNext, RowState, Status
<1>10. ASSUME NEW m \in Missions, Grant(m) \/ Lapse(m) PROVE TypeOK'
  BY <1>10 DEF Grant, Lapse
<1>11. ASSUME ClearTerminal PROVE TypeOK'
  BY <1>11 DEF ClearTerminal, RowState, NoRow, Outcome
<1>12. CASE UNCHANGED vars
  BY <1>12 DEF vars
<1>13. QED
  BY <1>1, <1>2, <1>3, <1>4, <1>5, <1>6, <1>7, <1>8, <1>9, <1>10, <1>11, <1>12 DEF Next, Proceed

\* The variables of the store always have the shapes its columns and its
\* callers' local variables have.
THEOREM StoreTypeOK == Spec => []TypeOK
<1>1. Init => TypeOK
  BY DEF Init, TypeOK, RowState, NoRow, Outcome, Call
<1>2. QED
  BY <1>1, TypeStep, PTL DEF Spec

\* A step changes the calls so that each Transition still carries a move that
\* is legal from the status it read.
LEMMA ReadAllowsWriteStep == TypeOK /\ ReadAllowsWrite /\ [Next]_vars => ReadAllowsWrite'
<1> USE DEF ReadAllowsWrite, AtUpdate
<1> SUFFICES ASSUME TypeOK, ReadAllowsWrite, [Next]_vars,
                    NEW d \in Clients, AtUpdate(d, "Transition")'
             PROVE  IsAllowed(call[d].seen, call[d].write)'
  OBVIOUS
<1> USE DEF IsAllowed
<1>1. ASSUME NEW c \in Clients, NEW op, NEW m, NEW value, Enter(c, op, m, value)
      PROVE IsAllowed(call[d].seen, call[d].write)'
  BY <1>1 DEF Enter, TypeOK
<1>2. ASSUME NEW c \in Clients, Return(c)
      PROVE IsAllowed(call[d].seen, call[d].write)'
  BY <1>2 DEF Return, Idle, TypeOK
<1>3. ASSUME NEW c \in Clients, TransitionSelect(c)
      PROVE IsAllowed(call[d].seen, call[d].write)'
  <2>1. call[c] \in TransitionCall
    BY <1>3 DEF TransitionSelect, AtSelect, TypeOK, Call, SetResultCall, TransitionCall, Idle
  <2>2. QED
    BY <1>2, <1>3, <2>1 DEF TransitionSelect, Reads, TypeOK, TransitionCall
<1>4. ASSUME NEW c \in Clients, TransitionRetry(c)
      PROVE IsAllowed(call[d].seen, call[d].write)'
  <2>1. call[c] \in TransitionCall
    BY <1>4 DEF TransitionRetry, TypeOK, Call, SetResultCall, TransitionCall, Idle
  <2>2. QED
    BY <1>4, <2>1 DEF TransitionRetry, Reads, TypeOK, TransitionCall
<1>5. ASSUME NEW c \in Clients, SetResultSelect(c)
      PROVE IsAllowed(call[d].seen, call[d].write)'
  <2>1. call[c] \in SetResultCall
    BY <1>5 DEF SetResultSelect, AtSelect, TypeOK, Call, SetResultCall, TransitionCall, Idle
  <2>2. QED
    BY <1>2, <1>5, <2>1 DEF SetResultSelect, Reads, TypeOK, SetResultCall
<1>6. ASSUME UNCHANGED call PROVE IsAllowed(call[d].seen, call[d].write)'
  BY <1>6
<1>7. QED
  BY <1>1, <1>2, <1>3, <1>4, <1>5, <1>6
     DEF Next, Proceed, CallTransition, CallSetResult, TransitionUpdate, SetResultUpdate,
         Create, ClaimNext, Grant, Lapse, ClearTerminal, vars

\* A move the table allows is, on the row it is applied to, a lifecycle step.
LEMMA MoveStep ==
  ASSUME NEW m \in Missions, NEW next, IsAllowed(status[m], next),
         status' = [status EXCEPT ![m] = next]
  PROVE  Lifecycle!Next
BY AllowedInStatus DEF Lifecycle!Next, Lifecycle!Move, Lifecycle!IsAllowed, Lifecycle!Allowed,
   Lifecycle!Status, Lifecycle!Terminal, IsAllowed, Allowed, Status, Terminal

\* Every statement of the store is a lifecycle step or leaves all statuses alone.
LEMMA StepImplementsLifecycle ==
  TypeOK /\ ReadAllowsWrite /\ [Next]_vars => [Lifecycle!Next]_status
<1> SUFFICES ASSUME TypeOK, ReadAllowsWrite, [Next]_vars PROVE [Lifecycle!Next]_status
  OBVIOUS
<1>1. ASSUME NEW m \in Missions, Create(m) PROVE Lifecycle!Next
  BY <1>1 DEF Create, Lifecycle!Next, Lifecycle!Create
<1>2. ASSUME NEW m \in Missions, ClaimNext(m) PROVE Lifecycle!Next
  <2>1. IsAllowed(status[m], "Running")
    BY <1>2 DEF ClaimNext, Runnable, IsAllowed, Allowed, Status
  <2>2. QED
    BY <1>2, <2>1, MoveStep DEF ClaimNext
<1>3. ASSUME NEW c \in Clients, TransitionUpdate(c) PROVE Lifecycle!Next
  <2>1. call[c].mission \in Missions
    BY <1>3 DEF TransitionUpdate, AtUpdate, TypeOK, Call, SetResultCall, TransitionCall, Idle
  <2>2. IsAllowed(status[call[c].mission], call[c].write)
    BY <1>3 DEF TransitionUpdate, ReadAllowsWrite
  <2>3. QED
    BY <1>3, <2>1, <2>2, MoveStep DEF TransitionUpdate
<1>4. ASSUME ClearTerminal PROVE Lifecycle!Next
  BY <1>4 DEF ClearTerminal, Lifecycle!Next, Lifecycle!ForgetTerminal, Lifecycle!Terminal, Terminal
<1>5. QED
  BY <1>1, <1>2, <1>3, <1>4
     DEF Next, Proceed, CallTransition, CallSetResult, Enter, TransitionSelect, TransitionRetry,
         SetResultSelect, SetResultUpdate, Grant, Lapse, vars

\* For any missions and callers, the Status column of the SQLite store moves as
\* MissionLifecycle allows, whatever the callers' statements interleave with.
THEOREM StoreImplementsLifecycle == Spec => ImplementsLifecycle
<1>1. Init => Lifecycle!Init /\ ReadAllowsWrite
  BY DEF Init, Lifecycle!Init, ReadAllowsWrite, AtUpdate, Idle
<1>2. QED
  BY <1>1, StoreTypeOK, ReadAllowsWriteStep, StepImplementsLifecycle, PTL
     DEF Spec, ImplementsLifecycle, Lifecycle!Spec
===============================================================================
