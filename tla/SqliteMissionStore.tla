-------------------------- MODULE SqliteMissionStore --------------------------
(***************************************************************************)
(* SqliteMissionStore at the grain of its SQL statements.  Each statement  *)
(* is atomic (SQLite serialises writers), but Transition and SetResult are *)
(* a SELECT followed by an UPDATE on another connection, so the calls of   *)
(* several threads and of the two processes interleave between the two.    *)
(*                                                                         *)
(* Clients are the callers: request threads of the Server and the Worker.  *)
(* They call any operation on any mission in any order.                    *)
(***************************************************************************)
EXTENDS MissionContracts, Naturals, FiniteSets

CONSTANTS Missions,     \* mission ids
          Clients       \* concurrent callers, each with one call in progress

ASSUME FiniteMissions == IsFiniteSet(Missions)

VARIABLES
  status,    \* [Missions -> RowState]: the Status column, or why there is no row
  outcome,   \* [Missions -> Outcome]: the Result and Error columns
  birth,     \* [Missions -> Nat]: the CreatedAt column as a rank, 0 before Create
  granted,   \* missions with a Granted, unexpired row in the approvals table
  call       \* [Clients -> Call]: the store call each client is inside

vars == <<status, outcome, birth, granted, call>>

\* Every caller writes either a result and a null error, or the reverse.
Outcome == {"none", "answer", "error"}

\* A call in progress: what it writes, and the status its SELECT read (the
\* local "current"), "unread" until the SELECT has run.
Unread == "unread"
TransitionCall ==
  [op : {"Transition"}, mission : Missions, write : Status, seen : Status \cup {Unread}]
SetResultCall ==
  [op : {"SetResult"}, mission : Missions, write : Outcome, seen : Status \cup {Unread}]
Idle == [op |-> "none"]
Call == {Idle} \cup TransitionCall \cup SetResultCall

Return(c) == call' = [call EXCEPT ![c] = Idle]
Reads(c, current) == call' = [call EXCEPT ![c].seen = current]

\* The rank the next INSERT gets: CreatedAt grows with every creation.
NextBirth == 1 + Cardinality({m \in Missions : status[m] # "Unborn"})
-------------------------------------------------------------------------------
Init ==
  /\ status = [m \in Missions |-> "Unborn"]
  /\ outcome = [m \in Missions |-> "none"]
  /\ birth = [m \in Missions |-> 0]
  /\ granted = {}
  /\ call = [c \in Clients |-> Idle]

\* Create, ClaimNext and ClearTerminal are one statement each.
\* Create: INSERT with Status 'Created' and no result.
Create(m) ==
  /\ status[m] = "Unborn"
  /\ status' = [status EXCEPT ![m] = "Created"]
  /\ birth' = [birth EXCEPT ![m] = NextBirth]
  /\ UNCHANGED <<outcome, granted, call>>

\* Transition(id, next) and SetResult(id, result, error): entering the call.
Enter(c, op, m, value) ==
  /\ call[c] = Idle
  /\ status[m] # "Unborn"
  /\ call' = [call EXCEPT ![c] = [op |-> op, mission |-> m, write |-> value, seen |-> Unread]]
  /\ UNCHANGED <<status, outcome, birth, granted>>

CallTransition(c, m, next) == Enter(c, "Transition", m, next)
CallSetResult(c, m, out) == Enter(c, "SetResult", m, out)

AtSelect(c, op) == call[c].op = op /\ call[c].seen = Unread
AtUpdate(c, op) == call[c].op = op /\ call[c].seen # Unread

\* A mutant for the checks: the SELECT's result is used without the checks.
TransitionSelectUnchecked(c) ==
  /\ AtSelect(c, "Transition")
  /\ Reads(c, status[call[c].mission])
  /\ UNCHANGED <<status, outcome, birth, granted>>

\* Transition: Get(id) ?? throw, and the IsAllowed check, on the row as it is
\* now.  A missing row or a forbidden move throws out of the call.
TransitionSelect(c) ==
  LET current == status[call[c].mission] IN
  /\ AtSelect(c, "Transition")
  /\ IF IsAllowed(current, call[c].write) THEN Reads(c, current) ELSE Return(c)
  /\ UNCHANGED <<status, outcome, birth, granted>>

\* A mutant: an UPDATE without "AND Status = @current".
TransitionUpdateById(c) ==
  /\ AtUpdate(c, "Transition")
  /\ status' = [status EXCEPT ![call[c].mission] = call[c].write]
  /\ Return(c)
  /\ UNCHANGED <<outcome, birth, granted>>

\* UPDATE ... WHERE Id = @id AND Status = @current: one row, the call returns.
TransitionUpdate(c) ==
  LET m == call[c].mission IN
  /\ AtUpdate(c, "Transition")
  /\ status[m] = call[c].seen
  /\ status' = [status EXCEPT ![m] = call[c].write]
  /\ Return(c)
  /\ UNCHANGED <<outcome, birth, granted>>

\* A mutant: the loop tries the UPDATE again without reading the row again.
TransitionRetryStale(c) ==
  /\ AtUpdate(c, "Transition")
  /\ status[call[c].mission] # call[c].seen
  /\ UNCHANGED vars

\* The same UPDATE matching no row: another writer moved the mission since the
\* SELECT, so the loop sleeps and reads the row again.
TransitionRetry(c) ==
  /\ AtUpdate(c, "Transition")
  /\ status[call[c].mission] # call[c].seen
  /\ Reads(c, Unread)
  /\ UNCHANGED <<status, outcome, birth, granted>>

\* SetResult: Get(id) ?? throw, and the terminal check.
SetResultSelect(c) ==
  LET current == status[call[c].mission] IN
  /\ AtSelect(c, "SetResult")
  /\ IF current \in Status \ Terminal THEN Reads(c, current) ELSE Return(c)
  /\ UNCHANGED <<status, outcome, birth, granted>>

\* UPDATE ... WHERE Id = @id: the status is not part of the condition.
SetResultUpdate(c) ==
  LET m == call[c].mission IN
  /\ AtUpdate(c, "SetResult")
  /\ outcome' = IF status[m] \in Status
                  THEN [outcome EXCEPT ![m] = call[c].write] ELSE outcome
  /\ Return(c)
  /\ UNCHANGED <<status, birth, granted>>

\* The rows the sub-select of ClaimNext considers.
Runnable(m) == status[m] = "Created" \/ (status[m] = "WaitingForApproval" /\ m \in granted)

\* A mutant: resumable missions before new ones.
ClaimsResumableFirst(m, n) ==
  IF status[m] = status[n] THEN birth[m] < birth[n] ELSE status[n] = "Created"

\* Its ORDER BY: Created before resumable ones, then the oldest.
ClaimsBefore(m, n) ==
  IF status[m] = status[n] THEN birth[m] < birth[n] ELSE status[m] = "Created"

\* ClaimNext: a single UPDATE ... WHERE Id = (SELECT ...) RETURNING.
ClaimNext(m) ==
  /\ Runnable(m)
  /\ \A n \in Missions : Runnable(n) /\ n # m => ClaimsBefore(m, n)
  /\ status' = [status EXCEPT ![m] = "Running"]
  /\ UNCHANGED <<outcome, birth, granted, call>>

\* ClearTerminal: one DELETE, then the rows' columns are gone with them.
ClearTerminal ==
  /\ status' = [m \in Missions |-> IF status[m] \in Terminal THEN "Deleted" ELSE status[m]]
  /\ outcome' = [m \in Missions |-> IF status[m] \in Terminal THEN "none" ELSE outcome[m]]
  /\ UNCHANGED <<birth, granted, call>>

\* The approvals table under the claim query: a row for the mission becomes
\* Granted (SqliteApprovalStore.Approve), or stops being a live grant (denied,
\* or past its ExpiresAt).
Grant(m) ==
  /\ status[m] # "Unborn" /\ m \notin granted
  /\ granted' = granted \cup {m}
  /\ UNCHANGED <<status, outcome, birth, call>>

Lapse(m) ==
  /\ m \in granted
  /\ granted' = granted \ {m}
  /\ UNCHANGED <<status, outcome, birth, call>>
-------------------------------------------------------------------------------
\* The statements of a call that has been entered.
Proceed(c) ==
  \/ TransitionSelect(c) \/ TransitionUpdate(c) \/ TransitionRetry(c)
  \/ SetResultSelect(c) \/ SetResultUpdate(c)

Next ==
  \/ \E c \in Clients :
       \/ Proceed(c)
       \/ \E m \in Missions :
            \/ \E next \in Status : CallTransition(c, m, next)
            \/ \E out \in Outcome \ {"none"} : CallSetResult(c, m, out)
  \/ \E m \in Missions : Create(m) \/ ClaimNext(m) \/ Grant(m) \/ Lapse(m)
  \/ ClearTerminal

Spec == Init /\ [][Next]_vars

\* A thread inside a store call keeps executing it, and the Worker keeps polling
\* ClaimNext; nobody has to make the other calls.
FairSpec ==
  /\ Spec
  /\ \A c \in Clients : WF_vars(Proceed(c))
  /\ WF_vars(\E m \in Missions : ClaimNext(m))
-------------------------------------------------------------------------------
TypeOK ==
  /\ status \in [Missions -> RowState]
  /\ outcome \in [Missions -> Outcome]
  /\ birth \in [Missions -> Nat]
  /\ granted \subseteq Missions
  /\ call \in [Clients -> Call]

\* What a Transition past its SELECT carries: a move the table allows from the
\* status it read.  With the UPDATE's condition this makes a stale read harmless.
ReadAllowsWrite ==
  \A c \in Clients :
    AtUpdate(c, "Transition") => IsAllowed(call[c].seen, call[c].write)

\* However the SELECTs and UPDATEs of concurrent calls interleave, the Status
\* column only ever moves as the lifecycle allows: a stale read in Transition
\* never reaches the row, a claim takes a mission from Created or from a
\* granted wait, and only terminal rows are deleted.
Lifecycle == INSTANCE MissionLifecycle WITH Missions <- Missions, status <- status
ImplementsLifecycle == Lifecycle!Spec

\* Transition's retry loop is no livelock: once other writers leave the table's
\* statuses alone, every call in progress returns.  It holds because the loop
\* reads the row again before it tries the UPDATE again.
RetryEnds ==
  <>[][UNCHANGED status]_status => \A c \in Clients : []<>(call[c] = Idle)

\* The claim query starves no new mission: while the Worker keeps polling, a
\* Created mission is claimed or cancelled, however often other missions pause
\* for approval and are granted again.  (No approval is created by the code
\* as it is, so that today only the order of creation matters.)
CreatedIsTaken ==
  \A m \in Missions : []<>(status[m] # "Created")
===============================================================================
