---------------------------------- MODULE Pages ----------------------------------
(***************************************************************************)
(* The pages of the control surface that show data of the server: each is  *)
(* mounted by its route, asks for its data, may ask again on a click or by *)
(* a timer, changes the data and asks once more, and is left while         *)
(* requests are in progress.  Answers arrive in any order.                 *)
(*                                                                         *)
(* The system page (useSource) drops the answers of requests it has        *)
(* superseded; all others show whatever arrives.  The data of a page is    *)
(* reduced to how many changes it has seen.                                *)
(***************************************************************************)
EXTENDS Integers

CONSTANTS MaxData,     \* bound: changes of the data
          MaxFaults    \* bound: requests that fail

VARIABLES
  page,       \* the route that is shown
  data,       \* the server's version of what the page is about
  requests,   \* [Slots -> Request]: refreshes in progress
  latest,     \* useSource: the slot of the request that is not cancelled
  shown,      \* the version on the page, or Nothing
  error,      \* the page says that it could not load
  edit,       \* "none", "sent", or "refreshing": a change made on the page
  mine,       \* the version the last change on this page made, or Nothing
  behind,     \* history: an older answer replaced a newer one, or the refresh after a
              \* change failed
  failures

vars == <<page, data, requests, latest, shown, error, edit, mine, behind, failures>>

\* The pages by how they load; PAGES in AppShell.tsx has them by their routes.
Guarded  == {"/system"}
Polled   == {"/", "/automations"}
Edited   == {"/automations", "/memory", "/models", "/settings"}
Routes   == {"/workspace"} \cup Guarded \cup Polled \cup Edited

\* The pages that show the answer to a change; the others ask for their data again.
Answering == {"/models", "/settings"}

\* The one slot of the poll: a request ends (8 s) before the next poll (15 s).
PollSlot == 1
EditSlot == 2
Slots == 1..3
Nothing == -1
Request == [stage : {"free", "asked", "answered", "failed"}, got : {Nothing} \cup 0..MaxData]
Free  == [stage |-> "free", got |-> Nothing]
Asked == [stage |-> "asked", got |-> Nothing]

\* A mounted page asks at once.
Mounted == [i \in Slots |-> IF i = PollSlot THEN Asked ELSE Free]

Init ==
  /\ page \in Routes /\ data = 0
  /\ requests = Mounted /\ latest = PollSlot
  /\ shown = Nothing /\ error = FALSE
  /\ edit = "none" /\ mine = Nothing /\ behind = FALSE
  /\ failures = 0

\* navigate, a link, a shortcut: the old page's requests find no component.
Navigate(to) ==
  /\ to # page /\ page' = to
  /\ requests' = Mounted /\ latest' = PollSlot
  /\ shown' = Nothing /\ error' = FALSE
  /\ edit' = "none" /\ mine' = Nothing /\ behind' = FALSE
  /\ UNCHANGED <<data, failures>>

\* The worker, the scheduler, another page of another user.
DataChanges ==
  /\ data < MaxData /\ data' = data + 1
  /\ UNCHANGED <<page, requests, latest, shown, error, edit, mine, behind, failures>>

Ask(i) ==
  /\ requests[i].stage = "free"
  /\ requests' = [requests EXCEPT ![i] = Asked] /\ latest' = i

\* The refresh button; the home page has one under its error only.
RefreshClicked ==
  /\ page = "/" => error
  /\ \E i \in Slots \ {PollSlot, EditSlot} : Ask(i)
  /\ UNCHANGED <<page, data, shown, error, edit, mine, behind, failures>>

\* setInterval.
Poll ==
  /\ page \in Polled /\ Ask(PollSlot)
  /\ UNCHANGED <<page, data, shown, error, edit, mine, behind, failures>>

Answered(i) ==
  /\ requests[i].stage = "asked"
  /\ requests' = [requests EXCEPT ![i] = [stage |-> "answered", got |-> data]]
  /\ UNCHANGED <<page, data, latest, shown, error, edit, mine, behind, failures>>

Failed(i) ==
  /\ failures < MaxFaults /\ failures' = failures + 1
  /\ requests[i].stage = "asked"
  /\ requests' = [requests EXCEPT ![i].stage = "failed"]
  /\ UNCHANGED <<page, data, latest, shown, error, edit, mine, behind>>

\* A mutant: useSource without its cancelled flag.
HeededAlways(i) == TRUE

\* useSource hears only the request of its current effect.
Heeded(i) == page \in Guarded => i = latest

\* The continuation of a refresh.  The pages that ask for several things at once
\* (allSettled) may have some of them fail; here a refresh fails or succeeds as a whole.
Applied(i) ==
  LET r == requests[i] IN
  /\ r.stage \in {"answered", "failed"}
  /\ requests' = [requests EXCEPT ![i] = Free]
  /\ IF ~Heeded(i)
     THEN UNCHANGED <<shown, error, behind>>
     ELSE IF r.stage = "answered"
     THEN /\ shown' = r.got /\ error' = FALSE
          /\ behind' = (behind \/ r.got < shown)
     ELSE /\ error' = (page # "/settings") /\ behind' = (behind \/ i = EditSlot) /\ UNCHANGED shown
  /\ edit' = IF i = EditSlot THEN "none" ELSE edit
  /\ UNCHANGED <<page, data, latest, mine, failures>>

\* create, toggle, remove, clear, selectModel, saveWorkspace: one change at a time is
\* followed.
EditSent ==
  /\ page \in Edited /\ edit = "none" /\ edit' = "sent"
  /\ UNCHANGED <<page, data, requests, latest, shown, error, mine, behind, failures>>

\* A mutant: a change is not followed by a refresh.
EditDoneQuietly ==
  /\ edit = "sent" /\ data < MaxData
  /\ data' = data + 1 /\ mine' = data + 1 /\ edit' = "none"
  /\ UNCHANGED <<page, requests, latest, shown, error, behind, failures>>

\* The change and the arrival of its answer; what comes in between is as if it came before.
EditDone ==
  /\ edit = "sent" /\ data < MaxData
  /\ data' = data + 1 /\ mine' = data + 1
  /\ IF page \in Answering
     THEN shown' = data + 1 /\ edit' = "none" /\ UNCHANGED <<requests, latest>>
     ELSE Ask(EditSlot) /\ edit' = "refreshing" /\ UNCHANGED shown
  /\ UNCHANGED <<page, error, behind, failures>>

\* A failed change shows a toast; past the bound every change fails.
EditFails ==
  /\ edit = "sent" /\ edit' = "none"
  /\ IF data < MaxData THEN failures < MaxFaults /\ failures' = failures + 1 ELSE UNCHANGED failures
  /\ UNCHANGED <<page, data, requests, latest, shown, error, mine, behind>>

EditEnds == EditDone \/ EditFails

RequestEnds(i) == Answered(i) \/ Failed(i) \/ Applied(i)

Next ==
  \/ DataChanges \/ RefreshClicked \/ Poll \/ EditSent \/ EditEnds
  \/ \E to \in Routes : Navigate(to)
  \/ \E i \in Slots : RequestEnds(i)

Spec == Init /\ [][Next]_vars
-------------------------------------------------------------------------------
TypeOK ==
  /\ page \in Routes /\ data \in 0..MaxData
  /\ requests \in [Slots -> Request] /\ latest \in Slots
  /\ shown \in {Nothing} \cup 0..data /\ error \in BOOLEAN
  /\ edit \in {"none", "sent", "refreshing"} /\ mine \in {Nothing} \cup 0..data
  /\ behind \in BOOLEAN /\ failures \in 0..MaxFaults

\* Answers may come in any order.  The system page never replaces a newer sample by an
\* older one; any other page shows its own change as soon as it has followed it to the
\* end, and from then on whatever is answered later, unless an older answer came last
\* (none of them looks for that) or the refresh failed.
FreshPages ==
  /\ page \in Guarded => ~behind
  /\ edit # "refreshing" => shown >= mine \/ behind
===============================================================================
