------------------------- MODULE MCSqliteMissionStore -------------------------
(***************************************************************************)
(* SqliteMissionStore on two missions and two callers, without the product *)
(* of both: either one mission has been created and the callers race for   *)
(* it, or one call is in progress at a time among two missions.  Neither   *)
(* ClaimNext nor a call in progress is held up by that.                    *)
(***************************************************************************)
EXTENDS SqliteMissionStore

Small ==
  \/ Cardinality({m \in Missions : status[m] # "Unborn"}) <= 1
  \/ Cardinality({c \in Clients : call[c] # Idle}) <= 1

MCSpec ==
  /\ Init /\ [][Next /\ Small']_vars
  /\ \A c \in Clients : WF_vars(Proceed(c))
  /\ WF_vars(\E m \in Missions : ClaimNext(m))
===============================================================================
