--------------------------- MODULE MCCacheSettings ---------------------------
(* Cache in two settings: keys of one user each, with failures, and keys of *)
(* one bucket that two tasks share, one of which also preloads.             *)
EXTENDS MCCache

VARIABLE setting  \* "private" or "shared"

Shared == INSTANCE Cache WITH
  UsersOf <- TwoCommon, Uses <- EveryUse, Policies <- {"writeBack"},
  DaoFaults <- FALSE, MemFaults <- FALSE

BothInit ==
  \/ setting = "private" /\ Init
  \/ setting = "shared" /\ Shared!Init /\ nvs[k1] = Absent

BothNext ==
  /\ \/ setting = "private" /\ Next
     \/ setting = "shared" /\ Shared!Next
  /\ UNCHANGED setting

(* The fairness of Cache, in the shared setting. *)
InShared(A) == setting = "shared" /\ A /\ UNCHANGED setting

BothSpec ==
  /\ BothInit /\ [][BothNext]_<<vars, setting>>
  /\ \A t \in Tasks :
       /\ WF_<<vars, setting>>(InShared(Shared!GoOn(t)))
       /\ SF_<<vars, setting>>(InShared(Shared!LockAgain(t)))

(* In the shared setting an operation of the cache ends, although the       *)
(* mutex is released and locked again in the middle of it.                  *)
SharedOperationsEnd ==
  \A t \in Tasks : (setting = "shared" /\ pc[t] # "idle") ~> pc[t] = "idle"
=============================================================================
