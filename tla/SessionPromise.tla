---------------------------- MODULE SessionPromise ----------------------------
(***************************************************************************)
(* What a session promises to the window that owns it, whatever the        *)
(* network does: it is retried only if it was established once, no more    *)
(* often than its profile allows between two established connections, a    *)
(* session given up is not revived, and one the user stopped stays so.     *)
(*                                                                         *)
(* Module SessionWorker implements it.                                     *)
(***************************************************************************)
EXTENDS Naturals

VARIABLES
  auto, limit,  \* the session's profile: it is to be retried; how often at
                \* most between two established connections, 0 for no limit
  phase,        \* "idle", "live", "waiting" (to retry), "lost", "over"
  established,  \* it was connected once
  tries         \* retries since it was last established

promiseVars == <<auto, limit, phase, established, tries>>

PromiseInit ==
  /\ auto \in BOOLEAN
  /\ limit \in Nat
  /\ phase = "idle"
  /\ established = FALSE
  /\ tries = 0

\* The first attempt, which may fail at once.
Begin ==
  /\ phase = "idle"
  /\ phase' \in {"live", "lost"}
  /\ UNCHANGED <<auto, limit, established, tries>>

Establish ==
  /\ phase = "live"
  /\ established' = TRUE
  /\ tries' = 0
  /\ UNCHANGED <<auto, limit, phase>>

MayRetry == auto /\ established /\ (limit = 0 \/ tries < limit)

\* The connection drops, or the attempt fails.
Drop ==
  /\ phase = "live"
  /\ IF MayRetry
     THEN phase' = "waiting" /\ tries' = tries + 1
     ELSE phase' = "lost" /\ tries' = tries
  /\ UNCHANGED <<auto, limit, established>>

\* The next attempt; one that fails at once counts and may be the last.
Retry ==
  /\ phase = "waiting"
  /\ \/ phase' = "live" /\ tries' = tries
     \/ MayRetry /\ phase' = "waiting" /\ tries' = tries + 1
     \/ ~MayRetry /\ phase' = "lost" /\ tries' = tries
  /\ UNCHANGED <<auto, limit, established>>

Stop ==
  /\ phase' = "over"
  /\ UNCHANGED <<auto, limit, established, tries>>

PromiseNext ==
  Begin \/ Establish \/ Drop \/ Retry \/ Stop

PromiseSpec == PromiseInit /\ [][PromiseNext]_promiseVars

=============================================================================
