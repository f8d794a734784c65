----------------------- MODULE ParameterSynchronizer -----------------------
(***************************************************************************)
(* The ParameterSynchronizer actor of param_sync.py.  sync_weights() waits *)
(* for the rollouter's pause(), tells the message queue the new version,   *)
(* moves the weights, and returns after it has launched                    *)
(* update_param_version() and the resume() that depends on it, which       *)
(* wait_last_valid() waits for.  The calls on the other actors are joined  *)
(* to these steps in FullyAsync.                                           *)
(***************************************************************************)
EXTENDS Naturals

VARIABLES sync,          \* where sync_weights() is
          syncVersion,   \* current_version
          serverVersion  \* the version of the weights the servers hold

syncVars == <<sync, syncVersion, serverVersion>>

Init == sync = "idle" /\ syncVersion = 0 /\ serverVersion = 0

Pause(version) ==
    /\ sync = "idle"
    /\ sync' = "pausing"
    /\ syncVersion' = version
    /\ UNCHANGED serverVersion

UpdateQueue ==
    /\ sync = "pausing"
    /\ sync' = "transfer"
    /\ UNCHANGED <<syncVersion, serverVersion>>

Transfer ==
    /\ sync = "transfer"
    /\ serverVersion' = syncVersion
    /\ sync' = "idle"
    /\ UNCHANGED syncVersion
=============================================================================
