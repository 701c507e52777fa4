----------------------------- MODULE MCTaskGroup -----------------------------
(***************************************************************************)
(* One task that is registered twice; an owner that awaits completions,    *)
(* and a second user that closes, cancels and shuts down.                  *)
(***************************************************************************)
EXTENDS TaskGroup, TLC
CONSTANTS t1, r1, r2, owner, other

MCTaskOf == (r1 :> t1) @@ (r2 :> t1)
MCRole == (owner :> {"next", "try", "join"}) @@ (other :> {"close", "cancel", "shutdown"})
=============================================================================
