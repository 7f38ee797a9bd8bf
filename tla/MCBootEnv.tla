----------------------------- MODULE MCBootEnv -----------------------------
(* The instances of BootEnv that TLC checks. *)
EXTENDS BootEnv, TLC

CONSTANTS svc, cmd,   \* the system_control service, the setbootenv command
          t1, t2      \* threads

\* The service with one caller at a time.
HomeOne == t1 :> svc

\* Two threads of the service's binder pool.
HomePool == (t1 :> svc) @@ (t2 :> svc)

\* The service and the command, one thread each.
HomeTwo == (t1 :> svc) @@ (t2 :> cmd)
=============================================================================
