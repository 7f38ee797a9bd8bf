------------------------------ MODULE EnvStore ------------------------------
(***************************************************************************)
(* What the u-boot environment store promises to the processes that link   *)
(* ubootenv.c, with no word of images, checksums or retries: a durable     *)
(* environment that is only ever replaced, as a whole, by the environment  *)
(* some running process holds in memory, or is unreadable.                 *)
(***************************************************************************)
CONSTANTS Proc,     \* processes that link ubootenv.c
          Name,     \* environment variables
          Value,    \* their values
          NoValue,  \* the variable is not in the environment
          Corrupt,  \* the durable environment cannot be read
          Unloaded  \* the process holds no environment

VARIABLES durable,  \* the environment of the partition, or Corrupt
          cached    \* per process, the environment it holds, or Unloaded

vars == <<durable, cached>>

Env == [Name -> Value \cup {NoValue}]

Init ==
  /\ durable \in Env
  /\ cached = [p \in Proc |-> Unloaded]

\* A process reads the whole durable environment, which must be readable.
Load(p) ==
  /\ cached[p] = Unloaded
  /\ durable # Corrupt
  /\ cached' = [cached EXCEPT ![p] = durable]
  /\ UNCHANGED durable

\* A process changes one variable of the environment it holds and no other.
Put(p, n, v) ==
  /\ cached[p] # Unloaded
  /\ cached' = [cached EXCEPT ![p] = [@ EXCEPT ![n] = v]]
  /\ UNCHANGED durable

\* The environment a process holds becomes the durable one, all of it.
Commit(p) ==
  /\ cached[p] # Unloaded
  /\ durable' = cached[p]
  /\ UNCHANGED cached

\* A write is under way, or was cut short: nothing can be read.
Tear ==
  /\ \E p \in Proc : cached[p] # Unloaded
  /\ durable' = Corrupt
  /\ UNCHANGED cached

\* A process ends and forgets.
Forget(p) ==
  /\ cached' = [cached EXCEPT ![p] = Unloaded]
  /\ UNCHANGED durable

Next ==
  \/ \E p \in Proc : Load(p) \/ Commit(p) \/ Forget(p)
  \/ \E p \in Proc, n \in Name, v \in Value : Put(p, n, v)
  \/ Tear

Spec == Init /\ [][Next]_vars
=============================================================================
