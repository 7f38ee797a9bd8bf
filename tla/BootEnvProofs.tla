--------------------------- MODULE BootEnvProofs ---------------------------
(***************************************************************************)
(* Theorems about BootEnv, for every set of processes, threads, names and  *)
(* values, every retry limit, and with failing and short writes.           *)
(***************************************************************************)
EXTENDS BootEnv, TLAPS

-----------------------------------------------------------------------------
(* Type correctness                                                        *)

\* The empty environment is an environment.
LEMMA NoEnvIsEnv == NoEnv \in Env
  BY DEF NoEnv, Env

\* bootenv_set_value leaves an environment when it overwrites a variable ...
LEMMA PutIsEnv ==
  ASSUME NEW e \in Env, NEW n \in Name, NEW v \in Value
  PROVE  [e EXCEPT ![n] = v] \in Env
  BY DEF Env

\* ... and when it links one.
LEMMA LinkedIsEnv ==
  ASSUME NEW e \in Env, NEW ns, NEW n \in Name, NEW v \in Value
  PROVE  Linked(e, ns, n, v) \in Env
  BY DEF Linked, Env

\* TypeOK alone is not inductive: the counters stay in range because of where
\* the loops are (LoopsOK).
TypeInv == TypeOK /\ LoopsOK

LEMMA TypeInit == Init => TypeInv
  <1> SUFFICES ASSUME Init PROVE TypeInv
    OBVIOUS
  <1> USE BootEnvAssumption, NoEnvIsEnv
  <1>1. TypeOK
    BY DEF Init, TypeOK
  <1>2. LoopsOK
    BY DEF Init, LoopsOK
  <1> QED
    BY <1>1, <1>2 DEF TypeInv

LEMMA TypeNext == TypeInv /\ [Next]_vars => TypeInv'
  <1> SUFFICES ASSUME TypeInv, [Next]_vars PROVE TypeInv'
    OBVIOUS
  <1> USE BootEnvAssumption, NoEnvIsEnv DEF TypeInv
  <1> USE DEF TypeOK, LoopsOK, procVars, threadVars, Goto, Return, Busy
  <1>1. ASSUME NEW p \in Proc, Start(p) PROVE TypeInv'
    BY <1>1 DEF Start
  <1>2. ASSUME NEW p \in Proc, ReadOk(p) PROVE TypeInv'
    BY <1>2 DEF ReadOk, AfterReads
  <1>3. ASSUME NEW p \in Proc, ReadFails(p) PROVE TypeInv'
    BY <1>3 DEF ReadFails, AfterReads
  <1>4. ASSUME NEW p \in Proc, Stop(p) PROVE TypeInv'
    BY <1>4 DEF Stop
  <1>5. ASSUME NEW t \in Thread, NEW c \in Call, UpdateNoInit(t, c) PROVE TypeInv'
    BY <1>5 DEF UpdateNoInit
  <1>6. ASSUME NEW t \in Thread, NEW c \in Call, UpdateSame(t, c) PROVE TypeInv'
    BY <1>6 DEF UpdateSame
  <1>7. ASSUME NEW t \in Thread, NEW c \in Call, UpdateBegin(t, c) PROVE TypeInv'
    BY <1>7 DEF UpdateBegin
  <1>8. ASSUME NEW t \in Thread, Walk(t) PROVE TypeInv'
    <2> DEFINE p == Home[t]
               n == arg[t].name
    <2>1. p \in Proc /\ attrs[p] \in Env /\ n \in Name /\ arg[t].value \in Value
      BY <1>8 DEF Walk, Call
    <2>2. CASE attrs[p][n] # NoValue
      <3>1. attrs' = [attrs EXCEPT ![p][n] = arg[t].value]
            /\ pc' = [pc EXCEPT ![t] = "clear"]
            /\ UNCHANGED <<disk, st, reads, image, arg, known, done, sum, saves, ret, stops>>
        BY <1>8, <2>2 DEF Walk
      <3>2. attrs' \in [Proc -> Env]
        BY <2>1, <3>1, PutIsEnv
      <3> QED
        BY <1>8, <3>1, <3>2 DEF Walk
    <2>3. CASE attrs[p][n] = NoValue
      <3>1. known' = [known EXCEPT ![t] = Present(attrs[p])]
            /\ pc' = [pc EXCEPT ![t] = "link"]
            /\ UNCHANGED <<disk, st, reads, attrs, image, arg, done, sum, saves, ret, stops>>
        BY <1>8, <2>3 DEF Walk
      <3>2. Present(attrs[p]) \subseteq Name
        BY DEF Present
      <3> QED
        BY <1>8, <3>1, <3>2 DEF Walk
    <2> QED
      BY <2>2, <2>3
  <1>9. ASSUME NEW t \in Thread, Link(t) PROVE TypeInv'
    BY <1>9, LinkedIsEnv DEF Link, Call
  <1>10. ASSUME NEW t \in Thread, Clear(t) PROVE TypeInv'
    BY <1>10 DEF Clear
  <1>11. ASSUME NEW t \in Thread, Fill(t) PROVE TypeInv'
    <2> DEFINE p == Home[t]
    <2>1. PICK n \in Present(attrs[p]) \ done[t] :
            /\ image' = [image EXCEPT ![p].data[n] = attrs[p][n]]
            /\ done' = [done EXCEPT ![t] = @ \cup {n}]
      BY <1>11 DEF Fill
    <2>2. p \in Proc /\ n \in Name /\ attrs[p][n] \in Value
      BY DEF Present, Env
    <2>3. [image[p].data EXCEPT ![n] = attrs[p][n]] \in Env
      BY <2>2, PutIsEnv
    <2>4. image' \in [Proc -> [crc : Env, data : Env]]
      BY <2>1, <2>2, <2>3
    <2>5. done' \in [Thread -> SUBSET Name]
      BY <2>1, <2>2
    <2> QED
      BY <1>11, <2>4, <2>5 DEF Fill
  <1>12. ASSUME NEW t \in Thread, Filled(t) PROVE TypeInv'
    BY <1>12 DEF Filled
  <1>13. ASSUME NEW t \in Thread, Sum(t) PROVE TypeInv'
    BY <1>13 DEF Sum
  <1>14. ASSUME NEW t \in Thread, Store(t) PROVE TypeInv'
    BY <1>14 DEF Store
  <1>15. ASSUME NEW t \in Thread, Open(t) PROVE TypeInv'
    BY <1>15 DEF Open
  <1>16. ASSUME NEW t \in Thread, SaveFails(t) PROVE TypeInv'
    <2>1. CASE saves[t] < MaxRetry
      BY <1>16, <2>1 DEF SaveFails
    <2>2. CASE ~(saves[t] < MaxRetry)
      <3>1. Return(t, "failed") /\ UNCHANGED <<disk, procVars, arg, stops>>
        BY <1>16, <2>2 DEF SaveFails
      <3> QED
        BY <3>1
    <2> QED
      BY <2>1, <2>2
  <1>17. ASSUME NEW t \in Thread, WriteHead(t) PROVE TypeInv'
    BY <1>17 DEF WriteHead
  <1>18. ASSUME NEW t \in Thread, WriteTail(t) PROVE TypeInv'
    <2>1. disk' \in [crc : Env, data : Env]
      BY <1>18 DEF WriteTail
    <2>2. Return(t, "saved") /\ UNCHANGED <<procVars, arg, stops>>
      BY <1>18 DEF WriteTail
    <2> QED
      BY <2>1, <2>2
  <1>19. CASE UNCHANGED vars
    BY <1>19 DEF vars
  <1> QED
    BY <1>1, <1>2, <1>3, <1>4, <1>5, <1>6, <1>7, <1>8, <1>9, <1>10, <1>11,
       <1>12, <1>13, <1>14, <1>15, <1>16, <1>17, <1>18, <1>19
       DEF Next, InitStep, Update, UpdateStep

\* Every variable keeps its type; in particular neither bootenv_init nor
\* bootenv_update goes round its loop more than MAX_UBOOT_RWRETRY times.
THEOREM TypeCorrect == Spec => []TypeOK
  <1>1. Spec => []TypeInv
    BY TypeInit, TypeNext, PTL DEF Spec
  <1> QED
    BY <1>1, PTL DEF TypeInv

-----------------------------------------------------------------------------
(* With one thread per process the image follows the memory                *)

LEMMA ImageInit == Init => ImageFollowsMemory
  BY DEF Init, ImageFollowsMemory, ImageAt

LEMMA ImageNext ==
  ASSUME OneThreadPerProcess, TypeInv, TypeInv', ImageFollowsMemory, [Next]_vars
  PROVE  ImageFollowsMemory'
  <1> USE BootEnvAssumption
  <1> SUFFICES ASSUME NEW u \in Thread PROVE ImageAt(u)'
    BY DEF ImageFollowsMemory
  <1>a. ImageAt(u) /\ Home[u] \in Proc /\ image[Home[u]].data \in Env /\ attrs[Home[u]] \in Env
    BY DEF ImageFollowsMemory, TypeInv, TypeOK
  <1>b. ASSUME NEW t \in Thread, t # u PROVE Home[t] # Home[u]
    BY <1>b DEF OneThreadPerProcess
  <1>c. pc[u] # "idle" => st[Home[u]] = "ready" /\ arg[u] \in Call
    BY DEF TypeInv, LoopsOK
  <1>d. /\ st \in [Proc -> {"down", "init", "ready", "noenv"}]
        /\ attrs \in [Proc -> Env]
        /\ image \in [Proc -> [crc : Env, data : Env]]
        /\ pc \in [Thread -> Busy \cup {"idle"}]
        /\ known \in [Thread -> SUBSET Name]
        /\ done \in [Thread -> SUBSET Name]
        /\ sum \in [Thread -> Env]
    BY DEF TypeInv, TypeOK
  <1> USE <1>a, <1>b, <1>c, <1>d
  <1> USE DEF procVars, threadVars, Goto, Return, ImageAt
  <1>1. ASSUME NEW p \in Proc, Start(p) PROVE ImageAt(u)'
    BY <1>1 DEF Start
  <1>2. ASSUME NEW p \in Proc, ReadOk(p) PROVE ImageAt(u)'
    <2>1. CASE Home[u] = p
      BY <1>2, <2>1 DEF ReadOk
    <2>2. CASE Home[u] # p
      BY <1>2, <2>2 DEF ReadOk
    <2> QED
      BY <2>1, <2>2
  <1>3. ASSUME NEW p \in Proc, ReadFails(p) PROVE ImageAt(u)'
    BY <1>3 DEF ReadFails
  <1>4. ASSUME NEW p \in Proc, Stop(p) PROVE ImageAt(u)'
    <2>1. CASE Home[u] = p
      BY <1>4, <2>1 DEF Stop
    <2>2. CASE Home[u] # p
      BY <1>4, <2>2 DEF Stop
    <2> QED
      BY <2>1, <2>2
  <1>5. ASSUME NEW t \in Thread, NEW c \in Call, UpdateNoInit(t, c) PROVE ImageAt(u)'
    BY <1>5 DEF UpdateNoInit
  <1>6. ASSUME NEW t \in Thread, NEW c \in Call, UpdateSame(t, c) PROVE ImageAt(u)'
    BY <1>6 DEF UpdateSame
  <1>7. ASSUME NEW t \in Thread, NEW c \in Call, UpdateBegin(t, c) PROVE ImageAt(u)'
    BY <1>7 DEF UpdateBegin
  <1>8. ASSUME NEW t \in Thread, Walk(t) PROVE ImageAt(u)'
    <2>1. CASE t = u
      BY <1>8, <2>1 DEF Walk
    <2>2. CASE t # u
      BY <1>8, <2>2 DEF Walk
    <2> QED
      BY <2>1, <2>2
  <1>9. ASSUME NEW t \in Thread, Link(t) PROVE ImageAt(u)'
    BY <1>9 DEF Link
  <1>10. ASSUME NEW t \in Thread, Clear(t) PROVE ImageAt(u)'
    <2>1. CASE t = u
      <3>1. image'[Home[u]].data = NoEnv /\ done'[u] = {} /\ pc'[u] = "fill"
        BY <1>10, <2>1 DEF Clear
      <3> QED
        BY <3>1 DEF NoEnv
    <2>2. CASE t # u
      BY <1>10, <2>2 DEF Clear
    <2> QED
      BY <2>1, <2>2
  <1>11. ASSUME NEW t \in Thread, Fill(t) PROVE ImageAt(u)'
    <2>1. PICK n \in Present(attrs[Home[t]]) \ done[t] :
            /\ image' = [image EXCEPT ![Home[t]].data[n] = attrs[Home[t]][n]]
            /\ done' = [done EXCEPT ![t] = @ \cup {n}]
      BY <1>11 DEF Fill
    <2>2. pc[t] = "fill" /\ UNCHANGED <<attrs, pc, known, sum>>
      BY <1>11 DEF Fill
    <2>3. CASE t = u
      <3>1. image'[Home[u]].data = [image[Home[u]].data EXCEPT ![n] = attrs[Home[u]][n]]
        BY <2>1, <2>3
      <3>2. done'[u] = done[u] \cup {n} /\ n \in Name
        BY <2>1, <2>3 DEF Present
      <3>3. image'[Home[u]].data
              = [m \in Name |-> IF m \in done'[u] THEN attrs[Home[u]][m] ELSE NoValue]
        BY <2>2, <2>3, <3>1, <3>2 DEF Env
      <3>4. done'[u] \subseteq Present(attrs[Home[u]])
        BY <2>1, <2>2, <2>3, <3>2
      <3> QED
        BY <2>2, <2>3, <3>3, <3>4
    <2>4. CASE t # u
      BY <2>1, <2>2, <2>4
    <2> QED
      BY <2>3, <2>4
  <1>12. ASSUME NEW t \in Thread, Filled(t) PROVE ImageAt(u)'
    <2>1. CASE t = u
      <3>1. image[Home[u]].data = attrs[Home[u]]
        BY <1>12, <2>1 DEF Filled, Present, Env
      <3> QED
        BY <1>12, <2>1, <3>1 DEF Filled
    <2>2. CASE t # u
      BY <1>12, <2>2 DEF Filled
    <2> QED
      BY <2>1, <2>2
  <1>13. ASSUME NEW t \in Thread, Sum(t) PROVE ImageAt(u)'
    BY <1>13 DEF Sum
  <1>14. ASSUME NEW t \in Thread, Store(t) PROVE ImageAt(u)'
    BY <1>14 DEF Store
  <1>15. ASSUME NEW t \in Thread, Open(t) PROVE ImageAt(u)'
    BY <1>15 DEF Open
  <1>16. ASSUME NEW t \in Thread, SaveFails(t) PROVE ImageAt(u)'
    BY <1>16 DEF SaveFails
  <1>17. ASSUME NEW t \in Thread, WriteHead(t) PROVE ImageAt(u)'
    BY <1>17 DEF WriteHead
  <1>18. ASSUME NEW t \in Thread, WriteTail(t) PROVE ImageAt(u)'
    BY <1>18 DEF WriteTail
  <1>19. CASE UNCHANGED vars
    BY <1>19 DEF vars
  <1> QED
    BY <1>1, <1>2, <1>3, <1>4, <1>5, <1>6, <1>7, <1>8, <1>9, <1>10, <1>11,
       <1>12, <1>13, <1>14, <1>15, <1>16, <1>17, <1>18, <1>19
       DEF Next, InitStep, Update, UpdateStep

\* With one thread per process, whatever is written to the partition is the
\* whole memory of the process that writes, under its own checksum.
THEOREM ImageCorrect ==
  ASSUME OneThreadPerProcess
  PROVE  Spec => []ImageFollowsMemory
  <1>1. Init => TypeInv /\ ImageFollowsMemory
    BY TypeInit, ImageInit
  <1>2. TypeInv /\ ImageFollowsMemory /\ [Next]_vars => (TypeInv /\ ImageFollowsMemory)'
    BY TypeNext, ImageNext
  <1> QED
    BY <1>1, <1>2, PTL DEF Spec

-----------------------------------------------------------------------------
(* The steps of ubootenv.c as steps of EnvStore                            *)

LEMMA StoreInit == Init => Abstract!Init
  BY DEF Init, Abstract!Init, Abstract!Env, Env, durableBar, cachedBar, Valid

\* A step that leaves the partition alone and gives no process another
\* environment is a stuttering step of EnvStore.
LEMMA Stutter ==
  ASSUME disk' = disk, attrs' = attrs,
         \A p \in Proc : (st'[p] = "ready") <=> (st[p] = "ready")
  PROVE  UNCHANGED Abstract!vars
  BY DEF Abstract!vars, durableBar, cachedBar, Valid

\* A step that changes one process's environment, or gives or takes it.
LEMMA CacheStep ==
  ASSUME NEW p \in Proc, disk' = disk,
         \A q \in Proc \ {p} : st'[q] = st[q] /\ attrs'[q] = attrs[q]
  PROVE  /\ durableBar' = durableBar
         /\ cachedBar' = [cachedBar EXCEPT ![p] =
                            IF st'[p] = "ready" THEN attrs'[p] ELSE Unloaded]
  BY DEF durableBar, cachedBar, Valid

\* Storing the environment of a process in its memory is a Put.
LEMMA PutStep ==
  ASSUME TypeInv, NEW p \in Proc, NEW n \in Name, NEW v \in Value,
         st[p] = "ready", st' = st, disk' = disk,
         attrs' = [attrs EXCEPT ![p] = [@ EXCEPT ![n] = v]]
  PROVE  Abstract!Next
  <1>1. attrs \in [Proc -> Env] /\ st \in [Proc -> {"down", "init", "ready", "noenv"}]
    BY DEF TypeInv, TypeOK
  <1>2. cachedBar[p] = attrs[p] /\ cachedBar[p] # Unloaded
    BY <1>1, BootEnvAssumption DEF cachedBar, Env
  <1>3. /\ durableBar' = durableBar
        /\ cachedBar' = [cachedBar EXCEPT ![p] = attrs'[p]]
    BY <1>1, CacheStep
  <1>4. attrs'[p] = [cachedBar[p] EXCEPT ![n] = v]
    BY <1>1, <1>2
  <1>5. Abstract!Put(p, n, v)
    BY <1>2, <1>3, <1>4 DEF Abstract!Put
  <1> QED
    BY <1>5 DEF Abstract!Next

\* The write of either half of the image of a process that holds the
\* environment e leaves e in the partition, or nothing that can be read.
LEMMA WriteStep ==
  ASSUME TypeInv, NEW p \in Proc, st[p] = "ready", UNCHANGED <<st, attrs>>,
         Valid(disk)' => disk'.data = attrs[p]
  PROVE  Abstract!Next
  <1>1. attrs[p] \in Env
    BY DEF TypeInv, TypeOK
  <1>2. cachedBar[p] = attrs[p] /\ cachedBar[p] # Unloaded /\ cachedBar' = cachedBar
    BY <1>1, BootEnvAssumption DEF cachedBar, Env
  <1>3. CASE Valid(disk)'
    <2>1. durableBar' = cachedBar[p]
      BY <1>2, <1>3 DEF durableBar
    <2>2. Abstract!Commit(p)
      BY <1>2, <2>1 DEF Abstract!Commit
    <2> QED
      BY <2>2 DEF Abstract!Next
  <1>4. CASE ~Valid(disk)'
    <2>1. durableBar' = Corrupt
      BY <1>4 DEF durableBar
    <2>2. Abstract!Tear
      BY <1>2, <2>1 DEF Abstract!Tear
    <2> QED
      BY <2>2 DEF Abstract!Next
  <1> QED
    BY <1>3, <1>4

LEMMA StoreNext ==
  ASSUME OneThreadPerProcess, TypeInv, ImageFollowsMemory, [Next]_vars
  PROVE  [Abstract!Next]_(Abstract!vars)
  <1> USE BootEnvAssumption
  <1>a. /\ disk \in [crc : Env, data : Env]
        /\ st \in [Proc -> {"down", "init", "ready", "noenv"}]
        /\ attrs \in [Proc -> Env]
        /\ image \in [Proc -> [crc : Env, data : Env]]
    BY DEF TypeInv, TypeOK
  <1>b. ASSUME NEW t \in Thread, pc[t] # "idle"
        PROVE  Home[t] \in Proc /\ st[Home[t]] = "ready" /\ arg[t] \in Call
    BY <1>b DEF TypeInv, LoopsOK
  <1> USE DEF procVars, threadVars
  <1>1. ASSUME NEW p \in Proc, Start(p) PROVE UNCHANGED Abstract!vars
    <2>1. \A q \in Proc : (st'[q] = "ready") <=> (st[q] = "ready")
      BY <1>1, <1>a DEF Start
    <2> QED
      BY <1>1, <2>1, Stutter DEF Start
  <1>2. ASSUME NEW p \in Proc, ReadOk(p) PROVE [Abstract!Next]_(Abstract!vars)
    <2>1. /\ durableBar' = durableBar
          /\ cachedBar' = [cachedBar EXCEPT ![p] =
                             IF st'[p] = "ready" THEN attrs'[p] ELSE Unloaded]
      BY <1>2, <1>a, CacheStep DEF ReadOk
    <2>2. cachedBar[p] = Unloaded /\ durableBar = disk.data /\ attrs'[p] = disk.data
      BY <1>2, <1>a DEF ReadOk, cachedBar, durableBar
    <2>3. disk.data # Corrupt
      BY <1>a DEF Env
    <2>4. CASE st'[p] = "ready"
      <3>1. Abstract!Load(p)
        BY <2>1, <2>2, <2>3, <2>4 DEF Abstract!Load
      <3> QED
        BY <3>1 DEF Abstract!Next
    <2>5. CASE st'[p] # "ready"
      <3>1. Abstract!Forget(p)
        BY <2>1, <2>5 DEF Abstract!Forget
      <3> QED
        BY <3>1 DEF Abstract!Next
    <2> QED
      BY <2>4, <2>5
  <1>3. ASSUME NEW p \in Proc, ReadFails(p) PROVE UNCHANGED Abstract!vars
    <2>1. \A q \in Proc : (st'[q] = "ready") <=> (st[q] = "ready")
      BY <1>3, <1>a DEF ReadFails, AfterReads
    <2> QED
      BY <1>3, <2>1, Stutter DEF ReadFails
  <1>4. ASSUME NEW p \in Proc, Stop(p) PROVE Abstract!Next
    <2>1. /\ durableBar' = durableBar
          /\ cachedBar' = [cachedBar EXCEPT ![p] =
                             IF st'[p] = "ready" THEN attrs'[p] ELSE Unloaded]
      BY <1>4, <1>a, CacheStep DEF Stop
    <2>2. st'[p] # "ready"
      BY <1>4, <1>a DEF Stop
    <2>3. Abstract!Forget(p)
      BY <2>1, <2>2 DEF Abstract!Forget
    <2> QED
      BY <2>3 DEF Abstract!Next
  <1>5. ASSUME NEW t \in Thread, NEW c \in Call,
               UpdateNoInit(t, c) \/ UpdateSame(t, c) \/ UpdateBegin(t, c)
        PROVE  UNCHANGED Abstract!vars
    BY <1>5, Stutter DEF UpdateNoInit, UpdateSame, UpdateBegin
  <1>6. ASSUME NEW t \in Thread, Walk(t) PROVE [Abstract!Next]_(Abstract!vars)
    <2>1. CASE attrs[Home[t]][arg[t].name] # NoValue
      <3>1. attrs' = [attrs EXCEPT ![Home[t]] = [@ EXCEPT ![arg[t].name] = arg[t].value]]
        BY <1>6, <2>1 DEF Walk
      <3>2. pc[t] # "idle" /\ disk' = disk /\ st' = st
        BY <1>6 DEF Walk
      <3>3. arg[t].name \in Name /\ arg[t].value \in Value
        BY <1>b, <3>2 DEF Call
      <3> QED
        BY <1>b, <3>1, <3>2, <3>3, PutStep
    <2>2. CASE attrs[Home[t]][arg[t].name] = NoValue
      BY <1>6, <2>2, Stutter DEF Walk
    <2> QED
      BY <2>1, <2>2
  <1>7. ASSUME NEW t \in Thread, Link(t) PROVE Abstract!Next
    <2> DEFINE p == Home[t]
    <2>1. pc[t] = "link" /\ disk' = disk /\ st' = st
          /\ attrs' = [attrs EXCEPT ![p] = Linked(@, known[t], arg[t].name, arg[t].value)]
      BY <1>7 DEF Link
    <2>2. p \in Proc /\ st[p] = "ready" /\ arg[t].name \in Name /\ arg[t].value \in Value
      BY <1>b, <2>1 DEF Call
    <2>3. known[t] = Present(attrs[p])
      BY <2>1 DEF ImageFollowsMemory, ImageAt
    <2>4. Linked(attrs[p], known[t], arg[t].name, arg[t].value)
            = [attrs[p] EXCEPT ![arg[t].name] = arg[t].value]
      BY <1>a, <2>2, <2>3 DEF Linked, Present, Env
    <2>5. attrs' = [attrs EXCEPT ![p] = [@ EXCEPT ![arg[t].name] = arg[t].value]]
      BY <2>1, <2>4
    <2>6. st' = st /\ disk' = disk
      BY <2>1
    <2> HIDE DEF p
    <2> QED
      BY <2>2, <2>5, <2>6, PutStep
  <1>8. ASSUME NEW t \in Thread,
               \/ Clear(t) \/ Fill(t) \/ Filled(t) \/ Sum(t) \/ Store(t)
               \/ Open(t) \/ SaveFails(t)
        PROVE  UNCHANGED Abstract!vars
    BY <1>8, Stutter DEF Clear, Fill, Filled, Sum, Store, Open, SaveFails
  <1>9. ASSUME NEW t \in Thread, WriteHead(t) PROVE Abstract!Next
    <2>1. pc[t] = "head" /\ UNCHANGED <<st, attrs>>
          /\ disk'.crc = image[Home[t]].crc /\ disk'.data = disk.data
      BY <1>9, <1>a DEF WriteHead
    <2>2. image[Home[t]].crc = attrs[Home[t]]
      BY <2>1 DEF ImageFollowsMemory, ImageAt
    <2>3. Valid(disk)' => disk'.data = attrs[Home[t]]
      BY <2>1, <2>2 DEF Valid
    <2> QED
      BY <1>b, <2>1, <2>3, WriteStep
  <1>10. ASSUME NEW t \in Thread, WriteTail(t) PROVE [Abstract!Next]_(Abstract!vars)
    <2>1. pc[t] = "tail" /\ UNCHANGED <<st, attrs>>
      BY <1>10 DEF WriteTail
    <2>2. CASE disk' = [disk EXCEPT !.data = image[Home[t]].data]
      <3>1. image[Home[t]].data = attrs[Home[t]]
        BY <2>1 DEF ImageFollowsMemory, ImageAt
      <3>2. disk'.data = attrs[Home[t]]
        BY <2>2, <3>1, <1>a
      <3> QED
        BY <1>b, <2>1, <3>2, WriteStep
    <2>3. CASE disk' = disk
      BY <2>1, <2>3, Stutter
    <2> QED
      BY <1>10, <2>2, <2>3 DEF WriteTail
  <1>11. CASE UNCHANGED vars
    BY <1>11, Stutter DEF vars
  <1> QED
    BY <1>1, <1>2, <1>3, <1>4, <1>5, <1>6, <1>7, <1>8, <1>9, <1>10, <1>11
       DEF Next, InitStep, Update, UpdateStep

\* As long as every process calls bootenv_update from one thread, ubootenv.c
\* is an atomic store of whole environments that can at worst become
\* unreadable: in spite of failed and short writes, of processes that stop in
\* the middle of a save, and of other processes that save at the same time.
THEOREM Refinement ==
  ASSUME OneThreadPerProcess
  PROVE  Spec => ImplementsStore
  <1>1. Init => TypeInv /\ ImageFollowsMemory /\ Abstract!Init
    BY TypeInit, ImageInit, StoreInit
  <1>2. TypeInv /\ ImageFollowsMemory /\ [Next]_vars
          => (TypeInv /\ ImageFollowsMemory)' /\ [Abstract!Next]_(Abstract!vars)
    BY TypeNext, ImageNext, StoreNext
  <1> QED
    BY <1>1, <1>2, PTL DEF Spec, ImplementsStore, Abstract!Spec

-----------------------------------------------------------------------------
(* One thread: an update that saved has its value in the partition         *)

SaveInv == \A t \in Thread : SaveAt(t)

\* The value of a call is never NoValue, so it is read back as it is.
LEMMA SeenValue ==
  ASSUME NEW e, NEW c \in Call, e[c.name] = c.value
  PROVE  Seen(e, c.name) = c.value
  BY BootEnvAssumption DEF Seen, Call

LEMMA SaveNext ==
  ASSUME OneThread, ~ShortWrites, TypeInv, TypeInv', ImageFollowsMemory, SaveInv,
         [Next]_vars
  PROVE  SaveInv'
  <1> SUFFICES ASSUME NEW t \in Thread PROVE SaveAt(t)'
    BY DEF SaveInv
  <1>a. SaveAt(t) /\ ImageAt(t) /\ Home[t] \in Proc
    BY BootEnvAssumption DEF SaveInv, ImageFollowsMemory
  <1>b. \A u \in Thread : u = t
    BY DEF OneThread
  <1>c. pc[t] # "idle" => st[Home[t]] = "ready" /\ arg[t] \in Call
    BY DEF TypeInv, LoopsOK
  <1>d. /\ disk \in [crc : Env, data : Env]
        /\ st \in [Proc -> {"down", "init", "ready", "noenv"}]
        /\ attrs \in [Proc -> Env]
        /\ pc \in [Thread -> Busy \cup {"idle"}]
        /\ arg \in [Thread -> Call \cup {NoValue}]
        /\ ret \in [Thread -> {"none", "noinit", "same", "saved", "failed"}]
    BY DEF TypeInv, TypeOK
  <1> USE <1>a, <1>b, <1>c, <1>d
  <1> USE DEF procVars, threadVars, Goto, Return, SaveAt, OnDisk, Valid, Busy
  <1>1. ASSUME NEW p \in Proc, Start(p) PROVE SaveAt(t)'
    BY <1>1 DEF Start
  <1>2. ASSUME NEW p \in Proc, ReadOk(p) PROVE SaveAt(t)'
    <2>1. Home[t] = p => pc[t] = "idle"
      BY <1>2 DEF ReadOk
    <2> QED
      BY <1>2, <2>1 DEF ReadOk
  <1>3. ASSUME NEW p \in Proc, ReadFails(p) PROVE SaveAt(t)'
    BY <1>3 DEF ReadFails
  <1>4. ASSUME NEW p \in Proc, Stop(p) PROVE SaveAt(t)'
    <2>1. CASE Home[t] = p
      BY <1>4, <2>1 DEF Stop
    <2>2. CASE Home[t] # p
      BY <1>4, <2>2 DEF Stop
    <2> QED
      BY <2>1, <2>2
  <1>5. ASSUME NEW c \in Call, UpdateNoInit(t, c) PROVE SaveAt(t)'
    BY <1>5 DEF UpdateNoInit
  <1>6. ASSUME NEW c \in Call, UpdateSame(t, c) PROVE SaveAt(t)'
    BY <1>6 DEF UpdateSame
  <1>7. ASSUME NEW c \in Call, UpdateBegin(t, c) PROVE SaveAt(t)'
    BY <1>7 DEF UpdateBegin
  <1>8. ASSUME Walk(t) PROVE SaveAt(t)'
    <2>1. arg[t].name \in Name
      BY <1>8 DEF Walk, Call
    <2>2. CASE attrs[Home[t]][arg[t].name] # NoValue
      <3>1. attrs' = [attrs EXCEPT ![Home[t]][arg[t].name] = arg[t].value]
        BY <1>8, <2>2 DEF Walk
      <3>2. attrs'[Home[t]][arg[t].name] = arg[t].value
        BY <2>1, <3>1 DEF Env
      <3> QED
        BY <1>8, <2>2, <3>2 DEF Walk
    <2>3. CASE attrs[Home[t]][arg[t].name] = NoValue
      BY <1>8, <2>3 DEF Walk
    <2> QED
      BY <2>2, <2>3
  <1>9. ASSUME Link(t) PROVE SaveAt(t)'
    <2>1. attrs'[Home[t]][arg[t].name] = arg[t].value
      BY <1>9 DEF Link, Linked, Call
    <2> QED
      BY <1>9, <2>1 DEF Link
  <1>10. ASSUME Clear(t) \/ Fill(t) \/ Filled(t) \/ Sum(t) \/ Store(t) \/ Open(t)
         PROVE  SaveAt(t)'
    BY <1>10 DEF Clear, Fill, Filled, Sum, Store, Open
  <1>11. ASSUME SaveFails(t) PROVE SaveAt(t)'
    <2>1. CASE saves[t] < MaxRetry
      BY <1>11, <2>1 DEF SaveFails
    <2>2. CASE ~(saves[t] < MaxRetry)
      BY <1>11, <2>2 DEF SaveFails
    <2> QED
      BY <2>1, <2>2
  <1>12. ASSUME WriteHead(t) PROVE SaveAt(t)'
    BY <1>12, ImageAt(t) DEF WriteHead, ImageAt
  <1>13. ASSUME WriteTail(t) PROVE SaveAt(t)'
    <2>1. /\ pc[t] = "tail" /\ arg' = arg
          /\ disk' = [disk EXCEPT !.data = image[Home[t]].data]
          /\ pc'[t] = "idle"
      BY <1>13 DEF WriteTail
    <2>2. disk'.data = attrs[Home[t]] /\ disk'.crc = attrs[Home[t]]
      BY <2>1 DEF ImageAt
    <2>3. Seen(disk'.data, arg[t].name) = arg[t].value
      BY <2>1, <2>2, SeenValue
    <2> QED
      BY <2>1, <2>2, <2>3 DEF Seen
  <1>14. CASE UNCHANGED vars
    BY <1>14 DEF vars
  <1> QED
    BY <1>1, <1>2, <1>3, <1>4, <1>5, <1>6, <1>7, <1>8, <1>9, <1>10, <1>11,
       <1>12, <1>13, <1>14
       DEF Next, InitStep, Update, UpdateStep

\* When the callers take turns and write never stops short, an update that
\* returned 0 after saving has its value in the partition, under a checksum
\* that the next bootenv_init accepts, however many saves failed before.
THEOREM SavedIsStored ==
  ASSUME OneThread, ~ShortWrites
  PROVE  Spec => []SavedMeansStored
  <1> DEFINE Inv == TypeInv /\ ImageFollowsMemory /\ SaveInv
  <1>0. OneThreadPerProcess
    BY DEF OneThread, OneThreadPerProcess
  <1>1. Init => Inv
    <2>1. Init => SaveInv
      BY DEF Init, SaveInv, SaveAt, Busy
    <2> QED
      BY <2>1, TypeInit, ImageInit
  <1>2. Inv /\ [Next]_vars => Inv'
    BY <1>0, TypeNext, ImageNext, SaveNext
  <1>3. Inv => SavedMeansStored
    BY DEF SaveInv, SaveAt, SavedMeansStored
  <1> HIDE DEF Inv
  <1> QED
    BY <1>1, <1>2, <1>3, PTL DEF Spec

-----------------------------------------------------------------------------
(* One process, one thread: no variable of the partition is forgotten      *)

LEMMA KnownNext ==
  ASSUME OneProcess, TypeInv, ImageFollowsMemory, StoredVariablesKnown, [Next]_vars
  PROVE  StoredVariablesKnown'
  <1> SUFFICES ASSUME NEW q \in Proc, (st[q] = "ready" /\ Valid(disk))'
               PROVE  (Present(disk.data) \subseteq Present(attrs[q]))'
    BY DEF StoredVariablesKnown
  <1>a. st[q] = "ready" /\ Valid(disk) => Present(disk.data) \subseteq Present(attrs[q])
    BY DEF StoredVariablesKnown
  <1>b. \A p \in Proc : p = q
    BY DEF OneProcess
  <1>c. ASSUME NEW t \in Thread, pc[t] # "idle"
        PROVE  Home[t] = q /\ st[q] = "ready" /\ arg[t] \in Call
    BY <1>b, <1>c, BootEnvAssumption DEF TypeInv, LoopsOK
  <1>d. /\ disk \in [crc : Env, data : Env]
        /\ st \in [Proc -> {"down", "init", "ready", "noenv"}]
        /\ attrs \in [Proc -> Env]
    BY DEF TypeInv, TypeOK
  <1> USE <1>a, <1>b, <1>d
  <1> USE DEF procVars, threadVars
  <1>1. ASSUME NEW p \in Proc, Start(p) PROVE FALSE
    BY <1>1 DEF Start
  <1>2. ASSUME NEW p \in Proc, ReadOk(p)
        PROVE  (Present(disk.data) \subseteq Present(attrs[q]))'
    <2>1. attrs'[q] = disk.data /\ disk' = disk
      BY <1>2 DEF ReadOk
    <2> QED
      BY <2>1 DEF Present
  <1>3. ASSUME NEW p \in Proc, ReadFails(p)
        PROVE  (Present(disk.data) \subseteq Present(attrs[q]))'
    BY <1>3 DEF ReadFails, AfterReads
  <1>4. ASSUME NEW p \in Proc, Stop(p) PROVE FALSE
    BY <1>4 DEF Stop
  <1>5. ASSUME UNCHANGED <<disk, st, attrs>>
        PROVE  (Present(disk.data) \subseteq Present(attrs[q]))'
    BY <1>5 DEF Present, Valid
  <1>6. ASSUME NEW t \in Thread, Walk(t)
        PROVE  (Present(disk.data) \subseteq Present(attrs[q]))'
    <2>1. Home[t] = q /\ arg[t].name \in Name /\ arg[t].value # NoValue
          /\ st[q] = "ready" /\ disk' = disk
      BY <1>6, <1>c, BootEnvAssumption DEF Walk, Call
    <2>2. attrs' = attrs \/ attrs' = [attrs EXCEPT ![q][arg[t].name] = arg[t].value]
      BY <1>6, <2>1 DEF Walk
    <2>3. Present(attrs[q]) \subseteq Present(attrs'[q])
      BY <2>1, <2>2 DEF Present, Env
    <2> QED
      BY <2>1, <2>3 DEF Present, Valid
  <1>7. ASSUME NEW t \in Thread, Link(t)
        PROVE  (Present(disk.data) \subseteq Present(attrs[q]))'
    <2>1. Home[t] = q /\ arg[t].value # NoValue /\ st[q] = "ready" /\ disk' = disk
      BY <1>7, <1>c, BootEnvAssumption DEF Link, Call
    <2>2. known[t] = Present(attrs[q])
      BY <1>7, <2>1 DEF Link, ImageFollowsMemory, ImageAt
    <2>3. attrs'[q] = Linked(attrs[q], known[t], arg[t].name, arg[t].value)
      BY <1>7, <2>1 DEF Link
    <2>4. Present(attrs[q]) \subseteq Present(attrs'[q])
      BY <2>1, <2>2, <2>3 DEF Present, Linked
    <2> QED
      BY <2>1, <2>4 DEF Present, Valid
  <1>8. ASSUME NEW t \in Thread, WriteHead(t)
        PROVE  (Present(disk.data) \subseteq Present(attrs[q]))'
    <2>1. Home[t] = q /\ image[q].crc = attrs[q]
      BY <1>8, <1>c DEF WriteHead, ImageFollowsMemory, ImageAt
    <2>2. disk'.crc = attrs[q] /\ attrs' = attrs
      BY <1>8, <2>1 DEF WriteHead
    <2>3. disk'.data = attrs'[q]
      BY <2>2 DEF Valid
    <2> QED
      BY <2>3 DEF Present
  <1>9. ASSUME NEW t \in Thread, WriteTail(t)
        PROVE  (Present(disk.data) \subseteq Present(attrs[q]))'
    <2>1. Home[t] = q /\ image[q].data = attrs[q] /\ st' = st /\ attrs' = attrs
      BY <1>9, <1>c DEF WriteTail, ImageFollowsMemory, ImageAt
    <2>2. CASE disk' = [disk EXCEPT !.data = image[q].data]
      BY <2>1, <2>2 DEF Present
    <2>3. CASE disk' = disk
      BY <2>1, <2>3, <1>5
    <2> QED
      BY <1>9, <2>1, <2>2, <2>3 DEF WriteTail
  <1>10. ASSUME NEW t \in Thread,
                \/ Update(t) \/ Clear(t) \/ Fill(t) \/ Filled(t) \/ Sum(t)
                \/ Store(t) \/ Open(t) \/ SaveFails(t)
         PROVE  UNCHANGED <<disk, st, attrs>>
    BY <1>10 DEF Update, UpdateNoInit, UpdateSame, UpdateBegin,
                 Clear, Fill, Filled, Sum, Store, Open, SaveFails
  <1>11. CASE UNCHANGED vars
    BY <1>5, <1>11 DEF vars
  <1> QED
    BY <1>1, <1>2, <1>3, <1>4, <1>5, <1>6, <1>7, <1>8, <1>9, <1>10, <1>11
       DEF Next, InitStep, UpdateStep

\* A service that is the only one to use the partition, and whose callers
\* take turns, never drops a variable with a save.
THEOREM VariablesKept ==
  ASSUME OneThread, OneProcess
  PROVE  Spec => []StoredVariablesKnown
  <1> DEFINE Inv == TypeInv /\ ImageFollowsMemory /\ StoredVariablesKnown
  <1>0. OneThreadPerProcess
    BY DEF OneThread, OneThreadPerProcess
  <1>1. Init => Inv
    <2>1. Init => StoredVariablesKnown
      BY DEF Init, StoredVariablesKnown
    <2> QED
      BY <2>1, TypeInit, ImageInit
  <1>2. Inv /\ [Next]_vars => Inv'
    BY <1>0, TypeNext, ImageNext, KnownNext
  <1> HIDE DEF Inv
  <1>3. Inv => StoredVariablesKnown
    BY DEF Inv
  <1> QED
    BY <1>1, <1>2, <1>3, PTL DEF Spec
=============================================================================
