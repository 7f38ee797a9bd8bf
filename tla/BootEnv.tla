------------------------------ MODULE BootEnv ------------------------------
(***************************************************************************)
(* services/systemcontrol/ubootenv.c: the u-boot environment, kept in the  *)
(* memory of every process that links it (the system_control service, the  *)
(* recovery service, the setbootenv and getbootenv commands) and saved as  *)
(* one checksummed image in a raw partition.                               *)
(*                                                                         *)
(* Nothing in ubootenv.c takes a lock, and the threads of the binder pool  *)
(* (in other builds an HDMI plug thread, too) call bootenv_update, so an   *)
(* update is modelled step by step and the steps of different threads      *)
(* interleave.                                                             *)
(*                                                                         *)
(* Data abstractions.  An environment maps a variable to its value or to   *)
(* NoValue; the order of the attribute list is left out, so that filling   *)
(* the image takes the variables in any order.  A checksum is the          *)
(* environment it was computed from (crc32 has no collision).  The read of *)
(* the partition is atomic; the write is not: the checksum, which comes    *)
(* first in the image, reaches the partition before the data.              *)
(***************************************************************************)
EXTENDS Naturals

CONSTANTS
  Proc,        \* processes that link ubootenv.c
  Thread,      \* threads that call bootenv_update
  Home,        \* the process of each thread
  Name,        \* variables (their names without the ubootenv.var. prefix)
  Value,       \* values
  Empty,       \* the empty string
  NoValue,     \* the variable is not in the attribute list
  MaxRetry,    \* MAX_UBOOT_RWRETRY
  IoErrors,    \* may open, read, malloc and write fail?
  ShortWrites, \* may write store less than it was given?
  MaxStops,    \* bound: how often processes may stop
  Corrupt,     \* what EnvStore says of a partition that cannot be read
  Unloaded     \* what EnvStore says of a process without an environment

ASSUME BootEnvAssumption ==
  /\ Home \in [Thread -> Proc]
  /\ Empty \in Value
  /\ NoValue \notin Value
  /\ MaxRetry \in Nat \ {0}
  /\ MaxStops \in Nat
  /\ IoErrors \in BOOLEAN
  /\ ShortWrites \in BOOLEAN
  /\ Corrupt \notin [Name -> Value \cup {NoValue}]
  /\ Unloaded \notin [Name -> Value \cup {NoValue}] \cup {Corrupt}

VARIABLES
  disk,   \* the image in the partition: [crc, data]
  st,     \* per process: "down", "init", "ready" (ENT_INIT_DONE), "noenv"
  reads,  \* per process: i of bootenv_init
  attrs,  \* per process: the list at env_attribute_header
  image,  \* per process: env_data, the image that is built and written
  pc,     \* per thread: where in bootenv_update it is
  arg,    \* per thread: the name and value of its last call
  known,  \* per thread: the variables bootenv_set_value walked past
  done,   \* per thread: the variables env_revert_attribute has printed
  sum,    \* per thread: what crc32 returned
  saves,  \* per thread: i of bootenv_update
  ret,    \* per thread: how its last call ended
  stops   \* how many processes have stopped so far

procVars == <<st, reads, attrs, image>>
threadVars == <<pc, arg, known, done, sum, saves, ret>>
vars == <<disk, procVars, threadVars, stops>>

Env == [Name -> Value \cup {NoValue}]
NoEnv == [n \in Name |-> NoValue]
Present(e) == {n \in Name : e[n] # NoValue}

\* read_bootenv accepts an image whose checksum matches its data.
Valid(img) == img.crc = img.data

\* bootenv_get_value, with the NULL of a missing variable read as "".
Seen(e, n) == IF e[n] = NoValue THEN Empty ELSE e[n]

Call == [name : Name, value : Value]

\* Where a thread is inside bootenv_update, in the order of the code.
Busy == {"walk", "link", "clear", "fill", "sum", "store", "open", "head", "tail"}

Init ==
  /\ \E e \in Env : disk = [crc |-> e, data |-> e]
  /\ st = [p \in Proc |-> "down"]
  /\ reads = [p \in Proc |-> 0]
  /\ attrs = [p \in Proc |-> NoEnv]
  /\ image = [p \in Proc |-> [crc |-> NoEnv, data |-> NoEnv]]
  /\ pc = [t \in Thread |-> "idle"]
  /\ arg = [t \in Thread |-> NoValue]
  /\ known = [t \in Thread |-> {}]
  /\ done = [t \in Thread |-> {}]
  /\ sum = [t \in Thread |-> NoEnv]
  /\ saves = [t \in Thread |-> 0]
  /\ ret = [t \in Thread |-> "none"]
  /\ stops = 0

-----------------------------------------------------------------------------
(* bootenv_init, called once by a process before it calls anything else.   *)

Start(p) ==
  /\ st[p] = "down"
  /\ st' = [st EXCEPT ![p] = "init"]
  /\ UNCHANGED <<disk, reads, attrs, image, threadVars, stops>>

\* Mutant: the loop goes round once too often.
AfterReadsLate(i, ok) ==
  IF i > MaxRetry THEN "noenv" ELSE IF ok THEN "ready" ELSE "init"

\* After the loop: i >= MAX_UBOOT_RWRETRY returns -2 whatever the last read
\* returned, and only then bootenv_props_load sets ENT_INIT_DONE.
AfterReads(i, ok) ==
  IF i >= MaxRetry THEN "noenv" ELSE IF ok THEN "ready" ELSE "init"

\* read_bootenv finds an image whose checksum matches and parses it.
ReadOk(p) ==
  /\ st[p] = "init"
  /\ Valid(disk)
  /\ reads' = [reads EXCEPT ![p] = @ + 1]
  /\ attrs' = [attrs EXCEPT ![p] = disk.data]
  /\ image' = [image EXCEPT ![p] = disk]
  /\ st' = [st EXCEPT ![p] = AfterReads(reads[p] + 1, TRUE)]
  /\ UNCHANGED <<disk, threadVars, stops>>

\* read_bootenv cannot open, allocate or read, or the checksum is wrong.
ReadFails(p) ==
  /\ st[p] = "init"
  /\ IoErrors \/ ~Valid(disk)
  /\ reads' = [reads EXCEPT ![p] = @ + 1]
  /\ st' = [st EXCEPT ![p] = AfterReads(reads[p] + 1, FALSE)]
  /\ UNCHANGED <<disk, attrs, image, threadVars, stops>>

-----------------------------------------------------------------------------
(* bootenv_update(name, value)                                             *)

Goto(t, l) == pc' = [pc EXCEPT ![t] = l]

\* The call returns; its locals are gone.
Return(t, r) ==
  /\ Goto(t, "idle")
  /\ ret' = [ret EXCEPT ![t] = r]
  /\ known' = [known EXCEPT ![t] = {}]
  /\ done' = [done EXCEPT ![t] = {}]
  /\ sum' = [sum EXCEPT ![t] = NoEnv]
  /\ saves' = [saves EXCEPT ![t] = 0]

\* Without ENT_INIT_DONE the call returns -1 and nothing is looked at.
UpdateNoInit(t, c) ==
  /\ pc[t] = "idle"
  /\ st[Home[t]] = "noenv"
  /\ arg' = [arg EXCEPT ![t] = c]
  /\ Return(t, "noinit")
  /\ UNCHANGED <<disk, procVars, stops>>

\* The value is what memory already holds: 0 is returned, nothing is saved.
UpdateSame(t, c) ==
  /\ pc[t] = "idle"
  /\ st[Home[t]] = "ready"
  /\ Seen(attrs[Home[t]], c.name) = c.value
  /\ arg' = [arg EXCEPT ![t] = c]
  /\ Return(t, "same")
  /\ UNCHANGED <<disk, procVars, stops>>

UpdateBegin(t, c) ==
  /\ pc[t] = "idle"
  /\ st[Home[t]] = "ready"
  /\ Seen(attrs[Home[t]], c.name) # c.value
  /\ arg' = [arg EXCEPT ![t] = c]
  /\ ret' = [ret EXCEPT ![t] = "none"]
  /\ Goto(t, "walk")
  /\ UNCHANGED <<disk, procVars, known, done, sum, saves, stops>>

\* bootenv_set_value, the loop: a variable of the list is overwritten in
\* place; otherwise the thread remembers the end of the list it has walked.
Walk(t) ==
  LET p == Home[t]
      n == arg[t].name
  IN /\ pc[t] = "walk"
     /\ IF attrs[p][n] # NoValue
        THEN /\ attrs' = [attrs EXCEPT ![p][n] = arg[t].value]
             /\ Goto(t, "clear")
             /\ UNCHANGED known
        ELSE /\ known' = [known EXCEPT ![t] = Present(attrs[p])]
             /\ Goto(t, "link")
             /\ UNCHANGED attrs
     /\ UNCHANGED <<disk, st, reads, image, arg, done, sum, saves, ret, stops>>

\* Mutant: the new attribute is linked to the header of the list.
LinkedFirst(e, ns, n, v) == [m \in Name |-> IF m = n THEN v ELSE NoValue]

\* e as bootenv_set_value leaves it when it links a new last attribute after
\* the ones in ns: whatever was linked there in the meantime is dropped.
Linked(e, ns, n, v) ==
  [m \in Name |-> IF m = n THEN v ELSE IF m \in ns THEN e[m] ELSE NoValue]

\* bootenv_set_value, creat_args_flag: last->next = attr.
Link(t) ==
  LET p == Home[t]
  IN /\ pc[t] = "link"
     /\ attrs' = [attrs EXCEPT
                   ![p] = Linked(@, known[t], arg[t].name, arg[t].value)]
     /\ known' = [known EXCEPT ![t] = {}]
     /\ Goto(t, "clear")
     /\ UNCHANGED <<disk, st, reads, image, arg, done, sum, saves, ret, stops>>

\* The head of the save loop and env_revert_attribute's memset.
Clear(t) ==
  LET p == Home[t]
  IN /\ pc[t] = "clear"
     /\ saves' = [saves EXCEPT ![t] = @ + 1]
     /\ image' = [image EXCEPT ![p].data = NoEnv]
     /\ done' = [done EXCEPT ![t] = {}]
     /\ Goto(t, "fill")
     /\ UNCHANGED <<disk, st, reads, attrs, arg, known, sum, ret, stops>>

\* env_revert_attribute prints one attribute into the image.
Fill(t) ==
  LET p == Home[t]
  IN /\ pc[t] = "fill"
     /\ \E n \in Present(attrs[p]) \ done[t] :
          /\ image' = [image EXCEPT ![p].data[n] = attrs[p][n]]
          /\ done' = [done EXCEPT ![t] = @ \cup {n}]
     /\ UNCHANGED <<disk, st, reads, attrs, pc, arg, known, sum, saves, ret, stops>>

\* Mutant: the loop stops at the last attribute instead of after it.
FilledEarly(t) ==
  /\ pc[t] = "fill"
  /\ \E n \in Name : Present(attrs[Home[t]]) \ {n} \subseteq done[t]
  /\ Goto(t, "sum")
  /\ UNCHANGED <<disk, procVars, arg, known, done, sum, saves, ret, stops>>

\* Mutant: the loop compares what it has printed with the list as it is now.
FilledExact(t) ==
  /\ pc[t] = "fill"
  /\ Present(attrs[Home[t]]) = done[t]
  /\ Goto(t, "sum")
  /\ UNCHANGED <<disk, procVars, arg, known, done, sum, saves, ret, stops>>

\* env_revert_attribute reaches the end of the list.
Filled(t) ==
  /\ pc[t] = "fill"
  /\ Present(attrs[Home[t]]) \subseteq done[t]
  /\ Goto(t, "sum")
  /\ UNCHANGED <<disk, procVars, arg, known, done, sum, saves, ret, stops>>

\* save_bootenv computes the checksum over the image ...
Sum(t) ==
  /\ pc[t] = "sum"
  /\ sum' = [sum EXCEPT ![t] = image[Home[t]].data]
  /\ Goto(t, "store")
  /\ UNCHANGED <<disk, procVars, arg, known, done, saves, ret, stops>>

\* Mutant: the checksum is computed and not stored.
StoreNothing(t) ==
  /\ pc[t] = "store"
  /\ Goto(t, "open")
  /\ UNCHANGED <<disk, procVars, arg, known, done, sum, saves, ret, stops>>

\* ... and stores it into the image.
Store(t) ==
  /\ pc[t] = "store"
  /\ image' = [image EXCEPT ![Home[t]].crc = sum[t]]
  /\ Goto(t, "open")
  /\ UNCHANGED <<disk, st, reads, attrs, arg, known, done, sum, saves, ret, stops>>

Open(t) ==
  /\ pc[t] = "open"
  /\ Goto(t, "head")
  /\ UNCHANGED <<disk, procVars, arg, known, done, sum, saves, ret, stops>>

\* save_bootenv returns < 0 with the partition as it was: the partition
\* cannot be opened, or write fails.  The loop goes round again while
\* i < MAX_UBOOT_RWRETRY, else bootenv_update returns the error.
SaveFails(t) ==
  /\ pc[t] \in {"open", "head"}
  /\ IoErrors
  /\ IF saves[t] < MaxRetry
     THEN /\ Goto(t, "clear")
          /\ UNCHANGED <<known, done, sum, saves, ret>>
     ELSE Return(t, "failed")
  /\ UNCHANGED <<disk, procVars, arg, stops>>

\* write stores the beginning of the image, where the checksum is ...
WriteHead(t) ==
  /\ pc[t] = "head"
  /\ disk' = [disk EXCEPT !.crc = image[Home[t]].crc]
  /\ Goto(t, "tail")
  /\ UNCHANGED <<procVars, arg, known, done, sum, saves, ret, stops>>

\* ... and the rest, unless it stops short: its result is only compared with
\* 0, so that save_bootenv and bootenv_update return 0 either way.
WriteTail(t) ==
  /\ pc[t] = "tail"
  /\ \/ disk' = [disk EXCEPT !.data = image[Home[t]].data]
     \/ ShortWrites /\ UNCHANGED disk
  /\ Return(t, "saved")
  /\ UNCHANGED <<procVars, arg, stops>>

-----------------------------------------------------------------------------
(* A process ends or is killed, at any point of an update.                 *)

Stop(p) ==
  /\ stops < MaxStops
  /\ st[p] # "down"
  /\ stops' = stops + 1
  /\ st' = [st EXCEPT ![p] = "down"]
  /\ reads' = [reads EXCEPT ![p] = 0]
  /\ attrs' = [attrs EXCEPT ![p] = NoEnv]
  /\ image' = [image EXCEPT ![p] = [crc |-> NoEnv, data |-> NoEnv]]
  /\ pc' = [t \in Thread |-> IF Home[t] = p THEN "idle" ELSE pc[t]]
  /\ arg' = [t \in Thread |-> IF Home[t] = p THEN NoValue ELSE arg[t]]
  /\ known' = [t \in Thread |-> IF Home[t] = p THEN {} ELSE known[t]]
  /\ done' = [t \in Thread |-> IF Home[t] = p THEN {} ELSE done[t]]
  /\ sum' = [t \in Thread |-> IF Home[t] = p THEN NoEnv ELSE sum[t]]
  /\ saves' = [t \in Thread |-> IF Home[t] = p THEN 0 ELSE saves[t]]
  /\ ret' = [t \in Thread |-> IF Home[t] = p THEN "none" ELSE ret[t]]
  /\ UNCHANGED disk

-----------------------------------------------------------------------------
InitStep(p) == ReadOk(p) \/ ReadFails(p)

\* A step inside bootenv_update.
UpdateStep(t) ==
  \/ Walk(t) \/ Link(t)
  \/ Clear(t) \/ Fill(t) \/ Filled(t)
  \/ Sum(t) \/ Store(t)
  \/ Open(t) \/ SaveFails(t) \/ WriteHead(t) \/ WriteTail(t)

Update(t) ==
  \E c \in Call : UpdateNoInit(t, c) \/ UpdateSame(t, c) \/ UpdateBegin(t, c)

Next ==
  \/ \E p \in Proc : Start(p) \/ InitStep(p) \/ Stop(p)
  \/ \E t \in Thread : Update(t) \/ UpdateStep(t)

Spec == Init /\ [][Next]_vars

\* The scheduler runs a process that is in bootenv_init and a thread that is
\* in bootenv_update; nobody has to call, and nobody has to fail or stop.
Fairness ==
  /\ \A p \in Proc : WF_vars(InitStep(p))
  /\ \A t \in Thread : WF_vars(UpdateStep(t))

FairSpec == Spec /\ Fairness

-----------------------------------------------------------------------------
(* Properties                                                              *)

\* The type of every variable.
TypeOK ==
  /\ disk \in [crc : Env, data : Env]
  /\ st \in [Proc -> {"down", "init", "ready", "noenv"}]
  /\ reads \in [Proc -> 0 .. MaxRetry]
  /\ attrs \in [Proc -> Env]
  /\ image \in [Proc -> [crc : Env, data : Env]]
  /\ pc \in [Thread -> Busy \cup {"idle"}]
  /\ arg \in [Thread -> Call \cup {NoValue}]
  /\ known \in [Thread -> SUBSET Name]
  /\ done \in [Thread -> SUBSET Name]
  /\ sum \in [Thread -> Env]
  /\ saves \in [Thread -> 0 .. MaxRetry]
  /\ ret \in [Thread -> {"none", "noinit", "same", "saved", "failed"}]
  /\ stops \in 0 .. MaxStops

\* What the retry loops and the calls leave behind, wherever they are.
LoopsOK ==
  /\ \A p \in Proc : st[p] = "down" => reads[p] = 0
  /\ \A p \in Proc : st[p] = "init" => reads[p] < MaxRetry
  /\ \A t \in Thread : pc[t] \in {"idle", "walk", "link", "clear"} => saves[t] < MaxRetry
  /\ \A t \in Thread : pc[t] # "idle" => arg[t] \in Call /\ st[Home[t]] = "ready"

\* No thread is inside bootenv_update.
Quiescent == \A t \in Thread : pc[t] = "idle"

\* The value a call was given can be read back from the partition.
OnDisk(t) ==
  /\ Valid(disk)
  /\ Seen(disk.data, arg[t].name) = arg[t].value

\* Once the threads are done, an update that saved and returned 0 left a
\* partition that can be read and that holds its value.
SavedMeansStored ==
  Quiescent => \A t \in Thread : ret[t] = "saved" => OnDisk(t)

\* The weaker half of it, which should survive whatever the threads do: once
\* they are done and one of them has saved and returned 0 (and has logged "Save
\* ubootenv to ... succeed!", unless it was the last try), the checksum is right.
SavedMeansReadable ==
  Quiescent => \A t \in Thread : ret[t] = "saved" => Valid(disk)

\* A process that answers for the environment knows every variable that the
\* partition holds, so that its next save drops none.
StoredVariablesKnown ==
  \A p \in Proc :
    st[p] = "ready" /\ Valid(disk) => Present(disk.data) \subseteq Present(attrs[p])

\* Every call of bootenv_update returns, however often saving fails.
UpdatesReturn == \A t \in Thread : pc[t] # "idle" ~> pc[t] = "idle"

-----------------------------------------------------------------------------
(* With one thread per process the image is a detail: the processes only   *)
(* see whole environments, or a partition that cannot be read.             *)

OneThreadPerProcess == \A t, u \in Thread : Home[t] = Home[u] => t = u

\* From the walk of the list to the write, what a thread has built is what the
\* memory of its process holds: the part of it that was printed so far, then
\* all of it, then all of it under its checksum.
ImageAt(t) ==
  LET e == attrs[Home[t]]
      img == image[Home[t]]
  IN /\ pc[t] = "link" => known[t] = Present(e)
     /\ pc[t] = "fill" =>
          /\ done[t] \subseteq Present(e)
          /\ img.data = [n \in Name |-> IF n \in done[t] THEN e[n] ELSE NoValue]
     /\ pc[t] \in {"sum", "store", "open", "head", "tail"} => img.data = e
     /\ pc[t] = "store" => sum[t] = e
     /\ pc[t] \in {"open", "head", "tail"} => img.crc = e

ImageFollowsMemory == \A t \in Thread : ImageAt(t)

\* What a save by the only thread has achieved at each point of it: the value
\* is in memory, the checksum is in the partition, the value can be read back.
SaveAt(t) ==
  /\ pc[t] # "idle" => ret[t] = "none"
  /\ pc[t] \in Busy \ {"walk", "link"} => attrs[Home[t]][arg[t].name] = arg[t].value
  /\ pc[t] = "tail" => disk.crc = attrs[Home[t]]
  /\ ret[t] = "saved" => arg[t] \in Call /\ OnDisk(t)

OneThread == \A t, u \in Thread : t = u
OneProcess == \A p, q \in Proc : p = q

durableBar == IF Valid(disk) THEN disk.data ELSE Corrupt
cachedBar == [p \in Proc |-> IF st[p] = "ready" THEN attrs[p] ELSE Unloaded]

Abstract == INSTANCE EnvStore WITH durable <- durableBar, cached <- cachedBar

\* The partition only ever goes from one whole environment to another that a
\* process holds, or to one that the checksum shows to be unreadable; an
\* update changes one variable of a process's memory.
ImplementsStore == Abstract!Spec
=============================================================================
