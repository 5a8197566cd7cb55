--------------------------- MODULE HarnessProofs ---------------------------
(* The lock of internal/terraform protects the plugin cache from an init,   *)
(* for every number of concurrent reconciles, expired contexts and changes  *)
(* of pluginCache, as far as the processes are supervised.                  *)
EXTENDS Harness, TLAPS

Constants == HarnessConstants /\ NoCommandIsNew

Busy == {"run", "stopping"}

\* Who holds a read lock.
ReadersOK == \A c \in Callers : c \in readers <=> at[c] \in Busy /\ Locks(c, Readers)

\* Who holds the write lock, or has announced it.
WriterOK ==
    \A c \in Callers :
        /\ at[c] \in Busy /\ Locks(c, Writers) => writer = c /\ readers = {}
        /\ at[c] = "wait" /\ Locks(c, Writers) => writer = c
        /\ writer = c => at[c] \in Busy \cup {"wait"} /\ Locks(c, Writers)

\* Only commands with a lock wait for one, and only while somebody will let
\* them in: a reader waits for a writer, a writer has announced itself.
WaitOK == \A c \in Callers : at[c] = "wait" =>
              Locks(c, Readers \cup Writers) /\ writer # Nobody

LockOK == ReadersOK /\ WriterOK /\ WaitOK

\* The inductive invariant.
HInv == TypeOK /\ LockOK

-----------------------------------------------------------------------------
(* The commands                                                            *)

LEMMA KindsApart ==
    ASSUME Constants
    PROVE  /\ Readers \cap Writers = {}
           /\ Readers \subseteq Commands
           /\ Writers \subseteq Commands
           /\ NoCommand \notin Readers \cup Writers
           /\ First \subseteq Commands
BY DEF Constants, NoCommandIsNew, Readers, Writers, Unlocked, Commands, First

LEMMA FlowType ==
    ASSUME NEW k \in Commands
    PROVE  /\ OnSuccess[k] \subseteq Commands \cup {NoCommand}
           /\ OnFailure[k] \subseteq Commands \cup {NoCommand}
BY DEF OnSuccess, OnFailure, Commands, Unlocked, Readers, Writers

LEMMA KindType ==
    ASSUME NEW k PROVE Kind(k) \in {"free", "read", "write"}
BY DEF Kind

-----------------------------------------------------------------------------
(* The invariant                                                           *)

\* What a step that launches the commands of some callers has to show.
Threads ==
    /\ at \in [Callers -> Places]
    /\ cmd \in [Callers -> Commands \cup {NoCommand}]
    /\ expired \in [Callers -> BOOLEAN]
    /\ child \in [Callers -> Lives]
    /\ writer \in Callers \cup {Nobody}
    /\ readers \subseteq Callers
    /\ \A c \in Callers : /\ at[c] = "idle" <=> cmd[c] = NoCommand
                          /\ at[c] \in Busy <=> child[c] # "none"

Rest ==
    /\ stray \in [Callers -> {"none", "free", "read", "write"}]
    /\ strayRuns \in [Callers -> BOOLEAN]
    /\ cached \in [Callers -> BOOLEAN]
    /\ linked \in [Callers -> BOOLEAN]
    /\ expiries \in 0 .. MaxExpiries
    /\ toggles \in 0 .. MaxToggles

LEMMA TypeParts == TypeOK <=> Threads /\ Rest
BY DEF TypeOK, Threads, Rest, Busy

LEMMA TypePartsNext == TypeOK' <=> Threads' /\ Rest'
BY DEF TypeOK, Threads, Rest, Busy

\* A caller starts its command, with the lock it needs.
LEMMA StartStep ==
    ASSUME Constants, HInv, NEW c \in Callers, Run(c) \/ Announce(c) \/ Begin(c)
    PROVE  HInv'
<1> USE DEF HInv, Constants, HarnessConstants
<1>1. UNCHANGED <<strays, plugins, expiries, toggles>>
  BY DEF Run, RunUnlocked, RLock, Lock, Announce, Begin
<1>2. Rest'
  BY <1>1, TypeParts DEF Rest, strays, plugins
<1>3. Threads'
  BY TypeParts, KindsApart DEF Run, RunUnlocked, RLock, Lock, Announce, Begin, Launch, Threads,
     Places, Lives, Busy, First, lock, Locks
<1>4. LockOK'
  <2>1. \A d \in Callers : cached'[d] = cached[d]
    BY <1>1 DEF plugins
  <2>2. CASE Begin(c)
    <3>1. at[c] = "idle" /\ at'[c] = "lock" /\ UNCHANGED lock
          /\ \A d \in Callers \ {c} : at'[d] = at[d] /\ cmd'[d] = cmd[d]
      BY <2>2, TypeParts DEF Begin, Threads
    <3> QED BY <2>1, <3>1 DEF LockOK, ReadersOK, WriterOK, WaitOK, Locks, lock, Busy
  <2>3. CASE RunUnlocked(c)
    <3>1. at[c] = "lock" /\ ~Locks(c, Readers \cup Writers) /\ at'[c] = "run"
          /\ UNCHANGED <<lock, cmd>>
          /\ \A d \in Callers \ {c} : at'[d] = at[d]
      BY <2>3, TypeParts DEF RunUnlocked, Launch, Threads
    <3> QED BY <2>1, <3>1 DEF LockOK, ReadersOK, WriterOK, WaitOK, Locks, lock, Busy
  <2>4. CASE RLock(c)
    <3>1. at[c] = "lock" /\ Locks(c, Readers) /\ UNCHANGED <<writer, cmd>>
          /\ \/ writer = Nobody /\ readers' = readers \cup {c} /\ at'[c] = "run"
             \/ writer # Nobody /\ readers' = readers /\ at'[c] = "wait"
          /\ \A d \in Callers \ {c} : at'[d] = at[d]
      BY <2>4, TypeParts DEF RLock, Launch, Threads
    <3> QED BY <2>1, <3>1, KindsApart DEF LockOK, ReadersOK, WriterOK, WaitOK, Locks, Busy
  <2>5. CASE Announce(c)
    <3>1. at[c] = "lock" /\ Locks(c, Writers) /\ UNCHANGED <<readers, cmd>>
          /\ writer = Nobody /\ writer' = c /\ at'[c] = "wait"
          /\ \A d \in Callers \ {c} : at'[d] = at[d]
      BY <2>5, TypeParts DEF Announce, Threads
    <3> QED BY <2>1, <3>1, KindsApart DEF LockOK, ReadersOK, WriterOK, WaitOK, Locks, Busy
  <2>6. CASE Lock(c)
    <3>1. at[c] = "wait" /\ writer = c /\ readers = {} /\ UNCHANGED <<lock, cmd>>
          /\ at'[c] = "run"
          /\ \A d \in Callers \ {c} : at'[d] = at[d]
      BY <2>6, TypeParts DEF Lock, Launch, Threads
    <3> QED BY <2>1, <3>1, KindsApart DEF LockOK, ReadersOK, WriterOK, WaitOK, Locks, Busy, lock
  <2> QED BY <2>2, <2>3, <2>4, <2>5, <2>6 DEF Run
<1> QED BY <1>2, <1>3, <1>4, TypePartsNext

\* A method returns: its lock is released, and the readers an init kept
\* waiting get theirs.
LEMMA FinishStep ==
    ASSUME Constants, HInv, NEW c \in Callers, at[c] \in Busy, UNCHANGED cached,
           NEW F, F \subseteq Commands \cup {NoCommand}, Finish(c, F)
    PROVE  Threads' /\ LockOK'
<1> USE DEF HInv, Constants, HarnessConstants
<1>1. PICK k \in F : /\ cmd' = [cmd EXCEPT ![c] = k]
                     /\ expired' = [expired EXCEPT ![c] = @ /\ k # NoCommand]
                     /\ Release(c, IF k = NoCommand THEN "idle" ELSE "lock")
  BY DEF Finish
<1> DEFINE place == IF k = NoCommand THEN "idle" ELSE "lock"
<1>2. /\ cmd'[c] = k /\ at'[c] = place /\ child'[c] = "none"
      /\ \A d \in Callers \ {c} :
            /\ cmd'[d] = cmd[d]
            /\ d \in Admitted(c) => at[d] = "wait" /\ at'[d] = "run" /\ child'[d] = "launched"
            /\ d \notin Admitted(c) => at'[d] = at[d] /\ child'[d] = child[d]
  BY <1>1, TypeParts DEF Release, Threads, Admitted
<1>3. c \notin Admitted(c) /\ Admitted(c) \subseteq Callers
  BY DEF Admitted, Busy
<1>4. Threads'
  BY <1>1, <1>2, <1>3, TypeParts DEF Threads, Release, Places, Lives, Busy
<1>5. CASE writer = c
  <2>1. writer' = Nobody /\ readers = {} /\ readers' = Admitted(c)
    BY <1>1, <1>3, <1>5, TypeParts DEF Release, LockOK, WriterOK, Admitted, Busy, Threads
  <2>2. \A d \in Callers : d \in Admitted(c) <=> at[d] = "wait" /\ Locks(d, Readers)
    BY <1>5 DEF Admitted
  <2> QED BY <1>2, <1>3, <1>4, <1>5, <2>1, <2>2, KindsApart
          DEF LockOK, ReadersOK, WriterOK, WaitOK, Locks, Busy
<1>6. CASE writer # c
  <2>1. writer' = writer /\ readers' = readers \ {c} /\ Admitted(c) = {}
    BY <1>1, <1>6 DEF Release, Admitted
  <2> QED BY <1>2, <1>4, <1>6, <2>1, KindsApart
          DEF LockOK, ReadersOK, WriterOK, WaitOK, Locks, Busy
<1> QED BY <1>4, <1>5, <1>6

\* A command ends.
LEMMA EndStep ==
    ASSUME Constants, HInv, NEW c \in Callers, End(c)
    PROVE  HInv'
<1> USE DEF HInv, Constants, HarnessConstants
<1>1. CASE Terminate(c)
  <2>1. at[c] = "run" /\ at'[c] = "stopping" /\ at' = [at EXCEPT ![c] = "stopping"]
        /\ UNCHANGED <<cmd, expired, child, strays, plugins, lock, expiries, toggles>>
        /\ \A d \in Callers \ {c} : at'[d] = at[d]
    BY <1>1, TypeParts DEF Terminate, Threads
  <2>2. Threads' /\ Rest'
    BY <2>1, TypeParts DEF Threads, Rest, Places, Busy, lock, strays, plugins
  <2>3. LockOK'
    BY <2>1 DEF LockOK, ReadersOK, WriterOK, WaitOK, Locks, Busy, lock, plugins
  <2> QED BY <2>2, <2>3, TypePartsNext
<1>2. CASE Succeed(c) \/ Fail(c) \/ Panic(c)
  <2>1. at[c] \in Busy /\ cmd[c] \in Commands
    BY <1>2, TypeParts DEF Succeed, Fail, Panic, Busy, Threads
  <2>2. UNCHANGED cached
    BY <1>2 DEF Succeed, Fail, Panic, plugins
  <2>3. \E F \in SUBSET (Commands \cup {NoCommand}) : Finish(c, F)
    BY <1>2, <2>1, FlowType DEF Succeed, Fail, Panic
  <2>4. Threads' /\ LockOK'
    BY <2>1, <2>2, <2>3, FinishStep
  <2>5. Rest'
    BY <1>2, TypeParts, KindType DEF Succeed, Fail, Panic, Rest, strays, plugins
  <2> QED BY <2>4, <2>5, TypePartsNext
<1> QED BY <1>1, <1>2 DEF End

\* Processes, time and users do not touch the lock.
LEMMA OtherStep ==
    ASSUME Constants, HInv, NEW c \in Callers,
           Process(c) \/ Expire(c) \/ TogglePluginCache(c)
    PROVE  HInv'
<1> USE DEF HInv, Constants, HarnessConstants
<1>1. UNCHANGED <<at, cmd, lock>>
  BY DEF Process, ProcessStarts, ProcessExits, StrayStarts, StrayExits, Expire,
         TogglePluginCache, threads
<1>2. Threads'
  <2>1. CASE Process(c)
    <3>1. CASE ProcessStarts(c) \/ ProcessExits(c)
      BY <1>1, <3>1, TypeParts DEF ProcessStarts, ProcessExits, Threads, Lives, lock
    <3>2. CASE StrayStarts(c) \/ StrayExits(c)
      <4>1. UNCHANGED <<threads, lock>>
        BY <3>2 DEF StrayStarts, StrayExits
      <4> QED BY <4>1, TypeParts DEF threads, lock, Threads
    <3> QED BY <2>1, <3>1, <3>2 DEF Process
  <2>2. CASE Expire(c)
    BY <1>1, <2>2, TypeParts DEF Expire, Threads, Lives, lock
  <2>3. CASE TogglePluginCache(c)
    BY <1>1, <2>3, TypeParts DEF TogglePluginCache, threads, Threads, Lives, lock
  <2> QED BY <2>1, <2>2, <2>3
<1>3. Rest'
  <2>1. CASE Process(c)
    BY <2>1, TypeParts DEF Process, ProcessStarts, ProcessExits, StrayStarts, StrayExits,
       strays, plugins, Rest
  <2>2. CASE Expire(c)
    BY <2>2, TypeParts DEF Expire, strays, plugins, Rest
  <2>3. CASE TogglePluginCache(c)
    BY <2>3, TypeParts DEF TogglePluginCache, strays, Rest
  <2> QED BY <2>1, <2>2, <2>3
<1>4. \A d \in Callers : cached'[d] = cached[d] \/ at[d] = "idle"
  BY TypeParts DEF Process, ProcessStarts, ProcessExits, StrayStarts, StrayExits,
         Expire, TogglePluginCache, plugins, Rest
<1>5. LockOK'
  BY <1>1, <1>4 DEF LockOK, ReadersOK, WriterOK, WaitOK, Locks, Busy, lock
<1> QED BY <1>2, <1>3, <1>5, TypePartsNext

LEMMA LockInvariance == Constants => (Spec => []HInv)
<1> SUFFICES ASSUME Constants PROVE Spec => []HInv
  OBVIOUS
<1>1. Init => HInv
  BY DEF Init, HInv, TypeOK, LockOK, ReadersOK, WriterOK, WaitOK, Locks, Busy, Places,
     Lives, Constants, HarnessConstants, NoCommandIsNew
<1>2. HInv /\ [Next]_vars => HInv'
  <2> SUFFICES ASSUME HInv, [Next]_vars PROVE HInv'
    OBVIOUS
  <2>1. CASE Next
    BY <2>1, StartStep, EndStep, OtherStep DEF Next
  <2>2. CASE UNCHANGED vars
    BY <2>2 DEF vars, threads, strays, plugins, lock, HInv, TypeOK, LockOK, ReadersOK,
       WriterOK, WaitOK, Locks
  <2> QED BY <2>1, <2>2
<1> QED BY <1>1, <1>2, PTL DEF Spec

-----------------------------------------------------------------------------
(* What the invariant gives                                                *)

\* Every variable keeps its type, and no started process is left running by
\* runCommand.
THEOREM HarnessTypeCorrect == Constants => (Spec => []TypeOK)
<1>1. HInv => TypeOK
  BY DEF HInv
<1> QED BY <1>1, LockInvariance, PTL

\* No path through a method, panics included, leaks its lock.
THEOREM LocksReturned == Constants => (Spec => []NoLockLeaked)
<1> SUFFICES ASSUME Constants PROVE Spec => []NoLockLeaked
  OBVIOUS
<1>1. HInv => NoLockLeaked
  BY DEF HInv, TypeOK, LockOK, ReadersOK, WriterOK, NoLockLeaked, Busy, Constants,
     HarnessConstants
<1> QED BY <1>1, LockInvariance, PTL

\* A supervised init has the cache to itself.
THEOREM InitIsAlone == Constants => (Spec => []InitAlone)
<1> SUFFICES ASSUME Constants PROVE Spec => []InitAlone
  OBVIOUS
<1>1. HInv => InitAlone
  BY DEF HInv, TypeOK, LockOK, ReadersOK, WriterOK, InitAlone, Running, Busy
<1> QED BY <1>1, LockInvariance, PTL

\* Whoever waits for the lock waits, directly or through one init, for callers
\* that run their command.
THEOREM NobodyDeadlocks == Constants => (Spec => []NobodyStuck)
<1> SUFFICES ASSUME Constants PROVE Spec => []NobodyStuck
  OBVIOUS
<1> DEFINE Runs(c) == c \in Callers /\ at[c] \in {"run", "stopping"}
<1>1. ASSUME HInv PROVE \A r \in readers : Runs(r)
  BY <1>1 DEF HInv, TypeOK, LockOK, ReadersOK, Busy
<1>2. ASSUME HInv, NEW c \in Callers, at[c] = "wait", NEW d \in Awaited(c)
      PROVE  \/ Runs(d)
             \/ d \in Callers /\ at[d] = "wait" /\ \A e \in Awaited(d) : Runs(e)
  <2>1. CASE writer = c
    BY <1>1, <1>2, <2>1 DEF Awaited
  <2>2. CASE writer # c
    <3>1. d = writer /\ d \in Callers
      BY <1>2, <2>2 DEF Awaited, HInv, LockOK, WaitOK, TypeOK
    <3>2. at[d] \in {"run", "stopping", "wait"}
      BY <1>2, <3>1 DEF HInv, LockOK, WriterOK, Busy
    <3>3. \A e \in Awaited(d) : Runs(e)
      BY <1>1, <1>2, <3>1 DEF Awaited
    <3> QED BY <3>1, <3>2, <3>3
  <2> QED BY <2>1, <2>2
<1>3. HInv => NobodyStuck
  BY <1>2 DEF NobodyStuck
<1> QED BY <1>3, LockInvariance, PTL

-----------------------------------------------------------------------------
(* The course of a reconcile                                               *)

\* Whether a command succeeds or fails, the next one is further on.
LEMMA FlowAdvances ==
    ASSUME Constants, NEW k \in Commands, NEW j \in OnSuccess[k] \cup OnFailure[k],
           j # NoCommand
    PROVE  Stage[j] > Stage[k]
<1>1. j \in Commands
  BY FlowType
<1>2. CASE j \in OnSuccess[k]
  <2>1. CASE k \in Unlocked
    BY <1>1, <1>2, <2>1 DEF OnSuccess, Stage, Commands, Unlocked
  <2>2. CASE k \in Readers
    BY <1>1, <1>2, <2>2 DEF OnSuccess, Stage, Commands, Readers
  <2>3. CASE k \in Writers
    BY <1>1, <1>2, <2>3 DEF OnSuccess, Stage, Commands, Writers
  <2> QED BY <2>1, <2>2, <2>3 DEF Commands
<1>3. CASE j \in OnFailure[k]
  BY <1>1, <1>3 DEF OnFailure, Stage, Commands, Unlocked, Readers, Writers
<1> QED BY <1>2, <1>3

\* A reconcile never goes back, and so returns after 14 commands at most,
\* whichever of them fail, panic or are stopped.
THEOREM ReconcileAdvances == Constants => (Spec => CommandsAdvance)
<1> SUFFICES ASSUME Constants PROVE Spec => CommandsAdvance
  OBVIOUS
<1>1. ASSUME HInv, NEW c \in Callers, End(c), NEW d \in Callers,
             at[d] \in Busy, at'[d] = "lock"
      PROVE  Stage[cmd'[d]] > Stage[cmd[d]]
  <2> USE DEF HInv
  <2>1. ~Terminate(c)
    BY <1>1, TypeParts DEF Terminate, Threads, Busy
  <2>2. cmd[c] \in Commands
    BY <1>1, <2>1, TypeParts DEF End, Succeed, Fail, Panic, Threads
  <2>3. PICK F \in {OnSuccess[cmd[c]], OnFailure[cmd[c]], {NoCommand}} : Finish(c, F)
    BY <1>1, <2>1 DEF End, Succeed, Fail, Panic
  <2>4. PICK k \in F : /\ cmd' = [cmd EXCEPT ![c] = k]
                       /\ Release(c, IF k = NoCommand THEN "idle" ELSE "lock")
    BY <2>3 DEF Finish
  <2>5. d = c
    BY <1>1, <2>4 DEF Release, Busy
  <2>6. cmd'[c] = k /\ k # NoCommand
    BY <1>1, <2>4, <2>5, TypeParts DEF Release, Threads
  <2> QED BY <2>2, <2>3, <2>5, <2>6, FlowAdvances
<1>2. ASSUME HInv, NEW c \in Callers, NEW d \in Callers, at[d] \in Busy,
             \/ Begin(c) \/ Run(c) \/ Announce(c) \/ Process(c)
             \/ Expire(c) \/ TogglePluginCache(c)
      PROVE  at'[d] # "lock"
  <2>1. CASE Run(c)
    BY <1>2, <2>1, TypeParts DEF HInv, Threads, Run, RunUnlocked, RLock, Lock, Launch, Busy
  <2>2. CASE Begin(c) \/ Announce(c)
    BY <1>2, <2>2, TypeParts DEF HInv, Threads, Begin, Announce, Busy
  <2>3. CASE Process(c) \/ Expire(c) \/ TogglePluginCache(c)
    <3>1. at' = at
      BY <2>3 DEF Process, ProcessStarts, ProcessExits, StrayStarts, StrayExits, Expire,
         TogglePluginCache, threads
    <3> QED BY <1>2, <3>1 DEF Busy
  <2> QED BY <1>2, <2>1, <2>2, <2>3
<1>3. HInv /\ [Next]_vars =>
        [\A c \in Callers : at[c] \in {"run", "stopping"} /\ at'[c] = "lock" =>
             Stage[cmd'[c]] > Stage[cmd[c]]]_vars
  BY <1>1, <1>2 DEF Next, Busy
<1> QED BY <1>3, LockInvariance, PTL DEF Spec, CommandsAdvance

-----------------------------------------------------------------------------
(* Before a context expires or pluginCache is switched                     *)

NothingHappened == expiries = 0 /\ toggles = 0

\* No context is done, hence no process astray, and the cache stays on.
Quiet == NothingHappened => \A c \in Callers : /\ ~expired[c]
                                              /\ stray[c] = "none"
                                              /\ ~strayRuns[c]
                                              /\ cached[c]

LEMMA QuietStep ==
    ASSUME Constants, HInv, Quiet, NEW c \in Callers,
           \/ Begin(c) \/ Run(c) \/ Announce(c) \/ Process(c) \/ End(c)
           \/ Expire(c) \/ TogglePluginCache(c)
    PROVE  Quiet'
<1>1. CASE Expire(c) \/ TogglePluginCache(c)
  <2>1. expiries' = expiries + 1 \/ toggles' = toggles + 1
    BY <1>1 DEF Expire, TogglePluginCache
  <2>2. expiries \in Nat /\ toggles \in Nat
    BY TypeParts DEF HInv, Rest
  <2>3. ~NothingHappened'
    BY <2>1, <2>2 DEF NothingHappened
  <2> QED BY <2>3 DEF Quiet
<1>2. CASE ~NothingHappened /\ UNCHANGED <<expiries, toggles>>
  BY <1>2 DEF Quiet, NothingHappened
<1>3. CASE NothingHappened /\ (Begin(c) \/ Run(c) \/ Announce(c) \/ Process(c))
  <2>1. ~StrayStarts(c) /\ ~StrayExits(c)
    BY <1>3 DEF StrayStarts, StrayExits, Quiet
  <2> QED BY <1>3, <2>1 DEF Begin, Run, RunUnlocked, RLock, Lock, Announce, Process,
          ProcessStarts, ProcessExits, strays, plugins, Quiet, NothingHappened
<1>4. CASE NothingHappened /\ End(c)
  <2>1. Succeed(c) \/ Fail(c)
    BY <1>4 DEF End, Panic, Terminate, Quiet
  <2>2. UNCHANGED <<stray, strayRuns, cached, expiries, toggles>>
    BY <2>1 DEF Succeed, Fail, strays, plugins
  <2>3. \E k : expired' = [expired EXCEPT ![c] = @ /\ k # NoCommand]
    BY <2>1 DEF Succeed, Fail, Finish
  <2>4. \A d \in Callers : ~expired'[d]
    BY <1>4, <2>3, TypeParts DEF Quiet, HInv, Threads
  <2> QED BY <1>4, <2>2, <2>4 DEF Quiet, NothingHappened
<1>5. \/ UNCHANGED <<expiries, toggles>>
      \/ Expire(c) \/ TogglePluginCache(c)
  BY DEF Begin, Run, RunUnlocked, RLock, Lock, Announce, Process, ProcessStarts,
     ProcessExits, StrayStarts, StrayExits, End, Succeed, Fail, Terminate, Panic
<1> QED BY <1>1, <1>2, <1>3, <1>4, <1>5

\* Until a context expires or a ProviderConfig switches pluginCache, no init
\* changes a plugin that is in use.
THEOREM PluginsAreStable == Constants => (Spec => []StableUndisturbed)
<1> SUFFICES ASSUME Constants PROVE Spec => []StableUndisturbed
  OBVIOUS
<1>1. Init => Quiet
  BY DEF Init, Quiet
<1>2. HInv /\ Quiet /\ [Next]_vars => Quiet'
  <2> SUFFICES ASSUME HInv, Quiet, [Next]_vars PROVE Quiet'
    OBVIOUS
  <2>1. CASE Next
    BY <2>1, QuietStep DEF Next
  <2>2. CASE UNCHANGED vars
    BY <2>2 DEF vars, threads, strays, plugins, Quiet, NothingHappened
  <2> QED BY <2>1, <2>2
<1>3. HInv /\ Quiet => StableUndisturbed
  <2> SUFFICES ASSUME HInv, Quiet, NothingHappened, NEW i \in Callers, NEW u \in Callers,
                      ChangesCache(i), UsesCache(u)
               PROVE  FALSE
    BY DEF StableUndisturbed, PluginsStable, NothingHappened
  <2>1. child[i] = "running" /\ Locks(i, Writers)
    BY DEF ChangesCache, Quiet
  <2>2. child[u] = "running" /\ Locks(u, Readers)
    BY DEF UsesCache, Quiet, Locks
  <2>3. at[i] \in Busy /\ at[u] \in Busy
    BY <2>1, <2>2, TypeParts DEF HInv, Threads
  <2> QED BY <2>1, <2>2, <2>3 DEF HInv, LockOK, ReadersOK, WriterOK
<1> QED BY <1>1, <1>2, <1>3, LockInvariance, PTL DEF Spec

-----------------------------------------------------------------------------
(* Refinement                                                              *)

\* The running processes are the same, with the same locks.
Steady == \A d \in Callers :
    /\ child'[d] = "running" <=> child[d] = "running"
    /\ child[d] = "running" => cached'[d] = cached[d] /\ cmd'[d] = cmd[d]

LEMMA SteadyMaps ==
    ASSUME Steady
    PROVE  /\ Running(Readers)' = Running(Readers)
           /\ Running(Writers)' = Running(Writers)
BY DEF Steady, Running, Locks

LEMMA SteadyStep ==
    ASSUME Constants, HInv, NEW c \in Callers,
           \/ Begin(c) \/ Run(c) \/ Announce(c) \/ StrayStarts(c) \/ StrayExits(c)
           \/ End(c) \/ Expire(c) \/ TogglePluginCache(c)
    PROVE  Steady
<1> USE DEF HInv
<1>1. CASE Begin(c) \/ Announce(c) \/ StrayStarts(c) \/ StrayExits(c) \/ Expire(c)
           \/ Terminate(c)
  BY <1>1, TypeParts DEF Begin, Announce, StrayStarts, StrayExits, Expire, Terminate, Steady,
     Threads, Busy, threads, plugins
<1>2. CASE Run(c)
  BY <1>2, TypeParts DEF Run, RunUnlocked, RLock, Lock, Launch, Steady, Threads, Busy, plugins
<1>3. CASE TogglePluginCache(c)
  BY <1>3, TypeParts DEF TogglePluginCache, Steady, Threads, Busy, threads, Rest
<1>4. CASE Succeed(c) \/ Fail(c) \/ Panic(c)
  <2>1. child[c] # "running" /\ UNCHANGED cached
    BY <1>4 DEF Succeed, Fail, Panic, plugins
  <2>2. \E k \in Commands \cup {NoCommand} :
            /\ cmd' = [cmd EXCEPT ![c] = k]
            /\ \E place \in Places : Release(c, place)
    <3>1. cmd[c] \in Commands
      BY <1>4, TypeParts DEF Succeed, Fail, Panic, Threads
    <3> QED BY <1>4, <3>1, FlowType DEF Succeed, Fail, Panic, Finish, Places
  <2>3. \A d \in Admitted(c) : child[d] = "none"
    BY TypeParts DEF Admitted, Threads, Busy
  <2> QED BY <2>1, <2>2, <2>3, TypeParts DEF Release, Steady, Threads
<1> QED BY <1>1, <1>2, <1>3, <1>4 DEF End

\* A process that starts or exits uses, changes or leaves the cache.
LEMMA ProcessMaps ==
    ASSUME Constants, HInv, NEW c \in Callers, ProcessStarts(c) \/ ProcessExits(c)
    PROVE  Cache!Next \/ UNCHANGED <<Running(Readers), Running(Writers)>>
<1> USE DEF HInv
<1>1. UNCHANGED <<cmd, cached>> /\ \A d \in Callers \ {c} : child'[d] = child[d]
  BY TypeParts DEF ProcessStarts, ProcessExits, Threads, plugins
<1>2. CASE child'[c] = "running"
  <2>1. child[c] = "launched" /\ at[c] \in Busy
    BY <1>2, TypeParts DEF ProcessStarts, ProcessExits, Threads
  <2>2. CASE Locks(c, Readers)
    <3>1. /\ Running(Readers)' = Running(Readers) \cup {c}
          /\ Running(Writers)' = Running(Writers)
      BY <1>1, <1>2, <2>2, KindsApart DEF Running, Locks
    <3>2. Running(Writers) = {}
      BY <2>1, <2>2, TypeParts DEF Running, LockOK, ReadersOK, WriterOK, Threads
    <3> QED BY <3>1, <3>2 DEF Cache!Next, Cache!Use
  <2>3. CASE Locks(c, Writers)
    <3>1. Running(Readers) = {} /\ Running(Writers) = {}
      BY <2>1, <2>3, TypeParts DEF Running, LockOK, ReadersOK, WriterOK, Threads
    <3>2. Running(Readers)' = {} /\ Running(Writers)' = {c}
      BY <1>1, <1>2, <2>3, <3>1, KindsApart DEF Running, Locks
    <3> QED BY <3>1, <3>2 DEF Cache!Next, Cache!Change
  <2>4. CASE ~Locks(c, Readers) /\ ~Locks(c, Writers)
    BY <1>1, <2>4 DEF Running, Locks
  <2> QED BY <2>2, <2>3, <2>4
<1>3. CASE child'[c] # "running"
  <2>1. /\ Running(Readers)' = Running(Readers) \ {c}
        /\ Running(Writers)' = Running(Writers) \ {c}
    BY <1>1, <1>3 DEF Running, Locks
  <2>2. c \notin Running(Readers) \/ c \notin Running(Writers)
    BY KindsApart DEF Running, Locks
  <2>3. CASE c \in Running(Writers)
    BY <2>1, <2>2, <2>3 DEF Cache!Next, Cache!EndChange
  <2>4. CASE c \notin Running(Writers)
    BY <2>1, <2>4 DEF Cache!Next, Cache!Leave
  <2> QED BY <2>3, <2>4
<1> QED BY <1>2, <1>3

\* The lock and the supervised processes implement the contract of the cache.
THEOREM HarnessImplementsPluginCache == Constants => (Spec => ImplementsPluginCache)
<1> SUFFICES ASSUME Constants PROVE Spec => ImplementsPluginCache
  OBVIOUS
<1>1. Init => Cache!Init
  BY DEF Init, Cache!Init, Running
<1>2. HInv /\ [Next]_vars => [Cache!Next]_Cache!pvars
  <2> SUFFICES ASSUME HInv, [Next]_vars
               PROVE  Cache!Next \/ UNCHANGED <<Running(Readers), Running(Writers)>>
    BY DEF Cache!pvars
  <2>1. ASSUME Steady PROVE UNCHANGED <<Running(Readers), Running(Writers)>>
    BY <2>1, SteadyMaps
  <2>2. CASE UNCHANGED vars
    BY <2>1, <2>2 DEF vars, threads, plugins, Steady
  <2>3. ASSUME NEW c \in Callers, ProcessStarts(c) \/ ProcessExits(c)
        PROVE  Cache!Next \/ UNCHANGED <<Running(Readers), Running(Writers)>>
    BY <2>3, ProcessMaps
  <2> QED BY <2>1, <2>2, <2>3, SteadyStep DEF Next, Process
<1> QED BY <1>1, <1>2, LockInvariance, PTL DEF Spec, ImplementsPluginCache, Cache!Spec

=============================================================================
