------------------------------ MODULE Harness ------------------------------
(***************************************************************************)
(* internal/terraform: the terraform commands concurrent reconciles run,   *)
(* the process-wide RWMutex that protects the shared plugin cache, the     *)
(* child processes, and the contexts that may expire at any moment.        *)
(*                                                                         *)
(* A caller is the goroutine that reconciles one Workspace.  The commands  *)
(* follow one another as the controller calls the harness; what they do to *)
(* the Terraform state is the subject of Workspace.tla.                    *)
(***************************************************************************)
EXTENDS Naturals

CONSTANTS
    Callers,
    Nobody,        \* no caller
    NoCommand,
    MaxExpiries,   \* bound: contexts that expire
    MaxToggles,    \* bound: changes of pluginCache in a ProviderConfig
    MaxEvents      \* bound: both together

ASSUME HarnessConstants ==
    /\ Nobody \notin Callers
    /\ MaxExpiries \in Nat
    /\ MaxToggles \in Nat
    /\ MaxEvents \in Nat

\* The commands, by their place in a reconcile, and the lock each takes.
Unlocked == {"checksum", "select", "plan", "show", "leave", "sum"}
Readers  == {"new", "list", "leaveNew", "delete", "output", "apply",
             "applyOutput", "destroy"}
Writers  == {"init"}
Commands == Unlocked \cup Readers \cup Writers
ASSUME NoCommandIsNew == NoCommand \notin Commands

Kind(k) == IF k \in Readers THEN "read" ELSE IF k \in Writers THEN "write" ELSE "free"

\* The first commands of a reconcile, and those that follow each one when it
\* succeeds and when it fails; none follows when the reconcile returns.
First == {"checksum", "init"}

OnSuccess == [k \in Commands |->
    CASE k = "checksum"              -> {"init", "select"}
      [] k = "init"                  -> {"select"}
      [] k \in {"select", "new"}     -> {"plan"}
      [] k = "plan"                  -> {"list"}
      [] k = "list"                  -> {"show", "output"}
      [] k = "show"                  -> {"leave", "output"}
      [] k \in {"leave", "leaveNew"} -> {"delete"}
      [] k = "delete"                -> {"output"}
      [] k = "output"                -> {"sum"}
      [] k = "sum"                   -> {"apply", "destroy", NoCommand}
      [] k = "apply"                 -> {"applyOutput"}
      [] OTHER                       -> {NoCommand}]

\* Mutant: a workspace that cannot be selected is selected again.
SelectAgain == [k \in Commands |->
    CASE k \in {"select", "leave"} -> {k}
      [] k = "plan"                -> {"list", NoCommand}
      [] OTHER                     -> {NoCommand}]

OnFailure == [k \in Commands |->
    CASE k = "select" -> {"new"}
      [] k = "leave"  -> {"leaveNew"}
      [] k = "plan"   -> {"list", NoCommand}
      [] OTHER        -> {NoCommand}]

VARIABLES
    at,        \* "idle", "lock", "wait", "run" or "stopping"
    cmd,       \* the command
    expired,   \* is the context of the reconcile done
    child,     \* its process: "none", "launched", "running" or "exited"
    stray,     \* "none", or the kind of a process nobody waits for
    strayRuns, \* has that process been started
    cached,    \* Harness.UsePluginCache
    linked,    \* do the plugins of its directory link into the cache
    writer,    \* who holds, or has announced, the write lock
    readers,   \* who holds a read lock
    expiries, toggles

threads == <<at, cmd, expired, child>>
strays  == <<stray, strayRuns>>
plugins == <<cached, linked>>
lock    == <<writer, readers>>
vars    == <<threads, strays, plugins, lock, expiries, toggles>>

Init ==
    /\ at = [c \in Callers |-> "idle"]
    /\ cmd = [c \in Callers |-> NoCommand]
    /\ expired = [c \in Callers |-> FALSE]
    /\ child = [c \in Callers |-> "none"]
    /\ stray = [c \in Callers |-> "none"]
    /\ strayRuns = [c \in Callers |-> FALSE]
    /\ cached = [c \in Callers |-> TRUE]
    /\ linked = [c \in Callers |-> FALSE]
    /\ writer = Nobody
    /\ readers = {}
    /\ expiries = 0
    /\ toggles = 0

Locks(c, kinds) == cached[c] /\ cmd[c] \in kinds

-----------------------------------------------------------------------------
(* Starting a command                                                      *)

\* A reconcile begins, with a fresh context.
Begin(c) ==
    /\ at[c] = "idle"
    /\ at' = [at EXCEPT ![c] = "lock"]
    /\ \E k \in First : cmd' = [cmd EXCEPT ![c] = k]
    /\ UNCHANGED <<expired, child, strays, plugins, lock, expiries, toggles>>

\* runCommand launches the goroutine that will start the process.
Launch(C) == /\ at' = [c \in Callers |-> IF c \in C THEN "run" ELSE at[c]]
             /\ child' = [c \in Callers |-> IF c \in C THEN "launched" ELSE child[c]]

\* Commands without a lock: the cache is off, or the method takes none.
RunUnlocked(c) ==
    /\ at[c] = "lock"
    /\ ~Locks(c, Readers \cup Writers)
    /\ Launch({c})
    /\ UNCHANGED <<cmd, expired, strays, plugins, lock, expiries, toggles>>

\* Mutant: readers take no notice of writers.
RLockAtOnce(c) ==
    /\ at[c] = "lock"
    /\ Locks(c, Readers)
    /\ readers' = readers \cup {c}
    /\ Launch({c})
    /\ UNCHANGED <<cmd, expired, strays, plugins, writer, expiries, toggles>>

\* RLock: at once, unless a writer holds the lock or waits for it.
RLock(c) ==
    /\ at[c] = "lock"
    /\ Locks(c, Readers)
    /\ IF writer = Nobody
         THEN readers' = readers \cup {c} /\ Launch({c})
         ELSE at' = [at EXCEPT ![c] = "wait"] /\ UNCHANGED <<readers, child>>
    /\ UNCHANGED <<cmd, expired, strays, plugins, writer, expiries, toggles>>

\* Lock, first half: writers queue, and the first one keeps new readers out.
Announce(c) ==
    /\ at[c] = "lock"
    /\ Locks(c, Writers)
    /\ writer = Nobody
    /\ writer' = c
    /\ at' = [at EXCEPT ![c] = "wait"]
    /\ UNCHANGED <<cmd, expired, child, strays, plugins, readers, expiries, toggles>>

\* Mutant: the writer does not wait for the readers it finds.
LockAtOnce(c) ==
    /\ at[c] = "wait"
    /\ writer = c
    /\ Launch({c})
    /\ UNCHANGED <<cmd, expired, strays, plugins, lock, expiries, toggles>>

\* Lock, second half: the readers it found have left.
Lock(c) ==
    /\ at[c] = "wait"
    /\ writer = c
    /\ readers = {}
    /\ Launch({c})
    /\ UNCHANGED <<cmd, expired, strays, plugins, lock, expiries, toggles>>

-----------------------------------------------------------------------------
(* The process                                                             *)

\* exec.Cmd.Output, in the goroutine runCommand launched: the process starts,
\* or cannot be started; it ends by itself or because of a SIGTERM.
ProcessStarts(c) ==
    /\ child[c] = "launched"
    /\ \E s \in {"running", "exited"} : child' = [child EXCEPT ![c] = s]
    /\ UNCHANGED <<at, cmd, expired, strays, plugins, lock, expiries, toggles>>

ProcessExits(c) ==
    /\ child[c] = "running"
    /\ child' = [child EXCEPT ![c] = "exited"]
    /\ UNCHANGED <<at, cmd, expired, strays, plugins, lock, expiries, toggles>>

StrayStarts(c) ==
    /\ stray[c] # "none"
    /\ ~strayRuns[c]
    /\ strayRuns' = [strayRuns EXCEPT ![c] = TRUE]
    /\ UNCHANGED <<threads, stray, plugins, lock, expiries, toggles>>

StrayExits(c) ==
    /\ strayRuns[c]
    /\ stray' = [stray EXCEPT ![c] = "none"]
    /\ strayRuns' = [strayRuns EXCEPT ![c] = FALSE]
    /\ UNCHANGED <<threads, plugins, lock, expiries, toggles>>

-----------------------------------------------------------------------------
(* The end of a command                                                    *)

\* Unlock lets in the readers that wait, before another writer can announce
\* itself; RUnlock nobody.
Admitted(c) == IF writer = c THEN {r \in Callers : at[r] = "wait" /\ Locks(r, Readers)}
               ELSE {}

\* Mutant: a reader keeps its lock from one method to the next, as if
\* DeleteCurrentWorkspace took it before it calls Workspace.
ReleaseLate(c, place) ==
    /\ writer' = IF writer = c THEN Nobody ELSE writer
    /\ readers' = (IF place = "lock" THEN readers ELSE readers \ {c}) \cup Admitted(c)
    /\ at' = [r \in Callers |-> IF r = c THEN place
                                ELSE IF r \in Admitted(c) THEN "run" ELSE at[r]]
    /\ child' = [r \in Callers |-> IF r = c THEN "none"
                                   ELSE IF r \in Admitted(c) THEN "launched" ELSE child[r]]

\* The deferred RUnlock or Unlock of c, which goes on to place.
Release(c, place) ==
    /\ writer' = IF writer = c THEN Nobody ELSE writer
    /\ readers' = (readers \ {c}) \cup Admitted(c)
    /\ at' = [r \in Callers |-> IF r = c THEN place
                                ELSE IF r \in Admitted(c) THEN "run" ELSE at[r]]
    /\ child' = [r \in Callers |-> IF r = c THEN "none"
                                   ELSE IF r \in Admitted(c) THEN "launched" ELSE child[r]]

\* The method returns and the caller goes on with one of the next commands,
\* or its reconcile returns and its context is gone.
Finish(c, following) ==
    \E k \in following :
        /\ cmd' = [cmd EXCEPT ![c] = k]
        /\ expired' = [expired EXCEPT ![c] = @ /\ k # NoCommand]
        /\ Release(c, IF k = NoCommand THEN "idle" ELSE "lock")

\* The result of the process arrives; runCommand may take it although the
\* context is done.  Plugins init finds in the directory stay what they are.
Succeed(c) ==
    /\ at[c] = "run"
    /\ child[c] = "exited"
    /\ Finish(c, OnSuccess[cmd[c]])
    /\ linked' = [linked EXCEPT ![c] = @ \/ Locks(c, Writers)]
    /\ UNCHANGED <<strays, cached, expiries, toggles>>

\* The command failed; or it ended, but runCommand saw the context done first
\* and could not signal the process any more; or it was stopped.
Fail(c) ==
    /\ at[c] \in {"run", "stopping"}
    /\ child[c] = "exited"
    /\ Finish(c, OnFailure[cmd[c]])
    /\ UNCHANGED <<strays, plugins, expiries, toggles>>

\* Mutant: SIGTERM, and no Wait.
TerminateAtOnce(c) ==
    /\ at[c] = "run"
    /\ expired[c]
    /\ child[c] = "running"
    /\ at' = [at EXCEPT ![c] = "idle"]
    /\ cmd' = [cmd EXCEPT ![c] = NoCommand]
    /\ expired' = [expired EXCEPT ![c] = FALSE]
    /\ readers' = readers \ {c}
    /\ writer' = IF writer = c THEN Nobody ELSE writer
    /\ UNCHANGED <<child, strays, plugins, expiries, toggles>>

\* The context is done while the process runs: SIGTERM, then Wait.
Terminate(c) ==
    /\ at[c] = "run"
    /\ expired[c]
    /\ child[c] = "running"
    /\ at' = [at EXCEPT ![c] = "stopping"]
    /\ UNCHANGED <<cmd, expired, child, strays, plugins, lock, expiries, toggles>>

\* Mutant: the panic skips the unlock.
PanicLocked(c) ==
    /\ at[c] = "run"
    /\ expired[c]
    /\ child[c] = "launched"
    /\ at' = [at EXCEPT ![c] = "idle"]
    /\ child' = [child EXCEPT ![c] = "none"]
    /\ cmd' = [cmd EXCEPT ![c] = NoCommand]
    /\ expired' = [expired EXCEPT ![c] = FALSE]
    /\ UNCHANGED <<strays, plugins, lock, expiries, toggles>>

\* The context is done before the process is started: Process is nil, and the
\* call of Signal panics.  The controller recovers, the deferred unlock runs,
\* and the goroutine that starts the process goes on, its result unread.
Panic(c) ==
    /\ at[c] = "run"
    /\ expired[c]
    /\ child[c] = "launched"
    /\ Finish(c, {NoCommand})
    /\ stray' = [stray EXCEPT ![c] = Kind(cmd[c])]
    /\ UNCHANGED <<strayRuns, plugins, expiries, toggles>>

-----------------------------------------------------------------------------
(* Time and users                                                          *)

\* The timeout of the reconcile, or the end of the controller's process.
\* Bound: not while a process of an earlier reconcile is astray.
Expire(c) ==
    /\ at[c] # "idle"
    /\ ~expired[c]
    /\ stray[c] = "none"
    /\ expiries < MaxExpiries
    /\ expiries + toggles < MaxEvents
    /\ expiries' = expiries + 1
    /\ expired' = [expired EXCEPT ![c] = TRUE]
    /\ UNCHANGED <<at, cmd, child, strays, plugins, lock, toggles>>

\* pluginCache of the ProviderConfig changes; Connect reads it.
TogglePluginCache(c) ==
    /\ at[c] = "idle"
    /\ stray[c] = "none"
    /\ toggles < MaxToggles
    /\ expiries + toggles < MaxEvents
    /\ toggles' = toggles + 1
    /\ cached' = [cached EXCEPT ![c] = ~@]
    /\ UNCHANGED <<threads, strays, linked, lock, expiries>>

-----------------------------------------------------------------------------

Run(c)     == RunUnlocked(c) \/ RLock(c) \/ Lock(c)
Process(c) == ProcessStarts(c) \/ ProcessExits(c) \/ StrayStarts(c) \/ StrayExits(c)
End(c)     == Succeed(c) \/ Fail(c) \/ Terminate(c) \/ Panic(c)

Next == \E c \in Callers :
            \/ Begin(c) \/ Run(c) \/ Announce(c) \/ Process(c) \/ End(c)
            \/ Expire(c) \/ TogglePluginCache(c)

Spec == Init /\ [][Next]_vars

\* Goroutines run, processes end (the timeout sees to it), and the mutex
\* writers queue on hands over in order once one of them waits for long.
FairSpec ==
    /\ Spec
    /\ \A c \in Callers : /\ WF_vars(Run(c))
                          /\ WF_vars(Process(c))
                          /\ WF_vars(End(c))
                          /\ SF_vars(Announce(c))

-----------------------------------------------------------------------------
(* Properties                                                              *)

Places == {"idle", "lock", "wait", "run", "stopping"}
Lives  == {"none", "launched", "running", "exited"}

\* Every variable has the type its declaration says; a caller has a command
\* while it reconciles, and a process of its own while it waits for one: no
\* process that was started is left running when runCommand returns.
TypeOK ==
    /\ at \in [Callers -> Places]
    /\ cmd \in [Callers -> Commands \cup {NoCommand}]
    /\ expired \in [Callers -> BOOLEAN]
    /\ child \in [Callers -> Lives]
    /\ stray \in [Callers -> {"none", "free", "read", "write"}]
    /\ strayRuns \in [Callers -> BOOLEAN]
    /\ cached \in [Callers -> BOOLEAN]
    /\ linked \in [Callers -> BOOLEAN]
    /\ writer \in Callers \cup {Nobody}
    /\ readers \subseteq Callers
    /\ \A c \in Callers : /\ at[c] = "idle" <=> cmd[c] = NoCommand
                          /\ at[c] \in {"run", "stopping"} <=> child[c] # "none"
    /\ expiries \in 0 .. MaxExpiries
    /\ toggles \in 0 .. MaxToggles

\* Callers whose supervised command runs under a read or a write lock.
Running(kinds) == {c \in Callers : child[c] = "running" /\ Locks(c, kinds)}

\* No lock outlives the method that took it, whichever way the command ended,
\* by a panic included: who holds one waits for a process of its own, or for
\* its turn.
NoLockLeaked ==
    /\ \A c \in readers : at[c] \in {"run", "stopping"} /\ Locks(c, Readers)
    /\ writer # Nobody => at[writer] # "idle" /\ Locks(writer, Writers)

\* Whose unlock a caller that waits for the lock waits for.
Awaited(c) == IF writer = c THEN readers ELSE {writer}

\* No deadlock and no lost wake-up: who waits for the lock waits for callers
\* that run their command, or for an init that itself waits for such callers
\* only.  No method holds the lock while it waits for it again.
NobodyStuck ==
    LET Runs(c) == c \in Callers /\ at[c] \in {"run", "stopping"} IN
    \A c \in Callers : at[c] = "wait" =>
        \A d \in Awaited(c) :
            \/ Runs(d)
            \/ d \in Callers /\ at[d] = "wait" /\ \A e \in Awaited(d) : Runs(e)

\* How far a reconcile is when it runs a command.
Stage == [k \in Commands |->
    CASE k = "checksum" -> 1  [] k = "init"   -> 2  [] k = "select" -> 3
      [] k = "new"      -> 4  [] k = "plan"   -> 5  [] k = "list"   -> 6
      [] k = "show"     -> 7  [] k = "leave"  -> 8  [] k = "leaveNew" -> 9
      [] k = "delete"   -> 10 [] k = "output" -> 11 [] k = "sum"    -> 12
      [] k \in {"apply", "destroy"} -> 13
      [] OTHER          -> 14]

\* No reconcile retries: whatever fails or expires, each command comes after
\* the one before it, so that a reconcile is over after 14 at most.
CommandsAdvance ==
    [][\A c \in Callers : at[c] \in {"run", "stopping"} /\ at'[c] = "lock" =>
           Stage[cmd'[c]] > Stage[cmd[c]]]_vars

\* Every reconcile ends: nobody waits for a lock for ever, however reads and
\* inits alternate.
ReconcileEnds == \A c \in Callers : at[c] # "idle" ~> at[c] = "idle"

\* The supervised processes use the plugin cache as PluginCache.tla says.
Cache == INSTANCE PluginCache WITH
    using    <- Running(Readers),
    changing <- Running(Writers)

ImplementsPluginCache == Cache!Spec

\* While an init that may write to the cache runs under the write lock, no
\* other command that takes the lock runs.
InitAlone ==
    \A i \in Running(Writers) : /\ Running(Readers) = {}
                                /\ Running(Writers) = {i}

\* The processes that may change the cache, and those that run its plugins
\* through the links in their directory, supervised or not.  The plan, which
\* Diff runs without the lock on purpose, is left out.
ChangesCache(c) == \/ child[c] = "running" /\ Locks(c, Writers)
                   \/ strayRuns[c] /\ stray[c] = "write" /\ cached[c]
UsesCache(c)    == /\ linked[c]
                   /\ \/ child[c] = "running" /\ cmd[c] \in Readers
                      \/ strayRuns[c] /\ stray[c] = "read"

\* The comment of rwmutex: it "prevents an init from inadvertently changing a
\* plugin while it's in use".
PluginsStable == \A i, u \in Callers : ~(ChangesCache(i) /\ UsesCache(u))

\* As long as no context expires and pluginCache is not switched the comment is
\* true: whoever runs plugins of the cache does so under the lock.
StableUndisturbed == expiries = 0 /\ toggles = 0 => PluginsStable

=============================================================================
