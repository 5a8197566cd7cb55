-------------------------- MODULE ProviderConfigs --------------------------
(***************************************************************************)
(* internal/clients and internal/controller/*/config: how a reconcile      *)
(* resolves the config its Workspace refers to and tracks that use, and    *)
(* how the config controller keeps a config in use from being deleted;     *)
(* beside the processes of Startup.tla that run both controllers.          *)
(*                                                                         *)
(* A read of the API server returns the current object, and a write fails  *)
(* if the object changed since it was read.                                *)
(***************************************************************************)
EXTENDS Startup

CONSTANTS
    Scope,        \* the scope whose objects are modelled
    Workspaces,
    Configs,
    Guarded,      \* configs of kind ProviderConfig; the others, of kind
                  \* ClusterProviderConfig, have no controller
    BadRef,       \* a reference that is missing or names no config kind
    NoConfig,
    MaxEdits      \* bound: what users do

ASSUME ConfigConstants ==
    /\ Scope \in Scopes
    /\ Guarded \subseteq Configs
    /\ BadRef \notin Configs
    /\ NoConfig \notin Configs \cup {BadRef}
    /\ MaxEdits \in Nat

VARIABLES
    config,      \* "absent", "live" or "deleting" (deletionTimestamp set)
    held,        \* configs with the config controller's finalizer
    phase,       \* of the Workspace: "new", "live", "deleting" or "gone"
    ref,         \* spec.providerConfigRef
    finalizer,   \* Workspaces with the managed reconciler's finalizer
    usage,       \* the config of its ProviderConfigUsage
    at,          \* its reconcile: "idle", "track" or "connected"
    mine,        \* that reconcile's copy of the Workspace
    seen,        \* reconcile of the config: "none", "used" or "unused"
    using,       \* history: the config it was last connected with
    relied,      \* history: who used a config when its deletion was requested
                 \* and has ever since
    edits

objects   == <<config, held, phase, ref, finalizer, usage>>
inFlight  == <<at, mine, seen>>
history   == <<using, relied>>
vars      == <<startVars, objects, inFlight, history, edits>>

Refs    == Configs \cup {BadRef}
NoMine  == [ref |-> BadRef, deleted |-> FALSE]
Current(w) == [ref |-> ref[w], deleted |-> phase[w] = "deleting"]

WorkspaceController == [scope |-> Scope, of |-> "Workspace"]
ConfigController    == [scope |-> Scope, of |-> "ProviderConfig"]

Init ==
    /\ StartInit
    /\ config = [c \in Configs |-> "absent"]
    /\ held = {}
    /\ phase = [w \in Workspaces |-> "new"]
    /\ ref = [w \in Workspaces |-> BadRef]
    /\ finalizer = {}
    /\ usage = [w \in Workspaces |-> NoConfig]
    /\ at = [w \in Workspaces |-> "idle"]
    /\ mine = [w \in Workspaces |-> NoMine]
    /\ seen = [c \in Configs |-> "none"]
    /\ using = [w \in Workspaces |-> NoConfig]
    /\ relied = [c \in Configs |-> {}]
    /\ edits = 0

-----------------------------------------------------------------------------
(* Users                                                                   *)

Edit == edits < MaxEdits /\ edits' = edits + 1

\* w no longer uses a config, other than c.
Leaves(w, c) ==
    /\ using' = [using EXCEPT ![w] = c]
    /\ relied' = [d \in Configs |-> IF d = c THEN relied[d] ELSE relied[d] \ {w}]

CreateConfig(c) ==
    /\ config[c] = "absent"
    /\ config' = [config EXCEPT ![c] = "live"]
    /\ UNCHANGED <<held, phase, ref, finalizer, usage, inFlight, history, edits>>

\* Without a finalizer the config is gone at once.
DeleteConfig(c) ==
    /\ config[c] = "live"
    /\ Edit
    /\ config' = [config EXCEPT ![c] = IF c \in held THEN "deleting" ELSE "absent"]
    /\ seen' = [seen EXCEPT ![c] = "none"]
    /\ relied' = [relied EXCEPT ![c] = {w \in Workspaces : using[w] = c}]
    /\ UNCHANGED <<held, phase, ref, finalizer, usage, at, mine, using>>

CreateWorkspace(w) ==
    /\ phase[w] = "new"
    /\ phase' = [phase EXCEPT ![w] = "live"]
    /\ \E r \in Refs : ref' = [ref EXCEPT ![w] = r]
    /\ UNCHANGED <<config, held, finalizer, usage, inFlight, history, edits>>

EditRef(w) ==
    /\ phase[w] \in {"live", "deleting"}
    /\ Edit
    /\ \E r \in Refs : ref' = [ref EXCEPT ![w] = r]
    /\ UNCHANGED <<config, held, phase, finalizer, usage, inFlight, history>>

DeleteWorkspace(w) ==
    /\ phase[w] = "live"
    /\ IF w \in finalizer
         THEN phase' = [phase EXCEPT ![w] = "deleting"] /\ UNCHANGED history
         ELSE phase' = [phase EXCEPT ![w] = "gone"] /\ Leaves(w, NoConfig)
    /\ UNCHANGED <<config, held, ref, finalizer, usage, inFlight, edits>>

User == \/ \E c \in Configs : CreateConfig(c) \/ DeleteConfig(c)
        \/ \E w \in Workspaces :
              CreateWorkspace(w) \/ EditRef(w) \/ DeleteWorkspace(w)

-----------------------------------------------------------------------------
(* The reconcile of a Workspace                                            *)

\* Mutant: a reference that is not set is not noticed.
ResolveAny(w) ==
    /\ Running(WorkspaceController)
    /\ at[w] = "idle"
    /\ phase[w] \in {"live", "deleting"}
    /\ ref[w] \in Configs => config[ref[w]] # "absent"
    /\ at' = [at EXCEPT ![w] = "track"]
    /\ mine' = [mine EXCEPT ![w] = Current(w)]
    /\ UNCHANGED <<objects, seen, history, edits, faults>>

\* Mutant: configs being deleted are refused.
ResolveLive(w) ==
    /\ Running(WorkspaceController)
    /\ at[w] = "idle"
    /\ phase[w] \in {"live", "deleting"}
    /\ ref[w] \in Configs
    /\ config[ref[w]] = "live"
    /\ at' = [at EXCEPT ![w] = "track"]
    /\ mine' = [mine EXCEPT ![w] = Current(w)]
    /\ UNCHANGED <<objects, seen, history, edits, faults>>

\* ResolveProviderConfig up to the Get.  A reference that is nil, of a kind
\* that is no config's, or to a config that is not there, ends the reconcile
\* with an error; whether the config is being deleted is not looked at.
Resolve(w) ==
    /\ Running(WorkspaceController)
    /\ at[w] = "idle"
    /\ phase[w] \in {"live", "deleting"}
    /\ ref[w] \in Configs
    /\ config[ref[w]] # "absent"
    /\ at' = [at EXCEPT ![w] = "track"]
    /\ mine' = [mine EXCEPT ![w] = Current(w)]
    /\ UNCHANGED <<objects, seen, history, edits, faults>>

Connected(w) ==
    /\ at' = [at EXCEPT ![w] = "connected"]
    /\ IF phase[w] = "gone" THEN UNCHANGED history ELSE Leaves(w, mine[w].ref)

\* Mutant: an error of Track is ignored.
TrackOrNot(w) ==
    /\ at[w] = "track"
    /\ Connected(w)
    /\ \/ usage' = [usage EXCEPT ![w] = mine[w].ref] /\ UNCHANGED faults
       \/ UNCHANGED usage /\ Fault
    /\ UNCHANGED <<config, held, phase, ref, finalizer, mine, seen, edits>>

\* Track applies the Workspace's one usage, which then names this config.
Track(w) ==
    /\ at[w] = "track"
    /\ \/ /\ Connected(w)
          /\ usage' = [usage EXCEPT ![w] = mine[w].ref]
          /\ UNCHANGED faults
       \/ /\ Fault
          /\ at' = [at EXCEPT ![w] = "idle"]
          /\ UNCHANGED <<usage, history>>
    /\ UNCHANGED <<config, held, phase, ref, finalizer, mine, seen, edits>>

\* The rest of the reconcile, which Workspace.tla has in detail: a live object
\* gets its finalizer, a deleted one loses it once everything is destroyed.
Finish(w) ==
    /\ at[w] = "connected"
    /\ at' = [at EXCEPT ![w] = "idle"]
    /\ CASE mine[w] # Current(w) \/ phase[w] = "gone" ->
              UNCHANGED <<phase, finalizer, history, faults>>
         [] OTHER ->
              \/ Fault /\ UNCHANGED <<phase, finalizer, history>>
              \/ /\ ~mine[w].deleted
                 /\ finalizer' = finalizer \cup {w}
                 /\ UNCHANGED <<phase, history, faults>>
              \/ /\ mine[w].deleted
                 /\ finalizer' = finalizer \ {w}
                 /\ phase' = [phase EXCEPT ![w] = "gone"]
                 /\ Leaves(w, NoConfig)
                 /\ UNCHANGED faults
    /\ UNCHANGED <<config, held, ref, usage, mine, seen, edits>>

\* Kubernetes deletes the usage of a Workspace that is gone, its owner.
CollectUsage(w) ==
    /\ phase[w] = "gone"
    /\ usage[w] # NoConfig
    /\ usage' = [usage EXCEPT ![w] = NoConfig]
    /\ UNCHANGED <<config, held, phase, ref, finalizer, inFlight, history, edits, faults>>

Reconcile(w) == Resolve(w) \/ Track(w) \/ Finish(w)

-----------------------------------------------------------------------------
(* The reconcile of a config                                               *)

\* Mutant: the kind of the config is not told apart.
UsagesOfAnyKind(c) == {w \in Workspaces : usage[w] # NoConfig}

\* The usages the config controller lists for c.
UsagesOf(c) == {w \in Workspaces : usage[w] = c}

\* Get, then List.
Count(c) ==
    /\ Running(ConfigController)
    /\ c \in Guarded
    /\ config[c] # "absent"
    /\ seen[c] = "none"
    /\ seen' = [seen EXCEPT ![c] = IF UsagesOf(c) = {} THEN "unused" ELSE "used"]
    /\ UNCHANGED <<objects, at, mine, history, edits, faults>>

\* Update: a live config gets the finalizer; one that is being deleted loses
\* it, and is gone, unless usages were seen.
Settle(c) ==
    /\ seen[c] # "none"
    /\ seen' = [seen EXCEPT ![c] = "none"]
    /\ \/ Fault /\ UNCHANGED <<config, held>>
       \/ /\ config[c] = "live"
          /\ held' = held \cup {c}
          /\ UNCHANGED <<config, faults>>
       \/ /\ config[c] = "deleting"
          /\ seen[c] = "used"
          /\ UNCHANGED <<config, held, faults>>
       \/ /\ config[c] = "deleting"
          /\ seen[c] = "unused"
          /\ held' = held \ {c}
          /\ config' = [config EXCEPT ![c] = "absent"]
          /\ UNCHANGED faults
    /\ UNCHANGED <<phase, ref, finalizer, usage, at, mine, history, edits>>

-----------------------------------------------------------------------------

\* A process that ends takes its reconciles with it.
Meanwhile ==
    /\ IF process' = "down"
         THEN /\ at' = [w \in Workspaces |-> "idle"]
              /\ seen' = [c \in Configs |-> "none"]
         ELSE UNCHANGED <<at, seen>>
    /\ UNCHANGED <<objects, mine, history, edits>>

Up == UNCHANGED <<process, allowed, established, setup, collecting>>

Establishes == Establish /\ Meanwhile
Starts      == Start /\ Meanwhile
SetsUp(c)   == (Release(c) \/ SetUp(c)) /\ Meanwhile
Ends        == (SyncFails \/ Crash) /\ Meanwhile

Works(w)   == Reconcile(w) /\ Up
Collects(w) == CollectUsage(w) /\ Up
Guards(c)  == (Count(c) \/ Settle(c)) /\ Up

Next ==
    \/ User /\ UNCHANGED startVars
    \/ \E w \in Workspaces : Works(w) \/ Collects(w)
    \/ \E c \in Configs : Guards(c)
    \/ Establishes \/ Starts \/ Ends
    \/ \E k \in Controllers : SetsUp(k)

Spec == Init /\ [][Next]_vars

\* What is installed gets established, the kubelet restarts the process,
\* goroutines run, the work queues hand objects out again and again.
FairSpec ==
    /\ Spec
    /\ WF_vars(Establishes)
    /\ WF_vars(Starts)
    /\ \A k \in Controllers : WF_vars(SetsUp(k))
    /\ \A w \in Workspaces : WF_vars(Works(w)) /\ WF_vars(Collects(w))
    /\ \A c \in Configs : WF_vars(Guards(c))

-----------------------------------------------------------------------------
(* Properties                                                              *)

\* Every variable has the type its declaration says.
TypeOK ==
    /\ StartTypeOK
    /\ config \in [Configs -> {"absent", "live", "deleting"}]
    /\ held \subseteq Guarded
    /\ phase \in [Workspaces -> {"new", "live", "deleting", "gone"}]
    /\ ref \in [Workspaces -> Refs]
    /\ finalizer \subseteq Workspaces
    /\ usage \in [Workspaces -> Configs \cup {NoConfig}]
    /\ at \in [Workspaces -> {"idle", "track", "connected"}]
    /\ mine \in [Workspaces -> [ref : Refs, deleted : BOOLEAN]]
    /\ seen \in [Configs -> {"none", "used", "unused"}]
    /\ using \in [Workspaces -> Configs \cup {NoConfig}]
    /\ relied \in [Configs -> SUBSET Workspaces]
    /\ edits \in 0 .. MaxEdits

\* A config that is being deleted stays as long as some Workspace that used it
\* when its deletion was requested still does, whatever fails and however the
\* reconciles of Workspaces and configs interleave.
UsersKeepConfig ==
    [][\A c \in Configs :
          config[c] = "deleting" /\ config'[c] = "absent" => relied[c] = {}]_vars

\* A config nobody uses any more does not keep being deleted for ever, if its
\* controller runs.
UnusedConfigGoes ==
    \A c \in Configs :
        ~<>[](/\ config[c] = "deleting"
              /\ \A w \in Workspaces : usage[w] # c
              /\ Running(ConfigController))

\* A Workspace does not keep being deleted for ever while its config is there,
\* being deleted as well or not: the two never wait for each other.
DeletedWorkspaceGoes ==
    \A w \in Workspaces :
        ~<>[](/\ phase[w] = "deleting"
              /\ ref[w] \in Configs /\ config[ref[w]] # "absent"
              /\ Running(WorkspaceController))

=============================================================================
