------------------------------ MODULE Startup ------------------------------
(***************************************************************************)
(* cmd/provider/main.go and the Setup functions of internal/controller:    *)
(* how a process comes to run its controllers.  If it may watch CRDs, each *)
(* controller waits behind a gate for its own kinds (SafeStart), and a     *)
(* failed Setup is only logged; otherwise all are set up at once, and a    *)
(* failure, or a kind that is missing, ends the process.                   *)
(***************************************************************************)
EXTENDS Naturals

CONSTANTS
    Scopes,      \* of the APIs: "namespaced" and "cluster"
    Installed,   \* the CRDs the cluster has, or will have
    MaxFaults    \* bound: failing calls and crashes

Kinds       == {"Workspace", "ProviderConfig", "ProviderConfigUsage"}
CRDs        == [scope : Scopes, kind : Kinds]
Controllers == [scope : Scopes, of : {"Workspace", "ProviderConfig"}]

ASSUME StartupConstants ==
    /\ Installed \subseteq CRDs
    /\ MaxFaults \in Nat

VARIABLES
    process,      \* "down", "booted", "gated" or "ungated"
    allowed,      \* does RBAC let the provider watch CRDs
    established,  \* CRDs that are served
    setup,        \* of each controller: see Stages
    collecting,   \* scopes whose directory collectors run
    faults

Stages    == {"none", "registered", "released", "up", "failed"}
startVars == <<process, allowed, established, setup, collecting, faults>>

Fault == faults < MaxFaults /\ faults' = faults + 1

Of(scope, kinds) == [scope : {scope}, kind : kinds]

\* The kinds whose informers a controller starts: For and Watches.
Watched(c) == Of(c.scope, IF c.of = "Workspace" THEN {"Workspace"}
                          ELSE {"ProviderConfig", "ProviderConfigUsage"})

\* Mutant: the config controller waits for its own kind only.
GatedOnOne(c) == Of(c.scope, {c.of})

\* Mutant: one gate for all.
GatedOnAll(c) == CRDs

\* The kinds its callback is registered for.
GatedOn(c) == Of(c.scope, IF c.of = "Workspace" THEN {"Workspace"}
                          ELSE {"ProviderConfig", "ProviderConfigUsage"})

Running(c) == setup[c] = "up" /\ Watched(c) \subseteq established

StartInit ==
    /\ process = "down"
    /\ allowed \in BOOLEAN
    /\ established = {}
    /\ setup = [c \in Controllers |-> "none"]
    /\ collecting = {}
    /\ faults = 0

-----------------------------------------------------------------------------

\* The API server serves one more kind.
Establish ==
    /\ \E k \in Installed \ established : established' = established \cup {k}
    /\ UNCHANGED <<process, allowed, setup, collecting, faults>>

\* The process ends and takes its controllers and collectors with it.
Exit == /\ process' = "down"
        /\ setup' = [c \in Controllers |-> "none"]
        /\ collecting' = {}

\* main() up to the RBAC check: the client, the manager, the schemes and the
\* options of both scopes.
Boot ==
    /\ process = "down"
    /\ process' = "booted"
    /\ UNCHANGED <<allowed, established, setup, collecting, faults>>

\* canWatchCRD found that it may: every controller is registered at the gate.
StartGated ==
    /\ process = "booted"
    /\ allowed
    /\ process' = "gated"
    /\ setup' = [c \in Controllers |-> "registered"]
    /\ UNCHANGED <<allowed, established, collecting, faults>>

\* It may not: both scopes are set up at once.
StartUngated ==
    /\ process = "booted"
    /\ ~allowed
    /\ process' = "ungated"
    /\ setup' = [c \in Controllers |-> "up"]
    /\ collecting' = Scopes
    /\ UNCHANGED <<allowed, established, faults>>

\* The gate calls back, in a goroutine of its own and only once.
Release(c) ==
    /\ process = "gated"
    /\ setup[c] = "registered"
    /\ GatedOn(c) \subseteq established
    /\ setup' = [setup EXCEPT ![c] = "released"]
    /\ UNCHANGED <<process, allowed, established, collecting, faults>>

\* Mutant: the collectors are started last.
CollectLast(c) ==
    /\ setup[c] = "released"
    /\ \/ /\ setup' = [setup EXCEPT ![c] = "up"]
          /\ collecting' = collecting \cup (IF c.of = "Workspace" THEN {c.scope} ELSE {})
          /\ UNCHANGED faults
       \/ /\ Fault
          /\ setup' = [setup EXCEPT ![c] = "failed"]
          /\ UNCHANGED collecting
    /\ UNCHANGED <<process, allowed, established>>

\* The callback: Setup, whose error is logged.  The Workspace controller's
\* starts the collectors before anything that can fail.
SetUp(c) ==
    /\ setup[c] = "released"
    /\ \/ setup' = [setup EXCEPT ![c] = "up"] /\ UNCHANGED faults
       \/ setup' = [setup EXCEPT ![c] = "failed"] /\ Fault
    /\ collecting' = collecting \cup (IF c.of = "Workspace" THEN {c.scope} ELSE {})
    /\ UNCHANGED <<process, allowed, established>>

\* mgr.Start returns: the cache of some controller did not sync in time.
SyncFails ==
    /\ \E c \in Controllers : setup[c] = "up" /\ ~Running(c)
    /\ Exit
    /\ UNCHANGED <<allowed, established, faults>>

\* A crash, or one of the errors that main() takes for fatal.
Crash ==
    /\ process # "down"
    /\ Fault
    /\ Exit
    /\ UNCHANGED <<allowed, established>>

Start == Boot \/ StartGated \/ StartUngated

-----------------------------------------------------------------------------
(* Properties                                                              *)

\* Every variable has the type its declaration says.
StartTypeOK ==
    /\ process \in {"down", "booted", "gated", "ungated"}
    /\ allowed \in BOOLEAN
    /\ established \subseteq Installed
    /\ setup \in [Controllers -> Stages]
    /\ collecting \subseteq Scopes
    /\ faults \in 0 .. MaxFaults

\* Behind the gate no controller asks for a kind that is not there: kinds of
\* one scope that are missing never end the process that serves the other.
GateHolds ==
    process = "gated" => \A c \in Controllers : setup[c] = "up" => Running(c)

\* A controller whose kinds are installed comes to run for good, whatever
\* kinds the other scope lacks, unless its own Setup fails.
ServesInstalled ==
    allowed \/ Installed = CRDs =>
        \A c \in Controllers : Watched(c) \subseteq Installed =>
            <>[](Running(c) \/ setup[c] = "failed")

\* The directories of a scope whose Workspaces can exist are collected, even
\* in a process where the Setup of their controller failed.
CollectsAnyway ==
    allowed \/ Installed = CRDs =>
        \A s \in Scopes : Of(s, {"Workspace"}) \subseteq Installed =>
            <>[](s \in collecting)

=============================================================================
