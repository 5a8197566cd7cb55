----------------------- MODULE ProviderConfigsProofs -----------------------
(* The gate never lets a controller ask for a missing kind, and a config    *)
(* keeps the users it had when its deletion was requested: for all scopes,  *)
(* Workspaces, configs and numbers of failures.                             *)
EXTENDS ProviderConfigs, TLAPS

Constants == StartupConstants /\ ConfigConstants

\* A reconcile that goes on has found a Workspace and a config.
MineOK == \A w \in Workspaces :
              at[w] # "idle" => mine[w].ref \in Configs /\ phase[w] # "new"

\* Only configs with a controller are reconciled.
GuardedOK == \A c \in Configs : seen[c] # "none" => c \in Guarded

\* A callback is on its way only once its kinds are there; none is when the
\* process is not yet, or no longer, gated.
GateOK ==
    /\ process \in {"down", "booted"} => \A c \in Controllers : setup[c] = "none"
    /\ process = "gated" =>
          \A c \in Controllers :
              setup[c] \in {"released", "up"} => GatedOn(c) \subseteq established

\* Who uses a config has a usage of it.
UsageOK ==
    \A w \in Workspaces : using[w] # NoConfig =>
        usage[w] = using[w] /\ phase[w] \in {"live", "deleting"}

ReliedOK == \A c \in Configs : \A w \in relied[c] : using[w] = c

\* What the config's reconcile saw of its users is still so of those that
\* count.
SeenOK == \A c \in Configs : seen[c] = "unused" /\ config[c] = "deleting" => relied[c] = {}

\* The inductive invariant.
PInv == TypeOK /\ MineOK /\ GuardedOK /\ GateOK /\ UsageOK /\ ReliedOK /\ SeenOK

-----------------------------------------------------------------------------
(* Type correctness                                                        *)

LEMMA ControllerKinds ==
    /\ WorkspaceController \in [scope : {Scope}, of : {"Workspace", "ProviderConfig"}]
    /\ ConfigController \in [scope : {Scope}, of : {"Workspace", "ProviderConfig"}]
BY DEF WorkspaceController, ConfigController

\* The history keeps its type.
HistoryOK == /\ using \in [Workspaces -> Configs \cup {NoConfig}]
             /\ relied \in [Configs -> SUBSET Workspaces]

LEMMA LeavesType ==
    ASSUME HistoryOK, NEW w \in Workspaces, NEW c \in Configs \cup {NoConfig},
           Leaves(w, c)
    PROVE  HistoryOK'
BY DEF Leaves, HistoryOK

LEMMA TypeInit == ASSUME Constants, Init PROVE TypeOK
BY DEF Constants, StartupConstants, ConfigConstants, Init, StartInit, TypeOK,
       StartTypeOK, Stages, Refs, NoMine

LEMMA TypeStart ==
    ASSUME Constants, TypeOK,
           \/ Establishes \/ Starts \/ Ends
           \/ \E k \in Controllers : SetsUp(k)
    PROVE  TypeOK'
<1> USE DEF Constants, StartupConstants, ConfigConstants, TypeOK, StartTypeOK, Stages
<1>1. /\ config' = config /\ held' = held /\ phase' = phase /\ ref' = ref
      /\ finalizer' = finalizer /\ usage' = usage /\ mine' = mine
      /\ using' = using /\ relied' = relied /\ edits' = edits
  BY DEF Establishes, Starts, Ends, SetsUp, Meanwhile, objects, history
<1>2. /\ at' \in [Workspaces -> {"idle", "track", "connected"}]
      /\ seen' \in [Configs -> {"none", "used", "unused"}]
  BY DEF Establishes, Starts, Ends, SetsUp, Meanwhile
<1>3. StartTypeOK'
  <2>1. CASE Establishes BY <2>1 DEF Establishes, Establish
  <2>2. CASE Starts BY <2>2 DEF Starts, Start, Boot, StartGated, StartUngated
  <2>3. CASE Ends BY <2>3 DEF Ends, SyncFails, Crash, Exit, Fault
  <2>4. ASSUME NEW k \in Controllers, SetsUp(k) PROVE StartTypeOK'
    <3>1. CASE Release(k) BY <3>1 DEF Release
    <3>2. CASE SetUp(k)
      <4>1. k.scope \in Scopes BY DEF Controllers
      <4>2. collecting' \subseteq Scopes BY <3>2, <4>1 DEF SetUp
      <4>3. setup' \in [Controllers -> Stages] BY <3>2 DEF SetUp
      <4>4. faults' \in 0 .. MaxFaults BY <3>2 DEF SetUp, Fault
      <4> QED BY <3>2, <4>2, <4>3, <4>4 DEF SetUp
    <3> QED BY <2>4, <3>1, <3>2 DEF SetsUp
  <2> QED BY <2>1, <2>2, <2>3, <2>4
<1> QED BY <1>1, <1>2, <1>3

LEMMA TypeUser ==
    ASSUME Constants, TypeOK, User, UNCHANGED startVars PROVE TypeOK'
<1> USE DEF Constants, StartupConstants, ConfigConstants, TypeOK, StartTypeOK,
            startVars, inFlight, history, Refs, Edit
<1>1. ASSUME NEW c \in Configs, CreateConfig(c) PROVE TypeOK'
  BY <1>1 DEF CreateConfig
<1>2. ASSUME NEW c \in Configs, DeleteConfig(c) PROVE TypeOK'
  BY <1>2 DEF DeleteConfig
<1>3. ASSUME NEW w \in Workspaces, CreateWorkspace(w) PROVE TypeOK'
  BY <1>3 DEF CreateWorkspace
<1>4. ASSUME NEW w \in Workspaces, EditRef(w) PROVE TypeOK'
  BY <1>4 DEF EditRef
<1>5. ASSUME NEW w \in Workspaces, DeleteWorkspace(w) PROVE TypeOK'
  <2>1. HistoryOK'
    <3>1. CASE UNCHANGED history BY <3>1 DEF HistoryOK
    <3>2. CASE Leaves(w, NoConfig) BY <3>2, LeavesType DEF HistoryOK
    <3> QED BY <1>5, <3>1, <3>2 DEF DeleteWorkspace
  <2>2. phase' \in [Workspaces -> {"new", "live", "deleting", "gone"}]
    BY <1>5 DEF DeleteWorkspace
  <2> QED BY <1>5, <2>1, <2>2 DEF DeleteWorkspace, HistoryOK
<1> HIDE DEF TypeOK, StartTypeOK
<1> QED BY <1>1, <1>2, <1>3, <1>4, <1>5 DEF User

LEMMA TypeWork ==
    ASSUME Constants, TypeOK, MineOK, NEW w \in Workspaces, Works(w) \/ Collects(w)
    PROVE  TypeOK'
<1> USE DEF Constants, StartupConstants, ConfigConstants, TypeOK, StartTypeOK,
            Works, Collects, Reconcile, Up, inFlight, objects, history, Fault
<1>1. CASE Resolve(w) BY <1>1 DEF Resolve, Current, Refs
<1>2. CASE Track(w)
  <2>1. mine[w].ref \in Configs BY <1>2 DEF Track, MineOK
  <2>2. HistoryOK'
    <3>1. CASE UNCHANGED history BY <3>1 DEF HistoryOK
    <3>2. CASE Leaves(w, mine[w].ref) BY <2>1, <3>2, LeavesType DEF HistoryOK
    <3> QED BY <1>2, <3>1, <3>2 DEF Track, Connected
  <2>3. usage' \in [Workspaces -> Configs \cup {NoConfig}]
    BY <1>2, <2>1 DEF Track
  <2>4. at' \in [Workspaces -> {"idle", "track", "connected"}]
    BY <1>2 DEF Track, Connected
  <2>5. faults' \in 0 .. MaxFaults BY <1>2 DEF Track
  <2> QED BY <1>2, <2>2, <2>3, <2>4, <2>5 DEF Track, HistoryOK
<1>3. CASE Finish(w)
  <2>1. HistoryOK'
    <3>1. CASE UNCHANGED history BY <3>1 DEF HistoryOK
    <3>2. CASE Leaves(w, NoConfig) BY <3>2, LeavesType DEF HistoryOK
    <3> QED BY <1>3, <3>1, <3>2 DEF Finish
  <2>2. /\ phase' \in [Workspaces -> {"new", "live", "deleting", "gone"}]
        /\ finalizer' \subseteq Workspaces
        /\ at' \in [Workspaces -> {"idle", "track", "connected"}]
        /\ faults' \in 0 .. MaxFaults
    <3>1. phase' \in [Workspaces -> {"new", "live", "deleting", "gone"}]
      <4>1. phase' = phase \/ phase' = [phase EXCEPT ![w] = "gone"]
        BY <1>3 DEF Finish
      <4> QED BY <4>1
    <3>2. finalizer' \subseteq Workspaces
      <4>1. finalizer' \in {finalizer, finalizer \cup {w}, finalizer \ {w}}
        BY <1>3 DEF Finish
      <4> QED BY <4>1
    <3>3. at' \in [Workspaces -> {"idle", "track", "connected"}]
      <4>1. at' = [at EXCEPT ![w] = "idle"] BY <1>3 DEF Finish
      <4> QED BY <4>1
    <3>4. faults' \in 0 .. MaxFaults
      <4>1. UNCHANGED faults \/ Fault BY <1>3 DEF Finish
      <4> QED BY <4>1 DEF Fault
    <3> QED BY <3>1, <3>2, <3>3, <3>4
  <2> QED BY <1>3, <2>1, <2>2 DEF Finish, HistoryOK
<1>4. CASE CollectUsage(w) BY <1>4 DEF CollectUsage
<1> HIDE DEF TypeOK, StartTypeOK
<1> QED BY <1>1, <1>2, <1>3, <1>4

LEMMA TypeGuard ==
    ASSUME Constants, TypeOK, GuardedOK, NEW c \in Configs, Guards(c)
    PROVE  TypeOK'
<1>0. Count(c) \/ Settle(c) BY DEF Guards
<1>1. c \in Guarded
  BY <1>0 DEF Count, Settle, GuardedOK
<1>2. StartTypeOK'
  <2>1. UNCHANGED <<process, allowed, established, setup, collecting>>
    BY DEF Guards, Up
  <2>2. faults' \in 0 .. MaxFaults
    BY <1>0 DEF Count, Settle, Fault, TypeOK, StartTypeOK, Constants, StartupConstants
  <2> QED BY <2>1, <2>2 DEF TypeOK, StartTypeOK
<1>3. config' \in [Configs -> {"absent", "live", "deleting"}]
  <2>1. config' \in {config, [config EXCEPT ![c] = "absent"]}
    BY <1>0 DEF Count, Settle, objects
  <2> QED BY <2>1 DEF TypeOK
<1>4. held' \subseteq Guarded
  <2>1. held' \in {held, held \cup {c}, held \ {c}}
    BY <1>0 DEF Count, Settle, objects
  <2> QED BY <1>1, <2>1 DEF TypeOK
<1>5. seen' \in [Configs -> {"none", "used", "unused"}]
  BY <1>0 DEF Count, Settle, TypeOK
<1>6. UNCHANGED <<phase, ref, finalizer, usage, at, mine, using, relied, edits>>
  BY <1>0 DEF Count, Settle, objects, history
<1> QED BY <1>2, <1>3, <1>4, <1>5, <1>6 DEF TypeOK

-----------------------------------------------------------------------------
(* The parts of the invariant                                              *)

LEMMA MineStep ==
    ASSUME Constants, TypeOK, MineOK, [Next]_vars
    PROVE  MineOK'
<1> USE DEF MineOK, TypeOK, Refs, objects
<1>1. CASE UNCHANGED vars BY <1>1 DEF vars, inFlight
<1>2. CASE User /\ UNCHANGED startVars
  BY <1>2 DEF User, CreateConfig, DeleteConfig, CreateWorkspace, EditRef,
              DeleteWorkspace, inFlight
<1>3. ASSUME NEW w \in Workspaces, Works(w) \/ Collects(w) PROVE MineOK'
  <2>1. CASE Resolve(w) BY <2>1 DEF Resolve, Current
  <2>2. CASE Track(w) BY <2>2 DEF Track, Connected
  <2>3. CASE Finish(w) BY <2>3 DEF Finish
  <2>4. CASE CollectUsage(w) BY <2>4 DEF CollectUsage, inFlight
  <2> QED BY <1>3, <2>1, <2>2, <2>3, <2>4 DEF Works, Collects, Reconcile
<1>4. ASSUME NEW c \in Configs, Guards(c) PROVE MineOK'
  BY <1>4 DEF Guards, Count, Settle
<1>5. CASE \/ Establishes \/ Starts \/ Ends
           \/ \E k \in Controllers : SetsUp(k)
  BY <1>5 DEF Establishes, Starts, Ends, SetsUp, Meanwhile
<1> QED BY <1>1, <1>2, <1>3, <1>4, <1>5 DEF Next

LEMMA GuardedStep ==
    ASSUME Constants, TypeOK, GuardedOK, [Next]_vars
    PROVE  GuardedOK'
<1> USE DEF GuardedOK, TypeOK
<1>1. CASE UNCHANGED vars BY <1>1 DEF vars, inFlight
<1>2. CASE User /\ UNCHANGED startVars
  BY <1>2 DEF User, CreateConfig, DeleteConfig, CreateWorkspace, EditRef,
              DeleteWorkspace, inFlight
<1>3. ASSUME NEW w \in Workspaces, Works(w) \/ Collects(w) PROVE GuardedOK'
  BY <1>3 DEF Works, Collects, Reconcile, Resolve, Track, Finish, CollectUsage, inFlight
<1>4. ASSUME NEW c \in Configs, Guards(c) PROVE GuardedOK'
  BY <1>4 DEF Guards, Count, Settle
<1>5. CASE \/ Establishes \/ Starts \/ Ends
           \/ \E k \in Controllers : SetsUp(k)
  BY <1>5 DEF Establishes, Starts, Ends, SetsUp, Meanwhile
<1> QED BY <1>1, <1>2, <1>3, <1>4, <1>5 DEF Next

LEMMA GateStep ==
    ASSUME Constants, TypeOK, GateOK, [Next]_vars
    PROVE  GateOK'
<1> USE DEF GateOK, TypeOK, StartTypeOK
<1>1. CASE UNCHANGED startVars BY <1>1 DEF startVars
<1>2. CASE UNCHANGED <<process, established, setup>> BY <1>2
<1>3. CASE Establish BY <1>3 DEF Establish
<1>4. CASE Start BY <1>4 DEF Start, Boot, StartGated, StartUngated
<1>5. CASE SyncFails \/ Crash BY <1>5 DEF SyncFails, Crash, Exit
<1>6. ASSUME NEW k \in Controllers, Release(k) PROVE GateOK'
  BY <1>6 DEF Release
<1>7. ASSUME NEW k \in Controllers, SetUp(k) PROVE GateOK'
  <2>1. /\ process' = process /\ established' = established
        /\ setup[k] = "released" /\ process \notin {"down", "booted"}
        /\ \A c \in Controllers : c # k => setup'[c] = setup[c]
    BY <1>7 DEF SetUp
  <2> QED BY <2>1
<1> QED
  BY <1>1, <1>2, <1>3, <1>4, <1>5, <1>6, <1>7
     DEF Next, vars, Works, Collects, Guards, Up, Establishes, Starts, Ends, SetsUp

-----------------------------------------------------------------------------
(* Users and usages                                                        *)

UseOK == UsageOK /\ ReliedOK /\ SeenOK

LEMMA UseLeaves ==
    ASSUME Constants, TypeOK, UseOK, NEW w \in Workspaces,
           NEW c \in Configs \cup {NoConfig}, Leaves(w, c),
           UNCHANGED <<config, seen>>
    PROVE  ReliedOK' /\ SeenOK'
BY DEF Leaves, UseOK, ReliedOK, SeenOK, TypeOK, Constants, ConfigConstants

LEMMA UseStep ==
    ASSUME Constants, TypeOK, MineOK, UseOK, [Next]_vars
    PROVE  UseOK'
<1> USE DEF UseOK, UsageOK, ReliedOK, SeenOK
<1>1. CASE UNCHANGED vars BY <1>1 DEF vars, objects, inFlight, history
<1>2. CASE User
  <2> USE DEF objects, inFlight, history, TypeOK
  <2>1. ASSUME NEW c \in Configs, CreateConfig(c) PROVE UseOK'
    BY <2>1 DEF CreateConfig
  <2>2. ASSUME NEW c \in Configs, DeleteConfig(c) PROVE UseOK'
    BY <2>2 DEF DeleteConfig
  <2>3. ASSUME NEW w \in Workspaces, CreateWorkspace(w) PROVE UseOK'
    BY <2>3 DEF CreateWorkspace
  <2>4. ASSUME NEW w \in Workspaces, EditRef(w) PROVE UseOK'
    BY <2>4 DEF EditRef
  <2>5. ASSUME NEW w \in Workspaces, DeleteWorkspace(w) PROVE UseOK'
    <3>1. CASE Leaves(w, NoConfig)
      <4>1. ReliedOK' /\ SeenOK'
        BY <2>5, <3>1, UseLeaves DEF DeleteWorkspace
      <4>2. UsageOK' BY <2>5, <3>1 DEF DeleteWorkspace, Leaves
      <4> QED BY <4>1, <4>2
    <3>2. CASE phase' = [phase EXCEPT ![w] = "deleting"] /\ UNCHANGED history
      BY <2>5, <3>2 DEF DeleteWorkspace
    <3> QED BY <2>5, <3>1, <3>2 DEF DeleteWorkspace
  <2> HIDE DEF UseOK, TypeOK
  <2> QED BY <1>2, <2>1, <2>2, <2>3, <2>4, <2>5 DEF User
<1>3. ASSUME NEW w \in Workspaces, Works(w) \/ Collects(w) PROVE UseOK'
  <2> USE DEF objects, inFlight, history, TypeOK
  <2>1. CASE Resolve(w) BY <2>1 DEF Resolve
  <2>2. CASE Track(w)
    <3>1. mine[w].ref \in Configs /\ phase[w] # "new" BY <2>2 DEF Track, MineOK
    <3>2. CASE UNCHANGED <<usage, history>> BY <2>2, <3>2 DEF Track
    <3>3. CASE Connected(w) /\ usage' = [usage EXCEPT ![w] = mine[w].ref]
      <4>1. CASE phase[w] = "gone" BY <2>2, <3>3, <4>1 DEF Track, Connected
      <4>2. CASE phase[w] # "gone" /\ Leaves(w, mine[w].ref)
        <5>1. ReliedOK' /\ SeenOK' BY <2>2, <3>1, <4>2, UseLeaves DEF Track
        <5>2. UsageOK' BY <2>2, <3>1, <3>3, <4>2 DEF Track, Leaves
        <5> QED BY <5>1, <5>2
      <4> QED BY <3>3, <4>1, <4>2 DEF Connected
    <3> QED BY <2>2, <3>2, <3>3 DEF Track
  <2>3. CASE Finish(w)
    <3>1. CASE Leaves(w, NoConfig) /\ phase' = [phase EXCEPT ![w] = "gone"]
      <4>1. ReliedOK' /\ SeenOK' BY <2>3, <3>1, UseLeaves DEF Finish
      <4>2. usage' = usage BY <2>3 DEF Finish
      <4>3. using'[w] = NoConfig BY <3>1 DEF Leaves
      <4>4. \A v \in Workspaces : v # w => using'[v] = using[v] /\ phase'[v] = phase[v]
        BY <3>1 DEF Leaves
      <4>5. UsageOK' BY <4>2, <4>3, <4>4
      <4> QED BY <4>1, <4>5
    <3>2. CASE UNCHANGED <<phase, history>> BY <2>3, <3>2 DEF Finish
    <3> QED BY <2>3, <3>1, <3>2 DEF Finish
  <2>4. CASE CollectUsage(w) BY <2>4 DEF CollectUsage
  <2> QED BY <1>3, <2>1, <2>2, <2>3, <2>4 DEF Works, Collects, Reconcile
<1>4. ASSUME NEW c \in Configs, Guards(c) PROVE UseOK'
  <2> USE DEF objects, inFlight, history, TypeOK, Constants, ConfigConstants
  <2>1. CASE Count(c)
    <3>1. UsagesOf(c) = {} => relied[c] = {}
      BY DEF UsagesOf
    <3> QED BY <2>1, <3>1 DEF Count
  <2>2. CASE Settle(c) BY <2>2 DEF Settle
  <2> QED BY <1>4, <2>1, <2>2 DEF Guards
<1>5. CASE \/ Establishes \/ Starts \/ Ends
           \/ \E k \in Controllers : SetsUp(k)
  BY <1>5 DEF Establishes, Starts, Ends, SetsUp, Meanwhile, objects, history
<1> QED BY <1>1, <1>2, <1>3, <1>4, <1>5 DEF Next

-----------------------------------------------------------------------------
(* The theorems                                                            *)

LEMMA InvInit == ASSUME Constants, Init PROVE PInv
BY TypeInit DEF Init, StartInit, PInv, MineOK, GuardedOK, GateOK, UsageOK, ReliedOK, SeenOK

LEMMA InvStep == ASSUME Constants, PInv, [Next]_vars PROVE PInv'
<1>1. TypeOK'
  <2>1. CASE UNCHANGED vars
    BY <2>1 DEF PInv, TypeOK, StartTypeOK, vars, startVars, objects, inFlight, history
  <2> QED BY <2>1, TypeStart, TypeUser, TypeWork, TypeGuard DEF PInv, Next
<1> QED BY <1>1, MineStep, GuardedStep, GateStep, UseStep DEF PInv, UseOK

LEMMA Invariance == ASSUME Constants PROVE Spec => []PInv
BY InvInit, InvStep, PTL DEF Spec

\* The types of the processes, the objects and the reconciles.
THEOREM ConfigsTypeCorrect == ASSUME Constants PROVE Spec => []TypeOK
BY Invariance, PTL DEF PInv

\* A controller behind the gate starts no informer for a kind that is not
\* served, whatever is installed in whatever order.
THEOREM GateIsSafe == ASSUME Constants PROVE Spec => []GateHolds
<1>1. PInv => GateHolds
  BY DEF PInv, GateOK, GateHolds, Running, GatedOn, Watched
<1> QED BY <1>1, Invariance, PTL

\* A config being deleted outlives its users, however many there are.
THEOREM UsersAreSafe == ASSUME Constants PROVE Spec => UsersKeepConfig
<1>1. ASSUME PInv, [Next]_vars
      PROVE  [\A c \in Configs :
                 config[c] = "deleting" /\ config'[c] = "absent" => relied[c] = {}]_vars
  <2> SUFFICES ASSUME NEW c \in Configs, config[c] = "deleting", config'[c] = "absent"
               PROVE  relied[c] = {}
    OBVIOUS
  <2> USE DEF PInv, TypeOK, objects
  <2>1. config' # config OBVIOUS
  <2>2. PICK d \in Configs : CreateConfig(d) \/ DeleteConfig(d) \/ Settle(d)
    BY <1>1, <2>1 DEF Next, User, CreateWorkspace, EditRef, DeleteWorkspace,
          Works, Reconcile, Resolve, Track, Finish, Collects, CollectUsage,
          Guards, Count, Establishes, Starts, Ends, SetsUp, Meanwhile, vars
  <2>3. config \in [Configs -> {"absent", "live", "deleting"}] BY <1>1
  <2>4. ~CreateConfig(d) /\ ~DeleteConfig(d)
    <3>1. ASSUME CreateConfig(d) PROVE FALSE
      <4>1. config' = [config EXCEPT ![d] = "live"] BY <3>1 DEF CreateConfig
      <4> QED BY <2>3, <4>1
    <3>2. ASSUME DeleteConfig(d) PROVE FALSE
      <4>1. /\ config[d] = "live"
            /\ \E v : config' = [config EXCEPT ![d] = v]
        BY <3>2 DEF DeleteConfig
      <4> QED BY <2>3, <4>1
    <3> QED BY <3>1, <3>2
  <2>5. Settle(d) BY <2>2, <2>4
  <2>6. d = c /\ seen[c] = "unused" BY <2>3, <2>5 DEF Settle
  <2> QED BY <1>1, <2>6 DEF SeenOK
<1> QED BY <1>1, Invariance, PTL DEF Spec, UsersKeepConfig

=============================================================================
