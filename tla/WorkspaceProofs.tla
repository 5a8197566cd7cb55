-------------------------- MODULE WorkspaceProofs --------------------------
(* The inductive invariants of Workspace.tla, and the theorems that follow  *)
(* from them for every set of objects, names, files and resources, and for  *)
(* every number of faults and edits.                                        *)
EXTENDS Workspace, TLAPS

\* What the reconciles work with, whatever else goes wrong.
ReadOK(w) ==
    /\ phase[w] # "absent" => spec[w] \in Specs
    /\ pc[w] # "idle" => mg[w].module \in Modules /\ mg[w].args \in InitArgs

\* Where all is digested, a checksum on record describes files that terraform was
\* initialised for.
SumOK(c) ==
    AllDigested /\ c # NoChecksum => \E F \in SUBSET Files :
        /\ c.texts = Texts(F)
        /\ F # {}
        /\ ~Conflict(F)
        /\ Needs(F) \subseteq c.init
        /\ c.args # NoArgs

\* The stages after Connect has found the directory initialised.
Checked == Commands \cup {"select", "sum", "observed", "act"}

\* What the directory holds when the reconcile has come so far.
DirOK(w) ==
    /\ dir[w].init \subseteq dir[w].providers
    /\ pc[w] \in {"checksum", "init"} =>
           dir[w] = EmptyDir \/ mg[w].module \subseteq dir[w].files
    /\ pc[w] \in Checked =>
           \/ dir[w] = EmptyDir
           \/ /\ AllDigested => Usable(dir[w])
              /\ mg[w].module \subseteq dir[w].files

DirLocal(w) ==
    /\ ReadOK(w)
    /\ w \notin torn => SumOK(checksum[w]) /\ SumOK(mg[w].checksum) /\ DirOK(w)

\* The invariant about directories: it does not depend on which Terraform
\* workspaces the objects share, and only what it says of Usable depends on what
\* the checksum covers.
DirInv ==
    /\ TypeOK
    /\ \A w \in Workspaces : DirLocal(w)

\* The object is deleted and Observe listed no resources.
FoundGone(w) == mg[w].deleted /\ obs[w].listed = {}

\* Which Terraform workspace is selected when it matters.
SelectedOK(w) ==
    /\ dir[w].selected \in {Default, NameOf[w]}
    /\ pc[w] = "delwsDelete" => obs[w].current = NameOf[w]
    /\ w \notin torn =>
        /\ pc[w] \in Selected \cup {"act"} =>
               dir[w] = EmptyDir \/ dir[w].selected = NameOf[w]
        /\ pc[w] \in {"outputs", "sum", "observed", "destroy"} =>
               IF FoundGone(w) THEN dir[w].selected = Default
               ELSE dir[w] = EmptyDir \/ dir[w].selected = NameOf[w]
        /\ pc[w] = "delwsDelete" => dir[w].selected = Default

\* What Observe has found by then.
FoundOK(w) ==
    /\ pc[w] \in {"delws", "delwsDelete"} => FoundGone(w)
    /\ torn = {} =>
        /\ pc[w] \in {"sum", "observed"} /\ FoundGone(w) => ~obs[w].outputs
        /\ pc[w] = "destroy" => obs[w].listed # {}

\* The invariant about selected workspaces: it holds even if objects share
\* one, as long as it is not "default".
SelInv ==
    /\ TypeOK
    /\ torn = {} => ~outputs[Default]
    /\ \A w \in Workspaces : SelectedOK(w) /\ FoundOK(w)

\* The copy a reconcile works on is the object's, as long as it is fresh.
CopyOK(w) ==
    pc[w] # "idle" /\ fresh[w] =>
        /\ phase[w] # "absent"
        /\ mg[w].deleted = (phase[w] = "deleting")
        /\ mg[w].module = spec[w].module

\* What holds once Observe has found a deleted object without resources.
GoneOK(w) ==
    w \notin torn =>
        /\ pc[w] \in {"delws", "delwsDelete", "outputs", "sum", "observed"} /\ FoundGone(w) =>
               resources[NameOf[w]] = {}
        /\ pc[w] \in {"outputs", "sum", "observed"} /\ FoundGone(w) =>
               /\ NameOf[w] \notin tfws
               /\ ~outputs[NameOf[w]]

\* When a reconcile returns, only these facts about its object matter.
AtRest(w) ==
    /\ phase[w] = "deleting" => finalizer[w]
    /\ phase[w] = "absent" => ~finalizer[w] /\ ~ready[w]
    /\ w \notin torn => (resources[NameOf[w]] # {} => finalizer[w])

\* Who relies on the finalizer.
HeldOK(w) ==
    pc[w] \in {"act", "create", "apply", "createOutputs", "applyOutputs"} =>
        finalizer[w] /\ ~mg[w].deleted

\* What the invariant says of one object, its name and its infrastructure.
Local(w) ==
    /\ CopyOK(w)
    /\ GoneOK(w)
    /\ AtRest(w)
    /\ HeldOK(w)

\* The inductive invariant: it does not depend on what the checksum covers.
IInv ==
    /\ SelInv
    /\ \A w \in Workspaces : Local(w)

\* What a plan without differences, or an apply, has shown.
PlanOK(w) ==
    w \notin torn =>
        /\ pc[w] \in {"list", "outputs", "sum", "observed", "act"}
               /\ ~mg[w].deleted /\ ~obs[w].differs =>
               Applied(w, mg[w].module)
        /\ pc[w] = "applyOutputs" => Applied(w, mg[w].module)

\* All of it.
PlanInv ==
    /\ IInv
    /\ DirInv
    /\ \A w \in Workspaces : PlanOK(w)

-----------------------------------------------------------------------------
(* Types                                                                   *)

\* What the files of a directory declare and need.
LEMMA FilesType ==
    ASSUME ConstantsOK, NEW F \in SUBSET Files
    PROVE  Declared(F) \subseteq Resources /\ Needs(F) \subseteq Providers
  BY DEF ConstantsOK, Declared, Needs

LEMMA WrittenType ==
    ASSUME NEW F \in SUBSET Files, NEW m \in SUBSET Files
    PROVE  Written(F, m) \in SUBSET Files
  BY DEF Written

LEMMA ModuleType ==
    ASSUME NEW m \in Modules \cup {NoModule}
    PROVE  m \in SUBSET Files
  BY DEF Files, NoModule

\* Every way an action changes a directory gives a directory.
LEMMA DirUpdates ==
    ASSUME NEW d \in Dirs
    PROVE  /\ \A F \in SUBSET Files : [d EXCEPT !.files = F] \in Dirs
           /\ \A n \in Names : [d EXCEPT !.selected = n] \in Dirs
           /\ \A i \in SUBSET Providers, a \in InitArgs \cup {NoArgs},
                p \in SUBSET Providers :
                [d EXCEPT !.init = i, !.args = a, !.providers = p] \in Dirs
           /\ \A p \in SUBSET Providers : [d EXCEPT !.providers = p] \in Dirs
<1>1. ASSUME NEW F \in SUBSET Files
      PROVE  [d EXCEPT !.files = F] \in Dirs
  BY DEF Dirs
<1>2. ASSUME NEW n \in Names
      PROVE  [d EXCEPT !.selected = n] \in Dirs
  BY DEF Dirs
<1>3. ASSUME NEW i \in SUBSET Providers, NEW a \in InitArgs \cup {NoArgs},
             NEW p \in SUBSET Providers
      PROVE  [d EXCEPT !.init = i, !.args = a, !.providers = p] \in Dirs
  BY DEF Dirs
<1>4. ASSUME NEW p \in SUBSET Providers
      PROVE  [d EXCEPT !.providers = p] \in Dirs
  BY DEF Dirs
<1> QED BY <1>1, <1>2, <1>3, <1>4

LEMMA UninitialisedType ==
    ASSUME NEW d \in Dirs
    PROVE  Uninitialised(d) \in Dirs
  BY DEF Dirs, Uninitialised

LEMMA EmptyDirType == ConstantsOK => EmptyDir \in Dirs
  BY DEF ConstantsOK, EmptyDir, Dirs

LEMMA PreparedType ==
    ASSUME ConstantsOK, TypeOK, NEW w \in Workspaces, NEW m \in SUBSET Files
    PROVE  Prepared(w, m) \subseteq Dirs
<1>1. dir[w] \in Dirs /\ EmptyDir \in Dirs
  BY EmptyDirType DEF TypeOK
<1>2. dir[w].files \in SUBSET Files
  BY <1>1 DEF Dirs
<1>3. ASSUME NEW d \in Dirs, NEW F \in SUBSET Files
      PROVE  [d EXCEPT !.files = Written(F, m)] \in Dirs
  BY WrittenType, DirUpdates
<1>4. [dir[w] EXCEPT !.files = Written(@, m)]
         = [dir[w] EXCEPT !.files = Written(dir[w].files, m)]
  OBVIOUS
<1> QED BY <1>1, <1>2, <1>3, <1>4 DEF Prepared

LEMMA RemainsType ==
    ASSUME ConstantsOK, NEW d \in Dirs
    PROVE  Remains(d) \subseteq Dirs
<1> SUFFICES ASSUME NEW x \in Remains(d) PROVE x \in Dirs
  OBVIOUS
<1>1. PICK e \in {d, Uninitialised(d)}, F \in SUBSET d.files,
           p \in SUBSET d.providers, n \in {d.selected, Default} :
           x = [files |-> F, init |-> e.init, args |-> e.args, providers |-> p,
                selected |-> n]
  BY DEF Remains
<1>2. e \in Dirs
  BY UninitialisedType
<1>3. F \in SUBSET Files /\ p \in SUBSET Providers /\ n \in Names
  BY DEF Dirs, ConstantsOK
<1> QED BY <1>1, <1>2, <1>3 DEF Dirs

\* What a killed terraform leaves.
LEMMA KilledType ==
    ASSUME ConstantsOK, TypeOK, NEW ws \in SUBSET Workspaces, Killed(ws)
    PROVE  locked' \subseteq Names /\ leaked' \subseteq Names \X Resources
<1>1. ASSUME NEW w \in ws
      PROVE  dir[w].selected \in Names /\ InFlight(w) \subseteq Names \X Resources
  <2>1. dir[w] \in Dirs
    BY DEF TypeOK
  <2>2. dir[w].selected \in Names /\ dir[w].files \in SUBSET Files
    BY <2>1 DEF Dirs
  <2>3. Declared(dir[w].files) \subseteq Resources
    BY <2>2, FilesType
  <2> QED BY <2>2, <2>3 DEF InFlight
<1>2. {dir[w].selected : w \in {v \in ws : Writes(v)}} \subseteq Names
  BY <1>1
<1>3. UNION {InFlight(w) : w \in ws} \subseteq Names \X Resources
  BY <1>1
<1> QED BY <1>2, <1>3 DEF Killed, TypeOK

\* The helpers that several actions share keep the types.
LEMMA ReturnType ==
    ASSUME ConstantsOK, TypeOK, NEW w \in Workspaces, Return(w)
    PROVE  /\ pc' \in [Workspaces -> PCs]
           /\ mg' \in [Workspaces -> Copies]
           /\ obs' \in [Workspaces -> Observations]
           /\ fresh' \in [Workspaces -> BOOLEAN]
<1>1. NoMg \in Copies /\ NoObs \in Observations /\ "idle" \in PCs
  BY DEF ConstantsOK, NoMg, NoObs, Copies, Observations, PCs
<1> QED BY <1>1 DEF Return, Goto, TypeOK

LEMMA UserType ==
    ASSUME ConstantsOK, TypeOK, NEW w \in Workspaces, User(w)
    PROVE  TypeOK'
<1> USE DEF TypeOK
<1>1. CASE CreateObject(w)
  <2>1. EmptyDir \in Dirs /\ "live" \in Phases
    BY EmptyDirType DEF Phases
  <2> QED BY <1>1, <2>1 DEF CreateObject, work, backend, budget
<1>2. CASE EditSpec(w)
  BY <1>2 DEF EditSpec, Touch, disk, backend, ConstantsOK
<1>3. CASE DeleteObject(w)
  <2>1. UNCHANGED <<finalizer, pc, mg, obs, disk, backend, budget>>
    BY <1>3 DEF DeleteObject
  <2>2. phase' \in [Workspaces -> Phases]
    <3>1. \E p \in {"deleting", "absent"} : phase' = [phase EXCEPT ![w] = p]
      BY <1>3 DEF DeleteObject, Vanish
    <3> QED BY <3>1 DEF Phases
  <2>3. /\ spec' \in {spec, [spec EXCEPT ![w] = NoSpec]}
        /\ checksum' \in {checksum, [checksum EXCEPT ![w] = NoChecksum]}
    BY <1>3 DEF DeleteObject, Vanish
  <2>4. fresh' \in [Workspaces -> BOOLEAN]
    BY <1>3 DEF DeleteObject, Touch
  <2>5. /\ spec' \in [Workspaces -> Specs \cup {NoSpec}]
        /\ pending' \in [Workspaces -> BOOLEAN]
        /\ checksum' \in [Workspaces -> Checksums \cup {NoChecksum}]
        /\ ready' \in [Workspaces -> BOOLEAN]
    <3>1. ASSUME NEW S, NEW f \in [Workspaces -> S], NEW x \in S
          PROVE  [f EXCEPT ![w] = x] \in [Workspaces -> S]
      OBVIOUS
    <3>2. spec' \in [Workspaces -> Specs \cup {NoSpec}]
      BY <2>3, <3>1
    <3>3. checksum' \in [Workspaces -> Checksums \cup {NoChecksum}]
      BY <2>3, <3>1
    <3>4. pending' \in [Workspaces -> BOOLEAN] /\ ready' \in [Workspaces -> BOOLEAN]
      BY <1>3 DEF DeleteObject, Vanish
    <3> QED BY <3>2, <3>3, <3>4
  <2> QED BY <2>1, <2>2, <2>4, <2>5 DEF disk, backend, budget
<1>4. CASE ResolveCreate(w)
  BY <1>4 DEF ResolveCreate, work, disk, backend, budget
<1> QED BY <1>1, <1>2, <1>3, <1>4 DEF User

\* An action that either goes on with its copy and observation, or returns.
LEMMA StepType ==
    ASSUME ConstantsOK, TypeOK, NEW w \in Workspaces,
           \/ Fault \/ Fails(w) \/ Succeeds(w) \/ StopsWriting(w) \/ UNCHANGED budget
    PROVE  faults' \in 0 .. MaxFaults /\ edits' \in 0 .. MaxEdits
  BY DEF TypeOK, ConstantsOK, Fault, Fails, Succeeds, StopsWriting, budget

\* What terraform init makes of a directory.
LEMMA InitType ==
    ASSUME ConstantsOK, TypeOK, NEW w \in Workspaces, ConnectInit(w)
    PROVE  dir' \in [Workspaces -> Dirs]
<1>1. /\ dir \in [Workspaces -> Dirs] /\ dir[w] \in Dirs
      /\ mg[w].args \in InitArgs \cup {NoArgs}
  BY DEF TypeOK, Copies
<1>2. dir[w].files \in SUBSET Files /\ dir[w].providers \in SUBSET Providers
  BY <1>1 DEF Dirs
<1>3. Needs(dir[w].files) \in SUBSET Providers
  BY <1>2, FilesType
<1>4. ASSUME dir' = [dir EXCEPT ![w].init = Needs(dir[w].files),
                                ![w].args = mg[w].args,
                                ![w].providers = @ \cup Needs(dir[w].files)]
      PROVE  dir' \in [Workspaces -> Dirs]
  <2> DEFINE i == Needs(dir[w].files)
             p == dir[w].providers \cup i
  <2>1. dir' = [dir EXCEPT ![w] = [dir[w] EXCEPT !.init = i, !.args = mg[w].args,
                                                 !.providers = p]]
    BY <1>1, <1>4
  <2>2. i \in SUBSET Providers /\ p \in SUBSET Providers
    BY <1>2, <1>3
  <2> HIDE DEF i, p
  <2>3. [dir[w] EXCEPT !.init = i, !.args = mg[w].args, !.providers = p] \in Dirs
    BY <1>1, <2>2, DirUpdates
  <2> QED BY <1>1, <2>1, <2>3
<1>5. ASSUME NEW some \in SUBSET Needs(dir[w].files),
             NEW d \in {dir[w], Uninitialised(dir[w])},
             dir' = [dir EXCEPT ![w] = [d EXCEPT !.providers = @ \cup some]]
      PROVE  dir' \in [Workspaces -> Dirs]
  <2>1. d \in Dirs
    BY <1>1, UninitialisedType
  <2>2. d.providers \cup some \in SUBSET Providers
    BY <1>3, <2>1 DEF Dirs
  <2>3. [d EXCEPT !.providers = d.providers \cup some] \in Dirs
    BY <2>1, <2>2, DirUpdates
  <2> QED BY <1>1, <1>5, <2>3
<1> QED BY <1>1, <1>4, <1>5 DEF ConnectInit

LEMMA ConnectType ==
    ASSUME ConstantsOK, TypeOK, NEW w \in Workspaces, Connect(w)
    PROVE  TypeOK'
<1>r. Return(w) => /\ pc' \in [Workspaces -> PCs]
                   /\ mg' \in [Workspaces -> Copies]
                   /\ obs' \in [Workspaces -> Observations]
                   /\ fresh' \in [Workspaces -> BOOLEAN]
  BY ReturnType
<1>m. mg[w].module \in SUBSET Files
  BY ZenonT(40), ModuleType DEF TypeOK, Copies
<1> USE DEF TypeOK
<1>1. CASE ConnectPrepare(w)
  <2>1. \A m \in SUBSET mg[w].module : Prepared(w, m) \subseteq Dirs
    BY <1>m, PreparedType
  <2>2. dir' \in [Workspaces -> Dirs]
    BY <1>1, <2>1 DEF ConnectPrepare
  <2>3. faults' \in 0 .. MaxFaults /\ edits' \in 0 .. MaxEdits
    BY <1>1, StepType DEF ConnectPrepare, budget
  <2>4. pc' \in [Workspaces -> PCs]
    BY <1>1, <1>r DEF ConnectPrepare, Goto, PCs
  <2> QED BY <1>1, <1>r, <2>2, <2>3, <2>4 DEF ConnectPrepare, object, backend
<1>2. CASE ConnectChecksum(w)
  <2>3. faults' \in 0 .. MaxFaults /\ edits' \in 0 .. MaxEdits
    BY <1>2, StepType DEF ConnectChecksum, budget
  <2>4. pc' \in [Workspaces -> PCs]
    BY <1>2, <1>r DEF ConnectChecksum, Goto, PCs
  <2> QED BY <1>2, <1>r, <2>3, <2>4 DEF ConnectChecksum, object, disk, backend
<1>3. CASE ConnectInit(w)
  <2>2. dir' \in [Workspaces -> Dirs]
    BY <1>3, InitType
  <2>3. faults' \in 0 .. MaxFaults /\ edits' \in 0 .. MaxEdits
    BY <1>3, StepType DEF ConnectInit, budget
  <2>4. pc' \in [Workspaces -> PCs]
    <3>1. Goto(w, "select") \/ Return(w)
      BY <1>3 DEF ConnectInit
    <3> QED BY <1>r, <3>1 DEF Goto, PCs
  <2>5. (UNCHANGED <<mg, fresh, obs>> \/ Return(w)) /\ UNCHANGED <<object, torn, backend>>
    BY <1>3 DEF ConnectInit
  <2> QED BY <1>r, <2>2, <2>3, <2>4, <2>5 DEF object, backend
<1>4. CASE ConnectWorkspace(w)
  <2>1. tfws' \subseteq Names
    BY <1>4 DEF ConstantsOK, ConnectWorkspace
  <2>2. dir' \in [Workspaces -> Dirs]
    <3>1. [dir[w] EXCEPT !.selected = NameOf[w]] \in Dirs
      BY DirUpdates DEF ConstantsOK
    <3>2. dir' \in {dir, [dir EXCEPT ![w] = [dir[w] EXCEPT !.selected = NameOf[w]]]}
      BY <1>4 DEF ConnectWorkspace
    <3> QED BY <3>1, <3>2
  <2>3. faults' \in 0 .. MaxFaults /\ edits' \in 0 .. MaxEdits
    BY <1>4, StepType DEF ConnectWorkspace, budget
  <2>4. pc' \in [Workspaces -> PCs]
    BY <1>4, <1>r DEF ConnectWorkspace, Goto, PCs, Commands, Selected
  <2> QED BY <1>4, <1>r, <2>1, <2>2, <2>3, <2>4 DEF ConnectWorkspace, object
<1> QED BY <1>1, <1>2, <1>3, <1>4 DEF Connect

\* So does every way an action changes the copy or the observation.
LEMMA ObsUpdates ==
    ASSUME NEW o \in Observations
    PROVE  /\ \A x \in BOOLEAN : [o EXCEPT !.differs = x] \in Observations
           /\ \A x \in SUBSET Resources : [o EXCEPT !.listed = x] \in Observations
           /\ \A x \in BOOLEAN : [o EXCEPT !.outputs = x] \in Observations
           /\ \A x \in Names : [o EXCEPT !.current = x] \in Observations
<1>1. ASSUME NEW x \in BOOLEAN
      PROVE  /\ [o EXCEPT !.differs = x] \in Observations
             /\ [o EXCEPT !.outputs = x] \in Observations
  BY DEF Observations
<1>2. ASSUME NEW x \in SUBSET Resources
      PROVE  [o EXCEPT !.listed = x] \in Observations
  BY DEF Observations
<1>3. ASSUME NEW x \in Names
      PROVE  [o EXCEPT !.current = x] \in Observations
  BY DEF Observations
<1> QED BY <1>1, <1>2, <1>3

LEMMA CopyUpdates ==
    ASSUME NEW m \in Copies, NEW c \in Checksums \cup {NoChecksum}
    PROVE  [m EXCEPT !.checksum = c] \in Copies
  BY DEF Copies

LEMMA ObserveType ==
    ASSUME ConstantsOK, TypeOK, NEW w \in Workspaces, Observe(w)
    PROVE  TypeOK'
<1>r. Return(w) => /\ pc' \in [Workspaces -> PCs]
                   /\ mg' \in [Workspaces -> Copies]
                   /\ obs' \in [Workspaces -> Observations]
                   /\ fresh' \in [Workspaces -> BOOLEAN]
  BY ReturnType
<1>d. dir[w].selected \in Names
  BY DEF TypeOK, Dirs
<1>b. faults' \in 0 .. MaxFaults /\ edits' \in 0 .. MaxEdits
  BY StepType DEF Observe, CheckDiff, ListResources, LeaveWorkspace,
       DeleteWorkspace, ReadOutputs, ObserveChecksum
<1>p. pc' \in [Workspaces -> PCs]
  BY <1>r DEF Observe, CheckDiff, ListResources, AfterList, LeaveWorkspace, TypeOK,
       DeleteWorkspace, ReadOutputs, ObserveChecksum, Goto, PCs, Commands, Selected
<1>o. /\ \A x \in BOOLEAN : [obs[w] EXCEPT !.differs = x] \in Observations
      /\ \A x \in SUBSET Resources : [obs[w] EXCEPT !.listed = x] \in Observations
      /\ \A x \in BOOLEAN : [obs[w] EXCEPT !.outputs = x] \in Observations
      /\ \A x \in Names : [obs[w] EXCEPT !.current = x] \in Observations
  BY ObsUpdates DEF TypeOK
<1> USE DEF TypeOK
<1>1. CASE CheckDiff(w)
  <2>1. Diff(w) \in BOOLEAN
    BY DEF Diff
  <2>2. obs' \in [Workspaces -> Observations]
    BY <1>1, <1>r, <1>o, <2>1 DEF CheckDiff
  <2> QED BY <1>1, <1>r, <1>b, <1>p, <2>2 DEF CheckDiff, object, disk, backend
<1>2. CASE ListResources(w)
  <2>1. resources[dir[w].selected] \in SUBSET Resources
    BY <1>d
  <2>2. obs' \in [Workspaces -> Observations]
    <3>1. \/ obs' = [obs EXCEPT ![w] = [obs[w] EXCEPT !.listed = resources[dir[w].selected]]]
          \/ Return(w)
      BY <1>2 DEF ListResources
    <3>2. [obs[w] EXCEPT !.listed = resources[dir[w].selected]] \in Observations
      BY <1>o, <2>1
    <3> QED BY <3>1, <3>2, <1>r
  <2> QED BY <1>2, <1>r, <1>b, <1>p, <2>2 DEF ListResources, object, disk, backend
<1>3. CASE LeaveWorkspace(w)
  <2>1. obs' \in [Workspaces -> Observations]
    BY <1>3, <1>r, <1>o, <1>d DEF LeaveWorkspace
  <2>2. \A n \in {dir[w].selected, Default} : [dir[w] EXCEPT !.selected = n] \in Dirs
    BY <1>d, DirUpdates DEF ConstantsOK
  <2>3. dir' \in [Workspaces -> Dirs]
    <3>1. PICK n \in {dir[w].selected, Default} : dir' = [dir EXCEPT ![w].selected = n]
      BY <1>3 DEF LeaveWorkspace
    <3>2. dir' = [dir EXCEPT ![w] = [dir[w] EXCEPT !.selected = n]]
      BY <3>1
    <3>3. [dir[w] EXCEPT !.selected = n] \in Dirs
      BY <2>2
    <3> QED BY <3>2, <3>3
  <2> QED BY <1>3, <1>r, <1>b, <1>p, <2>1, <2>3 DEF LeaveWorkspace, object, backend
<1>4. CASE DeleteWorkspace(w)
  BY <1>4, <1>r, <1>b, <1>p DEF DeleteWorkspace, object, disk
<1>5. CASE ReadOutputs(w)
  <2>1. obs' \in [Workspaces -> Observations]
    BY <1>5, <1>r, <1>o, <1>d DEF ReadOutputs
  <2> QED BY <1>5, <1>r, <1>b, <1>p, <2>1 DEF ReadOutputs, object, disk, backend
<1>6. CASE ObserveChecksum(w)
  <2>1. [mg[w] EXCEPT !.checksum = GenerateChecksum(dir[w])] \in Copies
    <3>1. GenerateChecksum(dir[w]) \in Checksums
      <4>1. dir[w] \in Dirs
        OBVIOUS
      <4>2. Texts(dir[w].files) \in SUBSET Texts(Files)
        BY <4>1 DEF Dirs, Texts
      <4> QED BY <4>1, <4>2 DEF GenerateChecksum, Checksums, Dirs
    <3> QED BY <3>1, CopyUpdates
  <2>2. mg' \in [Workspaces -> Copies]
    BY <1>6, <1>r, <2>1 DEF ObserveChecksum
  <2> QED BY <1>6, <1>r, <1>b, <1>p, <2>2 DEF ObserveChecksum, SaveStatus, disk, backend
<1> QED BY <1>1, <1>2, <1>3, <1>4, <1>5, <1>6 DEF Observe

LEMMA SaveType ==
    ASSUME TypeOK, NEW w \in Workspaces, NEW c \in Checksums \cup {NoChecksum},
           NEW r \in BOOLEAN, SaveStatus(w, c, r)
    PROVE  /\ checksum' \in [Workspaces -> Checksums \cup {NoChecksum}]
           /\ ready' \in [Workspaces -> BOOLEAN]
  BY DEF TypeOK, SaveStatus

LEMMA DecideType ==
    ASSUME ConstantsOK, TypeOK, NEW w \in Workspaces,
           Start(w) \/ ReconcileDeleted(w) \/ AddFinalizer(w) \/ Act(w)
    PROVE  TypeOK'
<1>r. Return(w) => /\ pc' \in [Workspaces -> PCs]
                   /\ mg' \in [Workspaces -> Copies]
                   /\ obs' \in [Workspaces -> Observations]
                   /\ fresh' \in [Workspaces -> BOOLEAN]
  BY ReturnType
<1>b. faults' \in 0 .. MaxFaults /\ edits' \in 0 .. MaxEdits
  BY StepType DEF Start, ReconcileDeleted, AddFinalizer, Act, budget
<1>p. pc' \in [Workspaces -> PCs]
  <2>1. \/ Return(w)
        \/ \E l \in {"connect", "destroy", "act", "create", "apply"} : Goto(w, l)
    BY DEF Start, ReconcileDeleted, AddFinalizer, Act
  <2>2. {"connect", "destroy", "act", "create", "apply"} \subseteq PCs
    BY DEF PCs, Commands, Selected
  <2> QED BY <1>r, <2>1, <2>2 DEF TypeOK, Goto
<1>m. /\ mg[w].checksum \in Checksums \cup {NoChecksum}
      /\ \A c \in {mg[w].checksum, checksum[w]} : [mg[w] EXCEPT !.checksum = c] \in Copies
  <2>1. mg[w].checksum \in Checksums \cup {NoChecksum}
    BY DEF TypeOK, Copies
  <2> QED BY <2>1, CopyUpdates DEF TypeOK
<1> USE DEF TypeOK
<1>1. CASE Start(w)
  <2>1. [deleted |-> phase[w] = "deleting", module |-> spec[w].module,
         args |-> spec[w].args, checksum |-> checksum[w]] \in Copies
    BY DEF Copies, Specs, NoSpec
  <2> QED BY <1>1, <1>b, <1>p, <2>1 DEF Start, object, disk, backend
<1>2. CASE ReconcileDeleted(w)
  <2>1. UNCHANGED object \/ Vanish(w) \/ SaveStatus(w, mg[w].checksum, FALSE)
    BY <1>2 DEF ReconcileDeleted
  <2>2. /\ checksum' \in [Workspaces -> Checksums \cup {NoChecksum}]
        /\ ready' \in [Workspaces -> BOOLEAN]
    BY <2>1, <1>m DEF object, Vanish, SaveStatus
  <2>3. /\ phase' \in [Workspaces -> Phases]
        /\ spec' \in [Workspaces -> Specs \cup {NoSpec}]
        /\ finalizer' \in [Workspaces -> BOOLEAN]
        /\ pending' \in [Workspaces -> BOOLEAN]
    <3>1. /\ phase' \in {phase, [phase EXCEPT ![w] = "absent"]}
          /\ spec' \in {spec, [spec EXCEPT ![w] = NoSpec]}
          /\ finalizer' = finalizer \/ finalizer' = [finalizer EXCEPT ![w] = FALSE]
          /\ pending' = pending \/ pending' = [pending EXCEPT ![w] = FALSE]
      BY <1>2 DEF ReconcileDeleted, Vanish, object
    <3>2. "absent" \in Phases
      BY DEF Phases
    <3>3. phase' \in [Workspaces -> Phases]
      BY <3>1, <3>2
    <3>4. spec' \in [Workspaces -> Specs \cup {NoSpec}]
      BY <3>1
    <3>5. finalizer' \in [Workspaces -> BOOLEAN]
      BY <3>1
    <3>6. pending' \in [Workspaces -> BOOLEAN]
      BY <3>1
    <3> QED BY <3>3, <3>4, <3>5, <3>6
  <2> QED BY <1>2, <1>r, <1>b, <1>p, <2>2, <2>3 DEF ReconcileDeleted, disk, backend
<1>3. CASE AddFinalizer(w)
  <2>1. mg' \in [Workspaces -> Copies]
    BY <1>3, <1>r, <1>m DEF AddFinalizer
  <2> QED BY ZenonT(40), <1>3, <1>r, <1>b, <1>p, <1>m, <2>1 DEF AddFinalizer, SaveStatus,
            object, disk, backend
<1>4. CASE Act(w)
  <2>1. mg' \in [Workspaces -> Copies]
    <3>1. \/ mg' = mg
          \/ \E c \in {mg[w].checksum, checksum[w]} :
                mg' = [mg EXCEPT ![w] = [mg[w] EXCEPT !.checksum = c]]
          \/ Return(w)
      BY <1>4 DEF Act
    <3> QED BY <3>1, <1>r, <1>m
  <2>2. /\ checksum' \in [Workspaces -> Checksums \cup {NoChecksum}]
        /\ ready' \in [Workspaces -> BOOLEAN]
    <3>1. \/ UNCHANGED <<checksum, ready>>
          \/ \E r \in BOOLEAN : SaveStatus(w, mg[w].checksum, r)
      BY <1>4 DEF Act
    <3> QED BY <1>m, <3>1, SaveType
  <2>3. /\ pending' \in [Workspaces -> BOOLEAN]
        /\ UNCHANGED <<fresh, obs>> \/ Return(w)
        /\ UNCHANGED <<phase, spec, finalizer, disk, backend>>
    BY <1>4 DEF Act
  <2> QED BY <1>r, <1>b, <1>p, <2>1, <2>2, <2>3 DEF disk, backend
<1> QED BY <1>1, <1>2, <1>3, <1>4

LEMMA ChangeType ==
    ASSUME ConstantsOK, TypeOK, NEW w \in Workspaces, Change(w)
    PROVE  TypeOK'
<1>r. Return(w) => /\ pc' \in [Workspaces -> PCs]
                   /\ mg' \in [Workspaces -> Copies]
                   /\ obs' \in [Workspaces -> Observations]
                   /\ fresh' \in [Workspaces -> BOOLEAN]
  BY ReturnType
<1>b. faults' \in 0 .. MaxFaults /\ edits' \in 0 .. MaxEdits
  BY StepType DEF Change, ApplyOne, ApplyDone, ApplyFails, CreateOutputs,
       UpdateOutputs, DestroyOne, DestroyEnds
<1>d. /\ dir[w].selected \in Names
      /\ mg[w].checksum \in Checksums \cup {NoChecksum}
  BY DEF TypeOK, Dirs, Copies
<1>f. Declared(dir[w].files) \subseteq Resources
  <2>1. dir[w].files \in SUBSET Files
    BY DEF TypeOK, Dirs
  <2> QED BY <2>1, FilesType
<1>k. StopsWriting(w) => locked' \subseteq Names /\ leaked' \subseteq Names \X Resources
  <2>1. Killed({w}) => locked' \subseteq Names /\ leaked' \subseteq Names \X Resources
    BY KilledType
  <2> QED BY <2>1 DEF StopsWriting, TypeOK
<1> USE DEF TypeOK
<1>1. CASE ApplyOne(w)
  <2>2. resources' \in [Names -> SUBSET Resources]
    BY <1>1, <1>d, <1>f DEF ApplyOne
  <2> QED BY <1>1, <1>b, <2>2 DEF ApplyOne, object, work, disk
<1>2. CASE ApplyDone(w)
  <2>1. HasOutput(dir[w].files) \in BOOLEAN
    BY DEF HasOutput
  <2>2. outputs' \in [Names -> BOOLEAN] /\ drifted' \subseteq Names
    BY <1>2, <1>d, <2>1 DEF ApplyDone
  <2>3. pc' \in [Workspaces -> PCs]
    BY <1>2 DEF ApplyDone, Goto, PCs, Commands, Selected
  <2> QED BY <1>2, <1>b, <2>2, <2>3 DEF ApplyDone, object, disk
<1>3. CASE ApplyFails(w)
  <2>1. /\ checksum' \in [Workspaces -> Checksums \cup {NoChecksum}]
        /\ ready' \in [Workspaces -> BOOLEAN]
    <3>1. CASE FinishCreate(w, mg[w].checksum)
      BY <1>d, <3>1 DEF FinishCreate
    <3>2. CASE SaveStatus(w, mg[w].checksum, ready[w])
      BY <1>d, <3>2, SaveType
    <3> QED BY <1>3, <3>1, <3>2 DEF ApplyFails
  <2>2. pending' \in [Workspaces -> BOOLEAN] /\ Return(w) /\ StopsWriting(w)
    BY <1>3 DEF ApplyFails, FinishCreate
  <2>3. UNCHANGED <<phase, spec, finalizer, disk, tfws, resources, outputs, drifted>>
    BY <1>3 DEF ApplyFails
  <2> QED BY <1>r, <1>b, <1>k, <2>1, <2>2, <2>3 DEF disk
<1>4. CASE CreateOutputs(w)
  BY <1>4, <1>r, <1>b, <1>d DEF CreateOutputs, FinishCreate, disk, backend
<1>5. CASE UpdateOutputs(w)
  <2>1. checksum' \in [Workspaces -> Checksums \cup {NoChecksum}]
        /\ ready' \in [Workspaces -> BOOLEAN]
    <3>1. mg[w].checksum \in Checksums \cup {NoChecksum} /\ ready[w] \in BOOLEAN
      BY <1>d
    <3> QED BY ZenonT(40), <1>5, <3>1 DEF UpdateOutputs, SaveStatus
  <2> QED BY <1>5, <1>r, <1>b, <2>1 DEF UpdateOutputs, disk, backend
<1>6. CASE DestroyOne(w)
  BY <1>6, <1>b, <1>d DEF DestroyOne, object, work, disk
<1>7. CASE DestroyEnds(w)
  BY ZenonT(40), <1>7, <1>r, <1>b, <1>d, <1>k DEF DestroyEnds, SaveStatus, disk
<1> QED BY <1>1, <1>2, <1>3, <1>4, <1>5, <1>6, <1>7 DEF Change

\* TypeOK is inductive on its own.
THEOREM TypeCorrect == ConstantsOK => (Spec => []TypeOK)
<1> SUFFICES ASSUME ConstantsOK PROVE Spec => []TypeOK
  OBVIOUS
<1>1. Init => TypeOK
  <2>1. /\ EmptyDir \in Dirs /\ NoMg \in Copies /\ NoObs \in Observations
        /\ "idle" \in PCs /\ "absent" \in Phases
    BY EmptyDirType DEF ConstantsOK, NoMg, Copies, NoObs, Observations, PCs, Phases
  <2> QED BY <2>1 DEF Init, TypeOK, ConstantsOK
<1>2. TypeOK /\ [Next]_vars => TypeOK'
  <2> SUFFICES ASSUME TypeOK, [Next]_vars PROVE TypeOK'
    OBVIOUS
  <2>1. ASSUME NEW w \in Workspaces, User(w) PROVE TypeOK'
    BY <2>1, UserType
  <2>2. ASSUME NEW w \in Workspaces, Reconcile(w) PROVE TypeOK'
    BY <2>2, ConnectType, ObserveType, DecideType, ChangeType DEF Reconcile
  <2>3. ASSUME NEW w \in Workspaces, LoseDir(w) PROVE TypeOK'
    <3>1. EmptyDir \in Dirs /\ Remains(dir[w]) \subseteq Dirs
      BY EmptyDirType, RemainsType DEF TypeOK
    <3>2. dir' \in [Workspaces -> Dirs] /\ torn' \subseteq Workspaces
      BY <2>3, <3>1 DEF LoseDir, TypeOK
    <3>3. faults' \in 0 .. MaxFaults /\ edits' \in 0 .. MaxEdits
      BY <2>3, StepType DEF LoseDir
    <3>4. UNCHANGED <<object, work, backend>>
      BY <2>3 DEF LoseDir
    <3> QED BY <3>2, <3>3, <3>4 DEF TypeOK, object, work, backend
  <2>4. ASSUME NEW n \in Names, Drift(n) \/ Unlock(n) PROVE TypeOK'
    BY <2>4 DEF Drift, Unlock, TypeOK, object, work, disk, budget, ConstantsOK
  <2>5. CASE Crash
    <3>1. EmptyDir \in Dirs /\ NoMg \in Copies /\ NoObs \in Observations /\ "idle" \in PCs
      BY EmptyDirType DEF ConstantsOK, NoMg, Copies, NoObs, Observations, PCs
    <3>3. locked' \subseteq Names /\ leaked' \subseteq Names \X Resources
      BY <2>5, KilledType DEF Crash
    <3> QED BY <2>5, <3>1, <3>3 DEF Crash, Fault, TypeOK, ConstantsOK, object
  <2>6. CASE UNCHANGED vars
    BY <2>6 DEF vars, object, work, disk, backend, budget, TypeOK
  <2> QED BY <2>1, <2>2, <2>3, <2>4, <2>5, <2>6 DEF Next
<1> QED BY <1>1, <1>2, PTL DEF Spec

-----------------------------------------------------------------------------
(* Objects do not touch each other's                                       *)

\* Nothing of the object v, of its reconcile or its directory changes.
Alone(v) ==
    /\ phase'[v] = phase[v]
    /\ spec'[v] = spec[v]
    /\ finalizer'[v] = finalizer[v]
    /\ checksum'[v] = checksum[v]
    /\ ready'[v] = ready[v]
    /\ pc'[v] = pc[v]
    /\ mg'[v] = mg[v]
    /\ fresh'[v] = fresh[v]
    /\ obs'[v] = obs[v]
    /\ dir'[v] = dir[v]
    /\ v \in torn => v \in torn'

LEMMA OthersAlone ==
    ASSUME TypeOK, NEW w \in Workspaces, User(w) \/ Reconcile(w) \/ LoseDir(w),
           NEW v \in Workspaces \ {w}
    PROVE  Alone(v)
<1> USE DEF TypeOK, Alone
<1>1. CASE User(w)
  BY <1>1 DEF User, CreateObject, EditSpec, DeleteObject, ResolveCreate, Touch, Vanish,
     work, disk
<1>2. CASE LoseDir(w)
  BY <1>2 DEF LoseDir, object, work
<1>3. CASE Start(w) \/ Connect(w)
  <2>1. UNCHANGED <<object, torn>>
    BY <1>3 DEF Start, Connect, ConnectPrepare, ConnectChecksum, ConnectInit,
       ConnectWorkspace, disk
  <2>2. pc'[v] = pc[v] /\ mg'[v] = mg[v]
    BY <1>3 DEF Start, Connect, ConnectPrepare, ConnectChecksum, ConnectInit,
       ConnectWorkspace, Return, Goto
  <2>3. fresh'[v] = fresh[v] /\ obs'[v] = obs[v]
    BY <1>3 DEF Start, Connect, ConnectPrepare, ConnectChecksum, ConnectInit,
       ConnectWorkspace, Return
  <2>4. dir'[v] = dir[v]
    BY <1>3 DEF Start, Connect, ConnectPrepare, ConnectChecksum, ConnectInit,
       ConnectWorkspace, disk
  <2> QED BY <2>1, <2>2, <2>3, <2>4 DEF object
<1>4. CASE Observe(w)
  <2>1. UNCHANGED <<phase, spec, finalizer, torn>>
    BY <1>4 DEF Observe, CheckDiff, ListResources, LeaveWorkspace, DeleteWorkspace,
       ReadOutputs, ObserveChecksum, object, disk
  <2>2. checksum'[v] = checksum[v] /\ ready'[v] = ready[v]
    BY <1>4 DEF Observe, CheckDiff, ListResources, LeaveWorkspace, DeleteWorkspace,
       ReadOutputs, ObserveChecksum, SaveStatus, object
  <2>3. pc'[v] = pc[v] /\ mg'[v] = mg[v]
    BY <1>4 DEF Observe, CheckDiff, ListResources, LeaveWorkspace, DeleteWorkspace,
       ReadOutputs, ObserveChecksum, Return, Goto
  <2>4. fresh'[v] = fresh[v] /\ obs'[v] = obs[v] /\ dir'[v] = dir[v]
    BY <1>4 DEF Observe, CheckDiff, ListResources, LeaveWorkspace, DeleteWorkspace,
       ReadOutputs, ObserveChecksum, Return, disk
  <2> QED BY <2>1, <2>2, <2>3, <2>4
<1>5. CASE ReconcileDeleted(w) \/ AddFinalizer(w) \/ Act(w)
  <2>1. /\ phase'[v] = phase[v] /\ spec'[v] = spec[v]
        /\ finalizer'[v] = finalizer[v] /\ UNCHANGED disk
    BY <1>5 DEF ReconcileDeleted, AddFinalizer, Act, Vanish, object
  <2>2. checksum'[v] = checksum[v] /\ ready'[v] = ready[v]
    BY <1>5 DEF ReconcileDeleted, AddFinalizer, Act, Vanish, SaveStatus, object
  <2>3. pc'[v] = pc[v] /\ mg'[v] = mg[v]
    BY <1>5 DEF ReconcileDeleted, AddFinalizer, Act, Return, Goto
  <2>4. fresh'[v] = fresh[v] /\ obs'[v] = obs[v]
    BY <1>5 DEF ReconcileDeleted, AddFinalizer, Act, Return
  <2> QED BY <2>1, <2>2, <2>3, <2>4 DEF disk
<1>6. CASE Change(w)
  <2>1. UNCHANGED <<phase, spec, finalizer, disk>>
    BY <1>6 DEF Change, ApplyOne, ApplyDone, ApplyFails, CreateOutputs, UpdateOutputs,
       DestroyOne, DestroyEnds, object
  <2>2. checksum'[v] = checksum[v] /\ ready'[v] = ready[v]
    BY <1>6 DEF Change, ApplyOne, ApplyDone, ApplyFails, CreateOutputs, UpdateOutputs,
       DestroyOne, DestroyEnds, FinishCreate, SaveStatus, object
  <2>3. pc'[v] = pc[v]
    BY <1>6 DEF Change, ApplyOne, ApplyDone, ApplyFails, CreateOutputs, UpdateOutputs,
       DestroyOne, DestroyEnds, FinishCreate, Return, Goto, work
  <2>4. mg'[v] = mg[v] /\ fresh'[v] = fresh[v] /\ obs'[v] = obs[v]
    BY <1>6 DEF Change, ApplyOne, ApplyDone, ApplyFails, CreateOutputs, UpdateOutputs,
       DestroyOne, DestroyEnds, FinishCreate, Return, work
  <2> QED BY <2>1, <2>2, <2>3, <2>4 DEF disk
<1> QED BY <1>1, <1>2, <1>3, <1>4, <1>5, <1>6 DEF Reconcile

\* Only a collector tears directories, and what is torn stays torn.
LEMMA TornBy ==
    ASSUME NEW w \in Workspaces, User(w) \/ Reconcile(w)
    PROVE  UNCHANGED torn
<1>1. CASE User(w)
  BY <1>1 DEF User, CreateObject, EditSpec, DeleteObject, ResolveCreate, disk
<1>2. CASE Start(w) \/ Connect(w) \/ Observe(w)
  BY <1>2 DEF Start, Connect, ConnectPrepare, ConnectChecksum, ConnectInit,
     ConnectWorkspace, Observe, CheckDiff, ListResources, LeaveWorkspace, DeleteWorkspace,
     ReadOutputs, ObserveChecksum, disk
<1>3. CASE ReconcileDeleted(w) \/ AddFinalizer(w) \/ Act(w) \/ Change(w)
  BY <1>3 DEF ReconcileDeleted, AddFinalizer, Act, Change, ApplyOne, ApplyDone, ApplyFails,
     CreateOutputs, UpdateOutputs, DestroyOne, DestroyEnds, disk
<1> QED BY <1>1, <1>2, <1>3 DEF Reconcile

LEMMA TornGrows ==
    ASSUME [Next]_vars
    PROVE  torn \subseteq torn'
<1>1. ASSUME NEW w \in Workspaces, LoseDir(w) PROVE torn \subseteq torn'
  BY <1>1 DEF LoseDir
<1>2. (\E n \in Names : Drift(n) \/ Unlock(n)) \/ Crash \/ UNCHANGED vars => UNCHANGED torn
  BY DEF Drift, Unlock, Crash, vars, disk
<1> QED BY <1>1, <1>2, TornBy DEF Next

-----------------------------------------------------------------------------
(* Directories                                                             *)

\* The files of a checked directory are kept, and what init recorded.
SameFiles(w) ==
    \/ dir'[w] = dir[w]
    \/ /\ Usable(dir[w])
       /\ \E n \in Names : dir'[w] = [dir[w] EXCEPT !.selected = n]

\* A reconcile that goes on in a checked directory.
LEMMA CheckedStays ==
    ASSUME NEW w \in Workspaces, dir[w] \in Dirs, DirLocal(w), pc[w] \in Checked,
           SameFiles(w), UNCHANGED torn, mg'[w].module = mg[w].module, ReadOK(w)',
           w \notin torn => SumOK(checksum'[w]) /\ SumOK(mg'[w].checksum)
    PROVE  DirLocal(w)'
<1> SUFFICES ASSUME w \notin torn PROVE DirOK(w)'
  BY DEF DirLocal
<1>1. \/ dir'[w] = dir[w]
      \/ /\ Usable(dir[w]) /\ dir'[w].files = dir[w].files
         /\ dir'[w].init = dir[w].init /\ dir'[w].args = dir[w].args
         /\ dir'[w].providers = dir[w].providers
  BY DEF SameFiles, Dirs
<1>2. Usable(dir[w]) => Usable(dir'[w])
  BY <1>1 DEF Usable
<1>3. dir[w] = EmptyDir => dir'[w] = EmptyDir
  BY <1>1 DEF Usable, EmptyDir
<1> QED BY <1>1, <1>2, <1>3 DEF DirLocal, DirOK

\* A reconcile that returns leaves the plugins of what was initialised.
LEMMA ReturnDir ==
    ASSUME TypeOK, NEW w \in Workspaces, Return(w), UNCHANGED torn, ReadOK(w)',
           w \notin torn => /\ SumOK(checksum'[w])
                            /\ dir'[w].init \subseteq dir'[w].providers
    PROVE  DirLocal(w)'
<1>1. pc'[w] = "idle" /\ mg'[w] = NoMg
  BY DEF Return, Goto, TypeOK
<1> QED BY <1>1 DEF DirLocal, DirOK, SumOK, NoMg, Checked, Commands, Selected

\* What is read is a spec of the user.
LEMMA ReadKept ==
    ASSUME ConstantsOK, TypeOK, NEW w \in Workspaces, ReadOK(w),
           User(w) \/ Reconcile(w) \/ LoseDir(w)
    PROVE  ReadOK(w)'
<1> USE DEF ReadOK
<1>1. CASE User(w)
  <2>1. UNCHANGED <<pc, mg>>
    BY <1>1 DEF User, CreateObject, EditSpec, DeleteObject, ResolveCreate, work
  <2>2. phase'[w] # "absent" => spec'[w] \in Specs
    <3>1. CASE CreateObject(w) \/ EditSpec(w)
      BY <3>1 DEF CreateObject, EditSpec, TypeOK
    <3>2. CASE DeleteObject(w) \/ ResolveCreate(w)
      BY <3>2 DEF DeleteObject, ResolveCreate, Vanish, TypeOK
    <3> QED BY <1>1, <3>1, <3>2 DEF User
  <2> QED BY <2>1, <2>2
<1>2. CASE LoseDir(w)
  BY <1>2 DEF LoseDir, object, work
<1>3. CASE Start(w)
  <2>1. /\ phase[w] # "absent" /\ UNCHANGED <<phase, spec>>
        /\ mg'[w].module = spec[w].module /\ mg'[w].args = spec[w].args
    BY <1>3 DEF Start, object, TypeOK
  <2> QED BY <2>1 DEF Specs
<1>4. CASE Return(w) /\ Reconcile(w)
  <2>1. pc'[w] = "idle"
    BY <1>4 DEF Return, Goto, TypeOK
  <2>2. phase'[w] # "absent" => phase'[w] = phase[w] /\ UNCHANGED spec
    BY <1>4 DEF Reconcile, Start, Connect, ConnectPrepare, ConnectChecksum, ConnectInit,
       ConnectWorkspace, Observe, CheckDiff, ListResources, LeaveWorkspace, DeleteWorkspace,
       ReadOutputs, ObserveChecksum, ReconcileDeleted, AddFinalizer, Act, Change, ApplyOne,
       ApplyDone, ApplyFails, CreateOutputs, UpdateOutputs, DestroyOne, DestroyEnds, Vanish,
       object, TypeOK
  <2> QED BY <2>1, <2>2
<1>5. CASE ~Return(w) /\ Reconcile(w) /\ ~Start(w)
  <2>1. pc[w] # "idle" /\ UNCHANGED <<phase, spec>>
    <3>1. CASE Connect(w) \/ Observe(w)
      BY <1>5, <3>1 DEF Connect, ConnectPrepare, ConnectChecksum, ConnectInit,
       ConnectWorkspace, Observe, CheckDiff, ListResources, LeaveWorkspace, DeleteWorkspace,
       ReadOutputs, ObserveChecksum, object
    <3>2. CASE ReconcileDeleted(w) \/ AddFinalizer(w) \/ Act(w) \/ Change(w)
      BY <1>5, <3>2 DEF ReconcileDeleted, AddFinalizer, Act, Change, ApplyOne,
       ApplyDone, ApplyFails, CreateOutputs, UpdateOutputs, DestroyOne, DestroyEnds, object
    <3> QED BY <1>5, <3>1, <3>2 DEF Reconcile
  <2>2. mg' = mg \/ \E c : mg' = [mg EXCEPT ![w] = [mg[w] EXCEPT !.checksum = c]]
    <3>1. CASE Connect(w) \/ Observe(w)
      BY <1>5, <3>1 DEF Connect, ConnectPrepare, ConnectChecksum, ConnectInit,
       ConnectWorkspace, Observe, CheckDiff, ListResources, LeaveWorkspace, DeleteWorkspace,
       ReadOutputs, ObserveChecksum
    <3>2. CASE ReconcileDeleted(w) \/ AddFinalizer(w) \/ Act(w) \/ Change(w)
      BY <1>5, <3>2 DEF ReconcileDeleted, AddFinalizer, Act, Change, ApplyOne,
       ApplyDone, ApplyFails, CreateOutputs, UpdateOutputs, DestroyOne, DestroyEnds,
       FinishCreate, work
    <3> QED BY <1>5, <3>1, <3>2 DEF Reconcile
  <2>3. mg'[w].module = mg[w].module /\ mg'[w].args = mg[w].args
    BY <2>2 DEF TypeOK, Copies
  <2> QED BY <2>1, <2>3
<1> QED BY <1>1, <1>2, <1>3, <1>4, <1>5

\* Where all is digested, the texts tell the files.
LEMMA TextsTell ==
    ASSUME AllDigested, NEW F \in SUBSET Files, NEW G \in SUBSET Files,
           Texts(F) = Texts(G)
    PROVE  F \subseteq G
<1> SUFFICES ASSUME NEW f \in F PROVE f \in G
  OBVIOUS
<1>1. <<f.path, f.text>> \in Texts(G)
  BY DEF Texts
<1>2. PICK g \in G : <<f.path, f.text>> = <<g.path, g.text>>
  BY <1>1 DEF Texts
<1>3. f.path = g.path /\ f.text = g.text
  BY <1>2
<1> QED BY <1>3 DEF AllDigested

\* The checksum of a usable directory says so ...
LEMMA UsableSum ==
    ASSUME NEW d \in Dirs, Usable(d)
    PROVE  SumOK(GenerateChecksum(d))
<1>1. d.files \in SUBSET Files
  BY DEF Dirs
<1> QED BY <1>1 DEF SumOK, GenerateChecksum, Usable

\* ... and nothing else has that checksum but directories that are usable.
LEMMA SumUsable ==
    ASSUME ConstantsOK, AllDigested, NEW d \in Dirs, d.init \subseteq d.providers,
           GenerateChecksum(d) # NoChecksum, SumOK(GenerateChecksum(d))
    PROVE  Usable(d)
<1>1. PICK F \in SUBSET Files : /\ Texts(d.files) = Texts(F)
                                /\ F # {}
                                /\ ~Conflict(F)
                                /\ Needs(F) \subseteq d.init
                                /\ d.args # NoArgs
  BY DEF SumOK, GenerateChecksum
<1>2. d.files \in SUBSET Files
  BY DEF Dirs
<1>3. d.files = F
  <2>1. d.files \subseteq F
    BY <1>1, <1>2, TextsTell
  <2>2. F \subseteq d.files
    BY <1>1, <1>2, TextsTell
  <2> QED BY <2>1, <2>2
<1> QED BY <1>1, <1>3 DEF Usable

\* Connect's file operations leave the rest as it is, or clear it.
LEMMA PreparedForm ==
    ASSUME NEW w \in Workspaces, NEW m, NEW d \in Prepared(w, m)
    PROVE  \E e \in {dir[w], EmptyDir}, F \in SUBSET dir[w].files :
               d = [e EXCEPT !.files = Written(F, m)]
<1>1. CASE d = [dir[w] EXCEPT !.files = Written(@, m)]
  BY <1>1
<1>2. CASE d # [dir[w] EXCEPT !.files = Written(@, m)]
  BY <1>2 DEF Prepared
<1> QED BY <1>1, <1>2

\* What Connect's file operations leave of what was initialised, and write.
LEMMA PreparedDir ==
    ASSUME ConstantsOK, NEW w \in Workspaces, dir[w] \in Dirs,
           dir[w].init \subseteq dir[w].providers, NEW m, NEW d \in Prepared(w, m)
    PROVE  m \subseteq d.files /\ d.init \subseteq d.providers
<1>1. PICK e \in {dir[w], EmptyDir}, F \in SUBSET dir[w].files :
           d = [e EXCEPT !.files = Written(F, m)]
  BY PreparedForm
<1>2. e \in Dirs /\ e.init \subseteq e.providers
  <2>1. EmptyDir \in Dirs /\ EmptyDir.init \subseteq EmptyDir.providers
    BY EmptyDirType DEF EmptyDir
  <2> QED BY <2>1
<1>3. d.files = Written(F, m) /\ d.init = e.init /\ d.providers = e.providers
  BY <1>1, <1>2 DEF Dirs
<1> QED BY <1>2, <1>3 DEF Written

\* They leave the selected workspace, or with all that was there the default one.
LEMMA PreparedSel ==
    ASSUME ConstantsOK, NEW w \in Workspaces, dir[w] \in Dirs, NEW m,
           NEW d \in Prepared(w, m)
    PROVE  d.selected \in {dir[w].selected, Default}
<1>1. PICK e \in {dir[w], EmptyDir}, F \in SUBSET dir[w].files :
           d = [e EXCEPT !.files = Written(F, m)]
  BY PreparedForm
<1>2. e \in Dirs /\ e.selected \in {dir[w].selected, Default}
  <2>1. EmptyDir \in Dirs /\ EmptyDir.selected = Default
    BY EmptyDirType DEF EmptyDir
  <2> QED BY <2>1
<1> QED BY <1>1, <1>2 DEF Dirs

\* Users, and whoever loses the directory without tearing it, at worst empty it.
LEMMA OutsideDir ==
    ASSUME ConstantsOK, DirInv, NEW w \in Workspaces, User(w) \/ LoseDir(w)
    PROVE  DirLocal(w)'
<1> USE DEF DirInv
<1>1. UNCHANGED <<pc, mg>>
  BY DEF User, CreateObject, EditSpec, DeleteObject, ResolveCreate, LoseDir, work
<1>r. ReadOK(w)'
  BY ReadKept DEF DirLocal
<1> SUFFICES ASSUME w \notin torn' PROVE DirLocal(w)'
  BY <1>r DEF DirLocal
<1>2. w \notin torn /\ dir'[w] \in {dir[w], EmptyDir}
  <2>1. CASE User(w)
    BY <2>1 DEF User, CreateObject, EditSpec, DeleteObject, ResolveCreate, disk, TypeOK
  <2>2. CASE LoseDir(w)
    BY <2>2 DEF LoseDir, TypeOK
  <2> QED BY <2>1, <2>2
<1>c. checksum'[w] \in {checksum[w], NoChecksum}
  BY DEF User, CreateObject, EditSpec, DeleteObject, ResolveCreate, LoseDir, Vanish,
     object, TypeOK
<1>l. DirLocal(w)
  OBVIOUS
<1>3. SumOK(checksum'[w]) /\ SumOK(mg'[w].checksum)
  BY <1>l, <1>1, <1>2, <1>c DEF DirLocal, SumOK
<1>4. DirOK(w)'
  <2>1. CASE dir'[w] = dir[w]
    BY <1>l, <1>1, <1>2, <2>1 DEF DirLocal, DirOK
  <2>2. CASE dir'[w] = EmptyDir
    BY <2>2 DEF DirOK, EmptyDir
  <2> QED BY <1>2, <2>1, <2>2
<1> QED BY <1>r, <1>3, <1>4 DEF DirLocal

\* What terraform init leaves when it fails.
LEMMA InitFailsDir ==
    ASSUME ConstantsOK, TypeOK, NEW w \in Workspaces, ConnectInit(w), Return(w),
           dir[w].init \subseteq dir[w].providers
    PROVE  dir'[w].init \subseteq dir'[w].providers
<1>1. ~Goto(w, "select")
  BY DEF Return, Goto, TypeOK
<1>2. dir[w] \in Dirs
  BY DEF TypeOK
<1>3. ASSUME NEW some \in SUBSET Needs(dir[w].files),
             NEW d \in {dir[w], Uninitialised(dir[w])},
             dir' = [dir EXCEPT ![w] = [d EXCEPT !.providers = @ \cup some]]
      PROVE  dir'[w].init \subseteq dir'[w].providers
  <2>1. d \in Dirs
    BY <1>2, UninitialisedType
  <2>2. d.init \subseteq d.providers
    BY <1>2 DEF Uninitialised, Dirs
  <2>3. dir'[w] = [d EXCEPT !.providers = d.providers \cup some]
    BY <1>3 DEF TypeOK
  <2>4. dir'[w].init = d.init /\ dir'[w].providers = d.providers \cup some
    BY <2>1, <2>3 DEF Dirs
  <2> QED BY <2>2, <2>4
<1> QED BY <1>1, <1>3 DEF ConnectInit

\* Connect writes the files, and skips terraform init only where the checksum
\* of an initialised directory says so.
LEMMA ConnectDir ==
    ASSUME ConstantsOK, DirInv, NEW w \in Workspaces, Start(w) \/ Connect(w)
    PROVE  DirLocal(w)'
<1> USE DEF DirInv
<1>1. UNCHANGED <<checksum, torn>>
  BY TornBy DEF Reconcile, Start, Connect, ConnectPrepare, ConnectChecksum, ConnectInit,
     ConnectWorkspace, object
<1>l. DirLocal(w) /\ dir[w] \in Dirs
  BY DEF TypeOK
<1>k. ReadOK(w) /\ ReadOK(w)'
  BY <1>l, ReadKept DEF DirLocal, Reconcile
<1> SUFFICES ASSUME w \notin torn PROVE DirLocal(w)'
  BY <1>1, <1>k DEF DirLocal
<1>s. SumOK(checksum[w]) /\ SumOK(mg[w].checksum) /\ DirOK(w)
  BY <1>l DEF DirLocal
<1>i. dir[w].init \subseteq dir[w].providers
  BY <1>s DEF DirOK
<1>r. ASSUME Return(w), dir'[w].init \subseteq dir'[w].providers
      PROVE  DirLocal(w)'
  BY <1>1, <1>k, <1>s, <1>r, ReturnDir
<1>g. ASSUME DirOK(w)', mg'[w].checksum \in {mg[w].checksum, checksum[w]}
      PROVE  DirLocal(w)'
  BY <1>1, <1>k, <1>s, <1>g DEF DirLocal
<1>4. CASE Start(w)
  <2>1. /\ pc'[w] = "connect" /\ UNCHANGED dir
        /\ mg'[w].checksum = checksum[w]
    BY <1>4 DEF Start, Goto, disk, TypeOK
  <2> QED BY <1>g, <1>i, <2>1 DEF DirOK, Checked, Commands, Selected
<1>5. CASE ConnectPrepare(w)
  <2>1. ASSUME NEW m, NEW d \in Prepared(w, m)
        PROVE  m \subseteq d.files /\ d.init \subseteq d.providers
    BY <1>l, <1>i, PreparedDir
  <2>2. CASE Return(w)
    <3>1. \E m : dir'[w] \in Prepared(w, m)
      BY <1>5 DEF ConnectPrepare, TypeOK
    <3> QED BY <1>r, <2>1, <2>2, <3>1
  <2>3. CASE ~Return(w)
    <3>1. pc'[w] = "checksum" /\ UNCHANGED mg /\ dir'[w] \in Prepared(w, mg[w].module)
      BY <1>5, <2>3 DEF ConnectPrepare, Goto, TypeOK
    <3> QED BY <1>g, <2>1, <3>1 DEF DirOK, Checked, Commands, Selected
  <2> QED BY <2>2, <2>3
<1>6. CASE ConnectChecksum(w)
  <2>1. pc[w] = "checksum" /\ UNCHANGED dir
    BY <1>6 DEF ConnectChecksum, disk
  <2>2. CASE Return(w)
    BY <1>i, <1>r, <2>1, <2>2
  <2>3. CASE ~Return(w)
    <3>1. /\ UNCHANGED mg
          /\ \/ /\ pc'[w] = "select"
                /\ mg[w].checksum # NoChecksum
                /\ mg[w].checksum = GenerateChecksum(dir[w])
             \/ pc'[w] = "init"
      BY <1>6, <2>3 DEF ConnectChecksum, Goto, TypeOK
    <3>2. ASSUME pc'[w] = "select", AllDigested PROVE Usable(dir[w])
      BY <1>l, <1>s, <1>i, <3>1, <3>2, SumUsable
    <3>3. dir[w] = EmptyDir \/ mg[w].module \subseteq dir[w].files
      BY <1>s, <2>1 DEF DirOK
    <3>4. DirOK(w)'
      BY <1>i, <2>1, <3>1, <3>2, <3>3 DEF DirOK, Checked, Commands, Selected
    <3> QED BY <1>g, <3>1, <3>4
  <2> QED BY <2>2, <2>3
<1>7. CASE ConnectInit(w)
  <2>1. pc[w] = "init"
    BY <1>7 DEF ConnectInit
  <2>2. CASE Return(w)
    BY <1>7, <1>i, <1>r, <2>2, InitFailsDir
  <2>3. CASE ~Return(w)
    <3> DEFINE n == Needs(dir[w].files)
    <3>1. /\ pc'[w] = "select" /\ UNCHANGED mg
          /\ dir[w].files # {} /\ ~Conflict(dir[w].files)
          /\ dir'[w] = [dir[w] EXCEPT !.init = n, !.args = mg[w].args,
                                      !.providers = dir[w].providers \cup n]
      BY ZenonT(40), <1>7, <2>3 DEF ConnectInit, Initialisable, Goto, TypeOK
    <3> HIDE DEF n
    <3>2. /\ dir'[w].files = dir[w].files /\ dir'[w].init = n /\ dir'[w].args = mg[w].args
          /\ dir'[w].providers = dir[w].providers \cup n
      BY <1>l, <3>1 DEF Dirs
    <3>3. mg[w].module \subseteq dir[w].files
      BY <1>s, <2>1, <3>1 DEF DirOK, EmptyDir
    <3>4. mg[w].args # NoArgs
      BY <1>k, <2>1 DEF ReadOK, ConstantsOK
    <3>5. Usable(dir'[w])
      BY <3>1, <3>2, <3>4 DEF Usable, n
    <3>6. DirOK(w)'
      BY <3>1, <3>2, <3>3, <3>5 DEF DirOK
    <3> QED BY <1>g, <3>1, <3>6
  <2> QED BY <2>2, <2>3
<1>8. CASE ConnectWorkspace(w)
  <2>1. pc[w] = "select" /\ SameFiles(w)
    <3>1. /\ pc[w] = "select"
          /\ \/ UNCHANGED dir
             \/ Usable(dir[w]) /\ dir' = [dir EXCEPT ![w].selected = NameOf[w]]
      BY <1>8 DEF ConnectWorkspace, Succeeds
    <3>2. NameOf[w] \in Names
      BY DEF ConstantsOK
    <3> QED BY <3>1, <3>2 DEF SameFiles, TypeOK
  <2>2. CASE Return(w)
    <3>1. dir'[w].init = dir[w].init /\ dir'[w].providers = dir[w].providers
      BY <1>l, <2>1 DEF SameFiles, Dirs
    <3> QED BY <1>i, <1>r, <2>2, <3>1
  <2>3. CASE ~Return(w)
    <3>1. UNCHANGED mg
      BY <1>8, <2>3 DEF ConnectWorkspace
    <3> QED BY <1>1, <1>l, <1>k, <1>s, <2>1, <3>1, CheckedStays DEF Checked
  <2> QED BY <2>2, <2>3
<1> QED BY <1>4, <1>5, <1>6, <1>7, <1>8 DEF Connect

\* Observe changes the selected workspace only, and records the checksum of a
\* directory that was checked.
LEMMA ObserveDir ==
    ASSUME ConstantsOK, DirInv, NEW w \in Workspaces, Observe(w)
    PROVE  DirLocal(w)'
<1> USE DEF DirInv
<1>l. DirLocal(w) /\ dir[w] \in Dirs
  BY DEF TypeOK
<1>k. ReadOK(w)' /\ UNCHANGED torn
  BY <1>l, ReadKept, TornBy DEF DirLocal, Reconcile
<1> SUFFICES ASSUME w \notin torn PROVE DirLocal(w)'
  BY <1>k DEF DirLocal
<1>s. SumOK(checksum[w]) /\ SumOK(mg[w].checksum) /\ DirOK(w)
  BY <1>l DEF DirLocal
<1>1. \/ dir'[w] = dir[w]
      \/ \E n \in Names : dir'[w] = [dir[w] EXCEPT !.selected = n]
  <2>1. CASE LeaveWorkspace(w)
    <3>1. Default \in Names /\ dir[w].selected \in Names
      BY <1>l DEF ConstantsOK, Dirs
    <3>2. PICK n \in {dir[w].selected, Default} : dir' = [dir EXCEPT ![w].selected = n]
      BY <2>1 DEF LeaveWorkspace
    <3>3. dir'[w] = [dir[w] EXCEPT !.selected = n]
      BY <3>2 DEF TypeOK
    <3> QED BY <3>1, <3>2, <3>3
  <2>2. CASE ~LeaveWorkspace(w)
    BY <2>2 DEF Observe, CheckDiff, ListResources, DeleteWorkspace, ReadOutputs,
       ObserveChecksum, disk
  <2> QED BY <2>1, <2>2
<1>2. CASE Return(w)
  <2>1. checksum'[w] \in {checksum[w], NoChecksum}
    BY DEF Observe, CheckDiff, ListResources, LeaveWorkspace, DeleteWorkspace, ReadOutputs,
       ObserveChecksum, SaveStatus, object, TypeOK
  <2>2. dir'[w].init = dir[w].init /\ dir'[w].providers = dir[w].providers
    BY <1>l, <1>1 DEF Dirs
  <2> QED BY <1>2, <1>k, <1>s, <2>1, <2>2, ReturnDir DEF DirOK, SumOK
<1>3. CASE ~Return(w)
  <2>1. pc[w] \in Checked /\ UNCHANGED checksum
    BY <1>3 DEF Observe, CheckDiff, ListResources, LeaveWorkspace, DeleteWorkspace, ReadOutputs,
       ObserveChecksum, object, Checked, Commands, Selected
  <2>2. SameFiles(w)
    BY <1>1, <1>3 DEF Observe, CheckDiff, ListResources, LeaveWorkspace, DeleteWorkspace,
       ReadOutputs, ObserveChecksum, Succeeds, SameFiles, disk
  <2>3. \/ mg' = mg
        \/ /\ dir[w] # EmptyDir
           /\ mg' = [mg EXCEPT ![w].checksum = GenerateChecksum(dir[w])]
    BY <1>3 DEF Observe, CheckDiff, ListResources, LeaveWorkspace, DeleteWorkspace, ReadOutputs,
       ObserveChecksum
  <2>4. /\ mg'[w].module = mg[w].module
        /\ \/ mg'[w].checksum = mg[w].checksum
           \/ dir[w] # EmptyDir /\ mg'[w].checksum = GenerateChecksum(dir[w])
    BY <2>3 DEF TypeOK, Copies
  <2>5. SumOK(mg'[w].checksum)
    <3>1. AllDigested /\ dir[w] # EmptyDir => Usable(dir[w])
      BY <1>s, <2>1 DEF DirOK
    <3>2. CASE mg'[w].checksum = mg[w].checksum
      BY <1>s, <3>2
    <3>3. CASE AllDigested /\ dir[w] # EmptyDir /\ mg'[w].checksum = GenerateChecksum(dir[w])
      BY <1>l, <3>1, <3>3, UsableSum
    <3>4. ~AllDigested => SumOK(mg'[w].checksum)
      BY DEF SumOK
    <3> QED BY <2>4, <3>2, <3>3, <3>4
  <2> QED BY <1>l, <1>k, <1>s, <2>1, <2>2, <2>4, <2>5, CheckedStays
<1> QED BY <1>2, <1>3

\* What the managed reconciler decides, and terraform apply and destroy, leave
\* the files alone; checksums are stored and forgotten, never made up.
LEMMA ActDir ==
    ASSUME ConstantsOK, DirInv, NEW w \in Workspaces,
           ReconcileDeleted(w) \/ AddFinalizer(w) \/ Act(w) \/ Change(w)
    PROVE  DirLocal(w)'
<1> USE DEF DirInv
<1>l. DirLocal(w) /\ dir[w] \in Dirs /\ mg[w] \in Copies
  BY DEF TypeOK
<1>k. ReadOK(w)' /\ UNCHANGED torn
  BY <1>l, ReadKept, TornBy DEF DirLocal, Reconcile
<1> SUFFICES ASSUME w \notin torn PROVE DirLocal(w)'
  BY <1>k DEF DirLocal
<1>s. SumOK(checksum[w]) /\ SumOK(mg[w].checksum) /\ DirOK(w)
  BY <1>l DEF DirLocal
<1>1. UNCHANGED dir
  BY DEF ReconcileDeleted, AddFinalizer, Act, Change, ApplyOne, ApplyDone, ApplyFails,
     CreateOutputs, UpdateOutputs, DestroyOne, DestroyEnds, disk
<1>2. checksum'[w] \in {checksum[w], mg[w].checksum, NoChecksum}
  <2>1. CASE ReconcileDeleted(w) \/ AddFinalizer(w) \/ Act(w)
    BY <2>1 DEF ReconcileDeleted, AddFinalizer, Act, Vanish, SaveStatus, object, TypeOK
  <2>2. CASE Change(w)
    BY ZenonT(40), <2>2 DEF Change, ApplyOne, ApplyDone, ApplyFails, CreateOutputs, UpdateOutputs,
       DestroyOne, DestroyEnds, FinishCreate, SaveStatus, object, TypeOK
  <2> QED BY <2>1, <2>2
<1>3. SumOK(checksum'[w])
  BY <1>s, <1>2 DEF SumOK
<1>4. CASE Return(w)
  BY <1>k, <1>s, <1>1, <1>3, <1>4, ReturnDir DEF DirOK
<1>5. CASE ~Return(w)
  <2>1. pc[w] \in Checked
    BY <1>5 DEF ReconcileDeleted, AddFinalizer, Act, Change, ApplyOne, ApplyDone, ApplyFails,
       CreateOutputs, UpdateOutputs, DestroyOne, DestroyEnds, Checked, Commands, Selected
  <2>2. \/ mg' = mg
        \/ \E c \in {mg[w].checksum, checksum[w]} : mg' = [mg EXCEPT ![w].checksum = c]
    BY <1>5 DEF ReconcileDeleted, AddFinalizer, Act, Change, ApplyOne, ApplyDone, ApplyFails,
       CreateOutputs, UpdateOutputs, DestroyOne, DestroyEnds, FinishCreate, work
  <2>3. /\ mg'[w].module = mg[w].module
        /\ mg'[w].checksum \in {mg[w].checksum, checksum[w]}
    BY <1>l, <2>2 DEF TypeOK, Copies
  <2>4. SumOK(mg'[w].checksum)
    BY <1>s, <2>3
  <2> QED BY <1>l, <1>k, <1>1, <1>3, <2>1, <2>3, <2>4, CheckedStays DEF SameFiles
<1> QED BY <1>4, <1>5

LEMMA DirInvariance == ConstantsOK => (Spec => []DirInv)
<1> SUFFICES ASSUME ConstantsOK PROVE Spec => []DirInv
  OBVIOUS
<1>1. Init => \A w \in Workspaces : DirLocal(w)
  <2>1. ASSUME Init, NEW w \in Workspaces
        PROVE  /\ pc[w] = "idle" /\ mg[w] = NoMg /\ dir[w] = EmptyDir
               /\ checksum[w] = NoChecksum /\ phase[w] = "absent"
    BY <2>1 DEF Init
  <2>2. NoMg.checksum = NoChecksum /\ EmptyDir.init = {}
    BY DEF NoMg, EmptyDir
  <2>3. ASSUME Init, NEW w \in Workspaces PROVE DirLocal(w)
    BY <2>1, <2>2, <2>3 DEF DirLocal, ReadOK, DirOK, SumOK, Checked, Commands, Selected
  <2> QED BY <2>3
<1>2. DirInv /\ TypeOK' /\ [Next]_vars => DirInv'
  <2> SUFFICES ASSUME DirInv, [Next]_vars, NEW v \in Workspaces PROVE DirLocal(v)'
    BY DEF DirInv
  <2>l. DirLocal(v)
    BY DEF DirInv
  <2>a. ASSUME Alone(v) PROVE DirLocal(v)'
    <3>1. ReadOK(v)'
      BY <2>a, <2>l DEF Alone, DirLocal, ReadOK
    <3>2. v \notin torn' => SumOK(checksum'[v]) /\ SumOK(mg'[v].checksum)
      BY <2>a, <2>l DEF Alone, DirLocal
    <3>3. v \notin torn' => DirOK(v)'
      BY <2>a, <2>l DEF Alone, DirLocal, DirOK
    <3> QED BY <3>1, <3>2, <3>3 DEF DirLocal
  <2>1. ASSUME NEW w \in Workspaces, User(w) \/ Reconcile(w) \/ LoseDir(w)
        PROVE  DirLocal(v)'
    <3>1. CASE w = v
      BY <2>1, <3>1, OutsideDir, ConnectDir, ObserveDir, ActDir DEF Reconcile
    <3>2. CASE w # v
      BY <2>1, <2>a, <3>2, OthersAlone DEF DirInv
    <3> QED BY <3>1, <3>2
  <2>2. CASE \E n \in Names : Drift(n) \/ Unlock(n)
    BY <2>2, <2>a DEF Drift, Unlock, Alone, object, work, disk
  <2>3. CASE Crash
    <3>1. pc'[v] = "idle" /\ mg'[v] = NoMg /\ dir'[v] \in {dir[v], EmptyDir}
          /\ UNCHANGED <<object, torn>>
      BY <2>3 DEF Crash
    <3>2. DirOK(v)' \/ v \in torn
      <4>1. CASE dir'[v] = dir[v]
        BY <2>l, <3>1, <4>1 DEF DirLocal, DirOK, Checked, Commands, Selected
      <4>2. CASE dir'[v] = EmptyDir
        BY <3>1, <4>2 DEF DirOK, EmptyDir, Checked, Commands, Selected
      <4> QED BY <3>1, <4>1, <4>2
    <3>3. ReadOK(v)' /\ SumOK(mg'[v].checksum)
      BY <2>l, <3>1 DEF DirLocal, ReadOK, SumOK, NoMg, object
    <3> QED BY <2>l, <3>1, <3>2, <3>3 DEF DirLocal, object
  <2>4. CASE UNCHANGED vars
    BY <2>4, <2>a DEF vars, Alone, object, work, disk
  <2> QED BY <2>1, <2>2, <2>3, <2>4 DEF Next
<1>3. Spec => []TypeOK
  BY TypeCorrect
<1> QED BY <1>1, <1>2, <1>3, PTL DEF Spec, DirInv

\* Where the checksum covers all that matters, skipping terraform init is
\* sound: whatever edits, faults, crashes and lost directories there are, and
\* whichever Terraform workspaces the objects share, terraform runs only in
\* directories initialised for all the files that are there.
THEOREM InitIsSound == ConstantsOK /\ AllDigested => (Spec => []InitSound)
<1> SUFFICES ASSUME ConstantsOK, AllDigested PROVE Spec => []InitSound
  OBVIOUS
<1>1. DirInv => InitSound
  BY DEF DirInv, DirLocal, DirOK, InitSound, Checked
<1> QED BY <1>1, DirInvariance, PTL


-----------------------------------------------------------------------------
(* Selected workspaces                                                     *)

\* What the removal of a directory leaves selected.
LEMMA RemainsSel ==
    ASSUME NEW d, NEW x \in Remains(d)
    PROVE  x.selected \in {d.selected, Default}
<1>1. PICK e \in {d, Uninitialised(d)}, F \in SUBSET d.files,
           p \in SUBSET d.providers, n \in {d.selected, Default} :
           x = [files |-> F, init |-> e.init, args |-> e.args, providers |-> p,
                selected |-> n]
  BY DEF Remains
<1> QED BY <1>1

\* A directory is in the object's own workspace or in the default one.
LEMMA SelectedStays ==
    ASSUME ConstantsOK, TypeOK, NEW w \in Workspaces,
           dir[w].selected \in {Default, NameOf[w]},
           User(w) \/ Reconcile(w) \/ LoseDir(w)
    PROVE  dir'[w].selected \in {Default, NameOf[w]}
<1>d. dir \in [Workspaces -> Dirs] /\ dir[w] \in Dirs /\ EmptyDir.selected = Default
      /\ EmptyDir \in Dirs
  BY EmptyDirType DEF TypeOK, EmptyDir
<1>1. CASE User(w)
  <2>1. dir'[w] \in {dir[w], EmptyDir}
    BY <1>1, <1>d DEF User, CreateObject, EditSpec, DeleteObject, ResolveCreate, disk
  <2> QED BY <1>d, <2>1
<1>2. CASE LoseDir(w)
  <2>1. dir'[w] = EmptyDir \/ dir'[w] \in Remains(dir[w])
    BY <1>2, <1>d DEF LoseDir
  <2> QED BY <1>d, <2>1, RemainsSel
<1>3. CASE ConnectPrepare(w)
  <2>1. PICK m : dir'[w] \in Prepared(w, m)
    BY <1>3, <1>d DEF ConnectPrepare
  <2> QED BY <1>d, <2>1, PreparedSel
<1>4. CASE ConnectInit(w)
  <2> DEFINE n == Needs(dir[w].files)
  <2>1. ASSUME dir' = [dir EXCEPT ![w].init = n, ![w].args = mg[w].args,
                                  ![w].providers = @ \cup n]
        PROVE  dir'[w].selected = dir[w].selected
    <3>1. dir'[w] = [dir[w] EXCEPT !.init = n, !.args = mg[w].args,
                                   !.providers = dir[w].providers \cup n]
      BY <1>d, <2>1
    <3> HIDE DEF n
    <3> QED BY <1>d, <3>1 DEF Dirs
  <2>2. ASSUME NEW some, NEW d \in {dir[w], Uninitialised(dir[w])},
               dir' = [dir EXCEPT ![w] = [d EXCEPT !.providers = @ \cup some]]
        PROVE  dir'[w].selected = dir[w].selected
    <3>1. d \in Dirs /\ d.selected = dir[w].selected
      BY <1>d, UninitialisedType DEF Uninitialised, Dirs
    <3>2. dir'[w] = [d EXCEPT !.providers = d.providers \cup some]
      BY <1>d, <2>2
    <3> QED BY <3>1, <3>2 DEF Dirs
  <2>3. dir' = dir \/ dir'[w].selected = dir[w].selected
    BY <1>4, <2>1, <2>2 DEF ConnectInit
  <2> QED BY <2>3
<1>5. CASE ConnectWorkspace(w) \/ LeaveWorkspace(w)
  <2>1. dir' = dir \/ \E n \in {dir[w].selected, NameOf[w], Default} :
                          dir'[w] = [dir[w] EXCEPT !.selected = n]
    BY <1>5, <1>d DEF ConnectWorkspace, LeaveWorkspace
  <2> QED BY <1>d, <2>1 DEF Dirs
<1>6. CASE \/ Start(w) \/ ConnectChecksum(w) \/ CheckDiff(w) \/ ListResources(w)
           \/ DeleteWorkspace(w) \/ ReadOutputs(w) \/ ObserveChecksum(w)
  BY <1>6 DEF Start, ConnectChecksum, CheckDiff, ListResources, DeleteWorkspace,
     ReadOutputs, ObserveChecksum, disk
<1>7. CASE ReconcileDeleted(w) \/ AddFinalizer(w) \/ Act(w) \/ Change(w)
  BY <1>7 DEF ReconcileDeleted, AddFinalizer, Act, Change, ApplyOne, ApplyDone, ApplyFails,
     CreateOutputs, UpdateOutputs, DestroyOne, DestroyEnds, disk
<1> QED BY <1>1, <1>2, <1>3, <1>4, <1>5, <1>6, <1>7 DEF Reconcile, Connect, Observe

\* Commands that succeed after the plan run in the Terraform workspace of
\* their object, unless its directory is torn or nothing is left to destroy.
LEMMA OwnSelected ==
    ASSUME SelInv, NEW w \in Workspaces \ torn, Usable(dir[w]),
           pc[w] \in Selected \/ (pc[w] = "destroy" /\ ~FoundGone(w))
    PROVE  dir[w].selected = NameOf[w]
<1>1. dir[w] # EmptyDir
  BY DEF Usable, EmptyDir
<1> QED BY <1>1 DEF SelInv, SelectedOK

\* A reconcile that is idle, or has not selected its workspace yet.
LEMMA NotSelected ==
    ASSUME NEW w \in Workspaces, dir'[w].selected \in {Default, NameOf[w]},
           pc'[w] \in {"idle", "connect", "checksum", "init", "select"}
    PROVE  SelectedOK(w)' /\ FoundOK(w)'
  BY DEF SelectedOK, FoundOK, Selected

LEMMA ReturnSel ==
    ASSUME TypeOK, NEW w \in Workspaces, Return(w), dir'[w].selected \in {Default, NameOf[w]}
    PROVE  SelectedOK(w)' /\ FoundOK(w)'
<1>1. pc'[w] = "idle"
  BY DEF Return, Goto, TypeOK
<1> QED BY <1>1, NotSelected

\* An empty directory is in the default workspace; any other that is lost is
\* torn.
LEMMA OutsideSel ==
    ASSUME ConstantsOK, SelInv, NEW w \in Workspaces, User(w) \/ LoseDir(w)
    PROVE  SelectedOK(w)' /\ FoundOK(w)'
<1>1. UNCHANGED <<pc, mg, obs>>
  BY DEF User, CreateObject, EditSpec, DeleteObject, ResolveCreate, LoseDir, work
<1>l. SelectedOK(w) /\ FoundOK(w) /\ TypeOK
  BY DEF SelInv
<1>2. dir'[w].selected \in {Default, NameOf[w]}
  BY <1>l, SelectedStays DEF SelectedOK
<1>3. torn \subseteq torn'
  BY DEF User, CreateObject, EditSpec, DeleteObject, ResolveCreate, LoseDir, disk
<1>4. w \notin torn' => w \notin torn /\ dir'[w] \in {dir[w], EmptyDir}
  <2>1. CASE User(w)
    BY <1>l, <2>1 DEF User, CreateObject, EditSpec, DeleteObject, ResolveCreate, disk, TypeOK
  <2>2. CASE LoseDir(w)
    BY <1>l, <2>2 DEF LoseDir, TypeOK
  <2> QED BY <2>1, <2>2
<1>5. EmptyDir.selected = Default
  BY DEF EmptyDir
<1>6. SelectedOK(w)'
  <2>1. CASE w \in torn'
    BY <1>l, <1>1, <1>2, <2>1 DEF SelectedOK
  <2>2. CASE w \notin torn' /\ dir'[w] = dir[w]
    BY <1>l, <1>1, <1>4, <2>2 DEF SelectedOK, FoundGone
  <2>3. CASE w \notin torn' /\ dir'[w] = EmptyDir
    BY <1>l, <1>1, <1>4, <1>5, <2>3 DEF SelectedOK, FoundGone
  <2> QED BY <1>4, <2>1, <2>2, <2>3
<1>7. torn' = {} => torn = {}
  BY <1>3
<1> QED BY <1>l, <1>1, <1>6, <1>7 DEF FoundOK, FoundGone

\* The plan is made in the workspace that Connect selected last.
LEMMA ConnectSel ==
    ASSUME ConstantsOK, SelInv, NEW w \in Workspaces, Start(w) \/ Connect(w)
    PROVE  SelectedOK(w)' /\ FoundOK(w)'
<1>d. dir'[w].selected \in {Default, NameOf[w]}
  BY SelectedStays DEF SelInv, SelectedOK, Reconcile
<1> USE DEF SelInv
<1>1. CASE Return(w)
  BY <1>1, <1>d, ReturnSel
<1>2. CASE ~Return(w)
  <2>1. \/ pc'[w] \in {"connect", "checksum", "init", "select"}
        \/ pc'[w] = "plan" /\ dir' = [dir EXCEPT ![w].selected = NameOf[w]]
    BY <1>2 DEF Start, Connect, ConnectPrepare, ConnectChecksum, ConnectInit,
       ConnectWorkspace, Goto, TypeOK
  <2>2. CASE pc'[w] = "plan" /\ dir' = [dir EXCEPT ![w].selected = NameOf[w]]
    <3>1. dir'[w].selected = NameOf[w]
      BY <2>2 DEF TypeOK, Dirs
    <3> QED BY <2>2, <3>1 DEF SelectedOK, FoundOK
  <2> QED BY <1>d, <2>1, <2>2, NotSelected
<1> QED BY <1>1, <1>2

\* Observe leaves the workspace only where it is about to delete it, and finds
\* no outputs afterwards.
LEMMA ObserveSel ==
    ASSUME ConstantsOK, NoneDefault, SelInv, NEW w \in Workspaces, Observe(w)
    PROVE  SelectedOK(w)' /\ FoundOK(w)'
<1>d. dir'[w].selected \in {Default, NameOf[w]} /\ UNCHANGED torn
  BY SelectedStays, TornBy DEF SelInv, SelectedOK, Reconcile
<1> USE DEF SelInv
<1>r. CASE Return(w)
  BY <1>r, <1>d, ReturnSel
<1>l. SelectedOK(w) /\ FoundOK(w)
  OBVIOUS
<1>o. obs[w] \in Observations /\ dir[w] \in Dirs /\ mg[w] \in Copies
  BY DEF TypeOK
<1>1. CASE CheckDiff(w) /\ ~Return(w)
  <2>1. pc[w] = "plan" /\ pc'[w] = "list" /\ UNCHANGED <<mg, dir>>
    BY <1>1 DEF CheckDiff, Goto, TypeOK, disk
  <2> QED BY <1>l, <1>d, <2>1 DEF SelectedOK, FoundOK, Selected
<1>2. CASE ListResources(w) /\ ~Return(w)
  <2>1. /\ pc[w] = "list" /\ UNCHANGED <<mg, dir>>
        /\ Usable(dir[w])
        /\ obs'[w] = [obs[w] EXCEPT !.listed = resources[dir[w].selected]]
        /\ pc'[w] = IF mg[w].deleted /\ resources[dir[w].selected] = {}
                    THEN "delws" ELSE "outputs"
    BY <1>2 DEF ListResources, AfterList, Goto, TypeOK, Succeeds, disk
  <2>2. w \notin torn => dir[w].selected = NameOf[w]
    BY <2>1, OwnSelected DEF Selected
  <2>3. obs'[w].listed = resources[dir[w].selected]
    BY <1>o, <2>1 DEF Observations
  <2> QED BY <1>d, <2>1, <2>2, <2>3 DEF SelectedOK, FoundOK, FoundGone, Selected
<1>3. CASE LeaveWorkspace(w) /\ ~Return(w)
  <2>1. /\ pc[w] = "delws" /\ UNCHANGED mg
        /\ Usable(dir[w])
        /\ obs'[w] = [obs[w] EXCEPT !.current = dir[w].selected]
        /\ dir'[w] = [dir[w] EXCEPT !.selected = Default]
        /\ pc'[w] = IF dir[w].selected = Default THEN "outputs" ELSE "delwsDelete"
    BY <1>3 DEF LeaveWorkspace, Goto, TypeOK, Succeeds
  <2>2. dir[w].selected # Default => dir[w].selected = NameOf[w]
    BY <1>l DEF SelectedOK
  <2>3. /\ obs'[w].current = dir[w].selected /\ obs'[w].listed = obs[w].listed
        /\ dir'[w].selected = Default
    BY <1>o, <2>1 DEF Observations, Dirs
  <2>4. FoundGone(w)'
    BY <1>l, <2>1, <2>3 DEF FoundOK, FoundGone
  <2>5. SelectedOK(w)'
    BY <1>d, <2>1, <2>2, <2>3, <2>4 DEF SelectedOK, Selected
  <2> QED BY <2>1, <2>4, <2>5 DEF FoundOK
<1>4. CASE DeleteWorkspace(w) /\ ~Return(w)
  <2>1. pc[w] = "delwsDelete" /\ pc'[w] = "outputs" /\ UNCHANGED <<mg, obs, dir>>
    BY <1>4 DEF DeleteWorkspace, Goto, TypeOK, disk
  <2> QED BY <1>l, <1>d, <2>1 DEF SelectedOK, FoundOK, FoundGone, Selected
<1>5. CASE ReadOutputs(w) /\ ~Return(w)
  <2>1. /\ pc[w] = "outputs" /\ pc'[w] = "sum" /\ UNCHANGED <<mg, dir>>
        /\ obs'[w] = [obs[w] EXCEPT !.outputs = outputs[dir[w].selected]]
        /\ Usable(dir[w])
    BY <1>5 DEF ReadOutputs, Goto, TypeOK, Succeeds, disk
  <2>2. /\ obs'[w].outputs = outputs[dir[w].selected]
        /\ obs'[w].listed = obs[w].listed
    BY <1>o, <2>1 DEF Observations
  <2> QED BY <1>l, <1>d, <2>1, <2>2 DEF SelectedOK, FoundOK, FoundGone, Selected
<1>6. CASE ObserveChecksum(w) /\ ~Return(w)
  <2>1. /\ pc[w] = "sum" /\ pc'[w] = "observed" /\ UNCHANGED <<obs, dir>>
        /\ mg'[w] = [mg[w] EXCEPT !.checksum = GenerateChecksum(dir[w])]
    BY <1>6 DEF ObserveChecksum, Goto, TypeOK, disk
  <2>2. mg'[w].deleted = mg[w].deleted
    BY <1>o, <2>1 DEF Copies
  <2> QED BY <1>l, <1>d, <2>1, <2>2 DEF SelectedOK, FoundOK, FoundGone, Selected
<1> QED BY <1>r, <1>1, <1>2, <1>3, <1>4, <1>5, <1>6 DEF Observe

\* An object found gone is not destroyed, and every other reconcile acts in
\* the workspace it has observed.
LEMMA ActSel ==
    ASSUME ConstantsOK, SelInv, NEW w \in Workspaces,
           ReconcileDeleted(w) \/ AddFinalizer(w) \/ Act(w) \/ Change(w)
    PROVE  SelectedOK(w)' /\ FoundOK(w)'
<1>d. dir'[w].selected \in {Default, NameOf[w]} /\ UNCHANGED torn
  BY SelectedStays, TornBy DEF SelInv, SelectedOK, Reconcile
<1> USE DEF SelInv
<1>r. CASE Return(w)
  BY <1>r, <1>d, ReturnSel
<1>l. SelectedOK(w) /\ FoundOK(w)
  OBVIOUS
<1>1. UNCHANGED dir
  BY DEF ReconcileDeleted, AddFinalizer, Act, Change, ApplyOne, ApplyDone, ApplyFails,
     CreateOutputs, UpdateOutputs, DestroyOne, DestroyEnds, disk
<1>2. CASE ReconcileDeleted(w) /\ ~Return(w)
  <2>1. /\ pc[w] = "observed" /\ pc'[w] = "destroy" /\ mg[w].deleted
        /\ ResourceExists(w) /\ UNCHANGED <<obs, mg>>
    BY <1>2 DEF ReconcileDeleted, Goto, TypeOK
  <2>2. torn = {} => ~FoundGone(w)
    BY <1>l, <2>1 DEF FoundOK, FoundGone, ResourceExists
  <2>3. torn = {} => obs[w].listed # {}
    BY <2>1, <2>2 DEF FoundGone
  <2> QED BY <1>l, <1>d, <1>1, <2>1, <2>3 DEF SelectedOK, FoundOK, FoundGone, Selected
<1>3. CASE AddFinalizer(w) /\ ~Return(w)
  <2>1. pc[w] = "observed" /\ pc'[w] = "act" /\ ~mg[w].deleted
    BY <1>3 DEF AddFinalizer, Goto, TypeOK
  <2> QED BY <1>l, <1>d, <1>1, <2>1 DEF SelectedOK, FoundOK, FoundGone, Selected
<1>4. CASE Act(w) /\ ~Return(w)
  <2>1. pc[w] = "act" /\ pc'[w] \in {"create", "apply"}
    BY <1>4 DEF Act, Goto, TypeOK
  <2> QED BY <1>l, <1>d, <1>1, <2>1 DEF SelectedOK, FoundOK, Selected
<1>5. CASE Change(w) /\ ~Return(w)
  <2>1. \/ UNCHANGED <<pc, mg, obs>>
        \/ /\ pc[w] \in {"create", "apply"}
           /\ pc'[w] \in {"createOutputs", "applyOutputs"}
    BY <1>5 DEF Change, ApplyOne, ApplyDone, ApplyFails, CreateOutputs, UpdateOutputs,
       DestroyOne, DestroyEnds, FinishCreate, work, Goto, TypeOK
  <2> QED BY <1>l, <1>d, <1>1, <2>1 DEF SelectedOK, FoundOK, FoundGone, Selected
<1> QED BY <1>r, <1>2, <1>3, <1>4, <1>5

\* The default workspace never gets outputs.
LEMMA DefaultStays ==
    ASSUME ConstantsOK, NoneDefault, SelInv, Next, torn = {}
    PROVE  ~outputs'[Default]
<1> USE DEF SelInv
<1>1. ASSUME NEW w \in Workspaces, ApplyDone(w) PROVE ~outputs'[Default]
  <2>1. dir[w].selected = NameOf[w]
    BY <1>1, OwnSelected DEF ApplyDone, Succeeds, Selected
  <2> QED BY <1>1, <2>1 DEF ApplyDone, NoneDefault, TypeOK
<1>2. ASSUME NEW w \in Workspaces, DeleteWorkspace(w) \/ DestroyEnds(w)
      PROVE  ~outputs'[Default]
  BY <1>2 DEF DeleteWorkspace, DestroyEnds, TypeOK
<1>3. ASSUME NEW w \in Workspaces,
             \/ User(w) \/ LoseDir(w) \/ Start(w) \/ Connect(w)
             \/ CheckDiff(w) \/ ListResources(w) \/ LeaveWorkspace(w)
             \/ ReadOutputs(w) \/ ObserveChecksum(w)
      PROVE  UNCHANGED outputs
  BY <1>3 DEF User, CreateObject, EditSpec, DeleteObject, ResolveCreate, LoseDir, Start,
     Connect, ConnectPrepare, ConnectChecksum, ConnectInit, ConnectWorkspace, CheckDiff,
     ListResources, LeaveWorkspace, ReadOutputs, ObserveChecksum, backend
<1>4. ASSUME NEW w \in Workspaces,
             \/ ReconcileDeleted(w) \/ AddFinalizer(w) \/ Act(w) \/ ApplyOne(w)
             \/ ApplyFails(w) \/ CreateOutputs(w) \/ UpdateOutputs(w) \/ DestroyOne(w)
      PROVE  UNCHANGED outputs
  BY <1>4 DEF ReconcileDeleted, AddFinalizer, Act, ApplyOne, ApplyFails, CreateOutputs,
     UpdateOutputs, DestroyOne, backend
<1>5. (\E n \in Names : Drift(n) \/ Unlock(n)) \/ Crash => UNCHANGED outputs
  BY DEF Drift, Unlock, Crash
<1> QED BY <1>1, <1>2, <1>3, <1>4, <1>5 DEF Next, Reconcile, Observe, Change

LEMMA SelInvariance == ConstantsOK /\ NoneDefault => (Spec => []SelInv)
<1> SUFFICES ASSUME ConstantsOK, NoneDefault PROVE Spec => []SelInv
  OBVIOUS
<1> DEFINE Sel == /\ torn = {} => ~outputs[Default]
                  /\ \A w \in Workspaces : SelectedOK(w) /\ FoundOK(w)
<1>1. Init => Sel
  BY DEF Init, ConstantsOK, SelectedOK, FoundOK, Selected, EmptyDir
<1>2. SelInv /\ [Next]_vars => Sel'
  <2> SUFFICES ASSUME SelInv, [Next]_vars PROVE Sel'
    OBVIOUS
  <2>t. torn \subseteq torn'
    BY TornGrows
  <2>1. torn' = {} => ~outputs'[Default]
    <3>1. torn' = {} => torn = {}
      BY <2>t
    <3>2. UNCHANGED vars => UNCHANGED outputs
      BY DEF vars, backend
    <3> QED BY <3>1, <3>2, DefaultStays DEF SelInv
  <2>2. ASSUME NEW v \in Workspaces PROVE SelectedOK(v)' /\ FoundOK(v)'
    <3>l. SelectedOK(v) /\ FoundOK(v)
      BY DEF SelInv
    <3>a. ASSUME Alone(v) PROVE SelectedOK(v)' /\ FoundOK(v)'
      <4>1. v \notin torn' => v \notin torn
        BY <2>t
      <4>2. torn' = {} => torn = {}
        BY <2>t
      <4> QED BY <3>a, <3>l, <4>1, <4>2 DEF Alone, SelectedOK, FoundOK, FoundGone
    <3>1. ASSUME NEW w \in Workspaces, User(w) \/ Reconcile(w) \/ LoseDir(w)
          PROVE  SelectedOK(v)' /\ FoundOK(v)'
      <4>1. CASE w = v
        BY <3>1, <4>1, OutsideSel, ConnectSel, ObserveSel, ActSel DEF Reconcile
      <4>2. CASE w # v
        BY <3>1, <3>a, <4>2, OthersAlone DEF SelInv
      <4> QED BY <4>1, <4>2
    <3>2. CASE \E n \in Names : Drift(n) \/ Unlock(n)
      BY <3>2, <3>a DEF Drift, Unlock, Alone, object, work, disk
    <3>3. CASE Crash
      <4>1. pc'[v] = "idle" /\ dir'[v] \in {dir[v], EmptyDir}
        BY <3>3 DEF Crash
      <4>2. dir'[v].selected \in {Default, NameOf[v]}
        BY <3>l, <4>1 DEF SelectedOK, EmptyDir
      <4> QED BY <4>1, <4>2, NotSelected
    <3>4. CASE UNCHANGED vars
      BY <3>4, <3>a DEF vars, Alone, object, work, disk
    <3> QED BY <3>1, <3>2, <3>3, <3>4 DEF Next
  <2> QED BY <2>1, <2>2
<1>3. SelInv <=> TypeOK /\ Sel
  BY DEF SelInv
<1>4. Spec => []TypeOK
  BY TypeCorrect
<1> QED BY <1>1, <1>2, <1>3, <1>4, PTL DEF Spec

\* Terraform changes resources in apply and destroy only.
LEMMA ResourcesFrame ==
    ASSUME Next, UNCHANGED resources => FALSE
    PROVE  \E w \in Workspaces : ApplyOne(w) \/ DestroyOne(w)
<1>1. ASSUME NEW w \in Workspaces,
             User(w) \/ LoseDir(w) \/ Start(w) \/ Connect(w) \/ Observe(w)
               \/ ReconcileDeleted(w) \/ AddFinalizer(w) \/ Act(w)
      PROVE  UNCHANGED resources
  BY <1>1 DEF User, CreateObject, EditSpec, DeleteObject, ResolveCreate, LoseDir,
       Start, Connect, ConnectPrepare, ConnectChecksum, ConnectInit, ConnectWorkspace,
       Observe, CheckDiff, ListResources, LeaveWorkspace, DeleteWorkspace, ReadOutputs,
       ObserveChecksum, ReconcileDeleted, AddFinalizer, Act, backend
<1>2. ASSUME NEW w \in Workspaces,
             ApplyDone(w) \/ ApplyFails(w) \/ CreateOutputs(w) \/ UpdateOutputs(w)
               \/ DestroyEnds(w)
      PROVE  UNCHANGED resources
  BY <1>2 DEF ApplyDone, ApplyFails, CreateOutputs, UpdateOutputs, DestroyEnds, backend
<1>3. (\E n \in Names : Drift(n) \/ Unlock(n)) \/ Crash => UNCHANGED resources
  BY DEF Drift, Unlock, Crash
<1> QED BY <1>1, <1>2, <1>3 DEF Next, Reconcile, Change

\* What changes resources runs in the workspace of its object, or, once a
\* directory is torn, in the default one.
LEMMA InOwnWorkspace ==
    ASSUME ConstantsOK, SelInv, NEW w \in Workspaces, ApplyOne(w) \/ DestroyOne(w)
    PROVE  /\ pc[w] \in {"create", "apply", "destroy"}
           /\ Usable(dir[w])
           /\ \/ dir[w].selected = NameOf[w]
              \/ dir[w].selected = Default /\ torn # {}
<1>1. pc[w] \in {"create", "apply", "destroy"} /\ Usable(dir[w])
  BY DEF ApplyOne, DestroyOne, Succeeds
<1>2. dir[w].selected \in {Default, NameOf[w]}
  BY DEF SelInv, SelectedOK
<1>3. torn = {} => dir[w].selected = NameOf[w]
  <2>1. torn = {} /\ pc[w] = "destroy" => ~FoundGone(w)
    BY DEF SelInv, FoundOK, FoundGone
  <2> QED BY <1>1, <2>1, OwnSelected DEF Selected
<1> QED BY <1>1, <1>2, <1>3

\* An apply or destroy changes the workspace that is selected.
LEMMA ChangesSelected ==
    ASSUME TypeOK, NEW w \in Workspaces, ApplyOne(w) \/ DestroyOne(w),
           NEW n \in Names, n # dir[w].selected
    PROVE  resources'[n] = resources[n]
  BY DEF ApplyOne, DestroyOne, TypeOK

\* The resources of a Terraform workspace are changed by its owner only.
THEOREM OwnerChanges == ConstantsOK /\ NoneDefault => (Spec => ChangedByOwner)
<1> SUFFICES ASSUME ConstantsOK, NoneDefault PROVE Spec => ChangedByOwner
  OBVIOUS
<1> DEFINE A == \A n \in Names : resources'[n] # resources[n] =>
                  \E w \in Workspaces : /\ NameOf[w] = n \/ (n = Default /\ torn # {})
                                        /\ pc[w] \in {"create", "apply", "destroy"}
<1>1. SelInv /\ [Next]_vars => [A]_vars
  <2> SUFFICES ASSUME SelInv, Next, NEW n \in Names, resources'[n] # resources[n]
               PROVE  \E w \in Workspaces : /\ NameOf[w] = n \/ (n = Default /\ torn # {})
                                            /\ pc[w] \in {"create", "apply", "destroy"}
    BY DEF vars, backend
  <2>1. PICK w \in Workspaces : ApplyOne(w) \/ DestroyOne(w)
    BY ResourcesFrame
  <2>2. n = dir[w].selected
    BY <2>1, ChangesSelected DEF SelInv
  <2>3. /\ pc[w] \in {"create", "apply", "destroy"}
        /\ n = NameOf[w] \/ (n = Default /\ torn # {})
    BY <2>1, <2>2, InOwnWorkspace
  <2> QED BY <2>3
<1> QED BY <1>1, SelInvariance, PTL DEF Spec, ChangedByOwner

\* Delete is called for objects that still have resources only.
THEOREM DestroyIsJustified ==
    ConstantsOK /\ NoneDefault => (Spec => []DestroyNeedsResources)
<1>1. SelInv => DestroyNeedsResources
  BY DEF SelInv, FoundOK, DestroyNeedsResources
<1> QED BY <1>1, SelInvariance, PTL

-----------------------------------------------------------------------------
(* The invariant                                                           *)

\* Nothing that Local(v) speaks of changes.
Frame(v) ==
    /\ Alone(v)
    /\ resources'[NameOf[v]] = resources[NameOf[v]]
    /\ outputs'[NameOf[v]] = outputs[NameOf[v]]
    /\ (NameOf[v] \in tfws') = (NameOf[v] \in tfws)

LEMMA FrameLocal ==
    ASSUME NEW v \in Workspaces, Local(v), Frame(v)
    PROVE  Local(v)'
<1>1. CopyOK(v)' /\ HeldOK(v)'
  BY DEF Frame, Alone, Local, CopyOK, HeldOK
<1>2. GoneOK(v)'
  BY DEF Frame, Alone, Local, GoneOK, FoundGone
<1>3. AtRest(v)'
  BY DEF Frame, Alone, Local, AtRest
<1> QED BY <1>1, <1>2, <1>3 DEF Local

LEMMA RestLocal ==
    ASSUME NEW w \in Workspaces, pc'[w] = "idle", AtRest(w)'
    PROVE  Local(w)'
  BY DEF Local, CopyOK, GoneOK, HeldOK

LEMMA ReturnLocal ==
    ASSUME TypeOK, NEW w \in Workspaces, Return(w), AtRest(w)'
    PROVE  Local(w)'
<1>1. pc'[w] = "idle"
  BY DEF Return, Goto, TypeOK
<1> QED BY <1>1, RestLocal

\* Under NamesOwned, a step of w that touches no name but its own, and the
\* default one, frames the others.
LEMMA OthersFrame ==
    ASSUME ConstantsOK, NamesOwned, TypeOK, NEW w \in Workspaces,
           User(w) \/ Reconcile(w) \/ LoseDir(w),
           \A n \in Names \ {NameOf[w], Default} :
              /\ resources'[n] = resources[n]
              /\ outputs'[n] = outputs[n]
              /\ (n \in tfws') = (n \in tfws)
    PROVE  \A v \in Workspaces \ {w} : Frame(v)
<1> SUFFICES ASSUME NEW v \in Workspaces \ {w} PROVE Frame(v)
  OBVIOUS
<1>1. NameOf[v] \in Names \ {NameOf[w], Default}
  BY DEF ConstantsOK, NamesOwned, NoneDefault
<1> QED BY <1>1, OthersAlone DEF Frame

\* What one step of w has to establish.
StepOK(w) == /\ Local(w)'
             /\ \A v \in Workspaces \ {w} : Frame(v)

LEMMA UserStep ==
    ASSUME ConstantsOK, NamesOwned, IInv, NEW w \in Workspaces, User(w)
    PROVE  StepOK(w)
<1> USE DEF IInv, SelInv
<1>1. UNCHANGED <<backend, torn>>
  BY DEF User, CreateObject, EditSpec, DeleteObject, ResolveCreate, disk
<1>2. \A v \in Workspaces \ {w} : Frame(v)
  BY <1>1, OthersFrame DEF backend
<1>l. Local(w)
  OBVIOUS
<1>p. UNCHANGED <<finalizer, pc, mg, obs>>
  BY DEF User, CreateObject, EditSpec, DeleteObject, ResolveCreate, work
<1>c. CopyOK(w)'
  <2>1. CASE CreateObject(w)
    <3>1. pc'[w] = "idle"
      BY <1>p, <2>1 DEF CreateObject
    <3> QED BY <3>1 DEF CopyOK
  <2>2. CASE EditSpec(w) \/ DeleteObject(w)
    <3>1. fresh'[w] = (pc[w] = "idle")
      BY <2>2 DEF EditSpec, DeleteObject, Touch, TypeOK
    <3> QED BY <1>p, <3>1 DEF CopyOK
  <2>3. CASE ResolveCreate(w)
    BY <1>l, <2>3 DEF ResolveCreate, Local, CopyOK, work
  <2> QED BY <2>1, <2>2, <2>3 DEF User
<1>g. GoneOK(w)' /\ HeldOK(w)'
  BY <1>l, <1>1, <1>p DEF Local, GoneOK, HeldOK, FoundGone, backend
<1>a. AtRest(w)'
  <2>1. \/ phase'[w] = "live"
        \/ UNCHANGED <<phase, ready>>
        \/ finalizer[w] /\ phase'[w] = "deleting"
        \/ ~finalizer[w] /\ phase'[w] = "absent" /\ ~ready'[w]
    BY DEF User, CreateObject, EditSpec, DeleteObject, ResolveCreate, Vanish, TypeOK
  <2> QED BY <1>l, <1>1, <1>p, <2>1 DEF Local, AtRest, backend
<1> QED BY <1>2, <1>c, <1>g, <1>a DEF StepOK, Local

\* The steps of the rest of the world.
LEMMA WorldStep ==
    ASSUME ConstantsOK, NamesOwned, IInv, SelInv',
           \/ \E w \in Workspaces : LoseDir(w)
           \/ \E n \in Names : Drift(n) \/ Unlock(n)
           \/ Crash
           \/ UNCHANGED vars
    PROVE  IInv'
<1> USE DEF IInv, SelInv
<1>1. ASSUME NEW w \in Workspaces, LoseDir(w) PROVE IInv'
  <2>1. UNCHANGED <<object, work, backend>> /\ torn \subseteq torn'
    BY <1>1 DEF LoseDir
  <2>2. \A v \in Workspaces \ {w} : Frame(v)
    BY <1>1, <2>1, OthersFrame DEF backend
  <2>4. Local(w)
    OBVIOUS
  <2>5. CopyOK(w)' /\ HeldOK(w)'
    BY <2>1, <2>4 DEF Local, CopyOK, HeldOK, object, work
  <2>6. GoneOK(w)'
    BY <2>1, <2>4 DEF Local, GoneOK, FoundGone, work, backend
  <2>7. AtRest(w)'
    BY <2>1, <2>4 DEF Local, AtRest, object, work, backend
  <2>8. Local(w)'
    BY <2>5, <2>6, <2>7 DEF Local
  <2> QED BY <2>1, <2>2, <2>8, FrameLocal DEF backend
<1>2. ASSUME NEW n \in Names, Drift(n) \/ Unlock(n) PROVE IInv'
  <2>1. \A v \in Workspaces : Frame(v)
    BY <1>2 DEF Drift, Unlock, Frame, Alone, object, work, disk
  <2> QED BY <1>2, <2>1, FrameLocal DEF Drift, Unlock
<1>3. CASE Crash
  <2>1. ASSUME NEW w \in Workspaces PROVE Local(w)'
    <3>1. pc'[w] = "idle"
      BY <1>3 DEF Crash
    <3>2. AtRest(w)
      BY DEF Local
    <3>3. AtRest(w)'
      BY <1>3, <3>2 DEF Crash, AtRest, object
    <3> QED BY <3>1, <3>3, RestLocal
  <2> QED BY <1>3, <2>1 DEF Crash, backend
<1>4. CASE UNCHANGED vars
  <2>1. \A v \in Workspaces : Frame(v)
    BY <1>4 DEF vars, Frame, Alone, object, work, disk, backend
  <2> QED BY <1>4, <2>1, FrameLocal DEF vars, backend
<1> QED BY <1>1, <1>2, <1>3, <1>4

\* A step of Connect changes nothing but w's own locals and directory, and
\* creates w's Terraform workspace.
LEMMA ConnectStep ==
    ASSUME ConstantsOK, NamesOwned, IInv, NEW w \in Workspaces,
           Start(w) \/ Connect(w)
    PROVE  StepOK(w)
<1> USE DEF IInv, SelInv
<1>1. /\ UNCHANGED <<object, resources, outputs, torn>>
      /\ tfws' = tfws \/ tfws' = tfws \cup {NameOf[w]}
  BY TornBy DEF Start, Connect, ConnectPrepare, ConnectChecksum, ConnectInit,
         ConnectWorkspace, backend, Reconcile
<1>2. \A v \in Workspaces \ {w} : Frame(v)
  BY <1>1, OthersFrame DEF Reconcile
<1>l. Local(w)
  OBVIOUS
<1>a. AtRest(w)'
  BY <1>l, <1>1 DEF Local, AtRest, object
<1>3. CASE Return(w)
  BY <1>2, <1>3, <1>a, ReturnLocal DEF StepOK
<1>4. CASE ~Return(w)
  <2>1. pc'[w] \in {"connect", "checksum", "init", "select", "plan"}
    BY <1>4 DEF Start, Connect, ConnectPrepare, ConnectChecksum, ConnectInit,
       ConnectWorkspace, Goto, TypeOK
  <2>2. CopyOK(w)'
    <3>1. CASE Start(w)
      <4>1. /\ UNCHANGED fresh /\ phase[w] # "absent"
            /\ mg'[w].deleted = (phase[w] = "deleting")
            /\ mg'[w].module = spec[w].module
        BY <3>1 DEF Start, TypeOK
      <4> QED BY <1>1, <4>1 DEF CopyOK, object
    <3>2. CASE Connect(w)
      <4>1. UNCHANGED <<mg, fresh>> /\ pc[w] # "idle"
        BY <1>4, <3>2 DEF Connect, ConnectPrepare, ConnectChecksum, ConnectInit,
           ConnectWorkspace
      <4> QED BY <1>l, <1>1, <4>1 DEF Local, CopyOK, object
    <3> QED BY <3>1, <3>2
  <2>3. HeldOK(w)' /\ GoneOK(w)'
    BY <2>1 DEF HeldOK, GoneOK
  <2> QED BY <1>2, <1>a, <2>2, <2>3 DEF StepOK, Local
<1> QED BY <1>3, <1>4

\* A step of Observe changes w's locals and directory, and may delete w's
\* Terraform workspace.
LEMMA ObserveStep ==
    ASSUME ConstantsOK, NamesOwned, IInv, NEW w \in Workspaces, Observe(w)
    PROVE  StepOK(w)
<1> USE DEF IInv, SelInv
<1>1. /\ UNCHANGED <<phase, spec, finalizer, resources, torn>>
      /\ \A n \in Names \ {NameOf[w]} : outputs'[n] = outputs[n] /\ (n \in tfws') = (n \in tfws)
  <2>1. Observe(w) /\ ~DeleteWorkspace(w) =>
          UNCHANGED <<phase, spec, finalizer, resources, outputs, tfws>>
    BY DEF Observe, CheckDiff, ListResources, LeaveWorkspace, ReadOutputs,
           ObserveChecksum, object, backend
  <2>2. ASSUME DeleteWorkspace(w)
        PROVE  /\ UNCHANGED <<phase, spec, finalizer, resources>>
               /\ \/ UNCHANGED <<outputs, tfws>>
                  \/ /\ outputs' = [outputs EXCEPT ![NameOf[w]] = FALSE]
                     /\ tfws' = tfws \ {NameOf[w]}
    <3>1. obs[w].current = NameOf[w]
      BY <2>2 DEF DeleteWorkspace, SelectedOK
    <3> QED BY <2>2, <3>1 DEF DeleteWorkspace, object
  <2> QED BY <2>1, <2>2, TornBy DEF ConstantsOK, TypeOK, Reconcile
<1>2. \A v \in Workspaces \ {w} : Frame(v)
  BY <1>1, OthersFrame DEF Reconcile
<1>l. Local(w) /\ SelectedOK(w) /\ FoundOK(w)
  OBVIOUS
<1>o. obs[w] \in Observations /\ dir[w] \in Dirs
  BY DEF TypeOK
<1>s. UNCHANGED ready \/ Return(w)
  BY DEF Observe, CheckDiff, ListResources, LeaveWorkspace, DeleteWorkspace, ReadOutputs,
     ObserveChecksum, object
<1>a. AtRest(w)'
  <2>1. ready'[w] = ready[w]
    BY DEF Observe, CheckDiff, ListResources, LeaveWorkspace, DeleteWorkspace, ReadOutputs,
       ObserveChecksum, SaveStatus, object, TypeOK
  <2> QED BY <1>l, <1>1, <2>1 DEF Local, AtRest
<1>r. ASSUME Return(w) PROVE StepOK(w)
  BY <1>2, <1>a, <1>r, ReturnLocal DEF StepOK
<1>g. ASSUME ~Return(w), CopyOK(w)', GoneOK(w)' PROVE StepOK(w)
  <2>1. pc'[w] \in {"list", "delws", "delwsDelete", "outputs", "sum", "observed"}
    BY <1>g DEF Observe, CheckDiff, ListResources, AfterList, LeaveWorkspace,
       DeleteWorkspace, ReadOutputs, ObserveChecksum, Goto, TypeOK
  <2> QED BY <1>2, <1>a, <1>g, <2>1 DEF StepOK, Local, HeldOK
<1>c. ASSUME ~Return(w) PROVE CopyOK(w)'
  <2>1. /\ pc[w] # "idle" /\ UNCHANGED fresh
        /\ mg' = mg \/ \E c : mg' = [mg EXCEPT ![w] = [mg[w] EXCEPT !.checksum = c]]
    BY <1>c DEF Observe, CheckDiff, ListResources, LeaveWorkspace,
       DeleteWorkspace, ReadOutputs, ObserveChecksum
  <2>2. mg'[w].module = mg[w].module /\ mg'[w].deleted = mg[w].deleted
    BY <2>1 DEF TypeOK, Copies
  <2> QED BY <1>l, <1>1, <2>1, <2>2 DEF Local, CopyOK
<1>3. CASE CheckDiff(w) /\ ~Return(w)
  <2>1. pc'[w] = "list"
    BY <1>3 DEF CheckDiff, Goto, TypeOK
  <2> QED BY <1>3, <1>c, <1>g, <2>1 DEF GoneOK
<1>4. CASE ListResources(w) /\ ~Return(w)
  <2>1. UNCHANGED <<dir, tfws, outputs>>
    BY <1>4 DEF ListResources, object, disk, backend
  <2>2. /\ pc[w] = "list" /\ UNCHANGED <<mg, fresh>>
        /\ Usable(dir[w])
        /\ obs'[w] = [obs[w] EXCEPT !.listed = resources[dir[w].selected]]
        /\ IF mg[w].deleted /\ resources[dir[w].selected] = {}
             THEN pc'[w] = "delws" ELSE pc'[w] = "outputs"
    BY <1>4 DEF ListResources, AfterList, Goto, TypeOK, Succeeds
  <2>3. w \notin torn => dir[w].selected = NameOf[w]
    BY <2>2, OwnSelected DEF Selected
  <2>4. obs'[w].listed = resources[dir[w].selected]
    BY <1>o, <2>2 DEF Observations
  <2>5. GoneOK(w)'
    BY <1>1, <1>l, <2>1, <2>2, <2>3, <2>4 DEF Local, GoneOK, FoundGone
  <2> QED BY <1>4, <1>c, <1>g, <2>5
<1>5. CASE LeaveWorkspace(w) /\ ~Return(w)
  <2>1. /\ pc[w] = "delws" /\ UNCHANGED <<mg, fresh>>
        /\ Usable(dir[w])
        /\ obs'[w] = [obs[w] EXCEPT !.current = dir[w].selected]
        /\ pc'[w] = IF dir[w].selected = Default THEN "outputs" ELSE "delwsDelete"
    BY <1>5 DEF LeaveWorkspace, Goto, TypeOK, Succeeds
  <2>2. w \notin torn => pc'[w] = "delwsDelete"
    BY <2>1, OwnSelected DEF NamesOwned, NoneDefault, Selected
  <2>3. obs'[w].listed = obs[w].listed
    BY <1>o, <2>1 DEF Observations
  <2>4. GoneOK(w)'
    BY <1>1, <1>l, <2>1, <2>2, <2>3 DEF Local, GoneOK, FoundGone
  <2> QED BY <1>5, <1>c, <1>g, <2>4
<1>6. CASE DeleteWorkspace(w) /\ ~Return(w)
  <2>1. /\ pc[w] = "delwsDelete" /\ pc'[w] = "outputs" /\ UNCHANGED <<mg, fresh, obs>>
        /\ NameOf[w] \notin tfws' /\ ~outputs'[NameOf[w]]
    <3>1. obs[w].current = NameOf[w]
      BY <1>6, <1>l DEF DeleteWorkspace, SelectedOK
    <3> QED BY <1>6, <3>1 DEF DeleteWorkspace, Goto, TypeOK, ConstantsOK
  <2>2. GoneOK(w)'
    BY <1>1, <1>l, <2>1 DEF Local, GoneOK, FoundGone
  <2> QED BY <1>6, <1>c, <1>g, <2>2
<1>7. CASE ReadOutputs(w) /\ ~Return(w)
  <2>1. UNCHANGED <<tfws, outputs>>
    BY <1>7 DEF ReadOutputs, backend
  <2>2. /\ pc[w] = "outputs" /\ pc'[w] = "sum" /\ UNCHANGED <<mg, fresh>>
        /\ obs'[w] = [obs[w] EXCEPT !.outputs = outputs[dir[w].selected]]
    BY <1>7 DEF ReadOutputs, Goto, TypeOK
  <2>3. obs'[w].listed = obs[w].listed
    BY <1>o, <2>2 DEF Observations
  <2>4. GoneOK(w)'
    BY <1>1, <1>l, <2>1, <2>2, <2>3 DEF Local, GoneOK, FoundGone
  <2> QED BY <1>7, <1>c, <1>g, <2>4
<1>8. CASE ObserveChecksum(w) /\ ~Return(w)
  <2>1. UNCHANGED <<tfws, outputs>>
    BY <1>8 DEF ObserveChecksum, backend
  <2>2. /\ pc[w] = "sum" /\ pc'[w] = "observed" /\ UNCHANGED obs
        /\ mg'[w] = [mg[w] EXCEPT !.checksum = GenerateChecksum(dir[w])]
    BY <1>8 DEF ObserveChecksum, Goto, TypeOK
  <2>3. mg'[w].deleted = mg[w].deleted
    BY <2>2 DEF TypeOK, Copies
  <2>4. GoneOK(w)'
    BY <1>1, <1>l, <2>1, <2>2, <2>3 DEF Local, GoneOK, FoundGone
  <2> QED BY <1>8, <1>c, <1>g, <2>4
<1> QED BY <1>r, <1>3, <1>4, <1>5, <1>6, <1>7, <1>8 DEF Observe

\* The managed reconciler's decisions touch the object and w's locals only.
LEMMA DecideStep ==
    ASSUME ConstantsOK, NamesOwned, IInv, NEW w \in Workspaces,
           ReconcileDeleted(w) \/ AddFinalizer(w) \/ Act(w)
    PROVE  StepOK(w)
<1> USE DEF IInv, SelInv
<1>1. UNCHANGED <<disk, backend>>
  BY DEF ReconcileDeleted, AddFinalizer, Act
<1>2. \A v \in Workspaces \ {w} : Frame(v)
  BY <1>1, OthersFrame DEF backend, Reconcile
<1>l. Local(w) /\ mg[w] \in Copies
  BY DEF TypeOK
<1>r. ASSUME Return(w), AtRest(w)' PROVE StepOK(w)
  BY <1>2, <1>r, ReturnLocal DEF StepOK
<1>s. ASSUME NEW c, mg' = [mg EXCEPT ![w] = [mg[w] EXCEPT !.checksum = c]]
      PROVE  mg'[w].module = mg[w].module /\ mg'[w].deleted = mg[w].deleted
  BY <1>l, <1>s DEF TypeOK, Copies
<1>4. CASE ReconcileDeleted(w)
  <2>1. CASE ResourceExists(w)
    <3>1. /\ pc[w] = "observed" /\ pc'[w] = "destroy" /\ mg[w].deleted
          /\ UNCHANGED <<object, mg, fresh, obs>>
      BY <1>4, <2>1 DEF ReconcileDeleted, Goto, TypeOK
    <3>2. CopyOK(w)' /\ GoneOK(w)'
      BY <1>l, <3>1 DEF Local, CopyOK, GoneOK, object
    <3>3. AtRest(w)' /\ HeldOK(w)'
      BY <1>1, <1>l, <3>1 DEF Local, AtRest, HeldOK, object, disk, backend
    <3> QED BY <1>2, <3>2, <3>3 DEF StepOK, Local
  <2>2. CASE ~ResourceExists(w)
    <3>1. /\ pc[w] = "observed" /\ mg[w].deleted /\ Return(w)
          /\ \/ phase'[w] = "absent" /\ ~finalizer'[w] /\ ~ready'[w]
             \/ UNCHANGED <<phase, finalizer>> /\ (ready'[w] => ready[w])
      BY <1>4, <2>2 DEF ReconcileDeleted, Vanish, SaveStatus, TypeOK
    <3>2. w \notin torn => resources[NameOf[w]] = {}
      BY <1>l, <2>2, <3>1 DEF Local, ResourceExists, GoneOK, FoundGone
    <3>3. AtRest(w)'
      BY <1>1, <1>l, <3>1, <3>2 DEF Local, AtRest, disk, backend
    <3> QED BY <1>r, <3>1, <3>3
  <2> QED BY <2>1, <2>2
<1>5. CASE AddFinalizer(w)
  <2>1. CASE Return(w)
    <3>1. /\ UNCHANGED <<phase, spec, finalizer>>
          /\ fresh[w] \/ UNCHANGED ready
          /\ pc[w] = "observed"
      BY <1>5, <2>1 DEF AddFinalizer, SaveStatus, Return, Goto, TypeOK
    <3>2. phase[w] = "absent" => ~ready'[w]
      BY <1>l, <3>1 DEF Local, CopyOK, AtRest
    <3>3. AtRest(w)'
      BY <1>1, <1>l, <3>1, <3>2 DEF Local, AtRest, disk, backend
    <3> QED BY <1>r, <2>1, <3>3
  <2>2. CASE ~Return(w)
    <3>1. /\ pc[w] = "observed" /\ pc'[w] = "act" /\ ~mg[w].deleted
          /\ UNCHANGED <<phase, spec, ready, fresh, obs>>
          /\ finalizer'[w] /\ (finalizer[w] \/ fresh[w])
      BY <1>5, <2>2 DEF AddFinalizer, Goto, TypeOK, object
    <3>2. mg'[w].module = mg[w].module /\ mg'[w].deleted = mg[w].deleted
      BY <1>5, <1>l, <1>s, <2>2 DEF AddFinalizer
    <3>3. phase[w] # "absent"
      BY <1>l, <3>1 DEF Local, CopyOK, AtRest
    <3>4. CopyOK(w)' /\ GoneOK(w)'
      BY <1>l, <3>1, <3>2 DEF Local, CopyOK, GoneOK
    <3>6. AtRest(w)' /\ HeldOK(w)'
      BY <1>1, <1>l, <3>1, <3>2, <3>3 DEF Local, AtRest, HeldOK, disk, backend
    <3> QED BY <1>2, <3>4, <3>6 DEF StepOK, Local
  <2> QED BY <2>1, <2>2
<1>6. CASE Act(w)
  <2>0. /\ UNCHANGED <<phase, spec, finalizer>> /\ pc[w] = "act"
    BY <1>6 DEF Act
  <2>3. phase[w] # "absent"
    BY <1>l, <2>0 DEF Local, AtRest, HeldOK
  <2>4. AtRest(w)'
    BY <1>1, <1>l, <2>0, <2>3 DEF Local, AtRest, disk, backend
  <2>1. CASE Return(w)
    BY <1>r, <2>1, <2>4
  <2>2. CASE ~Return(w)
    <3>1. /\ pc'[w] \in {"create", "apply"}
          /\ UNCHANGED <<fresh, obs>>
      BY <1>6, <2>2 DEF Act, Goto, TypeOK
    <3>2. mg'[w].module = mg[w].module /\ mg'[w].deleted = mg[w].deleted
      BY <1>6, <1>l, <1>s, <2>2 DEF Act
    <3>3. CopyOK(w)' /\ GoneOK(w)' /\ HeldOK(w)'
      BY <1>l, <2>0, <3>1, <3>2 DEF Local, CopyOK, GoneOK, HeldOK
    <3> QED BY <1>2, <2>4, <3>3 DEF StepOK, Local
  <2> QED BY <2>1, <2>2
<1> QED BY <1>4, <1>5, <1>6

\* apply and destroy change the state of w's own Terraform workspace, or of
\* the default one.
LEMMA ChangeStep ==
    ASSUME ConstantsOK, NamesOwned, IInv, NEW w \in Workspaces, Change(w)
    PROVE  StepOK(w)
<1> USE DEF IInv, SelInv
<1>l. Local(w) /\ SelectedOK(w)
  OBVIOUS
<1>n. /\ pc[w] \in {"create", "apply", "createOutputs", "applyOutputs", "destroy"}
      /\ dir[w].selected \in {Default, NameOf[w]}
      /\ pc[w] # "destroy" => finalizer[w] /\ phase[w] # "absent"
  <2>1. pc[w] \in {"create", "apply", "createOutputs", "applyOutputs", "destroy"}
    BY DEF Change, ApplyOne, ApplyDone, ApplyFails, CreateOutputs, UpdateOutputs,
           DestroyOne, DestroyEnds
  <2> QED BY <1>l, <2>1 DEF Local, HeldOK, AtRest, SelectedOK
<1>1. /\ UNCHANGED <<phase, spec, finalizer, torn, tfws>>
      /\ \A n \in Names \ {NameOf[w], Default} :
            resources'[n] = resources[n] /\ outputs'[n] = outputs[n]
  <2>1. UNCHANGED <<phase, spec, finalizer, torn, tfws>>
    BY DEF Change, ApplyOne, ApplyDone, ApplyFails, CreateOutputs, UpdateOutputs,
         DestroyOne, DestroyEnds, object, disk, backend
  <2>2. \A n \in Names \ {dir[w].selected} :
            resources'[n] = resources[n] /\ outputs'[n] = outputs[n]
    BY DEF Change, ApplyOne, ApplyDone, ApplyFails, CreateOutputs, UpdateOutputs,
         DestroyOne, DestroyEnds, backend, TypeOK
  <2> QED BY <1>n, <2>1, <2>2
<1>2. \A v \in Workspaces \ {w} : Frame(v)
  BY <1>1, OthersFrame DEF Reconcile
<1>a. AtRest(w)'
  <2>1. CASE pc[w] = "destroy"
    <3>1. UNCHANGED resources \/ \E n, r : resources' = [resources EXCEPT ![n] = @ \ {r}]
      BY <2>1 DEF Change, ApplyOne, ApplyDone, ApplyFails, CreateOutputs, UpdateOutputs,
         DestroyOne, DestroyEnds, backend
    <3>2. resources'[NameOf[w]] \subseteq resources[NameOf[w]]
      BY <3>1 DEF TypeOK, ConstantsOK
    <3>3. ready'[w] => ready[w]
      BY <2>1 DEF Change, ApplyOne, ApplyDone, ApplyFails, CreateOutputs, UpdateOutputs,
         DestroyOne, DestroyEnds, SaveStatus, object, TypeOK
    <3> QED BY <1>l, <1>1, <3>2, <3>3 DEF Local, AtRest
  <2>2. CASE pc[w] # "destroy"
    BY <1>l, <1>n, <1>1, <2>2 DEF Local, AtRest
  <2> QED BY <2>1, <2>2
<1>3. CASE Return(w)
  BY <1>2, <1>3, <1>a, ReturnLocal DEF StepOK
<1>4. CASE ~Return(w)
  <2>1. /\ UNCHANGED <<mg, fresh>>
        /\ \/ UNCHANGED pc
           \/ /\ pc[w] \in {"create", "apply"}
              /\ pc'[w] \in {"createOutputs", "applyOutputs"}
    BY <1>4 DEF Change, ApplyOne, ApplyDone, ApplyFails, CreateOutputs, UpdateOutputs,
       DestroyOne, DestroyEnds, FinishCreate, work, Goto, TypeOK
  <2>2. CopyOK(w)' /\ GoneOK(w)' /\ HeldOK(w)'
    BY <1>l, <1>n, <1>1, <2>1 DEF Local, CopyOK, GoneOK, HeldOK
  <2> QED BY <1>2, <1>a, <2>2 DEF StepOK, Local
<1> QED BY <1>3, <1>4

\* The invariant is inductive.
LEMMA Invariance == ConstantsOK /\ NamesOwned => (Spec => []IInv)
<1> SUFFICES ASSUME ConstantsOK, NamesOwned PROVE Spec => []IInv
  OBVIOUS
<1>1. Init => \A w \in Workspaces : Local(w)
  <2> SUFFICES ASSUME Init, NEW w \in Workspaces PROVE Local(w)
    OBVIOUS
  <2>1. pc[w] = "idle" /\ phase[w] = "absent" /\ ~finalizer[w] /\ ~ready[w]
        /\ resources[NameOf[w]] = {}
    BY DEF Init, ConstantsOK
  <2> QED BY <2>1 DEF Local, CopyOK, GoneOK, HeldOK, AtRest
<1>2. IInv /\ SelInv' /\ [Next]_vars => IInv'
  <2> SUFFICES ASSUME IInv, SelInv', [Next]_vars PROVE IInv'
    OBVIOUS
  <2>1. ASSUME NEW w \in Workspaces, StepOK(w) PROVE IInv'
    <3>1. ASSUME NEW v \in Workspaces PROVE Local(v)'
      BY <2>1, FrameLocal DEF StepOK, IInv
    <3> QED BY <2>1, <3>1 DEF StepOK, IInv
  <2>2. ASSUME NEW w \in Workspaces, User(w) \/ Reconcile(w) PROVE IInv'
    BY <2>1, <2>2, UserStep, ConnectStep, ObserveStep, DecideStep, ChangeStep DEF Reconcile
  <2> QED BY <2>2, WorldStep DEF Next, IInv
<1>3. Spec => []SelInv
  BY SelInvariance DEF NamesOwned
<1> QED BY <1>1, <1>2, <1>3, PTL DEF Spec, IInv

\* An object that leaves the API server leaves nothing in its Terraform state.
THEOREM NothingOrphaned == ConstantsOK /\ NamesOwned => (Spec => []NoOrphans)
<1>1. IInv => NoOrphans
  BY DEF IInv, Local, AtRest, NoOrphans
<1> QED BY <1>1, Invariance, PTL

\* The finalizer is removed only after everything it protects is gone.
THEOREM FinalizerProtects == ConstantsOK /\ NamesOwned => (Spec => FinalizerHeld)
<1> SUFFICES ASSUME ConstantsOK, NamesOwned PROVE Spec => FinalizerHeld
  OBVIOUS
<1> DEFINE A == \A w \in Workspaces \ torn : finalizer[w] /\ ~finalizer'[w] =>
                   /\ resources[NameOf[w]] = {}
                   /\ ~outputs[NameOf[w]]
                   /\ NameOf[w] \notin tfws
<1>1. IInv /\ [Next]_vars => [A]_vars
  <2> SUFFICES ASSUME IInv, Next, NEW v \in Workspaces \ torn, finalizer[v], ~finalizer'[v]
               PROVE  /\ resources[NameOf[v]] = {}
                      /\ ~outputs[NameOf[v]]
                      /\ NameOf[v] \notin tfws
    BY DEF vars, object
  <2>1. PICK w \in Workspaces : ReconcileDeleted(w) \/ AddFinalizer(w)
    <3>1. ASSUME NEW w \in Workspaces,
                 User(w) \/ LoseDir(w) \/ Start(w) \/ Connect(w) \/ Observe(w) \/ Act(w)
          PROVE  FALSE
      BY <3>1 DEF User, CreateObject, EditSpec, DeleteObject, ResolveCreate, LoseDir,
         Start, Connect, ConnectPrepare, ConnectChecksum, ConnectInit, ConnectWorkspace,
         Observe, CheckDiff, ListResources, LeaveWorkspace, DeleteWorkspace, ReadOutputs,
         ObserveChecksum, Act, object
    <3>2. ASSUME NEW w \in Workspaces, Change(w) PROVE FALSE
      BY <3>2 DEF Change, ApplyOne, ApplyDone, ApplyFails, CreateOutputs, UpdateOutputs,
         DestroyOne, DestroyEnds, object
    <3>3. (\E n \in Names : Drift(n) \/ Unlock(n)) \/ Crash => FALSE
      BY DEF Drift, Unlock, Crash, object
    <3> QED BY <3>1, <3>2, <3>3 DEF Next, Reconcile
  <2>2. /\ w = v /\ pc[v] = "observed" /\ mg[v].deleted /\ ~ResourceExists(v)
    BY ZenonT(40), <2>1 DEF ReconcileDeleted, AddFinalizer, object, IInv, SelInv, TypeOK
  <2> QED BY <2>2 DEF IInv, Local, GoneOK, FoundGone, ResourceExists
<1> QED BY <1>1, Invariance, PTL DEF Spec, FinalizerHeld

-----------------------------------------------------------------------------
(* What a plan or an apply has shown                                       *)

\* Commands that succeed run on all the files of the reconcile's module.
LEMMA OwnFiles ==
    ASSUME DirInv, NEW w \in Workspaces \ torn, Usable(dir[w]), pc[w] \in Commands
    PROVE  mg[w].module \subseteq dir[w].files
<1>1. dir[w] # EmptyDir
  BY DEF Usable, EmptyDir
<1> QED BY <1>1 DEF DirInv, DirLocal, DirOK, Checked

\* More files declare more.
LEMMA DeclaredGrows ==
    ASSUME NEW F, NEW G, F \subseteq G
    PROVE  Declared(F) \subseteq Declared(G) /\ (HasOutput(F) => HasOutput(G))
  BY DEF Declared, HasOutput

\* What the state of w says is what the files in its directory declare.
LEMMA AppliedByFiles ==
    ASSUME NEW w \in Workspaces, NEW m, m \subseteq dir[w].files,
           resources[NameOf[w]] = Declared(dir[w].files),
           outputs[NameOf[w]] = HasOutput(dir[w].files)
    PROVE  Applied(w, m)
  BY DeclaredGrows DEF Applied

\* Nothing that PlanOK(v) speaks of changes, but for a directory that is lost.
LEMMA PlanKept ==
    ASSUME NEW v \in Workspaces, PlanOK(v), v \in torn => v \in torn',
           resources'[NameOf[v]] = resources[NameOf[v]],
           outputs'[NameOf[v]] = outputs[NameOf[v]],
           v \notin torn' => dir'[v] \in {dir[v], EmptyDir},
           mg'[v].deleted = mg[v].deleted, mg'[v].module = mg[v].module,
           \/ /\ pc[v] \in {"list", "outputs", "sum", "observed", "act"}
              /\ pc'[v] \in {"list", "outputs", "sum", "observed", "act"}
              /\ obs'[v].differs = obs[v].differs
           \/ pc'[v] = pc[v] /\ obs'[v] = obs[v]
    PROVE  PlanOK(v)'
<1> SUFFICES ASSUME v \notin torn' PROVE PlanOK(v)'
  BY DEF PlanOK
<1>1. ASSUME NEW m, Applied(v, m) PROVE Applied(v, m)'
  BY <1>1 DEF Applied
<1> QED BY <1>1 DEF PlanOK

\* A reconcile that has not come to the plan, or is on its way to change things.
LEMMA NotPlanned ==
    ASSUME NEW v \in Workspaces,
           \/ pc'[v] \notin {"list", "outputs", "sum", "observed", "act", "applyOutputs"}
           \/ mg'[v].deleted /\ pc'[v] # "applyOutputs"
    PROVE  PlanOK(v)'
  BY DEF PlanOK

\* The steps of other objects leave v's plan alone.
LEMMA FramePlan ==
    ASSUME NEW v \in Workspaces, PlanOK(v), Frame(v)
    PROVE  PlanOK(v)'
  BY PlanKept DEF Frame, Alone

\* The steps of v itself.
LEMMA ObservePlan ==
    ASSUME ConstantsOK, NamesOwned, PlanInv, NEW w \in Workspaces, Observe(w)
    PROVE  PlanOK(w)'
<1> USE DEF PlanInv, IInv, SelInv
<1>1. UNCHANGED torn
  BY TornBy DEF Reconcile
<1>o. obs[w] \in Observations /\ PlanOK(w) /\ FoundOK(w)
  BY DEF TypeOK
<1>2. CASE Return(w)
  <2>1. pc'[w] = "idle"
    BY <1>2 DEF Return, Goto, TypeOK
  <2> QED BY <2>1, NotPlanned
<1>3. CASE CheckDiff(w) /\ ~Return(w)
  <2>1. /\ pc[w] = "plan" /\ pc'[w] = "list" /\ UNCHANGED <<mg, disk, backend>>
        /\ \/ Usable(dir[w]) /\ obs'[w].differs = Diff(w)
           \/ mg[w].deleted
    BY <1>3, <1>o DEF CheckDiff, Goto, TypeOK, Succeeds, Observations
  <2>2. ASSUME w \notin torn, ~mg[w].deleted, ~obs'[w].differs PROVE Applied(w, mg[w].module)
    <3>1. dir[w].selected = NameOf[w] /\ mg[w].module \subseteq dir[w].files
      BY <2>1, <2>2, OwnSelected, OwnFiles DEF Selected, Commands
    <3>2. /\ resources[NameOf[w]] = Declared(dir[w].files)
          /\ outputs[NameOf[w]] = HasOutput(dir[w].files)
      BY <2>1, <2>2, <3>1 DEF Diff
    <3> QED BY <3>1, <3>2, AppliedByFiles
  <2>3. Applied(w, mg[w].module) => Applied(w, mg[w].module)'
    BY <2>1 DEF Applied, disk, backend
  <2> QED BY <1>1, <2>1, <2>2, <2>3 DEF PlanOK
<1>4. CASE (LeaveWorkspace(w) \/ DeleteWorkspace(w)) /\ ~Return(w)
  <2>1. pc[w] \in {"delws", "delwsDelete"} /\ UNCHANGED mg
        /\ pc'[w] \in {"outputs", "delwsDelete"}
    BY <1>4 DEF LeaveWorkspace, DeleteWorkspace, Goto, TypeOK
  <2>2. mg'[w].deleted
    BY <1>o, <2>1 DEF FoundOK, FoundGone
  <2> QED BY <2>1, <2>2, NotPlanned
<1>5. CASE (ListResources(w) \/ ReadOutputs(w)) /\ ~Return(w)
  <2>1. /\ pc[w] \in {"list", "outputs"} /\ UNCHANGED <<mg, disk, backend>>
        /\ pc'[w] \in {"delws", "outputs", "sum"}
        /\ obs'[w].differs = obs[w].differs
    BY <1>5, <1>o DEF ListResources, ReadOutputs, AfterList, Goto, TypeOK, Observations
  <2> QED BY <1>o, <2>1, PlanKept, NotPlanned DEF disk, backend
<1>6. CASE ObserveChecksum(w) /\ ~Return(w)
  <2>1. /\ pc[w] = "sum" /\ pc'[w] = "observed" /\ UNCHANGED <<obs, disk, backend>>
        /\ mg'[w] = [mg[w] EXCEPT !.checksum = GenerateChecksum(dir[w])]
    BY <1>6 DEF ObserveChecksum, Goto, TypeOK
  <2>2. mg'[w].deleted = mg[w].deleted /\ mg'[w].module = mg[w].module
    BY <2>1 DEF TypeOK, Copies
  <2> QED BY <1>o, <2>1, <2>2, PlanKept DEF disk, backend
<1> QED BY <1>2, <1>3, <1>4, <1>5, <1>6 DEF Observe

LEMMA ActPlan ==
    ASSUME ConstantsOK, NamesOwned, PlanInv, NEW w \in Workspaces,
           ReconcileDeleted(w) \/ AddFinalizer(w) \/ Act(w) \/ Change(w)
    PROVE  PlanOK(w)'
<1> USE DEF PlanInv, IInv, SelInv
<1>1. UNCHANGED disk
  BY DEF ReconcileDeleted, AddFinalizer, Act, Change, ApplyOne, ApplyDone, ApplyFails,
     CreateOutputs, UpdateOutputs, DestroyOne, DestroyEnds
<1>l. PlanOK(w)
  OBVIOUS
<1>2. CASE Return(w)
  <2>1. pc'[w] = "idle"
    BY <1>2 DEF Return, Goto, TypeOK
  <2> QED BY <2>1, NotPlanned
<1>3. CASE (ReconcileDeleted(w) \/ Act(w)) /\ ~Return(w)
  <2>1. pc'[w] \in {"destroy", "create", "apply"}
    BY <1>3 DEF ReconcileDeleted, Act, Goto, TypeOK
  <2> QED BY <2>1, NotPlanned
<1>4. CASE AddFinalizer(w) /\ ~Return(w)
  <2>1. /\ pc[w] = "observed" /\ pc'[w] = "act" /\ UNCHANGED <<obs, backend>>
        /\ mg' = mg \/ \E c : mg' = [mg EXCEPT ![w] = [mg[w] EXCEPT !.checksum = c]]
    BY <1>4 DEF AddFinalizer, Goto, TypeOK
  <2>2. mg'[w].deleted = mg[w].deleted /\ mg'[w].module = mg[w].module
    BY <2>1 DEF TypeOK, Copies
  <2> QED BY <1>1, <1>l, <2>1, <2>2, PlanKept DEF disk, backend
<1>5. CASE ApplyDone(w)
  <2>1. /\ Usable(dir[w]) /\ pc[w] \in {"create", "apply"} /\ UNCHANGED <<mg, resources>>
        /\ resources[dir[w].selected] = Declared(dir[w].files)
        /\ outputs' = [outputs EXCEPT ![dir[w].selected] = HasOutput(dir[w].files)]
        /\ pc'[w] \in {"createOutputs", "applyOutputs"}
    BY <1>5 DEF ApplyDone, Succeeds, Goto, TypeOK
  <2>2. ASSUME w \notin torn PROVE Applied(w, mg[w].module)'
    <3>1. dir[w].selected = NameOf[w] /\ mg[w].module \subseteq dir[w].files
      BY <2>1, <2>2, OwnSelected, OwnFiles DEF Selected, Commands
    <3>2. resources'[NameOf[w]] = Declared(dir[w].files)
      BY <2>1, <3>1
    <3>3. outputs'[NameOf[w]] = HasOutput(dir[w].files)
      BY <2>1, <3>1 DEF TypeOK, ConstantsOK
    <3>4. Declared(mg[w].module) \subseteq resources'[NameOf[w]]
      BY <3>1, <3>2, DeclaredGrows
    <3>5. HasOutput(mg[w].module) => outputs'[NameOf[w]]
      <4>1. HasOutput(mg[w].module) => HasOutput(dir[w].files)
        BY <3>1, DeclaredGrows
      <4> HIDE DEF PlanInv, IInv, SelInv
      <4> QED BY <3>3, <4>1
    <3> QED BY <1>1, <2>1, <3>1, <3>2, <3>3, <3>4, <3>5 DEF Applied, disk
  <2> QED BY <1>1, <2>1, <2>2 DEF PlanOK, disk
<1>6. CASE Change(w) /\ ~ApplyDone(w) /\ ~Return(w)
  <2>1. pc[w] \in {"create", "apply", "destroy"} /\ UNCHANGED pc
    BY <1>6 DEF Change, ApplyOne, ApplyFails, CreateOutputs, UpdateOutputs, FinishCreate,
       DestroyOne, DestroyEnds, work
  <2> QED BY <2>1, NotPlanned
<1> QED BY <1>2, <1>3, <1>4, <1>5, <1>6

LEMMA PlanStep ==
    ASSUME ConstantsOK, NamesOwned, PlanInv, [Next]_vars, NEW v \in Workspaces
    PROVE  PlanOK(v)'
<1> USE DEF PlanInv, IInv, SelInv
<1>l. PlanOK(v)
  OBVIOUS
<1>f. ASSUME NEW w \in Workspaces \ {v}, StepOK(w) PROVE PlanOK(v)'
  BY <1>f, <1>l, FramePlan DEF StepOK
<1>1. ASSUME NEW w \in Workspaces, User(w) PROVE PlanOK(v)'
  <2>1. CASE w = v
    <3>1. UNCHANGED <<pc, mg, obs, backend, torn>>
      BY <1>1 DEF User, CreateObject, EditSpec, DeleteObject, ResolveCreate, work, disk
    <3>2. dir'[v] \in {dir[v], EmptyDir}
      BY <1>1, <2>1 DEF User, CreateObject, EditSpec, DeleteObject, ResolveCreate, disk, TypeOK
    <3> QED BY <1>l, <3>1, <3>2, PlanKept DEF backend
  <2>2. CASE w # v
    BY <1>1, <1>f, <2>2, UserStep
  <2> QED BY <2>1, <2>2
<1>2. ASSUME NEW w \in Workspaces, Start(w) \/ Connect(w) PROVE PlanOK(v)'
  <2>1. CASE w = v
    <3>1. pc'[v] \in {"idle", "connect", "checksum", "init", "select", "plan"}
      BY <1>2, <2>1 DEF Start, Connect, ConnectPrepare, ConnectChecksum, ConnectInit,
         ConnectWorkspace, Return, Goto, TypeOK
    <3> QED BY <3>1, NotPlanned
  <2>2. CASE w # v
    BY <1>2, <1>f, <2>2, ConnectStep
  <2> QED BY <2>1, <2>2
<1>3. ASSUME NEW w \in Workspaces, Observe(w) PROVE PlanOK(v)'
  BY <1>3, <1>f, ObservePlan, ObserveStep
<1>4. ASSUME NEW w \in Workspaces,
             ReconcileDeleted(w) \/ AddFinalizer(w) \/ Act(w) \/ Change(w)
      PROVE  PlanOK(v)'
  BY <1>4, <1>f, ActPlan, DecideStep, ChangeStep
<1>5. ASSUME NEW w \in Workspaces, LoseDir(w) PROVE PlanOK(v)'
  <2>1. UNCHANGED <<work, backend>> /\ torn \subseteq torn'
    BY <1>5 DEF LoseDir
  <2>2. v \notin torn' => dir'[v] \in {dir[v], EmptyDir}
    BY <1>5 DEF LoseDir, TypeOK
  <2> QED BY <1>l, <2>1, <2>2, PlanKept DEF work, backend
<1>6. CASE \E n \in Names : Drift(n) \/ Unlock(n)
  BY <1>6, <1>l, PlanKept DEF Drift, Unlock, work, disk
<1>7. CASE Crash
  BY <1>7, NotPlanned DEF Crash
<1>8. CASE UNCHANGED vars
  BY <1>8, <1>l, PlanKept DEF vars, work, disk, backend
<1> QED BY <1>1, <1>2, <1>3, <1>4, <1>5, <1>6, <1>7, <1>8 DEF Next, Reconcile

LEMMA PlanInvariance ==
    ConstantsOK /\ NamesOwned => (Spec => []PlanInv)
<1> SUFFICES ASSUME ConstantsOK, NamesOwned PROVE Spec => []PlanInv
  OBVIOUS
<1>1. Init => \A w \in Workspaces : PlanOK(w)
  BY DEF Init, PlanOK
<1>2. PlanInv /\ IInv' /\ DirInv' /\ [Next]_vars => PlanInv'
  BY PlanStep DEF PlanInv
<1> QED BY <1>1, <1>2, Invariance, DirInvariance, PTL DEF Spec, PlanInv

\* Ready tells the truth about the current spec, whatever files earlier specs
\* have left, whenever terraform init was skipped and whatever the checksum
\* covers: for objects with Terraform workspaces of their own.
THEOREM ReadyIsTrue ==
    ConstantsOK /\ NamesOwned => (Spec => ReadyMeansApplied)
<1> SUFFICES ASSUME ConstantsOK, NamesOwned PROVE Spec => ReadyMeansApplied
  OBVIOUS
<1> DEFINE A == \A w \in Workspaces \ torn :
                   ~ready[w] /\ ready'[w] => Applied(w, spec[w].module)
<1>1. PlanInv /\ [Next]_vars => [A]_vars
  <2> SUFFICES ASSUME PlanInv, Next, NEW v \in Workspaces \ torn, ~ready[v], ready'[v]
               PROVE  Applied(v, spec[v].module)
    BY DEF vars, object
  <2>t. TypeOK
    BY DEF PlanInv, IInv, SelInv
  <2>1. PICK w \in Workspaces : AddFinalizer(w) \/ Act(w) \/ UpdateOutputs(w)
    <3>1. ASSUME NEW w \in Workspaces,
                 User(w) \/ LoseDir(w) \/ Start(w) \/ Connect(w) \/ Observe(w)
                   \/ ReconcileDeleted(w)
          PROVE  FALSE
      BY <2>t, <3>1 DEF User, CreateObject, EditSpec, DeleteObject, ResolveCreate, LoseDir,
         Start, Connect, ConnectPrepare, ConnectChecksum, ConnectInit, ConnectWorkspace,
         Observe, CheckDiff, ListResources, LeaveWorkspace, DeleteWorkspace, ReadOutputs,
         ObserveChecksum, ReconcileDeleted, Vanish, SaveStatus, object, TypeOK
    <3>2. ASSUME NEW w \in Workspaces,
                 ApplyOne(w) \/ ApplyDone(w) \/ ApplyFails(w) \/ CreateOutputs(w)
                   \/ DestroyOne(w) \/ DestroyEnds(w)
          PROVE FALSE
      BY <2>t, <3>2 DEF ApplyOne, ApplyDone, ApplyFails, CreateOutputs, FinishCreate,
         SaveStatus, DestroyOne, DestroyEnds, object, TypeOK
    <3>3. (\E n \in Names : Drift(n) \/ Unlock(n)) \/ Crash => FALSE
      BY DEF Drift, Unlock, Crash, object
    <3> QED BY <3>1, <3>2, <3>3 DEF Next, Reconcile, Change
  <2>2. /\ w = v /\ fresh[v]
        /\ \/ pc[v] = "observed" /\ ~mg[v].deleted /\ ~obs[v].differs
           \/ pc[v] = "act" /\ ~obs[v].differs
           \/ pc[v] = "applyOutputs"
    BY <2>t, <2>1 DEF AddFinalizer, Act, UpdateOutputs, SaveStatus, object, TypeOK
  <2>3. Applied(v, mg[v].module) /\ mg[v].module = spec[v].module
    BY <2>2 DEF PlanInv, IInv, Local, PlanOK, HeldOK, CopyOK
  <2> QED BY <2>3
<1> QED BY <1>1, PlanInvariance, PTL DEF Spec, ReadyMeansApplied

\* A reconcile works on the object as it read it, until it returns.
LEMMA CopyKept ==
    ASSUME TypeOK, NEW w \in Workspaces,
           \/ Connect(w) \/ Observe(w) \/ ReconcileDeleted(w) \/ AddFinalizer(w)
           \/ Act(w) \/ Change(w)
    PROVE  \/ Return(w)
           \/ \A v \in Workspaces : /\ mg'[v].deleted = mg[v].deleted
                                    /\ mg'[v].module = mg[v].module
<1> SUFFICES ASSUME ~Return(w)
             PROVE  mg' = mg \/ \E c : mg' = [mg EXCEPT ![w].checksum = c]
  BY DEF TypeOK, Copies
<1>1. CASE Connect(w)
  BY <1>1 DEF Connect, ConnectPrepare, ConnectChecksum, ConnectInit, ConnectWorkspace
<1>2. CASE Observe(w)
  BY <1>2 DEF Observe, CheckDiff, ListResources, LeaveWorkspace, DeleteWorkspace,
     ReadOutputs, ObserveChecksum
<1>3. CASE ReconcileDeleted(w) \/ AddFinalizer(w) \/ Act(w)
  BY <1>3 DEF ReconcileDeleted, AddFinalizer, Act
<1>4. CASE Change(w)
  BY <1>4 DEF Change, ApplyOne, ApplyDone, ApplyFails, CreateOutputs, UpdateOutputs,
     DestroyOne, DestroyEnds, FinishCreate, work
<1> QED BY <1>1, <1>2, <1>3, <1>4

\* A reconcile that takes its object for deleted is right, and one that is
\* over has forgotten its object.
DeletedOK ==
    \A w \in Workspaces : /\ mg[w].deleted => phase[w] = "deleting"
                          /\ pc[w] = "destroy" => mg[w].deleted
                          /\ pc[w] = "idle" => mg[w].module = NoModule

\* The parts of a step that matter for it, of an object that is not started.
Kept(v) == /\ mg'[v].deleted => /\ mg[v].deleted
                                /\ phase[v] = "deleting" => phase'[v] = "deleting"
           /\ pc'[v] = "destroy" => mg'[v].deleted
           /\ pc'[v] = "idle" => mg'[v].module = NoModule

LEMMA ReturnKept ==
    ASSUME TypeOK, DeletedOK, NEW w \in Workspaces, Return(w),
           \A v \in Workspaces \ {w} : phase'[v] = phase[v]
    PROVE  \A v \in Workspaces : Kept(v)
BY DEF Return, Goto, NoMg, Kept, DeletedOK, TypeOK

LEMMA DeletedStep ==
    ASSUME ConstantsOK, TypeOK, DeletedOK, [Next]_vars
    PROVE  DeletedOK'
<1> USE DEF TypeOK
<1>k. ASSUME \A v \in Workspaces : Kept(v) PROVE DeletedOK'
  BY <1>k DEF Kept, DeletedOK
<1>1. ASSUME NEW w \in Workspaces, User(w) PROVE DeletedOK'
  BY <1>1, <1>k DEF User, CreateObject, EditSpec, DeleteObject, ResolveCreate, Vanish, work,
     Kept, DeletedOK
<1>2. ASSUME NEW w \in Workspaces, Start(w) PROVE DeletedOK'
  BY <1>2 DEF Start, Goto, object, DeletedOK
<1>3. ASSUME NEW w \in Workspaces, Connect(w) \/ Observe(w) \/ AddFinalizer(w) \/ Act(w)
      PROVE  DeletedOK'
  <2>1. UNCHANGED phase
    BY <1>3 DEF Connect, ConnectPrepare, ConnectChecksum, ConnectInit, ConnectWorkspace,
       Observe, CheckDiff, ListResources, LeaveWorkspace, DeleteWorkspace, ReadOutputs,
       ObserveChecksum, AddFinalizer, Act, object
  <2>2. CASE Return(w)
    BY <2>1, <2>2, <1>k, ReturnKept
  <2>3. CASE ~Return(w)
    <3>1. \A v \in Workspaces : mg'[v].deleted = mg[v].deleted /\ mg'[v].module = mg[v].module
      BY <1>3, <2>3, CopyKept
    <3>2. \E l \in PCs \ {"idle", "destroy"} : Goto(w, l)
      <4>1. CASE Connect(w)
        BY <2>3, <4>1 DEF Connect, ConnectPrepare, ConnectChecksum, ConnectInit,
           ConnectWorkspace, PCs, Commands, Selected
      <4>2. CASE Observe(w)
        BY <2>3, <4>2 DEF Observe, CheckDiff, ListResources, LeaveWorkspace,
           DeleteWorkspace, ReadOutputs, ObserveChecksum, AfterList, PCs, Commands, Selected
      <4>3. CASE AddFinalizer(w) \/ Act(w)
        BY <2>3, <4>3 DEF AddFinalizer, Act, PCs, Commands, Selected
      <4> QED BY <1>3, <4>1, <4>2, <4>3
    <3> QED BY <2>1, <3>1, <3>2, <1>k DEF Goto, Kept, DeletedOK
  <2> QED BY <2>2, <2>3
<1>4. ASSUME NEW w \in Workspaces, ReconcileDeleted(w) PROVE DeletedOK'
  <2>1. CASE Return(w)
    <3>1. \A v \in Workspaces \ {w} : phase'[v] = phase[v]
      BY <1>4, <2>1 DEF ReconcileDeleted, Vanish, object
    <3> QED BY <2>1, <3>1, <1>k, ReturnKept
  <2>2. CASE ~Return(w)
    <3>1. UNCHANGED <<phase, mg>> /\ Goto(w, "destroy") /\ mg[w].deleted
      BY <1>4, <2>2 DEF ReconcileDeleted, object
    <3> QED BY <3>1, <1>k DEF Goto, Kept, DeletedOK
  <2> QED BY <2>1, <2>2
<1>5. ASSUME NEW w \in Workspaces, Change(w) PROVE DeletedOK'
  <2>1. UNCHANGED phase
    BY <1>5 DEF Change, ApplyOne, ApplyDone, ApplyFails, CreateOutputs, UpdateOutputs,
       DestroyOne, DestroyEnds, object
  <2>2. \/ Return(w)
        \/ UNCHANGED mg /\ \A v \in Workspaces :
                              pc'[v] \in {"idle", "destroy"} => pc'[v] = pc[v]
    BY <1>5 DEF Change, ApplyOne, ApplyDone, ApplyFails, CreateOutputs, UpdateOutputs,
       DestroyOne, DestroyEnds, FinishCreate, work, Goto
  <2> QED BY <2>1, <2>2, <1>k, ReturnKept DEF Kept, DeletedOK
<1>6. ASSUME UNCHANGED <<phase, pc, mg>> PROVE DeletedOK'
  BY <1>6 DEF DeletedOK
<1>7. ASSUME NEW w \in Workspaces, LoseDir(w) PROVE DeletedOK'
  BY <1>6, <1>7 DEF LoseDir, object, work
<1>8. CASE \E n \in Names : Drift(n) \/ Unlock(n)
  BY <1>6, <1>8 DEF Drift, Unlock, object, work
<1>9. CASE Crash
  BY <1>9, <1>k DEF Crash, NoMg, Kept
<1>10. CASE UNCHANGED vars
  BY <1>6, <1>10 DEF vars, object, work
<1> QED BY <1>1, <1>2, <1>3, <1>4, <1>5, <1>7, <1>8, <1>9, <1>10 DEF Next, Reconcile

LEMMA DeletedInvariance == ConstantsOK => (Spec => []DeletedOK)
<1> SUFFICES ASSUME ConstantsOK PROVE Spec => []DeletedOK
  OBVIOUS
<1>1. Init => DeletedOK
  <2>1. ASSUME Init, NEW w \in Workspaces PROVE mg[w] = NoMg /\ pc[w] = "idle"
    BY <2>1 DEF Init
  <2>2. ~NoMg.deleted /\ NoMg.module = NoModule
    BY DEF NoMg
  <2> QED BY <2>1, <2>2 DEF DeletedOK
<1>2. TypeOK /\ DeletedOK /\ [Next]_vars => DeletedOK'
  BY DeletedStep
<1> QED BY <1>1, <1>2, TypeCorrect, PTL DEF Spec

\* What an object's spec asks for is not taken away from it, whatever earlier
\* reconciles left in its directory and whatever the checksum covers, unless it
\* is deleted: for objects with Terraform workspaces of their own.
THEOREM NothingWantedIsLost ==
    ConstantsOK /\ NamesOwned => (Spec => WantedKept)
<1> SUFFICES ASSUME ConstantsOK, NamesOwned PROVE Spec => WantedKept
  OBVIOUS
<1> DEFINE Wanted(w) ==
      (resources[NameOf[w]] \ resources'[NameOf[w]]) \cap Declared(mg[w].module) # {}
          => phase[w] = "deleting"
<1>1. ASSUME IInv, DirInv, DeletedOK, Next, NEW v \in Workspaces \ torn
      PROVE  Wanted(v)
  <2> SUFFICES ASSUME NEW r \in Declared(mg[v].module), r \in resources[NameOf[v]],
                      r \notin resources'[NameOf[v]]
               PROVE  phase[v] = "deleting"
    OBVIOUS
  <2>t. TypeOK /\ SelInv
    BY <1>1 DEF IInv, SelInv
  <2>1. PICK w \in Workspaces : ApplyOne(w) \/ DestroyOne(w)
    BY <1>1, ResourcesFrame
  <2>2. NameOf[v] = dir[w].selected
    BY <2>t, <2>1, ChangesSelected DEF ConstantsOK
  <2>3. w = v
    BY <2>t, <2>1, <2>2, InOwnWorkspace DEF NamesOwned, NoneDefault
  <2>4. CASE ApplyOne(v)
    <3>1. Usable(dir[v]) /\ pc[v] \in {"create", "apply"}
      BY <2>4 DEF ApplyOne, Succeeds
    <3>2. Declared(mg[v].module) \subseteq Declared(dir[v].files)
      BY <1>1, <3>1, OwnFiles, DeclaredGrows DEF Commands, Selected
    <3>3. r \in resources'[NameOf[v]]
      <4>1. PICK x : \/ resources' = [resources EXCEPT ![NameOf[v]] = @ \cup {x}]
                     \/ /\ x \notin Declared(dir[v].files)
                        /\ resources' = [resources EXCEPT ![NameOf[v]] = @ \ {x}]
        BY <2>2, <2>3, <2>4 DEF ApplyOne
      <4> QED BY <2>t, <3>2, <4>1 DEF TypeOK, ConstantsOK
    <3> QED BY <3>3
  <2>5. CASE DestroyOne(v)
    BY <1>1, <2>5 DEF DestroyOne, DeletedOK
  <2> QED BY <2>1, <2>3, <2>4, <2>5
<1>2. IInv /\ DirInv /\ DeletedOK /\ [Next]_vars => [\A w \in Workspaces \ torn : Wanted(w)]_vars
  BY <1>1
<1> QED BY <1>2, Invariance, DirInvariance, DeletedInvariance, PTL DEF Spec, WantedKept

=============================================================================
