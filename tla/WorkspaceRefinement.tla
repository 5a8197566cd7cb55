------------------------ MODULE WorkspaceRefinement ------------------------
(* Workspace.tla implements WorkspaceContract.tla, step by step.           *)
EXTENDS WorkspaceProofs

\* The abstract variables that are not variables of Workspace.tla.
Want    == [w \in Workspaces |-> spec[w].module]
Plan    == [w \in Workspaces |-> mg[w].module]
Desired == [w \in Workspaces |-> Declared(dir[w].files)]
Infra   == [w \in Workspaces |-> resources[NameOf[w]]]

AbstractUnchanged ==
    UNCHANGED <<phase, Want, Plan, Desired, finalizer, Infra, ready, torn>>

\* A reconcile that returns forgets its plan.
LEMMA ReturnForgets ==
    ASSUME TypeOK, NEW w \in Workspaces, Return(w)
    PROVE  Contract!Forget({w})
BY DEF Return, NoMg, Contract!Forget, TypeOK

\* Returning, with nothing else that the contract sees, is a Stop.
LEMMA ReturnMaps ==
    ASSUME TypeOK, NEW w \in Workspaces, Return(w), Desired' = Desired,
           UNCHANGED <<phase, spec, finalizer, resources, ready, torn>>
    PROVE  Contract!Next
<1>1. Contract!Stop({w})
  BY ReturnForgets DEF Contract!Stop, Desired
<1> QED BY <1>1 DEF Contract!Next

LEMMA UserMaps ==
    ASSUME ConstantsOK, PlanInv, DeletedOK, NEW w \in Workspaces, User(w)
    PROVE  Contract!Next \/ AbstractUnchanged
<1> USE DEF PlanInv, IInv, SelInv
<1>1. /\ UNCHANGED <<finalizer, resources, mg, torn>>
      /\ Infra' = Infra /\ Plan' = Plan
  BY DEF User, CreateObject, EditSpec, DeleteObject, ResolveCreate, backend, work, disk,
     Infra, Plan
<1>2. w \notin torn /\ ~finalizer[w] => resources[NameOf[w]] = {}
  BY DEF Local, AtRest
<1>d. CreateObject(w) \/ Desired' = Desired
  BY DEF User, CreateObject, EditSpec, DeleteObject, ResolveCreate, disk, Desired
<1>3. CASE CreateObject(w)
  <2>1. PICK s \in Specs : spec' = [spec EXCEPT ![w] = s]
    BY <1>3 DEF CreateObject
  <2>2. Want' = [Want EXCEPT ![w] = s.module] /\ s.module \in Modules
    BY <2>1 DEF Want, Specs, TypeOK
  <2>3. Desired' = [Desired EXCEPT ![w] = {}]
    <3>1. dir' = [dir EXCEPT ![w] = EmptyDir] /\ Declared(EmptyDir.files) = {}
      BY <1>3 DEF CreateObject, EmptyDir, Declared
    <3> QED BY <3>1 DEF Desired, TypeOK
  <2>4. mg[w].module = NoModule /\ ~finalizer[w] /\ ~ready[w]
    BY <1>3 DEF CreateObject, DeletedOK, Local, AtRest
  <2>5. Contract!Create(w)
    BY <1>1, <1>2, <1>3, <2>2, <2>3, <2>4
       DEF CreateObject, Contract!Create, Want, Plan, Desired, Infra
  <2> QED BY <2>5 DEF Contract!Next
<1>4. CASE EditSpec(w)
  <2>1. PICK s \in Specs : spec' = [spec EXCEPT ![w] = s]
    BY <1>4 DEF EditSpec
  <2>2. Want' = [Want EXCEPT ![w] = s.module] /\ s.module \in Modules
    BY <2>1 DEF Want, Specs, TypeOK
  <2>3. Contract!Edit(w)
    BY <1>1, <1>d, <1>4, <2>2
       DEF EditSpec, CreateObject, Contract!Edit, Want, Plan, Desired, Infra
  <2> QED BY <2>3 DEF Contract!Next
<1>5. CASE DeleteObject(w)
  <2>1. CASE finalizer[w]
    <3>1. Contract!Delete(w)
      BY <1>1, <1>d, <1>5, <2>1
         DEF DeleteObject, CreateObject, Contract!Delete, Want, Plan, Desired, Infra
    <3> QED BY <3>1 DEF Contract!Next
  <2>2. CASE ~finalizer[w]
    <3>1. /\ spec' = [spec EXCEPT ![w] = NoSpec]
          /\ phase' = [phase EXCEPT ![w] = "absent"]
          /\ ready' = [ready EXCEPT ![w] = FALSE]
          /\ phase[w] = "live"
      BY <1>5, <2>2 DEF DeleteObject, Vanish
    <3>2. Want' = [Want EXCEPT ![w] = NoModule]
      BY <3>1 DEF Want, NoSpec, TypeOK
    <3>3. finalizer' = [finalizer EXCEPT ![w] = FALSE]
      BY <1>1, <2>2 DEF TypeOK
    <3>4. w \notin torn => Infra[w] = {}
      BY <1>2, <2>2 DEF Infra
    <3>5. Contract!Delete(w)
      BY <1>1, <1>d, <2>2, <3>1, <3>2, <3>3, <3>4
         DEF CreateObject, Contract!Delete, Contract!Vanish, Want, Plan, Desired, Infra
    <3> QED BY <3>5 DEF Contract!Next
  <2> QED BY <2>1, <2>2
<1>6. CASE ResolveCreate(w)
  BY <1>1, <1>d, <1>6 DEF ResolveCreate, CreateObject, AbstractUnchanged, Want, Plan
<1> QED BY <1>3, <1>4, <1>5, <1>6 DEF User

\* Saving the status is silent, or doubts or announces readiness.
LEMMA SaveMaps ==
    ASSUME ConstantsOK, PlanInv, NEW w \in Workspaces, Return(w),
           NEW c, NEW r \in BOOLEAN, SaveStatus(w, c, r),
           Desired' = Desired, UNCHANGED <<phase, spec, finalizer, resources, torn>>,
           r /\ fresh[w] /\ ~ready[w] => /\ phase[w] = "live"
                                         /\ mg[w].module = spec[w].module
                                         /\ w \notin torn => Applied(w, mg[w].module)
    PROVE  Contract!Next
<1> USE DEF PlanInv, IInv, SelInv
<1>1. Want' = Want /\ Infra' = Infra
  BY DEF Want, Infra
<1>2. CASE ready' = ready
  BY <1>2, ReturnMaps
<1>3. CASE ready' # ready /\ r
  <2>1. /\ ready' = [ready EXCEPT ![w] = TRUE] /\ fresh[w] /\ ~ready[w]
    <3>1. fresh[w] /\ ready' = [ready EXCEPT ![w] = r] /\ r = TRUE
      BY <1>3 DEF SaveStatus
    <3>2. CASE ready[w]
      <4>1. ready' = ready
        BY <3>1, <3>2 DEF TypeOK
      <4> QED BY <4>1, <1>3
    <3> QED BY <3>1, <3>2
  <2>2. Plan[w] = Want[w] /\ Want[w] \in Modules /\ phase[w] = "live"
    BY <2>1, <1>3 DEF Want, Plan, DirInv, DirLocal, ReadOK, Specs
  <2>3. w \notin torn => Declared(Want[w]) \subseteq Infra[w]
    BY <2>1, <1>3 DEF Applied, Want, Plan, Infra
  <2>4. Contract!Announce(w)
    BY <1>1, <2>1, <2>2, <2>3, ReturnForgets
       DEF Contract!Announce, Want, Plan, Desired, Infra
  <2> QED BY <2>4 DEF Contract!Next
<1>4. CASE ready' # ready /\ ~r
  <2>1. ready' = [ready EXCEPT ![w] = FALSE]
    BY <1>4 DEF SaveStatus
  <2>2. Contract!Doubt(w)
    BY <1>1, <2>1, ReturnForgets DEF Contract!Doubt, Want, Desired, Infra
  <2> QED BY <2>2 DEF Contract!Next
<1> QED BY <1>2, <1>3, <1>4

\* A reconcile that goes on keeps its plan.
LEMMA GoOnMaps ==
    ASSUME TypeOK, NEW w \in Workspaces, ~Return(w),
           \/ Connect(w) \/ Observe(w) \/ ReconcileDeleted(w) \/ AddFinalizer(w)
           \/ Act(w) \/ Change(w)
    PROVE  UNCHANGED Plan
BY CopyKept DEF Plan

\* Only Connect's file operations change what files declare.
LEMMA FilesKept ==
    ASSUME ConstantsOK, TypeOK, NEW w \in Workspaces, Reconcile(w), ~ConnectPrepare(w)
    PROVE  UNCHANGED Desired
<1> SUFFICES dir'[w].files = dir[w].files
  BY OthersAlone DEF Alone, Desired
<1>d. dir \in [Workspaces -> Dirs] /\ dir[w] \in Dirs
  BY DEF TypeOK
<1>1. CASE ConnectInit(w)
  <2> DEFINE n == Needs(dir[w].files)
  <2>1. ASSUME dir' = [dir EXCEPT ![w].init = n, ![w].args = mg[w].args,
                                  ![w].providers = @ \cup n]
        PROVE  dir'[w].files = dir[w].files
    <3>1. dir'[w] = [dir[w] EXCEPT !.init = n, !.args = mg[w].args,
                                   !.providers = dir[w].providers \cup n]
      BY <1>d, <2>1
    <3> HIDE DEF n
    <3> QED BY <1>d, <3>1 DEF Dirs
  <2>2. ASSUME NEW some, NEW d \in {dir[w], Uninitialised(dir[w])},
               dir' = [dir EXCEPT ![w] = [d EXCEPT !.providers = @ \cup some]]
        PROVE  dir'[w].files = dir[w].files
    <3>1. d \in Dirs /\ d.files = dir[w].files
      BY <1>d, UninitialisedType DEF Uninitialised, Dirs
    <3>2. dir'[w] = [d EXCEPT !.providers = d.providers \cup some]
      BY <1>d, <2>2
    <3> QED BY <3>1, <3>2 DEF Dirs
  <2>3. dir' = dir \/ dir'[w].files = dir[w].files
    BY <1>1, <2>1, <2>2 DEF ConnectInit
  <2> QED BY <2>3
<1>2. CASE ConnectWorkspace(w) \/ LeaveWorkspace(w)
  <2>1. dir' = dir \/ \E n \in {dir[w].selected, NameOf[w], Default} :
                          dir'[w] = [dir[w] EXCEPT !.selected = n]
    BY <1>2, <1>d DEF ConnectWorkspace, LeaveWorkspace
  <2> QED BY <1>d, <2>1 DEF Dirs
<1>3. CASE \/ Start(w) \/ ConnectChecksum(w) \/ CheckDiff(w) \/ ListResources(w)
           \/ DeleteWorkspace(w) \/ ReadOutputs(w) \/ ObserveChecksum(w)
  BY <1>3 DEF Start, ConnectChecksum, CheckDiff, ListResources, DeleteWorkspace,
     ReadOutputs, ObserveChecksum, disk
<1>4. CASE ReconcileDeleted(w) \/ AddFinalizer(w) \/ Act(w) \/ Change(w)
  BY <1>4 DEF ReconcileDeleted, AddFinalizer, Act, Change, ApplyOne, ApplyDone, ApplyFails,
     CreateOutputs, UpdateOutputs, DestroyOne, DestroyEnds, disk
<1> QED BY <1>1, <1>2, <1>3, <1>4 DEF Reconcile, Connect, Observe

LEMMA DecideMaps ==
    ASSUME ConstantsOK, PlanInv, NEW w \in Workspaces,
           ReconcileDeleted(w) \/ AddFinalizer(w) \/ Act(w)
    PROVE  Contract!Next \/ AbstractUnchanged
<1> USE DEF PlanInv, IInv, SelInv
<1>1. UNCHANGED <<resources, torn>> /\ Infra' = Infra /\ Desired' = Desired
  BY DEF ReconcileDeleted, AddFinalizer, Act, backend, disk, Infra, Desired
<1>2. fresh[w] /\ pc[w] # "idle" /\ ~mg[w].deleted =>
          phase[w] = "live" /\ mg[w].module = spec[w].module
  BY DEF Local, CopyOK, TypeOK, Phases
<1>3. CASE ReconcileDeleted(w)
  <2>1. CASE ~Return(w)
    <3>1. UNCHANGED object
      BY <1>3, <2>1 DEF ReconcileDeleted
    <3> QED BY <1>1, <1>3, <2>1, <3>1, GoOnMaps DEF object, AbstractUnchanged, Want
  <2>2. CASE /\ SaveStatus(w, mg[w].checksum, FALSE) /\ Return(w)
             /\ UNCHANGED <<phase, spec, finalizer>>
    BY <1>1, <2>2, SaveMaps
  <2>3. CASE /\ Vanish(w) /\ finalizer' = [finalizer EXCEPT ![w] = FALSE] /\ fresh[w]
             /\ ~ResourceExists(w) /\ Return(w)
    <3>1. phase[w] = "deleting" /\ (w \notin torn => resources[NameOf[w]] = {})
      BY <1>3, <2>3 DEF ReconcileDeleted, Local, CopyOK, GoneOK, FoundGone, ResourceExists
    <3>2. Want' = [Want EXCEPT ![w] = NoModule]
      BY <2>3 DEF Vanish, Want, NoSpec, TypeOK
    <3>3. Contract!Release(w)
      BY <1>1, <2>3, <3>1, <3>2, ReturnForgets
         DEF Contract!Release, Contract!Vanish, Vanish, Want, Desired, Infra
    <3> QED BY <3>3 DEF Contract!Next
  <2>4. Goto(w, "destroy") => ~Return(w)
    BY DEF Goto, Return, TypeOK
  <2> QED BY <1>3, <2>1, <2>2, <2>3, <2>4 DEF ReconcileDeleted
<1>4. CASE AddFinalizer(w)
  <2>1. pc[w] = "observed" /\ ~mg[w].deleted
    BY <1>4 DEF AddFinalizer
  <2>2. CASE UNCHANGED object /\ ~Return(w)
    BY <1>1, <1>4, <2>2, GoOnMaps DEF object, AbstractUnchanged, Want
  <2>3. CASE /\ SaveStatus(w, mg[w].checksum, ready[w] \/ ~obs[w].differs)
             /\ Return(w)
             /\ UNCHANGED <<phase, spec, finalizer>>
    <3>1. ~obs[w].differs /\ w \notin torn => Applied(w, mg[w].module)
      BY <2>1 DEF Local, PlanOK
    <3>2. (ready[w] \/ ~obs[w].differs) \in BOOLEAN
      BY DEF TypeOK
    <3> QED BY <1>1, <1>2, <2>1, <2>3, <3>1, <3>2, SaveMaps
  <2>4. CASE /\ finalizer' = [finalizer EXCEPT ![w] = TRUE] /\ fresh[w]
             /\ ~Return(w)
             /\ UNCHANGED <<phase, spec, ready>>
    <3>1. Contract!Hold(w)
      BY <1>1, <1>2, <1>4, <2>1, <2>4, GoOnMaps DEF Contract!Hold, Want, Plan, Desired, Infra
    <3> QED BY <3>1 DEF Contract!Next
  <2>5. Goto(w, "act") => ~Return(w)
    BY DEF Goto, Return, TypeOK
  <2> QED BY <1>4, <2>2, <2>3, <2>4, <2>5 DEF AddFinalizer
<1>5. CASE Act(w)
  <2>1. UNCHANGED <<phase, spec, finalizer>> /\ pc[w] = "act" /\ ~mg[w].deleted
    BY <1>5 DEF Act, Local, HeldOK
  <2>2. CASE UNCHANGED ready /\ ~Return(w)
    BY <1>1, <1>5, <2>1, <2>2, GoOnMaps DEF AbstractUnchanged, Want
  <2>3. CASE SaveStatus(w, mg[w].checksum, FALSE) /\ Return(w)
    BY <1>1, <2>1, <2>3, SaveMaps
  <2>4. CASE SaveStatus(w, mg[w].checksum, TRUE) /\ ~obs[w].differs /\ Return(w)
    <3>1. w \notin torn => Applied(w, mg[w].module)
      BY <2>1, <2>4 DEF Local, PlanOK
    <3> QED BY <1>1, <1>2, <2>1, <2>4, <3>1, SaveMaps
  <2>5. Goto(w, "create") \/ Goto(w, "apply") => ~Return(w)
    BY DEF Goto, Return, TypeOK
  <2> QED BY <1>5, <2>2, <2>3, <2>4, <2>5 DEF Act
<1> QED BY <1>3, <1>4, <1>5

\* Resources of one object are those of one Terraform workspace.
LEMMA InfraUpdate ==
    ASSUME ConstantsOK, NamesOwned, TypeOK, NEW w \in Workspaces, NEW x,
           resources' = [resources EXCEPT ![NameOf[w]] = x]
    PROVE  Infra' = [Infra EXCEPT ![w] = x]
<1>1. \A v \in Workspaces : resources'[NameOf[v]] = IF v = w THEN x ELSE resources[NameOf[v]]
  BY DEF NamesOwned, ConstantsOK, TypeOK
<1>2. Infra' = [v \in Workspaces |-> IF v = w THEN x ELSE resources[NameOf[v]]]
  BY <1>1 DEF Infra
<1> QED BY <1>2 DEF Infra

\* One resource is made or removed.
LEMMA ResourceMaps ==
    ASSUME ConstantsOK, NamesOwned, PlanInv, DeletedOK, NEW w \in Workspaces,
           ApplyOne(w) \/ DestroyOne(w)
    PROVE  Contract!Next \/ AbstractUnchanged
<1> DEFINE have == resources[dir[w].selected]
           want == Declared(dir[w].files)
<1>t. TypeOK /\ SelInv /\ DirInv /\ Local(w)
  BY DEF PlanInv, IInv, SelInv
<1>u. /\ Usable(dir[w]) /\ pc[w] \in {"create", "apply", "destroy"}
      /\ UNCHANGED <<object, work, disk>>
  BY DEF ApplyOne, DestroyOne, Succeeds
<1>s. UNCHANGED <<phase, finalizer, ready, torn>> /\ Want' = Want /\ Plan' = Plan
      /\ Desired' = Desired
  BY <1>u DEF object, work, disk, Want, Plan, Desired
<1>1. PICK r : /\ r \in Resources
               /\ \/ /\ r \in want /\ pc[w] # "destroy"
                     /\ resources' = [resources EXCEPT ![dir[w].selected] = have \cup {r}]
                  \/ /\ r \in want => pc[w] = "destroy"
                     /\ r \in have
                     /\ resources' = [resources EXCEPT ![dir[w].selected] = have \ {r}]
  <2>1. dir[w] \in Dirs
    BY <1>t DEF TypeOK
  <2>2. want \subseteq Resources /\ have \subseteq Resources
    BY <1>t, <2>1, FilesType DEF Dirs, TypeOK
  <2> QED BY <2>2 DEF ApplyOne, DestroyOne
<1>2. CASE dir[w].selected # NameOf[w]
  <2>1. dir[w].selected = Default
    BY <1>t, <1>2, InOwnWorkspace
  <2>2. Infra' = Infra
    BY <1>t, <1>1, <2>1 DEF Infra, NamesOwned, NoneDefault, ConstantsOK, TypeOK
  <2> QED BY <1>s, <2>2 DEF AbstractUnchanged
<1>3. CASE dir[w].selected = NameOf[w] /\ w \in torn
  <2>1. PICK x \in SUBSET Resources : resources' = [resources EXCEPT ![NameOf[w]] = x]
    <3>1. have \in SUBSET Resources
      BY <1>t, <1>3 DEF TypeOK, ConstantsOK
    <3>2. have \cup {r} \in SUBSET Resources /\ have \ {r} \in SUBSET Resources
      BY <1>1, <3>1
    <3>3. PICK x \in {have \cup {r}, have \ {r}} :
             resources' = [resources EXCEPT ![dir[w].selected] = x]
      BY <1>1
    <3> QED BY <1>3, <3>2, <3>3
  <2>2. Infra' = [Infra EXCEPT ![w] = x]
    BY <1>t, <2>1, InfraUpdate
  <2>3. Contract!Damage(w)
    BY <1>s, <1>3, <2>1, <2>2 DEF Contract!Damage, Want, Plan, Desired, Infra
  <2> QED BY <2>3 DEF Contract!Next
<1>4. CASE dir[w].selected = NameOf[w] /\ w \notin torn
  <2>1. Infra[w] = have /\ Desired[w] = want
    BY <1>4 DEF Infra, Desired
  <2>2. \/ r \in Desired[w] /\ Infra' = [Infra EXCEPT ![w] = Infra[w] \cup {r}]
        \/ /\ r \in Desired[w] => pc[w] = "destroy"
           /\ Infra' = [Infra EXCEPT ![w] = Infra[w] \ {r}]
    BY <1>t, <1>1, <1>4, <2>1, InfraUpdate
  <2>3. finalizer[w]
    <3>1. pc[w] # "destroy" => finalizer[w]
      BY <1>t, <1>u DEF Local, HeldOK
    <3>2. pc[w] = "destroy" => have # {}
      BY <1>1
    <3> QED BY <1>t, <1>4, <3>1, <3>2 DEF Local, AtRest
  <2>4. Plan[w] \in Modules /\ Declared(Plan[w]) \subseteq Desired[w]
    <3>1. mg[w].module \in Modules
      BY <1>t, <1>u DEF DirInv, DirLocal, ReadOK
    <3>2. mg[w].module \subseteq dir[w].files
      BY <1>t, <1>u, <1>4, OwnFiles DEF Commands, Selected
    <3> QED BY <3>1, <3>2, DeclaredGrows DEF Plan, Desired
  <2>5. pc[w] = "destroy" => phase[w] = "deleting"
    BY DEF DeletedOK
  <2>6. \/ r \in Desired[w] /\ Infra' = [Infra EXCEPT ![w] = Infra[w] \cup {r}]
        \/ /\ r \in Desired[w] \cup Declared(Plan[w]) => phase[w] = "deleting"
           /\ Infra' = [Infra EXCEPT ![w] = Infra[w] \ {r}]
    BY <2>2, <2>4, <2>5
  <2>7. Contract!Change(w)
    BY <1>s, <1>1, <1>4, <2>3, <2>4, <2>6 DEF Contract!Change, Want, Plan, Desired, Infra
  <2> QED BY <2>7 DEF Contract!Next
<1> QED BY <1>2, <1>3, <1>4

LEMMA ChangeMaps ==
    ASSUME ConstantsOK, NamesOwned, PlanInv, DeletedOK, NEW w \in Workspaces, Change(w)
    PROVE  Contract!Next \/ AbstractUnchanged
<1> USE DEF PlanInv, IInv, SelInv
<1>1. CASE ApplyOne(w) \/ DestroyOne(w)
  BY <1>1, ResourceMaps
<1>2. CASE ApplyDone(w)
  BY <1>2 DEF ApplyDone, AbstractUnchanged, Want, Plan, Desired, Infra, object, disk
<1>3. CASE ApplyFails(w) \/ CreateOutputs(w) \/ UpdateOutputs(w) \/ DestroyEnds(w)
  <2>1. /\ UNCHANGED <<phase, spec, finalizer, resources, torn>> /\ Return(w)
        /\ Desired' = Desired /\ Want' = Want /\ Infra' = Infra
    BY <1>3 DEF ApplyFails, CreateOutputs, UpdateOutputs, DestroyEnds, FinishCreate, backend,
       disk, Desired, Want, Infra
  <2>2. CASE ready' = [ready EXCEPT ![w] = FALSE]
    <3>1. Contract!Doubt(w)
      BY <2>1, <2>2, ReturnForgets DEF Contract!Doubt, Want, Desired, Infra
    <3> QED BY <3>1 DEF Contract!Next
  <2>3. CASE SaveStatus(w, mg[w].checksum, ready[w])
    BY <2>1, <2>3, SaveMaps DEF TypeOK
  <2>4. CASE SaveStatus(w, NoChecksum, TRUE) /\ pc[w] = "applyOutputs"
    <3>1. /\ w \notin torn => Applied(w, mg[w].module)
          /\ fresh[w] => phase[w] = "live" /\ mg[w].module = spec[w].module
      BY <2>4 DEF Local, PlanOK, CopyOK, HeldOK, TypeOK, Phases
    <3> QED BY <2>1, <2>4, <3>1, SaveMaps
  <2>5. CASE SaveStatus(w, mg[w].checksum, FALSE)
    BY <2>1, <2>5, SaveMaps
  <2> QED BY <1>3, <2>2, <2>3, <2>4, <2>5 DEF ApplyFails, CreateOutputs, UpdateOutputs,
        DestroyEnds, FinishCreate
<1> QED BY <1>1, <1>2, <1>3 DEF Change

LEMMA StartMaps ==
    ASSUME TypeOK, NEW w \in Workspaces, Start(w)
    PROVE  Contract!Next
<1>1. Plan' = [Plan EXCEPT ![w] = Want[w]]
  BY DEF Start, Plan, Want, TypeOK
<1>2. UNCHANGED <<phase, Want, Desired, finalizer, Infra, ready, torn>> /\ phase[w] # "absent"
  BY DEF Start, object, backend, disk, Want, Desired, Infra
<1>3. Contract!Read(w)
  BY <1>1, <1>2 DEF Contract!Read, Want, Plan, Desired, Infra
<1> QED BY <1>3 DEF Contract!Next

\* Connect's file operations write the module and remove at most other files.
LEMMA PreparedKeeps ==
    ASSUME NEW w \in Workspaces, NEW m, NEW d \in Prepared(w, m)
    PROVE  \E e \in {dir[w], EmptyDir}, F \in SUBSET dir[w].files :
              d = [e EXCEPT !.files = Written(F, m)]
<1>1. CASE d = [dir[w] EXCEPT !.files = Written(@, m)]
  BY <1>1
<1>2. CASE d # [dir[w] EXCEPT !.files = Written(@, m)]
  BY <1>2 DEF Prepared
<1> QED BY <1>1, <1>2

LEMMA PreparedFiles ==
    ASSUME ConstantsOK, NEW w \in Workspaces, dir[w] \in Dirs, NEW m, NEW d \in Prepared(w, m)
    PROVE  m \subseteq d.files /\ d.files \subseteq dir[w].files \cup m
<1>1. PICK e \in {dir[w], EmptyDir}, F \in SUBSET dir[w].files :
           d = [e EXCEPT !.files = Written(F, m)]
  BY PreparedKeeps
<1>2. e \in Dirs
  BY EmptyDirType
<1>3. d.files = Written(F, m)
  BY <1>1, <1>2 DEF Dirs
<1> QED BY <1>1, <1>3 DEF Written

LEMMA PrepareMaps ==
    ASSUME ConstantsOK, PlanInv, NEW w \in Workspaces, ConnectPrepare(w)
    PROVE  Contract!Next
<1>t. TypeOK /\ dir \in [Workspaces -> Dirs] /\ mg[w].module \in Modules
  BY DEF PlanInv, DirInv, DirLocal, ReadOK, TypeOK, ConnectPrepare
<1>0. PICK m \in SUBSET mg[w].module :
           /\ \E d \in Prepared(w, m) : dir' = [dir EXCEPT ![w] = d]
           /\ (m = mg[w].module /\ UNCHANGED mg) \/ Return(w)
  BY DEF ConnectPrepare
<1>1. PICK d \in Prepared(w, m) : dir' = [dir EXCEPT ![w] = d]
  BY <1>0
<1>2. d.files \subseteq dir[w].files \cup mg[w].module /\ m \subseteq d.files
  BY <1>t, <1>1, PreparedFiles
<1>3. Desired' = [Desired EXCEPT ![w] = Declared(d.files)]
  BY <1>t, <1>1 DEF Desired
<1>4. Declared(d.files) \in SUBSET (Desired[w] \cup Declared(Plan[w]))
  BY <1>2 DEF Declared, Desired, Plan
<1>5. \/ Declared(Plan[w]) \subseteq Declared(d.files) /\ UNCHANGED Plan
      \/ Contract!Forget({w})
  <2>1. CASE Return(w)
    BY <1>t, <2>1, ReturnForgets
  <2>2. CASE m = mg[w].module /\ UNCHANGED mg
    BY <1>2, <2>2, DeclaredGrows DEF Plan
  <2> QED BY <1>0, <2>1, <2>2
<1>6. UNCHANGED <<phase, Want, finalizer, Infra, ready, torn>>
  BY DEF ConnectPrepare, object, backend, Want, Infra
<1>7. Contract!Prepare(w)
  BY <1>t, <1>3, <1>4, <1>5, <1>6 DEF Contract!Prepare, Want, Plan, Desired, Infra
<1> QED BY <1>7 DEF Contract!Next

\* The rest of Connect, and Observe: at most the status changes.
LEMMA ObserveMaps ==
    ASSUME ConstantsOK, PlanInv, NEW w \in Workspaces, Connect(w) \/ Observe(w),
           ~ConnectPrepare(w)
    PROVE  Contract!Next \/ AbstractUnchanged
<1>t. TypeOK
  BY DEF PlanInv, DirInv
<1>1. UNCHANGED <<phase, spec, finalizer, resources, torn>>
  <2>1. UNCHANGED <<phase, spec, finalizer, resources>>
    BY DEF Connect, ConnectPrepare, ConnectChecksum, ConnectInit, ConnectWorkspace,
       Observe, CheckDiff, ListResources, LeaveWorkspace, DeleteWorkspace, ReadOutputs,
       ObserveChecksum, object, backend
  <2> QED BY <2>1, TornBy DEF Reconcile
<1>2. Desired' = Desired
  BY <1>t, FilesKept DEF Reconcile
<1>3. UNCHANGED ready \/ (Return(w) /\ SaveStatus(w, NoChecksum, ready[w]))
  <2>1. ObserveChecksum(w) \/ UNCHANGED object
    BY DEF Connect, ConnectPrepare, ConnectChecksum, ConnectInit, ConnectWorkspace,
       Observe, CheckDiff, ListResources, LeaveWorkspace, DeleteWorkspace, ReadOutputs
  <2> QED BY <2>1 DEF ObserveChecksum, object
<1>4. CASE Return(w) /\ UNCHANGED ready
  BY <1>t, <1>1, <1>2, <1>4, ReturnMaps
<1>5. CASE Return(w) /\ SaveStatus(w, NoChecksum, ready[w])
  <2>1. ready[w] \in BOOLEAN
    BY <1>t DEF TypeOK
  <2> QED BY <1>1, <1>2, <1>5, <2>1, SaveMaps
<1>6. CASE ~Return(w)
  <2>1. UNCHANGED ready /\ Plan' = Plan
    BY <1>t, <1>3, <1>6, GoOnMaps
  <2> QED BY <1>1, <1>2, <2>1 DEF AbstractUnchanged, Want, Infra
<1> QED BY <1>3, <1>4, <1>5, <1>6

\* A directory is lost, whole or in part.
LEMMA LoseMaps ==
    ASSUME ConstantsOK, TypeOK, NEW w \in Workspaces, LoseDir(w)
    PROVE  Contract!Next
<1>1. PICK d \in Dirs : dir' = [dir EXCEPT ![w] = d] /\ d.files \subseteq dir[w].files
  <2>1. dir[w] \in Dirs /\ EmptyDir \in Dirs /\ EmptyDir.files = {}
    BY EmptyDirType DEF TypeOK, EmptyDir
  <2>2. ASSUME NEW d \in Remains(dir[w])
        PROVE  d \in Dirs /\ d.files \subseteq dir[w].files
    <3>1. d \in Dirs
      BY <2>1, RemainsType
    <3> QED BY <3>1 DEF Remains
  <2> QED BY <2>1, <2>2 DEF LoseDir
<1>2. Desired' = [Desired EXCEPT ![w] = Declared(d.files)]
  BY <1>1 DEF Desired, TypeOK
<1>3. Declared(d.files) \in SUBSET Desired[w]
  BY <1>1, DeclaredGrows DEF Desired
<1>4. torn' \in {torn, torn \cup {w}}
  BY DEF LoseDir
<1>5. UNCHANGED <<phase, Want, Plan, finalizer, Infra, ready>>
  BY DEF LoseDir, object, work, backend, Want, Plan, Infra
<1>6. Contract!Lose(w)
  BY <1>2, <1>3, <1>4, <1>5 DEF Contract!Lose, Want, Plan, Desired, Infra
<1> QED BY <1>6 DEF Contract!Next

LEMMA CrashMaps == Crash => Contract!Next
<1> SUFFICES ASSUME Crash PROVE Contract!Next
  OBVIOUS
<1>1. Contract!Forget(Workspaces)
  BY DEF Crash, NoMg, Contract!Forget
<1>2. Desired' \in {Desired, [w \in Workspaces |-> {}]}
  <2>1. Declared(EmptyDir.files) = {}
    BY DEF Declared, EmptyDir
  <2>2. CASE dir' = dir
    BY <2>2 DEF Desired
  <2>3. CASE dir' = [w \in Workspaces |-> EmptyDir]
    BY <2>1, <2>3 DEF Desired
  <2> QED BY <2>2, <2>3 DEF Crash
<1>3. UNCHANGED <<phase, Want, finalizer, Infra, ready, torn>>
  BY DEF Crash, object, Want, Infra
<1>4. Contract!Stop(Workspaces)
  BY <1>1, <1>2, <1>3 DEF Contract!Stop, Want, Desired, Infra
<1> QED BY <1>4 DEF Contract!Next

\* Every behaviour of the reconcile loop is one the contract allows, whatever
\* files earlier specs left in the directories and whatever the checksum covers:
\* for objects with Terraform workspaces of their own.
THEOREM WorkspaceImplementsContract ==
    ConstantsOK /\ NamesOwned => (Spec => ImplementsContract)
<1> SUFFICES ASSUME ConstantsOK, NamesOwned PROVE Spec => ImplementsContract
  OBVIOUS
<1>1. Init => Contract!Init
  BY DEF Init, Contract!Init, NoSpec, NoMg, EmptyDir, Declared, ConstantsOK
<1>2. PlanInv /\ DeletedOK /\ [Next]_vars => [Contract!Next]_(Contract!cvars)
  <2> SUFFICES ASSUME PlanInv, DeletedOK, [Next]_vars PROVE Contract!Next \/ AbstractUnchanged
    BY DEF AbstractUnchanged, Contract!cvars, Want, Plan, Desired, Infra
  <2>t. TypeOK
    BY DEF PlanInv, DirInv
  <2>1. ASSUME NEW w \in Workspaces, LoseDir(w) PROVE Contract!Next
    BY <2>t, <2>1, LoseMaps
  <2>2. ASSUME NEW w \in Workspaces, Start(w) PROVE Contract!Next
    BY <2>t, <2>2, StartMaps
  <2>3. ASSUME NEW w \in Workspaces, Connect(w) \/ Observe(w)
        PROVE  Contract!Next \/ AbstractUnchanged
    BY <2>3, PrepareMaps, ObserveMaps
  <2>4. (\E n \in Names : Drift(n) \/ Unlock(n)) \/ UNCHANGED vars => AbstractUnchanged
    BY DEF Drift, Unlock, vars, AbstractUnchanged, Want, Plan, Desired, Infra, object, work,
       disk, backend
  <2> QED BY <2>1, <2>2, <2>3, <2>4, CrashMaps, UserMaps, DecideMaps, ChangeMaps
       DEF Next, Reconcile
<1> QED BY <1>1, <1>2, PlanInvariance, DeletedInvariance, PTL
     DEF Spec, Contract!Spec, ImplementsContract

=============================================================================
