----------------------------- MODULE Workspace -----------------------------
(***************************************************************************)
(* The reconcile loop of Workspace objects: the connector and the external *)
(* client of internal/controller/{namespaced,cluster}/workspace, the       *)
(* terraform commands they run (internal/terraform), the managed           *)
(* reconciler of crossplane-runtime that calls them, and the Terraform     *)
(* backend that every Workspace shares.                                    *)
(*                                                                         *)
(* Each Workspace object is reconciled by at most one goroutine at a time; *)
(* different objects are reconciled concurrently.  One action is one       *)
(* command, API call or file operation, so that users, crashes, the        *)
(* working directory collector and the other reconciles may interleave     *)
(* between any two of them.                                                *)
(*                                                                         *)
(* Abstractions.  A module is a set of files, those of its spec and of its *)
(* ProviderConfig; a file is what terraform makes of it.  State is kept in *)
(* one remote backend, as README.md recommends: losing a working directory *)
(* does not lose state.  A read of the API server returns the current      *)
(* object.                                                                 *)
(***************************************************************************)
EXTENDS Naturals

CONSTANTS
    Workspaces,   \* Workspace objects (one controller key each)
    Names,        \* names of Terraform workspaces in the backend
    Default,      \* the workspace every backend has, "default"
    NameOf,       \* external-name annotation of each object
    Modules,      \* modules a spec may ask for: sets of files
    Remote,       \* modules that go-getter fetches (sources Remote and Flux)
    Resources,    \* resources a file can declare
    Providers,    \* what terraform init installs: provider plugins, modules
    InitArgs,     \* values of spec.forProvider.initArgs
    NoArgs,       \* arguments of a directory never initialised
    NoChecksum,   \* status.atProvider.checksum = ""
    MaxFaults,    \* bound: failures of commands, crashes, lost directories
    MaxEdits      \* bound: spec edits and out-of-band changes

\* A file of the entrypoint's directory: its path and text, and what they
\* mean to terraform.  The meaning includes the local modules the file calls,
\* which may lie outside that directory, so that equal texts may differ in it.
Files == UNION Modules

NoModule == {}

Declared(F)  == UNION {f.declares : f \in F}
HasOutput(F) == \E f \in F : f.output
Needs(F)     == UNION {f.needs : f \in F}
Texts(F)     == {<<f.path, f.text>> : f \in F}

\* terraform refuses files that declare the same thing, such as main.tf and
\* main.tf.json of one module.
Conflict(F) == \E f, g \in F : /\ f # g
                               /\ \/ f.declares \cap g.declares # {}
                                  \/ f.output /\ g.output

\* The files m, written where F is: nothing else is removed.
Written(F, m) == {f \in F : \A g \in m : f.path # g.path} \cup m

Checksums == [texts : SUBSET Texts(Files), init : SUBSET Providers,
              args : InitArgs \cup {NoArgs}, selected : Names]

ASSUME ConstantsOK ==
    /\ Default \in Names
    /\ NameOf \in [Workspaces -> Names]
    /\ \A f \in Files : /\ f.declares \in SUBSET Resources
                        /\ f.output \in BOOLEAN
                        /\ f.needs \in SUBSET Providers
    /\ \A m \in Modules : /\ m # {}
                          /\ \A f, g \in m : f.path = g.path => f = g
                          /\ ~Conflict(m)
    /\ Remote \subseteq Modules
    /\ NoArgs \notin InitArgs
    /\ NoChecksum \notin Checksums
    /\ MaxFaults \in Nat
    /\ MaxEdits \in Nat

\* The texts of the entrypoint's directory say all there is to know: no local
\* module outside of it makes a difference.
AllDigested == \A f, g \in Files : f.path = g.path /\ f.text = g.text => f = g

\* No object's Terraform workspace is called "default", and every object has
\* one of its own: nothing in the code enforces either.
NoneDefault == \A w \in Workspaces : NameOf[w] # Default

NamesOwned ==
    /\ NoneDefault
    /\ \A v, w \in Workspaces : NameOf[v] = NameOf[w] => v = w

VARIABLES
    \* the object in the API server
    phase,        \* "absent", "live" or "deleting" (deletionTimestamp set)
    spec,         \* spec.forProvider: module and initArgs
    finalizer,    \* is the managed reconciler's finalizer present
    pending,      \* external-create-pending with no outcome annotation
    checksum,     \* status.atProvider.checksum
    ready,        \* status condition Ready is True
    \* the goroutine that reconciles it
    pc,           \* what it does next
    mg,           \* its copy of the object
    fresh,        \* is the copy's resourceVersion still current
    obs,          \* locals of Observe
    \* /tf/<uid>
    dir,
    torn,         \* history: objects in use whose directory was lost in part
    \* the backend and the infrastructure
    tfws,         \* Terraform workspaces that exist
    resources,    \* resources in the state of each
    outputs,      \* does its state have outputs
    drifted,      \* names whose infrastructure was changed out of band
    locked,       \* names whose state a dead terraform left locked
    leaked,       \* <<name, resource>>: it exists, and no state knows of it
    \* budgets
    faults, edits

object  == <<phase, spec, finalizer, pending, checksum, ready>>
work    == <<pc, mg, fresh, obs>>
disk    == <<dir, torn>>
backend == <<tfws, resources, outputs, drifted, locked, leaked>>
budget  == <<faults, edits>>
vars    == <<object, work, disk, backend, budget>>

-----------------------------------------------------------------------------
(* Values and helpers                                                      *)

Specs  == [module : Modules, args : InitArgs]
NoSpec == [module |-> NoModule, args |-> NoArgs]

\* A working directory: its files, what the last terraform init recorded
\* (lock file, modules and backend under .terraform) and its arguments, what
\* is installed under .terraform, and the workspace selected there.
Dirs == [files : SUBSET Files, init : SUBSET Providers,
         args : InitArgs \cup {NoArgs}, providers : SUBSET Providers,
         selected : Names]

\* A directory that is missing or just created: every command in it fails.
EmptyDir == [files |-> {}, init |-> {}, args |-> NoArgs, providers |-> {},
             selected |-> Default]

\* Without what terraform init records.
Uninitialised(d) == [d EXCEPT !.init = {}, !.args = NoArgs]

Copies == [deleted : BOOLEAN, module : Modules \cup {NoModule},
           args : InitArgs \cup {NoArgs}, checksum : Checksums \cup {NoChecksum}]
NoMg   == [deleted |-> FALSE, module |-> NoModule, args |-> NoArgs,
           checksum |-> NoChecksum]

Observations == [differs : BOOLEAN, listed : SUBSET Resources,
                 outputs : BOOLEAN, current : Names]
NoObs        == [differs |-> FALSE, listed |-> {}, outputs |-> FALSE,
                 current |-> Default]

\* Mutant: the checksum leaves all of .terraform out.
ChecksumOfFiles(d) == [texts |-> Texts(d.files), init |-> {},
                       args |-> NoArgs, selected |-> Default]

\* Mutant: the installed providers are digested as well.
ChecksumOfAll(d) == [texts |-> Texts(d.files), init |-> d.init, args |-> d.args,
                     selected |-> d.selected, providers |-> d.providers]

\* What GenerateChecksum digests: the files of the entrypoint's directory and
\* of .terraform below it, but for the installed providers.
GenerateChecksum(d) == [texts |-> Texts(d.files), init |-> d.init,
                        args |-> d.args, selected |-> d.selected]

\* terraform refuses a directory without files, with files that contradict
\* each other, or that is not initialised for what they need.
Usable(d) == /\ d.files # {}
             /\ ~Conflict(d.files)
             /\ d.args # NoArgs
             /\ Needs(d.files) \subseteq d.init \cap d.providers

\* terraform plan -detailed-exitcode, run in w's directory, exits with 2.
Diff(w) == LET n == dir[w].selected IN
    \/ resources[n] # Declared(dir[w].files)
    \/ outputs[n] # HasOutput(dir[w].files)
    \/ n \in drifted

\* The commands that lock the state, apply, destroy and workspace delete, fail
\* until it is unlocked; terraform plan is run with -lock=false.
StateLocked(w) == dir[w].selected \in locked

\* Mutant: only outputs count.
OutputsExist(w) == obs[w].outputs

\* ExternalObservation.ResourceExists.
ResourceExists(w) == obs[w].listed # {} \/ obs[w].outputs

Goto(w, l) == pc' = [pc EXCEPT ![w] = l]

\* The reconcile returns: its locals are gone.
Return(w) == /\ Goto(w, "idle")
             /\ mg' = [mg EXCEPT ![w] = NoMg]
             /\ obs' = [obs EXCEPT ![w] = NoObs]
             /\ fresh' = [fresh EXCEPT ![w] = TRUE]

\* Status().Update of the copy: refused when its resourceVersion is stale.
SaveStatus(w, c, r) ==
    IF fresh[w] THEN /\ checksum' = [checksum EXCEPT ![w] = c]
                     /\ ready' = [ready EXCEPT ![w] = r]
                ELSE UNCHANGED <<checksum, ready>>

Fault == faults < MaxFaults /\ faults' = faults + 1 /\ UNCHANGED edits

\* A terraform command in w's directory fails: it must, or something outside
\* went wrong (the backend, the network, a timeout).
Fails(w) == IF Usable(dir[w]) THEN Fault ELSE UNCHANGED budget

Succeeds(w) == Usable(dir[w]) /\ UNCHANGED budget

\* A terraform apply or destroy of w is under way: it holds the lock.
Writes(w) == /\ pc[w] \in {"create", "apply", "destroy"}
             /\ Usable(dir[w])
             /\ ~StateLocked(w)

\* What an apply of w may have made and not yet written to the state.
InFlight(w) == LET n == dir[w].selected IN
    IF Writes(w) /\ pc[w] # "destroy"
      THEN {n} \X (Declared(dir[w].files) \ resources[n]) ELSE {}

\* Killed, the terraform processes of ws may leave their locks, and lose what
\* they had not yet written to the state (README.md: "You will potentially
\* lose state and leak resources").
Killed(ws) ==
    /\ \E names \in SUBSET {dir[w].selected : w \in {v \in ws : Writes(v)}} :
          locked' = locked \cup names
    /\ \E lost \in SUBSET UNION {InFlight(w) : w \in ws} : leaked' = leaked \cup lost

\* A resource that no state knows of may be in the way of making it again.
InTheWay(w) == \E r \in Declared(dir[w].files) :
                  /\ <<dir[w].selected, r>> \in leaked
                  /\ r \notin resources[dir[w].selected]

\* terraform apply or destroy fails: it finds the state locked or a resource
\* in its way, or something else is wrong, or it is killed.
StopsWriting(w) ==
    \/ /\ StateLocked(w) \/ (InTheWay(w) /\ pc[w] # "destroy")
       /\ UNCHANGED <<budget, locked, leaked>>
    \/ Fails(w) /\ UNCHANGED <<locked, leaked>>
    \/ Writes(w) /\ Fault /\ Killed({w})

\* The object leaves the API server.
Vanish(w) == /\ phase' = [phase EXCEPT ![w] = "absent"]
             /\ spec' = [spec EXCEPT ![w] = NoSpec]
             /\ pending' = [pending EXCEPT ![w] = FALSE]
             /\ checksum' = [checksum EXCEPT ![w] = NoChecksum]
             /\ ready' = [ready EXCEPT ![w] = FALSE]

\* Somebody else wrote the object.
Touch(w) == fresh' = [fresh EXCEPT ![w] = pc[w] = "idle"]

-----------------------------------------------------------------------------
(* Users and the outside world                                             *)

Init ==
    /\ phase = [w \in Workspaces |-> "absent"]
    /\ spec = [w \in Workspaces |-> NoSpec]
    /\ finalizer = [w \in Workspaces |-> FALSE]
    /\ pending = [w \in Workspaces |-> FALSE]
    /\ checksum = [w \in Workspaces |-> NoChecksum]
    /\ ready = [w \in Workspaces |-> FALSE]
    /\ pc = [w \in Workspaces |-> "idle"]
    /\ mg = [w \in Workspaces |-> NoMg]
    /\ fresh = [w \in Workspaces |-> TRUE]
    /\ obs = [w \in Workspaces |-> NoObs]
    /\ dir = [w \in Workspaces |-> EmptyDir]
    /\ torn = {}
    /\ tfws = {Default}
    /\ resources = [n \in Names |-> {}]
    /\ outputs = [n \in Names |-> FALSE]
    /\ drifted = {}
    /\ locked = {}
    /\ leaked = {}
    /\ faults = 0
    /\ edits = 0

\* A new object has a new UID, hence a new working directory.
CreateObject(w) ==
    /\ phase[w] = "absent"
    /\ pc[w] = "idle"
    /\ \E s \in Specs : spec' = [spec EXCEPT ![w] = s]
    /\ phase' = [phase EXCEPT ![w] = "live"]
    /\ dir' = [dir EXCEPT ![w] = EmptyDir]
    /\ UNCHANGED <<finalizer, pending, checksum, ready, work, torn, backend, budget>>

EditSpec(w) ==
    /\ phase[w] # "absent"
    /\ edits < MaxEdits
    /\ edits' = edits + 1
    /\ \E s \in Specs \ {spec[w]} : spec' = [spec EXCEPT ![w] = s]
    /\ Touch(w)
    /\ UNCHANGED <<phase, finalizer, pending, checksum, ready, pc, mg, obs,
                   disk, backend, faults>>

\* The API server keeps a deleted object for as long as it has a finalizer.
DeleteObject(w) ==
    /\ phase[w] = "live"
    /\ IF finalizer[w]
         THEN /\ phase' = [phase EXCEPT ![w] = "deleting"]
              /\ UNCHANGED <<spec, pending, checksum, ready>>
         ELSE Vanish(w)
    /\ Touch(w)
    /\ UNCHANGED <<finalizer, pc, mg, obs, disk, backend, budget>>

\* An operator removes the external-create-pending annotation by hand, the
\* only way out once the outcome of a creation was not recorded.
ResolveCreate(w) ==
    /\ phase[w] # "absent"
    /\ pending[w]
    /\ pc[w] = "idle"
    /\ pending' = [pending EXCEPT ![w] = FALSE]
    /\ UNCHANGED <<phase, spec, finalizer, checksum, ready, work, disk,
                   backend, budget>>

\* Somebody changes the infrastructure behind Terraform's back.
Drift(n) ==
    /\ resources[n] # {}
    /\ n \notin drifted
    /\ edits < MaxEdits
    /\ edits' = edits + 1
    /\ drifted' = drifted \cup {n}
    /\ UNCHANGED <<object, work, disk, tfws, resources, outputs, locked, leaked,
                   faults>>

\* An operator runs terraform force-unlock.
Unlock(n) ==
    /\ n \in locked
    /\ locked' = locked \ {n}
    /\ UNCHANGED <<object, work, disk, tfws, resources, outputs, drifted, leaked,
                   budget>>

\* What is left of d while RemoveAll removes it file by file, and after it
\* failed half-way.
Remains(d) ==
    {[files |-> F, init |-> e.init, args |-> e.args, providers |-> p, selected |-> n] :
        e \in {d, Uninitialised(d)}, F \in SUBSET d.files,
        p \in SUBSET d.providers, n \in {d.selected, Default}}

\* The collector removes the directory of an object that is gone (nobody sees
\* how far it has come: a new object has a new directory), or, when it does not
\* see a live one (Workdir.tla shows how), a directory in use.  An apply or
\* destroy has read the directory when it starts: a removal while it runs is
\* one before or after it.
LoseDir(w) ==
    /\ dir[w] # EmptyDir
    /\ \/ /\ phase[w] = "absent" /\ pc[w] = "idle"
          /\ dir' = [dir EXCEPT ![w] = EmptyDir]
          /\ UNCHANGED <<torn, budget>>
       \/ /\ phase[w] # "absent" \/ pc[w] # "idle"
          /\ pc[w] \notin {"create", "apply", "destroy"}
          /\ Fault
          /\ \E d \in Remains(dir[w]) :
                /\ dir' = [dir EXCEPT ![w] = d]
                /\ torn' = IF d = EmptyDir THEN torn ELSE torn \cup {w}
    /\ UNCHANGED <<object, work, backend>>

\* The process dies and is restarted, and terraform children die with it.  The
\* directories survive or not, depending on what /tf is mounted from.
Crash ==
    /\ Fault
    /\ \E w \in Workspaces : pc[w] # "idle"
    /\ pc' = [w \in Workspaces |-> "idle"]
    /\ mg' = [w \in Workspaces |-> NoMg]
    /\ obs' = [w \in Workspaces |-> NoObs]
    /\ fresh' = [w \in Workspaces |-> TRUE]
    /\ dir' \in {dir, [w \in Workspaces |-> EmptyDir]}
    /\ Killed(Workspaces)
    /\ UNCHANGED <<object, torn, tfws, resources, outputs, drifted>>

-----------------------------------------------------------------------------
(* Connect                                                                 *)

\* The managed reconciler reads the object.  While the outcome of a creation
\* is unknown it does nothing, not even for a deleted object.
Start(w) ==
    /\ pc[w] = "idle"
    /\ phase[w] # "absent"
    /\ ~pending[w]
    /\ mg' = [mg EXCEPT ![w] = [deleted  |-> phase[w] = "deleting",
                                module   |-> spec[w].module,
                                args     |-> spec[w].args,
                                checksum |-> checksum[w]]]
    /\ Goto(w, "connect")
    /\ UNCHANGED <<object, fresh, obs, disk, backend, budget>>

\* Mutant: files that are there are not written again.
PreparedOnce(w, m) == IF dir[w].files # {} THEN {dir[w]}
                      ELSE {[dir[w] EXCEPT !.files = m]}

\* What Connect's file operations may make of w's directory when they write m.
\* What earlier specs and ProviderConfigs wrote stays, unless it has the path
\* of a file of m; go-getter may clear the destination, or take away some of
\* what an earlier fetch had left.
Prepared(w, m) ==
    {[dir[w] EXCEPT !.files = Written(@, m)]}
    \cup IF mg[w].module \in Remote
           THEN {[d EXCEPT !.files = Written(kept, m)] :
                     d \in {dir[w], EmptyDir}, kept \in SUBSET dir[w].files}
           ELSE {}

\* MkdirAll, ProviderConfig, credentials, module files, backend file, env.
\* An error on the way leaves some of the files written.
ConnectPrepare(w) ==
    /\ pc[w] = "connect"
    /\ \/ /\ \E d \in Prepared(w, mg[w].module) : dir' = [dir EXCEPT ![w] = d]
          /\ Goto(w, "checksum")
          /\ UNCHANGED <<mg, fresh, obs, budget>>
       \/ /\ Fault
          /\ \E some \in SUBSET mg[w].module :
                \E d \in Prepared(w, some) : dir' = [dir EXCEPT ![w] = d]
          /\ Return(w)
    /\ UNCHANGED <<object, torn, backend>>

\* terraform init is skipped when the directory is what it was when an
\* Observe recorded its checksum.
ConnectChecksum(w) ==
    /\ pc[w] = "checksum"
    /\ \/ /\ IF /\ mg[w].checksum # NoChecksum
                /\ mg[w].checksum = GenerateChecksum(dir[w])
               THEN Goto(w, "select") ELSE Goto(w, "init")
          /\ UNCHANGED <<mg, fresh, obs, budget>>
       \/ /\ mg[w].checksum # NoChecksum
          /\ Fault
          /\ Return(w)
    /\ UNCHANGED <<object, disk, backend>>

\* There is something to initialise, the directory was not lost since, and the
\* files do not contradict each other.
Initialisable(w) == dir[w].files # {} /\ ~Conflict(dir[w].files)

\* terraform init.  A failed one may have removed what the last one left, and
\* may have installed some of the plugins.
ConnectInit(w) ==
    /\ pc[w] = "init"
    /\ \/ /\ Initialisable(w)
          /\ dir' = [dir EXCEPT ![w].init = Needs(dir[w].files),
                                ![w].args = mg[w].args,
                                ![w].providers = @ \cup Needs(dir[w].files)]
          /\ Goto(w, "select")
          /\ UNCHANGED <<mg, fresh, obs, budget>>
       \/ /\ Initialisable(w)
          /\ Fault
          /\ \E some \in SUBSET Needs(dir[w].files), d \in {dir[w], Uninitialised(dir[w])} :
                dir' = [dir EXCEPT ![w] = [d EXCEPT !.providers = @ \cup some]]
          /\ Return(w)
       \/ /\ ~Initialisable(w)
          /\ Return(w)
          /\ UNCHANGED <<dir, budget>>
    /\ UNCHANGED <<object, torn, backend>>

\* Mutant: an initialised directory is taken to be in its workspace.
ConnectStay(w) ==
    /\ pc[w] = "select"
    /\ Succeeds(w)
    /\ Goto(w, "plan")
    /\ UNCHANGED <<object, mg, fresh, obs, disk, backend>>

\* Harness.Workspace: select, and create what cannot be selected.  A command
\* that is stopped may have done its work.
ConnectWorkspace(w) ==
    /\ pc[w] = "select"
    /\ \/ /\ Succeeds(w)
          /\ dir' = [dir EXCEPT ![w].selected = NameOf[w]]
          /\ tfws' = tfws \cup {NameOf[w]}
          /\ Goto(w, "plan")
          /\ UNCHANGED <<mg, fresh, obs>>
       \/ /\ Fails(w)
          /\ Return(w)
          /\ UNCHANGED <<dir, tfws>>
       \/ /\ Usable(dir[w])
          /\ Fault
          /\ tfws' = tfws \cup {NameOf[w]}
          /\ dir' \in {dir, [dir EXCEPT ![w].selected = NameOf[w]]}
          /\ Return(w)
    /\ UNCHANGED <<object, torn, resources, outputs, drifted, locked, leaked>>

-----------------------------------------------------------------------------
(* Observe                                                                 *)

\* Mutant: terraform plan locks the state.
CheckDiffLocking(w) ==
    /\ pc[w] = "plan"
    /\ \/ /\ Succeeds(w)
          /\ ~StateLocked(w)
          /\ obs' = [obs EXCEPT ![w].differs = Diff(w)]
          /\ Goto(w, "list")
          /\ UNCHANGED <<mg, fresh>>
       \/ /\ StateLocked(w) \/ ~Usable(dir[w])
          /\ Return(w)
          /\ UNCHANGED budget
    /\ UNCHANGED <<object, disk, backend>>

\* checkDiff.  A plan that fails is not an error for a deleted object; an
\* error of options() (the second way to return) always is.
CheckDiff(w) ==
    /\ pc[w] = "plan"
    /\ \/ /\ Succeeds(w)
          /\ obs' = [obs EXCEPT ![w].differs = Diff(w)]
          /\ Goto(w, "list")
          /\ UNCHANGED <<mg, fresh>>
       \/ /\ Fails(w)
          /\ mg[w].deleted
          /\ Goto(w, "list")
          /\ UNCHANGED <<mg, fresh, obs>>
       \/ /\ IF mg[w].deleted THEN Fault ELSE Fails(w)
          /\ Return(w)
    /\ UNCHANGED <<object, disk, backend>>

\* Mutant: the Terraform workspace is left behind.
AfterListKeep(w, r) == "outputs"

\* Observe deletes the Terraform workspace of a deleted object without
\* resources before it goes on.
AfterList(w, r) == IF mg[w].deleted /\ r = {} THEN "delws" ELSE "outputs"

\* Harness.Resources.
ListResources(w) ==
    /\ pc[w] = "list"
    /\ \/ /\ Succeeds(w)
          /\ LET r == resources[dir[w].selected] IN
                /\ obs' = [obs EXCEPT ![w].listed = r]
                /\ Goto(w, AfterList(w, r))
          /\ UNCHANGED <<mg, fresh>>
       \/ /\ Fails(w)
          /\ Return(w)
    /\ UNCHANGED <<object, disk, backend>>

\* Mutant: the workspace is not left before it is deleted.
LeaveNothing(w) ==
    /\ pc[w] = "delws"
    /\ \/ /\ Succeeds(w)
          /\ obs' = [obs EXCEPT ![w].current = dir[w].selected]
          /\ Goto(w, "delwsDelete")
          /\ UNCHANGED <<mg, fresh>>
       \/ Fails(w) /\ Return(w)
    /\ UNCHANGED <<object, disk, backend>>

\* DeleteCurrentWorkspace, first half: show the current workspace, and leave
\* it for the default one.
LeaveWorkspace(w) ==
    /\ pc[w] = "delws"
    /\ \/ /\ Succeeds(w)
          /\ obs' = [obs EXCEPT ![w].current = dir[w].selected]
          /\ Goto(w, IF dir[w].selected = Default THEN "outputs" ELSE "delwsDelete")
          /\ dir' = [dir EXCEPT ![w].selected = Default]
          /\ UNCHANGED <<mg, fresh>>
       \/ /\ Fails(w)
          /\ \E n \in {dir[w].selected, Default} : dir' = [dir EXCEPT ![w].selected = n]
          /\ Return(w)
    /\ UNCHANGED <<object, torn, backend>>

\* terraform workspace delete refuses a workspace that does not exist, that
\* is selected, or whose state is locked or still has resources.
Deletable(w, n) == /\ n \in tfws \ locked
                   /\ n # dir[w].selected
                   /\ resources[n] = {}

\* Second half of DeleteCurrentWorkspace.  Stopped late, it has done its work.
DeleteWorkspace(w) ==
    /\ pc[w] = "delwsDelete"
    /\ LET n == obs[w].current IN
       \/ /\ Succeeds(w)
          /\ Deletable(w, n)
          /\ tfws' = tfws \ {n}
          /\ outputs' = [outputs EXCEPT ![n] = FALSE]
          /\ drifted' = drifted \ {n}
          /\ Goto(w, "outputs")
          /\ UNCHANGED <<mg, fresh, obs>>
       \/ /\ IF Deletable(w, n) THEN Fails(w) ELSE UNCHANGED budget
          /\ Return(w)
          /\ UNCHANGED <<tfws, outputs, drifted>>
       \/ /\ Usable(dir[w])
          /\ Deletable(w, n)
          /\ Fault
          /\ tfws' = tfws \ {n}
          /\ outputs' = [outputs EXCEPT ![n] = FALSE]
          /\ drifted' = drifted \ {n}
          /\ Return(w)
    /\ UNCHANGED <<object, disk, resources, locked, leaked>>

\* Harness.Outputs, read from whatever workspace is selected by now.
ReadOutputs(w) ==
    /\ pc[w] = "outputs"
    /\ \/ /\ Succeeds(w)
          /\ obs' = [obs EXCEPT ![w].outputs = outputs[dir[w].selected]]
          /\ Goto(w, "sum")
          /\ UNCHANGED <<mg, fresh>>
       \/ /\ Fails(w)
          /\ Return(w)
    /\ UNCHANGED <<object, disk, backend>>

\* Observe replaces status.atProvider, checksum included, before it computes
\* the checksum: an error in between saves an empty one.
ObserveChecksum(w) ==
    /\ pc[w] = "sum"
    /\ \/ /\ dir[w] # EmptyDir
          /\ mg' = [mg EXCEPT ![w].checksum = GenerateChecksum(dir[w])]
          /\ Goto(w, "observed")
          /\ UNCHANGED <<checksum, ready, fresh, obs, budget>>
       \/ /\ IF dir[w] # EmptyDir THEN Fault ELSE UNCHANGED budget
          /\ SaveStatus(w, NoChecksum, ready[w])
          /\ Return(w)
    /\ UNCHANGED <<phase, spec, finalizer, pending, disk, backend>>

-----------------------------------------------------------------------------
(* What the managed reconciler does with the observation                   *)

\* Delete while the external resource exists; then, and only then, remove
\* the finalizer.
ReconcileDeleted(w) ==
    /\ pc[w] = "observed"
    /\ mg[w].deleted
    /\ \/ /\ ResourceExists(w)
          /\ Goto(w, "destroy")
          /\ UNCHANGED <<object, mg, fresh, obs, budget>>
       \/ /\ ~ResourceExists(w)
          /\ fresh[w]
          /\ finalizer' = [finalizer EXCEPT ![w] = FALSE]
          /\ Vanish(w)
          /\ Return(w)
          /\ UNCHANGED budget
       \/ /\ ~ResourceExists(w)
          /\ IF fresh[w] THEN Fault ELSE UNCHANGED budget
          /\ SaveStatus(w, mg[w].checksum, FALSE)
          /\ Return(w)
          /\ UNCHANGED <<phase, spec, finalizer, pending>>
    /\ UNCHANGED <<disk, backend>>

\* AddFinalizer: an Update, only if it is missing.  The answer of the API
\* server may replace the status of the copy.
AddFinalizer(w) ==
    /\ pc[w] = "observed"
    /\ ~mg[w].deleted
    /\ \/ /\ finalizer[w]
          /\ Goto(w, "act")
          /\ UNCHANGED <<object, mg, fresh, obs, budget>>
       \/ /\ ~finalizer[w]
          /\ fresh[w]
          /\ finalizer' = [finalizer EXCEPT ![w] = TRUE]
          /\ \E c \in {mg[w].checksum, checksum[w]} :
                mg' = [mg EXCEPT ![w].checksum = c]
          /\ Goto(w, "act")
          /\ UNCHANGED <<phase, spec, pending, checksum, ready, fresh, obs, budget>>
       \/ /\ ~finalizer[w]
          /\ IF fresh[w] THEN Fault ELSE UNCHANGED budget
          /\ SaveStatus(w, mg[w].checksum, ready[w] \/ ~obs[w].differs)
          /\ Return(w)
          /\ UNCHANGED <<phase, spec, finalizer, pending>>
    /\ UNCHANGED <<disk, backend>>

\* Create what does not exist, after an Update that records the attempt;
\* update what differs; otherwise save the status and wait for the next poll.
Act(w) ==
    /\ pc[w] = "act"
    /\ \/ /\ ~ResourceExists(w)
          /\ fresh[w]
          /\ pending' = [pending EXCEPT ![w] = TRUE]
          /\ \E c \in {mg[w].checksum, checksum[w]} :
                mg' = [mg EXCEPT ![w].checksum = c]
          /\ Goto(w, "create")
          /\ UNCHANGED <<checksum, ready, fresh, obs, budget>>
       \/ /\ ~ResourceExists(w)
          /\ IF fresh[w] THEN Fault ELSE UNCHANGED budget
          /\ SaveStatus(w, mg[w].checksum, FALSE)
          /\ Return(w)
          /\ UNCHANGED pending
       \/ /\ ResourceExists(w)
          /\ ~obs[w].differs
          /\ SaveStatus(w, mg[w].checksum, TRUE)
          /\ Return(w)
          /\ UNCHANGED <<pending, budget>>
       \/ /\ ResourceExists(w)
          /\ obs[w].differs
          /\ Goto(w, "apply")
          /\ UNCHANGED <<pending, checksum, ready, mg, fresh, obs, budget>>
    /\ UNCHANGED <<phase, spec, finalizer, disk, backend>>

\* The outcome of Create is recorded in an annotation, retried on a conflict
\* with the object read again; if that fails too it stays pending.  The
\* status saved is the copy's (c) or the one the API server last returned.
FinishCreate(w, c) ==
    /\ pending' \in {pending, [pending EXCEPT ![w] = FALSE]}
    /\ checksum' \in {checksum, [checksum EXCEPT ![w] = c]}
    /\ ready' = [ready EXCEPT ![w] = FALSE]
    /\ Return(w)

-----------------------------------------------------------------------------
(* Create, Update and Delete                                               *)

\* terraform apply changes one resource after the other ...
ApplyOne(w) ==
    /\ pc[w] \in {"create", "apply"}
    /\ Succeeds(w)
    /\ ~StateLocked(w)
    /\ LET n == dir[w].selected
           want == Declared(dir[w].files)
       IN  \/ \E r \in want \ resources[n] :
                resources' = [resources EXCEPT ![n] = @ \cup {r}]
           \/ \E r \in resources[n] \ want :
                resources' = [resources EXCEPT ![n] = @ \ {r}]
    /\ UNCHANGED <<object, work, disk, tfws, outputs, drifted, locked, leaked>>

\* ... and is done when the state is what the files say,
ApplyDone(w) ==
    /\ pc[w] \in {"create", "apply"}
    /\ Succeeds(w)
    /\ ~StateLocked(w)
    /\ LET n == dir[w].selected IN
           /\ resources[n] = Declared(dir[w].files)
           /\ outputs' = [outputs EXCEPT ![n] = HasOutput(dir[w].files)]
           /\ drifted' = drifted \ {n}
    /\ Goto(w, IF pc[w] = "create" THEN "createOutputs" ELSE "applyOutputs")
    /\ UNCHANGED <<object, mg, fresh, obs, disk, tfws, resources, locked, leaked>>

\* or fails on the way, and what it did so far remains.
ApplyFails(w) ==
    /\ StopsWriting(w)
    /\ \/ /\ pc[w] = "create"
          /\ FinishCreate(w, mg[w].checksum)
       \/ /\ pc[w] = "apply"
          /\ SaveStatus(w, mg[w].checksum, ready[w])
          /\ Return(w)
          /\ UNCHANGED pending
    /\ UNCHANGED <<phase, spec, finalizer, disk, tfws, resources, outputs, drifted>>

\* Update reads the outputs back and replaces status.atProvider, without a
\* checksum: the next reconcile initialises again.
CreateOutputs(w) ==
    /\ pc[w] = "createOutputs"
    /\ \/ Succeeds(w) /\ FinishCreate(w, NoChecksum)
       \/ Fails(w) /\ FinishCreate(w, mg[w].checksum)
    /\ UNCHANGED <<phase, spec, finalizer, disk, backend>>

UpdateOutputs(w) ==
    /\ pc[w] = "applyOutputs"
    /\ \/ Succeeds(w) /\ SaveStatus(w, NoChecksum, TRUE)
       \/ Fails(w) /\ SaveStatus(w, mg[w].checksum, ready[w])
    /\ Return(w)
    /\ UNCHANGED <<phase, spec, finalizer, pending, disk, backend>>

\* terraform destroy, one resource after the other.
DestroyOne(w) ==
    /\ pc[w] = "destroy"
    /\ Succeeds(w)
    /\ ~StateLocked(w)
    /\ LET n == dir[w].selected IN
       \E r \in resources[n] : resources' = [resources EXCEPT ![n] = @ \ {r}]
    /\ UNCHANGED <<object, work, disk, tfws, outputs, drifted, locked, leaked>>

DestroyEnds(w) ==
    /\ pc[w] = "destroy"
    /\ LET n == dir[w].selected IN
       \/ /\ Succeeds(w)
          /\ ~StateLocked(w)
          /\ resources[n] = {}
          /\ outputs' = [outputs EXCEPT ![n] = FALSE]
          /\ drifted' = drifted \ {n}
          /\ UNCHANGED <<locked, leaked>>
       \/ StopsWriting(w) /\ UNCHANGED <<outputs, drifted>>
    /\ SaveStatus(w, mg[w].checksum, FALSE)
    /\ Return(w)
    /\ UNCHANGED <<phase, spec, finalizer, pending, disk, tfws, resources>>

-----------------------------------------------------------------------------

Connect(w) == ConnectPrepare(w) \/ ConnectChecksum(w) \/ ConnectInit(w)
              \/ ConnectWorkspace(w)

Observe(w) == CheckDiff(w) \/ ListResources(w) \/ LeaveWorkspace(w)
              \/ DeleteWorkspace(w) \/ ReadOutputs(w) \/ ObserveChecksum(w)

Change(w) == ApplyOne(w) \/ ApplyDone(w) \/ ApplyFails(w) \/ CreateOutputs(w)
             \/ UpdateOutputs(w) \/ DestroyOne(w) \/ DestroyEnds(w)

Reconcile(w) == Start(w) \/ Connect(w) \/ Observe(w) \/ ReconcileDeleted(w)
                \/ AddFinalizer(w) \/ Act(w) \/ Change(w)

User(w) == CreateObject(w) \/ EditSpec(w) \/ DeleteObject(w) \/ ResolveCreate(w)

Next ==
    \/ \E w \in Workspaces : User(w) \/ Reconcile(w) \/ LoseDir(w)
    \/ \E n \in Names : Drift(n) \/ Unlock(n)
    \/ Crash

Spec == Init /\ [][Next]_vars

\* The work queue hands out every object again and again (on changes, on
\* errors with backoff, and every poll interval), and every command ends: the
\* context kills it at the latest.
FairSpec == Spec /\ \A w \in Workspaces : WF_vars(Reconcile(w))

-----------------------------------------------------------------------------
(* Properties                                                              *)

Phases == {"absent", "live", "deleting"}

\* Reading the plan, the resources or the outputs, and changing anything.
Selected  == {"plan", "list", "delws", "create", "apply", "createOutputs",
              "applyOutputs"}
Commands  == Selected \cup {"delwsDelete", "outputs", "destroy"}
PCs       == Commands \cup {"idle", "connect", "checksum", "init", "select",
                            "sum", "observed", "act"}

\* Every variable has the type its declaration says.
TypeOK ==
    /\ phase \in [Workspaces -> Phases]
    /\ spec \in [Workspaces -> Specs \cup {NoSpec}]
    /\ finalizer \in [Workspaces -> BOOLEAN]
    /\ pending \in [Workspaces -> BOOLEAN]
    /\ checksum \in [Workspaces -> Checksums \cup {NoChecksum}]
    /\ ready \in [Workspaces -> BOOLEAN]
    /\ pc \in [Workspaces -> PCs]
    /\ mg \in [Workspaces -> Copies]
    /\ fresh \in [Workspaces -> BOOLEAN]
    /\ obs \in [Workspaces -> Observations]
    /\ dir \in [Workspaces -> Dirs]
    /\ torn \subseteq Workspaces
    /\ tfws \subseteq Names
    /\ resources \in [Names -> SUBSET Resources]
    /\ outputs \in [Names -> BOOLEAN]
    /\ drifted \subseteq Names
    /\ locked \subseteq Names
    /\ leaked \subseteq Names \X Resources
    /\ faults \in 0 .. MaxFaults
    /\ edits \in 0 .. MaxEdits

\* Module m is applied for w: its files are in the directory, and the state of
\* w's own Terraform workspace has what they declare, and nothing but what the
\* files in the directory declare.
Applied(w, m) ==
    LET n == NameOf[w] IN
    /\ Declared(m) \subseteq resources[n]
    /\ HasOutput(m) => outputs[n]
    /\ dir[w] # EmptyDir => /\ m \subseteq dir[w].files
                            /\ resources[n] = Declared(dir[w].files)
                            /\ outputs[n] = HasOutput(dir[w].files)

\* Skipping terraform init is sound, for modules the checksum tells apart: no
\* command, the selection of the workspace included, ever runs in a directory
\* that lacks a file of the reconcile's module, was not initialised for its
\* files or lacks a plugin, although the checksum that decides it was stored by
\* an earlier reconcile, excludes the plugins, and may survive edits, failed
\* inits, a crash or the loss of the directory.  Not so where a collector has
\* removed part of the directory of an object in use (torn).
InitSound ==
    \A w \in Workspaces \ torn :
        pc[w] \in Commands \cup {"select"} =>
            \/ dir[w] = EmptyDir
            \/ Usable(dir[w]) /\ mg[w].module \subseteq dir[w].files

\* An object that leaves the API server leaves no resource in its Terraform
\* state: as long as there is one it has the finalizer, so that a deletion
\* still goes through Delete.  (What a killed apply leaked is in no state, and
\* nothing in the provider knows of it.)
NoOrphans ==
    \A w \in Workspaces \ torn :
        resources[NameOf[w]] # {} => finalizer[w] /\ phase[w] # "absent"

\* checkDiff's comment: Delete is called "if there are still resources in the
\* tfstate file", never for an object that has none.  (Unless the apply of a
\* torn directory made outputs in the default workspace, where Observe looks
\* for those of a deleted object.)
DestroyNeedsResources ==
    \A w \in Workspaces :
        pc[w] = "destroy" => obs[w].listed # {} \/ torn # {}

\* Only the reconcile of the object that owns a Terraform workspace changes
\* the resources in its state, whatever workspaces the others select; a torn
\* directory may at worst have forgotten its own, and bring the default one into
\* play.
ChangedByOwner ==
    [][\A n \in Names : resources'[n] # resources[n] =>
           \E w \in Workspaces :
              /\ NameOf[w] = n \/ (n = Default /\ torn # {})
              /\ pc[w] \in {"create", "apply", "destroy"}]_vars

\* No resource that is wanted is lost: until its object is deleted, what the
\* reconcile has read in the spec stays, although files, plugins and the
\* selected workspace are those of earlier reconciles and directories are lost
\* (as a whole: where one is lost in part, an apply may find a file missing and
\* remove what it declares).
WantedKept ==
    [][\A w \in Workspaces \ torn :
           (resources[NameOf[w]] \ resources'[NameOf[w]]) \cap Declared(mg[w].module) # {}
               => phase[w] = "deleting"]_vars

\* The finalizer goes only when the object's resources, its outputs and its
\* Terraform workspace are gone, although all three were read earlier.
FinalizerHeld ==
    [][\A w \in Workspaces \ torn : finalizer[w] /\ ~finalizer'[w] =>
           /\ resources[NameOf[w]] = {}
           /\ ~outputs[NameOf[w]]
           /\ NameOf[w] \notin tfws]_vars

\* An object becomes Ready only when its current spec, not the one the
\* reconcile started from, is applied, and nothing else is in its state but
\* what files of earlier specs still ask for.
ReadyMeansApplied ==
    [][\A w \in Workspaces \ torn :
           ~ready[w] /\ ready'[w] => Applied(w, spec[w].module)]_vars

\* Files that earlier specs left contradict those of the present one: terraform
\* init fails until somebody removes them.
Blocked(w) == Conflict(dir[w].files)

\* A deleted object goes away, with all that its state knows, unless the
\* outcome of a creation was lost, its state stays locked or files left behind
\* are in the way (then it waits for an operator).
DeletionCompletes ==
    \A w \in Workspaces :
        phase[w] = "deleting" ~>
            \/ phase[w] = "absent" /\ resources[NameOf[w]] = {}
            \/ pending[w]
            \/ NameOf[w] \in locked
            \/ Blocked(w)
            \/ torn # {}

\* A module that has resources or outputs is eventually applied and the
\* object Ready, unless the object is deleted, its module changed, the outcome
\* of a creation was lost or files left behind are in the way.  A state left
\* locked or a leaked resource is an excuse only where something remains to be
\* applied: what is applied already is still found to be, since the plan does
\* not ask for the lock.  (A module with neither never exists in the sense of
\* Observe: it is created again on every poll, never Ready.)
SpecApplied ==
    \A w \in Workspaces, m \in {k \in Modules : Declared(k) # {} \/ HasOutput(k)} :
        (phase[w] = "live" /\ spec[w].module = m) ~>
            \/ ready[w] /\ Applied(w, m) /\ NameOf[w] \notin drifted
            \/ /\ NameOf[w] \in locked
               /\ ~Applied(w, m) \/ NameOf[w] \in drifted
            \/ InTheWay(w)
            \/ Blocked(w)
            \/ phase[w] # "live"
            \/ spec[w].module # m
            \/ pending[w]
            \/ w \in torn

\* The objects, their finalizers and their infrastructure behave as the
\* contract says; a reconcile works for the module in its copy, and with it for
\* what earlier modules left in the directory.
Contract == INSTANCE WorkspaceContract WITH
    Objects     <- Workspaces,
    ResourcesOf <- [m \in Modules |-> Declared(m)],
    life        <- phase,
    want        <- [w \in Workspaces |-> spec[w].module],
    plan        <- [w \in Workspaces |-> mg[w].module],
    desired     <- [w \in Workspaces |-> Declared(dir[w].files)],
    held        <- finalizer,
    infra       <- [w \in Workspaces |-> resources[NameOf[w]]]

ImplementsContract == Contract!Spec

\* docs/monolith/Configuration.md, "Terraform CLI Command Arguments": initArgs
\* "will cause the terraform init command to be run with" them.
InitArgsApplied ==
    \A w \in Workspaces : pc[w] = "plan" => dir[w] = EmptyDir \/ dir[w].args = mg[w].args

=============================================================================
