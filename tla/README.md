# A TLA+ model of provider-terraform

provider-terraform is a Crossplane provider: a Kubernetes controller that runs
the `terraform` command line for every `Workspace` object, so that what the
object asks for exists and what a deleted object created is destroyed.  This
directory models its reconcile loop, the preparation of working directories,
the harness that runs terraform, the collectors of directories, the handling of
variables, the configs and the start of the controllers; TLC checks the models
on small instances, and TLAPS proves their safety properties for every
instance.

Paths below are relative to the repository; `workspace.go` stands for
`internal/controller/namespaced/workspace/workspace.go` and its twin under
`cluster/`, whose lines are the same.

## Inventory

| part | source | state it keeps | operations |
|---|---|---|---|
| connector | `workspace.go` `Connect` (191-374) | the working directory `/tf/<uid>`, git credentials in `/tmp/tf/<uid>`, the environment variable `GIT_CRED_DIR` | resolve the ProviderConfig, write credentials, configuration and module files, decide on `terraform init`, select the Terraform workspace |
| external client | `workspace.go` `checkDiff`, `Observe`, `Create`, `Update`, `Delete`, `options` (422-589) | its copy of the object, the status in it | plan, list resources, leave and delete the workspace, outputs, checksum, apply, destroy |
| harness | `internal/terraform/terraform.go` | `rwmutex`, one child process per command | one method per terraform command; `runCommand` |
| collectors | `internal/workdir/workdir.go` | the UIDs listed in a pass | list, read the directory, remove; every hour |
| provider configs | `internal/clients/client.go`, `internal/controller/*/config` | ProviderConfigUsage objects | resolve one of three kinds, track its use, guard its deletion |
| start | `cmd/provider/main.go`, `internal/controller/*/terraform.go`, the `Setup` functions | the CRD gate, the controllers and collectors of the process | set up both scopes, at once or each controller when its CRDs are there |
| managed reconciler | crossplane-runtime (not in the repository) | annotations, finalizer, conditions | the loop that calls connector and client |
| terraform and its backend | not in the repository | Terraform workspaces, their state | the commands |
| API types | `apis/` | spec and status | none: data |
| boot check, feature flags | `internal/bootcheck`, `internal/features` | none | none: a no-op and constants |

How they interact.  A worker of the controller takes an object from the queue
and runs the managed reconciler for it under a timeout.  That calls `Connect`,
which prepares the directory and returns an external client; then `Observe`;
then, depending on the answer, `Create`, `Update`, `Delete` or nothing.  Each
object is reconciled by one goroutine at a time, several objects concurrently.
All of them share the process (`rwmutex`, the environment), the plugin cache
under `/tf/plugin-cache`, and the Terraform backend; users change objects, and
the collectors remove directories, file by file, at any moment.

What is hard in it, and what makes each part correct:

* **Connector.**  `terraform init` is skipped on a checksum that an earlier
  reconcile stored in the status and that leaves out the installed providers
  and whatever lies outside the entrypoint's directory.  Between the two lie
  edits, failed inits, restarts and lost directories.  Correct when no command
  runs in a directory that lacks the module at hand or is not initialised for
  what it holds (`InitSound`).  The files themselves are written one by one
  into a directory that go-getter may have cleared, that a collector may clear,
  and that earlier specs have filled, and git learns of its credentials through
  the environment of the process: correct when terraform finds the module and
  every file of the config (`FilesComplete`), git the credentials of its own
  config (`OwnGitCredentials`), and when what was left behind does not block
  later reconciles (`ComesToRun`; files that contradict each other do, for
  nothing removes them).
* **External client.**  Deletion reads the plan, the resources, the workspace
  and the outputs one after the other, and changes the selected workspace in
  between.  Correct when nothing that a state knows of is orphaned (`NoOrphans`,
  `FinalizerHeld`),
  when no object touches the state of another (`ChangedByOwner`), when
  `destroy` is run only where there is something (`DestroyNeedsResources`),
  when nothing an object asks for is taken away because of what lies in its
  directory (`WantedKept`), when an object becomes Ready only with its spec as
  it is then applied (`ReadyMeansApplied`), and when specs get applied and
  deletions end (`SpecApplied`, `DeletionCompletes`), except while an operator
  has to act: a lock of the state or a leaked resource that a killed terraform
  left, a creation whose outcome was never recorded, or files of earlier specs
  that contradict those of the present one.
* **Harness.**  A readers-writer lock around child processes, a context that
  may expire before, while and after the process runs, a panic on one of the
  paths.  Correct when the lock always comes back (`NoLockLeaked`), when an
  init has the cache to itself (`InitAlone`, `ImplementsPluginCache`),
  when no plugin in use changes (`StableUndisturbed`, `PluginsStable`), when
  nobody is stuck behind a lock (`NobodyStuck`) or starts a command again
  (`CommandsAdvance`), and so every reconcile ends (`ReconcileEnds`).
* **Collectors.**  They act on a list that ages while they work, share
  directories with each other and with running commands, and go on after
  errors.  Correct when what is in use stays (`KnownDirsKept`) and what is not
  goes (`StaleCollected`).
* **Variables.**  Three loops and numbered files decide which of several
  sources of a variable counts, while the sources change and earlier commands'
  files lie around: correct when the last one wins (`LastSourceWins`).  An apply
  reads and writes everything once more: correct when it still runs with the
  values of the plan, unless a source changed (`AppliesThePlan`).
* **Provider configs.**  A reconcile reads a config first and tracks its use
  afterwards; the config's controller counts uses first and removes the
  finalizer afterwards.  Correct when a config stays while somebody relies on
  it (`UsersKeepConfig`), goes when nobody does (`UnusedConfigGoes`), and when
  a Workspace and its config can be deleted together (`DeletedWorkspaceGoes`).
* **Start.**  The kinds of one scope may be missing for ever.  Correct when a
  controller behind the gate is never up without its kinds (`GateHolds`), since
  that would end the process for both scopes; when controllers whose kinds are
  there come to run (`ServesInstalled`); and when the directories of every
  scope that has Workspaces are collected (`CollectsAnyway`).

## Plan

In the order of importance; the first seven are done.

1. `Workspace.tla`, the reconcile loop and the backend, with its abstract
   specification `WorkspaceContract.tla`, proofs and refinement.
2. `Harness.tla`, lock and processes, with `PluginCache.tla` above it, proofs
   and refinement.
3. `Workdir.tla`, the collectors, with proofs.
4. `Options.tla`, variables, with proofs.
5. `Connect.tla`, the contents of the working directory and the environment,
   with proofs.
6. `ProviderConfigs.tla`: resolution of the kinds of configs, usages, deletion
   of a config in use, with proofs; composed with
7. `Startup.tla`: the SafeStart gate of both scopes, crashes and restarts.
8. Left: composition of `Workdir.tla` with the reconciles of `Workspace.tla`
   and `Connect.tla`, so that `LoseDir` and `Collect` become the collector's
   step; composition of the harness's unsupervised processes with the backend;
   entrypoints that are edited, in `Workspace.tla`; stale informer caches;
   management policies.

## Modules

| module | what it is |
|---|---|
| `Workspace` | reconcile loop, managed reconciler, terraform commands, backend, users |
| `WorkspaceContract` | what it promises: infrastructure only under a finalizer, made only of what is or was asked for, nothing taken away that is; Ready only of an object that has what it asks for |
| `WorkspaceProofs` | inductive invariant and theorems of `Workspace` |
| `WorkspaceRefinement` | `Workspace` implements `WorkspaceContract` |
| `Harness` | lock, processes, contexts, sequence of commands |
| `PluginCache` | what the lock is for: many users or one changer |
| `HarnessProofs` | invariant, theorems and refinement of `Harness` |
| `Workdir`, `WorkdirProofs` | the collectors, and their theorems |
| `Options`, `OptionsProofs` | variables: arguments and files of a plan and the apply after it; and the theorems |
| `Connect`, `ConnectProofs` | the steps of `Connect`: files, credentials, environment; and their theorems |
| `Startup` | the processes and how they come to run their controllers |
| `ProviderConfigs`, `ProviderConfigsProofs` | configs, their uses and their controller, beside `Startup`; and the theorems of both |
| `MCWorkspace`, `MCHarness`, `MCWorkdir`, `MCOptions`, `MCConnect`, `MCProviderConfigs` | values of the constants for TLC |

### Workspace

| model | code |
|---|---|
| `phase`, `spec`, `finalizer`, `pending`, `checksum`, `ready` | the object in the API server: existence and deletionTimestamp, `spec.forProvider`, finalizer, create-pending annotation, `status.atProvider.checksum`, condition Ready |
| `pc`, `mg`, `fresh`, `obs` | the goroutine: what it does next, its copy of the object, whether the copy's resourceVersion is current, the results of the commands it has run |
| `dir` | `/tf/<uid>`: the files terraform finds there, what the last `init` left, installed providers, selected workspace |
| `tfws`, `resources`, `outputs`, `drifted`, `locked`, `leaked` | the backend and the infrastructure; `locked`: the Terraform workspaces whose state a dead terraform left locked; `leaked`: what it had made and not yet written to the state |
| `ConnectPrepare`, `Prepared`, `Written` | `Connect` up to the harness: `MkdirAll`, ProviderConfig, files; what has another path stays, unless go-getter clears the directory or takes some of it away |
| `ConnectChecksum`, `ConnectInit`, `ConnectWorkspace` | `workspace.go` 351-372: compare checksums, `Init` when they differ, `Workspace` |
| `CheckDiff`, `ListResources`, `LeaveWorkspace`, `DeleteWorkspace`, `ReadOutputs`, `ObserveChecksum` | `Observe` and `checkDiff`, command by command |
| `ReconcileDeleted`, `AddFinalizer`, `Act`, `FinishCreate` | the managed reconciler with the observation |
| `ApplyOne`, `ApplyDone`, `ApplyFails`, `CreateOutputs`, `UpdateOutputs` | `Create` and `Update`: `terraform apply`, one resource after the other, then the outputs |
| `DestroyOne`, `DestroyEnds` | `Delete` |
| `CreateObject`, `EditSpec`, `DeleteObject`, `ResolveCreate`, `Drift`, `Unlock`, `LoseDir`, `Crash` | users, the world, the collector, the process |
| `Killed`, `Remains` | what a killed apply or destroy may leave; what is left of a directory while `RemoveAll` works or after it failed |

One action is one command, API call or group of file operations, since that is
where others can interleave.  Every command may fail, and has to fail when its
directory is not `Usable`.

A spec is a module, which is a set of files (those of its ProviderConfig
included), and init arguments.  A file has a path, a text, and what terraform
makes of it: the resources it declares, whether it has an output, the providers
it needs, those of the local modules it calls included.  terraform works for all
files in the directory, so for what earlier specs left too, and refuses files
that declare the same thing (`Conflict`).  A checksum is the part of the
directory it digests, so that two directories have one checksum exactly when
they agree on that part: the paths and texts in the entrypoint's directory, what
`init` recorded there, and the selected workspace.  Two files of one path and
text may still mean different things, when the local modules they call lie
beside the entrypoint's directory.  `AllDigested` says that none do; only
`InitIsSound` assumes it.

A collector that does not see a live object, or an object that is being
reconciled, removes its directory file by file.  What is left at any moment, or
for good when `RemoveAll` fails half-way, is one of `Remains`: some of the
files, some of the plugins, with or without what `init` recorded.  The history
variable `torn` holds the objects in use this has happened to.  Next to nothing
can be promised of them, so the properties excuse them: an apply may find a file
missing and remove what it declares; a directory that has forgotten its workspace
applies its module to `default`, where a deleted object without resources then
finds outputs that are not its own (this is why the excuse is `torn = {}` where
that matters); and the checksum recorded of such a directory may be that of a
later, blocked one.

Assumptions of the model.  State is in one remote backend that all objects
share, as the repository's README recommends; so losing a directory does not
lose state.  An apply or destroy that is killed (`StopsWriting`), or dies with
the process (`Crash`), may leave its lock and lose what it had made and not yet
written to the state.  The lock fails `apply`, `destroy` and `workspace delete`,
but not the plan, which runs with `-lock=false` (`terraform.go:557`), until an
operator runs `terraform force-unlock` (`Unlock`).  What has leaked is in no
state, may be in the way when it is to be made again (`InTheWay`), and stays:
nothing in the provider knows of it.  That two commands contend for one lock is
not modelled: with one reconcile per object and names of their own, they never
meet in one Terraform workspace.  A read of the API server returns the current
object; the informer cache's delay is not modelled, while optimistic concurrency
(`fresh`) is.  A module's resources do not depend on the ConfigMaps read for its
variables.  When the object has gone, a new one of the same name starts with an
empty directory: it has another UID.

### Harness

`at[c]` is where the goroutine of caller `c` is in a harness method: about to
lock, waiting, waiting for its process, or waiting for a process it has sent
SIGTERM.  `cmd[c]` is the command; `OnSuccess` and `OnFailure` say which
commands follow it, as `Connect`, `Observe`, `Create`, `Update` and `Delete`
call the methods and as `Workspace` and `DeleteCurrentWorkspace` chain several
commands.  `child[c]` is the process from the launch of `runCommand`'s goroutine to
its end.  `expired[c]` is the context, made for one reconcile.  The lock
is `sync.RWMutex`: a writer announces itself (`Announce`), keeps new readers
out, waits for the old ones (`Lock`), and lets the waiting readers in first
when it leaves (`Admitted`).  `linked[c]` says that the plugins in the
directory are links into the shared cache.

`Panic` is what happens when the context is done before `exec.Cmd` has set
`Process`: `c.Process.Signal` dereferences nil, deferred unlocks run, the
controller recovers, and the launched goroutine starts the process afterwards.
That process is `stray`.  Bound: one stray process per caller at a time.

### Workdir

`state` is the object's life, `entries` the content of `/tf` and `/tmp/tf`,
and a collector is a scope with a parent directory: both `Setup`s start one
for each.  `List`, `ReadDir`, `Remove` and `EndPass` are the steps of
`collect`; each API or file system call may fail.  `known` is a history
variable: the objects that were live when the pass listed.  `Others` stands
for the entries without a UUID for a name, first of all `plugin-cache`, which
the image creates.  `Connect` may run at any time for a live object.

### Options

| model | code |
|---|---|
| `spec`, `store` | `vars`, `varFiles`, `varmap` and the arguments of `spec.forProvider`; ConfigMaps and Secrets |
| `mine` | the reconcile's copy of the object |
| `o`, `written`, `disk` | `terraform.Option`s collected so far, and the var files in the directory, under their numbered names |
| `Observe`, `Change` | `checkDiff` plans; `Update` or `Delete` follows: each calls `options()` anew |
| `ReadVarFile`, `EndOptions` | `options()` 545-589: one read per var file, then the varmap, then the user's arguments |
| `WriteVarFile`, `Run` | `Harness.Diff`, `Apply`, `Destroy`: write the files, run terraform |
| `Return` | every error: a key that is missing, a file that was half written |
| `EditSpec`, `EditStore` | users |

`Effective` is terraform's reading of the arguments, from left to right.
`read`, `planned` and `changed` are history variables: what was read of the
var files, what the plan of this reconcile ran with, and whether a ConfigMap or
Secret changed since it began.  Of the user's own arguments only those that set
a variable are modelled, and the namespace a reference is read from is not.

### Connect

| model | code |
|---|---|
| `spec`, `config`, `present` | `spec.forProvider`, the ProviderConfig it refers to, and whether sources and referenced ConfigMaps and Secrets are there |
| `mine`, `at` | the copies the reconcile read, and its place in `Connect` |
| `files`, `tmp` | `/tf/<uid>`, root and entrypoint; `/tmp/tf/<uid>/.git-credentials` |
| `env` | `GIT_CRED_DIR`, of the whole process |
| `Begin` | 191-214: `MkdirAll`, the ProviderConfig |
| `SetEnv`, `WriteGitCredentials` | 216-241 |
| `WriteMain`, `StartFetch`, `EndFetch` | 243-281: inline modules, go-getter, Flux artefacts |
| `WriteFiles` | 283-310: credentials, configuration and backend file, at the entrypoint |
| `ResolveEnv`, `CompareChecksums`, `InitTerraform` | 319-374 |
| `Collect` | `workdir.go` 110-147: a collector removes some of `/tf/<uid>`, or `/tmp/tf/<uid>` |

Each write may fail half-way, and a crash loses the environment and perhaps
both directories.  Collectors remove files at any moment; the history variable
`taken` holds the objects from under whose running reconcile they did, and the
reconcile may then fail anywhere.  terraform fails where the entrypoint is missing
or files contradict each other (`Works`): which contents do is the constant
`Clashes`, two modules in HCL and JSON, or a module and a
`crossplane-provider-config.tf` that configure the same provider.  A file's
content is that of the config (or the module) it
was written for.  go-getter updates the directory or clears it first, since it
may do either depending on the source.  Whether `init` is needed is left open
here; `Workspace.tla` decides it.  Three facts of the code the model keeps:
an inline module goes to the root whatever the entrypoint; the files of the
config go to the entrypoint, under the last element of their name, although
`types.go:54` calls the name relative to main.tf; and files that an earlier spec or
config wrote stay.

### Startup and ProviderConfigs

| model | code |
|---|---|
| `process`, `allowed` | `main()`: down, before the RBAC check, behind the gate, not; what `canWatchCRD` finds |
| `established`, `setup`, `collecting` | CRDs that are served; how far each of the four controllers is; scopes whose collectors run |
| `Boot`, `StartGated`, `StartUngated` | `main.go` 110-206, `SetupGated` and `Setup` of `terraform.go` |
| `Release`, `SetUp` | the callback of the gate: `Setup` of one controller, whose error is only logged; the collectors start before anything that may fail |
| `SyncFails`, `Crash` | `mgr.Start` returns, since informers for a kind that is missing never sync; any fatal error |
| `config`, `held` | ProviderConfigs and ClusterProviderConfigs, their finalizer |
| `phase`, `ref`, `finalizer`, `usage` | Workspaces, `spec.providerConfigRef`, the finalizer, the one ProviderConfigUsage of each |
| `at`, `mine`, `seen` | the reconciles: between Get and Track, connected; what the config controller counted |
| `Resolve`, `Track` | `client.go` 39-136 |
| `Finish` | the rest of the reconcile, which `Workspace.tla` has in detail: it adds or removes the finalizer |
| `Count`, `Settle` | the providerconfig reconciler of crossplane-runtime, as `config.go` sets it up |
| `CollectUsage` | Kubernetes' garbage collector: the usage is owned by the Workspace |

`using` and `relied` are history variables: whom the config's deletion found
relying on it, and who has not left it since.  A ClusterProviderConfig is
tracked but has no controller, so it is not in `Guarded` and may vanish at any
time.  `ProviderConfigs` extends `Startup`: both controllers work only while
they run, and a process that ends takes their reconciles with it.  The clients
and controllers of the two scopes differ in the namespace references are read
from, in the tracker, in the kinds a reference may name and in the flag that
the collectors get, so one scope's objects are modelled beside the start of
both.

## Runs

| run | what it asks | result |
|---|---|---|
| `one_object` | one object with two modules: is `init` skipped soundly, is `destroy` justified, is anything wanted taken away, is Ready said only of what is applied, is the contract kept; scheduled fairly, do specs get applied and deletions end | holds |
| `two_objects` | two objects, one backend: nothing a state knows of is orphaned, nobody touches the other's state, the finalizer holds, the contract is kept | holds |
| `init_args_edited` | are edited `initArgs` passed on | `InitArgsApplied` is violated |
| `sibling_changed` | does a change beside the entrypoint lead to `init` | `InitSound` is violated |
| `harness` | lock returned, init alone, plugin cache contract, nobody stuck, commands in order, plugins stable until something happens; does every reconcile end | holds |
| `harness_late_init` | are plugins stable when a context expires | `PluginsStable` is violated |
| `workdir` | one controller: are known directories kept, stale ones collected | holds |
| `workdir_both_scopes` | the same with both controllers | `KnownDirsKept` is violated |
| `options` | which source of a variable counts, and is what is applied what was planned | holds |
| `configs` | is a config kept while in use, and only then; do controllers run exactly where their kinds are | holds |
| `connect` | are files and credentials those of the spec and config, beside collectors; does every object get through in the end, unless files contradict each other | holds |
| `git_cred_dir` | the same credentials with two reconciles at a time | `OwnGitCredentials` is violated |

Bounds, and why they are enough to see the interesting cases.

* `one_object`: two modules, a fetched one of two files with a resource in
  each, and an inline one with a ProviderConfig's file, an output and the first
  resource, which needs another provider; one fault, two edits, so that a spec
  can be edited and edited back, before, between and after the fault.  From the
  fetched module to the inline one, the second file stays and contradicts
  nothing; back again, the ProviderConfig's file does contradict the new main.tf,
  unless go-getter clears the directory (`Remote`): `Blocked` is reached, and
  without that excuse `SpecApplied` and `DeletionCompletes` are violated.  A fault
  may be any failing command, a fetch or write that stops half-way, an apply or
  destroy that is killed and leaves its lock or leaks, a restart with or without
  directories, or a directory in use that is lost whole or in part.  Resources
  that are applied, kept, and removed occur, as do partial applies and destroys.
  `AllDigested` holds here, `sibling_changed` is where it does not.  That the
  safety properties need no second fault is what the proofs say.
* `two_objects`: one module with a resource and an output, one fault, no
  edit.  Two objects are enough for every pair of interleaved reconciles; a
  third would only add what the proofs cover anyway.
* `sibling_changed`, `init_args_edited`: one edit and no fault: what they show
  needs no more.
* `harness`: two callers and one event (`MaxEvents`), an expired context or a
  change of `pluginCache`.  A reader and a writer, and two writers, meet at
  every place.
* `workdir`: two objects, one with credentials in `/tmp/tf`, one other entry,
  two faults.  The two collectors of a scope run concurrently.  The other entry
  stands for what has no UUID for a name, such as the plugin cache; `TypeOK` says
  that no pass ever looks at it.
* `options`: two variables and values, two keys of ConfigMaps or Secrets, which
  may be missing, and two edits.  Seven specs, chosen so that every kind of
  source overrides every other one somewhere, and that the number, the order
  and the format of the var files differ, so that files of one command are
  found by another.  The theorems are for any specs.
* `configs`: one Workspace, a ProviderConfig and a ClusterProviderConfig, so
  that a reference can change between a guarded config, an unguarded one and
  none; one fault (a failing call, a failed `Setup` or a crash) and two
  deletions or edits.  The kinds of the namespaced scope are installed one by
  one, those of the other scope never.  The theorems are for any number.
* `connect`: two Workspaces, four specs (inline in both formats, remote and
  Flux, two of them with an entrypoint, one with env), two configs (one with
  git credentials), one fault or removal and one edit, one reconcile at a time;
  the two modules contradict each other side by side.  `git_cred_dir` allows two
  at a time.

Deadlock is checked, and there is none, in all runs but `configs`, where the
system may come to rest: the objects gone, everything established, no edit left.

### What the violations show

* `init_args_edited`.  The checksum knows nothing of `initArgs`: a change of
  them alone has no effect until something else changes in the directory.
* `sibling_changed`.  The entrypoint calls a local module beside it; that module
  changes, the text of the entrypoint's files does not, so the checksum does not
  either.  `init` is skipped on every reconcile, and every plan fails.
* `harness_late_init`.  A context that is already done when `runCommand` is
  called, because it expired while the caller waited for `rwmutex`, or during
  the failed `workspace select` before `workspace new`, leads to the panic
  above; the process then runs without supervision and without lock, beside an
  init, or as one.  `InitAlone`, of supervised processes, still holds.
* `workdir_both_scopes`.  Each scope's collectors list the Workspaces of that
  scope only and take the other's directories for stale.
* `git_cred_dir`.  `os.Setenv` sets `GIT_CRED_DIR` for the process, and
  go-getter and `terraform init` read it later: another reconcile may have set
  it in between.  Two reconciles run at a time when `max-reconcile-rate` is
  above 1, and also, whatever it is, when both scopes have Workspaces, since
  each has a controller of its own.

More facts follow from the models, without runs of their own.

* When `inlineFormat` is edited, `main.tf` of the earlier spec stays beside
  `main.tf.json`, and terraform refuses the two.  Every reconcile fails from then
  on, until somebody removes a file or the directory; a deletion waits as well,
  since `Observe` is not reached.  The repository's README ("Polling Interval")
  says that changes of the spec "will still be reconciled immediately".  In the
  model this is `Blocked`.  Files that do not contradict the present ones are
  worse in another way: their resources stay, and the object is Ready with them
  (`Applied` says so).
* When a collector has removed a file of the module (`torn`), the plan that
  follows may find its resource to be removed; `apply` removes it, although the
  spec asks for it and state is remote.  The repository's README ("Known
  limitations") asks for remote state *or* a `/tf` that is not lost.  Without the
  excuse for `torn` objects, `WantedKept` is violated by one such fault.
* A var file overrides an explicit var (`LastSourceWins` has the order), contrary
  to the comment of `varFiles`, "Explicitly declared vars take precedence".
* `Observe` of a deleted object without resources leaves its workspace for
  `default` and then reads the outputs, which are now those of `default`.  If
  the external name of another Workspace is `default` (nothing forbids it), the
  object seems to exist, and `Delete` runs `terraform destroy` in `default`.
  This is why theorems about what is destroyed assume `NoneDefault`.
* A pass of a collector lists the objects before it reads the directory, so an
  object created and connected in between loses its directory.  This is why
  `KnownDirsKept` is about objects that were there when the pass listed.
  `Workspace.tla` (`LoseDir`) shows that a directory lost whole makes a reconcile
  fail, and harms nothing else as long as state is remote.
* In `Connect.tla` a collector may take a file between its write and terraform,
  which then runs without it: nothing looks for it again.  This is why
  `FilesComplete` and `OwnGitCredentials` excuse `taken`.
* In the window between reading a config and tracking its use
  (`clients/client.go:83`) the config may be deleted: `UsersKeepConfig` is about
  those who used it when its deletion was requested, and excludes this window by
  the history variable `relied`.
* In `Harness.tla`, `PluginsStable` is violated without an expired context too
  (`MaxExpiries = 0`, `MaxToggles = 1`), since a directory that links into the cache does so after `pluginCache` was
  switched off, while its commands take no lock any more; and `Diff` runs
  `terraform plan`, hence plugins, without the lock, as its comment says it
  means to.
* A ClusterProviderConfig may be deleted while Workspaces need it, to be
  destroyed as well; nothing in the repository promises otherwise.

## Fairness

* `Workspace`: weak fairness of every object's `Reconcile`.  The work queue
  hands out every object again after a change, an error (with backoff) and
  every poll interval, and every command ends, since the context's timeout
  kills it at the latest.  Users, drift, faults, crashes and operators
  (`Unlock`, `ResolveCreate`) are not fair: the liveness properties say what
  holds unless an object waits for one of them.
  `ApplyOne` and `ApplyFails` are alternatives of one another, and fairness of
  their disjunction does not say which is taken; the budgets of faults and
  edits bound the failures.
* `Harness`: weak fairness of locking, of the processes and of the end of a
  command; strong fairness of `Announce`, because `sync.Mutex`, on which
  writers queue, hands over in order when one has waited long (its starvation
  mode).  Beginning a reconcile, expiry and changes of the config are not
  fair.
* `Workdir`: weak fairness of each collector: the ticker of `Run` goes on
  firing, also after errors.
* `ProviderConfigs`: weak fairness of `Establishes` (what is installed gets
  served), `Starts` (the kubelet restarts the container), `SetsUp` (the gate's
  callbacks), `Works`, `Collects` and `Guards` (work queues and garbage
  collector).  Users, faults and failing syncs are not fair.
* `Connect`: weak fairness of a reconcile once it has begun, strong fairness of
  `Begin`: with one reconcile at a time it is disabled whenever another one
  runs, and the work queue is first-in, first-out.

## Proofs

Every theorem is about all values of the constants that satisfy the named
assumptions.

**`WorkspaceProofs`** (assuming `ConstantsOK`).  `TypeOK` is inductive by
itself (`TypeCorrect`).  None of the other invariants is: what they say of a
moment depends on what was read some commands ago.  The inductive invariant has
four parts, which differ in what they assume of the checksum and of the names of
the Terraform workspaces, so that every theorem assumes no more than it rests on.
All of them excuse the objects in `torn`.

1. *Directories* (`DirInv`; nothing is assumed of the names: objects may even
   share a Terraform workspace).  `DirOK`: what was initialised has its providers
   installed, which makes up for the checksum leaving them out; the module of the
   reconcile is among the files once it was written; and, where `AllDigested`
   holds, a directory is usable once the checksum or `init` has let it through.
   That rests on `SumOK`: where `AllDigested` holds, a stored checksum describes
   files that do not contradict each other and were initialised for.  From it, and
   from `AllDigested`: `InitIsSound`.
2. *Selected workspaces* (`SelInv`; assumes `NoneDefault`: no object's
   Terraform workspace is called `default`).  `SelectedOK`: which workspace is
   selected at each place of the reconcile, and in particular that only a
   deleted object found without resources is in `default`; `FoundOK`: such an
   object finds no outputs there, for `default` never has any.  From it:
   `DestroyIsJustified` and `OwnerChanges`, also for objects that share a
   Terraform workspace.
3. *Objects and their infrastructure* (`IInv`, which contains `SelInv`; assumes
   `NamesOwned`: each object also has a Terraform workspace of its own; nothing
   is assumed of the checksum).
   * `CopyOK`: a fresh copy is the object's;
   * `GoneOK`: what was read of a deleted object is still so: nobody but its
     own reconcile could have changed it;
   * `AtRest`, `HeldOK`: resources exist under a finalizer only, and whoever is
     about to create them holds it.

   From it: `NothingOrphaned` and `FinalizerProtects`.
4. *What was planned* (`PlanInv`: `IInv`, `DirInv` and `PlanOK`; assumes
   `NamesOwned`; an `init` wrongly skipped makes commands fail, but no command
   that succeeds tells anything false).  `PlanOK`: a plan without differences, or an
   apply, has shown that the state has what the files declare, those of the
   module among them.  From it: `ReadyIsTrue` and, with one more invariant,
   `NothingWantedIsLost`.

None of the theorems of 3 and 4 would hold of two objects with one Terraform
workspace: either may create, change or destroy what the other has observed.

A step of one object leaves the others alone (`OthersAlone`: their objects,
locals and directories do not change), so each layer is proved for the object
that steps, action by action.

`NothingWantedIsLost` is about the spec a reconcile works for, which may be out
of date, and about a directory, which may be older still.  It rests on three
facts: only `apply` and `destroy` change resources (`ResourcesFrame`), and they
run in the object's own Terraform workspace (`InOwnWorkspace`, from `SelectedOK`)
on files among which are those of the module that was read (`OwnFiles`, from
`DirOK`); a reconcile keeps its copy of the object to its end (`CopyKept`); and
who takes the object for deleted is right, since nobody takes a deletion back
(`DeletedOK`, an invariant of its own).

**`WorkspaceRefinement`** proves `WorkspaceImplementsContract`, step by step,
from `PlanInv` and `DeletedOK` (so under `NamesOwned`).  The contract's `plan` is
the module in the reconcile's copy, its `desired` what the files in the directory
declare: the plan, once it was written, and what earlier plans left.  `Start` is
its `Read`, `ConnectPrepare` its `Prepare`, `LoseDir` its `Lose`; `ApplyOne` and
`DestroyOne` are its `Change`, which may only make what is desired, and remove
what neither the plan nor another file asks for, or everything of a deleted
object; the status updates are its `Announce` and `Doubt`, and Ready may only be
announced by who worked for the spec as it is now; whatever else returns, and a
crash, which makes all objects' reconciles return at once, are its `Stop`; the
rest is silent.  What is applied from a torn directory is its `Damage`, of which
nothing is promised.  A new object starts without the plan of an earlier one of its name,
which is the last part of `DeletedOK`.

**`HarnessProofs`** (assuming `HarnessConstants` and `NoCommandIsNew`).
`HInv` adds to `TypeOK` that the set of readers is the set of callers that run
a reading command with the cache on (`ReadersOK`), that a running writer holds
the lock alone (`WriterOK`), and that only commands with a lock wait, and
only while a writer has announced itself (`WaitOK`).  From it:
`HarnessTypeCorrect`, `LocksReturned`, `InitIsAlone`,
`HarnessImplementsPluginCache`, and `NobodyDeadlocks`: a chain of waiting callers
has at most two members and ends at callers that run their command.  Together
with `ReconcileAdvances`, by which no command is followed by an earlier one
(`Stage`), whatever fails, this is the safety half of `ReconcileEnds`; what it
leaves to TLC is that commands end and waiting callers get their turn.
`PluginsAreStable` says that expired contexts and
changes of `pluginCache` are the only ways in which a plugin in use can change:
before the first of them `Quiet` holds too, so no process is astray and every
cache is on, and the lock covers what matters (`StableUndisturbed`).

**`WorkdirProofs`** (assuming `WorkdirConstants`).  `WInv` adds that what a
pass has yet to remove was not listed.  From it `WorkdirTypeCorrect`, by which
no pass ever looks at what is not a Workspace's.  A second invariant says that what was live when a pass
listed, and is of its scope, is in its list (`ListOK`).  From it `OwnScopeKeeps`:
however many scopes there are, the directory of a live object is removed only by
a pass that began before the object was created or by a collector of another
scope; and, when all objects are of one scope and that scope's controller is the
only one (`OneScope`), `KnownObjectsKept`.  `workdir_both_scopes` shows that
`OneScope` cannot be dropped, and `OwnScopeKeeps` that the other scope is the only
reason.

**`OptionsProofs`** (assuming `OptionsConstants`, which `Options.tla` states
without a premise).  `OInv` adds to `TypeOK` what the arguments and the files
collected so far are, as a function of the copy and of what was read (`FilesOK`,
`ArgsOK`); that the files written so far are in the directory, whatever else is
(`DiskOK`); that the outcome is terraform's reading of both (`RanOK`); and, as
long as no ConfigMap or Secret changed, that what is read is what the plan read
(`ReadOK`, `PlanOK`).  `LastSourceIsSafe` then follows from where an argument
stands, which tells its source (`Positions`), and from `EffectiveIs`, terraform's
rule; `PlanIsApplied` from `RunsUnchanged`: with the sources unchanged the outcome
of a command depends on the copy and the store only, and not on what the
directory holds.  No induction is needed: the model builds arguments and files
one at a time, as the code does, and the invariant carries what a fold would
have to be shown to compute.

**`ProviderConfigsProofs`** (assuming `StartupConstants` and
`ConfigConstants`).  `PInv` adds to `TypeOK` that a reconcile that goes
on has found a Workspace and a config (`MineOK`) and that only configs with a
controller are reconciled (`GuardedOK`); that a controller behind the gate is up only once its kinds are
there, and those stay (`GateOK`); and, for the race between tracking and
counting, that whoever uses a config has the usage that says so (`UsageOK`),
that those who relied on a config when it was deleted still use it
(`ReliedOK`), and that a count taken of a config being deleted missed none of
them (`SeenOK`): a Workspace that connects later may be missed, one that was
connected before cannot.  From it `ConfigsTypeCorrect`, `GateIsSafe` and
`UsersAreSafe`.

**`ConnectProofs`** (assuming `ConnectConstants`).  `CInv` says what each place
of `Connect` has written so far (`FilesOK`, `TmpOK`), whatever was there
before and unless a collector has taken from it since the reconcile began
(`taken`), and, when one reconcile runs at a time (`OneAtATime`), that the
variable is the running one's (`EnvOK`).  From it `ConnectTypeCorrect` and
`FilesAreComplete`, for any number of concurrent reconciles and collectors, and
`CredentialsAreOwn` under `OneAtATime`; `git_cred_dir` shows that this cannot
be dropped.

Every safety invariant and action property of the passing runs is proved.  Only
model-checked are the liveness properties (`SpecApplied`, `DeletionCompletes`,
`ReconcileEnds`, `StaleCollected`, `UnusedConfigGoes`, `DeletedWorkspaceGoes`,
`ServesInstalled`, `CollectsAnyway`, `ComesToRun`): they rest on fairness, and
what the provers here lack for it is ENABLED.

## Not modelled

* The user's changes of a spec's entrypoint in `Workspace.tla`: a module there is
  what is in the entrypoint's directory.  `Connect.tla` has entrypoints.
* Remote content that changes without a change of the spec: it is like an edit,
  which is modelled.
* Local state.  Where the backend is the directory itself, losing it loses the
  state and everything in it becomes an orphan, as the repository's README says.
* The clean-up of what a killed apply leaked: `leaked` only grows, and whoever
  finds the resources in the infrastructure removes them by hand.
* A directory beside the entrypoint that go-getter or a collector has updated in
  part: `needs` and `declares` of a file change with the module as a whole.
* Management policies and paused objects: every object has the default
  policy.
* The delay of the informer cache: a read returns the current object.  For
  most reads a stale copy is like a read that came earlier, and optimistic
  concurrency, which is modelled, rejects what is written from it; a cache
  that lags behind the process's own usages is the exception, and is left.
* The number of users a config shows in its status: only whether it is zero.
* Two terraform commands that contend for one state lock (see Workspace), and
  what the harness's unsupervised processes do to the backend: `Harness.tla`
  has them, `Workspace.tla` does not.
* Connection details, the values of outputs, the text of errors (`Classify`),
  metrics, flags, leader election, change logs and logging: data or wiring,
  and no property is about them.
* `Harness.Validate` (no controller calls it), deep copies, registration,
  boot check and feature flags.
