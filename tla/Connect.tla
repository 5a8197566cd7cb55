------------------------------ MODULE Connect ------------------------------
(***************************************************************************)
(* Connect, of internal/controller/{namespaced,cluster}/workspace: what it *)
(* writes to the working directory and to /tmp/tf/<uid>, step by step, and *)
(* the environment variable GIT_CRED_DIR of the process, by which git      *)
(* finds the credentials when go-getter or terraform init run it.  The     *)
(* working directory collectors of both scopes run all the while: one that *)
(* does not see a Workspace removes its directories (see Workdir.tla).     *)
(*                                                                         *)
(* Whether init may be skipped is the subject of Workspace.tla; here it    *)
(* may always be.                                                          *)
(***************************************************************************)
EXTENDS Naturals

CONSTANTS
    Workspaces,
    Modules,
    Deep,         \* modules, fetched, that have the entrypoint directory
    Data,         \* contents of the files of a ProviderConfig
    Clashes,      \* contents that terraform refuses side by side
    Missing,      \* no such file
    Unset,        \* GIT_CRED_DIR is not set
    Specs,        \* those users may ask for
    Configs,
    OneAtATime,   \* max-reconcile-rate is 1 and one scope has Workspaces
    MaxFaults,    \* bound: calls that fail, crashes, removals
    MaxEdits      \* bound: what users do

Git     == ".git-credentials"
Written == {Git, "credentials", "crossplane-provider-config.tf",
            "crossplane.remote.tfbackend"}
Names   == Written \cup {"main.tf", "main.tf.json"}

\* The files terraform reads as configuration.
Loaded  == {"main.tf", "main.tf.json", "crossplane-provider-config.tf"}

\* The root of the working directory and the entrypoint.
Places  == {".", "entrypoint"}
Sources == {"Inline", "InlineJSON", "Remote", "Flux"}

\* A ProviderConfig prescribes some of the files of Written.
AllSpecs   == [source : Sources, module : Modules, entry : Places, env : BOOLEAN]
AllConfigs == [files : SUBSET Written, data : Data]

ASSUME ConnectConstants ==
    /\ Deep \subseteq Modules
    /\ Missing \notin Modules \cup Data
    /\ Clashes \subseteq SUBSET (Modules \cup Data)
    /\ Unset \notin Workspaces
    /\ Specs \subseteq AllSpecs
    /\ Configs \subseteq AllConfigs
    /\ OneAtATime \in BOOLEAN
    /\ MaxFaults \in Nat
    /\ MaxEdits \in Nat

VARIABLES
    spec,      \* spec.forProvider of each Workspace
    config,    \* the ProviderConfig it refers to
    present,   \* do the sources exist, and the ConfigMaps env refers to
    at,        \* the place of its reconcile in Connect
    mine,      \* that reconcile's copies
    taken,     \* history: a collector took some of its files meanwhile
    files,     \* /tf/<uid>
    tmp,       \* /tmp/tf/<uid>/.git-credentials
    env,       \* whose /tmp/tf/<uid> GIT_CRED_DIR names
    faults, edits

asked == <<spec, config, present>>
own   == <<mine, taken>>
disk  == <<files, tmp>>
vars  == <<asked, at, own, disk, env, faults, edits>>

Contents == Modules \cup Data \cup {Missing}
Empty    == [p \in Places |-> [n \in Names |-> Missing]]

Fault == faults < MaxFaults /\ faults' = faults + 1

Go(w, place) == at' = [at EXCEPT ![w] = place]

\* The files f with some of those at place p written anew.
Put(f, p, names, data) ==
    [f EXCEPT ![p] = [n \in Names |-> IF n \in names THEN data ELSE @[n]]]

\* Is place p a directory of f.
Exists(f, p) == p = "." \/ \E n \in Names : f[p][n] # Missing

\* Two files at place p of f contradict each other: the same module as HCL and
\* as JSON, or a config file and a module that configure the same provider.
Clash(f, p) == \E n, k \in Loaded : n # k /\ {f[p][n], f[p][k]} \in Clashes

Main(s)    == IF s.source = "InlineJSON" THEN "main.tf.json" ELSE "main.tf"
Fetched(s) == s.source \in {"Remote", "Flux"}
Brings(m)  == IF m \in Deep THEN Places ELSE {"."}
UsesGit(w) == Git \in mine[w].config.files

\* terraform works where there is a directory whose files make sense.
Works(w) == LET e == mine[w].spec.entry IN
                Exists(files[w], e) /\ ~Clash(files[w], e)

Init ==
    /\ spec \in [Workspaces -> Specs]
    /\ config \in [Workspaces -> Configs]
    /\ present = {"source", "values"}
    /\ at = [w \in Workspaces |-> "idle"]
    /\ mine = [w \in Workspaces |-> [spec |-> spec[w], config |-> config[w]]]
    /\ taken = {}
    /\ files = [w \in Workspaces |-> Empty]
    /\ tmp = [w \in Workspaces |-> Missing]
    /\ env = Unset
    /\ faults = 0
    /\ edits = 0

-----------------------------------------------------------------------------
(* Connect                                                                 *)

\* Mutant: every file of the config is taken for git credentials.
BeginWithGit(w) ==
    /\ at[w] = "idle"
    /\ OneAtATime => \A v \in Workspaces : at[v] = "idle"
    /\ mine' = [mine EXCEPT ![w] = [spec |-> spec[w], config |-> config[w]]]
    /\ taken' = taken \ {w}
    /\ Go(w, IF config[w].files # {} THEN "setenv" ELSE "source")
    /\ UNCHANGED <<asked, disk, env, faults, edits>>

\* The directories exist, the ProviderConfig was resolved.  Where that fails
\* nothing has happened.
Begin(w) ==
    /\ at[w] = "idle"
    /\ OneAtATime => \A v \in Workspaces : at[v] = "idle"
    /\ mine' = [mine EXCEPT ![w] = [spec |-> spec[w], config |-> config[w]]]
    /\ taken' = taken \ {w}
    /\ Go(w, IF Git \in config[w].files THEN "setenv" ELSE "source")
    /\ UNCHANGED <<asked, disk, env, faults, edits>>

\* Connect returns an error: something outside went wrong, or a collector has
\* removed what the call needs.
GiveUp(w) == Go(w, "idle") /\ (Fault \/ (w \in taken /\ UNCHANGED faults))

\* Mutant: the variable is set once and for all.
SetEnvOnce(w) ==
    /\ at[w] = "setenv"
    /\ \/ GiveUp(w) /\ UNCHANGED env
       \/ /\ env' = IF env = Unset THEN w ELSE env
          /\ Go(w, "git")
          /\ UNCHANGED faults
    /\ UNCHANGED <<asked, own, disk, edits>>

\* GIT_CRED_DIR, of the whole process, once the credentials are extracted.
SetEnv(w) ==
    /\ at[w] = "setenv"
    /\ \/ GiveUp(w) /\ UNCHANGED env
       \/ /\ env' = w
          /\ Go(w, "git")
          /\ UNCHANGED faults
    /\ UNCHANGED <<asked, own, disk, edits>>

WriteGitCredentials(w) ==
    /\ at[w] = "git"
    /\ \/ GiveUp(w) /\ UNCHANGED tmp
       \/ /\ tmp' = [tmp EXCEPT ![w] = mine[w].config.data]
          /\ Go(w, "source")
          /\ UNCHANGED faults
    /\ UNCHANGED <<asked, own, files, env, edits>>

\* Inline: the module is written to the root, whatever the entrypoint.
WriteMain(w) ==
    /\ at[w] = "source"
    /\ ~Fetched(mine[w].spec)
    /\ \/ GiveUp(w) /\ UNCHANGED files
       \/ /\ files' = [files EXCEPT ![w] =
                          Put(@, ".", {Main(mine[w].spec)}, mine[w].spec.module)]
          /\ Go(w, "write")
          /\ UNCHANGED faults
    /\ UNCHANGED <<asked, own, tmp, env, edits>>

\* Flux: has the source an artefact.
ArtefactReady(w) == mine[w].spec.source = "Flux" => "source" \in present

\* Remote: go-getter starts.  Flux: so it does, if the artefact is ready.
StartFetch(w) ==
    /\ at[w] = "source"
    /\ Fetched(mine[w].spec)
    /\ Go(w, IF ArtefactReady(w) THEN "fetch" ELSE "idle")
    /\ UNCHANGED <<asked, own, disk, env, faults, edits>>

\* go-getter replaces the directory or updates it, or fails before or after it
\* has cleared it.
EndFetch(w) ==
    /\ at[w] = "fetch"
    /\ \E old \in {files[w], Empty} :
          \/ /\ "source" \in present
             /\ files' = [files EXCEPT ![w] =
                   [p \in Places |->
                      IF p \in Brings(mine[w].spec.module)
                        THEN [old[p] EXCEPT !["main.tf"] = mine[w].spec.module]
                        ELSE old[p]]]
             /\ Go(w, "write")
             /\ UNCHANGED faults
          \/ /\ files' = [files EXCEPT ![w] = old]
             /\ IF "source" \in present THEN GiveUp(w)
                ELSE Go(w, "idle") /\ UNCHANGED faults
    /\ UNCHANGED <<asked, own, tmp, env, edits>>

\* Mutant: the files go to the root.
WriteToRoot(w) ==
    LET c == mine[w].config IN
    /\ at[w] = "write"
    /\ \/ /\ \E some \in SUBSET c.files :
                files' = [files EXCEPT ![w] = Put(@, ".", some, c.data)]
          /\ GiveUp(w)
       \/ /\ files' = [files EXCEPT ![w] = Put(@, ".", c.files, c.data)]
          /\ Go(w, "env")
          /\ UNCHANGED faults
    /\ UNCHANGED <<asked, own, tmp, env, edits>>

\* Mutant: files that are there already cannot be written.
WriteNew(w) ==
    LET c == mine[w].config
        e == mine[w].spec.entry
    IN
    /\ at[w] = "write"
    /\ IF \E n \in c.files : files[w][e][n] # Missing
         THEN Go(w, "idle") /\ UNCHANGED <<files, faults>>
         ELSE /\ files' = [files EXCEPT ![w] = Put(@, e, c.files, c.data)]
              /\ Go(w, "env")
              /\ UNCHANGED faults
    /\ UNCHANGED <<asked, own, tmp, env, edits>>

\* Credentials, configuration and backend file, at the entrypoint.  The call
\* that fails leaves what was written before it.
WriteFiles(w) ==
    LET c == mine[w].config
        e == mine[w].spec.entry
    IN
    /\ at[w] = "write"
    /\ IF c.files # {} /\ ~Exists(files[w], e)
         THEN Go(w, "idle") /\ UNCHANGED <<files, faults>>
         ELSE \/ /\ \E some \in SUBSET c.files :
                       files' = [files EXCEPT ![w] = Put(@, e, some, c.data)]
                 /\ GiveUp(w)
              \/ /\ files' = [files EXCEPT ![w] = Put(@, e, c.files, c.data)]
                 /\ Go(w, "env")
                 /\ UNCHANGED faults
    /\ UNCHANGED <<asked, own, tmp, env, edits>>

\* The values of env; one that is not found ends the reconcile.
ResolveEnv(w) ==
    /\ at[w] = "env"
    /\ IF mine[w].spec.env /\ "values" \notin present
         THEN Go(w, "idle")
         ELSE Go(w, "checksum")
    /\ UNCHANGED <<asked, own, disk, env, faults, edits>>

\* Equal checksums: terraform init is skipped, and the next command fails where
\* terraform does not work.
CompareChecksums(w) ==
    /\ at[w] = "checksum"
    /\ \/ Go(w, "init")
       \/ Go(w, IF Works(w) THEN "run" ELSE "idle")
    /\ UNCHANGED <<asked, own, disk, env, faults, edits>>

\* terraform init fails on files that contradict each other, those of earlier
\* specs and configs included.
InitTerraform(w) ==
    /\ at[w] = "init"
    /\ \/ GiveUp(w)
       \/ /\ Go(w, IF Works(w) THEN "run" ELSE "idle")
          /\ UNCHANGED faults
    /\ UNCHANGED <<asked, own, disk, env, edits>>

\* The other commands of the reconcile, which ends.
Run(w) ==
    /\ at[w] = "run"
    /\ Go(w, "idle")
    /\ UNCHANGED <<asked, own, disk, env, faults, edits>>

Connect(w) ==
    \/ SetEnv(w) \/ WriteGitCredentials(w)
    \/ WriteMain(w) \/ StartFetch(w) \/ EndFetch(w)
    \/ WriteFiles(w) \/ ResolveEnv(w) \/ CompareChecksums(w) \/ InitTerraform(w)

-----------------------------------------------------------------------------
(* Users, collectors and crashes                                           *)

Edit == edits < MaxEdits /\ edits' = edits + 1

EditWorkspace(w) ==
    /\ Edit
    /\ \E s \in Specs : spec' = [spec EXCEPT ![w] = s]
    /\ UNCHANGED <<config, present, at, own, disk, env, faults>>

EditConfig(w) ==
    /\ Edit
    /\ \E c \in Configs : config' = [config EXCEPT ![w] = c]
    /\ UNCHANGED <<spec, present, at, own, disk, env, faults>>

\* Sources, ConfigMaps and Secrets come and go.
EditWorld ==
    /\ Edit
    /\ \E p \in SUBSET {"source", "values"} : present' = p
    /\ UNCHANGED <<spec, config, at, own, disk, env, faults>>

\* A collector that does not see w removes /tf/<uid> file by file, or its
\* directory in /tmp/tf, at any moment.
Collect(w) ==
    /\ Fault
    /\ \/ /\ \E gone \in SUBSET {l \in Places \X Names : files[w][l[1]][l[2]] # Missing} :
                files' = [files EXCEPT ![w] =
                   [p \in Places |-> [n \in Names |->
                       IF <<p, n>> \in gone THEN Missing ELSE @[p][n]]]]
          /\ UNCHANGED tmp
       \/ tmp' = [tmp EXCEPT ![w] = Missing] /\ UNCHANGED files
    /\ taken' = IF at[w] = "idle" THEN taken ELSE taken \cup {w}
    /\ UNCHANGED <<asked, at, mine, env, edits>>

\* A new process has a new environment; it finds the directories, or none.
Crash ==
    /\ Fault
    /\ at' = [w \in Workspaces |-> "idle"]
    /\ env' = Unset
    /\ \/ UNCHANGED disk
       \/ /\ files' = [w \in Workspaces |-> Empty]
          /\ tmp' = [w \in Workspaces |-> Missing]
    /\ UNCHANGED <<asked, own, edits>>

-----------------------------------------------------------------------------

Next ==
    \/ \E w \in Workspaces :
          \/ Begin(w) \/ Connect(w) \/ Run(w)
          \/ EditWorkspace(w) \/ EditConfig(w) \/ Collect(w)
    \/ EditWorld \/ Crash

Spec == Init /\ [][Next]_vars

\* The work queue hands every object out again, and in order, so that none
\* waits for its turn for ever; goroutines run.
FairSpec ==
    /\ Spec
    /\ \A w \in Workspaces : SF_vars(Begin(w)) /\ WF_vars(Connect(w) \/ Run(w))

-----------------------------------------------------------------------------
(* Properties                                                              *)

Steps == {"idle", "setenv", "git", "source", "fetch", "write", "env",
          "checksum", "init", "run"}

\* Every variable has the type its declaration says; only a config with git
\* credentials makes Connect set the variable.
TypeOK ==
    /\ spec \in [Workspaces -> Specs]
    /\ config \in [Workspaces -> Configs]
    /\ present \subseteq {"source", "values"}
    /\ at \in [Workspaces -> Steps]
    /\ mine \in [Workspaces -> [spec : Specs, config : Configs]]
    /\ taken \subseteq Workspaces
    /\ files \in [Workspaces -> [Places -> [Names -> Contents]]]
    /\ tmp \in [Workspaces -> Data \cup {Missing}]
    /\ env \in Workspaces \cup {Unset}
    /\ faults \in 0 .. MaxFaults
    /\ edits \in 0 .. MaxEdits
    /\ \A w \in Workspaces : at[w] \in {"setenv", "git"} => UsesGit(w)

\* terraform runs on what the specs that Connect has read prescribe: whatever
\* earlier reconciles, crashes and collectors left, cleared or failed to write,
\* the module is in the directory and every file of the config is where
\* terraform runs.  Not so when a collector has taken files from under the
\* reconcile itself: nothing looks for them again.
FilesComplete ==
    \A w \in Workspaces \ taken : at[w] = "run" =>
        LET s == mine[w].spec
            c == mine[w].config
        IN  /\ \A n \in c.files : files[w][s.entry][n] = c.data
            /\ ~Fetched(s) => files[w]["."][Main(s)] = s.module
            /\ Fetched(s) /\ s.entry \in Brings(s.module) =>
                  files[w][s.entry]["main.tf"] = s.module

\* git, run by go-getter or terraform init, finds the credentials of the
\* Workspace's own ProviderConfig, unless a collector has removed them since
\* they were written.
OwnGitCredentials ==
    \A w \in Workspaces \ taken : at[w] \in {"fetch", "init"} /\ UsesGit(w) =>
        env = w /\ tmp[w] = mine[w].config.data

\* Can Connect succeed for w.
Connectable(w) ==
    LET s == spec[w] IN
    /\ IF Fetched(s) THEN "source" \in present /\ s.entry \in Brings(s.module)
                     ELSE s.entry = "."
    /\ s.env => "values" \in present

\* A Workspace whose source and references come to stay is prepared again and
\* again for its current spec and config, whatever a failure, a crash or a
\* collector left behind, unless files of earlier specs and configs contradict
\* the present ones: then terraform fails for ever, for no step of Connect
\* removes them.
ComesToRun ==
    \A w \in Workspaces :
        <>[]Connectable(w) =>
            \/ []<>(/\ at[w] = "run"
                    /\ mine[w] = [spec |-> spec[w], config |-> config[w]])
            \/ <>[]Clash(files[w], spec[w].entry)

=============================================================================
