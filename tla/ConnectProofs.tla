--------------------------- MODULE ConnectProofs ---------------------------
(* What Connect leaves in the directory is complete, and git finds the      *)
(* Workspace's own credentials as long as one reconcile runs at a time, if  *)
(* no collector takes files from under the reconcile: for all Workspaces,   *)
(* specs, configs and numbers of failures, removals and edits.              *)
EXTENDS Connect, TLAPS

\* The module is in the directory once the source was dealt with, the files
\* of the config once they were written.
Sourced  == {"write", "env", "checksum", "init", "run"}
Complete == {"env", "checksum", "init", "run"}

ModuleThere(w) ==
    LET s == mine[w].spec IN
    /\ ~Fetched(s) => files[w]["."][Main(s)] = s.module
    /\ Fetched(s) /\ s.entry \in Brings(s.module) =>
          files[w][s.entry]["main.tf"] = s.module

ConfigThere(w) ==
    \A n \in mine[w].config.files :
        files[w][mine[w].spec.entry][n] = mine[w].config.data

FilesAt(w) ==
    /\ at[w] = "fetch" => Fetched(mine[w].spec)
    /\ w \notin taken /\ at[w] \in Sourced => ModuleThere(w)
    /\ w \notin taken /\ at[w] \in Complete => ConfigThere(w)

FilesOK == \A w \in Workspaces : FilesAt(w)

\* git's credentials are written before the source is dealt with.
TmpOK ==
    \A w \in Workspaces \ taken :
        at[w] \in Steps \ {"idle", "setenv", "git"} /\ UsesGit(w) =>
            tmp[w] = mine[w].config.data

\* One at a time: the variable is that of the one that has set it.
EnvOK ==
    OneAtATime =>
        /\ \A v, w \in Workspaces : at[v] # "idle" /\ at[w] # "idle" => v = w
        /\ \A w \in Workspaces :
              at[w] \in Steps \ {"idle", "setenv"} /\ UsesGit(w) => env = w

\* The inductive invariant.
CInv == TypeOK /\ FilesOK /\ TmpOK /\ EnvOK

-----------------------------------------------------------------------------
(* Directories                                                             *)

Dirs == [Places -> [Names -> Contents]]

\* The parts of what was asked for have their types.
LEMMA MineTypes ==
    ASSUME ConnectConstants, TypeOK, NEW w \in Workspaces
    PROVE  /\ mine[w].spec \in AllSpecs
           /\ mine[w].config.files \in SUBSET Written
           /\ mine[w].config.data \in Data
           /\ mine[w].spec.entry \in Places
           /\ mine[w].spec.module \in Modules
           /\ Main(mine[w].spec) \in Names \ Written
           /\ files[w] \in Dirs
BY DEF ConnectConstants, TypeOK, AllSpecs, AllConfigs, Main, Names, Written, Git, Dirs

\* The module as go-getter leaves it.
Fetch(old, m) ==
    [p \in Places |-> IF p \in Brings(m) THEN [old[p] EXCEPT !["main.tf"] = m]
                      ELSE old[p]]

LEMMA FetchFacts ==
    ASSUME NEW old \in Dirs, NEW m \in Modules
    PROVE  /\ Fetch(old, m) \in Dirs
           /\ \A p \in Places : p \in Brings(m) => Fetch(old, m)[p]["main.tf"] = m
BY DEF Fetch, Dirs, Contents, Names, Written

LEMMA EmptyIsDir == Empty \in Dirs
BY DEF Empty, Dirs, Contents

-----------------------------------------------------------------------------
(* The steps that write to a directory                                     *)

LEMMA WriteMainStep ==
    ASSUME ConnectConstants, TypeOK, NEW w \in Workspaces, WriteMain(w)
    PROVE  /\ files'[w] \in Dirs
           /\ files' = [files EXCEPT ![w] = files'[w]]
           /\ at'[w] \in {"idle", "write"}
           /\ at'[w] = "write" => ModuleThere(w)'
<1>1. mine' = mine /\ ~Fetched(mine[w].spec) BY DEF WriteMain, own
<1>2. CASE GiveUp(w) /\ UNCHANGED files
  BY <1>2, MineTypes DEF GiveUp, Go, TypeOK
<1>3. CASE /\ files' = [files EXCEPT ![w] =
                           Put(@, ".", {Main(mine[w].spec)}, mine[w].spec.module)]
           /\ Go(w, "write")
  <2> DEFINE d == Put(files[w], ".", {Main(mine[w].spec)}, mine[w].spec.module)
  <2>1. d \in Dirs /\ d["."][Main(mine[w].spec)] = mine[w].spec.module
    <3>1. "." \in Places /\ {Main(mine[w].spec)} \in SUBSET Names
          /\ mine[w].spec.module \in Contents /\ files[w] \in Dirs
      BY MineTypes DEF Places, Contents
    <3> QED BY <3>1 DEF Put, Dirs
  <2>2. files' = [files EXCEPT ![w] = d] BY <1>3
  <2> HIDE DEF d
  <2>3. files'[w] = d BY <2>2 DEF TypeOK
  <2>4. at'[w] = "write" BY <1>3 DEF Go, TypeOK
  <2>5. ModuleThere(w)' BY <1>1, <2>1, <2>3 DEF ModuleThere
  <2> QED BY <2>1, <2>2, <2>3, <2>4, <2>5
<1> QED BY <1>2, <1>3 DEF WriteMain

LEMMA EndFetchStep ==
    ASSUME ConnectConstants, TypeOK, NEW w \in Workspaces, EndFetch(w)
    PROVE  /\ files'[w] \in Dirs
           /\ files' = [files EXCEPT ![w] = files'[w]]
           /\ at'[w] \in {"idle", "write"}
           /\ Fetched(mine[w].spec) /\ at'[w] = "write" => ModuleThere(w)'
<1> DEFINE m == mine[w].spec.module
<1>1. mine' = mine BY DEF EndFetch, own
<1>2. files[w] \in Dirs /\ m \in Modules /\ mine[w].spec.entry \in Places BY MineTypes
<1>3. PICK old \in {files[w], Empty} :
         \/ /\ files' = [files EXCEPT ![w] = Fetch(old, m)]
            /\ Go(w, "write")
         \/ /\ files' = [files EXCEPT ![w] = old]
            /\ Go(w, "idle")
  BY DEF EndFetch, Fetch, GiveUp
<1>4. old \in Dirs BY <1>2, EmptyIsDir
<1>5. CASE files' = [files EXCEPT ![w] = old] /\ Go(w, "idle")
  BY <1>4, <1>5 DEF Go, TypeOK
<1>6. CASE files' = [files EXCEPT ![w] = Fetch(old, m)] /\ Go(w, "write")
  <2>1. files'[w] = Fetch(old, m) BY <1>6 DEF TypeOK
  <2>2. at'[w] = "write" BY <1>6 DEF Go, TypeOK
  <2>3. Fetch(old, m) \in Dirs
        /\ \A p \in Places : p \in Brings(m) => Fetch(old, m)[p]["main.tf"] = m
    BY <1>2, <1>4, FetchFacts
  <2>4. Fetched(mine[w].spec) => ModuleThere(w)'
    BY <1>1, <1>2, <2>1, <2>3 DEF ModuleThere
  <2> QED BY <1>6, <2>1, <2>2, <2>3, <2>4
<1> QED BY <1>3, <1>5, <1>6

LEMMA WriteFilesStep ==
    ASSUME ConnectConstants, TypeOK, NEW w \in Workspaces, WriteFiles(w)
    PROVE  /\ files'[w] \in Dirs
           /\ files' = [files EXCEPT ![w] = files'[w]]
           /\ at'[w] \in {"idle", "env"}
           /\ ModuleThere(w) => ModuleThere(w)'
           /\ at'[w] = "env" => ConfigThere(w)'
<1> DEFINE c == mine[w].config
           e == mine[w].spec.entry
<1>1. mine' = mine BY DEF WriteFiles, own
<1>2. /\ files[w] \in Dirs /\ e \in Places /\ c.files \in SUBSET Written
      /\ c.data \in Contents /\ Main(mine[w].spec) \in Names \ Written
  BY MineTypes DEF Contents
<1>3. CASE Go(w, "idle") /\ UNCHANGED files
  BY <1>1, <1>2, <1>3 DEF Go, TypeOK, ModuleThere
<1>4. ASSUME NEW some \in SUBSET c.files,
             files' = [files EXCEPT ![w] = Put(@, e, some, c.data)]
      PROVE  /\ files'[w] \in Dirs
             /\ files' = [files EXCEPT ![w] = files'[w]]
             /\ ModuleThere(w) => ModuleThere(w)'
             /\ \A n \in some : files'[w][e][n] = c.data
  <2> DEFINE d == Put(files[w], e, some, c.data)
  <2>1. some \in SUBSET Names BY <1>2 DEF Names
  <2>2. /\ d \in Dirs
        /\ \A n \in some : d[e][n] = c.data
        /\ \A q \in Places : \A n \in Names \ some : d[q][n] = files[w][q][n]
    BY <1>2, <2>1 DEF Put, Dirs
  <2>3. files' = [files EXCEPT ![w] = d] BY <1>4
  <2> HIDE DEF d
  <2>4. files'[w] = d BY <2>3 DEF TypeOK
  <2>5. /\ "main.tf" \in Names \ some
        /\ Main(mine[w].spec) \in Names \ some
        /\ "." \in Places
    BY <1>2 DEF Names, Written, Git, Places
  <2>6. ModuleThere(w) => ModuleThere(w)'
    BY <1>1, <1>2, <2>2, <2>4, <2>5 DEF ModuleThere
  <2> QED BY <2>2, <2>3, <2>4, <2>6
<1>5. CASE \E some \in SUBSET c.files :
              /\ files' = [files EXCEPT ![w] = Put(@, e, some, c.data)]
              /\ Go(w, "idle")
  BY ZenonT(40), <1>4, <1>5 DEF Go, TypeOK
<1>6. CASE files' = [files EXCEPT ![w] = Put(@, e, c.files, c.data)] /\ Go(w, "env")
  <2>1. at'[w] = "env" BY <1>6 DEF Go, TypeOK
  <2>2. /\ files'[w] \in Dirs
        /\ files' = [files EXCEPT ![w] = files'[w]]
        /\ ModuleThere(w) => ModuleThere(w)'
        /\ \A n \in c.files : files'[w][e][n] = c.data
    BY <1>4, <1>6
  <2>3. ConfigThere(w)'
    BY <1>1, <2>2 DEF ConfigThere
  <2> QED BY <2>1, <2>2, <2>3
<1> QED BY <1>3, <1>5, <1>6 DEF WriteFiles, GiveUp

-----------------------------------------------------------------------------
(* Type correctness                                                        *)

LEMMA TypeInit == ASSUME ConnectConstants, Init PROVE TypeOK
BY EmptyIsDir DEF ConnectConstants, Init, TypeOK, Steps, Dirs

\* The steps that write to no directory /tf/<uid>.
Aside(w) == \/ Begin(w) \/ SetEnv(w) \/ WriteGitCredentials(w) \/ StartFetch(w)
            \/ ResolveEnv(w) \/ CompareChecksums(w) \/ InitTerraform(w) \/ Run(w)

\* w's step leaves the others alone.
LEMMA OthersAlone ==
    ASSUME TypeOK, NEW w \in Workspaces, Begin(w) \/ Connect(w) \/ Run(w),
           NEW v \in Workspaces, v # w
    PROVE  /\ at'[v] = at[v] /\ mine'[v] = mine[v]
           /\ files'[v] = files[v] /\ tmp'[v] = tmp[v]
           /\ v \in taken' <=> v \in taken
<1> USE DEF TypeOK, Go, GiveUp, own, disk
<1>1. CASE Begin(w) BY <1>1 DEF Begin
<1>2. CASE SetEnv(w) BY <1>2 DEF SetEnv
<1>3. CASE WriteGitCredentials(w) BY <1>3 DEF WriteGitCredentials
<1>4. CASE WriteMain(w) BY <1>4 DEF WriteMain
<1>5. CASE StartFetch(w) BY <1>5 DEF StartFetch
<1>6. CASE EndFetch(w) BY <1>6 DEF EndFetch
<1>7. CASE WriteFiles(w) BY <1>7 DEF WriteFiles
<1>8. CASE ResolveEnv(w) BY <1>8 DEF ResolveEnv
<1>9. CASE CompareChecksums(w) BY <1>9 DEF CompareChecksums
<1>10. CASE InitTerraform(w) BY <1>10 DEF InitTerraform
<1>11. CASE Run(w) BY <1>11 DEF Run
<1> QED BY <1>1, <1>2, <1>3, <1>4, <1>5, <1>6, <1>7, <1>8, <1>9, <1>10, <1>11
        DEF Connect

\* TypeOK, variable by variable.
Typed ==
    /\ spec \in [Workspaces -> Specs]
    /\ config \in [Workspaces -> Configs]
    /\ present \subseteq {"source", "values"}
    /\ at \in [Workspaces -> Steps]
    /\ mine \in [Workspaces -> [spec : Specs, config : Configs]]
    /\ taken \subseteq Workspaces
    /\ files \in [Workspaces -> Dirs]
    /\ tmp \in [Workspaces -> Data \cup {Missing}]
    /\ env \in Workspaces \cup {Unset}
    /\ faults \in 0 .. MaxFaults
    /\ edits \in 0 .. MaxEdits

LEMMA TypedStep ==
    ASSUME ConnectConstants, TypeOK, [Next]_vars
    PROVE  Typed'
<1> USE DEF ConnectConstants, Typed, Steps, asked, own, disk
<1>1. Typed BY DEF TypeOK, Dirs
<1>2. CASE UNCHANGED vars BY <1>1, <1>2 DEF vars
<1>3. ASSUME NEW w \in Workspaces, Aside(w) PROVE Typed'
  <2> USE DEF Go, GiveUp, Fault
  <2>1. CASE Begin(w) BY <1>1, <2>1 DEF Begin
  <2>2. CASE SetEnv(w) BY <1>1, <2>2 DEF SetEnv
  <2>3. CASE WriteGitCredentials(w)
    <3>1. mine[w].config.data \in Data BY MineTypes
    <3>2. tmp' \in [Workspaces -> Data \cup {Missing}]
      BY <1>1, <2>3, <3>1 DEF WriteGitCredentials
    <3> QED BY <1>1, <2>3, <3>2 DEF WriteGitCredentials
  <2>4. CASE StartFetch(w) BY <1>1, <2>4 DEF StartFetch
  <2>5. CASE ResolveEnv(w) BY ZenonT(40), <1>1, <2>5 DEF ResolveEnv
  <2>6. CASE CompareChecksums(w) BY <1>1, <2>6 DEF CompareChecksums
  <2>7. CASE InitTerraform(w) BY <1>1, <2>7 DEF InitTerraform
  <2>8. CASE Run(w) BY <1>1, <2>8 DEF Run
  <2> QED BY <1>3, <2>1, <2>2, <2>3, <2>4, <2>5, <2>6, <2>7, <2>8 DEF Aside
<1>4. ASSUME NEW w \in Workspaces, WriteMain(w) \/ EndFetch(w) \/ WriteFiles(w)
      PROVE  Typed'
  <2>1. UNCHANGED <<asked, own, tmp, env, edits>>
    BY <1>4 DEF WriteMain, EndFetch, WriteFiles
  <2>2. /\ \E place \in {"idle", "write", "env"} : Go(w, place)
        /\ faults' \in 0 .. MaxFaults
    <3>1. \/ \E place \in {"write", "env"} : Go(w, place) /\ UNCHANGED faults
          \/ Go(w, "idle") /\ UNCHANGED faults
          \/ GiveUp(w)
      <4>1. CASE WriteMain(w) BY <4>1 DEF WriteMain
      <4>2. CASE EndFetch(w) BY <4>2 DEF EndFetch
      <4>3. CASE WriteFiles(w) BY <4>3 DEF WriteFiles
      <4> QED BY <1>4, <4>1, <4>2, <4>3
    <3>2. Fault => faults' \in 0 .. MaxFaults BY <1>1 DEF Fault
    <3> QED BY <1>1, <3>1, <3>2 DEF GiveUp
  <2>3. files' \in [Workspaces -> Dirs]
    <3>1. \E d \in Dirs : files' = [files EXCEPT ![w] = d]
      <4>1. CASE WriteMain(w) BY <4>1, WriteMainStep
      <4>2. CASE EndFetch(w) BY <4>2, EndFetchStep
      <4>3. CASE WriteFiles(w)
        <5> DEFINE c == mine[w].config
                   e == mine[w].spec.entry
        <5>1. files[w] \in Dirs /\ e \in Places /\ c.data \in Contents
          BY MineTypes DEF Contents
        <5>2. \A some \in SUBSET c.files : Put(files[w], e, some, c.data) \in Dirs
          BY <5>1 DEF Put, Dirs
        <5>3. CASE UNCHANGED files
          BY <1>1, <5>1, <5>3
        <5>4. CASE \E some \in SUBSET c.files :
                      files' = [files EXCEPT ![w] = Put(@, e, some, c.data)]
          BY <5>2, <5>4
        <5> QED BY <4>3, <5>3, <5>4 DEF WriteFiles
      <4> QED BY <1>4, <4>1, <4>2, <4>3
    <3> QED BY <1>1, <3>1
  <2> QED BY ZenonT(40), <1>1, <2>1, <2>2, <2>3 DEF Go
<1>5. CASE \/ \E w \in Workspaces : EditWorkspace(w) \/ EditConfig(w)
           \/ EditWorld
  <2>1. /\ spec' \in [Workspaces -> Specs]
        /\ config' \in [Workspaces -> Configs]
    BY <1>1, <1>5 DEF EditWorkspace, EditConfig, EditWorld
  <2>2. present' \subseteq {"source", "values"}
    <3>1. present' = present \/ \E p \in SUBSET {"source", "values"} : present' = p
      BY <1>5 DEF EditWorkspace, EditConfig, EditWorld
    <3> QED BY <1>1, <3>1
  <2>3. edits' \in 0 .. MaxEdits
    <3>1. Edit BY <1>5 DEF EditWorkspace, EditConfig, EditWorld
    <3> QED BY <1>1, <3>1 DEF Edit
  <2>4. UNCHANGED <<at, own, disk, env, faults>>
    BY <1>5 DEF EditWorkspace, EditConfig, EditWorld
  <2> QED BY <1>1, <2>1, <2>2, <2>3, <2>4
<1>6. CASE Crash
  <2>1. /\ files' \in [Workspaces -> Dirs]
        /\ tmp' \in [Workspaces -> Data \cup {Missing}]
    BY <1>1, <1>6, EmptyIsDir DEF Crash
  <2> QED BY <1>1, <1>6, <2>1 DEF Crash, Fault
<1>7. ASSUME NEW w \in Workspaces, Collect(w) PROVE Typed'
  <2>1. tmp' \in [Workspaces -> Data \cup {Missing}]
    BY <1>1, <1>7 DEF Collect
  <2>2. files' \in [Workspaces -> Dirs]
    <3>1. CASE UNCHANGED files
      BY <1>1, <3>1
    <3> DEFINE Left(gone) == [p \in Places |-> [n \in Names |->
                                IF <<p, n>> \in gone THEN Missing ELSE files[w][p][n]]]
    <3>2. \A gone : Left(gone) \in Dirs
      <4>1. files[w] \in Dirs
        BY <1>1
      <4> QED BY <4>1 DEF Dirs, Contents
    <3>3. CASE \E gone : files' = [files EXCEPT ![w] = Left(gone)]
      <4> HIDE DEF Left
      <4> QED BY <1>1, <3>2, <3>3
    <3> QED BY <1>7, <3>1, <3>3 DEF Collect
  <2> QED BY <1>1, <1>7, <2>1, <2>2 DEF Collect, Fault
<1> QED BY <1>2, <1>3, <1>4, <1>5, <1>6, <1>7 DEF Next, Connect, Aside

\* What else TypeOK says.
GitPlaces == \A w \in Workspaces : at[w] \in {"setenv", "git"} => UsesGit(w)

LEMMA GitPlacesStep ==
    ASSUME ConnectConstants, TypeOK, [Next]_vars
    PROVE  GitPlaces'
<1>1. GitPlaces BY DEF TypeOK, GitPlaces
<1>2. CASE /\ UNCHANGED mine
           /\ \A w \in Workspaces : at'[w] = at[w] \/ at'[w] = "idle"
  BY <1>1, <1>2 DEF GitPlaces, UsesGit
<1>3. ASSUME NEW w \in Workspaces, Begin(w) \/ Connect(w) \/ Run(w)
      PROVE  GitPlaces'
  <2> SUFFICES at'[w] \in {"setenv", "git"} => UsesGit(w)'
    BY <1>1, <1>3, OthersAlone DEF GitPlaces, UsesGit
  <2>1. CASE Begin(w) BY <2>1 DEF Begin, Go, TypeOK, UsesGit
  <2>2. CASE SetEnv(w)
    BY <1>1, <2>2 DEF SetEnv, Go, GiveUp, TypeOK, GitPlaces, UsesGit, own
  <2>3. CASE ~Begin(w) /\ ~SetEnv(w)
    <3>1. at'[w] \notin {"setenv", "git"}
      BY <1>3, <2>3 DEF Connect, WriteGitCredentials, WriteMain, StartFetch, EndFetch,
            WriteFiles, ResolveEnv, CompareChecksums, InitTerraform, Run, Go, GiveUp,
            TypeOK
    <3> QED BY <3>1
  <2> QED BY <2>1, <2>2, <2>3
<1>4. CASE \/ UNCHANGED vars
           \/ \E w \in Workspaces : EditWorkspace(w) \/ EditConfig(w) \/ Collect(w)
           \/ EditWorld
  BY <1>2, <1>4 DEF vars, own, EditWorkspace, EditConfig, Collect, EditWorld
<1>5. CASE Crash BY <1>5 DEF Crash, GitPlaces
<1> QED BY <1>3, <1>4, <1>5 DEF Next

LEMMA TypeStep ==
    ASSUME ConnectConstants, TypeOK, [Next]_vars
    PROVE  TypeOK'
BY TypedStep, GitPlacesStep DEF TypeOK, Typed, GitPlaces, Dirs

-----------------------------------------------------------------------------
(* The directories                                                         *)

LEMMA FilesStep ==
    ASSUME ConnectConstants, TypeOK, FilesOK, [Next]_vars
    PROVE  FilesOK'
<1>1. CASE /\ UNCHANGED <<files, own>>
           /\ \A w \in Workspaces : at'[w] = at[w] \/ at'[w] = "idle"
  BY <1>1 DEF FilesOK, FilesAt, ModuleThere, ConfigThere, Sourced, Complete, own
<1>2. ASSUME NEW w \in Workspaces, Begin(w) \/ Connect(w) \/ Run(w)
      PROVE  FilesOK'
  <2> SUFFICES FilesAt(w)'
    <3> SUFFICES ASSUME NEW v \in Workspaces PROVE FilesAt(v)'
      BY DEF FilesOK
    <3>1. CASE v = w BY <3>1
    <3>2. CASE v # w
      <4>1. /\ at'[v] = at[v] /\ mine'[v] = mine[v] /\ files'[v] = files[v]
            /\ v \in taken' <=> v \in taken
        BY <1>2, <3>2, OthersAlone
      <4>2. (ModuleThere(v)' <=> ModuleThere(v)) /\ (ConfigThere(v)' <=> ConfigThere(v))
        BY <4>1 DEF ModuleThere, ConfigThere
      <4> QED BY <4>1, <4>2 DEF FilesOK, FilesAt
    <3> QED BY <3>1, <3>2
  <2>1. CASE Begin(w) \/ SetEnv(w) \/ WriteGitCredentials(w) \/ StartFetch(w) \/ Run(w)
    <3>1. at'[w] \notin Sourced
      BY <2>1 DEF Begin, SetEnv, WriteGitCredentials, StartFetch, Run, Go, GiveUp,
                  TypeOK, Sourced
    <3>2. at'[w] = "fetch" => Fetched(mine'[w].spec)
      BY <2>1 DEF Begin, SetEnv, WriteGitCredentials, StartFetch, Run, Go, GiveUp, TypeOK,
                  own
    <3> QED BY <3>1, <3>2 DEF Sourced, Complete, FilesAt
  <2>2. CASE WriteMain(w) BY <2>2, WriteMainStep DEF Complete, Sourced, FilesAt
  <2>3. CASE EndFetch(w)
    <3>1. at[w] = "fetch" /\ at'[w] \in {"idle", "write"} BY <2>3, EndFetchStep DEF EndFetch
    <3>2. Fetched(mine[w].spec) BY <3>1 DEF FilesOK, FilesAt
    <3>3. at'[w] = "write" => ModuleThere(w)' BY <2>3, <3>2, EndFetchStep
    <3> QED BY <3>1, <3>3 DEF Complete, Sourced, FilesAt
  <2>4. CASE WriteFiles(w)
    <3>1. at[w] \in Sourced /\ taken' = taken
      BY <2>4 DEF WriteFiles, Sourced, own
    <3>2. w \notin taken => ModuleThere(w)
      BY <3>1 DEF FilesOK, FilesAt
    <3>3. at'[w] \in {"idle", "env"}
      BY <2>4, WriteFilesStep
    <3>4. CASE w \in taken
      BY <3>1, <3>3, <3>4 DEF FilesAt
    <3>5. CASE w \notin taken
      BY <2>4, <3>2, <3>3, <3>5, WriteFilesStep DEF Complete, Sourced, FilesAt
    <3> QED BY <3>4, <3>5
  <2>5. CASE ResolveEnv(w) \/ CompareChecksums(w) \/ InitTerraform(w)
    <3>1. /\ at[w] \in Complete /\ at[w] \in Sourced
          /\ UNCHANGED <<files, mine, taken>>
      BY <2>5 DEF ResolveEnv, CompareChecksums, InitTerraform, Complete, Sourced, disk, own
    <3>2. at'[w] # "fetch"
      BY <2>5 DEF ResolveEnv, CompareChecksums, InitTerraform, Go, GiveUp, TypeOK
    <3>3. (ModuleThere(w)' <=> ModuleThere(w)) /\ (ConfigThere(w)' <=> ConfigThere(w))
      BY <3>1 DEF ModuleThere, ConfigThere
    <3> QED BY <3>1, <3>2, <3>3 DEF FilesOK, FilesAt
  <2> QED BY <1>2, <2>1, <2>2, <2>3, <2>4, <2>5 DEF Connect
<1>3. CASE \/ UNCHANGED vars
           \/ \E w \in Workspaces : EditWorkspace(w) \/ EditConfig(w)
           \/ EditWorld
  BY <1>1, <1>3 DEF vars, own, disk, EditWorkspace, EditConfig, EditWorld
<1>4. CASE Crash
  BY <1>4 DEF Crash, FilesOK, FilesAt, Sourced, Complete
<1>5. ASSUME NEW w \in Workspaces, Collect(w) PROVE FilesOK'
  <2> SUFFICES ASSUME NEW v \in Workspaces PROVE FilesAt(v)'
    BY DEF FilesOK
  <2>1. UNCHANGED <<at, mine>> /\ taken \subseteq taken'
    BY <1>5 DEF Collect
  <2>2. CASE v = w
    BY <1>5, <2>1, <2>2 DEF Collect, FilesOK, FilesAt, Sourced, Complete
  <2>3. CASE v # w
    <3>1. files'[v] = files[v]
      BY <1>5, <2>3 DEF Collect, TypeOK
    <3>2. (ModuleThere(v)' <=> ModuleThere(v)) /\ (ConfigThere(v)' <=> ConfigThere(v))
      BY <2>1, <3>1 DEF ModuleThere, ConfigThere
    <3> QED BY <2>1, <3>2 DEF FilesOK, FilesAt
  <2> QED BY <2>2, <2>3
<1> QED BY <1>2, <1>3, <1>4, <1>5 DEF Next

-----------------------------------------------------------------------------
(* The credentials git finds                                               *)

LEMMA TmpStep ==
    ASSUME ConnectConstants, TypeOK, TmpOK, [Next]_vars
    PROVE  TmpOK'
<1>1. CASE /\ UNCHANGED <<tmp, own>>
           /\ \A w \in Workspaces : at'[w] = at[w] \/ at'[w] = "idle"
  BY <1>1 DEF TmpOK, UsesGit, own
<1>2. ASSUME NEW w \in Workspaces, Begin(w) \/ Connect(w) \/ Run(w)
      PROVE  TmpOK'
  <2> SUFFICES w \notin taken' /\ at'[w] \in Steps \ {"idle", "setenv", "git"} /\ UsesGit(w)'
                  => tmp'[w] = mine'[w].config.data
    BY <1>2, OthersAlone DEF TmpOK, UsesGit
  <2>1. CASE Begin(w) BY <2>1 DEF Begin, Go, TypeOK, UsesGit
  <2>2. CASE SetEnv(w) BY <2>2 DEF SetEnv, Go, GiveUp, TypeOK
  <2>3. CASE WriteGitCredentials(w)
    BY <2>3 DEF WriteGitCredentials, Go, GiveUp, TypeOK, own
  <2>4. CASE ~Begin(w) /\ ~SetEnv(w) /\ ~WriteGitCredentials(w)
    <3>1. /\ at[w] \in Steps \ {"idle", "setenv", "git"}
          /\ UNCHANGED <<mine, taken, tmp>>
      BY <1>2, <2>4 DEF Connect, WriteMain, StartFetch, EndFetch, WriteFiles, ResolveEnv,
            CompareChecksums, InitTerraform, Run, Steps, disk, own
    <3> QED BY <3>1 DEF TmpOK, UsesGit
  <2> QED BY <2>1, <2>2, <2>3, <2>4
<1>3. CASE \/ UNCHANGED vars
           \/ \E w \in Workspaces : EditWorkspace(w) \/ EditConfig(w)
           \/ EditWorld
  BY <1>1, <1>3 DEF vars, own, disk, EditWorkspace, EditConfig, EditWorld
<1>4. CASE Crash BY <1>4 DEF Crash, TmpOK
<1>5. ASSUME NEW w \in Workspaces, Collect(w) PROVE TmpOK'
  BY <1>5 DEF Collect, TmpOK, TypeOK, UsesGit
<1> QED BY <1>2, <1>3, <1>4, <1>5 DEF Next

LEMMA EnvStep ==
    ASSUME ConnectConstants, TypeOK, EnvOK, [Next]_vars
    PROVE  EnvOK'
<1> SUFFICES ASSUME OneAtATime
             PROVE  /\ \A v, w \in Workspaces : at'[v] # "idle" /\ at'[w] # "idle" => v = w
                    /\ \A w \in Workspaces :
                          at'[w] \in Steps \ {"idle", "setenv"} /\ UsesGit(w)' => env' = w
  BY DEF EnvOK
<1>1. CASE /\ UNCHANGED <<env, mine>>
           /\ \A w \in Workspaces : at'[w] = at[w] \/ at'[w] = "idle"
  BY <1>1 DEF EnvOK, UsesGit
<1>2. ASSUME NEW w \in Workspaces, Begin(w) \/ Connect(w) \/ Run(w)
      PROVE  /\ \A v \in Workspaces : at'[v] # "idle" => v = w
             /\ at'[w] \in Steps \ {"idle", "setenv"} /\ UsesGit(w)' => env' = w
  <2>1. \A v \in Workspaces : v # w => at[v] = "idle"
    BY <1>2 DEF EnvOK, Begin, Connect, SetEnv, WriteGitCredentials, WriteMain, StartFetch,
          EndFetch, WriteFiles, ResolveEnv, CompareChecksums, InitTerraform, Run
  <2>2. \A v \in Workspaces : at'[v] # "idle" => v = w
    BY <1>2, <2>1, OthersAlone
  <2>3. CASE Begin(w) BY <2>2, <2>3 DEF Begin, Go, TypeOK, UsesGit
  <2>4. CASE SetEnv(w) BY <2>2, <2>4 DEF SetEnv, Go, GiveUp, TypeOK
  <2>5. CASE ~Begin(w) /\ ~SetEnv(w)
    <3>1. /\ at[w] \in Steps \ {"idle", "setenv"}
          /\ UNCHANGED <<mine, env>>
      <4>1. UNCHANGED <<mine, env>>
        BY <1>2, <2>5 DEF Connect, WriteGitCredentials, WriteMain, StartFetch, EndFetch,
              WriteFiles, ResolveEnv, CompareChecksums, InitTerraform, Run, disk, own
      <4>2. at[w] \in Steps \ {"idle", "setenv"}
        BY <1>2, <2>5 DEF Connect, WriteGitCredentials, WriteMain, StartFetch, EndFetch,
              WriteFiles, ResolveEnv, CompareChecksums, InitTerraform, Run, Steps
      <4> QED BY <4>1, <4>2
    <3> QED BY <2>2, <3>1 DEF EnvOK, UsesGit
  <2> QED BY <2>3, <2>4, <2>5
<1>3. CASE \/ UNCHANGED vars
           \/ \E w \in Workspaces : EditWorkspace(w) \/ EditConfig(w) \/ Collect(w)
           \/ EditWorld
  BY <1>1, <1>3 DEF vars, own, EditWorkspace, EditConfig, Collect, EditWorld
<1>4. CASE Crash BY <1>4 DEF Crash
<1>5. CASE \E w \in Workspaces : Begin(w) \/ Connect(w) \/ Run(w)
  BY <1>2, <1>5
<1> QED BY <1>3, <1>4, <1>5 DEF Next

-----------------------------------------------------------------------------
(* The theorems                                                            *)

LEMMA InvInit == ASSUME ConnectConstants, Init PROVE CInv
BY TypeInit DEF Init, CInv, FilesOK, FilesAt, TmpOK, EnvOK, Sourced, Complete

LEMMA Invariance == ASSUME ConnectConstants PROVE Spec => []CInv
<1>1. ASSUME CInv, [Next]_vars PROVE CInv'
  BY <1>1, TypeStep, FilesStep, TmpStep, EnvStep DEF CInv
<1> QED BY <1>1, InvInit, PTL DEF Spec

\* The types of the objects, the directories and the reconciles.
THEOREM ConnectTypeCorrect == ASSUME ConnectConstants PROVE Spec => []TypeOK
BY Invariance, PTL DEF CInv

\* Nothing that the specs ask for is missing where terraform runs, whichever
\* writes failed before, whatever collectors removed before the reconcile, and
\* however many reconciles run at a time; only a collector that takes files from
\* under the reconcile itself breaks this.
THEOREM FilesAreComplete == ASSUME ConnectConstants PROVE Spec => []FilesComplete
<1>1. CInv => FilesComplete
  <2>1. ASSUME CInv, NEW w \in Workspaces \ taken, at[w] = "run"
        PROVE  ModuleThere(w) /\ ConfigThere(w)
    <3>1. at[w] \in Sourced /\ at[w] \in Complete
      BY <2>1 DEF Sourced, Complete
    <3> QED BY <2>1, <3>1 DEF CInv, FilesOK, FilesAt
  <2> QED BY <2>1 DEF ModuleThere, ConfigThere, FilesComplete
<1> QED BY <1>1, Invariance, PTL

\* With one reconcile at a time git finds the right credentials, unless a
\* collector removes them between the write and git.
THEOREM CredentialsAreOwn ==
    ASSUME ConnectConstants, OneAtATime PROVE Spec => []OwnGitCredentials
<1>1. CInv => OwnGitCredentials
  BY DEF CInv, TmpOK, EnvOK, OwnGitCredentials, Steps
<1> QED BY <1>1, Invariance, PTL

=============================================================================
