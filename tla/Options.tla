------------------------------ MODULE Options ------------------------------
(***************************************************************************)
(* How the variables of a Workspace reach terraform: the plan of a         *)
(* reconcile, and the apply or destroy that may follow it, each turn the   *)
(* vars, varFiles and varmap of the reconcile's copy into arguments and    *)
(* files of the directory, which terraform reads from left to right.       *)
(* ConfigMaps and Secrets are read one by one, and may change in between;  *)
(* the files of earlier commands stay in the directory.                    *)
(***************************************************************************)
EXTENDS Naturals, Sequences

CONSTANTS
    Variables,   \* the module's variables
    Values,
    Unset,       \* a file does not set the variable
    Refs,        \* keys of ConfigMaps and Secrets
    NoFile,      \* there is no such ConfigMap or Secret, or no varmap
    Files,       \* what ConfigMaps and Secrets hold
    Specs,       \* what users write in spec.forProvider
    MaxEdits     \* bound: edits of the spec, the ConfigMaps and the Secrets

Contents == [Variables -> Values \cup {Unset}]
Formats  == {"HCL", "JSON"}
Commands == {"plan", "apply", "destroy"}
Settings == Seq([key : Variables, value : Values])
FileRefs == [ref : Refs, format : Formats]

\* args are the PlanArgs, ApplyArgs and DestroyArgs that set variables.
Params == [vars     : Settings,
           varFiles : Seq(FileRefs),
           varMap   : Contents \cup {NoFile},
           args     : [Commands -> Settings]]

ASSUME OptionsConstants ==
    /\ Unset \notin Values
    /\ Files \subseteq Contents
    /\ NoFile \notin Contents
    /\ Specs \subseteq Params
    /\ MaxEdits \in Nat

VARIABLES
    spec,      \* spec.forProvider of the Workspace
    store,     \* what the ConfigMaps and Secrets hold
    mine,      \* the reconcile's copy of spec
    command,
    stage,     \* of the command: "idle", "read", "write" or "ran"
    o,         \* its arguments and the files they name
    written,   \* how many of those it has written
    disk,      \* the var files in the directory
    outcome,   \* the value each variable had in the last command
    read,      \* history: what this command read of each var file
    planned,   \* history: outcome of the reconcile's plan
    changed,   \* history: a ConfigMap or Secret changed since it began
    edits

users   == <<spec, store, edits>>
history == <<planned, changed>>
vars    == <<users, mine, command, stage, o, written, disk, outcome, read, history>>

Nothing == [x \in Variables |-> Unset]

\* An argument is -var with a setting or -var-file with a name.
Args(settings) ==
    [i \in DOMAIN settings |-> [isFile |-> FALSE, arg |-> settings[i]]]

\* Mutant: all var files have one name.
WithOneVarFile(data, format) ==
    [args  |-> Append(o.args, [isFile |-> TRUE, arg |-> <<0, format>>]),
     files |-> Append(o.files, [name |-> <<0, format>>, data |-> data])]

\* The name of a var file is its number, and a suffix for its format.
WithVarFile(data, format) ==
    LET name == <<Len(o.files), format>> IN
    [args  |-> Append(o.args, [isFile |-> TRUE, arg |-> name]),
     files |-> Append(o.files, [name |-> name, data |-> data])]

WithArgs(p, settings) == [args |-> p.args \o Args(settings), files |-> p.files]

\* Entry i is the last of s for which P holds.
IsLast(i, s, P(_)) ==
    P(s[i]) /\ \A j \in DOMAIN s : j > i => ~P(s[j])

\* What terraform takes variable x to be: the last argument that sets it.
Sets(a, d, x) == IF a.isFile THEN d[a.arg][x] # Unset ELSE a.arg.key = x
Gives(a, d, x) == IF a.isFile THEN d[a.arg][x] ELSE a.arg.value

Effective(args, d, x) ==
    LET SetsX(a) == Sets(a, d, x) IN
    IF \E i \in DOMAIN args : IsLast(i, args, SetsX)
      THEN Gives(args[CHOOSE i \in DOMAIN args : IsLast(i, args, SetsX)], d, x)
      ELSE Unset

Init ==
    /\ spec \in Specs
    /\ store \in [Refs -> Files \cup {NoFile}]
    /\ mine = spec
    /\ command = "plan"
    /\ stage = "idle"
    /\ o = [args |-> <<>>, files |-> <<>>]
    /\ written = 0
    /\ disk = <<>>
    /\ outcome = Nothing
    /\ read = <<>>
    /\ planned = Nothing
    /\ changed = FALSE
    /\ edits = 0

-----------------------------------------------------------------------------
(* Users                                                                   *)

Edit ==
    /\ edits < MaxEdits
    /\ edits' = edits + 1
    /\ UNCHANGED <<mine, command, stage, o, written, disk, outcome, read, planned>>

EditSpec ==
    /\ Edit
    /\ spec' \in Specs
    /\ UNCHANGED <<store, changed>>

EditStore ==
    /\ Edit
    /\ \E r \in Refs, d \in Files \cup {NoFile} : store' = [store EXCEPT ![r] = d]
    /\ changed' = TRUE
    /\ UNCHANGED spec

-----------------------------------------------------------------------------
(* A reconcile                                                             *)

\* options() of copy p begins: its vars.
Begin(c, p) ==
    /\ command' = c
    /\ stage' = "read"
    /\ o' = [args |-> Args(p.vars), files |-> <<>>]
    /\ written' = 0
    /\ read' = <<>>

\* The plan of a new reconcile; go-getter may have cleared the directory.
Observe ==
    /\ stage = "idle"
    /\ mine' = spec
    /\ Begin("plan", spec)
    /\ disk' \in {disk, <<>>}
    /\ changed' = FALSE
    /\ UNCHANGED <<users, outcome, planned>>

\* Mutant: the apply is that of a newer spec.
ChangeToNew ==
    /\ stage = "ran"
    /\ command = "plan"
    /\ mine' = spec
    /\ \E c \in {"apply", "destroy"} : Begin(c, spec)
    /\ UNCHANGED <<users, disk, outcome, history>>

\* Create and Update apply, Delete destroys; they read everything again.
Change ==
    /\ stage = "ran"
    /\ command = "plan"
    /\ \E c \in {"apply", "destroy"} : Begin(c, mine)
    /\ UNCHANGED <<users, mine, disk, outcome, history>>

\* The next var file, from a ConfigMap or Secret that is there.
ReadVarFile ==
    /\ stage = "read"
    /\ Len(o.files) < Len(mine.varFiles)
    /\ LET f == mine.varFiles[Len(o.files) + 1] IN
           /\ store[f.ref] # NoFile
           /\ read' = Append(read, store[f.ref])
           /\ o' = WithVarFile(store[f.ref], f.format)
    /\ UNCHANGED <<users, mine, command, stage, written, disk, outcome, history>>

\* The varmap is one more file; what the user adds for the command comes last.
EndOptions ==
    /\ stage = "read"
    /\ Len(o.files) = Len(mine.varFiles)
    /\ stage' = "write"
    /\ o' = WithArgs(IF mine.varMap = NoFile THEN o ELSE WithVarFile(mine.varMap, "JSON"),
                     mine.args[command])
    /\ UNCHANGED <<users, mine, command, written, disk, outcome, read, history>>

\* name holds data from now on.
Put(name, data) ==
    disk' = [n \in DOMAIN disk \cup {name} |-> IF n = name THEN data ELSE disk[n]]

WriteVarFile ==
    /\ stage = "write"
    /\ written < Len(o.files)
    /\ Put(o.files[written + 1].name, o.files[written + 1].data)
    /\ written' = written + 1
    /\ UNCHANGED <<users, mine, command, stage, o, outcome, read, history>>

\* terraform runs, whatever comes of it.
Run ==
    /\ stage = "write"
    /\ written = Len(o.files)
    /\ stage' = "ran"
    /\ outcome' = [x \in Variables |-> Effective(o.args, disk, x)]
    /\ planned' = IF command = "plan" THEN outcome' ELSE planned
    /\ UNCHANGED <<users, mine, command, o, written, disk, read, changed>>

\* The reconcile ends: with an error of a Get (the object may be missing) or of
\* WriteFile (the file may be cut short), or because terraform has run.
Return ==
    /\ stage # "idle"
    /\ stage' = "idle"
    /\ \/ UNCHANGED disk
       \/ /\ stage = "write"
          /\ written < Len(o.files)
          /\ Put(o.files[written + 1].name, Nothing)
    /\ UNCHANGED <<users, mine, command, o, written, outcome, read, history>>

Next ==
    \/ EditSpec \/ EditStore
    \/ Observe \/ Change
    \/ ReadVarFile \/ EndOptions \/ WriteVarFile \/ Run \/ Return

Spec == Init /\ [][Next]_vars

-----------------------------------------------------------------------------
(* Properties                                                              *)

None(s, P(_)) == \A i \in DOMAIN s : ~P(s[i])

\* No source of variables is lost, mistaken for another or for what an earlier
\* command left in the directory, whatever changes while the sources are read:
\* the command's own arguments override the varmap, that every file, a later
\* file an earlier one, and any file the vars, of which the last counts.
LastSourceWins ==
    stage = "ran" => \A x \in Variables :
        LET OfX(s)    == s.key = x
            SetsX(d)  == d[x] # Unset
            own       == mine.args[command]
            fromMap   == mine.varMap # NoFile /\ mine.varMap[x] # Unset
        IN  /\ \A i \in DOMAIN own : IsLast(i, own, OfX) => outcome[x] = own[i].value
            /\ None(own, OfX) =>
                /\ fromMap => outcome[x] = mine.varMap[x]
                /\ ~fromMap =>
                    /\ \A i \in DOMAIN read :
                          IsLast(i, read, SetsX) => outcome[x] = read[i][x]
                    /\ None(read, SetsX) =>
                        /\ \A i \in DOMAIN mine.vars :
                              IsLast(i, mine.vars, OfX) => outcome[x] = mine.vars[i].value
                        /\ None(mine.vars, OfX) => outcome[x] = Unset

\* What is applied or destroyed was planned with the same values, unless a
\* ConfigMap or Secret changed during the reconcile or the user asks for other
\* arguments, although everything is read and written twice.
AppliesThePlan ==
    stage = "ran" /\ ~changed /\ mine.args[command] = mine.args["plan"] =>
        outcome = planned

=============================================================================
