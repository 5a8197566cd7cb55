--------------------------- MODULE OptionsProofs ---------------------------
(* Which source of a variable counts, and that a plan and what follows it   *)
(* agree: for all specs, ConfigMaps and Secrets, and numbers of files.      *)
EXTENDS Options, SequenceTheorems, TLAPS

Names   == Nat \X Formats
Setting == [key : Variables, value : Values]
Arg     == [isFile : {FALSE}, arg : Setting] \cup [isFile : {TRUE}, arg : Names]
VarFile == [name : Names, data : Contents]

TypeOK ==
    /\ spec \in Params /\ mine \in Params
    /\ store \in [Refs -> Contents \cup {NoFile}]
    /\ command \in Commands
    /\ stage \in {"idle", "read", "write", "ran"}
    /\ o \in [args : Seq(Arg), files : Seq(VarFile)]
    /\ written \in Nat
    /\ read \in Seq(Contents)
    /\ changed \in BOOLEAN

\* The options are complete.
Complete == stage \in {"write", "ran"}

\* The shape of the options: their sources, in the order of the code.
NumVars  == Len(mine.vars)
NumFiles == Len(mine.varFiles) + IF mine.varMap = NoFile THEN 0 ELSE 1
Format(i) == IF i <= Len(mine.varFiles) THEN mine.varFiles[i].format ELSE "JSON"
Own(c)   == mine.args[c]

VarArg(s)  == [isFile |-> FALSE, arg |-> s]
FileArg(i) == [isFile |-> TRUE, arg |-> <<i - 1, Format(i)>>]

FilesOK ==
    /\ stage = "read" => /\ Len(o.files) = Len(read)
                         /\ Len(read) <= Len(mine.varFiles)
    /\ Complete => /\ Len(o.files) = NumFiles
                   /\ Len(read) = Len(mine.varFiles)
                   /\ mine.varMap # NoFile => o.files[NumFiles].data = mine.varMap
    /\ stage # "idle" =>
          /\ \A i \in 1 .. Len(o.files) : o.files[i].name = <<i - 1, Format(i)>>
          /\ \A i \in 1 .. Len(read) : o.files[i].data = read[i]

ArgsOK ==
    stage # "idle" =>
        /\ Len(o.args) = NumVars + Len(o.files)
                         + IF Complete THEN Len(Own(command)) ELSE 0
        /\ \A i \in 1 .. NumVars : o.args[i] = VarArg(mine.vars[i])
        /\ \A i \in 1 .. Len(o.files) : o.args[NumVars + i] = FileArg(i)
        /\ Complete =>
              \A i \in 1 .. Len(Own(command)) :
                  o.args[NumVars + Len(o.files) + i] = VarArg(Own(command)[i])

\* What has been written is in the directory.
DiskOK ==
    /\ stage = "read" => written = 0
    /\ stage = "ran" => written = Len(o.files)
    /\ Complete => /\ written <= Len(o.files)
                   /\ \A i \in 1 .. written :
                         /\ o.files[i].name \in DOMAIN disk
                         /\ disk[o.files[i].name] = o.files[i].data

RanOK == stage = "ran" => outcome = [x \in Variables |-> Effective(o.args, disk, x)]

ReadOK == stage # "idle" /\ ~changed =>
              \A i \in 1 .. Len(read) : read[i] = store[mine.varFiles[i].ref]

\* The arguments and files a command has if nothing changes.
FullArgs(c) ==
    [i \in 1 .. NumVars + NumFiles + Len(Own(c)) |->
        IF i <= NumVars THEN VarArg(mine.vars[i])
        ELSE IF i <= NumVars + NumFiles THEN FileArg(i - NumVars)
        ELSE VarArg(Own(c)[i - NumVars - NumFiles])]

FileData == [n \in Names |->
    IF n[1] < Len(mine.varFiles) THEN store[mine.varFiles[n[1] + 1].ref]
    ELSE mine.varMap]

Unchanged(c) == [x \in Variables |-> Effective(FullArgs(c), FileData, x)]

PlanOK == stage # "idle" /\ ~changed /\ (command = "plan" => stage = "ran") =>
              planned = Unchanged("plan")

\* The inductive invariant.
OInv == TypeOK /\ FilesOK /\ ArgsOK /\ DiskOK /\ RanOK /\ ReadOK /\ PlanOK

-----------------------------------------------------------------------------
(* Helpers                                                                 *)

LEMMA ArgsOf ==
    ASSUME NEW s \in Settings
    PROVE  /\ Args(s) \in Seq(Arg)
           /\ Len(Args(s)) = Len(s)
           /\ \A i \in 1 .. Len(s) : Args(s)[i] = VarArg(s[i])
<1>1. s \in Seq(Setting) /\ DOMAIN s = 1 .. Len(s) /\ Len(s) \in Nat
  BY DEF Settings, Setting
<1>2. Args(s) = [i \in 1 .. Len(s) |-> VarArg(s[i])]
  BY <1>1 DEF Args, VarArg
<1>3. \A i \in 1 .. Len(s) : VarArg(s[i]) \in Arg
  BY <1>1 DEF VarArg, Arg
<1> QED BY <1>1, <1>2, <1>3

\* The copy is well formed, and so is what it refers to.
LEMMA MineType ==
    ASSUME TypeOK
    PROVE  /\ mine.vars \in Settings /\ NumVars \in Nat
           /\ mine.varFiles \in Seq(FileRefs)
           /\ Len(mine.varFiles) \in Nat
           /\ mine.varMap \in Contents \cup {NoFile}
           /\ \A c \in Commands : Own(c) \in Settings /\ Len(Own(c)) \in Nat
           /\ mine.varMap = NoFile => NumFiles = Len(mine.varFiles)
           /\ mine.varMap # NoFile => NumFiles = Len(mine.varFiles) + 1
           /\ NumFiles \in {Len(mine.varFiles), Len(mine.varFiles) + 1}
           /\ \A i \in 1 .. NumFiles : Format(i) \in Formats
<1>1. /\ mine.vars \in Settings
      /\ mine.varFiles \in Seq(FileRefs)
      /\ mine.varMap \in Contents \cup {NoFile}
      /\ \A c \in Commands : Own(c) \in Settings
  BY DEF TypeOK, Params, Own
<1>2. \A s \in Settings : Len(s) \in Nat
  BY DEF Settings
<1>3. Len(mine.varFiles) \in Nat
  BY <1>1
<1>4. /\ mine.varMap = NoFile => NumFiles = Len(mine.varFiles)
      /\ mine.varMap # NoFile => NumFiles = Len(mine.varFiles) + 1
  <2>1. CASE mine.varMap = NoFile BY <1>3, <2>1 DEF NumFiles
  <2>2. CASE mine.varMap # NoFile BY <1>3, <2>2 DEF NumFiles
  <2> QED BY <2>1, <2>2
<1>5. ASSUME NEW i \in 1 .. NumFiles PROVE Format(i) \in Formats
  <2>1. CASE i <= Len(mine.varFiles)
    <3>1. i \in 1 .. Len(mine.varFiles) BY <1>3, <1>4, <2>1
    <3>2. mine.varFiles[i] \in FileRefs BY <1>1, <3>1
    <3> QED BY <2>1, <3>2 DEF Format, FileRefs
  <2>2. CASE ~(i <= Len(mine.varFiles)) BY <2>2 DEF Format, Formats
  <2> QED BY <2>1, <2>2
<1> QED BY <1>1, <1>2, <1>3, <1>4, <1>5 DEF NumVars

\* A var file is the next argument and the next file.
LEMMA WithVarFileIs ==
    ASSUME TypeOK, NEW d \in Contents, NEW f \in Formats
    PROVE  LET p == WithVarFile(d, f) IN
           /\ p \in [args : Seq(Arg), files : Seq(VarFile)]
           /\ Len(p.files) = Len(o.files) + 1
           /\ \A i \in 1 .. Len(o.files) : p.files[i] = o.files[i]
           /\ p.files[Len(o.files) + 1] = [name |-> <<Len(o.files), f>>, data |-> d]
           /\ Len(p.args) = Len(o.args) + 1
           /\ \A i \in 1 .. Len(o.args) : p.args[i] = o.args[i]
           /\ p.args[Len(o.args) + 1] = [isFile |-> TRUE, arg |-> <<Len(o.files), f>>]
<1>1. o.args \in Seq(Arg) /\ o.files \in Seq(VarFile)
      /\ Len(o.args) \in Nat /\ Len(o.files) \in Nat
  BY DEF TypeOK
<1>2. <<Len(o.files), f>> \in Names
  BY <1>1 DEF Names
<1>3. [isFile |-> TRUE, arg |-> <<Len(o.files), f>>] \in Arg
  BY <1>2 DEF Arg
<1>4. [name |-> <<Len(o.files), f>>, data |-> d] \in VarFile
  BY <1>2 DEF VarFile
<1> QED BY <1>1, <1>3, <1>4 DEF WithVarFile

\* The var file ReadVarFile reads, and what it adds.
LEMMA NextFile ==
    ASSUME TypeOK, ReadVarFile
    PROVE  LET n == Len(o.files)
               f == mine.varFiles[n + 1]
           IN  /\ n \in Nat /\ n + 1 \in 1 .. Len(mine.varFiles)
               /\ f.ref \in Refs /\ f.format \in Formats /\ f.format = Format(n + 1)
               /\ store[f.ref] \in Contents
               /\ o' = WithVarFile(store[f.ref], f.format)
               /\ read' = Append(read, store[f.ref])
               /\ stage = "read"
               /\ UNCHANGED <<mine, command, stage, store, changed>>
<1> DEFINE n == Len(o.files)
           f == mine.varFiles[n + 1]
<1>1. /\ n < Len(mine.varFiles) /\ store[f.ref] # NoFile
      /\ o' = WithVarFile(store[f.ref], f.format)
      /\ read' = Append(read, store[f.ref])
      /\ stage = "read"
      /\ UNCHANGED <<mine, command, stage, store, changed>>
  BY DEF ReadVarFile, users, history
<1>2. n \in Nat
  <2>1. o.files \in Seq(VarFile) BY DEF TypeOK
  <2> QED BY <2>1
<1>3. mine.varFiles \in Seq(FileRefs) /\ Len(mine.varFiles) \in Nat
  BY MineType
<1> HIDE DEF n
<1>4. n + 1 \in 1 .. Len(mine.varFiles)
  BY <1>1, <1>2, <1>3
<1>5. f \in FileRefs
  BY <1>3, <1>4
<1> HIDE DEF f
<1>6. f.ref \in Refs /\ f.format \in Formats
  BY <1>5 DEF FileRefs
<1>7. f.format = Format(n + 1)
  BY <1>4 DEF Format, f
<1>8. store[f.ref] \in Contents
  <2>1. store \in [Refs -> Contents \cup {NoFile}] BY DEF TypeOK
  <2> QED BY <1>1, <1>6, <2>1
<1> QED BY <1>1, <1>2, <1>4, <1>6, <1>7, <1>8 DEF f, n

\* A place in three parts, one after the other, is in one of them.
LEMMA Parts ==
    ASSUME NEW a \in Nat, NEW b \in Nat, NEW c \in Nat, NEW i \in 1 .. a + b + c
    PROVE  i \in 1 .. a \/ i - a \in 1 .. b \/ i - a - b \in 1 .. c
OBVIOUS

\* The arguments of the command follow those of p.
LEMMA WithArgsIs ==
    ASSUME NEW p \in [args : Seq(Arg), files : Seq(VarFile)], NEW s \in Settings
    PROVE  LET q == WithArgs(p, s) IN
           /\ q \in [args : Seq(Arg), files : Seq(VarFile)]
           /\ q.files = p.files
           /\ Len(q.args) = Len(p.args) + Len(s)
           /\ \A i \in 1 .. Len(p.args) : q.args[i] = p.args[i]
           /\ \A i \in 1 .. Len(s) : q.args[Len(p.args) + i] = VarArg(s[i])
<1>1. /\ Args(s) \in Seq(Arg) /\ Len(Args(s)) = Len(s)
      /\ \A i \in 1 .. Len(s) : Args(s)[i] = VarArg(s[i])
  BY ArgsOf
<1>2. p.args \in Seq(Arg)
  OBVIOUS
<1>3. WithArgs(p, s) = [args |-> p.args \o Args(s), files |-> p.files]
  BY DEF WithArgs
<1>4. /\ p.args \o Args(s) \in Seq(Arg)
      /\ Len(p.args \o Args(s)) = Len(p.args) + Len(s)
      /\ \A i \in 1 .. Len(p.args) : (p.args \o Args(s))[i] = p.args[i]
      /\ \A i \in 1 .. Len(s) : (p.args \o Args(s))[Len(p.args) + i] = Args(s)[i]
  <2> DEFINE a == p.args
             b == Args(s)
  <2>1. a \in Seq(Arg) /\ b \in Seq(Arg) /\ Len(b) = Len(s)
    BY <1>1, <1>2
  <2> HIDE DEF a, b
  <2>2. Len(a) \in Nat /\ Len(b) \in Nat
    BY <2>1, LenProperties
  <2>3. /\ a \o b \in Seq(Arg) /\ Len(a \o b) = Len(a) + Len(b)
        /\ \A i \in 1 .. Len(a) + Len(b) :
              (a \o b)[i] = IF i <= Len(a) THEN a[i] ELSE b[i - Len(a)]
    BY <2>1, ConcatProperties
  <2>4. ASSUME NEW i \in 1 .. Len(a) PROVE (a \o b)[i] = a[i]
    <3>1. i \in 1 .. Len(a) + Len(b) /\ i <= Len(a) BY <2>2
    <3> QED BY <2>3, <3>1
  <2>5. ASSUME NEW i \in 1 .. Len(b) PROVE (a \o b)[Len(a) + i] = b[i]
    <3> DEFINE j == Len(a) + i
    <3>1. j \in 1 .. Len(a) + Len(b) /\ ~(j <= Len(a)) /\ j - Len(a) = i BY <2>2
    <3> HIDE DEF j
    <3>2. (a \o b)[j] = b[j - Len(a)] BY <2>3, <3>1
    <3> QED BY <3>1, <3>2 DEF j
  <2> QED BY <2>1, <2>3, <2>4, <2>5 DEF a, b
<1> QED BY <1>1, <1>3, <1>4

-----------------------------------------------------------------------------
(* Type correctness                                                        *)

LEMMA TypeInit == ASSUME Init PROVE TypeOK
<1>1. spec \in Params /\ mine \in Params
  BY OptionsConstants DEF OptionsConstants, Init
<1>2. store \in [Refs -> Contents \cup {NoFile}]
  BY OptionsConstants DEF OptionsConstants, Init
<1>3. o \in [args : Seq(Arg), files : Seq(VarFile)] /\ read \in Seq(Contents)
  BY DEF Init
<1>4. command \in Commands BY DEF Init, Commands
<1> QED BY <1>1, <1>2, <1>3, <1>4 DEF Init, TypeOK

LEMMA BeginType ==
    ASSUME TypeOK, NEW c \in Commands, NEW p \in Params, Begin(c, p)
    PROVE  /\ command' \in Commands
           /\ stage' \in {"idle", "read", "write", "ran"}
           /\ o' \in [args : Seq(Arg), files : Seq(VarFile)]
           /\ written' \in Nat
           /\ read' \in Seq(Contents)
<1>1. Args(p.vars) \in Seq(Arg)
  BY ArgsOf DEF Params
<1> QED BY <1>1 DEF Begin

LEMMA TypeStep == ASSUME TypeOK, [Next]_vars PROVE TypeOK'
<1>1. CASE UNCHANGED vars BY <1>1 DEF vars, users, history, TypeOK
<1>2. CASE EditSpec BY <1>2, OptionsConstants DEF OptionsConstants, EditSpec, Edit, TypeOK
<1>3. CASE EditStore
  <2>1. store' \in [Refs -> Contents \cup {NoFile}]
    BY <1>3, OptionsConstants DEF OptionsConstants, EditStore, TypeOK
  <2> QED BY <1>3, <2>1 DEF EditStore, Edit, TypeOK
<1>4. CASE Observe
  <2>1. "plan" \in Commands /\ spec \in Params BY DEF Commands, TypeOK
  <2> QED BY <1>4, <2>1, BeginType DEF Observe, users, TypeOK
<1>5. CASE Change
  <2>1. PICK c \in Commands : Begin(c, mine) BY <1>5 DEF Change, Commands
  <2>2. mine \in Params BY DEF TypeOK
  <2> QED BY <1>5, <2>1, <2>2, BeginType DEF Change, users, history, TypeOK
<1>6. CASE ReadVarFile
  <2> DEFINE f == mine.varFiles[Len(o.files) + 1]
  <2>1. /\ f.format \in Formats /\ store[f.ref] \in Contents
        /\ o' = WithVarFile(store[f.ref], f.format)
        /\ read' = Append(read, store[f.ref])
    BY <1>6, NextFile
  <2> HIDE DEF f
  <2>2. o' \in [args : Seq(Arg), files : Seq(VarFile)]
    BY <2>1, WithVarFileIs
  <2>3. read' \in Seq(Contents)
    <3>1. read \in Seq(Contents) BY DEF TypeOK
    <3> QED BY <2>1, <3>1, AppendProperties
  <2>4. UNCHANGED <<spec, mine, store, command, stage, written, changed>>
    BY <1>6 DEF ReadVarFile, users, history
  <2> QED BY <2>2, <2>3, <2>4 DEF TypeOK
<1>7. CASE EndOptions
  <2>1. /\ o \in [args : Seq(Arg), files : Seq(VarFile)]
        /\ mine.varMap # NoFile =>
              WithVarFile(mine.varMap, "JSON") \in [args : Seq(Arg), files : Seq(VarFile)]
    BY MineType, WithVarFileIs DEF TypeOK, Formats
  <2>2. mine.args[command] \in Settings
    BY MineType DEF TypeOK, Own
  <2>3. o' \in [args : Seq(Arg), files : Seq(VarFile)]
    BY <1>7, <2>1, <2>2, WithArgsIs DEF EndOptions
  <2> QED BY <1>7, <2>3 DEF EndOptions, users, history, TypeOK
<1>8. CASE WriteVarFile
  BY <1>8 DEF WriteVarFile, users, history, TypeOK
<1>9. CASE Run BY <1>9 DEF Run, users, TypeOK
<1>10. CASE Return BY <1>10 DEF Return, users, history, TypeOK
<1> QED
  BY <1>1, <1>2, <1>3, <1>4, <1>5, <1>6, <1>7, <1>8, <1>9, <1>10 DEF Next

-----------------------------------------------------------------------------
(* The options                                                             *)

ShapeOK == FilesOK /\ ArgsOK

\* Nothing the shape is about changes.
LEMMA ShapeKept ==
    ASSUME ShapeOK, UNCHANGED <<mine, command, o, read>>,
           stage' \in {"idle", stage} \/ {stage, stage'} = {"write", "ran"}
    PROVE  ShapeOK'
<1>1. FilesOK'
  BY DEF ShapeOK, FilesOK, Complete, NumFiles, Format
<1>2. ArgsOK'
  <2>1. /\ stage' # "idle" => stage # "idle" /\ Complete' = Complete
        /\ \A i : FileArg(i)' = FileArg(i)
        /\ UNCHANGED <<mine, command, o>>
    BY DEF Complete, Format, FileArg
  <2>2. NumVars' = NumVars /\ Own(command)' = Own(command)
    BY DEF NumVars, Own
  <2>3. UNCHANGED o /\ \A i : VarArg(mine.vars[i])' = VarArg(mine.vars[i])
                    /\ VarArg(Own(command)[i])' = VarArg(Own(command)[i])
    BY <2>2 DEF VarArg
  <2>4. CASE stage' # "idle"
    <3>1. stage # "idle" /\ Complete' = Complete
      BY <2>1, <2>4
    <3> QED BY <2>1, <2>2, <2>3, <3>1 DEF ShapeOK, ArgsOK
  <2>5. CASE stage' = "idle"
    BY <2>5 DEF ArgsOK
  <2> QED BY <2>4, <2>5
<1> QED BY <1>1, <1>2 DEF ShapeOK

LEMMA ShapeBegin ==
    ASSUME TypeOK, TypeOK', NEW c \in Commands, NEW p \in Params, Begin(c, p), mine' = p
    PROVE  ShapeOK'
<1>1. /\ Len(Args(p.vars)) = Len(p.vars) /\ Len(p.vars) \in Nat
      /\ \A i \in 1 .. Len(p.vars) : Args(p.vars)[i] = VarArg(p.vars[i])
  <2>1. p.vars \in Settings BY DEF Params
  <2>2. Len(p.vars) \in Nat BY <2>1 DEF Settings
  <2> QED BY <2>1, <2>2, ArgsOf
<1>2. stage' = "read" /\ o' = [args |-> Args(p.vars), files |-> <<>>] /\ read' = <<>>
  BY DEF Begin
<1>3. FilesOK'
  BY <1>2, MineType DEF FilesOK, Complete, TypeOK, Params
<1>4. ArgsOK'
  BY <1>1, <1>2 DEF ArgsOK, Complete, NumVars, VarArg
<1> QED BY <1>3, <1>4 DEF ShapeOK

\* Var file k of the Workspace, or its varmap, is added to the options.
LEMMA ShapeWithFile ==
    ASSUME TypeOK, ShapeOK, stage = "read", NEW d \in Contents, NEW f \in Formats,
           f = Format(Len(o.files) + 1)
    PROVE  LET p == WithVarFile(d, f) IN
           /\ \A i \in 1 .. Len(p.files) : p.files[i].name = <<i - 1, Format(i)>>
           /\ \A i \in 1 .. Len(read) : p.files[i].data = read[i]
           /\ p.files[Len(o.files) + 1].data = d
           /\ Len(p.files) = Len(o.files) + 1
           /\ Len(p.args) = NumVars + Len(p.files)
           /\ \A i \in 1 .. NumVars : p.args[i] = VarArg(mine.vars[i])
           /\ \A i \in 1 .. Len(p.files) : p.args[NumVars + i] = FileArg(i)
<1> DEFINE p == WithVarFile(d, f)
           n == Len(o.files)
<1>1. /\ Len(p.files) = n + 1
      /\ \A i \in 1 .. n : p.files[i] = o.files[i]
      /\ p.files[n + 1] = [name |-> <<n, f>>, data |-> d]
      /\ Len(p.args) = Len(o.args) + 1
      /\ \A i \in 1 .. Len(o.args) : p.args[i] = o.args[i]
      /\ p.args[Len(o.args) + 1] = [isFile |-> TRUE, arg |-> <<n, f>>]
  BY WithVarFileIs
<1>2. /\ n \in Nat /\ NumVars \in Nat /\ Len(read) = n
      /\ Len(o.args) = NumVars + n
      /\ \A i \in 1 .. n : /\ o.files[i].name = <<i - 1, Format(i)>>
                           /\ o.files[i].data = read[i]
                           /\ o.args[NumVars + i] = FileArg(i)
      /\ \A i \in 1 .. NumVars : o.args[i] = VarArg(mine.vars[i])
  <2>1. n \in Nat
    <3>1. o.files \in Seq(VarFile) BY DEF TypeOK
    <3> QED BY <3>1
  <2>2. NumVars \in Nat BY MineType
  <2>3. Len(read) = n BY DEF ShapeOK, FilesOK
  <2>4. \A i \in 1 .. n : o.files[i].name = <<i - 1, Format(i)>>
    BY DEF ShapeOK, FilesOK
  <2>5. \A i \in 1 .. n : o.files[i].data = read[i]
    BY <2>3 DEF ShapeOK, FilesOK
  <2>6. /\ Len(o.args) = NumVars + n + 0
        /\ \A i \in 1 .. NumVars : o.args[i] = VarArg(mine.vars[i])
        /\ \A i \in 1 .. n : o.args[NumVars + i] = FileArg(i)
    BY DEF ShapeOK, ArgsOK, Complete
  <2>7. Len(o.args) = NumVars + n BY <2>1, <2>2, <2>6
  <2> QED BY <2>1, <2>2, <2>3, <2>4, <2>5, <2>6, <2>7
<1> HIDE DEF p, n
<1>3. \A i \in 1 .. Len(p.files) : p.files[i].name = <<i - 1, Format(i)>>
  <2> SUFFICES ASSUME NEW i \in 1 .. n + 1 PROVE p.files[i].name = <<i - 1, Format(i)>>
    BY <1>1
  <2>1. CASE i \in 1 .. n BY <1>1, <1>2, <2>1
  <2>2. CASE i = n + 1
    <3>1. p.files[i].name = <<n, f>> BY <1>1, <2>2
    <3> QED BY <1>2, <2>2, <3>1 DEF n
  <2> QED BY <1>2, <2>1, <2>2
<1>4. ASSUME NEW i \in 1 .. Len(read) PROVE p.files[i].data = read[i]
  <2>1. i \in 1 .. n /\ o.files[i].data = read[i] BY <1>2
  <2> QED BY <1>1, <2>1
<1>5. p.files[n + 1].data = d
  BY <1>1
<1>6. \A i \in 1 .. NumVars : p.args[i] = VarArg(mine.vars[i])
  BY <1>1, <1>2
<1>7. \A i \in 1 .. Len(p.files) : p.args[NumVars + i] = FileArg(i)
  <2> SUFFICES ASSUME NEW i \in 1 .. n + 1 PROVE p.args[NumVars + i] = FileArg(i)
    BY <1>1
  <2>1. CASE i \in 1 .. n
    <3>1. NumVars + i \in 1 .. Len(o.args) BY <1>2, <2>1
    <3> QED BY <1>1, <1>2, <2>1, <3>1
  <2>2. CASE i = n + 1
    <3>1. NumVars + i = Len(o.args) + 1 BY <1>2, <2>2
    <3>2. i - 1 = n BY <1>2, <2>2
    <3> QED BY <1>1, <2>2, <3>1, <3>2 DEF FileArg, n
  <2> QED BY <1>2, <2>1, <2>2
<1>8. Len(p.args) = NumVars + Len(p.files)
  BY <1>1, <1>2
<1> QED BY <1>1, <1>3, <1>4, <1>5, <1>6, <1>7, <1>8 DEF p, n

LEMMA ShapeStep == ASSUME TypeOK, TypeOK', ShapeOK, [Next]_vars PROVE ShapeOK'
<1>1. CASE UNCHANGED vars BY <1>1, ShapeKept DEF vars
<1>2. CASE EditSpec BY <1>2, ShapeKept DEF EditSpec, Edit
<1>3. CASE EditStore BY <1>3, ShapeKept DEF EditStore, Edit
<1>4. CASE Observe
  BY <1>4, ShapeBegin DEF Observe, TypeOK, Commands
<1>5. CASE Change
  BY <1>5, ShapeBegin DEF Change, TypeOK, Commands
<1>6. CASE ReadVarFile
  <2> DEFINE n == Len(o.files)
             f == mine.varFiles[n + 1]
             d == store[f.ref]
             p == WithVarFile(d, f.format)
  <2>1. /\ n \in Nat /\ n + 1 \in 1 .. Len(mine.varFiles)
        /\ f.format \in Formats /\ f.format = Format(n + 1)
        /\ d \in Contents
        /\ o' = p /\ read' = Append(read, d) /\ stage = "read"
        /\ UNCHANGED <<mine, command, stage>>
    BY <1>6, NextFile
  <2> HIDE DEF f, d, p
  <2>2. n = Len(read)
    BY <2>1 DEF ShapeOK, FilesOK
  <2>3. n + 1 <= Len(mine.varFiles)
    <3>1. Len(mine.varFiles) \in Nat BY MineType
    <3> HIDE DEF n
    <3> QED BY <2>1, <3>1
  <2>5. /\ \A i \in 1 .. Len(p.files) : p.files[i].name = <<i - 1, Format(i)>>
        /\ \A i \in 1 .. Len(read) : p.files[i].data = read[i]
        /\ p.files[n + 1].data = d
        /\ Len(p.files) = n + 1
        /\ Len(p.args) = NumVars + Len(p.files)
        /\ \A i \in 1 .. NumVars : p.args[i] = VarArg(mine.vars[i])
        /\ \A i \in 1 .. Len(p.files) : p.args[NumVars + i] = FileArg(i)
    BY <2>1, ShapeWithFile DEF p
  <2> HIDE DEF n
  <2>6. /\ Len(read') = n + 1
        /\ \A i \in 1 .. n : read'[i] = read[i]
        /\ read'[n + 1] = d
    <3>1. read \in Seq(Contents) BY DEF TypeOK
    <3>2. /\ Len(Append(read, d)) = n + 1
          /\ \A i \in 1 .. n : Append(read, d)[i] = read[i]
          /\ Append(read, d)[n + 1] = d
      BY <2>1, <2>2, <3>1, AppendProperties
    <3> QED BY <2>1, <3>2
  <2>7. FilesOK'
    <3>1. stage' = "read" /\ ~Complete' BY <2>1 DEF Complete
    <3>2. \A i \in 1 .. n + 1 : p.files[i].data = read'[i]
      <4> TAKE i \in 1 .. n + 1
      <4>1. i \in 1 .. n \/ i = n + 1 BY <2>1
      <4> QED BY <2>2, <2>5, <2>6, <4>1
    <3>3. \A i \in 1 .. Len(p.files) : p.files[i].name = <<i - 1, Format(i)'>>
      BY <2>1, <2>5 DEF Format
    <3> QED BY <2>1, <2>3, <2>5, <2>6, <3>1, <3>2, <3>3 DEF FilesOK
  <2>8. ArgsOK'
    <3>1. ~Complete' BY <2>1 DEF Complete
    <3>2. NumVars' = NumVars /\ \A i : FileArg(i)' = FileArg(i)
      BY <2>1 DEF NumVars, FileArg, Format
    <3>3. NumVars + Len(p.files) = NumVars + Len(p.files) + 0
      <4>1. NumVars \in Nat BY MineType
      <4> QED BY <2>1, <2>5, <4>1
    <3> QED BY <2>1, <2>5, <3>1, <3>2, <3>3 DEF ArgsOK, VarArg
  <2> QED BY <2>7, <2>8 DEF ShapeOK
<1>7. CASE EndOptions
  <2> DEFINE own == mine.args[command]
             n == Len(mine.varFiles)
             p == IF mine.varMap = NoFile THEN o ELSE WithVarFile(mine.varMap, "JSON")
             q == WithArgs(p, own)
  <2>1. /\ n \in Nat /\ n = Len(read) /\ n = Len(o.files) /\ stage = "read"
        /\ own \in Settings
    BY <1>7, MineType DEF EndOptions, TypeOK, ShapeOK, FilesOK, Own
  <2>2. /\ stage' = "write" /\ o' = q
        /\ UNCHANGED <<mine, command, read>>
    BY <1>7 DEF EndOptions
  <2>3. /\ p \in [args : Seq(Arg), files : Seq(VarFile)]
        /\ Len(p.files) = NumFiles
        /\ \A i \in 1 .. Len(p.files) : p.files[i].name = <<i - 1, Format(i)>>
        /\ \A i \in 1 .. Len(read) : p.files[i].data = read[i]
        /\ mine.varMap # NoFile => p.files[NumFiles].data = mine.varMap
        /\ Len(p.args) = NumVars + Len(p.files)
        /\ \A i \in 1 .. NumVars : p.args[i] = VarArg(mine.vars[i])
        /\ \A i \in 1 .. Len(p.files) : p.args[NumVars + i] = FileArg(i)
    <3>1. CASE mine.varMap = NoFile
      <4>1. p = o /\ NumFiles = n BY <2>1, <3>1 DEF NumFiles
      <4> HIDE DEF p, n
      <4>2. o \in [args : Seq(Arg), files : Seq(VarFile)] BY DEF TypeOK
      <4>3. /\ \A i \in 1 .. Len(o.files) : o.files[i].name = <<i - 1, Format(i)>>
            /\ \A i \in 1 .. Len(read) : o.files[i].data = read[i]
        BY <2>1 DEF ShapeOK, FilesOK
      <4>4. /\ Len(o.args) = NumVars + Len(o.files)
            /\ \A i \in 1 .. NumVars : o.args[i] = VarArg(mine.vars[i])
            /\ \A i \in 1 .. Len(o.files) : o.args[NumVars + i] = FileArg(i)
        BY <2>1, MineType DEF TypeOK, ShapeOK, ArgsOK, Complete
      <4> QED BY <2>1, <3>1, <4>1, <4>2, <4>3, <4>4
    <3>2. CASE mine.varMap # NoFile
      <4>1. /\ p = WithVarFile(mine.varMap, "JSON") /\ NumFiles = n + 1
            /\ mine.varMap \in Contents
            /\ "JSON" \in Formats /\ "JSON" = Format(Len(o.files) + 1)
        BY <2>1, <3>2, MineType DEF NumFiles, Formats, Format
      <4> HIDE DEF p, n
      <4>2. p \in [args : Seq(Arg), files : Seq(VarFile)]
        BY <4>1, WithVarFileIs
      <4>3. /\ \A i \in 1 .. Len(p.files) : p.files[i].name = <<i - 1, Format(i)>>
            /\ \A i \in 1 .. Len(read) : p.files[i].data = read[i]
            /\ p.files[Len(o.files) + 1].data = mine.varMap
            /\ Len(p.files) = Len(o.files) + 1
            /\ Len(p.args) = NumVars + Len(p.files)
            /\ \A i \in 1 .. NumVars : p.args[i] = VarArg(mine.vars[i])
            /\ \A i \in 1 .. Len(p.files) : p.args[NumVars + i] = FileArg(i)
        BY <2>1, <4>1, ShapeWithFile
      <4> QED BY <2>1, <4>1, <4>2, <4>3
    <3> QED BY <3>1, <3>2
  <2> HIDE DEF p
  <2>4. /\ q.files = p.files
        /\ Len(q.args) = Len(p.args) + Len(own)
        /\ \A i \in 1 .. Len(p.args) : q.args[i] = p.args[i]
        /\ \A i \in 1 .. Len(own) : q.args[Len(p.args) + i] = VarArg(own[i])
    BY <2>1, <2>3, WithArgsIs
  <2>5. NumFiles \in Nat /\ NumVars \in Nat /\ Len(own) \in Nat
    BY <2>1, MineType DEF Settings
  <2> HIDE DEF q, own, n
  <2>6. FilesOK'
    BY <2>1, <2>2, <2>3, <2>4 DEF FilesOK, Complete, Format, NumFiles, n
  <2>7. Len(o'.args) = NumVars + Len(o'.files) + Len(own)
    BY <2>2, <2>3, <2>4
  <2>8. \A i \in 1 .. NumVars : o'.args[i] = VarArg(mine.vars[i])
    BY <2>2, <2>3, <2>4, <2>5
  <2>9. \A i \in 1 .. Len(o'.files) : o'.args[NumVars + i] = FileArg(i)
    <3> SUFFICES ASSUME NEW i \in 1 .. NumFiles PROVE q.args[NumVars + i] = FileArg(i)
      BY <2>2, <2>3, <2>4
    <3>1. NumVars + i \in 1 .. Len(p.args) BY <2>3, <2>5
    <3> QED BY <2>3, <2>4, <3>1
  <2>10. \A i \in 1 .. Len(own) : o'.args[NumVars + Len(o'.files) + i] = VarArg(own[i])
    BY <2>2, <2>3, <2>4, <2>5
  <2>11. ArgsOK'
    BY <2>2, <2>7, <2>8, <2>9, <2>10
       DEF ArgsOK, Complete, NumVars, FileArg, Format, Own, own
  <2> QED BY <2>6, <2>11 DEF ShapeOK
<1>8. CASE WriteVarFile BY <1>8, ShapeKept DEF WriteVarFile
<1>9. CASE Run BY <1>9, ShapeKept DEF Run, Complete
<1>10. CASE Return BY <1>10, ShapeKept DEF Return
<1> QED
  BY <1>1, <1>2, <1>3, <1>4, <1>5, <1>6, <1>7, <1>8, <1>9, <1>10 DEF Next

-----------------------------------------------------------------------------
(* The directory                                                           *)

LEMMA DiskKept ==
    ASSUME DiskOK, UNCHANGED <<o, written>>, stage' = "idle" \/ UNCHANGED <<stage, disk>>
    PROVE  DiskOK'
BY DEF DiskOK, Complete

LEMMA DiskStep == ASSUME TypeOK, TypeOK', ShapeOK, DiskOK, [Next]_vars PROVE DiskOK'
<1>1. CASE UNCHANGED vars BY <1>1, DiskKept DEF vars
<1>2. CASE EditSpec BY <1>2, DiskKept DEF EditSpec, Edit
<1>3. CASE EditStore BY <1>3, DiskKept DEF EditStore, Edit
<1>4. CASE Observe BY <1>4 DEF Observe, Begin, DiskOK, Complete
<1>5. CASE Change BY <1>5 DEF Change, Begin, DiskOK, Complete
<1>6. CASE ReadVarFile BY <1>6 DEF ReadVarFile, DiskOK, Complete
<1>7. CASE EndOptions
  <2>1. stage' = "write" /\ written' = 0 /\ Len(o'.files) \in Nat
    BY <1>7 DEF EndOptions, DiskOK, TypeOK
  <2> QED BY <2>1 DEF DiskOK, Complete
<1>8. CASE WriteVarFile
  <2> DEFINE k == written + 1
             name(i) == o.files[i].name
  <2>1. /\ stage = "write" /\ UNCHANGED <<stage, o>>
        /\ written' = k /\ written \in Nat
        /\ Len(o.files) \in Nat /\ k <= Len(o.files)
        /\ disk' = [n \in DOMAIN disk \cup {name(k)} |->
                       IF n = name(k) THEN o.files[k].data ELSE disk[n]]
    BY <1>8 DEF WriteVarFile, Put, TypeOK
  <2>2. \A i \in 1 .. Len(o.files) : name(i) = <<i - 1, Format(i)>>
    BY <2>1 DEF ShapeOK, FilesOK
  <2>3. \A i \in 1 .. written : /\ name(i) \in DOMAIN disk
                                /\ disk[name(i)] = o.files[i].data
    BY <2>1 DEF DiskOK, Complete
  <2> HIDE DEF name
  <2>4. \A i \in 1 .. k : name(i) \in DOMAIN disk' /\ disk'[name(i)] = o.files[i].data
    <3> TAKE i \in 1 .. k
    <3>1. CASE i = k BY <2>1, <3>1
    <3>2. CASE i \in 1 .. written
      <4>1. i - 1 # k - 1 BY <2>1, <3>2
      <4>2. name(i) # name(k) BY <2>1, <2>2, <3>2, <4>1
      <4> QED BY <2>1, <2>3, <3>2, <4>2
    <3> QED BY <2>1, <3>1, <3>2
  <2> QED BY <2>1, <2>4 DEF DiskOK, Complete, name
<1>9. CASE Run BY <1>9 DEF Run, DiskOK, Complete
<1>10. CASE Return BY <1>10, DiskKept DEF Return
<1> QED
  BY <1>1, <1>2, <1>3, <1>4, <1>5, <1>6, <1>7, <1>8, <1>9, <1>10 DEF Next

LEMMA RanStep == ASSUME RanOK, [Next]_vars PROVE RanOK'
<1>1. CASE UNCHANGED vars BY <1>1 DEF vars, RanOK
<1>2. CASE Run BY <1>2 DEF Run, RanOK
<1>3. CASE EditSpec \/ EditStore BY <1>3 DEF EditSpec, EditStore, Edit, RanOK
<1>4. CASE Observe \/ Change \/ ReadVarFile \/ EndOptions \/ WriteVarFile \/ Return
  <2>1. stage' # "ran"
    BY <1>4 DEF Observe, Change, Begin, ReadVarFile, EndOptions, WriteVarFile, Return
  <2> QED BY <2>1 DEF RanOK
<1> QED BY <1>1, <1>2, <1>3, <1>4 DEF Next

-----------------------------------------------------------------------------
(* What is read, and what was planned                                      *)

LEMMA ReadStep ==
    ASSUME TypeOK, ShapeOK, ReadOK, [Next]_vars
    PROVE  ReadOK'
<1>1. CASE UNCHANGED vars BY <1>1 DEF vars, users, history, ReadOK
<1>2. CASE EditSpec BY <1>2 DEF EditSpec, Edit, ReadOK
<1>3. CASE EditStore BY <1>3 DEF EditStore, ReadOK
<1>4. CASE Observe \/ Change
  <2>1. read' = <<>> BY <1>4 DEF Observe, Change, Begin
  <2> QED BY <2>1 DEF ReadOK
<1>5. CASE ReadVarFile
  <2> DEFINE n == Len(read)
  <2>1. /\ read' = Append(read, store[mine.varFiles[n + 1].ref])
        /\ UNCHANGED <<store, mine, stage, changed>>
        /\ read \in Seq(Contents) /\ n \in Nat
    <3>1. stage = "read" BY <1>5 DEF ReadVarFile
    <3>2. Len(o.files) = n BY <3>1 DEF ShapeOK, FilesOK
    <3>3. read \in Seq(Contents) BY DEF TypeOK
    <3> QED BY <1>5, <3>2, <3>3, NextFile
  <2>2. /\ Len(read') = n + 1
        /\ \A i \in 1 .. n : read'[i] = read[i]
        /\ read'[n + 1] = store[mine.varFiles[n + 1].ref]
    <3>1. store[mine.varFiles[n + 1].ref] \in Contents
      <4>1. stage = "read" BY <1>5 DEF ReadVarFile
      <4>2. Len(o.files) = n BY <4>1 DEF ShapeOK, FilesOK
      <4> QED BY <1>5, <4>2, NextFile
    <3> QED BY <2>1, <3>1, AppendProperties
  <2> HIDE DEF n
  <2>3. stage # "idle" /\ ~changed =>
            \A i \in 1 .. n : read[i] = store[mine.varFiles[i].ref]
    BY DEF ReadOK, n
  <2> QED BY <2>1, <2>2, <2>3 DEF ReadOK
<1>6. CASE EndOptions \/ WriteVarFile \/ Run
  BY <1>6 DEF EndOptions, WriteVarFile, Run, users, history, ReadOK
<1>7. CASE Return BY <1>7 DEF Return, ReadOK
<1> QED BY <1>1, <1>2, <1>3, <1>4, <1>5, <1>6, <1>7 DEF Next

\* Terraform takes a variable from the arguments and what the files they name
\* hold, whatever else is in the directory.
LEMMA EffectiveSame ==
    ASSUME NEW args \in Seq(Arg), NEW d, NEW e, NEW x,
           \A i \in DOMAIN args : args[i].isFile => d[args[i].arg] = e[args[i].arg]
    PROVE  Effective(args, d, x) = Effective(args, e, x)
<1> DEFINE Last(f, i) == /\ Sets(args[i], f, x)
                         /\ \A j \in DOMAIN args : j > i => ~Sets(args[j], f, x)
           At(f) == CHOOSE i \in DOMAIN args : Last(f, i)
<1>1. \A i \in DOMAIN args : /\ Sets(args[i], d, x) = Sets(args[i], e, x)
                             /\ Gives(args[i], d, x) = Gives(args[i], e, x)
  BY DEF Sets, Gives
<1>2. \A i \in DOMAIN args : Last(d, i) = Last(e, i)
  BY <1>1
<1>3. At(d) = At(e)
  BY <1>2
<1>4. (\E i \in DOMAIN args : Last(d, i)) => At(d) \in DOMAIN args
  OBVIOUS
<1>5. \A f : Effective(args, f, x) =
          IF \E i \in DOMAIN args : Last(f, i) THEN Gives(args[At(f)], f, x) ELSE Unset
  BY DEF Effective, IsLast
<1> HIDE DEF Last, At
<1> QED BY <1>1, <1>2, <1>3, <1>4, <1>5

\* A command without a change since the reconcile began runs with the values
\* its copy and the ConfigMaps and Secrets as they are determine.
LEMMA RunsUnchanged ==
    ASSUME TypeOK, ShapeOK, DiskOK, ReadOK, Complete, ~changed, written = Len(o.files)
    PROVE  \A x \in Variables : Effective(o.args, disk, x) = Unchanged(command)[x]
<1> DEFINE own == Own(command)
           n   == Len(mine.varFiles)
<1>1. /\ NumVars \in Nat /\ NumFiles \in {n, n + 1} /\ n \in Nat
      /\ own \in Settings /\ Len(own) \in Nat
  BY MineType DEF TypeOK
<1>0. NumVars \in Nat /\ NumFiles \in Nat /\ Len(own) \in Nat
  BY <1>1
<1>2. /\ Len(o.files) = NumFiles /\ Len(read) = n
      /\ mine.varMap # NoFile => o.files[NumFiles].data = mine.varMap
      /\ \A i \in 1 .. NumFiles : o.files[i].name = <<i - 1, Format(i)>>
      /\ \A i \in 1 .. n : o.files[i].data = read[i]
  BY DEF ShapeOK, FilesOK, Complete
<1>3. /\ Len(o.args) = NumVars + NumFiles + Len(own)
      /\ \A i \in 1 .. NumVars : o.args[i] = VarArg(mine.vars[i])
      /\ \A i \in 1 .. NumFiles : o.args[NumVars + i] = FileArg(i)
      /\ \A i \in 1 .. Len(own) : o.args[NumVars + NumFiles + i] = VarArg(own[i])
  BY <1>2 DEF ShapeOK, ArgsOK, Complete
<1>4. \A i \in 1 .. NumFiles : disk[<<i - 1, Format(i)>>] = o.files[i].data
  BY <1>2 DEF DiskOK
<1>5. \A i \in 1 .. n : read[i] = store[mine.varFiles[i].ref]
  BY <1>2 DEF ReadOK, Complete
<1> HIDE DEF own
<1>6. o.args = FullArgs(command)
  <2>1. o.args \in Seq(Arg) BY DEF TypeOK
  <2>2. \A i \in 1 .. Len(o.args) : o.args[i] = FullArgs(command)[i]
    <3> TAKE i \in 1 .. Len(o.args)
    <3>1. CASE i \in 1 .. NumVars BY <1>1, <1>3, <3>1 DEF FullArgs, own
    <3>2. CASE i - NumVars \in 1 .. NumFiles
      <4>1. o.args[NumVars + (i - NumVars)] = FileArg(i - NumVars) BY <1>3, <3>2
      <4>2. NumVars + (i - NumVars) = i /\ ~(i <= NumVars) /\ i <= NumVars + NumFiles
        BY <1>1, <3>2
      <4> QED BY <1>3, <4>1, <4>2 DEF FullArgs, own
    <3>3. CASE i - NumVars - NumFiles \in 1 .. Len(own)
      <4> DEFINE k == i - NumVars - NumFiles
      <4>1. NumVars + NumFiles + k = i /\ ~(i <= NumVars) /\ ~(i <= NumVars + NumFiles)
        BY <1>1, <3>3
      <4>2. o.args[i] = VarArg(own[k]) BY <1>3, <3>3, <4>1
      <4> QED BY <1>3, <4>1, <4>2 DEF FullArgs, own
    <3>4. i \in 1 .. NumVars \/ i - NumVars \in 1 .. NumFiles
            \/ i - NumVars - NumFiles \in 1 .. Len(own)
      BY <1>0, <1>3, Parts
    <3> QED BY <3>1, <3>2, <3>3, <3>4
  <2>3. DOMAIN o.args = 1 .. Len(o.args) /\ DOMAIN FullArgs(command) = 1 .. Len(o.args)
    BY <1>3, <2>1 DEF FullArgs, own
  <2>4. /\ o.args = [i \in DOMAIN o.args |-> o.args[i]]
        /\ FullArgs(command) = [i \in DOMAIN FullArgs(command) |-> FullArgs(command)[i]]
    BY <2>1 DEF FullArgs
  <2> QED BY <2>2, <2>3, <2>4
<1>7. \A i \in DOMAIN o.args : o.args[i].isFile => disk[o.args[i].arg] = FileData[o.args[i].arg]
  <2> SUFFICES ASSUME NEW i \in 1 .. Len(o.args), o.args[i].isFile
               PROVE  disk[o.args[i].arg] = FileData[o.args[i].arg]
    BY DEF TypeOK
  <2>1. PICK k \in 1 .. NumFiles : i = NumVars + k
    <3>0. \A s : VarArg(s).isFile = FALSE BY DEF VarArg
    <3>1. ~(i \in 1 .. NumVars)
      <4> SUFFICES ASSUME i \in 1 .. NumVars PROVE FALSE
        OBVIOUS
      <4>1. o.args[i] = VarArg(mine.vars[i]) BY <1>3
      <4> QED BY <3>0, <4>1
    <3>2. ~(i - NumVars - NumFiles \in 1 .. Len(own))
      <4> SUFFICES ASSUME i - NumVars - NumFiles \in 1 .. Len(own) PROVE FALSE
        OBVIOUS
      <4>1. NumVars + NumFiles + (i - NumVars - NumFiles) = i BY <1>1
      <4>2. o.args[i] = VarArg(own[i - NumVars - NumFiles]) BY <1>3, <4>1
      <4> QED BY <3>0, <4>2
    <3>3. i - NumVars \in 1 .. NumFiles
      <4>1. i \in 1 .. NumVars + NumFiles + Len(own) BY <1>3
      <4> QED BY <1>0, <3>1, <3>2, <4>1, Parts
    <3>4. i = NumVars + (i - NumVars) BY <1>0
    <3> QED BY <3>3, <3>4
  <2>2. o.args[i].arg = <<k - 1, Format(k)>>
    <3>1. o.args[i] = FileArg(k) BY <1>3, <2>1
    <3> QED BY <3>1 DEF FileArg
  <2>3. <<k - 1, Format(k)>> \in Names BY <1>1, <2>1, MineType DEF Names
  <2>4. FileData[<<k - 1, Format(k)>>] =
            IF k - 1 < n THEN store[mine.varFiles[(k - 1) + 1].ref] ELSE mine.varMap
    BY <2>3 DEF FileData
  <2>5. CASE k \in 1 .. n
    <3>1. k - 1 < n /\ (k - 1) + 1 = k BY <1>1, <2>5
    <3> QED BY <1>2, <1>4, <1>5, <2>2, <2>4, <2>5, <3>1
  <2>6. CASE k = n + 1
    <3>1. NumFiles = k /\ ~(k - 1 < n) BY <1>1, <2>1, <2>6
    <3>2. mine.varMap = NoFile => NumFiles = n BY MineType
    <3>3. mine.varMap # NoFile BY <1>1, <2>6, <3>1, <3>2
    <3> QED BY <1>2, <1>4, <2>2, <2>4, <3>1, <3>3
  <2> QED BY <1>1, <2>1, <2>5, <2>6
<1>8. o.args \in Seq(Arg) BY DEF TypeOK
<1> QED BY <1>6, <1>7, <1>8, EffectiveSame DEF Unchanged

LEMMA PlanStep ==
    ASSUME TypeOK, ShapeOK, DiskOK, ReadOK, PlanOK, [Next]_vars
    PROVE  PlanOK'
<1> DEFINE Same == UNCHANGED <<mine, store>>
<1>s. Same => UNCHANGED Unchanged("plan")
  BY DEF Unchanged, FullArgs, FileData, NumVars, NumFiles, FileArg, Format, Own
<1>1. CASE UNCHANGED vars BY <1>1, <1>s DEF vars, users, history, PlanOK
<1>2. CASE EditSpec BY <1>2, <1>s DEF EditSpec, Edit, PlanOK
<1>3. CASE EditStore BY <1>3 DEF EditStore, PlanOK
<1>4. CASE Observe BY <1>4 DEF Observe, Begin, PlanOK
<1>5. CASE Change BY <1>5, <1>s DEF Change, users, history, PlanOK
<1>6. CASE ReadVarFile \/ EndOptions \/ WriteVarFile
  BY <1>6, <1>s DEF ReadVarFile, EndOptions, WriteVarFile, users, history, PlanOK
<1>7. CASE Run
  <2>1. /\ stage = "write" /\ written = Len(o.files)
        /\ Same /\ UNCHANGED <<command, changed>>
        /\ outcome' = [x \in Variables |-> Effective(o.args, disk, x)]
        /\ planned' = IF command = "plan" THEN outcome' ELSE planned
    BY <1>7 DEF Run, users
  <2>2. CASE command = "plan" /\ ~changed
    <3>1. \A x \in Variables : Effective(o.args, disk, x) = Unchanged("plan")[x]
      BY <2>1, <2>2, RunsUnchanged DEF Complete
    <3>2. planned' = Unchanged("plan")
      BY <2>1, <2>2, <3>1 DEF Unchanged
    <3> QED BY <1>s, <2>1, <3>2 DEF PlanOK
  <2>3. CASE command # "plan" /\ ~changed
    BY <1>s, <2>1, <2>3 DEF PlanOK
  <2>4. CASE changed BY <2>1, <2>4 DEF PlanOK
  <2> QED BY <2>2, <2>3, <2>4
<1>8. CASE Return BY <1>8 DEF Return, PlanOK
<1> QED BY <1>1, <1>2, <1>3, <1>4, <1>5, <1>6, <1>7, <1>8 DEF Next

-----------------------------------------------------------------------------
(* Which argument counts                                                   *)

LEMMA EffectiveIs ==
    ASSUME NEW args \in Seq(Arg), NEW d, NEW x
    PROVE  /\ \A i \in DOMAIN args :
                 /\ Sets(args[i], d, x)
                 /\ \A j \in DOMAIN args : j > i => ~Sets(args[j], d, x)
                 => Effective(args, d, x) = Gives(args[i], d, x)
           /\ (\A i \in DOMAIN args : ~Sets(args[i], d, x)) => Effective(args, d, x) = Unset
<1> DEFINE Last(i) == /\ Sets(args[i], d, x)
                      /\ \A j \in DOMAIN args : j > i => ~Sets(args[j], d, x)
           at == CHOOSE i \in DOMAIN args : Last(i)
<1>1. Effective(args, d, x) =
          IF \E i \in DOMAIN args : Last(i) THEN Gives(args[at], d, x) ELSE Unset
  BY DEF Effective, IsLast
<1>2. ASSUME NEW i \in DOMAIN args, Last(i)
      PROVE  Effective(args, d, x) = Gives(args[i], d, x)
  <2>1. at \in DOMAIN args /\ Last(at) BY <1>2
  <2>2. DOMAIN args = 1 .. Len(args) /\ Len(args) \in Nat OBVIOUS
  <2>3. ~(at > i) /\ ~(i > at) BY <1>2, <2>1
  <2> HIDE DEF at
  <2>4. at = i BY <2>1, <2>2, <2>3
  <2> HIDE DEF Last
  <2> QED BY <1>1, <1>2, <2>4
<1>3. (\A i \in DOMAIN args : ~Sets(args[i], d, x)) => ~\E i \in DOMAIN args : Last(i)
  OBVIOUS
<1> HIDE DEF at
<1>4. (\A i \in DOMAIN args : ~Sets(args[i], d, x)) => Effective(args, d, x) = Unset
  BY <1>1, <1>3
<1> QED BY <1>2, <1>4

\* Once terraform has run: which arguments there are, and what they set.
LEMMA Positions ==
    ASSUME TypeOK, ShapeOK, DiskOK, stage = "ran", NEW x \in Variables
    PROVE  LET own == Own(command)
               n   == Len(mine.varFiles)
               all == NumVars + NumFiles + Len(own)
               arg(i) == o.args[i]
           IN
           /\ NumVars \in Nat /\ n \in Nat /\ Len(own) \in Nat
           /\ mine.varMap = NoFile => NumFiles = n
           /\ mine.varMap # NoFile => NumFiles = n + 1
           /\ DOMAIN mine.vars = 1 .. NumVars
           /\ DOMAIN own = 1 .. Len(own)
           /\ DOMAIN read = 1 .. n
           /\ DOMAIN o.args = 1 .. all
           /\ \A i \in 1 .. NumVars : /\ Sets(arg(i), disk, x) <=> mine.vars[i].key = x
                                      /\ Gives(arg(i), disk, x) = mine.vars[i].value
           /\ \A i \in 1 .. n :
                 /\ Sets(arg(NumVars + i), disk, x) <=> read[i][x] # Unset
                 /\ Gives(arg(NumVars + i), disk, x) = read[i][x]
           /\ mine.varMap # NoFile =>
                 /\ Sets(arg(NumVars + n + 1), disk, x) <=> mine.varMap[x] # Unset
                 /\ Gives(arg(NumVars + n + 1), disk, x) = mine.varMap[x]
           /\ \A i \in 1 .. Len(own) :
                 /\ Sets(arg(NumVars + NumFiles + i), disk, x) <=> own[i].key = x
                 /\ Gives(arg(NumVars + NumFiles + i), disk, x) = own[i].value
<1> DEFINE own == Own(command)
           n   == Len(mine.varFiles)
<1>1. /\ NumVars \in Nat /\ n \in Nat /\ own \in Settings /\ Len(own) \in Nat
      /\ mine.vars \in Settings
  BY MineType DEF TypeOK
<1>2. /\ DOMAIN mine.vars = 1 .. NumVars /\ DOMAIN own = 1 .. Len(own)
  BY <1>1 DEF Settings, NumVars
<1>3. /\ mine.varMap = NoFile => NumFiles = n
      /\ mine.varMap # NoFile => NumFiles = n + 1
  BY MineType
<1>4. /\ Len(o.files) = NumFiles /\ Len(read) = n
      /\ mine.varMap # NoFile => o.files[NumFiles].data = mine.varMap
      /\ \A i \in 1 .. NumFiles : o.files[i].name = <<i - 1, Format(i)>>
      /\ \A i \in 1 .. n : o.files[i].data = read[i]
  BY DEF ShapeOK, FilesOK, Complete
<1>5. /\ Len(o.args) = NumVars + NumFiles + Len(own)
      /\ \A i \in 1 .. NumVars : o.args[i] = VarArg(mine.vars[i])
      /\ \A i \in 1 .. NumFiles : o.args[NumVars + i] = FileArg(i)
      /\ \A i \in 1 .. Len(own) : o.args[NumVars + NumFiles + i] = VarArg(own[i])
  BY <1>4 DEF ShapeOK, ArgsOK, Complete
<1>6. /\ DOMAIN read = 1 .. n
      /\ DOMAIN o.args = 1 .. NumVars + NumFiles + Len(own)
  BY <1>4, <1>5 DEF TypeOK
<1>7. \A i \in 1 .. NumFiles : disk[<<i - 1, Format(i)>>] = o.files[i].data
  BY <1>4 DEF DiskOK, Complete
<1>8. \A s : /\ Sets(VarArg(s), disk, x) <=> s.key = x
             /\ Gives(VarArg(s), disk, x) = s.value
  BY DEF Sets, Gives, VarArg
<1>9. \A i \in 1 .. NumFiles :
          /\ Sets(o.args[NumVars + i], disk, x) <=> o.files[i].data[x] # Unset
          /\ Gives(o.args[NumVars + i], disk, x) = o.files[i].data[x]
  <2> TAKE i \in 1 .. NumFiles
  <2>1. o.args[NumVars + i] = FileArg(i) BY <1>5
  <2>2. /\ Sets(FileArg(i), disk, x) <=> disk[<<i - 1, Format(i)>>][x] # Unset
        /\ Gives(FileArg(i), disk, x) = disk[<<i - 1, Format(i)>>][x]
    BY DEF Sets, Gives, FileArg
  <2> QED BY <1>7, <2>1, <2>2
<1> HIDE DEF own, n
<1>10. \A i \in 1 .. NumVars : /\ Sets(o.args[i], disk, x) <=> mine.vars[i].key = x
                               /\ Gives(o.args[i], disk, x) = mine.vars[i].value
  BY <1>5, <1>8
<1>11. \A i \in 1 .. Len(own) :
          /\ Sets(o.args[NumVars + NumFiles + i], disk, x) <=> own[i].key = x
          /\ Gives(o.args[NumVars + NumFiles + i], disk, x) = own[i].value
  BY <1>5, <1>8
<1>12. \A i \in 1 .. n :
          /\ Sets(o.args[NumVars + i], disk, x) <=> read[i][x] # Unset
          /\ Gives(o.args[NumVars + i], disk, x) = read[i][x]
  <2> TAKE i \in 1 .. n
  <2>1. i \in 1 .. NumFiles /\ o.files[i].data = read[i] BY <1>1, <1>3, <1>4
  <2> QED BY <1>9, <2>1
<1>13. mine.varMap # NoFile =>
          /\ Sets(o.args[NumVars + n + 1], disk, x) <=> mine.varMap[x] # Unset
          /\ Gives(o.args[NumVars + n + 1], disk, x) = mine.varMap[x]
  <2> SUFFICES ASSUME mine.varMap # NoFile
               PROVE  /\ Sets(o.args[NumVars + n + 1], disk, x) <=> mine.varMap[x] # Unset
                      /\ Gives(o.args[NumVars + n + 1], disk, x) = mine.varMap[x]
    OBVIOUS
  <2>1. /\ NumFiles \in 1 .. NumFiles /\ NumVars + n + 1 = NumVars + NumFiles
        /\ o.files[NumFiles].data = mine.varMap
    BY <1>1, <1>3, <1>4
  <2> QED BY <1>9, <2>1
<1> QED BY <1>1, <1>2, <1>3, <1>6, <1>10, <1>11, <1>12, <1>13 DEF own, n

-----------------------------------------------------------------------------
(* The theorems                                                            *)

LEMMA InvInit == ASSUME Init PROVE OInv
<1>1. TypeOK BY TypeInit
<1> QED BY <1>1 DEF Init, OInv, FilesOK, ArgsOK, DiskOK, RanOK, ReadOK, PlanOK, Complete

LEMMA InvStep == ASSUME OInv, [Next]_vars PROVE OInv'
<1>1. TypeOK' BY TypeStep DEF OInv
<1> QED BY <1>1, ShapeStep, DiskStep, RanStep, ReadStep, PlanStep DEF OInv, ShapeOK

LEMMA Invariance == Spec => []OInv
BY InvInit, InvStep, PTL DEF Spec

\* Which source of a variable counts, for any specs, files and edits of them.
THEOREM LastSourceIsSafe == Spec => []LastSourceWins
<1>1. OInv => LastSourceWins
  <2> SUFFICES ASSUME OInv, stage = "ran", NEW x \in Variables
               PROVE  LET OfX(s)  == s.key = x
                          SetsX(d) == d[x] # Unset
                          own     == mine.args[command]
                          fromMap == mine.varMap # NoFile /\ mine.varMap[x] # Unset
                      IN  /\ \A i \in DOMAIN own :
                                IsLast(i, own, OfX) => outcome[x] = own[i].value
                          /\ None(own, OfX) =>
                              /\ fromMap => outcome[x] = mine.varMap[x]
                              /\ ~fromMap =>
                                  /\ \A i \in DOMAIN read :
                                        IsLast(i, read, SetsX) => outcome[x] = read[i][x]
                                  /\ None(read, SetsX) =>
                                      /\ \A i \in DOMAIN mine.vars :
                                            IsLast(i, mine.vars, OfX) =>
                                                outcome[x] = mine.vars[i].value
                                      /\ None(mine.vars, OfX) => outcome[x] = Unset
    BY DEF LastSourceWins
  <2> DEFINE own == mine.args[command]
             fromMap == mine.varMap # NoFile /\ mine.varMap[x] # Unset
             n   == Len(mine.varFiles)
             v   == NumVars
             m   == Len(own)
             S(i) == Sets(o.args[i], disk, x)
             G(i) == Gives(o.args[i], disk, x)
  <2>1. /\ v \in Nat /\ n \in Nat /\ m \in Nat
        /\ mine.varMap = NoFile => NumFiles = n
        /\ mine.varMap # NoFile => NumFiles = n + 1
        /\ DOMAIN mine.vars = 1 .. v
        /\ DOMAIN own = 1 .. m
        /\ DOMAIN read = 1 .. n
        /\ DOMAIN o.args = 1 .. v + NumFiles + m
        /\ \A i \in 1 .. v : (S(i) <=> mine.vars[i].key = x) /\ G(i) = mine.vars[i].value
        /\ \A i \in 1 .. n : (S(v + i) <=> read[i][x] # Unset) /\ G(v + i) = read[i][x]
        /\ mine.varMap # NoFile =>
              (S(v + n + 1) <=> mine.varMap[x] # Unset) /\ G(v + n + 1) = mine.varMap[x]
        /\ \A i \in 1 .. m :
              (S(v + NumFiles + i) <=> own[i].key = x) /\ G(v + NumFiles + i) = own[i].value
    BY Positions DEF OInv, ShapeOK, Own
  <2>n. /\ v \in Nat /\ n \in Nat /\ m \in Nat
        /\ NumFiles \in Nat /\ NumFiles \in {n, n + 1}
    BY <2>1
  <2>2. /\ \A i \in DOMAIN o.args :
              S(i) /\ (\A j \in DOMAIN o.args : j > i => ~S(j)) => outcome[x] = G(i)
        /\ (\A i \in DOMAIN o.args : ~S(i)) => outcome[x] = Unset
    <3>1. outcome[x] = Effective(o.args, disk, x) BY DEF OInv, RanOK
    <3>2. o.args \in Seq(Arg) BY DEF OInv, TypeOK
    <3> QED BY <3>1, <3>2, EffectiveIs
  <2> HIDE DEF own, n, v, m, S, G
  \* Where an argument stands tells its source.
  <2>3. \A j \in DOMAIN o.args :
            \/ j \in 1 .. v
            \/ \E k \in 1 .. n : j = v + k
            \/ mine.varMap # NoFile /\ j = v + n + 1
            \/ \E k \in 1 .. m : j = v + NumFiles + k
    <3> TAKE j \in DOMAIN o.args
    <3>1. CASE j - v \in 1 .. n
      <4>1. j = v + (j - v) BY <2>1
      <4> QED BY <3>1, <4>1
    <3>2. CASE j - v - NumFiles \in 1 .. m
      <4>1. j = v + NumFiles + (j - v - NumFiles) BY <2>1
      <4> QED BY <3>2, <4>1
    <3>3. CASE mine.varMap # NoFile /\ j - v = n + 1 BY <2>1, <3>3
    <3>4. j \in 1 .. v \/ j - v \in 1 .. NumFiles \/ j - v - NumFiles \in 1 .. m
      <4>1. j \in 1 .. v + NumFiles + m BY <2>1
      <4> QED BY <2>n, <4>1, Parts
    <3>5. j - v \in 1 .. NumFiles =>
             j - v \in 1 .. n \/ (mine.varMap # NoFile /\ j - v = n + 1)
      <4>1. CASE mine.varMap = NoFile BY <2>1, <4>1
      <4>2. CASE mine.varMap # NoFile
        <5>1. NumFiles = n + 1 BY <2>1, <4>2
        <5> QED BY <2>n, <4>2, <5>1
      <4> QED BY <4>1, <4>2
    <3> QED BY <3>1, <3>2, <3>3, <3>4, <3>5
  <2>4. ASSUME NEW i \in 1 .. m, own[i].key = x,
               \A j \in 1 .. m : j > i => own[j].key # x
        PROVE  outcome[x] = own[i].value
    <3> DEFINE p == v + NumFiles + i
    <3>1. p \in DOMAIN o.args /\ S(p) /\ G(p) = own[i].value BY <2>1, <2>4
    <3>2. \A j \in DOMAIN o.args : j > p => ~S(j)
      <4> SUFFICES ASSUME NEW j \in DOMAIN o.args, j > p PROVE ~S(j)
        OBVIOUS
      <4>1. PICK k \in 1 .. m : j = v + NumFiles + k
        <5>1. ~(j \in 1 .. v) BY <2>1, <2>n
        <5>2. ~(\E k \in 1 .. n : j = v + k) BY <2>1, <2>n
        <5>3. ~(mine.varMap # NoFile /\ j = v + n + 1) BY <2>1, <2>n
        <5> QED BY <2>3, <5>1, <5>2, <5>3
      <4>2. k > i BY <2>1, <2>n, <4>1
      <4> QED BY <2>1, <2>4, <4>1, <4>2
    <3> QED BY <2>2, <3>1, <3>2
  <2>5. ASSUME \A i \in 1 .. m : own[i].key # x, fromMap
        PROVE  outcome[x] = mine.varMap[x]
    <3> DEFINE p == v + n + 1
    <3>1. p \in DOMAIN o.args /\ S(p) /\ G(p) = mine.varMap[x] BY <2>1, <2>5
    <3>2. \A j \in DOMAIN o.args : j > p => ~S(j)
      <4> SUFFICES ASSUME NEW j \in DOMAIN o.args, j > p PROVE ~S(j)
        OBVIOUS
      <4>1. PICK k \in 1 .. m : j = v + NumFiles + k
        <5>1. ~(j \in 1 .. v) BY <2>1
        <5>2. ~(\E k \in 1 .. n : j = v + k) BY <2>1
        <5> QED BY <2>1, <2>3, <5>1, <5>2
      <4> QED BY <2>1, <2>5, <4>1
    <3> QED BY <2>2, <3>1, <3>2
  <2>6. ASSUME \A i \in 1 .. m : own[i].key # x, ~fromMap,
               NEW i \in 1 .. n, read[i][x] # Unset,
               \A j \in 1 .. n : j > i => read[j][x] = Unset
        PROVE  outcome[x] = read[i][x]
    <3> DEFINE p == v + i
    <3>1. p \in DOMAIN o.args /\ S(p) /\ G(p) = read[i][x] BY <2>1, <2>6
    <3>2. \A j \in DOMAIN o.args : j > p => ~S(j)
      <4> SUFFICES ASSUME NEW j \in DOMAIN o.args, j > p PROVE ~S(j)
        OBVIOUS
      <4>1. CASE \E k \in 1 .. n : j = v + k
        <5>1. PICK k \in 1 .. n : j = v + k BY <4>1
        <5>2. k > i BY <2>1, <5>1
        <5> QED BY <2>1, <2>6, <5>1, <5>2
      <4>2. CASE mine.varMap # NoFile /\ j = v + n + 1 BY <2>1, <2>6, <4>2
      <4>3. CASE \E k \in 1 .. m : j = v + NumFiles + k BY <2>1, <2>6, <4>3
      <4>4. ~(j \in 1 .. v) BY <2>1
      <4> QED BY <2>3, <4>1, <4>2, <4>3, <4>4
    <3> QED BY <2>2, <3>1, <3>2
  <2>7. ASSUME \A i \in 1 .. m : own[i].key # x, ~fromMap,
               \A i \in 1 .. n : read[i][x] = Unset
        PROVE  \A j \in DOMAIN o.args : ~(j \in 1 .. v) => ~S(j)
    <3> SUFFICES ASSUME NEW j \in DOMAIN o.args, ~(j \in 1 .. v) PROVE ~S(j)
      OBVIOUS
    <3>1. CASE \E k \in 1 .. n : j = v + k
      <4>1. PICK k \in 1 .. n : j = v + k BY <3>1
      <4> QED BY <2>1, <2>7, <4>1
    <3>2. CASE mine.varMap # NoFile /\ j = v + n + 1 BY <2>1, <2>7, <3>2
    <3>3. CASE \E k \in 1 .. m : j = v + NumFiles + k
      <4>1. PICK k \in 1 .. m : j = v + NumFiles + k BY <3>3
      <4> QED BY <2>1, <2>7, <4>1
    <3> QED BY <2>3, <3>1, <3>2, <3>3
  <2>8. ASSUME \A i \in 1 .. m : own[i].key # x, ~fromMap,
               \A i \in 1 .. n : read[i][x] = Unset,
               NEW i \in 1 .. v, mine.vars[i].key = x,
               \A j \in 1 .. v : j > i => mine.vars[j].key # x
        PROVE  outcome[x] = mine.vars[i].value
    <3>1. i \in DOMAIN o.args /\ S(i) /\ G(i) = mine.vars[i].value BY <2>1, <2>8
    <3>2. \A j \in DOMAIN o.args : j > i => ~S(j)
      BY <2>1, <2>7, <2>8
    <3> QED BY <2>2, <3>1, <3>2
  <2>9. ASSUME \A i \in 1 .. m : own[i].key # x, ~fromMap,
               \A i \in 1 .. n : read[i][x] = Unset,
               \A i \in 1 .. v : mine.vars[i].key # x
        PROVE  outcome[x] = Unset
    <3>1. \A j \in DOMAIN o.args : ~S(j) BY <2>1, <2>7, <2>9
    <3> QED BY <2>2, <3>1
  <2>10. /\ DOMAIN own = 1 .. m /\ DOMAIN read = 1 .. n /\ DOMAIN mine.vars = 1 .. v
    BY <2>1
  <2> HIDE DEF fromMap
  <2> QED BY <2>4, <2>5, <2>6, <2>8, <2>9, <2>10 DEF IsLast, None, own, fromMap
<1> QED BY <1>1, Invariance, PTL

\* A plan and what follows it run with the same values, whatever stands in the
\* directory and however many sources there are, unless one of them changed.
THEOREM PlanIsApplied == Spec => []AppliesThePlan
<1>1. OInv => AppliesThePlan
  <2> SUFFICES ASSUME OInv, stage = "ran", ~changed,
                      mine.args[command] = mine.args["plan"]
               PROVE  outcome = planned
    BY DEF AppliesThePlan
  <2>1. \A x \in Variables : Effective(o.args, disk, x) = Unchanged(command)[x]
    BY RunsUnchanged DEF OInv, ShapeOK, DiskOK, Complete
  <2>2. outcome = Unchanged(command)
    BY <2>1 DEF OInv, RanOK, Unchanged
  <2>3. Unchanged(command) = Unchanged("plan")
    BY DEF Unchanged, FullArgs, Own
  <2>4. planned = Unchanged("plan") BY DEF OInv, PlanOK
  <2> QED BY <2>2, <2>3, <2>4
<1> QED BY <1>1, Invariance, PTL

=============================================================================
