--------------------------- MODULE WorkdirProofs ---------------------------
(* What the collectors never remove, for every set of objects, of foreign   *)
(* entries, and of failures.                                                *)
EXTENDS Workdir, TLAPS

\* The controllers of one scope run, and there are no others' objects.
OneScope == \A o \in Objects, g \in Collectors : ScopeOf[o] = g.scope

\* While a pass is under way it removes only what it did not list.
PassOK ==
    \A g \in Collectors :
        /\ at[g] # "removing" => todo[g] = {}
        /\ todo[g] \cap exists[g] = {}

\* The inductive invariant.
WInv == TypeOK /\ PassOK

\* A pass lists every object of its scope.
ListOK ==
    \A g \in Collectors : at[g] # "waiting" =>
        {o \in known[g] : ScopeOf[o] = g.scope} \subseteq exists[g]

\* Whose step may remove the directory of a live object: that of a pass that
\* began before the object was created, or of one of another scope, which does
\* not know it.
OwnCollectorKeeps ==
    [][\A p \in Parents, o \in Objects :
          Removed(p, o) /\ state[o] = "live" =>
              \E g \in Collectors : /\ g.parent = p
                                    /\ at[g] = "removing"
                                    /\ o \in todo[g] \ todo'[g]
                                    /\ o \notin known[g] \/ ScopeOf[o] # g.scope]_vars

LEMMA TypeStep ==
    ASSUME WorkdirConstants, WInv, Next
    PROVE  TypeOK'
<1> USE DEF WInv, WorkdirConstants
<1>1. CASE \E o \in Objects : CreateObject(o) \/ DeleteObject(o) \/ Connect(o)
  <2>1. ASSUME NEW o \in Objects, CreateObject(o) \/ DeleteObject(o) PROVE TypeOK'
    BY <2>1 DEF CreateObject, DeleteObject, TypeOK, collector
  <2>2. ASSUME NEW o \in Objects, Connect(o) PROVE TypeOK'
    <3>1. entries' \in [Parents -> SUBSET (Objects \cup Others)]
      BY <2>2 DEF Connect, TypeOK
    <3>2. made' \subseteq Parents /\ faults' \in 0 .. MaxFaults
      BY <2>2 DEF Connect, Fault, TypeOK
    <3> QED BY <2>2, <3>1, <3>2 DEF Connect, TypeOK, collector
  <2> QED BY <1>1, <2>1, <2>2
<1>2. ASSUME NEW g \in Collectors, List(g) PROVE TypeOK'
  BY <1>2 DEF List, Fault, TypeOK, world, Live
<1>3. ASSUME NEW g \in Collectors, ReadDir(g) PROVE TypeOK'
  <2>1. Stale(g) \subseteq Objects
    BY DEF Stale, TypeOK, Collectors
  <2> QED BY <1>3, <2>1 DEF ReadDir, Fault, TypeOK, world
<1>4. ASSUME NEW g \in Collectors, Remove(g) PROVE TypeOK'
  BY <1>4 DEF Remove, Fault, TypeOK, world
<1>5. ASSUME NEW g \in Collectors, EndPass(g) PROVE TypeOK'
  BY <1>5 DEF EndPass, TypeOK, world
<1>6. CASE Restart
  BY <1>6 DEF Restart, Fault, TypeOK, world
<1> QED BY <1>1, <1>2, <1>3, <1>4, <1>5, <1>6 DEF Next, Collect

LEMMA PassStep ==
    ASSUME WInv, Next
    PROVE  PassOK'
<1> USE DEF WInv
<1>1. CASE \E o \in Objects : CreateObject(o) \/ DeleteObject(o) \/ Connect(o)
  BY <1>1 DEF CreateObject, DeleteObject, Connect, PassOK, collector
<1>2. ASSUME NEW g \in Collectors, List(g) PROVE PassOK'
  BY <1>2 DEF List, PassOK, TypeOK
<1>3. ASSUME NEW g \in Collectors, ReadDir(g) PROVE PassOK'
  BY <1>3 DEF ReadDir, Stale, PassOK, TypeOK
<1>4. ASSUME NEW g \in Collectors, Remove(g) PROVE PassOK'
  BY <1>4 DEF Remove, PassOK, TypeOK
<1>5. ASSUME NEW g \in Collectors, EndPass(g) PROVE PassOK'
  BY <1>5 DEF EndPass, PassOK, TypeOK
<1>6. CASE Restart
  BY <1>6 DEF Restart, PassOK
<1> QED BY <1>1, <1>2, <1>3, <1>4, <1>5, <1>6 DEF Next, Collect

LEMMA WorkdirInvariance == WorkdirConstants => (Spec => []WInv)
<1> SUFFICES ASSUME WorkdirConstants PROVE Spec => []WInv
  OBVIOUS
<1>1. Init => WInv
  BY DEF Init, WInv, TypeOK, PassOK, WorkdirConstants, Parents
<1>2. WInv /\ [Next]_vars => WInv'
  <2>1. CASE UNCHANGED vars
    BY <2>1 DEF vars, world, collector, WInv, TypeOK, PassOK
  <2> QED BY <2>1, TypeStep, PassStep DEF WInv
<1> QED BY <1>1, <1>2, PTL DEF Spec

\* Every variable keeps its type.
THEOREM WorkdirTypeCorrect == WorkdirConstants => (Spec => []TypeOK)
<1>1. WInv => TypeOK
  BY DEF WInv
<1> QED BY <1>1, WorkdirInvariance, PTL

\* A step that removes an entry is a Remove.
LEMMA RemovedByPass ==
    ASSUME WInv, Next, NEW p \in Parents, NEW e, Removed(p, e)
    PROVE  \E g \in Collectors : /\ g.parent = p /\ at[g] = "removing"
                                 /\ e \in todo[g] \ todo'[g]
<1> USE DEF WInv
<1>1. CASE \E o \in Objects : CreateObject(o) \/ DeleteObject(o) \/ Connect(o)
  BY <1>1 DEF CreateObject, DeleteObject, Connect, Removed, TypeOK
<1>2. ASSUME NEW g \in Collectors, List(g) \/ ReadDir(g) \/ EndPass(g) PROVE FALSE
  BY <1>2 DEF List, ReadDir, EndPass, Removed
<1>3. ASSUME NEW g \in Collectors, Remove(g)
      PROVE  g.parent = p /\ at[g] = "removing" /\ e \in todo[g] \ todo'[g]
  BY <1>3 DEF Remove, Removed, TypeOK
<1>4. CASE Restart
  BY <1>4 DEF Restart, Removed
<1> QED BY <1>1, <1>2, <1>3, <1>4 DEF Next, Collect

\* However many scopes run side by side, the collectors of an object's own
\* scope keep its directories, if the object was there when the pass began.
THEOREM OwnScopeKeeps == WorkdirConstants => (Spec => OwnCollectorKeeps)
<1> SUFFICES ASSUME WorkdirConstants PROVE Spec => OwnCollectorKeeps
  OBVIOUS
<1> DEFINE A == \A p \in Parents, o \in Objects :
                   Removed(p, o) /\ state[o] = "live" =>
                      \E g \in Collectors : /\ g.parent = p
                                            /\ at[g] = "removing"
                                            /\ o \in todo[g] \ todo'[g]
                                            /\ o \notin known[g] \/ ScopeOf[o] # g.scope
<1>1. Init => ListOK
  BY DEF Init, ListOK
<1>2. WInv /\ ListOK /\ [Next]_vars => ListOK'
  <2> SUFFICES ASSUME WInv, ListOK, [Next]_vars PROVE ListOK'
    OBVIOUS
  <2>1. CASE \/ \E o \in Objects : CreateObject(o) \/ DeleteObject(o) \/ Connect(o)
             \/ UNCHANGED vars
    BY <2>1 DEF CreateObject, DeleteObject, Connect, vars, collector, ListOK
  <2>2. ASSUME NEW g \in Collectors, List(g) PROVE ListOK'
    BY <2>2 DEF List, ListOK, WInv, TypeOK
  <2>3. ASSUME NEW g \in Collectors, ReadDir(g) \/ Remove(g) \/ EndPass(g) PROVE ListOK'
    BY <2>3 DEF ReadDir, Remove, EndPass, ListOK, WInv, TypeOK
  <2>4. CASE Restart
    BY <2>4 DEF Restart, ListOK
  <2> QED BY <2>1, <2>2, <2>3, <2>4 DEF Next, Collect
<1>3. WInv /\ ListOK /\ [Next]_vars => [A]_vars
  <2> SUFFICES ASSUME WInv, ListOK, Next PROVE A
    OBVIOUS
  <2>1. ASSUME NEW g \in Collectors, NEW o \in Objects, at[g] = "removing", o \in todo[g]
        PROVE  o \notin known[g] \/ ScopeOf[o] # g.scope
    BY <2>1 DEF ListOK, WInv, PassOK
  <2> QED BY <2>1, RemovedByPass
<1> QED BY <1>1, <1>2, <1>3, WorkdirInvariance, PTL DEF Spec, OwnCollectorKeeps

\* Where one controller runs, a Workspace that is in the API server when a
\* pass begins keeps its directories throughout.
THEOREM KnownObjectsKept == WorkdirConstants /\ OneScope => (Spec => KnownDirsKept)
<1> SUFFICES ASSUME WorkdirConstants, OneScope PROVE Spec => KnownDirsKept
  OBVIOUS
<1>1. [\A p \in Parents, o \in Objects :
          Removed(p, o) /\ state[o] = "live" =>
              \E g \in Collectors : /\ g.parent = p
                                    /\ at[g] = "removing"
                                    /\ o \in todo[g] \ todo'[g]
                                    /\ o \notin known[g] \/ ScopeOf[o] # g.scope]_vars
      => [\A p \in Parents, o \in Objects :
             Removed(p, o) /\ state[o] = "live" =>
                 \E g \in Collectors : /\ g.parent = p
                                       /\ at[g] = "removing"
                                       /\ o \notin known[g]]_vars
  BY DEF OneScope
<1> QED BY <1>1, OwnScopeKeeps, PTL DEF OwnCollectorKeeps, KnownDirsKept

=============================================================================
