------------------------------ MODULE Workdir ------------------------------
(***************************************************************************)
(* internal/workdir: the collectors of the working directories, beside the *)
(* connectors that create them.  Each scope's Setup starts a collector on  *)
(* /tf and another on /tmp/tf; a collector lists the Workspaces of its own *)
(* scope, reads its parent directory, and removes the entries one by one.  *)
(*                                                                         *)
(* An object stands for its UID, which is also the name of its directories *)
(* and is never used again.                                                *)
(***************************************************************************)
EXTENDS Naturals

CONSTANTS
    Objects,     \* Workspaces, by UID
    ScopeOf,     \* the scope of each
    Scopes,      \* scopes whose controllers run
    Others,      \* entries that are no directory or have no UUID for a name
    GitCreds,    \* objects whose ProviderConfig has .git-credentials
    MaxFaults    \* bound: API and file system calls that fail

ASSUME WorkdirConstants ==
    /\ Scopes \subseteq {"namespaced", "cluster"}
    /\ ScopeOf \in [Objects -> Scopes]
    /\ Others \cap Objects = {}
    /\ GitCreds \subseteq Objects
    /\ MaxFaults \in Nat

Parents    == {"/tf", "/tmp/tf"}
Collectors == [scope : Scopes, parent : Parents]

VARIABLES
    state,     \* of the object: "new", "live" or "gone"
    made,      \* parents that exist
    entries,   \* what they contain
    at,        \* of the collector: "waiting", "listed" or "removing"
    exists,    \* the UIDs it listed
    todo,      \* the entries it has yet to look at
    known,     \* history: objects live when it listed
    faults

world     == <<state, made>>
collector == <<at, exists, todo, known>>
vars      == <<world, entries, collector, faults>>

Live == {o \in Objects : state[o] = "live"}

Fault == faults < MaxFaults /\ faults' = faults + 1

\* The image comes with /tf and a plugin cache in it.
Init ==
    /\ state = [o \in Objects |-> "new"]
    /\ made = {"/tf"}
    /\ entries = [p \in Parents |-> IF p = "/tf" THEN Others ELSE {}]
    /\ at = [g \in Collectors |-> "waiting"]
    /\ exists = [g \in Collectors |-> {}]
    /\ todo = [g \in Collectors |-> {}]
    /\ known = [g \in Collectors |-> {}]
    /\ faults = 0

-----------------------------------------------------------------------------
(* Users and connectors                                                    *)

CreateObject(o) ==
    /\ state[o] = "new"
    /\ state' = [state EXCEPT ![o] = "live"]
    /\ UNCHANGED <<made, entries, collector, faults>>

\* The last reconcile of a deleted object removes its finalizer.
DeleteObject(o) ==
    /\ state[o] = "live"
    /\ state' = [state EXCEPT ![o] = "gone"]
    /\ UNCHANGED <<made, entries, collector, faults>>

\* Connect makes the directories it needs; it may fail after the first one.
Connect(o) ==
    /\ state[o] = "live"
    /\ \/ /\ made' = Parents
          /\ entries' = [p \in Parents |->
                            IF p = "/tf" \/ o \in GitCreds THEN entries[p] \cup {o}
                            ELSE entries[p]]
          /\ UNCHANGED faults
       \/ /\ Fault
          /\ made' \in {made, Parents}
          /\ entries' = [entries EXCEPT !["/tf"] = @ \cup {o}]
    /\ UNCHANGED <<state, collector>>

-----------------------------------------------------------------------------
(* The collectors                                                          *)

\* Mutant: the listed UIDs are kept from pass to pass.
ListMore(g) ==
    /\ at[g] = "waiting"
    /\ at' = [at EXCEPT ![g] = "listed"]
    /\ exists' = [exists EXCEPT ![g] = @ \cup {o \in Live : ScopeOf[o] = g.scope}]
    /\ known' = [known EXCEPT ![g] = Live]
    /\ UNCHANGED <<world, entries, todo, faults>>

\* Mutant: a failed List counts as an empty one.
ListAnyway(g) ==
    /\ at[g] = "waiting"
    /\ at' = [at EXCEPT ![g] = "listed"]
    /\ known' = [known EXCEPT ![g] = Live]
    /\ \/ /\ exists' = [exists EXCEPT ![g] = {o \in Live : ScopeOf[o] = g.scope}]
          /\ UNCHANGED faults
       \/ exists' = [exists EXCEPT ![g] = {}] /\ Fault
    /\ UNCHANGED <<world, entries, todo>>

\* The ticker fires: List the Workspaces of the scope.  A failed List ends
\* the pass.
List(g) ==
    /\ at[g] = "waiting"
    /\ \/ /\ at' = [at EXCEPT ![g] = "listed"]
          /\ exists' = [exists EXCEPT ![g] = {o \in Live : ScopeOf[o] = g.scope}]
          /\ known' = [known EXCEPT ![g] = Live]
          /\ UNCHANGED faults
       \/ Fault /\ UNCHANGED <<at, exists, known>>
    /\ UNCHANGED <<world, entries, todo>>

\* Mutant: whatever is not listed goes.
StaleByName(g) == entries[g.parent] \ exists[g]

\* The entries a pass removes: directories with a UUID nobody listed.
Stale(g) == (entries[g.parent] \ Others) \ exists[g]

\* ReadDir fails when the parent does not exist (/tmp/tf before the first
\* Connect), or by itself.
ReadDir(g) ==
    /\ at[g] = "listed"
    /\ \/ /\ g.parent \in made
          /\ at' = [at EXCEPT ![g] = "removing"]
          /\ todo' = [todo EXCEPT ![g] = Stale(g)]
          /\ UNCHANGED faults
       \/ /\ IF g.parent \in made THEN Fault ELSE UNCHANGED faults
          /\ at' = [at EXCEPT ![g] = "waiting"]
          /\ UNCHANGED todo
    /\ UNCHANGED <<world, entries, exists, known>>

\* RemoveAll; a failure is remembered for the error and the pass goes on.
Remove(g) ==
    /\ at[g] = "removing"
    /\ \E e \in todo[g] :
          /\ todo' = [todo EXCEPT ![g] = @ \ {e}]
          /\ \/ entries' = [entries EXCEPT ![g.parent] = @ \ {e}] /\ UNCHANGED faults
             \/ Fault /\ UNCHANGED entries
    /\ UNCHANGED <<world, at, exists, known>>

EndPass(g) ==
    /\ at[g] = "removing"
    /\ todo[g] = {}
    /\ at' = [at EXCEPT ![g] = "waiting"]
    /\ UNCHANGED <<world, entries, exists, todo, known, faults>>

\* The process restarts: passes are forgotten, directories stay.
Restart ==
    /\ Fault
    /\ at' = [g \in Collectors |-> "waiting"]
    /\ exists' = [g \in Collectors |-> {}]
    /\ todo' = [g \in Collectors |-> {}]
    /\ known' = [g \in Collectors |-> {}]
    /\ UNCHANGED <<world, entries>>

-----------------------------------------------------------------------------

Collect(g) == List(g) \/ ReadDir(g) \/ Remove(g) \/ EndPass(g)

Next ==
    \/ \E o \in Objects : CreateObject(o) \/ DeleteObject(o) \/ Connect(o)
    \/ \E g \in Collectors : Collect(g)
    \/ Restart

Spec == Init /\ [][Next]_vars

\* The ticker keeps firing.
FairSpec == Spec /\ \A g \in Collectors : WF_vars(Collect(g))

-----------------------------------------------------------------------------
(* Properties                                                              *)

\* Every variable has the type its declaration says.
TypeOK ==
    /\ state \in [Objects -> {"new", "live", "gone"}]
    /\ made \subseteq Parents
    /\ entries \in [Parents -> SUBSET (Objects \cup Others)]
    /\ at \in [Collectors -> {"waiting", "listed", "removing"}]
    /\ exists \in [Collectors -> SUBSET Objects]
    /\ todo \in [Collectors -> SUBSET Objects]
    /\ known \in [Collectors -> SUBSET Objects]
    /\ faults \in 0 .. MaxFaults

Removed(p, e) == e \in entries[p] /\ e \notin entries'[p]

\* The directory of a live object is removed only by a pass that began before
\* the object was created: whatever fails, and however far behind the passes
\* are, a Workspace the API server had when the pass began keeps its own.
KnownDirsKept ==
    [][\A p \in Parents, o \in Objects :
          Removed(p, o) /\ state[o] = "live" =>
              \E g \in Collectors : /\ g.parent = p
                                    /\ at[g] = "removing"
                                    /\ o \notin known[g]]_vars

\* The directories of an object that is gone are removed for good, although
\* calls fail and the process restarts.
StaleCollected ==
    \A o \in Objects :
        state[o] = "gone" ~> [](\A p \in Parents : o \notin entries[p])

=============================================================================
