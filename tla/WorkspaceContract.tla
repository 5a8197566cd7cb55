------------------------- MODULE WorkspaceContract -------------------------
(***************************************************************************)
(* What the provider promises about a Workspace, whatever it does to keep  *)
(* the promise: what its state holds exists only under a finalizer, is     *)
(* made only from what the object asks for or asked for earlier, and       *)
(* nothing the object asks for is taken away; a deleted object stays until *)
(* it is gone, and Ready is said only of an object that has what it asks   *)
(* for.  Nothing is promised of an object of whose directory a part was    *)
(* lost (torn).  Workspace.tla implements it.                              *)
(***************************************************************************)
CONSTANTS
    Objects,
    Modules,
    NoModule,
    Resources,
    ResourcesOf

VARIABLES
    life,    \* "absent", "live" or "deleting"
    want,    \* the module the object asks for
    plan,    \* the module the provider works for, as it last read the object
    desired, \* what its files declare: the plan, and leftovers of earlier ones
    held,    \* is the object kept by a finalizer
    infra,   \* the resources in the object's state
    ready,   \* is the object said to be Ready
    torn     \* objects that have lost a part of their files

cvars == <<life, want, plan, desired, held, infra, ready, torn>>

Init ==
    /\ life = [o \in Objects |-> "absent"]
    /\ want = [o \in Objects |-> NoModule]
    /\ plan = [o \in Objects |-> NoModule]
    /\ desired = [o \in Objects |-> {}]
    /\ held = [o \in Objects |-> FALSE]
    /\ infra = [o \in Objects |-> {}]
    /\ ready = [o \in Objects |-> FALSE]
    /\ torn = {}

\* A new object starts with nothing of an earlier one of its name.
Create(o) ==
    /\ life[o] = "absent"
    /\ plan[o] = NoModule
    /\ ~held[o] /\ ~ready[o]
    /\ o \notin torn => infra[o] = {}
    /\ life' = [life EXCEPT ![o] = "live"]
    /\ \E m \in Modules : want' = [want EXCEPT ![o] = m]
    /\ desired' = [desired EXCEPT ![o] = {}]
    /\ UNCHANGED <<plan, held, infra, ready, torn>>

Edit(o) ==
    /\ life[o] # "absent"
    /\ \E m \in Modules : want' = [want EXCEPT ![o] = m]
    /\ UNCHANGED <<life, plan, desired, held, infra, ready, torn>>

\* The provider reads the object, and works for what it found ...
Read(o) ==
    /\ life[o] # "absent"
    /\ plan' = [plan EXCEPT ![o] = want[o]]
    /\ UNCHANGED <<life, want, desired, held, infra, ready, torn>>

\* ... until it is done with some objects, or has to start again.
Forget(os) == plan' = [o \in Objects |-> IF o \in os THEN NoModule ELSE plan[o]]

\* It writes the plan down, and may overwrite what earlier plans have left ...
Prepare(o) ==
    /\ plan[o] \in Modules
    /\ \E d \in SUBSET (desired[o] \cup ResourcesOf[plan[o]]) :
          /\ desired' = [desired EXCEPT ![o] = d]
          /\ \/ ResourcesOf[plan[o]] \subseteq d /\ UNCHANGED plan
             \/ Forget({o})
    /\ UNCHANGED <<life, want, held, infra, ready, torn>>

\* ... and loses what was written, whole or in part.
Lose(o) ==
    /\ \E d \in SUBSET desired[o] : desired' = [desired EXCEPT ![o] = d]
    /\ torn' \in {torn, torn \cup {o}}
    /\ UNCHANGED <<life, want, plan, held, infra, ready>>

Stop(os) ==
    /\ Forget(os)
    /\ desired' \in {desired, [o \in Objects |-> {}]}
    /\ UNCHANGED <<life, want, held, infra, ready, torn>>

Hold(o) ==
    /\ life[o] = "live"
    /\ held' = [held EXCEPT ![o] = TRUE]
    /\ UNCHANGED <<life, want, plan, desired, infra, ready, torn>>

\* The infrastructure changes, one resource at a time: what is written down is
\* made, what is not is removed, and of a deleted object everything; nothing of
\* the plan is removed before that.
Change(o) ==
    /\ held[o]
    /\ plan[o] \in Modules
    /\ o \notin torn
    /\ \/ \E r \in desired[o] : infra' = [infra EXCEPT ![o] = @ \cup {r}]
       \/ \E r \in Resources :
             /\ r \in desired[o] \cup ResourcesOf[plan[o]] => life[o] = "deleting"
             /\ infra' = [infra EXCEPT ![o] = @ \ {r}]
    /\ UNCHANGED <<life, want, plan, desired, held, ready, torn>>

\* Ready is said at the end of work for what the object still asks for.
Announce(o) ==
    /\ life[o] = "live"
    /\ plan[o] = want[o]
    /\ o \notin torn => ResourcesOf[want[o]] \subseteq infra[o]
    /\ ready' = [ready EXCEPT ![o] = TRUE]
    /\ Forget({o})
    /\ UNCHANGED <<life, want, desired, held, infra, torn>>

Doubt(o) ==
    /\ ready' = [ready EXCEPT ![o] = FALSE]
    /\ Forget({o})
    /\ UNCHANGED <<life, want, desired, held, infra, torn>>

Vanish(o) ==
    /\ o \notin torn => infra[o] = {}
    /\ life' = [life EXCEPT ![o] = "absent"]
    /\ want' = [want EXCEPT ![o] = NoModule]
    /\ held' = [held EXCEPT ![o] = FALSE]
    /\ ready' = [ready EXCEPT ![o] = FALSE]
    /\ UNCHANGED <<desired, infra, torn>>

Delete(o) ==
    /\ life[o] = "live"
    /\ \/ /\ held[o]
          /\ life' = [life EXCEPT ![o] = "deleting"]
          /\ UNCHANGED <<want, desired, held, infra, ready, torn>>
       \/ ~held[o] /\ Vanish(o)
    /\ UNCHANGED plan

Release(o) == life[o] = "deleting" /\ Vanish(o) /\ Forget({o})

\* An object whose files were lost in part: its infrastructure may do anything.
Damage(o) ==
    /\ o \in torn
    /\ \E i \in SUBSET Resources : infra' = [infra EXCEPT ![o] = i]
    /\ UNCHANGED <<life, want, plan, desired, held, ready, torn>>

Next ==
    \/ \E o \in Objects :
          \/ Create(o) \/ Edit(o) \/ Read(o) \/ Prepare(o) \/ Lose(o) \/ Hold(o)
          \/ Change(o) \/ Announce(o) \/ Doubt(o) \/ Delete(o) \/ Release(o) \/ Damage(o)
    \/ \E os \in SUBSET Objects : Stop(os)

Spec == Init /\ [][Next]_cvars

=============================================================================
