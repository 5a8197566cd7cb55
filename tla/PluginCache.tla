---------------------------- MODULE PluginCache ----------------------------
(***************************************************************************)
(* What the lock of internal/terraform is for: terraform commands use the  *)
(* plugins of the shared cache together, and init, which may replace a     *)
(* plugin, has the cache to itself.  Harness.tla implements it.            *)
(***************************************************************************)
CONSTANT Callers

VARIABLES
    using,     \* callers whose command may be running a cached plugin
    changing   \* callers whose init may be writing to the cache

pvars == <<using, changing>>

Init == using = {} /\ changing = {}

Use(c)       == changing = {} /\ using' = using \cup {c} /\ UNCHANGED changing
Leave(c)     == using' = using \ {c} /\ UNCHANGED changing
Change(c)    == using = {} /\ changing = {} /\ changing' = {c} /\ UNCHANGED using
EndChange(c) == c \in changing /\ changing' = changing \ {c} /\ UNCHANGED using

Next == \E c \in Callers : Use(c) \/ Leave(c) \/ Change(c) \/ EndChange(c)

Spec == Init /\ [][Next]_pvars

=============================================================================
