----------------------------- MODULE MCConnect -----------------------------
(* Instances of Connect.tla for TLC.                                       *)
EXTENDS Connect

CONSTANTS w1, w2, m1, m2, d1, d2

SomeSpecs ==
    {[source |-> "Inline",     module |-> m1, entry |-> ".",          env |-> FALSE],
     [source |-> "InlineJSON", module |-> m2, entry |-> "entrypoint", env |-> FALSE],
     [source |-> "Remote",     module |-> m2, entry |-> "entrypoint", env |-> TRUE],
     [source |-> "Flux",       module |-> m1, entry |-> ".",          env |-> FALSE]}

SomeConfigs ==
    {[files |-> {Git, "crossplane-provider-config.tf"}, data |-> d1],
     [files |-> {"credentials"}, data |-> d2]}

SomeClashes == {{m1, m2}}

=============================================================================
