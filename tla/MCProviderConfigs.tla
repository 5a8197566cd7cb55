------------------------- MODULE MCProviderConfigs -------------------------
(* Instances of ProviderConfigs.tla for TLC.                               *)
EXTENDS ProviderConfigs

CONSTANTS w1, w2, pc, cpc

\* The kinds of one scope are installed, those of the other never.
NamespacedOnly == Of("namespaced", Kinds)

=============================================================================
