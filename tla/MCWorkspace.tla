---------------------------- MODULE MCWorkspace ----------------------------
(* Instances of Workspace.tla for TLC.                                     *)
EXTENDS Workspace, TLC

CONSTANTS w1, w2, n0, n1, n2, r1, r2, p1, p2

\* Each object has the Terraform workspace of its own name.
OwnNames == [w \in Workspaces |-> IF w = w1 THEN n1 ELSE n2]

\* Exchanging two objects together with their names changes nothing.
Exchange == {w1 :> w2 @@ w2 :> w1 @@ n1 :> n2 @@ n2 :> n1}

File(path, text, declares, output, needs) ==
    [path |-> path, text |-> text, declares |-> declares, output |-> output,
     needs |-> needs]

\* A fetched module, and an inline one whose ProviderConfig has a configuration.
\* After the first, the second leaves more.tf where it is; after the second, the
\* first leaves config.tf there, or clears it away, and its own main.tf declares
\* r1 too.
Fetched    == {File("main.tf", "a", {r1}, FALSE, {p1}),
               File("more.tf", "b", {r2}, FALSE, {})}
Inline     == {File("main.tf", "c", {}, TRUE, {p2}),
               File("config.tf", "d", {r1}, FALSE, {})}
TwoModules == {Fetched, Inline}
OneFetched == {Fetched}

\* One resource and an output.
OneModule == {{File("main.tf", "a", {r1}, TRUE, {p1})}}

\* The entrypoint's main.tf stays as it is, and the local module it calls, a
\* directory beside the entrypoint, comes to need another provider.
SiblingChanged == {{File("main.tf", "a", {r1}, FALSE, {p1})},
                   {File("main.tf", "a", {r1, r2}, FALSE, {p1, p2})}}

=============================================================================
