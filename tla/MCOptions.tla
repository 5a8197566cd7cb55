----------------------------- MODULE MCOptions -----------------------------
(* Two variables and values; specs in which several sources set one of them *)
(* and var files differ in number, order and format.                        *)
EXTENDS Options

CONSTANTS x, y, v1, v2, f1, f2

Sets2(a, b) == [z \in {x, y} |-> IF z = x THEN a ELSE b]
File(r, f)  == [ref |-> r, format |-> f]
Var(k, v)   == [key |-> k, value |-> v]

MCFiles == {Sets2(v1, Unset), Sets2(v2, v1), Sets2(Unset, Unset)}

NoArgs == [c \in Commands |-> <<>>]

MCSpecs == {
    [vars |-> <<Var(x, v1), Var(y, v2)>>, varFiles |-> <<>>, varMap |-> NoFile,
     args |-> NoArgs],
    [vars |-> <<Var(x, v1), Var(x, v2)>>, varFiles |-> <<>>,
     varMap |-> Sets2(Unset, v2), args |-> NoArgs],
    [vars |-> <<Var(x, v2)>>, varFiles |-> <<File(f1, "HCL")>>, varMap |-> NoFile,
     args |-> NoArgs],
    [vars |-> <<>>, varFiles |-> <<File(f1, "HCL"), File(f2, "HCL")>>,
     varMap |-> Sets2(v1, Unset), args |-> NoArgs],
    [vars |-> <<>>, varFiles |-> <<File(f2, "JSON"), File(f1, "JSON")>>,
     varMap |-> Sets2(Unset, v2), args |-> NoArgs],
    [vars |-> <<Var(y, v2)>>, varFiles |-> <<File(f1, "HCL"), File(f2, "JSON")>>,
     varMap |-> NoFile, args |-> [NoArgs EXCEPT !["plan"] = <<Var(x, v2)>>]],
    [vars |-> <<>>, varFiles |-> <<File(f2, "JSON")>>, varMap |-> Sets2(v1, v1),
     args |-> [c \in Commands |-> <<Var(x, v2)>>]]}

=============================================================================
