------------------------------ MODULE MCSearch ------------------------------
(* An instance of Search for TLC: a tree a/b/c, a/c and a config file of a   *)
(* few lines about it, with one expression that matches b and c.            *)
EXTENDS Search

A == <<"a">>
AB == <<"a", "b">>
ABC == <<"a", "b", "c">>
AC == <<"a", "c">>
AR == <<"a", "r">>
ARC == <<"a", "r", "c">>

Q == <<"q">>

MCRegexes == {"r", "q"}
MCInvalid == {"q"}
MCRegexMatches == [r \in MCRegexes |-> IF r = "r" THEN {"b", "c"} ELSE {}]
MCKeys == {RootNode, A, AB, ABC, AC, AR, ARC, Q}

(* Some keys share their bucket before the table doubles, some after it. *)
MCHashOf == [k \in MCKeys |-> IF k = RootNode THEN 0 ELSE Len(k) + IF k \in {AR, ARC} THEN 3 ELSE 0]

Line(kind, policy, path, matches, valid) ==
    [kind |-> kind, policy |-> policy, path |-> path, matches |-> matches, valid |-> valid]
Section(policy) == Line("section", policy, RootNode, {}, TRUE)
(* A path that is also an expression: it matches itself. *)
PathOf(path) == Line("path", "none", path, {path}, path # Q)

MCLines ==
    {Section(policy) : policy \in {"copy", "track", "ignore"}}
    \cup {PathOf(path) : path \in MCKeys \ {AR}}
    \cup {Line("comment", "none", RootNode, {}, TRUE),
          Line("badSection", "none", RootNode, {}, TRUE),
          Line("word", "none", RootNode, {ABC}, TRUE),
          Line("dotted", "none", RootNode, {}, TRUE)}

MCFsPaths == {A, AB, ABC, AC}
Files(a, ab, abc, ac) == (A :> a) @@ (AB :> ab) @@ (ABC :> abc) @@ (AC :> ac)

MCFileSystems ==
    {Files("directory", "directory", "file", "file"),
     Files("directory", "dangling", "none", "directory"),
     Files("directory", "none", "none", "fileLink"),
     Files("directoryLink", "directoryLink", "directory", "other")}
=============================================================================
