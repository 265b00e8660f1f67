----------------------------- MODULE MCFiles ------------------------------
EXTENDS FileSystem, TLC

N(k, data) == [kind |-> k, data |-> data]
MCNothing == N("none", << >>)
MCDirectory == N("dir", << >>)
s == <<"s">>
t == <<"t">>
o == <<"o">>
q == <<"q">>
x == <<"x">>
MCPaths ==
  LET source == {s, <<"s", "a">>, <<"s", "b">>, <<"s", "d">>, <<"s", "d", "a">>}
      copied == {"a", "b", "d"}
      new == {<<n>> : n \in copied} \cup {<<n, "a">> : n \in {"b", "d"}}
               \cup {<<"b", "b">>, <<"b", "d">>, <<"b", "b", "a">>}
  IN  source \cup {t, o, <<"o", "a">>, <<"o", "b">>, q, <<"q", "a">>}
        \cup {<<"o", "d">>, <<"o", "d", "a">>}
        \cup {t \o n : n \in new} \cup {<<"t", "d">> \o n : n \in new}

Source(a, b, d) ==
  (s :> MCDirectory) @@ (<<"s", "a">> :> a) @@ (<<"s", "b">> :> b)
    @@ (<<"s", "d">> :> d)
    @@ (<<"s", "d", "a">> :> IF d.kind = "dir" THEN N("file", <<"3">>) ELSE MCNothing)
Target(r, a, d) == (t :> r) @@ (<<"t", "a">> :> a) @@ (<<"t", "d">> :> d)
Elsewhere(a, b) ==
  (o :> MCDirectory) @@ (<<"o", "a">> :> a) @@ (<<"o", "b">> :> b)
    @@ (q :> MCDirectory) @@ (<<"q", "a">> :> N("file", <<"9">>))

TreesOf(as, bs, ds, xs, es) ==
  {Source(a, b, d) @@ y @@ e @@ [p \in MCPaths |-> MCNothing] :
     a \in as, b \in bs, d \in ds, y \in xs, e \in es}
Short == N("file", <<"1", "2">>)
Other == N("file", <<"4">>)
LinkToElsewhere == N("link", o)
NoTarget == Target(MCNothing, MCNothing, MCNothing)

(* Links in the source, to a directory, to a file and to nothing; files and *)
(* a link to one where the copies go.                                       *)
TreesToCopy ==
  TreesOf({Short, N("link", <<"o", "a">>)}, {MCNothing, LinkToElsewhere},
        {MCNothing, MCDirectory},
        {NoTarget, Target(MCDirectory, N("file", <<"5", "6", "7">>), MCNothing),
         Target(MCDirectory, N("link", <<"o", "a">>), MCNothing),
         Target(N("file", <<"8">>), MCNothing, MCNothing)},
        {Elsewhere(Other, MCNothing)})
  \cup TreesOf({Short}, {N("link", x)}, {MCNothing}, {NoTarget}, {Elsewhere(Other, MCNothing)})

(* A link to a directory with a link.                                       *)
TreesOfLinks ==
  TreesOf({Short}, {LinkToElsewhere}, {MCNothing}, {NoTarget}, {Elsewhere(Other, N("link", q))})

(* The new directory is a link, or its subdirectory is: to a directory, to  *)
(* one with a link, and to nothing.                                         *)
TreesToCopyThrough ==
  TreesOf({Short}, {MCNothing}, {MCDirectory},
        {Target(LinkToElsewhere, MCNothing, MCNothing),
         Target(MCDirectory, MCNothing, LinkToElsewhere)},
        {Elsewhere(Other, MCNothing), Elsewhere(N("link", <<"q", "a">>), MCNothing)})
  \cup TreesOf({Short}, {MCNothing}, {MCDirectory},
        {Target(MCDirectory, MCNothing, N("link", <<"o", "d">>))}, {Elsewhere(Other, MCNothing)})

MCTrees == TreesToCopy \cup TreesOfLinks \cup TreesToCopyThrough

C(op, path, to) == [op |-> op, path |-> path, to |-> to]
MCCalls ==
  {C("create", <<"t", "d", "a">>, << >>), C("delete", s, << >>), C("delete", <<"s", "b">>, << >>),
   C("copy", s, t), C("copy", s, <<"t", "d">>)}

(* No action depends on what the last call returned, and the property is    *)
(* evaluated for every step, also one to a state that was seen before.      *)
WithoutAnswers == <<treeVars, kind, there, content, object, method>>

Symmetry == Permutations(Objects) \cup Permutations(Files)
=============================================================================
