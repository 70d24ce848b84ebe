-------------------------- MODULE MC_FileInotify --------------------------
(***************************************************************************)
(* A small home directory for TLC: one watched root "doc" holding names two *)
(* levels deep, and "tmp", which no one watches, to move things in and out.*)
(***************************************************************************)
EXTENDS FileInotify

CONSTANTS d0, d1, d2, d3, d4, f1

MCDirs  == {d0, d1, d2, d3, d4}
MCFiles == {f1}
MCNames == {"doc", "tmp", "a", "b"}

Deep  == {<<"doc">> \o s : s \in {<<x, y>> : x, y \in {"a", "b"}}}
MCPaths ==
    {<<>>, <<"doc">>, <<"tmp">>, <<"tmp", "a">>, <<"doc", "a">>, <<"doc", "b">>} \union Deep

MCFixed == {<<>>, <<"doc">>, <<"tmp">>}

Tree(at) == [p \in MCPaths |-> IF p \in DOMAIN at THEN at[p] ELSE NoInode]
Base == MCFixed
BaseAt(p) == CASE p = <<>> -> d0 [] p = <<"doc">> -> d1 [] p = <<"tmp">> -> d2

\* An empty root; a root with a directory that holds another one and a file.
MCTrees == {
    Tree([p \in Base |-> BaseAt(p)]),
    Tree([p \in Base \union {<<"doc", "a">>, <<"doc", "a", "a">>, <<"doc", "a", "b">>} |->
            CASE p \in Base -> BaseAt(p) [] p = <<"doc", "a">> -> d3
              [] p = <<"doc", "a", "a">> -> f1 [] p = <<"doc", "a", "b">> -> d4]) }

MCRoots == <<<<"doc">>>>
============================================================================
