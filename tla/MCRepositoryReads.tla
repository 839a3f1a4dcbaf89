---------------------------- MODULE MCRepositoryReads ----------------------------
(* Instances of RepositoryReads for TLC. *)
EXTENDS RepositoryReads, TLC

CONSTANTS r1, r2, r3, r4, r5

Text(size, inner) == [kind |-> "text", size |-> size, ends |-> {0, size} \cup inner]

Other(kind, size) == [kind |-> kind, size |-> size, ends |-> {}]

\* With a limit of 3 bytes, 4 inline and 7 raw: text within the limit, text that
\* a cut would tear in its last character, text that takes a second request (its
\* first character alone exceeds the limit, or ends there), text nobody serves,
\* and binaries that come with one request, with two, and not at all.
SomeObjects ==
    {Text(3, {1, 2}), Text(4, {1}), Text(6, {4}), Text(7, {3, 5}), Text(8, {4}),
     Other("binary", 2), Other("binary", 5), Other("binary", 9),
     Other("directory", 0), Other("submodule", 0), Other("nothing", 0)}

\* The body of a 301, or of a directory asked for as raw content.
ARedirect == Text(2, {1})

\* What a call does not read is the same for all of them.
MCInit ==
    /\ Init
    /\ op # "list_repos" => installed = <<>>
    /\ op \notin {"read_file", "get_repo_tree"} => object = Other("nothing", 0)

MCSpec == MCInit /\ [][Next]_vars

ReadsSymmetry == {p @@ q : p \in Permutations({r1, r2, r3}), q \in Permutations({r4, r5})}
=============================================================================
