------------------------------ MODULE MCFakeFS ------------------------------
(* Instances of FakeFS for TLC. *)
EXTENDS FakeFS

entry(name, n) == [name |-> name, inumber |-> n]

\* A directory of size entries, with entry e at position p.
Dir(size, p, e) == [x \in 1 .. size |-> IF x = p THEN e ELSE entry(<<"o">>, 6)]

\* The root has 2 entries or more, of file 3 and of directory 4, which has file
\* 5; or the files have the same name.
Disk(m, p, n, q, root_name, bytes) ==
  [dirs |-> ROOT :> [Dir(m, p, entry(root_name, 3)) EXCEPT
                       ![IF p = 1 THEN 2 ELSE p - 1] = entry(<<"d">>, 4)]
            @@ 4 :> Dir(n, q, entry(<<"f">>, 5)),
   files |-> 3 :> bytes @@ 5 :> bytes + 1 @@ 6 :> 1]

\* Entries in all groups of blocks, and in the last place of each.
Places ==
  {<<size, p>> \in {1, 2, 3, 5, 13, 44} \X {1, 4, 12, 13, 44} : p <= size}

Directories ==
  {Disk(root[1], root[2], d[1], d[2], r, 17) :
     root \in {x \in Places : x[1] \in {2, 3, 13}}, d \in Places, r \in {<<"f">>, <<"t">>}}

\* Sizes at and around the end of blocks and of groups of blocks.
Sizes ==
  {Disk(2, 2, 2, 1, <<"t">>, bytes) : bytes \in
     {0, 1, 15, 16, 17, 31, 32, 33, 47, 48, 95, 96, 97, 160, 161, 335, 350, 351}}

SmallTrees == Directories \union Sizes

\* Disks with a file of the same name in both directories, which have several
\* entries each, and which lack no block.
TwoFiles == {Disk(3, p, 3, q, <<"f">>, 17) : p \in 1 .. 3, q \in 1 .. 3}
NoLosses == {{}}

\* No block, or one: of the root, of directory 4 or of file 3, in each group.
OneOrNone ==
  {{}} \union {{b} : b \in
    {<<"data", 2, 1>>, <<"data", 3, 1>>, <<"data", 4, 0>>, <<"data", 4, 6>>,
     <<"refs", 3, 10>>, <<"refs", 4, 2>>, <<"refs", 4, 6>>, <<"refs2", 3, 6>>}}

\* Files in the root and below; the last path has an empty component, and a
\* name that is nowhere.
ShortPaths ==
  {<<"/", "t">>, <<"/", "f">>, <<"/", "d", "/", "f">>,
   <<"/", "d", "/", "/", "n">>}
=============================================================================
