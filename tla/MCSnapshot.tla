----------------------------- MODULE MCSnapshot -----------------------------
(* Instances of Snapshot: two names, journals of a few calls.                  *)
EXTENDS Snapshot
CONSTANTS fa, fb

Alphabetical == <<fa, fb>>
Node(kind, data) == [Blank EXCEPT !.kind = kind, !.data = data]
TwoFiles == {Insert(Insert(EmptyTree, fa, Node("file", <<>>)), fb, Node("file", <<>>))}

Creates == [op : {"create"}, path : Paths, mode : {{1}}, flags : {"excl"}, own : {{}}]
Unlinks == [op : {"unlink"}, path : Paths]
Writes ==
         [op : {"write"}, path : {fa}, off : {0, 1, 3}, buf : {<<1>>, <<0, 1>>, <<1, 1, 0>>}]
    \cup [op : {"write"}, path : {fb}, off : {0, 1}, buf : {<<1>>, <<1, 0>>}]
Truncates == [op : {"truncate"}, path : {fa}, size : {1, 2}]
Renames == [op : {"rename"}, from : Paths, to : Paths, flags : {"none"}]
Others ==
         [op : {"mkdir", "mknod"}, path : Paths, mode : {{}}, own : {{1}}]
    \cup [op : {"symlink"}, from : {NoPath}, to : Paths, own : {{1}}]
    \cup [op : {"rmdir", "fsync"}, path : Paths]
    \cup [op : {"chmod"}, path : Paths, mode : {{}, {1}}]
    \cup [op : {"utimens"}, path : Paths, time : {{1}}]
    \cup [op : {"fallocate"}, path : Paths, alloc : {"extend"}, off : {0, 1}, size : {2}]
    \cup [op : {"write"}, path : Paths, off : {0, 1}, buf : {<<1>>, <<0, 1>>}]
\* The same set; TLC then enumerates it once.
Enumerated(S) == {x : x \in S}

DataJournal == Enumerated(Creates \cup Unlinks \cup Writes \cup Truncates)
NewJournal == Enumerated(Creates \cup Unlinks \cup Renames \cup Others \cup Truncates)
LongWrites == [op : {"write"}, path : Paths, off : {0, 1, 3}, buf : {<<1, 0, 1>>}]
HoleJournal == Enumerated(Creates \cup Unlinks \cup LongWrites \cup [op : {"truncate"}, path : {fa}, size : {1}])
AgainJournal == Enumerated(Creates \cup Unlinks \cup [op : {"chmod"}, path : {fb}, mode : {{}}]
    \cup [op : {"write"}, path : Paths, off : {0, 1}, buf : {<<1>>}]
    \cup [op : {"truncate"}, path : {fa}, size : {1}])
OldJournal == Enumerated(Creates \cup Unlinks
    \cup [op : {"rename"}, from : Paths, to : Paths, flags : {"none", "exchange"}]
    \cup [op : {"chmod"}, path : Paths, mode : {{}}]
    \cup [op : {"truncate"}, path : Paths, size : {1, 3}]
    \cup [op : {"fallocate"}, path : {fa}, alloc : {"extend"}, off : {0}, size : {3}]
    \cup [op : {"setxattr"}, path : {fa}, value : {1}, flags : {"none"}]
    \cup [op : {"removexattr"}, path : {fa}]
    \cup [op : {"write"}, path : Paths, off : {1}, buf : {<<0, 1>>}])
OldFiles == {Insert(EmptyTree, fa, Node("file", <<1, 1>>)),
             Insert(Insert(EmptyTree, fa, Node("file", <<1, 1>>)), fb, Node("file", <<>>))}

Workloads ==
    [blocks |-> [calls |-> DataJournal, trees |-> TwoFiles],
     new |-> [calls |-> NewJournal, trees |-> {EmptyTree}],
     holes |-> [calls |-> HoleJournal, trees |-> {EmptyTree}],
     again |-> [calls |-> AgainJournal, trees |-> {EmptyTree}],
     old |-> [calls |-> OldJournal, trees |-> OldFiles]]

\* The blocks of two files, beside which the header is small; files that the
\* journal makes; holes that are compacted behind a header of its real size; a
\* second journal for the snapshot; files from before the journal.
Instance(name, header, most, runs) == [name |-> name, header |-> header, calls |-> most, merges |-> runs]
Instances ==
    {Instance("blocks", 1, 4, 1), Instance("new", 40, 5, 1), Instance("holes", 40, 6, 1),
     Instance("again", 1, 6, 2), Instance("old", 40, 4, 1)}
=============================================================================
