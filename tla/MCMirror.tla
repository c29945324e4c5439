------------------------------ MODULE MCMirror ------------------------------
(* Instances of Mirror: two names, and calls on both of them.                 *)
EXTENDS Mirror, TLC
CONSTANTS a, b, w1, w2

Symmetry == Permutations(Workers)

Node(kind, data) == [Blank EXCEPT !.kind = kind, !.data = data]
OneFile == {Insert(EmptyTree, a, Node("file", <<1>>))}
FileAndDir == {Insert(Insert(EmptyTree, a, Node("file", <<1, 0>>)), b, Node("dir", <<>>))}

NameCalls ==
         [op : {"mkdir", "mknod"}, path : Paths, mode : {{}}, own : {{1}}]
    \cup [op : {"create"}, path : Paths, mode : {{1}}, flags : {"none"}, own : {{1}}]
    \cup [op : {"unlink", "rmdir"}, path : Paths]
    \cup [op : {"rename"}, from : Paths, to : Paths, flags : {"none", "exchange"}]
AttrCalls ==
         [op : {"chmod"}, path : Paths, mode : {{}, {1}}]
    \cup [op : {"security"}, path : Paths, own : {{}, {1}}]
    \cup [op : {"utimens"}, path : Paths, time : {{1}}]
    \cup [op : {"setxattr"}, path : Paths, value : {<<1>>}, flags : {"none", "create"}]
    \cup [op : {"removexattr"}, path : Paths]
DataCalls ==
         [op : {"write"}, path : Paths, off : {0, 1}, buf : {<<1>>, <<0>>}]
    \cup [op : {"truncate"}, path : Paths, size : {0, 2}]
    \cup [op : {"fallocate"}, path : Paths, alloc : {"extend", "punch"}, off : {0}, size : {2}]
    \cup [op : {"fsync"}, path : Paths]
\* The same set; TLC then enumerates it once.
Enumerated(S) == {x : x \in S}

AllCalls == Enumerated(NameCalls \cup AttrCalls \cup DataCalls)
NamesAndModes == Enumerated(NameCalls \cup {c \in AllCalls : c.op = "chmod"})
DataAndRename == Enumerated(DataCalls \cup {c \in AllCalls : c.op = "rename"})

Workloads ==
    [all |-> [calls |-> AllCalls, trees |-> OneFile],
     dir |-> [calls |-> AllCalls, trees |-> FileAndDir],
     names |-> [calls |-> NamesAndModes, trees |-> OneFile],
     data |-> [calls |-> DataAndRename, trees |-> OneFile]]

Conf(name, mode, threads, timeouts) ==
    [name |-> name, mode |-> mode, pool |-> threads, timeouts |-> timeouts,
     diff_writes |-> FALSE, srv_room |-> TRUE, rep_room |-> TRUE]
Roomy(mode, threads, srv_room, rep_room) ==
    [Conf("data", mode, threads, FALSE) EXCEPT !.srv_room = srv_room, !.rep_room = rep_room]

\* A replica that works on what it reads, one that answers first, and one with
\* dispatch threads, which relies on the answers: without timeouts. Then both
\* sides, neither, the server, or the replica have no room for a file to grow.
Replicas == {Conf("all", "flushsync", FALSE, TRUE), Conf("names", "semisync", FALSE, TRUE),
             Conf("dir", "sync", TRUE, FALSE),
             Roomy("async", FALSE, FALSE, FALSE), Roomy("flushsync", TRUE, TRUE, TRUE),
             Roomy("sync", TRUE, FALSE, FALSE),
             Roomy("sync", FALSE, FALSE, TRUE), Roomy("sync", TRUE, TRUE, FALSE)}
=============================================================================
