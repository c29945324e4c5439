------------------------------- MODULE MCBilog -------------------------------
(* Instances of Bilog: two names, trees with a file, a directory, two links.  *)
EXTENDS Bilog

CONSTANTS a, b

Node(kind, mode, data) == [Blank EXCEPT !.kind = kind, !.mode = mode, !.data = data]
Lone(nd) == Insert(EmptyTree, a, nd)
Pair(n1, n2) == Insert(Insert(EmptyTree, a, n1), b, n2)
Linked(nd) == [Insert(EmptyTree, a, nd) EXCEPT !.name[b] = 1]
Empties == {EmptyTree, Lone(Node("file", {1}, <<>>))}
FileAndDir == {Pair(Node("file", {1}, <<1>>), Node("dir", {}, <<>>))}
Pointing == {Pair(Node("file", {1}, <<>>), [Node("symlink", {}, <<>>) EXCEPT !.target = a])}
DataTrees == {Lone(Node("file", {1}, <<1, 0>>)), Linked(Node("file", {}, <<1>>))}

OnA == {[paths |-> {a}, invert |-> FALSE], [paths |-> {a}, invert |-> TRUE]}

\* Buffers and attribute values of two lengths.
Plain == [sizes |-> {0, 1, 2}, offs |-> {0, 1}, bufs |-> {<<1>>, <<0, 1>>},
          values |-> {<<1>>, <<0>>, <<1, 1>>}, rename |-> {"none"}, setxattr |-> {"none"}]
Flagged == [Plain EXCEPT !.values = {<<0>>, <<1>>}, !.setxattr = {"none", "create"},
            !.rename = {"none", "noreplace", "exchange"}]
Renaming == [Plain EXCEPT !.rename = {"none", "exchange"}]

AttrOps == {"chmod", "security", "utimens", "setxattr", "removexattr"}
MakeOps == {"mknod", "mkdir", "unlink", "rmdir", "symlink", "create", "chmod", "rename"}
DataOps == {"truncate", "write", "link", "unlink", "rename"}
AllOps == AttrOps \cup MakeOps \cup (DataOps \ {"link"}) \cup {"rename", "fallocate", "fsync"}

Bits == {{}, {1}}
\* The same set; TLC then enumerates it once.
Enumerated(S) == {x : x \in S}

AttrCalls == Enumerated(VFSCall(AttrOps, Bits, Plain))
MakeCalls == Enumerated(VFSCall(MakeOps, Bits, Renaming))
DataCalls == Enumerated(VFSCall(DataOps, {{}}, Plain))
AllCalls == Enumerated(VFSCall(AllOps, Bits, Flagged))

Workloads ==
    [attrs |-> [calls |-> AttrCalls, trees |-> FileAndDir],
     names |-> [calls |-> MakeCalls, trees |-> Empties],
     filter |-> [calls |-> MakeCalls, trees |-> Empties \cup Pointing],
     data |-> [calls |-> DataCalls, trees |-> DataTrees],
     all |-> [calls |-> AllCalls, trees |-> Empties \cup FileAndDir \cup DataTrees]]

Conf(name, journal, max, filters) ==
    [name |-> name, journal |-> journal, max |-> max, filters |-> filters]

Journals == {Conf("attrs", "Bilog", 3, OnA), Conf("names", "Bilog", 3, {}), Conf("filter", "Bilog", 2, OnA),
             Conf("data", "Bilog", 3, {}), Conf("all", "Forward", 2, {})}
=============================================================================
