-------------------------------- MODULE Dokan --------------------------------
(***************************************************************************)
(* The Windows front end: the handlers that change the store                *)
(* (dokan/write_windows.rs, MirrorDeleteFile in read_windows.c) with the    *)
(* operations they and the replica call (common/ops_windows.rs,             *)
(* write_windows.c), and the replica's dispatch (client/dispatch_windows.rs)*)
(* fed in order by pre_op.                                                  *)
(*                                                                          *)
(* Each open file (DOKAN_FILE_INFO) is served by a thread of its own. A     *)
(* handler looks at the store, sends its call, and acts: three steps, with  *)
(* the handlers of other files in between. There is no journal on Windows,  *)
(* so pre_op never answers in the handler's place.                          *)
(***************************************************************************)
EXTENDS Naturals, Sequences, FiniteSets, TLC, SequencesExt

CONSTANTS
    Infos,         \* open files at a time
    Names,         \* names in the one directory
    Bufs,          \* what is written
    MaxLink,       \* calls on their way to the replica
    Confs          \* the settings a behaviour is run with, see conf

VARIABLES
    conf,     \* what this behaviour is run with: the six settings below
    tree,     \* the backing store
    replica,  \* the replica's directory
    link,     \* calls sent to the replica
    infos,    \* the open files and the handlers at work on them
    untold,   \* history: names whose attributes an overwriting create changed
    apart     \* history: names on which the server did what the replica could not

vars == <<conf, tree, replica, link, infos, untold, apart>>

Used == conf.names            \* the names in use
Disps == conf.disps           \* the dispositions of creates
Attrs == conf.attrs           \* the attributes a file may be given
Secs == conf.secs             \* security descriptors
DIFF_WRITES == conf.diff      \* --diff-writes
MaxSize == conf.size          \* the largest file
Sizes == 0 .. MaxSize

ASSUME DokanAssumption ==
    /\ IsFiniteSet(Infos) /\ IsFiniteSet(Names)
    /\ Bufs \subseteq Seq({0, 1}) /\ MaxLink \in Nat \ {0}
    /\ \A c \in Confs :
        /\ c.disps \subseteq {"CREATE_NEW", "CREATE_ALWAYS", "OPEN_EXISTING",
                             "OPEN_ALWAYS", "TRUNCATE_EXISTING"}
        /\ c.names \subseteq Names /\ c.diff \in BOOLEAN /\ c.size \in Nat

Absent == [kind |-> "absent"]
None == [op |-> "none"]
Closed == [st |-> "closed"]

New(kind, attrs, sec) ==
    [kind |-> kind, data |-> <<>>, attrs |-> attrs \ {"delete_on_close"},
     sec |-> sec, time |-> 0]

Init ==
    /\ conf \in Confs
    /\ tree = [p \in Names |-> Absent]
    /\ replica = tree
    /\ link = <<>>
    /\ infos = [i \in Infos |-> Closed]
    /\ untold = {} /\ apart = {}

Exists(t, p) == t[p].kind # "absent"
IsDir(t, p) == t[p].kind = "dir"
ReadOnly(t, p) == Exists(t, p) /\ "readonly" \in t[p].attrs

-----------------------------------------------------------------------------
(* The operations: the tree after a call, and whether it succeeded. *)

Done(t) == [tree |-> t, ok |-> TRUE]
Failed(t) == [tree |-> t, ok |-> FALSE]
Try(ok, t, u) == IF ok THEN Done(u) ELSE Failed(t)

\* A file cut or filled with zeros to n bytes.
Resized(d, n) == [k \in 1 .. n |-> IF k <= Len(d) THEN d[k] ELSE 0]

Written(d, offset, buf) ==
    LET n == IF offset + Len(buf) > Len(d) THEN offset + Len(buf) ELSE Len(d)
    IN  [k \in 1 .. n |->
            IF k \in offset + 1 .. offset + Len(buf) THEN buf[k - offset]
            ELSE Resized(d, n)[k]]

\* The bytes of buf that lie over old ones, combined with them (xor_buf).
Differed(d, offset, buf) ==
    [k \in 1 .. Len(buf) |-> IF offset + k <= Len(d)
                             THEN (d[offset + k] + buf[k]) % 2 ELSE buf[k]]

\* Cannot overwrite a hidden file if the flag is not set; nor a system file,
\* which "hidden" stands for too.
Hides(t, c) ==
    /\ Exists(t, c.path) /\ "hidden" \in t[c.path].attrs \ c.attrs
    /\ c.disp \in {"TRUNCATE_EXISTING", "CREATE_ALWAYS"}

\* CreateFile as Windows does it, for writing.
CreateFails(t, c) ==
    IF Exists(t, c.path)
    THEN \/ c.disp = "CREATE_NEW"
         \/ IsDir(t, c.path) /\ c.disp \in {"CREATE_ALWAYS", "TRUNCATE_EXISTING"}
         \/ ~IsDir(t, c.path) /\ ReadOnly(t, c.path)
    ELSE c.disp \in {"OPEN_EXISTING", "TRUNCATE_EXISTING"}

OpCreateFile(t, c) ==
    LET n == t[c.path]
        new == New("file", c.attrs, c.sec)
        m == IF ~Exists(t, c.path) THEN new
             ELSE IF c.disp = "CREATE_ALWAYS"
             THEN [n EXCEPT !.data = <<>>, !.attrs = new.attrs]
             ELSE IF c.disp = "TRUNCATE_EXISTING"
             THEN [n EXCEPT !.data = <<>>, !.attrs = @ \cup new.attrs]
             ELSE n
    IN  Try(~Hides(t, c) /\ ~CreateFails(t, c), t, [t EXCEPT ![c.path] = m])

OpCreateDirectory(t, c) ==
    Try(~Exists(t, c.path), t, [t EXCEPT ![c.path] = New("dir", {}, c.sec)])

OpMoveFile(t, c) ==
    Try(/\ Exists(t, c.path)
        /\ Exists(t, c.to) /\ c.to # c.path =>
               c.replace /\ ~IsDir(t, c.to) /\ ~ReadOnly(t, c.to),
        t, [[t EXCEPT ![c.path] = Absent] EXCEPT ![c.to] = t[c.path]])

OpDeleteFile(t, c) ==
    Try(Exists(t, c.path) /\ ~IsDir(t, c.path) /\ ~ReadOnly(t, c.path), t,
        [t EXCEPT ![c.path] = Absent])

OpDeleteDirectory(t, c) ==
    Try(IsDir(t, c.path) /\ ~ReadOnly(t, c.path), t, [t EXCEPT ![c.path] = Absent])

\* What an operation on an open file does to it.
Changed(n, c) ==
    CASE c.op = "write" -> [n EXCEPT !.data = Written(@, c.offset, c.buf)]
      [] c.op = "diff_write" ->
            [n EXCEPT !.data =
                Written(@, c.offset, Differed(@, c.offset, c.buf))]
      [] c.op = "truncate" -> [n EXCEPT !.data = Resized(@, c.size)]
      [] c.op = "utimens" -> [n EXCEPT !.time = c.time]
      [] c.op = "security" -> [n EXCEPT !.sec = c.sec]
      [] c.op = "chmod" -> [n EXCEPT !.attrs = c.attrs]
      [] c.op = "fsync" -> n

ByName(t, c) ==
    CASE c.op = "create" -> OpCreateFile(t, c)
      [] c.op = "mkdir" -> OpCreateDirectory(t, c)
      [] c.op = "rename" -> OpMoveFile(t, c)
      [] c.op = "unlink" -> OpDeleteFile(t, c)
      [] c.op = "rmdir" -> OpDeleteDirectory(t, c)

Naming == {"create", "mkdir", "rename", "unlink", "rmdir"}

\* On the server the file is open already.
Local(t, c) ==
    IF c.op \in Naming THEN ByName(t, c)
    ELSE Try(Exists(t, c.path), t, [t EXCEPT ![c.path] = Changed(@, c)])

\* with_file: what dispatch has to open for writing, and what of it may be a
\* directory.
Opens(t, c) ==
    /\ Exists(t, c.path)
    /\ c.op \in {"write", "diff_write", "truncate"} => ~IsDir(t, c.path)
    /\ c.op \in {"write", "diff_write", "truncate", "utimens", "security"} =>
           ~(ReadOnly(t, c.path) /\ ~IsDir(t, c.path))

\* What dispatch does to an entry the call has named, or opened.
Applied(t, c) ==
    IF c.op \in Naming THEN ByName(t, c)
    ELSE Try(Opens(t, c), t, [t EXCEPT ![c.path] = Changed(@, c)])

\* Mutant: a diff is written as it was sent.
DispatchDiffAsIs(t, c) ==
    Applied(t, IF c.op = "diff_write" THEN [c EXCEPT !.op = "write"] ELSE c).tree

\* What is created with the flag delete_on_close goes with the handle that
\* dispatch closes. An fsync is not executed.
dispatch(t, c) ==
    LET r == Applied(t, c)
    IN  IF c.op = "fsync" THEN t
        ELSE IF r.ok /\ c.op \in {"create", "mkdir"} /\ "delete_on_close" \in c.attrs
        THEN [r.tree EXCEPT ![c.path] = Absent]
        ELSE r.tree

-----------------------------------------------------------------------------
(* The handlers: first the look and the decision. *)

Open(i) == infos[i].st = "open"
Busy(i) == infos[i].st \in {"entered", "sent"}

\* The handler has the call c for the replica and the operation l of its own.
Enter(i, c, l) ==
    infos' = [infos EXCEPT ![i] = [st |-> IF c = None THEN "sent" ELSE "entered",
                                   call |-> c, run |-> l, was |-> infos[i]]]

\* The replica's call for a create that is not of a directory.
CreateCall(exists, c) ==
    IF exists /\ c.disp \in {"TRUNCATE_EXISTING", "CREATE_ALWAYS"}
    THEN [op |-> "truncate", path |-> c.path, size |-> 0]
    ELSE IF ~exists /\ c.disp \in {"CREATE_ALWAYS", "CREATE_NEW", "OPEN_ALWAYS"}
    THEN c ELSE None

\* want: FILE_DIRECTORY_FILE, which sets IsDirectory, or FILE_NON_DIRECTORY_FILE.
\* The kernel takes only some dispositions for a directory. A create that asks
\* for a file and finds a directory (STATUS_FILE_IS_A_DIRECTORY), or that would
\* delete what is read-only (STATUS_CANNOT_DELETE), returns at once.
MirrorCreateFile(i, p, want, disp, attrs, sec) ==
    LET exists == Exists(tree, p)
        mk == ~exists /\ disp \in {"CREATE_ALWAYS", "CREATE_NEW"} /\ want = "dir"
        c == [op |-> IF mk THEN "mkdir" ELSE "create", path |-> p,
              disp |-> disp, attrs |-> attrs, sec |-> sec]
        isdir == exists /\ IsDir(tree, p) /\ want = "file"
        cannot == /\ ~mk
                  /\ ReadOnly(tree, p) \/ "readonly" \in attrs
                  /\ "delete_on_close" \in attrs
        call == IF mk THEN c ELSE CreateCall(exists, c)
    IN  /\ infos[i] = Closed
        /\ want = "dir" => disp \in {"CREATE_NEW", "OPEN_EXISTING", "OPEN_ALWAYS"}
        /\ infos' = IF isdir \/ cannot THEN infos ELSE
              [infos EXCEPT ![i] =
                [st |-> IF call = None THEN "sent" ELSE "entered",
                 call |-> call, run |-> c,
                 was |-> [st |-> "closed",
                          dir |-> IsDir(tree, p) \/ want = "dir"]]]
        /\ UNCHANGED <<tree, replica, link, untold, apart>>

\* The handlers that pass a call on as it is.
Handler(i, c) ==
    /\ Open(i) /\ Enter(i, c, c)
    /\ UNCHANGED <<tree, replica, link, untold, apart>>

File(i) == Open(i) /\ ~infos[i].dir /\ Exists(tree, infos[i].path)
Size(i) == Len(tree[infos[i].path].data)
On(i, op) == [op |-> op, path |-> infos[i].path]

\* Mutant: the size is compared with the offset alone.
ClampedByOffset(offset, buf, size) == IF offset >= size THEN <<>> ELSE buf

\* What a write of the pager may write: it never extends the file.
Clamped(offset, buf, size) ==
    IF offset >= size THEN <<>>
    ELSE SubSeq(buf, 1, IF offset + Len(buf) > size THEN size - offset ELSE Len(buf))

\* readable: the handle may read what the difference is taken to.
MirrorWriteFile(i, offset, buf, paging, readable) ==
    LET d == tree[infos[i].path].data
        b == IF paging THEN Clamped(offset, buf, Len(d)) ELSE buf
        w == [op |-> "write", path |-> infos[i].path, offset |-> offset,
              buf |-> b, paging |-> paging]
    IN  /\ File(i) /\ offset + Len(buf) <= MaxSize
        /\ b # <<>>
        /\ Enter(i, IF DIFF_WRITES /\ readable
                    THEN [w EXCEPT !.op = "diff_write",
                                   !.buf = Differed(d, offset, b)]
                    ELSE w, w)
        /\ UNCHANGED <<tree, replica, link, untold, apart>>

MirrorSetFileAttributes(i, attrs) ==
    Open(i) /\ Handler(i, On(i, "chmod") @@ [attrs |-> attrs])

MirrorSetFileTime(i, time) ==
    Open(i) /\ Handler(i, On(i, "utimens") @@ [time |-> time])

MirrorMoveFile(i, to, replace) ==
    /\ Open(i)
    /\ Handler(i, On(i, "rename") @@ [to |-> to, replace |-> replace])

MirrorSetEndOfFile(i, size) ==
    File(i) /\ Handler(i, On(i, "truncate") @@ [size |-> size])

MirrorSetAllocationSize(i, size) ==
    /\ File(i) /\ size < Size(i)
    /\ Handler(i, On(i, "truncate") @@ [size |-> size])

MirrorSetFileSecurity(i, sec) ==
    Open(i) /\ Handler(i, On(i, "security") @@ [sec |-> sec])

MirrorFlushFileBuffers(i) == Open(i) /\ Handler(i, On(i, "fsync"))

\* MirrorDeleteFile, and MirrorDeleteDirectory of a directory, which is empty: the
\* open file is to go with its handle, or is to stay after all. It is not open
\* elsewhere.
MirrorDeleteFile(i, delete) ==
    /\ Open(i) /\ infos[i].del # delete
    /\ delete /\ ~infos[i].dir => ~ReadOnly(tree, infos[i].path)
    /\ \A j \in Infos \ {i} : Open(j) => infos[j].path # infos[i].path
    /\ infos' = [infos EXCEPT ![i].del = delete]
    /\ UNCHANGED <<tree, replica, link, untold, apart>>

\* The calls that dispatch has sent or will send, carried out.
Ahead == FoldLeft(dispatch, replica, link)
Differing(names, t) == {p \in names : Ahead[p] # t[p]}

\* The handle is closed, and with it goes a file that is to be deleted, or that
\* was opened with delete_on_close; then, if it still is to be deleted, the
\* name is, on the replica and here.
MirrorCleanup(i) ==
    LET p == infos[i].path
        goes == infos[i].own \/ (infos[i].del /\ ~infos[i].dir)
        c == [op |-> IF infos[i].dir THEN "rmdir" ELSE "unlink", path |-> p]
    IN  /\ Open(i)
        /\ tree' = IF goes THEN [tree EXCEPT ![p] = Absent] ELSE tree
        /\ IF infos[i].del THEN Enter(i, c, c) ELSE infos' = [infos EXCEPT ![i] = Closed]
        /\ apart' = IF infos[i].own \/ (goes /\ ReadOnly(tree, p))
                    THEN Differing(apart \cup {p}, tree') ELSE apart
        /\ UNCHANGED <<replica, link, untold>>

-----------------------------------------------------------------------------
(* Then pre_op, and the operation with post_op. *)

PreOp(i) ==
    /\ infos[i].st = "entered" /\ Len(link) < MaxLink
    /\ link' = Append(link, infos[i].call)
    /\ infos' = [infos EXCEPT ![i].st = "sent"]
    /\ UNCHANGED <<tree, replica, untold, apart>>

\* The open file after its handler: made by a create, gone after Cleanup, and
\* under its new name after a move.
After(i, ok) ==
    LET h == infos[i]
        c == h.run
    IN  CASE c.op \in {"create", "mkdir"} ->
                IF ok THEN [st |-> "open", path |-> c.path, dir |-> h.was.dir,
                            del |-> "delete_on_close" \in c.attrs,
                            own |-> "delete_on_close" \in c.attrs]
                ELSE Closed
          [] c.op \in {"unlink", "rmdir"} -> Closed
          [] c.op = "rename" /\ ok -> [h.was EXCEPT !.path = c.to]
          [] OTHER -> h.was

\* What the replica is not told, or cannot do: the attributes of an overwriting
\* create (apart, if they make the file read-only); that a create was refused
\* after its truncate was sent; that a file created with delete_on_close lives on
\* here until it is closed; what is done here through the handle of a read-only
\* file. A rename takes it along.
Overwrites(c) == c.op = "create" /\ c.disp \in {"TRUNCATE_EXISTING", "CREATE_ALWAYS"}
NewlyUntold(c, r) ==
    IF Overwrites(c) /\ Exists(tree, c.path) /\ r.ok THEN {c.path}
    ELSE IF c.op = "rename" /\ c.path \in untold THEN {c.to} ELSE {}
NewlyApart(c, r) ==
    IF \/ Overwrites(c) /\ (Hides(tree, c) \/ "readonly" \in c.attrs)
       \/ /\ c.op \in {"create", "mkdir"} /\ "delete_on_close" \in c.attrs
          /\ ~Exists(tree, c.path)
       \/ c.op \in {"write", "truncate", "utimens", "security"} /\ ReadOnly(tree, c.path)
    THEN {c.path}
    ELSE IF c.op = "rename" /\ {c.path, c.to} \cap apart # {}
    THEN {c.path, c.to} ELSE {}

Act(i) ==
    LET c == infos[i].run
        r == Local(tree, c)
    IN  /\ infos[i].st = "sent"
        /\ tree' = r.tree
        /\ infos' = [infos EXCEPT ![i] = After(i, r.ok)]
        /\ untold' = Differing(untold \cup NewlyUntold(c, r), r.tree)
        /\ apart' = Differing(apart \cup NewlyApart(c, r), r.tree)
        /\ UNCHANGED <<replica, link>>

ReplicaApplies ==
    /\ link # <<>>
    /\ replica' = dispatch(replica, Head(link))
    /\ link' = Tail(link)
    /\ UNCHANGED <<tree, infos, untold, apart>>

Handlers(i) ==
    \/ \E p \in Used, want \in {"dir", "file", "any"}, disp \in Disps,
          attrs \in Attrs, sec \in Secs :
            MirrorCreateFile(i, p, want, disp, attrs, sec)
    \/ \E offset \in Sizes, buf \in Bufs, paging \in BOOLEAN, readable \in BOOLEAN :
            MirrorWriteFile(i, offset, buf, paging, readable)
    \/ \E attrs \in Attrs : MirrorSetFileAttributes(i, attrs \ {"delete_on_close"})
    \/ \E time \in {1} : MirrorSetFileTime(i, time)
    \/ \E to \in Used, replace \in BOOLEAN : MirrorMoveFile(i, to, replace)
    \/ \E size \in Sizes :
            MirrorSetEndOfFile(i, size) \/ MirrorSetAllocationSize(i, size)
    \/ \E sec \in Secs : MirrorSetFileSecurity(i, sec)
    \/ MirrorFlushFileBuffers(i)
    \/ \E delete \in BOOLEAN : MirrorDeleteFile(i, delete)
    \/ MirrorCleanup(i)

Next ==
    /\ UNCHANGED conf
    /\ \/ \E i \in Infos : Handlers(i) \/ PreOp(i) \/ Act(i)
       \/ ReplicaApplies

Spec == Init /\ [][Next]_vars

-----------------------------------------------------------------------------

Quiet == \A i \in Infos : ~Busy(i)

(* When no handler is at work, the replica will have the server's files,      *)
(* directories, attributes, security and set times once it has dispatched     *)
(* what is on its way, through creates of every disposition, writes as        *)
(* differences, moves and deletes: but for the attributes that an overwriting *)
(* create gives (write_windows.rs:216), and for files that are hidden,        *)
(* read-only or to be deleted on close, once that has made a difference.      *)
SameTree ==
    Quiet => \A p \in Names \ apart :
        \/ Ahead[p] = tree[p]
        \/ /\ p \in untold /\ Exists(tree, p) /\ Exists(Ahead, p)
           /\ [Ahead[p] EXCEPT !.attrs = tree[p].attrs] = tree[p]

(* A write of the pager never makes a file longer, also when it reaches over  *)
(* its end.                                                                   *)
PagingKeepsSize ==
    [][\A i \in Infos :
        infos[i].st = "sent" /\ infos'[i].st # "sent" /\ infos[i].run.op = "write"
            => LET p == infos[i].run.path
               IN  infos[i].run.paging =>
                       Len(tree'[p].data) = Len(tree[p].data)]_vars
==============================================================================
