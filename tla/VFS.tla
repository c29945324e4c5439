--------------------------------- MODULE VFS ---------------------------------
(* What an operation does to a backing tree: the xmp_ functions of            *)
(* common/ops_unix.rs, which the FUSE handlers call on the server's tree, and *)
(* dispatch of client/dispatch_unix.rs, which a replica and the journal       *)
(* viewer call on theirs.                                                     *)
(*                                                                            *)
(* A tree is one directory: name gives the inode of every path (0: no entry), *)
(* node what an inode holds, so that two names may share one inode, and room  *)
(* whether the file system has room for a file to grow.                       *)
(* Attribute values are sets of bits and a byte is one bit, which is what xor *)
(* needs; a time is one that utimens set, the times the kernel keeps by       *)
(* itself are left out.  A result is a tree and a return code: every negative *)
(* errno is -1, every positive one is PosErrno.                               *)
EXTENDS Integers, Sequences, FiniteSets
CONSTANT Paths    \* the names of the directory
CONSTANT NoPath   \* no name at all

Inos == 1 .. Cardinality(Paths)
Bytes == {0, 1}
Blank == [kind |-> "none", mode |-> {}, own |-> {}, time |-> {}, data |-> <<>>,
          target |-> NoPath, xattr |-> <<>>]
EmptyTree == [name |-> [p \in Paths |-> 0], node |-> [i \in Inos |-> Blank], room |-> TRUE]

Exists(fs, p) == p \in Paths /\ fs.name[p] # 0
At(fs, p) == fs.node[fs.name[p]]
Kind(fs, p) == IF Exists(fs, p) THEN At(fs, p).kind ELSE "none"
Links(fs, i) == {p \in Paths : fs.name[p] = i}

\* What a reader of a tree can tell: the file under every name, and which names
\* are links to the same file.
View(fs) == [file |-> [p \in Paths |-> IF Exists(fs, p) THEN At(fs, p) ELSE Blank],
             same |-> {pq \in Paths \X Paths : /\ Exists(fs, pq[1])
                                               /\ fs.name[pq[1]] = fs.name[pq[2]]}]

Failed(fs, e) == [fs |-> fs, ret |-> e]
Done(fs) == [fs |-> fs, ret |-> 0]
Panic == -99
PosErrno == 2

(* The system calls, as the xmp_ functions use them. *)
Insert(fs, p, nd) ==
    LET i == CHOOSE j \in Inos : Links(fs, j) = {} /\ \A k \in 1 .. j - 1 : Links(fs, k) # {}
    IN [fs EXCEPT !.name[p] = i, !.node[i] = nd]
Remove(fs, p) ==
    LET i == fs.name[p]
    IN [fs EXCEPT !.name[p] = 0, !.node[i] = IF Links(fs, i) = {p} THEN Blank ELSE @]
Change(fs, p, nd) == [fs EXCEPT !.node[fs.name[p]] = nd]

\* The path a symbolic link leads to, NoPath for a loop or a dangling link.
Follow(fs, p) ==
    LET hop[n \in 0 .. Cardinality(Paths)] ==
            IF n = 0 THEN p
            ELSE IF Kind(fs, hop[n - 1]) = "symlink" THEN At(fs, hop[n - 1]).target
                 ELSE hop[n - 1]
        q == hop[Cardinality(Paths)]
    IN IF Kind(fs, q) \in {"none", "symlink"} THEN NoPath ELSE q

Resized(data, n) == [i \in 1 .. n |-> IF i <= Len(data) THEN data[i] ELSE 0]
Larger(a, b) == IF a > b THEN a ELSE b
Overwrite(data, off, buf) ==
    [i \in 1 .. (IF buf = <<>> THEN Len(data) ELSE Larger(Len(data), off + Len(buf))) |->
        IF i > off /\ i <= off + Len(buf) THEN buf[i - off]
        ELSE IF i <= Len(data) THEN data[i] ELSE 0]

(* common/ops_unix.rs.  xmp_mkdir, xmp_mknod, xmp_link and xmp_create set the *)
(* owner in a second step that follows symbolic links.                        *)
xmp_chown(fs, p, own) ==
    LET q == Follow(fs, p)
    IN IF q = NoPath THEN Failed(fs, -1) ELSE Done(Change(fs, q, [At(fs, q) EXCEPT !.own = own]))
xmp_mknod(fs, p, mode, own) ==
    IF Exists(fs, p) THEN Failed(fs, -1)
    ELSE xmp_chown(Insert(fs, p, [Blank EXCEPT !.kind = "node", !.mode = mode]), p, own)
xmp_mkdir(fs, p, mode, own) ==
    IF Exists(fs, p) THEN Failed(fs, -1)
    ELSE xmp_chown(Insert(fs, p, [Blank EXCEPT !.kind = "dir", !.mode = mode]), p, own)
xmp_unlink(fs, p) ==
    IF Kind(fs, p) \in {"none", "dir"} THEN Failed(fs, -1) ELSE Done(Remove(fs, p))
xmp_rmdir(fs, p) ==
    IF Kind(fs, p) # "dir" THEN Failed(fs, -1) ELSE Done(Remove(fs, p))
xmp_symlink(fs, from, to, own) ==
    IF Exists(fs, to) THEN Failed(fs, -1)
    ELSE Done(Insert(fs, to, [Blank EXCEPT !.kind = "symlink", !.target = from, !.own = own]))

\* renameat2: the result of the system call is negated, so that a failure is +1.
RenameFails(fs, from, to, flags) ==
    \/ ~Exists(fs, from)
    \/ flags = "noreplace" /\ Exists(fs, to)
    \/ flags = "exchange" /\ ~Exists(fs, to)
    \/ /\ flags = "none" /\ Exists(fs, to)
       /\ (Kind(fs, from) = "dir") # (Kind(fs, to) = "dir")
Moved(fs, from, to, flags) ==
    IF flags = "exchange"
    THEN [fs EXCEPT !.name[from] = fs.name[to], !.name[to] = fs.name[from]]
    ELSE IF fs.name[from] = fs.name[to] THEN fs
    ELSE LET cleared == IF Exists(fs, to) THEN Remove(fs, to) ELSE fs
         IN [cleared EXCEPT !.name[to] = fs.name[from], !.name[from] = 0]
xmp_rename(fs, from, to, flags) ==
    IF RenameFails(fs, from, to, flags) THEN Failed(fs, 1) ELSE Done(Moved(fs, from, to, flags))

xmp_link(fs, from, to, own) ==
    IF Kind(fs, from) \in {"none", "dir"} \/ Exists(fs, to) THEN Failed(fs, -1)
    ELSE xmp_chown([fs EXCEPT !.name[to] = fs.name[from]], to, own)
xmp_chmod(fs, p, mode) ==
    LET q == Follow(fs, p)
    IN IF q = NoPath THEN Failed(fs, -1) ELSE Done(Change(fs, q, [At(fs, q) EXCEPT !.mode = mode]))
xmp_truncate(fs, p, size) ==
    LET q == Follow(fs, p)
    IN IF q = NoPath \/ Kind(fs, q) # "file" THEN Failed(fs, -1)
       ELSE Done(Change(fs, q, [At(fs, q) EXCEPT !.data = Resized(@, size)]))
\* Without room pwrite takes the bytes that lie within the file, or none.
Taken(fs, p, off, buf) ==
    IF fs.room \/ off + Len(buf) <= Len(At(fs, p).data) THEN buf
    ELSE SubSeq(buf, 1, Len(At(fs, p).data) - off)
xmp_write(fs, p, off, buf) ==
    LET taken == Taken(fs, p, off, buf)
    IN IF Len(taken) < Len(buf) /\ taken = <<>> THEN Failed(fs, -1)
       ELSE [fs |-> Change(fs, p, [At(fs, p) EXCEPT !.data = Overwrite(@, off, taken)]),
             ret |-> Len(taken)]
xmp_fallocate(fs, p, mode, off, len) ==
    IF ~fs.room /\ mode # "punch" /\ off + len > Len(At(fs, p).data) THEN Failed(fs, -1)
    ELSE Done(Change(fs, p, [At(fs, p) EXCEPT !.data =
        CASE mode = "extend" -> Resized(@, Larger(Len(@), off + len))
          [] mode = "keep" -> @
          [] mode = "punch" -> [i \in 1 .. Len(@) |-> IF i > off /\ i <= off + len THEN 0 ELSE @[i]]]))
xmp_setxattr(fs, p, value, flags) ==
    IF ~Exists(fs, p) \/ (flags = "create" /\ At(fs, p).xattr # <<>>)
                      \/ (flags = "replace" /\ At(fs, p).xattr = <<>>)
    THEN Failed(fs, -1)
    ELSE Done(Change(fs, p, [At(fs, p) EXCEPT !.xattr = <<value>>]))
xmp_removexattr(fs, p) ==
    IF ~Exists(fs, p) \/ At(fs, p).xattr = <<>> THEN Failed(fs, -1)
    ELSE Done(Change(fs, p, [At(fs, p) EXCEPT !.xattr = <<>>]))
xmp_create(fs, p, mode, flags, own) ==
    IF ~Exists(fs, p)
    THEN xmp_chown(Insert(fs, p, [Blank EXCEPT !.kind = "file", !.mode = mode]), p, own)
    ELSE IF flags = "excl" \/ Follow(fs, p) = NoPath \/ Kind(fs, Follow(fs, p)) = "dir"
    THEN Failed(fs, -1)       \* creating what a dangling link names is left out
    ELSE xmp_chown(fs, p, own)
xmp_utimens(fs, p, time) ==
    IF ~Exists(fs, p) THEN Failed(fs, -1)
    ELSE Done(Change(fs, p, [At(fs, p) EXCEPT !.time = time]))
xmp_fsync(fs) == Done(fs)

(* client/dispatch_unix.rs.  with_file opens the path for writing; an error   *)
(* of open comes back as a positive errno, which no caller takes for one.     *)
WithFile(fs, fd, result) ==
    IF fd = NoPath \/ Kind(fs, fd) = "dir" THEN Failed(fs, PosErrno) ELSE result
TruncatingWrite(fs, fd, c) ==
    LET r == xmp_write(fs, fd, c.off, c.buf)
        t == xmp_truncate(r.fs, fd, c.size)
    IN IF r.ret < 0 THEN r ELSE IF t.ret < 0 THEN t ELSE [t EXCEPT !.ret = r.ret]
dispatch(fs, c) ==
    LET fd == Follow(fs, c.path) IN
    CASE c.op = "mknod" -> xmp_mknod(fs, c.path, c.mode, c.own)
      [] c.op = "mkdir" -> xmp_mkdir(fs, c.path, c.mode, c.own)
      [] c.op = "unlink" -> xmp_unlink(fs, c.path)
      [] c.op = "rmdir" -> xmp_rmdir(fs, c.path)
      [] c.op = "symlink" -> xmp_symlink(fs, c.from, c.to, c.own)
      [] c.op = "rename" -> xmp_rename(fs, c.from, c.to, c.flags)
      [] c.op = "link" -> xmp_link(fs, c.from, c.to, c.own)
      [] c.op = "chmod" -> xmp_chmod(fs, c.path, c.mode)
      [] c.op = "security" -> xmp_chown(fs, c.path, c.own)
      [] c.op = "truncate" -> xmp_truncate(fs, c.path, c.size)
      [] c.op = "write" -> WithFile(fs, fd, xmp_write(fs, fd, c.off, c.buf))
      [] c.op = "truncating_write" -> WithFile(fs, fd, TruncatingWrite(fs, fd, c))
      [] c.op = "fallocate" -> WithFile(fs, fd, xmp_fallocate(fs, fd, c.alloc, c.off, c.size))
      [] c.op = "setxattr" -> xmp_setxattr(fs, c.path, c.value, c.flags)
      [] c.op = "removexattr" -> xmp_removexattr(fs, c.path)
      [] c.op = "create" -> xmp_create(fs, c.path, c.mode, c.flags, c.own)
      [] c.op = "utimens" -> xmp_utimens(fs, c.path, c.time)
      [] c.op = "fsync" -> WithFile(fs, fd, xmp_fsync(fs))
      [] OTHER -> Failed(fs, Panic)
=============================================================================
