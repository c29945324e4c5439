------------------------------- MODULE FuseOps -------------------------------
(* The handlers of the FUSE front end (fuse_hl/write_unix.rs), seen from the  *)
(* tree: what each of them does to the server's backing tree after pre_op has *)
(* sent the call out, and the call that it sends.  libfuse gives a handler    *)
(* both the path and, for an open file, a descriptor of the same file.        *)
EXTENDS VFS

do_mknod(fs, c) == xmp_mknod(fs, c.path, c.mode, c.own)
do_mkdir(fs, c) == xmp_mkdir(fs, c.path, c.mode, c.own)
do_unlink(fs, c) == xmp_unlink(fs, c.path)
do_rmdir(fs, c) == xmp_rmdir(fs, c.path)
do_symlink(fs, c) == xmp_symlink(fs, c.from, c.to, c.own)
do_rename(fs, c) == xmp_rename(fs, c.from, c.to, c.flags)
do_link(fs, c) == xmp_link(fs, c.from, c.to, c.own)
do_chmod(fs, c) == xmp_chmod(fs, c.path, c.mode)
do_chown(fs, c) == xmp_chown(fs, c.path, c.own)
do_truncate(fs, c) == xmp_truncate(fs, c.path, c.size)
do_fallocate(fs, c) == xmp_fallocate(fs, c.path, c.alloc, c.off, c.size)
do_setxattr(fs, c) == xmp_setxattr(fs, c.path, c.value, c.flags)
do_removexattr(fs, c) == xmp_removexattr(fs, c.path)
do_create(fs, c) == xmp_create(fs, c.path, c.mode, c.flags, c.own)
do_utimens(fs, c) == xmp_utimens(fs, c.path, c.time)
do_fsync(fs, c) == xmp_fsync(fs)

(* do_write.  With DIFF_WRITES the caller's buffer is xored, in place, with   *)
(* what the file holds there; zeroes at both ends are cut off, but not those  *)
(* at the end of a write that extends the file.                               *)
Held(fs, c) ==
    LET data == At(fs, c.path).data
    IN SubSeq(data, c.off + 1, IF Len(data) < c.off + Len(c.buf) THEN Len(data) ELSE c.off + Len(c.buf))
XoredBuf(fs, c) ==
    LET old == Held(fs, c)
    IN [i \in 1 .. Len(c.buf) |-> IF i <= Len(old) THEN (c.buf[i] + old[i]) % 2 ELSE c.buf[i]]
Leading(buf) == Cardinality({i \in 1 .. Len(buf) : \A j \in 1 .. i : buf[j] = 0})
Trailing(buf) == Cardinality({i \in 1 .. Len(buf) : \A j \in i .. Len(buf) : buf[j] = 0})
Cut(fs, c) == IF Len(Held(fs, c)) = Len(c.buf) THEN Trailing(XoredBuf(fs, c)) ELSE 0
Differs(fs, c, diff) == diff /\ c.op = "write" /\ Held(fs, c) # <<>>
\* The slice panics when its start lies behind its end.
SliceFails(fs, c) == Leading(XoredBuf(fs, c)) > Len(c.buf) - Cut(fs, c)
diff_write(fs, c) ==
    LET buf == XoredBuf(fs, c)
    IN [op |-> "diff_write", path |-> c.path, off |-> c.off + Leading(buf),
        buf |-> SubSeq(buf, Leading(buf) + 1, Len(buf) - Cut(fs, c))]
SentCall(fs, c, diff) == IF Differs(fs, c, diff) THEN diff_write(fs, c) ELSE c
WrittenBuf(fs, c, diff) == IF Differs(fs, c, diff) THEN XoredBuf(fs, c) ELSE c.buf
do_write(fs, c, buf) == xmp_write(fs, c.path, c.off, buf)

\* The local part of the handler of a call; buf is what do_write is left with.
local(fs, c, buf) ==
    CASE c.op = "mknod" -> do_mknod(fs, c)
      [] c.op = "mkdir" -> do_mkdir(fs, c)
      [] c.op = "unlink" -> do_unlink(fs, c)
      [] c.op = "rmdir" -> do_rmdir(fs, c)
      [] c.op = "symlink" -> do_symlink(fs, c)
      [] c.op = "rename" -> do_rename(fs, c)
      [] c.op = "link" -> do_link(fs, c)
      [] c.op = "chmod" -> do_chmod(fs, c)
      [] c.op = "security" -> do_chown(fs, c)
      [] c.op = "truncate" -> do_truncate(fs, c)
      [] c.op = "write" -> do_write(fs, c, buf)
      [] c.op = "fallocate" -> do_fallocate(fs, c)
      [] c.op = "setxattr" -> do_setxattr(fs, c)
      [] c.op = "removexattr" -> do_removexattr(fs, c)
      [] c.op = "create" -> do_create(fs, c)
      [] c.op = "utimens" -> do_utimens(fs, c)
      [] c.op = "fsync" -> do_fsync(fs, c)

(* The calls the kernel makes of a mounted file system: it has looked the     *)
(* path up, so that the file is there and of the right kind, or is not there. *)
Sent(fs, c) ==
    CASE c.op \in {"mknod", "mkdir", "create"} -> ~Exists(fs, c.path)
      [] c.op = "symlink" -> ~Exists(fs, c.to)
      [] c.op = "unlink" -> Kind(fs, c.path) \notin {"none", "dir"}
      [] c.op = "rmdir" -> Kind(fs, c.path) = "dir"
      [] c.op = "rename" -> c.from # c.to /\ ~RenameFails(fs, c.from, c.to, c.flags)
      [] c.op = "link" -> Kind(fs, c.from) \notin {"none", "dir"} /\ ~Exists(fs, c.to)
      [] c.op = "chmod" -> Kind(fs, c.path) \notin {"none", "symlink"}
      [] c.op \in {"security", "utimens", "setxattr", "removexattr"} -> Exists(fs, c.path)
      [] OTHER -> Kind(fs, c.path) = "file"
=============================================================================
