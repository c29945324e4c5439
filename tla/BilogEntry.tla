------------------------------ MODULE BilogEntry ------------------------------
(* The entries of the bidirectional journal (journal/bilog.rs): try_from      *)
(* makes one from a call and the tree the call is about to change, apply turns *)
(* one into the call that takes a tree from either side of it to the other.   *)
(*                                                                            *)
(* A value is a set of bits and xor is SymDiff.  The checksum is the CRC-32 of *)
(* the hashed fields.  CRC-32 is affine: over messages of one length, the crc *)
(* of a xor of three messages is the xor of their crcs.  So a checksum is     *)
(* kept as the formal sum of the message's bits and of a constant for its     *)
(* length; two checksums are equal exactly when linearity makes them equal.   *)
EXTENDS VFS, FiniteSetsExt

Ok(v) == [err |-> "none", v |-> v]
Err(e) == [err |-> e]
Then(r, F(_)) == IF r.err = "none" THEN F(r.v) ELSE r

IntBits(n) == {i \in 0 .. 3 : (n \div 2^i) % 2 = 1}
IntOf(bits) == MapThenSumSet(LAMBDA i : 2^i, bits)
BufBits(buf) == {i \in 1 .. Len(buf) : buf[i] = 1}
\* xor_buf: old may be the shorter of the two.
xor_buf(new, old) == [i \in 1 .. Len(new) |-> IF i <= Len(old) THEN (new[i] + old[i]) % 2 ELSE new[i]]

\* The crc of a buffer of a given length (-1: no buffer) and of an integer.
hash_crc32(len, bits, int) ==
    {<<len, 0, 0>>} \cup {<<len, 1, i>> : i \in bits} \cup {<<len, 2, i>> : i \in int}

translate_and_stat(fs, p) == IF Exists(fs, p) THEN Ok(At(fs, p)) ELSE Err("NotFound")

(* bilog_chmod; bilog_chown and bilog_utimens are the same over another field. *)
AttrOld(fs, p, field) ==
    Then(translate_and_stat(fs, p),
         LAMBDA st : Ok([val |-> st[field], csum |-> hash_crc32(0, st[field], {})]))
AttrXor(t, p, n, o) ==
    [t |-> t, path |-> p, val |-> SymDiff(n, o.val),
     csum |-> SymDiff(hash_crc32(0, n, {}), o.csum)]
AttrRefused(x, o) == SymDiff(hash_crc32(0, SymDiff(x.val, o.val), {}), o.csum) # x.csum
AttrApply(x, o) == IF AttrRefused(x, o) THEN Err("checksum") ELSE Ok(SymDiff(x.val, o.val))

chmod_try(fs, c) == Then(AttrOld(fs, c.path, "mode"), LAMBDA o : Ok(AttrXor("chmod", c.path, c.mode, o)))
chmod_apply(x, fs) ==
    Then(AttrOld(fs, x.path, "mode"), LAMBDA o : Then(AttrApply(x, o),
         LAMBDA v : Ok([op |-> "chmod", path |-> x.path, mode |-> v])))
chown_try(fs, c) == Then(AttrOld(fs, c.path, "own"), LAMBDA o : Ok(AttrXor("chown", c.path, c.own, o)))
chown_apply(x, fs) ==
    Then(AttrOld(fs, x.path, "own"), LAMBDA o : Then(AttrApply(x, o),
         LAMBDA v : Ok([op |-> "security", path |-> x.path, own |-> v])))
utimens_try(fs, c) == Then(AttrOld(fs, c.path, "time"), LAMBDA o : Ok(AttrXor("utimens", c.path, c.time, o)))
utimens_apply(x, fs) ==
    Then(AttrOld(fs, x.path, "time"), LAMBDA o : Then(AttrApply(x, o),
         LAMBDA v : Ok([op |-> "utimens", path |-> x.path, time |-> v])))

(* bilog_rename: old says from_exists whatever the tree holds. *)
FromExists(fs, x) == TRUE
rename_try(c) == [t |-> "rename", from |-> c.from, to |-> c.to]
rename_apply(x, fs) ==
    IF FromExists(fs, x)
    THEN Ok([op |-> "rename", from |-> x.from, to |-> x.to, flags |-> "none"])
    ELSE Ok([op |-> "rename", from |-> x.to, to |-> x.from, flags |-> "none"])

(* The entries for what exists on one side only: if it is there apply removes *)
(* it, if not apply makes it with what the entry recorded.                    *)
dir_made(c) == [t |-> "dir", path |-> c.path, mode |-> c.mode, own |-> c.own]
dir_try(fs, c) ==
    Ok([t |-> "dir", path |-> c.path,
        mode |-> IF Exists(fs, c.path) THEN At(fs, c.path).mode ELSE {},
        own |-> IF Exists(fs, c.path) THEN At(fs, c.path).own ELSE {}])
dir_apply(x, fs) ==
    IF Exists(fs, x.path) THEN Ok([op |-> "rmdir", path |-> x.path])
    ELSE Ok([op |-> "mkdir", path |-> x.path, mode |-> x.mode, own |-> x.own])
symlink_made(c) == [t |-> "symlink", from |-> c.from, to |-> c.to, own |-> c.own]
symlink_try(fs, c) ==
    Ok([t |-> "symlink", from |-> At(fs, c.path).target, to |-> c.path, own |-> At(fs, c.path).own])
symlink_apply(x, fs) ==
    IF ~Exists(fs, x.to) THEN Ok([op |-> "symlink", from |-> x.from, to |-> x.to, own |-> x.own])
    ELSE IF Kind(fs, x.to) # "symlink" THEN Err("readlink")
    ELSE Ok([op |-> "unlink", path |-> x.to])

\* find_hardlink gives a path that starts with the backing root, which
\* translate_path later looks for below that root: no name of the tree.
find_hardlink(fs, p) == NoPath
link_made(c) == [t |-> "link", from |-> c.from, to |-> c.to, own |-> c.own]
link_try(fs, c) ==
    Ok([t |-> "link", from |-> find_hardlink(fs, c.path), to |-> c.path, own |-> At(fs, c.path).own])
link_apply(x, fs) ==
    IF Exists(fs, x.to) THEN Ok([op |-> "unlink", path |-> x.to])
    ELSE Ok([op |-> "link", from |-> x.from, to |-> x.to, own |-> x.own])
node_made(c) == [t |-> "node", path |-> c.path, mode |-> c.mode, own |-> c.own]
node_try(fs, c) ==
    Ok([t |-> "node", path |-> c.path, mode |-> At(fs, c.path).mode, own |-> At(fs, c.path).own])
node_applyRmdir(x, fs) ==
    IF Exists(fs, x.path) THEN Ok([op |-> "rmdir", path |-> x.path])
    ELSE Ok([op |-> "mknod", path |-> x.path, mode |-> x.mode, own |-> x.own])
node_apply(x, fs) ==
    IF Exists(fs, x.path) THEN Ok([op |-> "unlink", path |-> x.path])
    ELSE Ok([op |-> "mknod", path |-> x.path, mode |-> x.mode, own |-> x.own])
file_made(c) == [t |-> "file", path |-> c.path, mode |-> c.mode, own |-> c.own]
file_try(fs, c) ==
    Ok([t |-> "file", path |-> c.path, mode |-> At(fs, c.path).mode, own |-> At(fs, c.path).own])
file_apply(x, fs) ==
    IF Exists(fs, x.path) THEN Ok([op |-> "unlink", path |-> x.path])
    ELSE Ok([op |-> "create", path |-> x.path, mode |-> x.mode, flags |-> "none", own |-> x.own])

(* bilog_truncate: where the file grows, old reads what lies past its end,    *)
(* which read_exact_at refuses.                                               *)
TruncateCrc(buf, size) == hash_crc32(Len(buf), BufBits(buf), IntBits(size))
PastEnd(osize, nsize) == Err("UnexpectedEof")
TruncateOld(fs, p, nsize) ==
    Then(translate_and_stat(fs, p), LAMBDA st :
        LET osize == Len(st.data)
        IN IF osize < nsize THEN PastEnd(osize, nsize)
           ELSE Ok([size |-> osize, csum |-> TruncateCrc(<<>>, osize)]))
truncate_try(fs, c) ==
    Then(TruncateOld(fs, c.path, c.size), LAMBDA o :
         Ok([t |-> "truncate", path |-> c.path, size |-> SymDiff(IntBits(o.size), IntBits(c.size)),
             csum |-> SymDiff(TruncateCrc(<<>>, c.size), o.csum)]))
NewSize(x, osize) == IntOf(SymDiff(x.size, IntBits(osize)))
truncate_apply(x, fs) ==
    LET nsize == NewSize(x, Len(translate_and_stat(fs, x.path).v.data))
    IN Then(TruncateOld(fs, x.path, nsize), LAMBDA o :
            IF SymDiff(TruncateCrc(<<>>, nsize), o.csum) # x.csum THEN Err("checksum")
            ELSE IF nsize > o.size THEN Ok([op |-> "write", path |-> x.path, off |-> o.size, buf |-> <<>>])
            ELSE Ok([op |-> "truncate", path |-> x.path, size |-> nsize]))

(* bilog_write: the checksum of the new state is taken with length 0, the one *)
(* apply compares it with is taken with the length of the file.               *)
WriteCrc(buf, length) == hash_crc32(Len(buf), BufBits(buf), IntBits(length))
NewLength == 0
WriteOld(fs, p, off, len) ==
    LET q == Follow(fs, p)
    IN IF q = NoPath THEN Err("NotFound")
       ELSE LET data == At(fs, q).data
                buf == IF Len(data) <= off THEN <<>>
                       ELSE SubSeq(data, off + 1, IF Len(data) < off + len THEN Len(data) ELSE off + len)
            IN Ok([buf |-> buf, length |-> Len(data), csum |-> WriteCrc(buf, Len(data))])
write_try(fs, c) ==
    Then(WriteOld(fs, c.path, c.off, Len(c.buf)), LAMBDA o :
         LET nsize == Larger(c.off + Len(c.buf), o.length)
         IN Ok([t |-> "write", path |-> c.path, off |-> c.off, buf |-> xor_buf(c.buf, o.buf),
                length |-> SymDiff(IntBits(nsize), IntBits(o.length)),
                csum |-> SymDiff(WriteCrc(c.buf, NewLength), o.csum)]))
write_apply(x, fs) ==
    Then(WriteOld(fs, x.path, x.off, Len(x.buf)), LAMBDA o :
         LET buf == xor_buf(x.buf, o.buf)
             length == IntOf(SymDiff(x.length, IntBits(o.length)))
         IN IF SymDiff(WriteCrc(buf, length), o.csum) # x.csum THEN Err("checksum")
            ELSE IF length >= o.length THEN Ok([op |-> "write", path |-> x.path, off |-> x.off, buf |-> buf])
            ELSE Ok([op |-> "truncating_write", path |-> x.path, off |-> x.off, buf |-> buf, size |-> length]))

(* bilog_xattr: a value that only one side has is kept as it is; two values   *)
(* are xored over the longer one, and apply indexes the present value by that *)
(* length.                                                                    *)
XattrCrc(opt) == IF opt = <<>> THEN hash_crc32(-1, {}, {}) ELSE hash_crc32(Len(opt[1]), BufBits(opt[1]), {})
XattrOld(fs, p) == Then(translate_and_stat(fs, p), LAMBDA st : Ok([value |-> st.xattr, csum |-> XattrCrc(st.xattr)]))
XattrXor(o, n) ==
    IF n = <<>> THEN o[1] ELSE IF o = <<>> THEN n[1]
    ELSE IF Len(o[1]) > Len(n[1]) THEN xor_buf(o[1], n[1]) ELSE xor_buf(n[1], o[1])
xattr_try(fs, c) ==
    LET n == IF c.op = "setxattr" THEN <<c.value>> ELSE <<>>
    IN Then(XattrOld(fs, c.path), LAMBDA o :
            IF n = <<>> /\ o.value = <<>> THEN Err("panic")
            ELSE Ok([t |-> "xattr", path |-> c.path, value |-> XattrXor(o.value, n),
                     remove |-> n = <<>> \/ o.value = <<>>, csum |-> SymDiff(XattrCrc(n), o.csum)]))
Xattr(x, value) == Ok([op |-> "setxattr", path |-> x.path, value |-> value, flags |-> "none"])
xattr_apply(x, fs) ==
    Then(XattrOld(fs, x.path), LAMBDA o :
         IF o.value = <<>> THEN Xattr(x, x.value)
         ELSE IF x.remove THEN Ok([op |-> "removexattr", path |-> x.path])
         ELSE IF Len(x.value) > Len(o.value[1]) THEN Err("panic")
         ELSE LET value == xor_buf(x.value, o.value[1])
              IN IF SymDiff(XattrCrc(<<value>>), o.csum) # x.csum THEN Err("checksum")
                 ELSE Xattr(x, value))

(* The file itself would go to the file store; the token is never filled in.  *)
filestore_made(c) == [t |-> "filestore", path |-> c.path]
filestore_apply(x, fs) ==
    IF Exists(fs, x.path) THEN Ok([op |-> "unlink", path |-> x.path]) ELSE Err("recover")

unlink_try(fs, c) ==
    Then(translate_and_stat(fs, c.path), LAMBDA st :
         CASE st.kind = "symlink" -> symlink_try(fs, c)
           [] st.kind = "file" /\ Cardinality(Links(fs, fs.name[c.path])) > 1 -> link_try(fs, c)
           [] st.kind = "file" /\ Cardinality(Links(fs, fs.name[c.path])) = 1 ->
                 IF st.data = <<>> THEN file_try(fs, c) ELSE Ok(filestore_made(c))
           [] st.kind = "node" -> node_try(fs, c)
           [] OTHER -> Err("panic"))
try_from(fs, c) ==
    CASE c.op = "mknod" -> Ok(node_made(c))
      [] c.op = "mkdir" -> Ok(dir_made(c))
      [] c.op = "rmdir" -> dir_try(fs, c)
      [] c.op = "unlink" -> unlink_try(fs, c)
      [] c.op = "symlink" -> Ok(symlink_made(c))
      [] c.op = "rename" -> Ok(rename_try(c))
      [] c.op = "link" -> Ok(link_made(c))
      [] c.op = "chmod" -> chmod_try(fs, c)
      [] c.op = "security" -> chown_try(fs, c)
      [] c.op = "truncate" -> truncate_try(fs, c)
      [] c.op = "write" -> write_try(fs, c)
      [] c.op \in {"setxattr", "removexattr"} -> xattr_try(fs, c)
      [] c.op = "create" -> Ok(file_made(c))
      [] c.op = "utimens" -> utimens_try(fs, c)
      [] OTHER -> Err("panic")
apply(x, fs) ==
    CASE x.t = "chmod" -> chmod_apply(x, fs)
      [] x.t = "chown" -> chown_apply(x, fs)
      [] x.t = "utimens" -> utimens_apply(x, fs)
      [] x.t = "rename" -> rename_apply(x, fs)
      [] x.t = "dir" -> dir_apply(x, fs)
      [] x.t = "symlink" -> symlink_apply(x, fs)
      [] x.t = "link" -> link_apply(x, fs)
      [] x.t = "node" -> node_apply(x, fs)
      [] x.t = "file" -> file_apply(x, fs)
      [] x.t = "truncate" -> truncate_apply(x, fs)
      [] x.t = "write" -> write_apply(x, fs)
      [] x.t = "xattr" -> xattr_apply(x, fs)
      [] x.t = "filestore" -> filestore_apply(x, fs)
affected_paths(x) == IF x.t = "rename" THEN {x.from, x.to}
                     ELSE IF x.t \in {"symlink", "link"} THEN {x.to} ELSE {x.path}
=============================================================================
