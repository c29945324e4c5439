------------------------------- MODULE Snapshot -------------------------------
(* Snapshots (snapshot/forward.rs, snapshot/mod.rs).  merge_from folds the    *)
(* calls of a forward journal into one record per path and stores the bytes   *)
(* of writes in blocks of the snapshot file, which a free list hands out;     *)
(* finalize compacts the blocks and writes the table of records behind them;  *)
(* open reads it back; apply turns the records into calls again, which        *)
(* snapshot_main dispatches to a backing store.                               *)
(*                                                                            *)
(* The paths are the names of one directory, as in VFS.                       *)
EXTENDS FuseOps, FiniteSetsExt, TLC
CONSTANTS
    PathOrder,     \* the paths in the order of the BTreeMap
    UsizeMax,      \* usize::MAX
    MergeLimit,    \* MERGE_LIMIT
    Confs,         \* the instances, with the name of a workload each
    Workload       \* name -> calls of the journals, trees a journal and a store begin with

VARIABLES conf,    \* the instance
          files,   \* the records, path by path
          free,    \* free_list: location -> size
          disk,    \* the bytes of the snapshot file: location -> byte
          table,   \* what finalize wrote: the records and where they begin
          phase, merges, made,
          tree,    \* the tree the journal describes
          store,   \* the tree the snapshot is applied to
          next,    \* apply: the next path of PathOrder
          unlike,  \* history: paths whose record does not tell what the journal did
          dropped  \* history: paths whose blocks were given up, by compaction or an exchange
vars == <<conf, files, free, disk, table, phase, merges, made, tree, store, next, unlike, dropped>>
SE == INSTANCE SequencesExt

Header == conf.header        \* serialised size of the header
MaxCalls == conf.calls       \* bound: calls in all journals
MaxMerges == conf.merges     \* bound: runs of "snapshot merge"
Calls == Workload[conf.name].calls

NoFile == [ty |-> "none"]
Unset == <<>>
File(ty, from, data) ==
    [ty |-> ty, from |-> from, flags |-> "none", own |-> Unset, mode |-> Unset, time |-> Unset,
     size |-> [t |-> "unknown", n |-> 0], xattr |-> Unset, data |-> data]
Made(f) == f.ty \in {"dir", "new", "special", "symlink", "hardlink"}   \* by the journal
NoBlocks == <<>>
WithData(blocks) == <<blocks>>
Blocks(f) == IF f.ty = "none" \/ f.data = Unset THEN NoBlocks ELSE f.data[1]
get_or_open(fl, p) == IF fl[p] = NoFile THEN File("opened", NoPath, WithData(NoBlocks)) ELSE fl[p]
Without(f, S) == [x \in DOMAIN f \ S |-> f[x]]

(* The free list. *)
Fits(fr, size) == {l \in DOMAIN fr : fr[l] >= size}
allocateOverlong(fr, size, hint) ==
    LET loc == IF hint \in DOMAIN fr THEN hint ELSE Min(Fits(fr, size))
        rest == Without(fr, {loc})
    IN [loc |-> loc, free |-> IF fr[loc] > size THEN rest @@ (loc + size :> fr[loc] - size) ELSE rest]
allocate(fr, size, hint) ==
    LET loc == IF hint \in Fits(fr, size) THEN hint ELSE Min(Fits(fr, size))
        rest == Without(fr, {loc})
    IN [loc |-> loc, free |-> IF fr[loc] > size THEN rest @@ (loc + size :> fr[loc] - size) ELSE rest]
deallocate(fr, b) ==
    LET before == {l \in DOMAIN fr : l < b.loc}
        prev == Max(before)
        joins == before # {} /\ prev + fr[prev] = b.loc
        loc == IF joins THEN prev ELSE b.loc
        size == IF joins THEN b.size + fr[prev] ELSE b.size
        after == loc + size
    IN Without(fr, {loc, after}) @@
       (loc :> (IF after \in DOMAIN fr THEN size + fr[after] ELSE size) % (UsizeMax + 1))
deallocateAll(fr, bs) == SE!FoldLeft(deallocate, fr, bs)
InOrder(blocks) == SE!SetToSortSeq(DOMAIN blocks, <)
BlockSeq(blocks) == [i \in DOMAIN InOrder(blocks) |-> blocks[InOrder(blocks)[i]]]

(* The snapshot file. *)
write_all_at(d, buf, loc) ==
    [l \in DOMAIN d \cup (loc .. loc + Len(buf) - 1) |->
        IF l \in loc .. loc + Len(buf) - 1 THEN buf[l - loc + 1] ELSE d[l]]
read_at(d, loc, size) == [i \in 1 .. size |-> IF loc + i - 1 \in DOMAIN d THEN d[loc + i - 1] ELSE 0]
move_file_range(d, from, to, size) == write_all_at(d, read_at(d, from, size), to)

(* encode_write.  A state st holds files, free and disk. *)
End(x, blocks) == x + blocks[x].size
Overlaps(blocks, off, len) == {x \in DOMAIN blocks : x <= off + len /\ End(x, blocks) >= off}
Covers(blocks, x, off, len) == x <= off /\ End(x, blocks) >= off + len
SetBlocks(st, p, blocks) == [st EXCEPT !.files[p] = [get_or_open(st.files, p) EXCEPT !.data = WithData(blocks)]]

InPlace(st, p, x, off, buf) ==
    [SetBlocks(st, p, Blocks(st.files[p])) EXCEPT
        !.disk = write_all_at(@, buf, Blocks(st.files[p])[x].loc + (off - x))]

\* The block grows into the free block behind it, if there is one.
Tried(st, blocks, x, off, buf) ==
    allocate(st.free, Len(buf) - (End(x, blocks) - off), blocks[x].loc + blocks[x].size)
Grow(st, p, x, off, buf) ==
    LET blocks == Blocks(st.files[p])
        overlap == End(x, blocks) - off
        a == Tried(st, blocks, x, off, buf)
    IN [SetBlocks(st, p, [blocks EXCEPT ![x].size = @ + Len(buf) - overlap]) EXCEPT
            !.free = a.free, !.disk = write_all_at(@, buf, a.loc - overlap)]

FreshBlock(st, p, off, buf) ==
    LET a == allocate(st.free, Len(buf), 0)
    IN [SetBlocks(st, p, Blocks(get_or_open(st.files, p)) @@ (off :> [loc |-> a.loc, size |-> Len(buf)]))
        EXCEPT !.free = a.free, !.disk = write_all_at(@, buf, a.loc)]

\* The overlapping blocks are copied, with the new bytes, into one new block;
\* its place is taken before theirs are given back.
RelocateFreesFirst(fr, need, bs) == allocate(deallocateAll(fr, bs), need, 0)
Relocate(fr, need, bs) ==
    LET a == allocate(fr, need, 0) IN [loc |-> a.loc, free |-> deallocateAll(a.free, bs)]
Defragment(st, p, over, off, buf) ==
    LET blocks == Blocks(st.files[p])
        first == Min(over)
        last == Max(over)
        firstEx == IF off > first THEN off - first ELSE 0
        lastEx == IF End(last, blocks) > off + Len(buf) THEN End(last, blocks) - (off + Len(buf)) ELSE 0
        need == firstEx + Len(buf) + lastEx
        new == Relocate(st.free, need, BlockSeq([x \in over |-> blocks[x]]))
        d1 == IF firstEx # 0 THEN move_file_range(st.disk, blocks[first].loc, new.loc, firstEx) ELSE st.disk
        d2 == write_all_at(d1, buf, new.loc + firstEx)
        d3 == IF lastEx = 0 THEN d2
              ELSE move_file_range(d2, blocks[last].loc + blocks[last].size - lastEx,
                                   new.loc + firstEx + Len(buf), lastEx)
    IN [SetBlocks(st, p, Without(blocks, over) @@
                         (Min({first, off}) :> [loc |-> new.loc, size |-> need]))
        EXCEPT !.disk = d3, !.free = new.free]

\* Large blocks that only touch the write are left as they are.
Touching(blocks, over, off, len) ==
    {x \in over : /\ blocks[x].size > MergeLimit
                  /\ \/ x = Min(over) /\ End(x, blocks) = off
                     \/ x = Max(over) /\ x = off + len}
encode_write(st, p, off, buf) ==
    LET blocks == Blocks(get_or_open(st.files, p))
        over == Overlaps(blocks, off, Len(buf))
        one == Cardinality(over) = 1
        x == Min(over)
        rest == over \ Touching(blocks, over, off, Len(buf))
    IN IF one /\ Covers(blocks, x, off, Len(buf)) THEN InPlace(st, p, x, off, buf)
       ELSE IF /\ one /\ x < off
               /\ Tried(st, blocks, x, off, buf).loc = blocks[x].loc + blocks[x].size
       THEN Grow(st, p, x, off, buf)
       ELSE IF rest = {} THEN FreshBlock(st, p, off, buf)
       ELSE Defragment(st, p, rest, off, buf)

(* merge_from, call by call. *)
Dropped(st, p) == [st EXCEPT !.files[p] = NoFile, !.free = deallocateAll(@, BlockSeq(Blocks(st.files[p])))]
Put(st, p, f) == [st EXCEPT !.files[p] = f]
merge_rename(st, c) ==
    LET f == IF st.files[c.from] = NoFile THEN File("moved", c.from, WithData(NoBlocks)) ELSE st.files[c.from]
    IN Put(Dropped(Put(st, c.from, NoFile), c.to), c.to, f)
merge_mknod(st, c) ==
    Put(st, c.path, [File("special", NoPath, WithData(NoBlocks)) EXCEPT !.own = <<c.own>>, !.mode = <<c.mode>>])
merge_mkdir(st, c) ==
    Put(st, c.path, [File("dir", NoPath, Unset) EXCEPT !.own = <<c.own>>, !.mode = <<c.mode>>])
merge_symlink(st, c) == Put(st, c.to, [File("symlink", c.from, Unset) EXCEPT !.own = <<c.own>>])
merge_link(st, c) ==
    Put(st, c.to, [File("hardlink", c.from, WithData(Blocks(st.files[c.from]))) EXCEPT !.own = <<c.own>>])
merge_create(st, c) ==
    Put(st, c.path, [File("new", NoPath, WithData(NoBlocks)) EXCEPT
                        !.flags = c.flags, !.own = <<c.own>>, !.mode = <<c.mode>>])
merge_unlink(st, c) == Dropped(st, c.path)
merge_truncate(st, c) ==
    LET f == get_or_open(st.files, c.path)
        gone == {x \in DOMAIN Blocks(f) : x >= c.size}
        kept == Without(Blocks(f), gone)
        x == Max(DOMAIN kept)
        cut == IF kept # NoBlocks /\ End(x, kept) > c.size THEN End(x, kept) - c.size ELSE 0
        tail == IF cut = 0 THEN <<>> ELSE <<[loc |-> kept[x].loc + kept[x].size - cut, size |-> cut]>>
        left == IF cut = 0 THEN kept ELSE [kept EXCEPT ![x].size = @ - cut]
    IN [Put(st, c.path, [f EXCEPT !.size = [t |-> "exactly", n |-> c.size],
                                  !.data = IF @ = Unset THEN @ ELSE WithData(left)])
        EXCEPT !.free = deallocateAll(@, BlockSeq([y \in gone |-> Blocks(f)[y]]) \o tail)]
merge_fallocateFromZero(st, c) ==
    LET f == get_or_open(st.files, c.path)
    IN Put(st, c.path, [f EXCEPT !.size =
            IF @.t = "unknown" THEN [t |-> "more", n |-> c.size]
            ELSE IF @.n < c.size THEN [@ EXCEPT !.n = c.size] ELSE @])
merge_fallocate(st, c) ==
    LET f == get_or_open(st.files, c.path)
        n == c.off + c.size
    IN Put(st, c.path, [f EXCEPT !.size =
            IF @.t = "unknown" THEN [t |-> "more", n |-> n]
            ELSE IF @.n < n THEN [@ EXCEPT !.n = n] ELSE @])
merge_attr(st, c) ==
    LET f == get_or_open(st.files, c.path)
    IN Put(st, c.path, CASE c.op = "security" -> [f EXCEPT !.own = <<c.own>>]
                         [] c.op = "chmod" -> [f EXCEPT !.mode = <<c.mode>>]
                         [] c.op = "utimens" -> [f EXCEPT !.time = <<c.time>>]
                         [] c.op = "setxattr" -> [f EXCEPT !.xattr = <<<<c.value>>>>]
                         [] c.op = "removexattr" -> [f EXCEPT !.xattr = <<<<>>>>])
merge(st, c) ==
    CASE c.op = "rename" -> merge_rename(st, c)
      [] c.op = "mknod" -> merge_mknod(st, c)
      [] c.op = "mkdir" -> merge_mkdir(st, c)
      [] c.op = "symlink" -> merge_symlink(st, c)
      [] c.op = "link" -> merge_link(st, c)
      [] c.op = "create" -> merge_create(st, c)
      [] c.op \in {"unlink", "rmdir"} -> merge_unlink(st, c)
      [] c.op = "truncate" -> merge_truncate(st, c)
      [] c.op = "fallocate" -> merge_fallocate(st, c)
      [] c.op = "write" -> encode_write(st, c.path, c.off, c.buf)
      [] c.op = "fsync" -> st
      [] OTHER -> merge_attr(st, c)
\* What merge_from asserts of a call: a new name has no record yet, and only a
\* file with data gets a second link.
Accepts(st, c) ==
    /\ c.op \in {"mknod", "mkdir"} => st.files[c.path] = NoFile
    /\ c.op \in {"symlink", "link"} => st.files[c.to] = NoFile
    /\ c.op = "link" => (st.files[c.from] = NoFile \/ st.files[c.from].data # Unset)

\* Where a call makes the records tell something else than the journal: a file
\* from before the journal is removed, or replaced by one the journal made; a
\* name is used again before the record that moves its file away has its turn;
\* an opened file, or two at once, are renamed; a file grows again after a
\* truncate; an attribute has a name.
Source(f) == IF f.ty = "moved" THEN {f.from} ELSE {}
Turn(p) == CHOOSE i \in DOMAIN PathOrder : PathOrder[i] = p
GrowsAgain(f, n) == f # NoFile /\ f.size.t = "exactly" /\ n > f.size.n
RenameUntold(c) ==
    IF c.flags = "exchange" \/ files[c.from].ty = "opened" \/ c.from \in unlike THEN {c.from, c.to}
    ELSE Source(files[c.to])
         \cup {p \in {c.to} : Made(files[c.from]) /\ Exists(store, p)}
         \cup {p \in {c.from} : files[p].ty = "moved" /\ Exists(store, p)}
Untold(c) ==
    CASE c.op = "rename" -> RenameUntold(c)
      [] c.op \in {"unlink", "rmdir"} /\ ~Made(files[c.path]) -> {c.path} \cup Source(files[c.path])
      [] c.op \in {"create", "mkdir", "mknod", "symlink"} ->
            LET new == IF c.op = "symlink" THEN c.to ELSE c.path
                late == {q \in Paths : new \in Source(files[q]) /\ Turn(new) < Turn(q)}
            IN IF late = {} THEN {} ELSE late \cup {new}
      [] c.op = "write" /\ GrowsAgain(files[c.path], c.off + Len(c.buf)) -> {c.path}
      [] c.op = "truncate" /\ ~Made(files[c.path]) /\ GrowsAgain(files[c.path], c.size) -> {c.path}
      [] c.op = "fallocate" /\ ~Made(files[c.path]) /\ GrowsAgain(files[c.path], c.off + c.size) -> {c.path}
      [] c.op \in {"setxattr", "removexattr"} -> {c.path}
      [] OTHER -> {}

(* compact: blocks that lie too far back move into the holes, file by file,   *)
(* unless what is wasted is below 5%.                                         *)
end_of_data(fr) == Max(DOMAIN fr)
\* deallocate has added to usize::MAX, so that the space behind the data is gone
\* from the free list.  The model stops there.
Wrapped(fr) == fr = <<>> \/ fr[end_of_data(fr)] < UsizeMax \div 2
wasted_space(fr) == MapThenSumSet(LAMBDA l : fr[l], DOMAIN fr \ {end_of_data(fr)})
NoRun == [off |-> 0, loc |-> 0, size |-> 0]
AsBlock(run) == run.off :> [loc |-> run.loc, size |-> run.size]
\* One block of the loop; cs holds free, disk, the blocks kept so far and the run.
compact_block(cs, off, b) ==
    LET a == allocate(cs.free, b.size, cs.run.loc + cs.run.size)
        moved == [cs EXCEPT !.free = deallocate(a.free, b), !.disk = move_file_range(@, b.loc, a.loc, b.size)]
        new == [off |-> off, loc |-> a.loc, size |-> b.size]
    IN IF Wrapped(cs.free) THEN cs
       ELSE IF a.loc > b.loc THEN [cs EXCEPT !.kept = @ @@ (off :> b)]     \* would move up
       ELSE IF cs.run = NoRun THEN [moved EXCEPT !.run = new]
       ELSE IF cs.run.off + cs.run.size = off /\ cs.run.loc + cs.run.size = a.loc
       THEN [moved EXCEPT !.run.size = @ + b.size]
       ELSE [moved EXCEPT !.kept = @ @@ AsBlock(cs.run), !.run = new]
compact_file(st, p) ==
    LET blocks == Blocks(st.files[p])
        eod == end_of_data(st.free)
        wasted == wasted_space(st.free)
        step(cs, off) == IF blocks[off].loc > eod - wasted THEN compact_block(cs, off, blocks[off])
                         ELSE [cs EXCEPT !.kept = @ @@ (off :> blocks[off])]
        cs == SE!FoldLeft(step, [free |-> st.free, disk |-> st.disk, kept |-> NoBlocks, run |-> NoRun],
                          InOrder(blocks))
    IN [files |-> [st.files EXCEPT ![p].data = WithData(IF cs.run.off # 0 THEN cs.kept @@ AsBlock(cs.run)
                                                        ELSE cs.kept)],
        free |-> cs.free, disk |-> cs.disk, stop |-> Wrapped(cs.free)]
compact(st) ==
    LET step(s, p) ==
            IF s.stop \/ s.files[p] = NoFile \/ s.files[p].data = Unset THEN s
            ELSE IF wasted_space(s.free) * 20 < end_of_data(s.free) THEN [s EXCEPT !.stop = TRUE]
            ELSE compact_file(s, p)
    IN SE!FoldLeft(step, [files |-> st.files, free |-> st.free, disk |-> st.disk, stop |-> FALSE], PathOrder)

----------------------------------------------------------------------------
NoTable == [at |-> 0, files |-> [p \in Paths |-> NoFile]]
State == [files |-> files, free |-> free, disk |-> disk]
Init ==
    /\ conf \in Confs
    /\ files = NoTable.files /\ free = (Header :> UsizeMax) /\ disk = <<>> /\ table = NoTable
    /\ phase = "merge" /\ merges = 1 /\ made = 0 /\ next = 1
    /\ tree \in Workload[conf.name].trees /\ store = tree
    /\ unlike = {} /\ dropped = {}

MergeCall(c) ==
    /\ phase = "merge" /\ made < MaxCalls /\ made' = made + 1
    /\ Sent(tree, c) /\ tree' = dispatch(tree, c).fs
    /\ IF Accepts(State, c)
       THEN LET st == merge(State, c)
            IN /\ files' = st.files /\ free' = st.free /\ disk' = st.disk
               /\ phase' = IF Wrapped(st.free) THEN "wrapped" ELSE phase
       ELSE phase' = "panic" /\ UNCHANGED <<files, free, disk>>
    /\ unlike' = unlike \cup Untold(c)
    /\ dropped' = IF c.op = "rename" /\ c.flags = "exchange" THEN dropped \cup {c.from, c.to} ELSE dropped
    /\ UNCHANGED <<conf, table, merges, store, next>>

finalize ==
    /\ phase = "merge" /\ made > 0
    /\ LET st == compact(State)
           eod == end_of_data(st.free)
       IN /\ files' = st.files /\ free' = st.free
          /\ disk' = [l \in {k \in DOMAIN st.disk : k < eod} |-> st.disk[l]]
          /\ table' = [at |-> eod, files |-> st.files]
          /\ dropped' = dropped \cup {p \in Paths : 0 \in DOMAIN Blocks(files[p]) \ DOMAIN Blocks(st.files[p])}
          /\ phase' = IF Wrapped(st.free) THEN "wrapped" ELSE "closed"
    /\ UNCHANGED <<conf, merges, made, tree, store, next, unlike>>

open ==
    /\ files' = table.files /\ free' = (table.at :> UsizeMax)
OpenToMerge ==
    /\ phase = "closed" /\ merges < MaxMerges /\ merges' = merges + 1
    /\ open /\ phase' = "merge"
    /\ UNCHANGED <<conf, disk, table, made, tree, store, next, unlike, dropped>>
OpenToApply ==
    /\ phase = "closed" /\ open /\ phase' = "apply"
    /\ UNCHANGED <<conf, disk, table, merges, made, tree, store, next, unlike, dropped>>

(* SnapshotApply::next, for one record: the call of its type, which takes the *)
(* owner and the mode, then the data, then what else is known of it.  Of an   *)
(* opened file the first call is one of the others, and without one the       *)
(* iterator has moved on when it comes to the data.                           *)
IfSet(opt, c) == IF opt = Unset THEN <<>> ELSE <<c>>
TypeCall(p, f) ==
    CASE f.ty = "opened" -> <<>>
      [] f.ty = "dir" -> <<[op |-> "mkdir", path |-> p, mode |-> f.mode[1], own |-> f.own[1]]>>
      [] f.ty = "new" -> <<[op |-> "create", path |-> p, mode |-> f.mode[1], flags |-> f.flags, own |-> f.own[1]]>>
      [] f.ty = "special" -> <<[op |-> "mknod", path |-> p, mode |-> f.mode[1], own |-> f.own[1]]>>
      [] f.ty = "symlink" -> <<[op |-> "symlink", from |-> f.from, to |-> p, own |-> f.own[1]]>>
      [] f.ty = "hardlink" -> <<[op |-> "link", from |-> f.from, to |-> p, own |-> f.own[1]]>>
      [] f.ty = "moved" -> <<[op |-> "rename", from |-> f.from, to |-> p, flags |-> "none"]>>
DataCalls(p, f) ==
    [i \in DOMAIN InOrder(Blocks(f)) |->
        LET off == InOrder(Blocks(f))[i]
            b == Blocks(f)[off]
        IN [op |-> "write", path |-> p, off |-> off, buf |-> read_at(disk, b.loc, b.size)]]
AttrCalls(p, f) ==
    LET owned == Made(f)
        moded == f.ty \in {"dir", "new", "special"}
    IN (IF owned THEN <<>> ELSE IfSet(f.own, [op |-> "security", path |-> p, own |-> f.own[1]]))
       \o (IF moded THEN <<>> ELSE IfSet(f.mode, [op |-> "chmod", path |-> p, mode |-> f.mode[1]]))
       \o (CASE f.size.t = "exactly" -> <<[op |-> "truncate", path |-> p, size |-> f.size.n]>>
             [] f.size.t = "more" -> <<[op |-> "fallocate", path |-> p, alloc |-> "extend", off |-> 0, size |-> f.size.n]>>
             [] OTHER -> <<>>)
       \o IfSet(f.time, [op |-> "utimens", path |-> p, time |-> f.time[1]])
\* The names of attributes are stored without their final NUL and then taken
\* for names with one.
NamesAttribute(f) == f.xattr # Unset
Lost(f) == f.ty = "opened" /\ Blocks(f) # NoBlocks /\ AttrCalls(PathOrder[1], f) = <<>>
FileCalls(p, f) ==
    LET attrs == AttrCalls(p, f)
    IN IF f.ty = "opened" /\ attrs # <<>> THEN <<attrs[1]>> \o DataCalls(p, f) \o Tail(attrs)
       ELSE TypeCall(p, f) \o DataCalls(p, f) \o attrs

ApplyFile ==
    /\ phase = "apply" /\ next <= Len(PathOrder) /\ next' = next + 1
    /\ LET p == PathOrder[next]
           f == files[p]
           step(r, c) == IF r.ret < 0 THEN r ELSE dispatch(r.fs, c)
           r == SE!FoldLeft(step, Done(store), FileCalls(p, f))
       IN IF f = NoFile THEN UNCHANGED <<store, phase>>
          ELSE /\ store' = IF Lost(f) THEN store ELSE r.fs
               /\ phase' = IF Lost(f) \/ r.ret < 0 \/ NamesAttribute(f) THEN "panic" ELSE phase
    /\ UNCHANGED <<conf, files, free, disk, table, merges, made, tree, unlike, dropped>>

Next == (\E c \in Calls : MergeCall(c)) \/ finalize \/ OpenToMerge \/ OpenToApply \/ ApplyFile
Spec == Init /\ [][Next]_vars

----------------------------------------------------------------------------
Owned == UNION {{p} \X DOMAIN Blocks(files[p]) : p \in Paths}
Span(b) == b.loc .. b.loc + b.size - 1
BlockOf(px) == Blocks(files[px[1]])[px[2]]
InFree(l) == \E k \in DOMAIN free : k <= l /\ l < k + free[k]

\* Records, blocks and the free list are well formed, blocks lie behind the header.
TypeOK ==
    /\ DOMAIN files = Paths /\ phase \in {"merge", "closed", "apply", "panic", "wrapped"}
    /\ \A p \in Paths : \A x \in DOMAIN Blocks(files[p]) :
          Blocks(files[p])[x].size > 0 /\ Blocks(files[p])[x].loc >= Header
    /\ phase # "wrapped" => \A k \in DOMAIN free : free[k] \in 1 .. UsizeMax /\ k >= Header
    /\ merges \in 1 .. MaxMerges /\ made \in 0 .. MaxCalls
    /\ unlike \subseteq Paths /\ dropped \subseteq Paths

(* The allocator, over any sequence of writes, truncates, renames and         *)
(* removals and after a compaction: no two blocks of the snapshot share a     *)
(* byte, no block lies in free space, and no two blocks of a file hold the    *)
(* same part of it.                                                           *)
NoOverlap ==
    /\ \A s, t \in Owned : s # t => Span(BlockOf(s)) \cap Span(BlockOf(t)) = {}
    /\ \A s \in Owned : \A l \in Span(BlockOf(s)) : ~InFree(l)
    /\ \A s, t \in Owned : (s[1] = t[1] /\ s[2] < t[2]) => s[2] + BlockOf(s).size <= t[2]

(* While a snapshot is merged into, every byte of its file that this run has  *)
(* made use of, in front of the end of the data, belongs to a block or to the *)
(* free list, and no two free blocks lie side by side: room that was given    *)
(* back in pieces can be given out whole.  Holes that were too few to be      *)
(* compacted are forgotten when the snapshot is opened again.                 *)
Accounted ==
    phase = "merge" =>
        /\ \A l \in (IF merges = 1 THEN Header ELSE table.at) .. end_of_data(free) - 1 :
              InFree(l) \/ \E s \in Owned : l \in Span(BlockOf(s))
        /\ \A k \in DOMAIN free : k + free[k] \notin DOMAIN free

(* The records and the free list divide the file of the snapshot up between   *)
(* them.                                                                      *)
SpaceDivided == TypeOK /\ NoOverlap /\ Accounted

(* A block holds the bytes that the journal left in that part of the file,    *)
(* wherever copying, growing and compaction have put it.                      *)
BlocksHold ==
    \A s \in Owned : \A i \in 1 .. BlockOf(s).size :
        LET data == At(tree, s[1]).data
        IN /\ Kind(tree, s[1]) = "file" /\ s[2] + i <= Len(data)
           /\ read_at(disk, BlockOf(s).loc, BlockOf(s).size)[i] = data[s[2] + i]

(* Conversely, what a file of the journal holds is in one of its blocks, was  *)
(* in a file before the journal or is zeroes: through merging, compaction and *)
(* opening again, but for the files whose first run compaction drops          *)
(* (forward.rs:731) and for exchanged ones.                                   *)
InBlock(p, i) == \E x \in DOMAIN Blocks(files[p]) : x < i /\ i <= End(x, Blocks(files[p]))
WasBefore(byte, i) ==
    \E q \in Paths : Exists(store, q) /\ i <= Len(At(store, q).data) /\ At(store, q).data[i] = byte
Kept(p) ==
    \A i \in 1 .. Len(At(tree, p).data) :
        At(tree, p).data[i] = 0 \/ InBlock(p, i) \/ WasBefore(At(tree, p).data[i], i)
NothingLost ==
    phase \in {"merge", "closed"} => \A p \in Paths \ dropped : Kind(tree, p) = "file" => Kept(p)

(* The blocks hold what the journal wrote and nothing else.                   *)
HoldsJournal == phase # "wrapped" => BlocksHold /\ NothingLost

(* merge_from and apply run to their end, unless a record does not tell what  *)
(* the journal did or is of a file that the journal only wrote to.            *)
ApplyRuns ==
    phase = "panic" => unlike # {} \/ (next > 1 /\ Lost(files[PathOrder[next - 1]]))

(* A snapshot of a journal, applied to the tree the journal began with, gives *)
(* the tree the journal ended with, file by file, for the files whose records *)
(* tell what the journal did and have kept their data.                        *)
AppliedEquals ==
    (phase = "apply" /\ next > Len(PathOrder)) =>
        \A p \in Paths \ (unlike \cup dropped) : View(store).file[p] = View(tree).file[p]

(* merge_from and apply run to their end, and repeat what the journal did.    *)
Repeats == ApplyRuns /\ AppliedEquals
=============================================================================
