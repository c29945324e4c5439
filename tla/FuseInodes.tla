----------------------------- MODULE FuseInodes -----------------------------
(***************************************************************************)
(* The low-level FUSE file system (fuse_ll/mod.rs) and the trait it         *)
(* implements (fuse/src/lib.rs): the table of inodes, their lookup counts,  *)
(* their primary paths and the descriptors they hold, against what the      *)
(* kernel believes.  The two mutexes of the table (Fs.inodes and            *)
(* Inode.nlookup) are taken in steps of their own, so that the calls of     *)
(* several session threads interleave between them.                         *)
(*                                                                          *)
(* Only the root directory has entries here.  Every other directory is      *)
(* reached through the descriptor of its inode, which lookup has closed.    *)
(* The directory tree is the backing file system's; an inode number is      *)
(* reused once no entry and no descriptor refers to it.                     *)
(***************************************************************************)
EXTENDS Naturals, Sequences, FiniteSets, FiniteSetsExt

CONSTANTS
    Names,      \* names in the root directory
    MaxCount,   \* bound on the lookup counts of an inode
    Confs       \* the settings a behaviour is run with, see conf

VARIABLES
    conf,       \* what this behaviour is run with: the seven sets below
    dir,        \* name -> backing inode number, or None
    kind,       \* backing inode number -> kind of the file
    inodes,     \* Fs.inodes: backing inode number -> Inode, or Gone
    holder,     \* inode number -> the thread that holds its nlookup mutex
    tableLock,  \* the thread that holds the mutex of Fs.inodes
    fds,        \* descriptor number -> the file it is open on, or None
    handles,    \* fi.fh of the open files: [ino (as the kernel says), fd]
    leaked,     \* history: descriptors that a call which failed has left open
    kcount,     \* the kernel's lookup count of every inode
    pc,         \* what each thread is doing
    last,       \* the last call by inode or handle, and the file it acted on
    panicked    \* message of the panic that ended the process, or "no"

vars == <<conf, dir, kind, inodes, holder, tableLock, fds, handles, leaked,
          kcount, pc, last, panicked>>

Inos == conf.inos          \* inode numbers of the backing file system
Foreign == conf.foreign    \* those of them on another device (mount points)
Threads == conf.threads    \* threads of fuse_session_loop_mt
Fds == 1 .. conf.fds       \* the descriptors
Kinds == conf.kinds        \* the kinds of file the kernel makes
Calls == conf.calls        \* the calls it makes beside those it always makes
ToSet == conf.toSet        \* the sets of attributes it asks setattr for

ASSUME InodesAssumption ==
    /\ MaxCount \in Nat \ {0}
    /\ \A c \in Confs :
        /\ c.inos \subseteq Nat \ {0} /\ c.foreign \subseteq c.inos
        /\ c.fds \in Nat \ {0} /\ c.kinds \subseteq {"file", "dir", "symlink"}
        /\ \A S \in c.toSet : S # {} /\ S \subseteq {"mode", "owner", "size", "time"}

None == 0
NoThread == "nobody"

(* A pointer to an Inode: of the root, of the entry for an inode number.    *)
(* lookup stores the parent as the kernel names it, FUSE_ROOT_ID for the    *)
(* root, while get_inode hands out the address of Fs.root.                  *)
FUSE_ROOT_ID == 1
\* The files that lookup refuses: those of another device, and inode 1.
Unfit == Foreign \cup (Inos \cap {FUSE_ROOT_ID})
RootAddress == 2
AsPointer(ino) == ino
get_inode(ino) == IF ino = FUSE_ROOT_ID THEN RootAddress ELSE ino

NoPath == <<>>
Gone == [nlookup |-> 0, fd |-> None, symlink |-> FALSE, path |-> NoPath]
InTable(i) == inodes[i] # Gone

Idle == [at |-> "idle", op |-> "none", ino |-> None, fd |-> None, fh |-> None,
         rest |-> <<>>, room |-> 0, given |-> <<>>, todo |-> <<>>]
NoCall == [call |-> "none", ino |-> None, on |-> None, asked |-> {},
           done |-> {}]

Init ==
    /\ conf \in Confs
    /\ dir \in [Names -> Unfit \cup {None}]
    /\ kind = [i \in Inos |-> "file"]
    /\ inodes = [i \in Inos |-> Gone]
    /\ holder = [i \in Inos |-> NoThread]
    /\ tableLock = NoThread
    /\ fds = [d \in Fds |-> None]
    /\ handles = {} /\ leaked = {}
    /\ kcount = [i \in Inos |-> 0]
    /\ pc = [t \in Threads |-> Idle]
    /\ last = NoCall
    /\ panicked = "no"

-----------------------------------------------------------------------------
(* The backing file system and the kernel. *)

FreeIn(files) == {d \in Fds : files[d] = None}
FreeFds == FreeIn(fds)

\* open(2) returns the lowest free descriptor.
Lowest(free) == Min(free)
NextFd == Lowest(FreeFds)

FreeInos == {i \in Inos \ Unfit : /\ \A n \in Names : dir[n] # i
                                  /\ \A d \in Fds : fds[d] # i}

(* The kernel holds the directory shared for lookup and readdirplus and     *)
(* exclusively for the calls that change it.                                *)
DirOps == {"lookup", "readdirplus", "make"}
Shared(t) == \A u \in Threads \ {t} : pc[u].op # "make"
Exclusive(t) == \A u \in Threads \ {t} : pc[u].op \notin DirOps

\* The bound on the counts: what the kernel collects, and what the table keeps
\* of lookups whose reply was an error.
Countable(i) == kcount[i] < MaxCount /\ inodes[i].nlookup <= MaxCount + 1

Known == {i \in Inos : kcount[i] > 0}
Occurrences(s, i) == Cardinality({k \in DOMAIN s : s[k] = i})

\* The kernel reads a reply that gives the inodes of the sequence s.
KernelLearns(s) ==
    kcount' = [i \in Inos |-> kcount[i] + Occurrences(s, i)]

Ready(t) == panicked = "no" /\ pc[t] = Idle

-----------------------------------------------------------------------------
(* lookup and the calls that end in it. *)

\* Mutant: the count starts from zero.
NewInodeZero(d, k, parent, name) ==
    [nlookup |-> 0, fd |-> d, symlink |-> k = "symlink",
     path |-> <<AsPointer(parent), name>>]
\* or_insert_with of lookup: the entry of a file seen for the first time.
NewInode(d, k, parent, name) ==
    [nlookup |-> 1, fd |-> d, symlink |-> k = "symlink",
     path |-> <<AsPointer(parent), name>>]

\* The openat and fstatat of lookup(FUSE_ROOT_ID, name), as the first step of
\* a call op that has the names s still to look up; i is the file of the first.
\* Without a free descriptor openat fails; an unfit file is refused, and any
\* file when fstatat fails: the call ends with an error, and newfd and a handle
\* that create has opened are left open.
OpenEntry(t, op, i, s, room, given, files, fh) ==
    LET free == FreeIn(files)
    IN  /\ fds' = IF free = {} THEN files ELSE [files EXCEPT ![Lowest(free)] = i]
        /\ \/ /\ free # {} /\ i \notin Unfit
              /\ pc' = [pc EXCEPT ![t] =
                    [Idle EXCEPT !.at = "opened", !.op = op, !.ino = i,
                                 !.fd = Lowest(free), !.fh = fh, !.rest = s,
                                 !.room = room, !.given = given]]
              /\ UNCHANGED leaked
           \/ /\ pc' = [pc EXCEPT ![t] = Idle]
              /\ leaked' = leaked \cup ({fh} \ {None})
                                  \cup (IF free = {} THEN {} ELSE {Lowest(free)})

lookup(t, n) ==
    /\ Ready(t) /\ Shared(t)
    /\ dir[n] # None /\ Countable(dir[n])
    /\ OpenEntry(t, "lookup", dir[n], <<n>>, 1, <<>>, fds, None)
    /\ UNCHANGED <<dir, kind, inodes, holder, tableLock, handles, kcount,
                   last, panicked>>

\* The entries of the directory in the order s; the reply has room for some.
readdirplus(t, s, room) ==
    /\ Ready(t) /\ Shared(t) /\ "readdirplus" \in Calls
    /\ s # <<>> /\ \A k \in DOMAIN s : /\ dir[s[k]] # None
                                       /\ Countable(dir[s[k]])
    /\ OpenEntry(t, "readdirplus", dir[s[1]], s, room, <<>>, fds, None)
    /\ UNCHANGED <<dir, kind, inodes, holder, tableLock, handles, kcount,
                   last, panicked>>

LockInodes(t) ==
    /\ panicked = "no" /\ pc[t].at = "opened" /\ tableLock = NoThread
    /\ tableLock' = t
    /\ LET i == pc[t].ino
       IN  inodes' = IF InTable(i) THEN inodes
                     ELSE [inodes EXCEPT ![i] =
                        NewInode(pc[t].fd, kind[i], FUSE_ROOT_ID,
                                 Head(pc[t].rest))]
    /\ pc' = [pc EXCEPT ![t].at = "locked"]
    /\ UNCHANGED <<dir, kind, holder, fds, handles, leaked, kcount, last, panicked>>

\* The end of a call: the reply goes to the kernel, with create's handle.
Return(t, given) ==
    /\ pc' = [pc EXCEPT ![t] = Idle]
    /\ KernelLearns(given)
    /\ handles' = IF pc[t].fh = None THEN handles
                  ELSE handles \cup {[ino |-> pc[t].ino, fd |-> pc[t].fh]}

\* What follows a counted lookup: the reply; in readdirplus the next entry,
\* or, when the entry did not fit, forget(e.ino, 1) and the reply.
AfterLookup(t, files) ==
    LET p == pc[t]
        got == Append(p.given, p.ino)
    IN  IF p.op = "readdirplus" /\ p.room = 0
        THEN /\ pc' = [pc EXCEPT ![t].at = "forget", ![t].fd = None,
                                 ![t].todo = <<<<p.ino, 1>>>>]
             /\ fds' = files
             /\ UNCHANGED <<kcount, handles, leaked>>
        ELSE IF p.op = "readdirplus" /\ Len(p.rest) > 1
        THEN /\ OpenEntry(t, p.op, dir[p.rest[2]], Tail(p.rest), p.room - 1, got,
                          files, None)
             /\ UNCHANGED <<kcount, handles>>
        ELSE /\ Return(t, got)
             /\ fds' = files
             /\ UNCHANGED leaked

\* Mutant: only the entry's creation counts.
NotCounted(i) == inodes
\* *inode.nlookup.lock().unwrap() += 1
Counted(i) == [inodes EXCEPT ![i].nlookup = @ + 1]

\* Mutant: the descriptor stays open.
NotClosed(d) == fds
\* libc::close(newfd), for a new entry as well, which has stored newfd
Closed(d) == [fds EXCEPT ![d] = None]

\* Mutant: the descriptor stored in the inode is closed as well.
CountLookupTwice(t) ==
    /\ panicked = "no" /\ pc[t].at = "locked" /\ holder[pc[t].ino] = NoThread
    /\ inodes' = Counted(pc[t].ino)
    /\ tableLock' = NoThread
    /\ AfterLookup(t, [Closed(pc[t].fd) EXCEPT ![inodes[pc[t].ino].fd] = None])
    /\ UNCHANGED <<dir, kind, holder, last, panicked>>

CountLookup(t) ==
    /\ panicked = "no" /\ pc[t].at = "locked" /\ holder[pc[t].ino] = NoThread
    /\ inodes' = Counted(pc[t].ino)
    /\ tableLock' = NoThread
    /\ AfterLookup(t, Closed(pc[t].fd))
    /\ UNCHANGED <<dir, kind, holder, last, panicked>>

\* mknod, mkdir and symlink: the call on the backing file system, then lookup.
MakeNode(t, n, k) ==
    /\ Ready(t) /\ Exclusive(t)
    /\ dir[n] = None
    /\ \E i \in FreeInos :
        /\ Countable(i)
        /\ dir' = [dir EXCEPT ![n] = i]
        /\ kind' = [kind EXCEPT ![i] = k]
        /\ OpenEntry(t, "make", i, <<n>>, 1, <<>>, fds, None)
    /\ UNCHANGED <<inodes, holder, tableLock, handles, kcount, last, panicked>>

mknod(t, n) == "file" \in Kinds /\ MakeNode(t, n, "file")
mkdir(t, n) == "dir" \in Kinds /\ MakeNode(t, n, "dir")
symlink(t, n) == "symlink" \in Kinds /\ MakeNode(t, n, "symlink")

\* create: the file stays open on fi.fh while lookup opens it once more.
create(t, n) ==
    /\ Ready(t) /\ Exclusive(t)
    /\ "create" \in Calls
    /\ dir[n] = None /\ FreeFds # {}
    /\ \E i \in FreeInos :
        /\ Countable(i)
        /\ dir' = [dir EXCEPT ![n] = i]
        /\ kind' = [kind EXCEPT ![i] = "file"]
        /\ OpenEntry(t, "make", i, <<n>>, 1, <<>>, [fds EXCEPT ![NextFd] = i], NextFd)
    /\ UNCHANGED <<inodes, holder, tableLock, handles, kcount, last, panicked>>

-----------------------------------------------------------------------------
(* forget: the kernel gives lookups back. *)

\* What a list of pairs <<inode, nlookup>> takes off the count of i.
Amount(s, i) ==
    MapThenSumSet(LAMBDA k : IF s[k][1] = i THEN s[k][2] ELSE 0, DOMAIN s)

\* forget_multi: one forget after the other; forget is the case of one.
forget_multi(t, batch) ==
    /\ Ready(t) /\ "forget" \in Calls
    /\ \A i \in Inos : Amount(batch, i) <= kcount[i]
    /\ kcount' = [i \in Inos |-> kcount[i] - Amount(batch, i)]
    /\ pc' = [pc EXCEPT ![t] =
        [Idle EXCEPT !.at = "forget", !.op = "forget",
                     !.todo = batch]]
    /\ UNCHANGED <<dir, kind, inodes, holder, tableLock, fds, handles, leaked,
                   last, panicked>>

\* The next forget of the thread's list is done; the call ends with the list.
NextForget(t) ==
    IF Len(pc[t].todo) = 1
    THEN Return(t, pc[t].given)
    ELSE /\ pc' = [pc EXCEPT ![t].at = "forget", ![t].todo = Tail(@)]
         /\ UNCHANGED <<kcount, handles>>

\* forget up to the decision to remove the inode: the nlookup mutex is taken
\* and, when the count is zero, kept until the entry is removed.
ForgetCount(t) ==
    LET i == Head(pc[t].todo)[1]
        n == Head(pc[t].todo)[2]
    IN  /\ holder[i] = NoThread
        /\ IF n > inodes[i].nlookup
           THEN /\ panicked' = "Negative lookup count"
                /\ UNCHANGED <<inodes, holder, pc, kcount, handles>>
           ELSE /\ inodes' = [inodes EXCEPT ![i].nlookup = @ - n]
                /\ UNCHANGED panicked
                /\ IF inodes[i].nlookup = n
                   THEN /\ holder' = [holder EXCEPT ![i] = t]
                        /\ pc' = [pc EXCEPT ![t].at = "freeing"]
                        /\ UNCHANGED <<kcount, handles>>
                   ELSE NextForget(t) /\ UNCHANGED holder

\* The removal, under the mutex of the table as well.
ForgetFree(t) ==
    /\ tableLock = NoThread
    /\ LET i == Head(pc[t].todo)[1]
       IN  /\ inodes' = [inodes EXCEPT ![i] = Gone]
           /\ holder' = [holder EXCEPT ![i] = NoThread]
    /\ NextForget(t)
    /\ UNCHANGED panicked

forget(t) ==
    /\ panicked = "no" /\ pc[t].at \in {"forget", "freeing"}
    /\ IF pc[t].at = "forget" THEN ForgetCount(t) ELSE ForgetFree(t)
    /\ UNCHANGED <<dir, kind, tableLock, fds, leaked, last>>

-----------------------------------------------------------------------------
(* link, rename, unlink and rmdir. *)

\* The file a call by inode number reaches: what the descriptor of the inode
\* is open on at that moment, None when it is closed.
Target(i) == IF inodes[i].fd = None THEN None ELSE fds[inodes[i].fd]

link(t, i, n) ==
    /\ Ready(t) /\ Exclusive(t)
    /\ "link" \in Calls
    /\ i \in Known /\ Countable(i)
    /\ dir[n] = None /\ holder[i] = NoThread
    /\ Target(i) # None /\ kind[Target(i)] # "dir"
    /\ dir' = [dir EXCEPT ![n] = Target(i)]
    /\ inodes' = Counted(i)
    /\ KernelLearns(<<i>>)
    /\ UNCHANGED <<kind, holder, tableLock, fds, handles, leaked, pc, last, panicked>>

\* get_child: the entry of the table for the file that name is now.
Looked(n) == InTable(dir[n])

\* replace_path of the child `name`, with the table `table`: the new table
\* and whether the primary path was (parent, name) and so was replaced.
Replaced(table, parent, name, newpath) ==
    LET i == dir[name]
    IN  IF table[i].path = <<parent, name>>
        THEN [table EXCEPT ![i].path = newpath]
        ELSE table

IsPrimary(parent, name) == inodes[dir[name]].path = <<parent, name>>

Panic(message) ==
    /\ panicked' = message
    /\ UNCHANGED <<dir, kind, inodes, holder, tableLock, fds, handles, leaked,
                   kcount, pc, last>>

\* A change of the directory by a thread that finds the table unlocked
\* (get_child takes its mutex).
DirChange(t) ==
    /\ Ready(t) /\ Exclusive(t) /\ tableLock = NoThread

Others == <<kind, holder, tableLock, fds, handles, leaked, kcount, pc, last, panicked>>

\* rename within the root: the primary paths change before renameat runs.
\* The kernel refuses to rename over a file of another kind.
rename(t, name, newname) ==
    /\ DirChange(t)
    /\ "rename" \in Calls
    /\ name # newname /\ dir[name] \in Known
    /\ dir[newname] # None => /\ dir[newname] \in Known
                              /\ kind[dir[newname]] = kind[dir[name]]
    /\ IF ~Looked(name) \/ (dir[newname] # None /\ ~Looked(newname))
       THEN Panic("File was not looked up")
       ELSE LET old == Replaced(inodes, get_inode(FUSE_ROOT_ID), name,
                                <<AsPointer(FUSE_ROOT_ID), name>>)
            IN  /\ inodes' = IF dir[newname] = None THEN old
                             ELSE Replaced(old, get_inode(FUSE_ROOT_ID),
                                           newname, NoPath)
                /\ dir' = IF dir[newname] = dir[name] THEN dir
                          ELSE [dir EXCEPT ![newname] = dir[name],
                                           ![name] = None]
                /\ UNCHANGED Others

unlink(t, name) ==
    /\ DirChange(t)
    /\ dir[name] \in Known /\ kind[dir[name]] # "dir"
    /\ IF ~Looked(name) THEN Panic("File was not looked up")
       ELSE /\ inodes' = Replaced(inodes, get_inode(FUSE_ROOT_ID), name, NoPath)
            /\ dir' = [dir EXCEPT ![name] = None]
            /\ UNCHANGED Others

rmdir(t, name) ==
    /\ DirChange(t)
    /\ dir[name] \in Known /\ kind[dir[name]] = "dir"
    /\ IF ~Looked(name) THEN Panic("File was not looked up")
       ELSE IF ~IsPrimary(get_inode(FUSE_ROOT_ID), name)
       THEN Panic("It must have a path")
       ELSE /\ inodes' = Replaced(inodes, get_inode(FUSE_ROOT_ID), name, NoPath)
            /\ dir' = [dir EXCEPT ![name] = None]
            /\ UNCHANGED Others

-----------------------------------------------------------------------------
(* Calls by inode number and by handle.  They change nothing of the table;  *)
(* what matters is the file they act on.                                    *)

Acted(call, i, on) ==
    last' = [NoCall EXCEPT !.call = call, !.ino = i, !.on = on]

\* open: through /proc/self/fd of the descriptor of the inode.
open(t, i) ==
    /\ Ready(t) /\ "open" \in Calls
    /\ i \in Known /\ kind[i] = "file"
    /\ FreeFds # {} /\ Target(i) # None
    /\ fds' = [fds EXCEPT ![NextFd] = Target(i)]
    /\ handles' = handles \cup {[ino |-> i, fd |-> NextFd]}
    /\ UNCHANGED <<dir, kind, inodes, holder, tableLock, leaked, kcount, pc, last,
                   panicked>>

release(t, h) ==
    /\ Ready(t) /\ h \in handles
    /\ fds' = [fds EXCEPT ![h.fd] = None]
    /\ handles' = handles \ {h}
    /\ UNCHANGED <<dir, kind, inodes, holder, tableLock, leaked, kcount, pc, last,
                   panicked>>

\* read, write_buf, fsync, flush and fallocate use fi.fh alone.
ByHandle(t, h, call) ==
    /\ Ready(t) /\ h \in handles
    /\ Acted(call, h.ino, fds[h.fd])
    /\ UNCHANGED <<dir, kind, inodes, holder, tableLock, fds, handles, leaked,
                   kcount, pc, panicked>>

\* getattr, statfs and readlink act on the descriptor of the inode; the
\* extended attribute calls refuse a symbolic link and go through its path.
XattrCalls == {"setxattr", "getxattr", "listxattr", "removexattr"}
ByInode(t, i, call) ==
    /\ Ready(t) /\ i \in Known
    /\ call \in XattrCalls => ~inodes[i].symlink
    /\ Acted(call, i, Target(i))
    /\ UNCHANGED <<dir, kind, inodes, holder, tableLock, fds, handles, leaked,
                   kcount, pc, panicked>>

\* The order in which setattr looks at the bits of to_set.
AttrOrder == <<"mode", "owner", "size", "time">>

\* chmod, truncate and utimens use the handle when there is one, chown never
\* does.
NoHandle == [ino |-> None, fd |-> None]
AttrTarget(attr, i, h) ==
    IF h # NoHandle /\ attr # "owner" THEN fds[h.fd] ELSE Target(i)

\* Each of the four replies FuseReply::err, with 0 for success, and setattr
\* returns at the first FuseReply::err: what it does of the set asked.
FirstOf(asked) ==
    {AttrOrder[Min({k \in DOMAIN AttrOrder : AttrOrder[k] \in asked})]}

setattr(t, i, asked, h) ==
    /\ Ready(t) /\ i \in Known /\ "setattr" \in Calls
    /\ h # NoHandle => h.ino = i
    /\ LET on == AttrTarget(CHOOSE a \in FirstOf(asked) : TRUE, i, h)
       IN  last' = [call |-> "setattr", ino |-> i, on |-> on, asked |-> asked,
                    done |-> IF on = None THEN {} ELSE FirstOf(asked)]
    /\ UNCHANGED <<dir, kind, inodes, holder, tableLock, fds, handles, leaked,
                   kcount, pc, panicked>>

-----------------------------------------------------------------------------
FileCalls == {"read", "write_buf", "fsync", "flush", "fallocate"}
InodeCalls == {"getattr", "statfs", "readlink"} \cup XattrCalls

Forgets == Inos \X (1 .. MaxCount)
Batches == {<<f>> : f \in Forgets} \cup {<<f, g>> : f, g \in Forgets}
Listings == {<<n>> : n \in Names}
            \cup {s \in {<<m, n>> : m, n \in Names} : s[1] # s[2]}

Step(t) == LockInodes(t) \/ CountLookup(t) \/ forget(t)

Kernel(t) ==
    \/ \E n \in Names : lookup(t, n) \/ mknod(t, n) \/ mkdir(t, n)
                        \/ symlink(t, n) \/ create(t, n) \/ unlink(t, n)
                        \/ rmdir(t, n)
    \/ \E s \in Listings, room \in 0 .. 1 : readdirplus(t, s, room)
    \/ \E b \in Batches : forget_multi(t, b)
    \/ \E i \in Inos, n \in Names : link(t, i, n)
    \/ \E a, b \in Names : rename(t, a, b)
    \/ \E i \in Inos : open(t, i)
    \/ \E h \in handles : release(t, h)
    \/ \E h \in handles, c \in FileCalls \cap Calls : ByHandle(t, h, c)
    \/ \E i \in Inos, c \in InodeCalls \cap Calls : ByInode(t, i, c)
    \/ \E i \in Inos, S \in ToSet, h \in handles \cup {NoHandle} :
            setattr(t, i, S, h)

Next == UNCHANGED conf /\ \E t \in Threads : Step(t) \/ Kernel(t)

Spec == Init /\ [][Next]_vars

-----------------------------------------------------------------------------
(* Properties. *)

\* Lookups of i that a thread has counted for its reply or has yet to take off.
Pending(t, i) ==
    Occurrences(pc[t].given, i)
    + (IF pc[t].at = "forget" THEN Amount(pc[t].todo, i) ELSE 0)
Owed(i) == kcount[i] + MapThenSumSet(LAMBDA t : Pending(t, i), Threads)

(* An inode the kernel can still name is in the table, with a count that     *)
(* covers what the kernel may give back: forget neither frees an inode in    *)
(* use (get_inode dereferences the number it gave out) nor fails its         *)
(* assertion "Negative lookup count", whatever calls run in between.         *)
CountCovers ==
    /\ panicked # "Negative lookup count"
    /\ \A i \in Inos : Owed(i) > 0 =>
            InTable(i) /\ Owed(i) <= inodes[i].nlookup

(* lookup takes the mutex of the table and then that of the inode, forget    *)
(* the other way round: no thread waits for the count of an inode whose      *)
(* holder waits for the table.                                               *)
NoLockCycle ==
    \A t, u \in Threads :
        ~(/\ pc[t].at = "locked" /\ tableLock = t
          /\ pc[u].at = "freeing" /\ holder[pc[t].ino] = u)

(* Every open descriptor is accounted for: it is a file handle, or the one a *)
(* call in flight will give back or make a handle, or it was left behind by  *)
(* a call whose lookup failed, or it is the one that its inode keeps.  No    *)
(* call that succeeds leaks a descriptor.                                    *)
InFlight(t) == IF pc[t].at \in {"opened", "locked"} THEN {pc[t].fd, pc[t].fh} \ {None} ELSE {}
FdsAccounted ==
    LET held == {h.fd : h \in handles}
        flying == UNION {InFlight(t) : t \in Threads}
    IN  \A d \in Fds \ (held \cup flying \cup leaked \cup FreeFds) :
            InTable(fds[d]) /\ inodes[fds[d]].fd = d

(* A file handle stays on the file it was opened on: no lookup, release or   *)
(* forget in between closes its descriptor or lets another open take it.     *)
HandleStable ==
    [][\A h \in handles \cap handles' : fds'[h.fd] = fds[h.fd]]_vars
=============================================================================
