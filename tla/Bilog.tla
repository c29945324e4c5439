-------------------------------- MODULE Bilog --------------------------------
(* A server that keeps a journal of its calls, and the journal viewer that    *)
(* later replays it (server/mod.rs pre_op, journal/viewer.rs): pre_op writes  *)
(* the entry, the handler then changes the tree, and the process may die in   *)
(* between.  The viewer goes through the journal forwards from the tree the   *)
(* journal began with, or backwards from the tree as it was left, or through  *)
(* the entries that a filter selects.                                         *)
EXTENDS BilogEntry, FuseOps
CONSTANTS
    Confs,         \* configurations, with the name of a workload each
    Workload       \* name -> the calls that are made, the trees to begin with

VARIABLES conf,    \* the configuration
          fs,      \* the backing tree
          base,    \* history: the tree the journal began with
          log,     \* the journal, with the trees before and after each call
          pc,      \* what is running
          stopped, \* the error that has stopped the viewer, or "no"
          call,    \* the call between pre_op and the tree
          cursor,  \* the entries left to undo, or the next to redo
          filter
vars == <<conf, fs, base, log, pc, stopped, call, cursor, filter>>

NoCall == [op |-> "none"]
NoFilter == [paths |-> Paths, invert |-> FALSE]

JournalType == conf.journal     \* "Bilog" or "Forward"
MaxLog == conf.max              \* bound: entries in the journal
Filters == conf.filters         \* of the viewer: [paths, invert], paths those that match
Calls == Workload[conf.name].calls

(* The calls of the given kinds.  Modes, owners and times are sets of bits in *)
(* vals; x has the sizes, offsets, contents and flags.                        *)
VFSCall(ops, vals, x) == {c \in
       [op : {"mknod", "mkdir"}, path : Paths, mode : vals, own : vals]
  \cup [op : {"unlink", "rmdir", "removexattr", "fsync"}, path : Paths]
  \cup [op : {"symlink"}, from : Paths \cup {NoPath}, to : Paths, own : vals]
  \cup [op : {"link"}, from : Paths, to : Paths, own : vals]
  \cup [op : {"rename"}, from : Paths, to : Paths, flags : x.rename]
  \cup [op : {"chmod"}, path : Paths, mode : vals]
  \cup [op : {"security"}, path : Paths, own : vals]
  \cup [op : {"utimens"}, path : Paths, time : vals]
  \cup [op : {"truncate"}, path : Paths, size : x.sizes]
  \cup [op : {"fallocate"}, path : Paths, alloc : {"extend", "keep", "punch"}, off : x.offs, size : x.sizes \ {0}]
  \cup [op : {"write"}, path : Paths, off : x.offs, buf : x.bufs]
  \cup [op : {"setxattr"}, path : Paths, value : x.values, flags : x.setxattr]
  \cup [op : {"create"}, path : Paths, mode : vals, flags : {"none", "excl"}, own : vals] :
  c.op \in ops}

Init ==
    /\ conf \in Confs
    /\ base \in Workload[conf.name].trees /\ fs = base
    /\ log = <<>> /\ pc = "idle" /\ stopped = "no" /\ call = NoCall /\ cursor = 0 /\ filter = NoFilter

Entry(c) == IF JournalType = "Bilog" THEN try_from(fs, c) ELSE Ok(c)
Bypassed(r) == JournalType = "Bilog" /\ r.v.t = "filestore"

(* pre_op: an entry that cannot be made is a panic, which ends the server; a  *)
(* file that should go to the file store is not unlinked by the handler.      *)
PreOpPanic(c) ==
    /\ pc = "idle" /\ Len(log) < MaxLog /\ Sent(fs, c)
    /\ Entry(c).err # "none"
    /\ pc' = "panic"
    /\ UNCHANGED <<conf, fs, base, log, stopped, call, cursor, filter>>
PreOp(c) ==
    /\ pc = "idle" /\ Len(log) < MaxLog /\ Sent(fs, c)
    /\ LET r == Entry(c)
       IN /\ r.err = "none"
          /\ log' = Append(log, [e |-> r.v, call |-> c, pre |-> fs, post |-> fs, done |-> Bypassed(r)])
          /\ pc' = IF Bypassed(r) THEN "idle" ELSE "local"
          /\ call' = IF Bypassed(r) THEN NoCall ELSE c
    /\ UNCHANGED <<conf, fs, base, stopped, cursor, filter>>

LocalOp ==
    /\ pc = "local"
    /\ LET r == local(fs, call, IF call.op = "write" THEN call.buf ELSE <<>>)
       IN /\ fs' = r.fs
          /\ log' = [log EXCEPT ![Len(log)].post = r.fs, ![Len(log)].done = TRUE]
    /\ pc' = "idle" /\ call' = NoCall
    /\ UNCHANGED <<conf, base, stopped, cursor, filter>>

(* The server is stopped, or dies between the journal and the tree. *)
Stop ==
    /\ pc \in {"idle", "local", "panic"}
    /\ pc' = "stopped" /\ call' = NoCall
    /\ UNCHANGED <<conf, fs, base, log, stopped, cursor, filter>>

(* viewer_main: only a bilog can be replayed in reverse. *)
StartUndo(f) ==
    /\ pc = "stopped" /\ JournalType = "Bilog"
    /\ pc' = "undo" /\ cursor' = Len(log) /\ filter' = f
    /\ UNCHANGED <<conf, fs, base, log, stopped, call>>
StartRedo(f) ==
    /\ pc = "stopped"
    /\ pc' = "redo"
    /\ fs' = base /\ cursor' = 1 /\ filter' = f
    /\ UNCHANGED <<conf, base, log, stopped, call>>

Affected(x) == IF JournalType = "Bilog" THEN affected_paths(x)
               ELSE IF x.op = "rename" THEN {x.from, x.to}
               ELSE IF x.op \in {"symlink", "link"} THEN {x.to} ELSE {x.path}
filter_journalMatching(x) == filter = NoFilter \/ Affected(x) \cap filter.paths # {}
filter_journal(x) == filter = NoFilter \/ (Affected(x) \cap filter.paths # {}) # filter.invert
ToCall(x) == IF JournalType = "Bilog" THEN apply(x, fs) ELSE Ok(x)

(* replay: one entry.  A refused entry and a negative result are panics; any  *)
(* other result will do.                                                      *)
ReplayEntry(x, next) ==
    LET r == ToCall(x)
        d == dispatch(fs, r.v)
    IN IF ~filter_journal(x) THEN cursor' = next /\ UNCHANGED <<fs, stopped>>
       ELSE IF r.err # "none" THEN stopped' = (IF r.err = "checksum" THEN "mismatch" ELSE "refused")
                                   /\ UNCHANGED <<fs, cursor>>
       ELSE IF d.ret < 0 THEN stopped' = "failed" /\ fs' = d.fs /\ UNCHANGED cursor
       ELSE fs' = d.fs /\ cursor' = next /\ UNCHANGED stopped
Undo ==
    /\ pc = "undo" /\ stopped = "no" /\ cursor > 0
    /\ ReplayEntry(log[cursor].e, cursor - 1)
    /\ UNCHANGED <<conf, base, log, pc, call, filter>>
Redo ==
    /\ pc = "redo" /\ stopped = "no" /\ cursor <= Len(log)
    /\ ReplayEntry(log[cursor].e, cursor + 1)
    /\ UNCHANGED <<conf, base, log, pc, call, filter>>

Next ==
    \/ \E c \in Calls : PreOp(c) \/ PreOpPanic(c)
    \/ LocalOp \/ Stop
    \/ \E f \in Filters \cup {NoFilter} : StartUndo(f) \/ StartRedo(f)
    \/ Undo \/ Redo
Spec == Init /\ [][Next]_vars

-----------------------------------------------------------------------------
\* Every call of the journal was carried out on the tree, and none was answered
\* by pre_op in the name of the file store.
Carried == \A i \in DOMAIN log : log[i].done
Unstored == \A i \in DOMAIN log : ~(JournalType = "Bilog" /\ log[i].e.t = "filestore")
Whole == Carried /\ Unstored

\* A rename is undone by renaming once more, and its flags are not in the entry:
\* an undo has come to a rename, a redo to an exchange.
Bilogged(i, flags) ==
    JournalType = "Bilog" /\ log[i].call.op = "rename" /\ log[i].call.flags \in flags
Misrenamed ==
    IF pc = "undo"
    THEN \E i \in cursor + 1 .. Len(log) : Bilogged(i, {"none", "noreplace", "exchange"})
    ELSE \E i \in 1 .. cursor - 1 : Bilogged(i, {"exchange"})

(* Undoing: as long as the viewer has not stopped with an error or come to a  *)
(* rename, the tree is exactly what it was before the calls undone so far     *)
(* (names, kinds, modes, owners, contents and which names are links).  The    *)
(* replay loop of viewer.rs never looks at the tree itself, so this rests on  *)
(* apply.                                                                     *)
UndoSound ==
    pc = "undo" /\ stopped = "no" /\ filter = NoFilter /\ Whole /\ ~Misrenamed =>
        View(fs) = IF cursor = Len(log) THEN View(IF log = <<>> THEN base ELSE log[cursor].post)
                   ELSE View(log[cursor + 1].pre)

(* Redoing from the tree the journal began with goes through the same trees   *)
(* as the server did, renames included, until it comes to an exchange, whose  *)
(* flag a bilog does not keep; and a server that died after the journal write *)
(* included.                                                                  *)
RedoSound ==
    pc = "redo" /\ stopped = "no" /\ filter = NoFilter /\ Unstored /\ ~Misrenamed =>
        /\ cursor <= Len(log) => View(fs) = View(log[cursor].pre)
        /\ cursor = Len(log) + 1 /\ log # <<>> /\ Carried => View(fs) = View(log[Len(log)].post)


(* Replaying a bilog whose calls all reached the tree stops with an error     *)
(* only at entries about contents, links and extended attributes, and behind  *)
(* a rename that was not undone: what else makes or removes a name or sets an *)
(* attribute is replayed in both directions.                                  *)
ReplayRuns ==
    stopped # "no" /\ Whole /\ filter = NoFilter /\ JournalType = "Bilog" =>
        Misrenamed \/ log[cursor].e.t \in {"write", "truncate", "link", "xattr"}

(* A filtered replay, in either direction, leaves alone every path that is    *)
(* named by no call it should replay (those whose paths match, or, inverted,  *)
(* those whose paths do not) and to which no symbolic link under such a name  *)
(* leads.                                                                     *)
Named(c) == IF c.op = "rename" THEN {c.from, c.to}
            ELSE IF c.op \in {"symlink", "link"} THEN {c.to} ELSE {c.path}
Wanted(c) == (Named(c) \cap filter.paths # {}) # filter.invert
Reached(c) == Named(c) \cup {Follow(fs, p) : p \in Named(c)}
FilterExact ==
    [][filter # NoFilter /\ (Undo \/ Redo) => \A p \in Paths :
          (\A i \in DOMAIN log : Wanted(log[i].call) => p \notin Reached(log[i].call))
             => View(fs)'.file[p] = View(fs).file[p]]_vars
=============================================================================
