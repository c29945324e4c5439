---------------------------- MODULE MCFuseInodes ----------------------------
(* Instances of FuseInodes.  "table": two threads, a mount point and inode 1,  *)
(* the calls that look up, list, rename and forget.  "files": one thread, two      *)
(* inode numbers for two descriptors, the calls by inode and by handle.        *)
EXTENDS FuseInodes, TLC
CONSTANTS t1, t2

Instances ==
    {[threads |-> {t1, t2}, inos |-> {1, 11, 13}, foreign |-> {13}, fds |-> 3,
      kinds |-> {"file", "dir"},
      calls |-> {"forget", "readdirplus", "create", "rename"},
      toSet |-> {{"mode"}, {"size", "time"}}],
     [threads |-> {t1}, inos |-> {11, 12}, foreign |-> {}, fds |-> 2,
      kinds |-> {"symlink"},
      calls |-> {"create", "link", "open", "getxattr", "read", "setattr"},
      toSet |-> {{"owner", "mode"}}]}

Symmetry == Permutations({t1, t2})
=============================================================================
