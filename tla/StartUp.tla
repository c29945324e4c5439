------------------------------- MODULE StartUp -------------------------------
(***************************************************************************)
(* How a server finds its two directories and mounts (figure_out_paths,     *)
(* check_mount, server_main, server/mod.rs; copy_security, canonize_path),  *)
(* over starts that fail or crash at any step and are repeated.             *)
(*                                                                          *)
(* A path holds nothing, an empty directory, the data to be served, or a    *)
(* dead mount, which a server that died while it served leaves at its mount *)
(* path: calls on the path fail, though its parent still lists it.          *)
(***************************************************************************)
EXTENDS Naturals, FiniteSets

CONSTANTS
    MaxCrashes,  \* bound on the crashes
    MaxGrabs     \* bound on how often another process holds the mount path

VARIABLES
    conf,
    pc,            \* where server_main is
    mount,         \* what is at the mount path
    backing,       \* what is at the path of the backing store
    mount_exists,  \* as figure_out_paths found it
    secured,       \* the mount path has the security of the store
    recreated,     \* the mount path was recreated in this start
    crashes, grabs

vars == <<conf, pc, mount, backing, mount_exists, secured, recreated, crashes,
          grabs>>

\* The build, the options and the surroundings of the server.
Situations == [windows : BOOLEAN,
          explicit : BOOLEAN,   \* --backing-store is given
          volume : BOOLEAN,     \* the data is a mounted volume
          make : BOOLEAN]       \* the caller prepares the mount path

Init ==
    /\ conf \in Situations
    /\ pc = "off"
    /\ \/ mount = "data" /\ backing = "absent"
       \/ mount \in {"absent", "empty"} /\ backing = "data"
    /\ mount_exists = FALSE /\ recreated = FALSE
    /\ secured = TRUE
    /\ crashes = 0 /\ grabs = 0

\* Path::exists and Path::canonicalize: a call on the path succeeds.
exists(p) == p \in {"empty", "data"}

\* canonize_path fails for a path that cannot be reached, but not on Windows.
canonize_path(p) == conf.windows \/ exists(p)

\* Mutant: the listing of the parent is not looked at.
FoundByCall(p) == exists(p)

\* mount_exists: on Windows also when the parent directory lists the path.
Found(p) == exists(p) \/ (conf.windows /\ p # "absent")

Start ==
    /\ pc = "off"
    /\ canonize_path(mount)
    /\ mount_exists' = Found(mount)
    /\ recreated' = FALSE
    /\ pc' = "store"
    /\ UNCHANGED <<conf, mount, backing, secured, crashes, grabs>>

\* The tests of figure_out_paths; a move does not change what mount_exists says,
\* so the tests after it change nothing.
StoreMissing == backing = "absent" /\ (conf.explicit \/ ~mount_exists)

Store ==
    /\ pc = "store"
    /\ pc' = IF StoreMissing THEN "off"
             ELSE IF backing = "absent" THEN "move"
             ELSE IF ~mount_exists THEN "create" ELSE "claim"
    /\ UNCHANGED <<conf, mount, backing, mount_exists, secured, recreated,
                   crashes, grabs>>

\* mount --move wants a directory to move to.
MountMoves == backing # "absent"

\* Mutant: the backing store is made, not moved.
MakeStore ==
    /\ pc = "move"
    /\ backing' = "empty" /\ mount' = mount
    /\ pc' = "claim"
    /\ UNCHANGED <<conf, mount_exists, secured, recreated, crashes, grabs>>

Move ==
    /\ pc = "move"
    /\ IF ~conf.windows /\ conf.volume /\ ~MountMoves
       THEN pc' = "off" /\ UNCHANGED <<mount, backing>>
       ELSE backing' = mount /\ mount' = "absent" /\ pc' = "claim"
    /\ UNCHANGED <<conf, mount_exists, secured, recreated, crashes, grabs>>

\* create_dir_all or, for a busy path, create_dir; neither makes a directory
\* where a dead mount is.
Create ==
    /\ pc = "create"
    /\ IF mount = "dead"
       THEN pc' = "off" /\ UNCHANGED <<mount, secured>>
       ELSE mount' = "empty" /\ secured' = FALSE /\ pc' = "secure"
    /\ UNCHANGED <<conf, backing, mount_exists, recreated, crashes, grabs>>

copy_security ==
    /\ pc = "secure"
    /\ secured' = TRUE
    /\ pc' = "claim"
    /\ UNCHANGED <<conf, mount, backing, mount_exists, recreated, crashes,
                   grabs>>

\* Windows opens the mount path for itself before it mounts there.
Claim ==
    /\ pc = "claim"
    /\ pc' = "mount"
    /\ UNCHANGED <<conf, mount, backing, mount_exists, secured, recreated,
                   crashes, grabs>>

\* Another process holds it: it is removed and made again, once.
ClaimBusy ==
    /\ pc = "claim" /\ conf.windows /\ exists(mount) /\ grabs < MaxGrabs
    /\ grabs' = grabs + 1
    /\ IF recreated \/ mount = "data"
       THEN pc' = "off" /\ UNCHANGED <<mount, recreated>>
       ELSE pc' = "create" /\ mount' = "absent" /\ recreated' = TRUE
    /\ UNCHANGED <<conf, backing, mount_exists, secured, crashes>>

\* start_fuse or dokan_main, at the end of server_main; dokan mounts over a
\* dead mount of its own.
Mount ==
    /\ pc = "mount"
    /\ IF mount = "absent"
       THEN pc' = "off" /\ UNCHANGED mount
       ELSE pc' = "serving" /\ mount' = "empty"
    /\ UNCHANGED <<conf, backing, mount_exists, secured, recreated, crashes,
                   grabs>>

\* The process dies; the mount it served stays behind, dead.
Crash ==
    /\ pc # "off" /\ crashes < MaxCrashes
    /\ pc' = "off" /\ crashes' = crashes + 1
    /\ mount' = IF pc = "serving" THEN "dead" ELSE mount
    /\ UNCHANGED <<conf, backing, mount_exists, secured, recreated, grabs>>

\* What a caller does before it starts the server (Makefile, dirs and fs): it
\* makes the directory, and it unmounts what is mounted there.
Prepare ==
    /\ pc = "off" /\ conf.make /\ mount \in {"absent", "dead"}
    /\ mount' = "empty"
    /\ UNCHANGED <<conf, pc, backing, mount_exists, secured, recreated, crashes,
                   grabs>>

Server == Start \/ Store \/ Move \/ Create \/ copy_security \/ Claim \/ Mount

Next == Server \/ ClaimBusy \/ Crash \/ Prepare

Spec == Init /\ [][Next]_vars

\* The server is started again whenever it is off, after the caller has prepared
\* the mount path if it is one that does.
FairSpec == Spec /\ WF_vars(Server) /\ WF_vars(Prepare)

-----------------------------------------------------------------------------
TypeOK ==
    /\ conf \in Situations
    /\ pc \in {"off", "store", "move", "create", "secure", "claim", "mount",
               "serving"}
    /\ {mount, backing} \subseteq {"absent", "empty", "data", "dead"}
    /\ {mount_exists, secured, recreated} \subseteq BOOLEAN
    /\ crashes \in 0 .. MaxCrashes /\ grabs \in 0 .. MaxGrabs

(* The server never serves anything but the data: after any sequence of       *)
(* crashed and failed starts the store that is mounted is the directory the   *)
(* user had, and it is reachable at one of the two paths at every moment.     *)
ServesTheData ==
    /\ pc = "serving" => backing = "data" /\ mount # "data"
    /\ Cardinality({p \in {"mount", "backing"} :
            (IF p = "mount" THEN mount ELSE backing) = "data"}) = 1

\* No start succeeds: the store that was given does not exist; mount --move
\* has no directory to move to; nobody makes the mount path, or takes away the
\* dead mount, where canonize_path needs a directory.
Hopeless ==
    \/ conf.explicit /\ backing = "absent"
    \/ ~conf.windows /\ conf.volume /\ backing = "absent"
    \/ ~conf.windows /\ ~conf.make /\ mount \in {"absent", "dead"}

(* The server comes up sooner or later when it is started again and again,    *)
(* wherever the crashed and failed starts before have left the directories,   *)
(* unless no start can succeed: on Windows by itself also over the mount that *)
(* a crashed server has left, which figure_out_paths finds in the listing of  *)
(* the parent, on Unix when the caller unmounts it.                           *)
EventuallyServes == <>[](pc = "serving" \/ Hopeless)

(* A mount path that the server has made for itself has the security of the   *)
(* store by the time it is mounted, unless an earlier start crashed.          *)
ServesSecured == pc = "serving" /\ crashes = 0 => secured

(* Whatever is served is the user's data, behind a secured mount path.        *)
ServesSafely == ServesTheData /\ ServesSecured
=============================================================================
