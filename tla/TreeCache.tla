----------------------------- MODULE TreeCache ------------------------------
(***************************************************************************)
(* The possession tree that the miner processes of a rig share: one        *)
(* process builds `pom-tree.bin' beside the GGUF under the lock file, the  *)
(* others wait and map what it published (pom.rs, build_from_gguf,         *)
(* build_tree_to, reuse_cached_tree, write_pom_tree_meta).                 *)
(*                                                                         *)
(* A file name leads to an inode, and a handle keeps its inode when the    *)
(* name is removed or renamed.  A tree is two level-K nodes and the root   *)
(* above them, written in that order; Junk is a root folded from anything  *)
(* but the genuine two, or bytes no one wrote.  A process may be killed at *)
(* any point.  A lock goes stale by its age alone, whether its builder was *)
(* killed or is only slow.                                                 *)
(***************************************************************************)
EXTENDS Naturals, Sequences, FiniteSets, TLC

CONSTANTS
    Procs,       \* the processes sharing the model directory
    None,        \* no inode, no lock, no index
    MaxInodes,   \* bound: inodes ever created
    MaxKills,    \* bound: processes killed and builds failed
    MaxSlow      \* bound: builds that outlast POM_TREE_LOCK_STALE_SECS

VARIABLES
    inode,    \* inode |-> the nodes written to it
    tmp,      \* the inode `pom-tree.bin.building' names, or None
    cache,    \* the inode `pom-tree.bin' names, or None
    sidecar,  \* the meta file: [has, r_t, digest]
    lock,     \* `pom-tree.lock': [owner, stale], owner None when absent
    private,  \* the processes whose `pom-tree-<pid>.bin' exists
    proc,     \* process |-> program counter and locals
    killed,   \* processes killed and builds failed so far
    slow,     \* builds that were too slow so far
    robbed    \* (history) a living builder's lock was stolen

trees == <<inode, tmp, cache, sidecar, lock, private, proc, killed, slow, robbed>>

Genuine == <<"k1", "k2", "root">>
LevelK == <<"k1", "k2">>

Unlocked == [owner |-> None, stale |-> FALSE]

(* `file' is the inode of the open writer or reader, `end' where it will   *)
(* append, `tree' and `r_t' the index that is being made.                  *)
Fresh == [pc |-> "start", file |-> None, end |-> 0, root |-> "none", tree |-> None, r_t |-> "none"]

Init ==
    /\ inode = << >>
    /\ tmp = None /\ cache = None
    /\ sidecar = [has |-> FALSE, r_t |-> "none", digest |-> << >>]
    /\ lock = Unlocked
    /\ private = {}
    /\ proc = [p \in Procs |-> Fresh]
    /\ killed = 0 /\ slow = 0 /\ robbed = FALSE

Dead == {p \in Procs : proc[p].pc = "killed"}

Move(p, upd) == proc' = [proc EXCEPT ![p] = upd @@ @]

At(p, pc) == proc[p].pc = pc

(* Root in its place and the digest of the whole tree. *)
reuse_cached_tree ==
    /\ sidecar.has
    /\ cache # None
    /\ Len(inode[cache]) >= 3
    /\ inode[cache][3] = sidecar.r_t
    /\ inode[cache] = sidecar.digest

(* sweep_dead_pom_trees, then the loop. *)
Sweep(p) ==
    /\ At(p, "start")
    /\ private' = private \ Dead
    /\ Move(p, [pc |-> "try"])
    /\ UNCHANGED <<inode, tmp, cache, sidecar, lock, killed>>

Reuse(p) ==
    /\ At(p, "try")
    /\ reuse_cached_tree
    /\ Move(p, [pc |-> "done", tree |-> cache, r_t |-> sidecar.r_t])
    /\ UNCHANGED <<inode, tmp, cache, sidecar, lock, private, killed>>

(* variant: the lock file that exists is taken as one's own. *)
LockShared(p) ==
    /\ At(p, "try")
    /\ ~reuse_cached_tree
    /\ lock' = [owner |-> p, stale |-> FALSE]
    /\ Move(p, [pc |-> "unlink"])
    /\ UNCHANGED <<inode, tmp, cache, sidecar, private, killed>>

(* create_new on the lock file. *)
Lock(p) ==
    /\ At(p, "try")
    /\ ~reuse_cached_tree
    /\ lock.owner = None
    /\ lock' = [owner |-> p, stale |-> FALSE]
    /\ Move(p, [pc |-> "unlink"])
    /\ UNCHANGED <<inode, tmp, cache, sidecar, private, killed>>

(* pom_tree_lock_is_stale; the file is removed in a step of its own. *)
SeesStale(p) ==
    /\ At(p, "try")
    /\ ~reuse_cached_tree
    /\ lock.owner # None /\ lock.stale
    /\ Move(p, [pc |-> "steal"])
    /\ UNCHANGED <<inode, tmp, cache, sidecar, lock, private, killed>>

Steal(p) ==
    /\ At(p, "steal")
    /\ lock' = Unlocked
    /\ robbed' = (robbed \/ lock.owner \in Procs \ Dead)
    /\ Move(p, [pc |-> "try"])
    /\ UNCHANGED <<inode, tmp, cache, sidecar, private, killed>>

(* The deadline passed, or no lock file can be created here. *)
BuildPrivate(p) ==
    /\ At(p, "try")
    /\ ~reuse_cached_tree
    /\ lock.owner # None /\ ~lock.stale
    /\ private' = private \cup {p}
    /\ Move(p, [pc |-> "done", tree |-> None, r_t |-> "root"])
    /\ UNCHANGED <<inode, tmp, cache, sidecar, lock, killed>>

-----------------------------------------------------------------------------
(* build_tree_to on the shared target. *)

Unlink(p) ==
    /\ At(p, "unlink")
    /\ tmp' = None
    /\ Move(p, [pc |-> "create"])
    /\ UNCHANGED <<inode, cache, sidecar, lock, private, killed>>

(* create + truncate: a file that is there again is emptied and shared. *)
Create(p) ==
    /\ At(p, "create")
    /\ IF tmp # None
       THEN /\ inode' = [inode EXCEPT ![tmp] = << >>]
            /\ UNCHANGED tmp
            /\ Move(p, [pc |-> "write", file |-> tmp, end |-> 0])
       ELSE /\ Len(inode) < MaxInodes
            /\ inode' = Append(inode, << >>)
            /\ tmp' = Len(inode) + 1
            /\ Move(p, [pc |-> "write", file |-> Len(inode) + 1, end |-> 0])
    /\ UNCHANGED <<cache, sidecar, lock, private, killed>>

WriteAt(nodes, pos, n) ==
    [i \in 1..(IF pos > Len(nodes) THEN pos ELSE Len(nodes)) |->
        IF i = pos THEN n ELSE IF i <= Len(nodes) THEN nodes[i] ELSE "junk"]

WriteLevelK(p) ==
    /\ At(p, "write")
    /\ LET i == proc[p].end + 1 IN
       /\ inode' = [inode EXCEPT ![proc[p].file] = WriteAt(@, i, LevelK[i])]
       /\ Move(p, [end |-> i, pc |-> IF i = Len(LevelK) THEN "fold" ELSE "write"])
    /\ UNCHANGED <<tmp, cache, sidecar, lock, private, killed>>

Fails(p) == Move(p, [pc |-> "unlock", tree |-> None, r_t |-> "failed"])

(* finalize_checkpoint_upper: by NAME, read the level below, append above. *)
Fold(p) ==
    /\ At(p, "fold")
    /\ IF tmp = None \/ (IF tmp = None THEN FALSE ELSE Len(inode[tmp]) < 2)
       THEN Fails(p)
       ELSE Move(p, [pc |-> "append", file |-> tmp, end |-> Len(inode[tmp]) + 1,
                     root |-> IF SubSeq(inode[tmp], 1, 2) = LevelK THEN "root" ELSE "junk"])
    /\ UNCHANGED <<inode, tmp, cache, sidecar, lock, private, killed>>

AppendRoot(p) ==
    /\ At(p, "append")
    /\ LET nodes == WriteAt(inode[proc[p].file], proc[p].end, proc[p].root) IN
       /\ inode' = [inode EXCEPT ![proc[p].file] = nodes]
       /\ IF Len(nodes) < 3 THEN Fails(p) ELSE Move(p, [pc |-> "rename", r_t |-> nodes[3], tree |-> proc[p].file])
    /\ UNCHANGED <<tmp, cache, sidecar, lock, private, killed>>

(* Published, or kept as a private tree when the name is gone. *)
Rename(p) ==
    /\ At(p, "rename")
    /\ IF tmp = None
       THEN Move(p, [pc |-> "unlock"]) /\ UNCHANGED <<tmp, cache>>
       ELSE /\ cache' = tmp
            /\ tmp' = None
            /\ Move(p, [pc |-> "sidecar"])
    /\ UNCHANGED <<inode, sidecar, lock, private, killed>>

(* The digest is of whatever `pom-tree.bin' names by now; the sidecar      *)
(* itself is written aside and renamed into place.                         *)
write_pom_tree_meta(p) ==
    /\ At(p, "sidecar")
    /\ sidecar' = [has |-> TRUE, r_t |-> proc[p].r_t, digest |-> inode[cache]]
    /\ Move(p, [pc |-> "unlock"])
    /\ UNCHANGED <<inode, tmp, cache, lock, private, killed>>

(* Too little disk, a failed write, or a sidecar that could not be written: *)
(* the build is an error, but a published tree is kept without its sidecar. *)
BuildFails(p) ==
    /\ killed < MaxKills
    /\ killed' = killed + 1
    /\ \/ At(p, "write") /\ Fails(p)
       \/ At(p, "sidecar") /\ Move(p, [pc |-> "unlock"])
    /\ UNCHANGED <<inode, tmp, cache, sidecar, lock, private>>

Unlock(p) ==
    /\ At(p, "unlock")
    /\ lock' = Unlocked
    /\ Move(p, [pc |-> IF proc[p].r_t = "failed" THEN "start" ELSE "done"])
    /\ UNCHANGED <<inode, tmp, cache, sidecar, private, killed>>

Step(p) ==
    \/ Steal(p)
    \/ /\ UNCHANGED robbed
       /\ \/ Sweep(p) \/ Reuse(p) \/ Lock(p) \/ SeesStale(p) \/ BuildPrivate(p)
          \/ Unlink(p) \/ Create(p) \/ WriteLevelK(p) \/ Fold(p) \/ AppendRoot(p)
          \/ Rename(p) \/ write_pom_tree_meta(p) \/ Unlock(p)

(* A killed process leaves its lock, its files and no handle. *)
Kill(p) ==
    /\ killed < MaxKills
    /\ ~At(p, "killed")
    /\ killed' = killed + 1
    /\ Move(p, [pc |-> "killed", tree |-> None])
    /\ UNCHANGED <<inode, tmp, cache, sidecar, lock, private>>

(* The lock ages past POM_TREE_LOCK_STALE_SECS: only its mtime is looked   *)
(* at, so that a living builder may also be too slow.                      *)
Age ==
    /\ lock.owner # None /\ ~lock.stale
    /\ \/ lock.owner \in Dead /\ UNCHANGED slow
       \/ lock.owner \notin Dead /\ slow < MaxSlow /\ slow' = slow + 1
    /\ lock' = [lock EXCEPT !.stale = TRUE]
    /\ UNCHANGED <<inode, tmp, cache, sidecar, private, proc, killed, robbed>>

Next ==
    \/ Age
    \/ UNCHANGED slow /\ \E p \in Procs :
          \/ Step(p)
          \/ UNCHANGED robbed /\ (BuildFails(p) \/ Kill(p))

Spec == Init /\ [][Next]_trees

(* Every process runs on; time passes for the lock of a dead one. *)
Fairness ==
    /\ WF_trees(Age /\ lock.owner \in Dead)
    /\ \A p \in Procs : WF_trees(UNCHANGED slow /\ Step(p))

FairSpec == Spec /\ Fairness

(* "exactly ONE process builds; the rest wait" (build_from_gguf). *)
ExactlyOneBuilds ==
    Cardinality({p \in Procs : proc[p].pc \in {"unlink", "create", "write", "fold", "append", "rename", "sidecar"}}) <= 1

(* It is so until the lock of a living builder is taken for a crashed      *)
(* one's, whatever is killed, fails or goes stale.                         *)
OneBuilder == robbed \/ ExactlyOneBuilds

(* "never mine on a corrupt tree": an index that a process holds has the   *)
(* root of the genuine tree, and the file behind it still is that tree,    *)
(* whatever the other processes and the killed ones did to the directory,  *)
(* unless a living builder was robbed of its lock: then two builders write *)
(* to the file of one name.                                                *)
TreeIsGenuine ==
    robbed \/ \A p \in Procs : At(p, "done") =>
        /\ proc[p].r_t = "root"
        /\ proc[p].tree # None => inode[proc[p].tree] = Genuine

(* "so the miner never hangs": every process that is not killed ends up    *)
(* with an index, shared or private, unless a living builder was robbed:   *)
(* two builders may then fail each other for ever.                         *)
EveryoneGetsATree == \A p \in Procs : []<>(robbed \/ At(p, "done") \/ At(p, "killed"))
=============================================================================
