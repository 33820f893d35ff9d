----------------------------- MODULE Initramfs -----------------------------
(***************************************************************************)
(* Filling the root file system at boot: initramfs_load over the entries   *)
(* of a cpio archive (fs/initramfs.cpp), the tree it builds with           *)
(* ramfs::create_dir and create_file, and the path lookups of fs/vfs.cpp   *)
(* on the way.                                                             *)
(*                                                                         *)
(* An archive is a sequence of entries; an entry has a path (a sequence of *)
(* names, normalize_path done), a type and, for a file, whether it has     *)
(* bytes.  The header arithmetic decides only whether an entry is well     *)
(* formed, which is part of the entry.  Memory is a number of allocations  *)
(* that still succeed, so that any of them may be the one that fails.      *)
(***************************************************************************)
EXTENDS Naturals, Sequences, FiniteSets

CONSTANTS
  Archives,      \* the archives to load
  MaxDentries,   \* bound: dentries of a behaviour
  MaxMemory      \* allocations at most

Dentry == 1 .. MaxDentries
Root == 1

VARIABLES
  archive,       \* the one loaded
  at,            \* index of the entry being read
  count,         \* entries loaded
  pc,            \* "entry", "walk", "make", "create", "drop", "done", "panic"
  current,       \* the dentry held while resolving the parent, 0 if none
  depth,         \* names of the parent's path resolved so far
  dentries,      \* the dentries in use: a function from identities to records
  memory,        \* allocations left
  total          \* history: allocations there were at the start

vars == << archive, at, count, pc, current, depth, dentries, memory, total >>

\* A dentry with its inode; entry is the archive's entry it came from (0 for the
\* root and for intermediate directories), child its children, newest first.
NewDentry(name, type, bytes, entry) ==
  [name |-> name, type |-> type, bytes |-> bytes, entry |-> entry, ref_count |-> 1,
   child |-> << >>]

\* ramfs::init and vfs::mount: the root directory.
Init ==
  /\ archive \in Archives
  /\ at = 1 /\ count = 0 /\ pc = "entry" /\ current = 0 /\ depth = 0
  /\ dentries = [d \in {Root} |-> NewDentry("/", "dir", FALSE, 0)]
  /\ memory \in 0 .. MaxMemory /\ total = memory

Entry == archive[at]
Path == Entry.path
Parent == SubSeq(Path, 1, Len(Path) - 1)

-----------------------------------------------------------------------------
(* Dentries.                                                               *)

\* d_lookup: the first child of that name, 0 if none.
d_lookup(fs, d, name) ==
  LET found == { i \in DOMAIN fs[d].child : fs[fs[d].child[i]].name = name }
  IN  IF found = {} THEN 0
      ELSE fs[d].child[CHOOSE i \in found : \A j \in found : i <= j]

dget(fs, d) == [fs EXCEPT ![d].ref_count = @ + 1]
dput(fs, d) == [fs EXCEPT ![d].ref_count = @ - 1]

\* Mutant: a new dentry goes to the end of the list.
MutAppends(fs, d, parent, new) ==
  [e \in DOMAIN fs \cup {d} |->
     IF e = d THEN new
     ELSE IF e = parent THEN [fs[e] EXCEPT !.child = @ \o << d >>] ELSE fs[e]]

\* d_alloc links the new dentry d at the head of its parent's list.
d_alloc(fs, d, parent, new) ==
  [e \in DOMAIN fs \cup {d} |->
     IF e = d THEN new
     ELSE IF e = parent THEN [fs[e] EXCEPT !.child = << d >> \o @] ELSE fs[e]]

Fresh == CHOOSE d \in Dentry \ DOMAIN dentries : \A e \in Dentry \ DOMAIN dentries : d <= e

\* The allocations a new entry takes, in order.
Stages(bytes) ==
  IF bytes THEN << "inode", "priv", "buffer", "dentry" >> ELSE << "inode", "priv", "dentry" >>

Cost(bytes) == Len(Stages(bytes))

\* Mutant: the file's bytes stay allocated when there is no dentry for it.
MutLosesBuffer(failed, bytes) ==
  CASE failed = "inode" -> {}
    [] failed = "priv" -> {"inode"}
    [] failed \in {"buffer", "dentry"} -> {"priv", "inode"}

\* What the error path of alloc_inode, create_file or create_dir frees.
Unwind(failed, bytes) ==
  CASE failed = "inode" -> {}
    [] failed = "priv" -> {"inode"}
    [] failed = "buffer" -> {"priv", "inode"}
    [] failed = "dentry" -> (IF bytes THEN {"buffer"} ELSE {}) \cup {"priv", "inode"}

\* create_dir and create_file succeed: the parent is a directory and every
\* allocation is met.
Creates(parent, bytes) == dentries[parent].type = "dir" /\ memory >= Cost(bytes)

create(parent, name, type, bytes, entry) ==
  /\ dentries' = d_alloc(dentries, Fresh, parent, NewDentry(name, type, bytes, entry))
  /\ memory' = memory - Cost(bytes)

\* They fail: at once below a file, else with all that is left
\* allocated, and then freed as far as the error path does.
create_fails(parent, bytes) ==
  memory' = IF dentries[parent].type # "dir" THEN memory
            ELSE Cardinality(Unwind(Stages(bytes)[memory + 1], bytes))

-----------------------------------------------------------------------------
(* initramfs_load.                                                         *)

NextEntry == pc' = "entry" /\ at' = at + 1 /\ current' = 0 /\ depth' = 0

\* The header.  A malformed one ends the load with an error, which kernel_main turns
\* into a panic; the trailer or the end of the archive ends it well.  An entry for
\* the root itself is passed over.
ReadHeader ==
  /\ pc = "entry"
  /\ \/ /\ at > Len(archive)
        /\ pc' = "done"
        /\ UNCHANGED << at, current, depth, dentries >>
     \/ /\ at <= Len(archive) /\ Entry.type = "bad"
        /\ pc' = "panic"
        /\ UNCHANGED << at, current, depth, dentries >>
     \/ /\ at <= Len(archive) /\ Entry.type # "bad" /\ Path = << >>
        /\ NextEntry
        /\ UNCHANGED dentries
     \/ /\ at <= Len(archive) /\ Entry.type # "bad" /\ Path # << >>
        /\ pc' = "walk" /\ current' = Root /\ depth' = 0
        /\ dentries' = dget(dentries, Root)
        /\ UNCHANGED at
  /\ UNCHANGED << archive, count, memory, total >>

\* The walk ends in an error: ensure_parent_dir starts again from the root.
FromRoot ==
  /\ pc' = "make" /\ current' = Root /\ depth' = 0
  /\ dentries' = dget(dput(dentries, current), Root)

Descend(next, to) ==
  /\ dentries' = dput(dget(dentries, next), current)
  /\ current' = next
  /\ depth' = depth + 1
  /\ pc' = to

\* path_walk over the parent's path, one name per step.  A missing name costs a
\* dentry that is freed again at once, and fails whether or not there is one.
path_walk ==
  /\ pc = "walk"
  /\ IF depth = Len(Parent)
     THEN pc' = "create" /\ UNCHANGED << current, depth, dentries >>
     ELSE LET next == d_lookup(dentries, current, Parent[depth + 1])
          IN  IF dentries[current].type # "dir" \/ next = 0
              THEN FromRoot ELSE Descend(next, "walk")
  /\ UNCHANGED << archive, at, count, memory, total >>

\* The loop of ensure_parent_dir: names that are there are followed, whatever they
\* are, others are made; when that fails the entry is skipped.
ensure_parent_dir ==
  /\ pc = "make"
  /\ IF depth = Len(Parent)
     THEN pc' = "create" /\ UNCHANGED << at, current, depth, dentries, memory >>
     ELSE LET name == Parent[depth + 1]
              next == d_lookup(dentries, current, name)
          IN  IF next # 0
              THEN Descend(next, "make") /\ UNCHANGED << at, memory >>
              ELSE IF Creates(current, FALSE)
              THEN /\ create(current, name, "dir", FALSE, 0)
                   /\ UNCHANGED << at, pc, current, depth >>
              ELSE /\ NextEntry
                   /\ create_fails(current, FALSE)
                   /\ dentries' = dput(dentries, current)
  /\ UNCHANGED << archive, count, total >>

\* The entry itself; links and devices are skipped.  Then the parent is let go.
CreateEntry ==
  /\ pc = "create"
  /\ pc' = "drop"
  /\ LET bytes == Entry.type = "file" /\ Entry.bytes
     IN  \/ /\ Entry.type \notin {"dir", "file"}
            /\ UNCHANGED << count, dentries, memory >>
         \/ /\ Entry.type \in {"dir", "file"} /\ Creates(current, bytes)
            /\ create(current, Path[Len(Path)], Entry.type, bytes, at)
            /\ count' = count + 1
         \/ /\ Entry.type \in {"dir", "file"} /\ ~Creates(current, bytes)
            /\ create_fails(current, bytes)
            /\ UNCHANGED << count, dentries >>
  /\ UNCHANGED << archive, at, current, depth, total >>

DropParent ==
  /\ pc = "drop"
  /\ NextEntry
  /\ dentries' = dput(dentries, current)
  /\ UNCHANGED << archive, count, memory, total >>

Stopped == pc \in {"done", "panic"} /\ UNCHANGED vars

Next == ReadHeader \/ path_walk \/ ensure_parent_dir \/ CreateEntry \/ DropParent \/ Stopped

Spec == Init /\ [][Next]_vars

-----------------------------------------------------------------------------
(* Properties.                                                             *)

Links(d) == { <<e, i>> \in (DOMAIN dentries) \X (1 .. MaxDentries) :
                i \in DOMAIN dentries[e].child /\ dentries[e].child[i] = d }

\* The dentries form a tree under the root: every other one is in exactly one list,
\* and only directories have children.
TreeOK ==
  /\ DOMAIN dentries \subseteq Dentry
  /\ \A d \in DOMAIN dentries :
       /\ Cardinality(Links(d)) = (IF d = Root THEN 0 ELSE 1)
       /\ dentries[d].child # << >> => dentries[d].type = "dir"
  /\ current # 0 => current \in DOMAIN dentries

\* References are balanced on every path through an entry, failed allocations and
\* files where directories should be included: apart from the one dentry in hand
\* every dentry has the single reference of its list, and every allocation left is
\* either free or in the tree.
NothingPinned ==
  LET cost(d) == IF d = Root THEN 0 ELSE Cost(dentries[d].bytes)
      spent[n \in 0 .. MaxDentries] ==
        IF n = 0 THEN 0 ELSE spent[n - 1] + (IF n \in DOMAIN dentries THEN cost(n) ELSE 0)
  IN  /\ \A d \in DOMAIN dentries :
           dentries[d].ref_count = IF d = current THEN 2 ELSE 1
      /\ memory + spent[MaxDentries] = total

\* Every entry, loaded or refused half way, leaves a tree of dentries with exact
\* counts and no allocation outside it.
TreeIntact == TreeOK /\ NothingPinned

\* path_walk from the root, 0 when a name is missing.
Resolve(path) ==
  LET walk[n \in 0 .. Len(path)] ==
        IF n = 0 THEN Root
        ELSE IF walk[n - 1] = 0 THEN 0 ELSE d_lookup(dentries, walk[n - 1], path[n])
  IN  walk[Len(path)]

Loaded == { dentries[d].entry : d \in DOMAIN dentries } \ {0}

IsPrefixOf(p, q) == Len(p) <= Len(q) /\ SubSeq(q, 1, Len(p)) = p

\* What an archive means: after any number of entries, an entry that was loaded is
\* found under its path unless a later one has the same path or that of a directory
\* above it, which it then hides together with everything below.
LastEntryWins ==
  pc \in {"entry", "done"} =>
    /\ count = Cardinality(Loaded)
    /\ \A e \in Loaded :
         LET found == Resolve(archive[e].path)
             hidden == \E later \in Loaded :
                         later > e /\ IsPrefixOf(archive[later].path, archive[e].path)
         IN  (found # 0 /\ dentries[found].entry = e) <=> ~hidden
=============================================================================
