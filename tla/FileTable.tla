------------------------------ MODULE FileTable ------------------------------
(***************************************************************************)
(* Lifetimes of the objects behind a file descriptor: the descriptor table *)
(* (proc/syscall.cpp, proc/syscall_fs.cpp), the File objects and the       *)
(* dentries of the mounted tree (fs/vfs.cpp, fs/ramfs.cpp).                *)
(*                                                                         *)
(* A system call runs with interrupts off (SYSCALL_FMASK clears IF) and    *)
(* only the boot CPU ever enters user mode, so one call is in progress at  *)
(* a time.  A call that walks a path is a sequence of steps recorded in    *)
(* the variable call, one step per turn of the loop of path_walk; the      *)
(* others are one step.  A call that returns an error before it has        *)
(* changed anything is a stuttering step and has no action.                *)
(*                                                                         *)
(* File contents and offsets are left out: no count depends on them.  The  *)
(* tree is fixed once the kernel has loaded its archives (ramfs has no     *)
(* create operation), so its shape is a constant; names are abstract and a *)
(* path buffer holds MAX_PATH of them.                                     *)
(***************************************************************************)
EXTENDS Integers, Sequences, FiniteSets

CONSTANTS
  Dentry,          \* the dentries of the mounted tree
  Root,            \* the mount point "/"
  Parent,          \* Dentry::parent, for every dentry but Root
  Name,            \* Dentry::name
  Directory,       \* the dentries whose inode is a FileType::Directory
  PathOf,          \* the names from Root to a dentry
  File,            \* addresses slab::alloc may return for a File
  MAX_OPEN_FILES,  \* size of open_files
  MAX_PATH,        \* how many names a 256-byte path buffer holds
  FdArg,           \* descriptor numbers user code passes
  UserPath,        \* paths user code passes: absolute?, leading names, last name
  NoFile,          \* a null File*
  NoDentry         \* a null Dentry*

FD == 0 .. MAX_OPEN_FILES - 1

\* What a path buffer ends in when it was left without its terminator.
Garbage == "?"

\* "." and ".." are walked, never looked up; "" stands after a trailing slash.
Names == {Garbage} \cup { Name[d] : d \in Dentry } \cup { p.last : p \in UserPath }
           \cup UNION { { p.dir[i] : i \in DOMAIN p.dir } : p \in UserPath }

ASSUME BoundsAssumption ==
  /\ MAX_OPEN_FILES \in Nat /\ MAX_OPEN_FILES > 3
  /\ MAX_PATH \in Nat /\ MAX_PATH > 0
  /\ FdArg \subseteq Nat
  /\ IsFiniteSet(File)
  /\ NoFile \notin File
  /\ NoDentry \notin Dentry

\* The tree vfs::mount and initramfs_load leave behind.  Its paths may be one
\* name longer than MAX_PATH: the archive's names carry no leading slash.
ASSUME TreeAssumption ==
  /\ Root \in Directory /\ Directory \subseteq Dentry
  /\ Parent \in [Dentry \ {Root} -> Dentry]
  /\ DOMAIN Name = Dentry
  /\ \A d \in Dentry : Name[d] \notin {".", "..", ""}
  /\ PathOf \in [Dentry -> Seq(Names)]
  /\ PathOf[Root] = << >>
  /\ \A d \in Dentry \ {Root} : PathOf[d] = Append(PathOf[Parent[d]], Name[d])

ASSUME PathAssumption ==
  \A p \in UserPath : /\ p.abs \in BOOLEAN
                      /\ p.dir \in Seq(Names)
                      /\ \A i \in DOMAIN p.dir : p.dir[i] # ""

VARIABLES
  ref,                \* Dentry::ref_count
  neg,                \* names of the inode-less dentries linked under a directory
  fdent,              \* File::dentry, NoDentry when the address is free
  fref,               \* File::ref_count
  open_files,         \* the descriptor table
  fd_flags,           \* FD_CLOEXEC of each descriptor
  current_directory,  \* the working directory, as a path
  call                \* the system call in progress

vars == << ref, neg, fdent, fref, open_files, fd_flags, current_directory, call >>
tableVars == << fdent, fref, open_files, fd_flags >>

Ops == {"open", "chdir", "probe", "exec", "exit"}
Pcs == {"idle", "walk", "lookup", "loaded", "prepared", "closing", "exited"}

\* What a call keeps on its stack: the operation, where it stands, the dentry
\* path_walk holds, the names still to walk, the last name of the path, the
\* descriptor it will fill or is looking at, and the File load_image reads.
Call == [op : Ops, pc : Pcs, cur : Dentry \cup {NoDentry}, todo : Seq(Names),
         last : Names \cup {""}, fd : 0 .. MAX_OPEN_FILES, file : File \cup {NoFile}]

Idle == [op |-> "probe", pc |-> "idle", cur |-> NoDentry, todo |-> << >>,
         last |-> "", fd |-> 0, file |-> NoFile]

Init ==
  /\ ref = [d \in Dentry |-> 1]
  /\ neg = [d \in Dentry |-> {}]
  /\ fdent = [f \in File |-> NoDentry]
  /\ fref = [f \in File |-> 0]
  /\ open_files = [fd \in FD |-> NoFile]
  /\ fd_flags = [fd \in FD |-> FALSE]
  /\ current_directory = << >>
  /\ call = Idle
-----------------------------------------------------------------------------
(* Reference counts.                                                       *)

dget(r, d) == [r EXCEPT ![d] = @ + 1]

\* At zero dput would unlink the dentry and drop its inode; DentryRefs says that
\* a dentry of the tree never gets there.
dput(r, d) == [r EXCEPT ![d] = @ - 1]

\* vfs::close: the last reference gives up the dentry and frees the File.
close(f) ==
  /\ fref' = [fref EXCEPT ![f] = @ - 1]
  /\ fdent' = IF fref[f] = 1 THEN [fdent EXCEPT ![f] = NoDentry] ELSE fdent
  /\ ref' = IF fref[f] = 1 THEN dput(ref, fdent[f]) ELSE ref

\* An inode-less dentry stands at the head of its list and would hide the rest.
d_lookup(p, n) ==
  IF \E c \in Dentry \ {Root} : Parent[c] = p /\ Name[c] = n
  THEN CHOOSE c \in Dentry \ {Root} : Parent[c] = p /\ Name[c] = n
  ELSE NoDentry

-----------------------------------------------------------------------------
(* Path names handed in by user code.                                      *)

AT_FDCWD == -100

dentry_path_fits(d) == Len(PathOf[d]) <= MAX_PATH

\* A path that does not fit is written as far as it goes and not terminated:
\* bytes of the path the buffer held before follow.
dentry_path(d) ==
  IF dentry_path_fits(d) THEN PathOf[d] ELSE Append(SubSeq(PathOf[d], 1, MAX_PATH), Garbage)

IsOpen(fd) == fd \in FD /\ open_files[fd] # NoFile

\* Mutant: the joined path is not measured against the buffer.
MutResolveUnbounded(dirfd, p, base) ==
  \/ p.abs /\ base = << >>
  \/ ~p.abs /\ dirfd = AT_FDCWD /\ base = current_directory
  \/ /\ ~p.abs /\ dirfd # AT_FDCWD /\ IsOpen(dirfd)
     /\ fdent[open_files[dirfd]] \in Directory
     /\ base = dentry_path(fdent[open_files[dirfd]])

\* The absolute path of p is base followed by p's own names.
resolve_user_path(dirfd, p, base) ==
  /\ \/ p.abs /\ base = << >>
     \/ ~p.abs /\ dirfd = AT_FDCWD /\ base = current_directory
     \/ /\ ~p.abs /\ dirfd # AT_FDCWD /\ IsOpen(dirfd)
        /\ fdent[open_files[dirfd]] \in Directory
        /\ dentry_path_fits(fdent[open_files[dirfd]])
        /\ base = dentry_path(fdent[open_files[dirfd]])
  /\ Len(base) + Len(p.dir) + 1 <= MAX_PATH

Bases(dirfd) ==
  { << >>, current_directory }
    \cup { dentry_path(fdent[open_files[fd]]) : fd \in { x \in {dirfd} : IsOpen(x) } }

\* path_walk skips empty names.
WholePath(base, p) ==
  base \o p.dir \o (IF p.last = "" THEN << >> ELSE << p.last >>)

\* path_walk takes its first reference, on the root.
StartWalk(c) ==
  /\ call.pc = "idle"
  /\ call' = [c EXCEPT !.pc = "walk", !.cur = Root]
  /\ ref' = dget(ref, Root)
  /\ UNCHANGED << neg, tableVars, current_directory >>

-----------------------------------------------------------------------------
(* System calls that walk a path.                                          *)

\* The lowest free descriptor, from 3 up.  The flags argument is chosen where it
\* is first looked at, in OpenFails and OpenDone.
sys_openat(dirfd, p) ==
  \E fd \in 3 .. MAX_OPEN_FILES - 1, base \in Bases(dirfd) :
    /\ open_files[fd] = NoFile
    /\ \A lower \in 3 .. fd - 1 : open_files[lower] # NoFile
    /\ resolve_user_path(dirfd, p, base)
    /\ StartWalk([Idle EXCEPT !.op = "open", !.todo = base \o p.dir,
                              !.last = p.last, !.fd = fd])

sys_chdir(p) ==
  \E base \in Bases(AT_FDCWD) :
    /\ resolve_user_path(AT_FDCWD, p, base)
    /\ StartWalk([Idle EXCEPT !.op = "chdir", !.todo = WholePath(base, p)])

\* sys_accessat, sys_stat, sys_newfstatat: they look and give the dentry back.
sys_stat_path(dirfd, p) ==
  \E base \in Bases(dirfd) :
    /\ resolve_user_path(dirfd, p, base)
    /\ StartWalk([Idle EXCEPT !.op = "probe", !.todo = WholePath(base, p)])

\* execve does not consult the working directory.
sys_execve(p) ==
  /\ p.abs /\ Len(p.dir) + 1 <= MAX_PATH
  /\ StartWalk([Idle EXCEPT !.op = "exec", !.todo = p.dir, !.last = p.last])

-----------------------------------------------------------------------------
(* The loop of path_walk.                                                  *)

Walking == call.pc = "walk" /\ call.todo # << >>

\* Every error return of path_walk gives current back.
WalkFails ==
  /\ ref' = dput(ref, call.cur)
  /\ call' = Idle
  /\ UNCHANGED << tableVars, current_directory >>

WalkTo(d, r) ==
  /\ ref' = r
  /\ call' = [call EXCEPT !.cur = d, !.todo = Tail(@)]
  /\ UNCHANGED << neg, tableVars, current_directory >>

WalkDot == Walking /\ Head(call.todo) = "." /\ WalkTo(call.cur, ref)

\* Mutant: ".." at the root does not move on to the next name.
MutDotDotStuck ==
  /\ Walking /\ Head(call.todo) = ".."
  /\ IF call.cur = Root
     THEN UNCHANGED vars
     ELSE WalkTo(Parent[call.cur], dput(dget(ref, Parent[call.cur]), call.cur))

WalkDotDot ==
  /\ Walking /\ Head(call.todo) = ".."
  /\ IF call.cur = Root
     THEN WalkTo(Root, ref)
     ELSE WalkTo(Parent[call.cur], dput(dget(ref, Parent[call.cur]), call.cur))

WalkNotDir ==
  /\ Walking /\ Head(call.todo) \notin {".", ".."}
  /\ call.cur \notin Directory
  /\ WalkFails /\ UNCHANGED neg

\* Mutant: the directory walked through is not given back.
MutHitLeaks ==
  /\ Walking /\ Head(call.todo) \notin {".", ".."}
  /\ call.cur \in Directory /\ Head(call.todo) \notin neg[call.cur]
  /\ d_lookup(call.cur, Head(call.todo)) # NoDentry
  /\ LET next == d_lookup(call.cur, Head(call.todo)) IN WalkTo(next, dget(ref, next))

WalkHit ==
  /\ Walking /\ Head(call.todo) \notin {".", ".."}
  /\ call.cur \in Directory /\ Head(call.todo) \notin neg[call.cur]
  /\ d_lookup(call.cur, Head(call.todo)) # NoDentry
  /\ LET next == d_lookup(call.cur, Head(call.todo))
     IN  WalkTo(next, dput(dget(ref, next), call.cur))

\* d_alloc links an inode-less dentry under current and asks the file system.
WalkMiss ==
  /\ Walking /\ Head(call.todo) \notin {".", ".."}
  /\ call.cur \in Directory
  /\ d_lookup(call.cur, Head(call.todo)) = NoDentry
  /\ neg' = [neg EXCEPT ![call.cur] = @ \cup {Head(call.todo)}]
  /\ call' = [call EXCEPT !.pc = "lookup"]
  /\ UNCHANGED << ref, tableVars, current_directory >>

\* slab::alloc has no memory for it.
WalkNoMemory ==
  /\ Walking /\ Head(call.todo) \notin {".", ".."}
  /\ call.cur \in Directory
  /\ d_lookup(call.cur, Head(call.todo)) = NoDentry
  /\ WalkFails /\ UNCHANGED neg

\* ramfs_lookup searches the list d_lookup has just searched and finds nothing:
\* the temporary dentry is dropped, which unlinks it, and so is current.
LookupMiss ==
  /\ call.pc = "lookup"
  /\ neg' = [neg EXCEPT ![call.cur] = @ \ {Head(call.todo)}]
  /\ WalkFails

-----------------------------------------------------------------------------
(* What the callers of path_walk do with the dentry they were given.       *)

Walked(op) == call.pc = "walk" /\ call.todo = << >> /\ call.op = op

\* sys_chdir writes the path of a directory and drops the dentry.
ChdirDone ==
  /\ Walked("chdir")
  /\ current_directory' = IF call.cur \in Directory THEN dentry_path(call.cur)
                          ELSE current_directory
  /\ ref' = dput(ref, call.cur)
  /\ call' = Idle
  /\ UNCHANGED << neg, tableVars >>

ProbeDone == Walked("probe") /\ WalkFails /\ UNCHANGED neg

Target == d_lookup(call.cur, call.last)

\* vfs::open refuses: no such name (with O_CREAT, no create operation), O_EXCL
\* on an existing one, or no memory for a File.
OpenFails ==
  /\ Walked("open") \/ Walked("exec")
  /\ WalkFails /\ UNCHANGED neg

\* vfs::open's File, allocated at f, holds the target in the parent's place.
NewFile(f) ==
  /\ Target # NoDentry
  /\ fdent[f] = NoDentry
  /\ fdent' = [fdent EXCEPT ![f] = Target]
  /\ fref' = [fref EXCEPT ![f] = 1]
  /\ ref' = dput(dget(ref, Target), call.cur)

OpenDone(f, cloexec) ==
  /\ Walked("open")
  /\ NewFile(f)
  /\ open_files' = [open_files EXCEPT ![call.fd] = f]
  /\ fd_flags' = [fd_flags EXCEPT ![call.fd] = cloexec]
  /\ call' = Idle
  /\ UNCHANGED << neg, current_directory >>

\* load_image holds its File in a local variable only.
ExecOpened(f) ==
  /\ Walked("exec")
  /\ NewFile(f)
  /\ call' = [call EXCEPT !.pc = "loaded", !.cur = NoDentry, !.file = f]
  /\ UNCHANGED << neg, open_files, fd_flags, current_directory >>

\* Read or refused, the file is closed before the image is looked at.
ExecClosed ==
  /\ call.pc = "loaded"
  /\ close(call.file)
  /\ call' = [call EXCEPT !.pc = "prepared", !.file = NoFile]
  /\ UNCHANGED << neg, open_files, fd_flags, current_directory >>

\* The image is refused: the caller goes on as before.
ExecFails ==
  /\ call.pc = "prepared"
  /\ call' = Idle
  /\ UNCHANGED << ref, neg, tableVars, current_directory >>

\* Mutant: the descriptors are visited from 4 up.
MutExecSkipsFirst ==
  /\ call.pc = "prepared"
  /\ call' = [call EXCEPT !.pc = "closing", !.fd = 4]
  /\ UNCHANGED << ref, neg, tableVars, current_directory >>

\* The image is activated; the descriptors are visited from 3 up.
ExecActivated ==
  /\ call.pc = "prepared"
  /\ call' = [call EXCEPT !.pc = "closing", !.fd = 3]
  /\ UNCHANGED << ref, neg, tableVars, current_directory >>

sys_exit ==
  /\ call.pc = "idle"
  /\ call' = [Idle EXCEPT !.op = "exit", !.pc = "closing", !.fd = 3]
  /\ UNCHANGED << ref, neg, tableVars, current_directory >>

\* Mutant: sys_exit closes what execve would.
MutCloseMarked(fd) == open_files[fd] # NoFile /\ fd_flags[fd]

\* sys_execve closes a descriptor marked FD_CLOEXEC, sys_exit every one.
MustClose(fd) ==
  open_files[fd] # NoFile /\ (call.op = "exit" \/ fd_flags[fd])

CloseLoop ==
  /\ call.pc = "closing" /\ call.fd < MAX_OPEN_FILES
  /\ IF MustClose(call.fd)
     THEN /\ close(open_files[call.fd])
          /\ open_files' = [open_files EXCEPT ![call.fd] = NoFile]
          /\ fd_flags' = [fd_flags EXCEPT ![call.fd] = FALSE]
     ELSE UNCHANGED << ref, tableVars >>
  /\ call' = [call EXCEPT !.fd = @ + 1]
  /\ UNCHANGED << neg, current_directory >>

\* execve returns into the new image; exit halts the CPU for good.
CloseLoopEnds ==
  /\ call.pc = "closing" /\ call.fd = MAX_OPEN_FILES
  /\ call' = IF call.op = "exit" THEN [call EXCEPT !.pc = "exited"] ELSE Idle
  /\ UNCHANGED << ref, neg, tableVars, current_directory >>

Halted == call.pc = "exited" /\ UNCHANGED vars

-----------------------------------------------------------------------------
(* System calls on descriptors.                                            *)

\* Mutant: the descriptor's flag survives it.
MutCloseKeepsFlag(fd) ==
  /\ call.pc = "idle"
  /\ fd >= 3 /\ IsOpen(fd)
  /\ close(open_files[fd])
  /\ open_files' = [open_files EXCEPT ![fd] = NoFile]
  /\ UNCHANGED << neg, fd_flags, current_directory, call >>

sys_close(fd) ==
  /\ call.pc = "idle"
  /\ fd >= 3 /\ IsOpen(fd)
  /\ close(open_files[fd])
  /\ open_files' = [open_files EXCEPT ![fd] = NoFile]
  /\ fd_flags' = [fd_flags EXCEPT ![fd] = FALSE]
  /\ UNCHANGED << neg, current_directory, call >>

\* The common part of the dup family, for a target other than the source: the
\* target is closed, then the pointer copied, then the reference counted.
CopyFd(old, new, cloexec) ==
  LET f == open_files[old]
      g == open_files[new]
      closed == IF g = NoFile THEN fref ELSE [fref EXCEPT ![g] = @ - 1]
      gone == g # NoFile /\ closed[g] = 0
  IN  /\ fref' = [closed EXCEPT ![f] = @ + 1]
      /\ fdent' = IF gone THEN [fdent EXCEPT ![g] = NoDentry] ELSE fdent
      /\ ref' = IF gone THEN dput(ref, fdent[g]) ELSE ref
      /\ open_files' = [open_files EXCEPT ![new] = f]
      /\ fd_flags' = [fd_flags EXCEPT ![new] = cloexec]
      /\ UNCHANGED << neg, current_directory, call >>

\* dup2, dup3: any descriptor may be the target, 0 to 2 included.
dup_exact(old, new, cloexec) ==
  /\ call.pc = "idle"
  /\ IsOpen(old) /\ new \in FD /\ old # new
  /\ CopyFd(old, new, cloexec)

\* dup, F_DUPFD, F_DUPFD_CLOEXEC: the lowest free descriptor from minimum up.
dup_lowest(old, minimum, cloexec) ==
  /\ call.pc = "idle"
  /\ IsOpen(old)
  /\ \E new \in FD :
       /\ new >= minimum /\ open_files[new] = NoFile
       /\ \A lower \in FD : lower >= minimum /\ lower < new => open_files[lower] # NoFile
       /\ CopyFd(old, new, cloexec)

\* F_SETFD
sys_fcntl_setfd(fd, cloexec) ==
  /\ call.pc = "idle"
  /\ IsOpen(fd)
  /\ fd_flags' = [fd_flags EXCEPT ![fd] = cloexec]
  /\ UNCHANGED << ref, neg, fdent, fref, open_files, current_directory, call >>

sys_fchdir(fd) ==
  /\ call.pc = "idle"
  /\ IsOpen(fd) /\ fdent[open_files[fd]] \in Directory
  /\ current_directory' = dentry_path(fdent[open_files[fd]])
  /\ UNCHANGED << ref, neg, tableVars, call >>

-----------------------------------------------------------------------------
PathCalls ==
  /\ call.pc = "idle"
  /\ \E p \in UserPath :
       \/ \E dirfd \in FdArg \cup {AT_FDCWD} : sys_openat(dirfd, p) \/ sys_stat_path(dirfd, p)
       \/ sys_chdir(p)
       \/ sys_execve(p)

FdCalls ==
  /\ call.pc = "idle"
  /\ \E fd \in FdArg :
       \/ sys_close(fd)
       \/ sys_fchdir(fd)
       \/ \E c \in BOOLEAN :
            \/ sys_fcntl_setfd(fd, c)
            \/ \E new \in FdArg : dup_exact(fd, new, c) \/ dup_lowest(fd, new, c)

\* The steps the kernel takes on its own once a call has begun.
KernelStep ==
  \/ WalkDot \/ WalkDotDot \/ WalkNotDir \/ WalkHit
  \/ WalkMiss \/ WalkNoMemory \/ LookupMiss
  \/ ChdirDone \/ ProbeDone
  \/ OpenFails \/ \E f \in File, c \in BOOLEAN : OpenDone(f, c)
  \/ \E f \in File : ExecOpened(f)
  \/ ExecClosed \/ ExecFails \/ ExecActivated
  \/ CloseLoop \/ CloseLoopEnds

Next == PathCalls \/ FdCalls \/ sys_exit \/ KernelStep \/ Halted

Spec == Init /\ [][Next]_vars

\* A call in progress runs to its end: nothing preempts it.
FairSpec == Spec /\ WF_vars(KernelStep)

-----------------------------------------------------------------------------
(* Properties.                                                             *)

\* The variables keep their types: descriptors hold Files, Files dentries, and a
\* system call in progress is at one of its steps.
TypeOK ==
  /\ ref \in [Dentry -> Int]
  /\ neg \in [Dentry -> SUBSET Names]
  /\ fdent \in [File -> Dentry \cup {NoDentry}]
  /\ fref \in [File -> Int]
  /\ open_files \in [FD -> File \cup {NoFile}]
  /\ fd_flags \in [FD -> BOOLEAN]
  /\ current_directory \in Seq(Names)
  /\ call \in Call

FdsOf(f) == { fd \in FD : open_files[fd] = f }
FilesOf(d) == { f \in File : fdent[f] = d }

\* A File counts exactly the descriptors that hold it, and the execve that is
\* reading it; it is freed exactly when none is left.  So vfs::close never
\* frees a File some descriptor still uses, and no File outlives its last one,
\* whatever the order of opens, dups onto open descriptors, closes and execs.
FileRefs ==
  \A f \in File :
    /\ fref[f] = Cardinality(FdsOf(f)) + (IF call.file = f THEN 1 ELSE 0)
    /\ fref[f] = 0 <=> fdent[f] = NoDentry

\* A dentry counts the tree itself, the Files open on it and the path walk that
\* stands on it.  Every exit of path_walk, open and close gives back what it
\* took, and the count never reaches zero, where iput would call through the
\* null s_ops of ramfs.
DentryRefs ==
  \A d \in Dentry :
    ref[d] = 1 + Cardinality(FilesOf(d)) + (IF call.cur = d THEN 1 ELSE 0)

\* The inode-less dentry path_walk links on a miss is gone before the call
\* returns: d_lookup, fill_stat and ramfs_readdir never meet one.
NegativeTransient ==
  \A d \in Dentry : neg[d] # {} =>
    call.pc = "lookup" /\ d = call.cur /\ neg[d] = {Head(call.todo)}

\* The counts are exact between any two steps of any call: a File's and a dentry's
\* say who holds them, and a path walk that misses leaves no dentry behind.
RefsExact == FileRefs /\ DentryRefs /\ NegativeTransient

\* current_directory always spells the path of a directory: a chdir or fchdir
\* never leaves it half written, because no dentry that a path buffer can reach
\* has a path longer than the buffer.
CwdIsDirectory == \E d \in Directory : current_directory = PathOf[d]

\* FD_CLOEXEC is set on open descriptors only, so a descriptor opened later does
\* not inherit the flag of the one that had its number.
NoStaleFlag == \A fd \in FD : fd_flags[fd] => open_files[fd] # NoFile

\* A successful execve returns with no descriptor from 3 up marked FD_CLOEXEC, and on
\* its way it changes no other; one that fails, at the path, at the file or at the
\* image, has changed none, because only the loop behind activate closes any.
CloseOnExec ==
  [][ call.op = "exec" /\ call.pc # "idle" =>
        /\ \A fd \in FD : \/ call.pc = "closing" /\ fd_flags[fd]
                          \/ open_files'[fd] = open_files[fd] /\ fd_flags'[fd] = fd_flags[fd]
        /\ call.pc = "closing" /\ call'.pc = "idle" => \A fd \in FD : fd >= 3 => ~fd_flags'[fd] ]_vars

\* After sys_exit the only Files left are the ones dup2 or F_DUPFD put at 0 to 2,
\* which neither close nor exit touches.
ExitReleases ==
  call.pc = "exited" => \A f \in File : fdent[f] # NoDentry =>
                          FdsOf(f) # {} /\ FdsOf(f) \subseteq 0 .. 2

\* Every system call comes to its end.
CallReturns == (call.pc # "idle") ~> (call.pc \in {"idle", "exited"})
=============================================================================
