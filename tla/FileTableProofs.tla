--------------------------- MODULE FileTableProofs ---------------------------
(***************************************************************************)
(* The reference counts, the working directory and the descriptor flags of *)
(* FileTable, for every tree, every set of paths, every table size and     *)
(* every number of File objects: the inductive invariant, the lemmas about *)
(* what the steps are made of (counting references, paths, the moves of a  *)
(* walk, Files that are opened, copied and closed), then one lemma for     *)
(* each kind of call.                                                      *)
(***************************************************************************)
EXTENDS FileTable, FiniteSetTheorems, TLAPS

-----------------------------------------------------------------------------
(* The inductive invariant.  FileRefs and DentryRefs speak of what the     *)
(* call in progress holds, so they need to know when it holds something;   *)
(* CwdIsDirectory needs to know that a walk cannot get deeper than the     *)
(* path it was given.                                                      *)

\* What the call in progress holds at each place.
CallShape ==
  /\ call.cur # NoDentry <=> call.pc \in {"walk", "lookup"}
  /\ call.file # NoFile <=> call.pc = "loaded"
  /\ call.pc = "lookup" => call.todo # << >>
  /\ call.pc = "exited" => call.op = "exit" /\ call.fd = MAX_OPEN_FILES

\* The descriptor a call has chosen, or has come to.
CallFd ==
  /\ call.pc \in {"walk", "lookup"} /\ call.op = "open" =>
       /\ call.fd \in 3 .. MAX_OPEN_FILES - 1
       /\ open_files[call.fd] = NoFile
  /\ call.pc \in {"closing", "exited"} =>
       /\ call.fd \in 3 .. MAX_OPEN_FILES
       /\ \A fd \in 3 .. call.fd - 1 :
            ~fd_flags[fd] /\ (call.op = "exit" => open_files[fd] = NoFile)

\* The names a walk may still add to the path of the dentry it stands on.
StillToCome(c) == Len(c.todo) + (IF c.op \in {"open", "exec"} THEN 1 ELSE 0)

\* No dentry a call or a File holds has a path longer than a path buffer.
Shallow ==
  /\ call.pc \in {"walk", "lookup"} => Len(PathOf[call.cur]) + StillToCome(call) <= MAX_PATH
  /\ \A f \in File : fdent[f] # NoDentry => Len(PathOf[fdent[f]]) <= MAX_PATH

IInv ==
  /\ TypeOK /\ CallShape /\ CallFd /\ Shallow
  /\ FileRefs /\ DentryRefs /\ NegativeTransient
  /\ CwdIsDirectory /\ NoStaleFlag

-----------------------------------------------------------------------------
(* Sequences.                                                              *)

\* The empty path.
LEMMA EmptyPath == \A S : << >> \in Seq(S)
OBVIOUS

\* Paths have a length.
LEMMA PathLength == \A S : \A s \in Seq(S) : Len(s) \in Nat
OBVIOUS

\* One path after another, the base of resolve_user_path before the caller's.
LEMMA PathsJoined ==
  \A S : \A s, t \in Seq(S) : s \o t \in Seq(S) /\ Len(s \o t) = Len(s) + Len(t)
OBVIOUS

\* A path with one more name.
LEMMA PathLonger ==
  \A S : \A s \in Seq(S), x \in S : Append(s, x) \in Seq(S) /\ Len(Append(s, x)) = Len(s) + 1
OBVIOUS

-----------------------------------------------------------------------------
(* Counting.                                                               *)

Holding(S, t, u) == { y \in S : t[y] = u }

\* Changing a function at one place moves one argument from the ones mapped to
\* the old value to the ones mapped to the new: a descriptor changes its File,
\* a File changes its dentry.
LEMMA CountUpdate ==
  ASSUME NEW S, IsFiniteSet(S), NEW t, NEW t2, NEW x \in S, NEW u,
         \A y \in S \ {x} : t2[y] = t[y]
  PROVE  Cardinality(Holding(S, t2, u)) = Cardinality(Holding(S, t, u))
              - (IF t[x] = u THEN 1 ELSE 0) + (IF t2[x] = u THEN 1 ELSE 0)
<1> DEFINE before == Holding(S, t, u)
           after == Holding(S, t2, u)
           rest == before \ {x}
<1>1. before \in SUBSET S /\ after \in SUBSET S /\ rest \in SUBSET S
  BY Zenon DEF Holding
<1>2. /\ x \in before <=> t[x] = u
      /\ rest = before \ {x}
      /\ x \notin rest
      /\ after = IF t2[x] = u THEN rest \cup {x} ELSE rest
  BY Zenon DEF Holding
<1> HIDE DEF before, after, rest
<1>3. IsFiniteSet(before) /\ IsFiniteSet(after) /\ IsFiniteSet(rest)
  BY <1>1, FS_Subset, Zenon
<1>4. Cardinality(before) \in Nat /\ Cardinality(after) \in Nat /\ Cardinality(rest) \in Nat
  BY <1>3, FS_CardinalityType, Zenon
<1>5. Cardinality(rest) = IF x \in before THEN Cardinality(before) - 1 ELSE Cardinality(before)
  BY <1>2, <1>3, FS_RemoveElement, Zenon
<1>6. Cardinality(rest \cup {x}) = Cardinality(rest) + 1
  BY <1>2, <1>3, FS_AddElement, Zenon
<1>7. Cardinality(after) = Cardinality(before)
           - (IF t[x] = u THEN 1 ELSE 0) + (IF t2[x] = u THEN 1 ELSE 0)
  BY <1>2, <1>4, <1>5, <1>6
<1> QED
  BY <1>7, Zenon DEF before, after

\* The descriptor table is finite.
LEMMA FDFinite == IsFiniteSet(FD)
  BY BoundsAssumption, FS_Interval DEF FD

\* There are finitely many File objects.
LEMMA FileFinite == IsFiniteSet(File)
  BY BoundsAssumption, Zenon

\* The same, for the descriptors of a File and the Files of a dentry.
LEMMA FdsOfUpdate ==
  ASSUME NEW x \in FD, NEW f, \A y \in FD \ {x} : open_files'[y] = open_files[y]
  PROVE  Cardinality(FdsOf(f)') = Cardinality(FdsOf(f))
              - (IF open_files[x] = f THEN 1 ELSE 0) + (IF open_files'[x] = f THEN 1 ELSE 0)
<1>1. FdsOf(f) = Holding(FD, open_files, f) /\ FdsOf(f)' = Holding(FD, open_files', f)
  BY Zenon DEF FdsOf, Holding
<1>2. Cardinality(Holding(FD, open_files', f)) = Cardinality(Holding(FD, open_files, f))
           - (IF open_files[x] = f THEN 1 ELSE 0) + (IF open_files'[x] = f THEN 1 ELSE 0)
  BY FDFinite, CountUpdate
<1> QED
  BY <1>1, <1>2, Zenon

\* One File that changes its dentry (vfs_open, the last vfs_close) moves one File.
LEMMA FilesOfUpdate ==
  ASSUME NEW x \in File, NEW d, \A y \in File \ {x} : fdent'[y] = fdent[y]
  PROVE  Cardinality(FilesOf(d)') = Cardinality(FilesOf(d))
              - (IF fdent[x] = d THEN 1 ELSE 0) + (IF fdent'[x] = d THEN 1 ELSE 0)
<1>1. FilesOf(d) = Holding(File, fdent, d) /\ FilesOf(d)' = Holding(File, fdent', d)
  BY Zenon DEF FilesOf, Holding
<1>2. Cardinality(Holding(File, fdent', d)) = Cardinality(Holding(File, fdent, d))
           - (IF fdent[x] = d THEN 1 ELSE 0) + (IF fdent'[x] = d THEN 1 ELSE 0)
  BY FileFinite, CountUpdate
<1> QED
  BY <1>1, <1>2, Zenon

\* The numbers of holders are natural numbers.
LEMMA CountsAreNat ==
  ASSUME NEW f, NEW d
  PROVE  Cardinality(FdsOf(f)) \in Nat /\ Cardinality(FilesOf(d)) \in Nat
<1>1. FdsOf(f) \in SUBSET FD /\ FilesOf(d) \in SUBSET File
  BY Zenon DEF FdsOf, FilesOf
<1> QED
  BY <1>1, FDFinite, FileFinite, FS_Subset, FS_CardinalityType, Zenon

-----------------------------------------------------------------------------
(* Paths.                                                                  *)

\* Taking the first name off a path, as path_walk does.
LEMMA TailFacts ==
  ASSUME NEW s \in Seq(Names), s # << >>
  PROVE  /\ Head(s) \in Names
         /\ Tail(s) \in Seq(Names)
         /\ Len(s) \in Nat
         /\ Len(Tail(s)) = Len(s) - 1
  OBVIOUS

\* The path of a child is one name longer than the path of its parent.
LEMMA PathDepth ==
  /\ \A d \in Dentry : Len(PathOf[d]) \in Nat
  /\ Len(PathOf[Root]) = 0
  /\ \A d \in Dentry \ {Root} :
       Parent[d] \in Dentry /\ Len(PathOf[d]) = Len(PathOf[Parent[d]]) + 1
<1>1. ASSUME NEW d \in Dentry \ {Root}
      PROVE  Parent[d] \in Dentry /\ Len(PathOf[d]) = Len(PathOf[Parent[d]]) + 1
  <2>1. Parent[d] \in Dentry /\ PathOf[d] = Append(PathOf[Parent[d]], Name[d])
    BY TreeAssumption, Zenon
  <2>2. PathOf[Parent[d]] \in Seq(Names) /\ Name[d] \in Names
    BY <2>1, TreeAssumption, Zenon DEF Names
  <2> QED
    BY <2>1, <2>2, PathLonger
<1>2. ASSUME NEW d \in Dentry
      PROVE  Len(PathOf[d]) \in Nat
  <2>1. PathOf[d] \in Seq(Names)
    BY TreeAssumption, Zenon
  <2> QED
    BY <2>1
<1>3. Len(PathOf[Root]) = 0
  <2>1. PathOf[Root] = << >>
    BY TreeAssumption, Zenon
  <2> QED
    BY <2>1
<1> QED
  BY <1>1, <1>2, <1>3, Zenon

\* What lookup returns is a child of the directory it was asked of.
LEMMA LookupFacts ==
  ASSUME NEW p, NEW n, d_lookup(p, n) # NoDentry
  PROVE  d_lookup(p, n) \in Dentry \ {Root} /\ Parent[d_lookup(p, n)] = p
  BY Zenon DEF d_lookup

\* A path that fits is copied whole.
LEMMA ShallowPath ==
  ASSUME NEW d \in Dentry, Len(PathOf[d]) <= MAX_PATH
  PROVE  dentry_path(d) = PathOf[d] /\ dentry_path(d) \in Seq(Names)
  BY TreeAssumption, Zenon DEF dentry_path, dentry_path_fits

-----------------------------------------------------------------------------
(* A path walk begins, moves and ends.                                     *)

\* The table as a whole stays as it is in most steps.
LEMMA SameTable ==
  ASSUME UNCHANGED tableVars
  PROVE  \A x : FdsOf(x)' = FdsOf(x) /\ FilesOf(x)' = FilesOf(x)
  BY Zenon DEF tableVars, FdsOf, FilesOf

\* The dentry a walk stands on is the one reference that moves.
LEMMA WalkRefs ==
  ASSUME DentryRefs, UNCHANGED tableVars,
         \A d \in Dentry : ref[d] \in Int /\
           ref'[d] = ref[d] - (IF call.cur = d THEN 1 ELSE 0) + (IF call'.cur = d THEN 1 ELSE 0)
  PROVE  DentryRefs'
<1> SUFFICES ASSUME NEW d \in Dentry
             PROVE  ref'[d] = 1 + Cardinality(FilesOf(d)') + (IF call'.cur = d THEN 1 ELSE 0)
  BY Zenon DEF DentryRefs
<1>1. Cardinality(FilesOf(d)') = Cardinality(FilesOf(d)) /\ Cardinality(FilesOf(d)) \in Nat
  BY SameTable, CountsAreNat, Zenon
<1>2. ref[d] = 1 + Cardinality(FilesOf(d)) + (IF call.cur = d THEN 1 ELSE 0)
  BY Zenon DEF DentryRefs
<1> QED
  BY <1>1, <1>2

\* A walk that leaves the table alone leaves the counts of Files alone.
LEMMA WalkFiles ==
  ASSUME FileRefs, UNCHANGED tableVars, call'.file = call.file
  PROVE  FileRefs'
  BY SameTable DEF FileRefs, tableVars

\* The root is a dentry, and the null pointers are not objects.
LEMMA ConstantFacts ==
  /\ Root \in Dentry /\ NoDentry \notin Dentry /\ NoFile \notin File
  /\ Directory \subseteq Dentry
  BY BoundsAssumption, TreeAssumption, Zenon

\* What is left of the path of a call is a sequence of names.
LEMMA CallTodo ==
  ASSUME NEW c \in Call
  PROVE  c.todo \in Seq(Names) /\ Len(c.todo) \in Nat /\ StillToCome(c) \in Nat
<1>1. c.todo \in Seq(Names)
  BY Zenon DEF Call
<1>2. Len(c.todo) \in Nat
  BY <1>1, PathLength, Zenon
<1>3. StillToCome(c) \in Nat
  <2>1. CASE c.op \in {"open", "exec"}
    BY <1>2, <2>1 DEF StillToCome
  <2>2. CASE c.op \notin {"open", "exec"}
    BY <1>2, <2>2 DEF StillToCome
  <2> QED
    BY <2>1, <2>2, Zenon
<1> QED
  BY <1>1, <1>2, <1>3, Zenon

\* path_walk takes the reference to the root and keeps the invariant.
LEMMA StartWalkInv ==
  ASSUME IInv, NEW c \in Call, StartWalk(c),
         c.file = NoFile,
         c.op # "exit",
         c.op = "open" => c.fd \in 3 .. MAX_OPEN_FILES - 1 /\ open_files[c.fd] = NoFile,
         StillToCome(c) <= MAX_PATH
  PROVE  IInv'
<1> USE DEF IInv
<1>1. /\ call.pc = "idle" /\ call.cur = NoDentry /\ call.file = NoFile
      /\ call' = [c EXCEPT !.pc = "walk", !.cur = Root]
      /\ ref' = [ref EXCEPT ![Root] = @ + 1]
      /\ UNCHANGED << neg, tableVars, current_directory >>
  BY Zenon DEF StartWalk, dget, CallShape, TypeOK, Call
<1>2. /\ call'.pc = "walk" /\ call'.cur = Root /\ call'.file = NoFile
      /\ call'.op = c.op /\ call'.fd = c.fd /\ call'.todo = c.todo
  BY <1>1, Zenon DEF Call
<1>3. TypeOK'
  <2>1. ref' \in [Dentry -> Int]
    BY <1>1, ConstantFacts DEF TypeOK
  <2>2. call' \in Call
    BY <1>1, ConstantFacts, Zenon DEF Call, Pcs
  <2> QED
    BY <1>1, <2>1, <2>2, Zenon DEF TypeOK, tableVars
<1>4. CallShape' /\ CallFd'
  BY <1>1, <1>2, ConstantFacts, Zenon DEF CallShape, CallFd, tableVars
<1>5. Shallow'
  <2>1. StillToCome(call)' = StillToCome(c)
    BY <1>2, Zenon DEF StillToCome
  <2>2. StillToCome(c) \in Nat
    BY CallTodo, Zenon
  <2> QED
    BY <1>1, <1>2, <2>1, <2>2, PathDepth DEF Shallow, tableVars
<1>6. FileRefs'
  BY <1>1, <1>2, WalkFiles, Zenon
<1>7. DentryRefs'
  <2>1. \A d \in Dentry : ref[d] \in Int /\
          ref'[d] = ref[d] - (IF call.cur = d THEN 1 ELSE 0) + (IF call'.cur = d THEN 1 ELSE 0)
    BY <1>1, <1>2, ConstantFacts DEF TypeOK
  <2> QED
    BY <1>1, <2>1, WalkRefs, Zenon
<1>8. NegativeTransient' /\ CwdIsDirectory' /\ NoStaleFlag'
  BY <1>1, <1>2, Zenon DEF NegativeTransient, CwdIsDirectory, NoStaleFlag, tableVars
<1> QED
  BY <1>3, <1>4, <1>5, <1>6, <1>7, <1>8, Zenon

\* Between two calls nothing is held.
LEMMA IdleFacts ==
  /\ Idle \in Call
  /\ Idle.pc = "idle" /\ Idle.cur = NoDentry /\ Idle.file = NoFile
  <1>1. 0 \in 0 .. MAX_OPEN_FILES
    BY BoundsAssumption
  <1> QED
    BY <1>1 DEF Idle, Call, Ops, Pcs

\* A walk ends: current is given back.
LEMMA WalkEndInv ==
  ASSUME IInv, call.pc \in {"walk", "lookup"},
         ref' = dput(ref, call.cur), call' = Idle, UNCHANGED tableVars,
         neg' \in [Dentry -> SUBSET Names], \A d \in Dentry : neg'[d] = {},
         current_directory' \in Seq(Names), CwdIsDirectory'
  PROVE  IInv'
<1> USE DEF IInv
<1>1. /\ call.cur \in Dentry /\ call.file = NoFile
      /\ call'.pc = "idle" /\ call'.cur = NoDentry /\ call'.file = NoFile
  BY IdleFacts, Zenon DEF CallShape, TypeOK, Call
<1>2. TypeOK'
  <2>1. ref' \in [Dentry -> Int]
    BY <1>1 DEF TypeOK, dput
  <2> QED
    BY <2>1, IdleFacts, Zenon DEF TypeOK, tableVars
<1>3. CallShape' /\ CallFd'
  BY <1>1, Zenon DEF CallShape, CallFd
<1>4. Shallow'
  BY <1>1, Zenon DEF Shallow, tableVars
<1>5. FileRefs'
  BY <1>1, WalkFiles, Zenon
<1>6. DentryRefs'
  <2>1. \A d \in Dentry : ref[d] \in Int /\
          ref'[d] = ref[d] - (IF call.cur = d THEN 1 ELSE 0) + (IF call'.cur = d THEN 1 ELSE 0)
    BY <1>1, ConstantFacts DEF TypeOK, dput
  <2> QED
    BY <2>1, WalkRefs, Zenon
<1>7. NegativeTransient' /\ NoStaleFlag'
  BY Zenon DEF NegativeTransient, NoStaleFlag, tableVars
<1> QED
  BY <1>2, <1>3, <1>4, <1>5, <1>6, <1>7, SMTT(30)

\* No inode-less dentry is linked while a call is not waiting for a lookup.
LEMMA NoNegative ==
  ASSUME IInv, call.pc # "lookup"
  PROVE  neg \in [Dentry -> SUBSET Names] /\ \A d \in Dentry : neg[d] = {}
  BY Zenon DEF IInv, NegativeTransient, TypeOK

\* A walk moves to d, handing the reference over.
LEMMA WalkToInv ==
  ASSUME IInv, Walking, NEW d \in Dentry, NEW r, WalkTo(d, r),
         r \in [Dentry -> Int],
         \A e \in Dentry :
           r[e] = ref[e] - (IF call.cur = e THEN 1 ELSE 0) + (IF d = e THEN 1 ELSE 0),
         Len(PathOf[d]) <= Len(PathOf[call.cur]) + 1
  PROVE  IInv'
<1> USE DEF IInv
<1>1. /\ call.pc = "walk" /\ call.cur \in Dentry /\ call.file = NoFile
      /\ call.todo \in Seq(Names) /\ call.todo # << >>
      /\ UNCHANGED << neg, tableVars, current_directory >>
  BY Zenon DEF Walking, WalkTo, CallShape, TypeOK, Call
<1>2. /\ call'.pc = "walk" /\ call'.cur = d /\ call'.file = NoFile
      /\ call'.op = call.op /\ call'.fd = call.fd /\ call'.todo = Tail(call.todo)
  BY <1>1, Zenon DEF WalkTo, TypeOK, Call
<1>3. Tail(call.todo) \in Seq(Names) /\ Len(Tail(call.todo)) = Len(call.todo) - 1
  BY <1>1, TailFacts, Zenon
<1>4. TypeOK'
  <2>1. ref' \in [Dentry -> Int]
    BY Zenon DEF WalkTo
  <2>2. call' \in Call
    BY <1>1, <1>3, Zenon DEF WalkTo, TypeOK, Call
  <2> QED
    BY <1>1, <2>1, <2>2, SMTT(30) DEF TypeOK, tableVars
<1>5. CallShape' /\ CallFd'
  BY <1>1, <1>2, ConstantFacts, Zenon DEF CallShape, CallFd, tableVars
<1>6. Shallow'
  <2>1. call \in Call
    BY Zenon DEF TypeOK
  <2>2. StillToCome(call) \in Nat /\ Len(call.todo) \in Nat
    BY <2>1, CallTodo, Zenon
  <2>3. StillToCome(call)' = StillToCome(call) - 1
    <3>1. CASE call.op \in {"open", "exec"}
      BY <1>2, <1>3, <2>2, <3>1 DEF StillToCome
    <3>2. CASE call.op \notin {"open", "exec"}
      BY <1>2, <1>3, <2>2, <3>2 DEF StillToCome
    <3> QED
      BY <3>1, <3>2, Zenon
  <2>4. Len(PathOf[call.cur]) + StillToCome(call) <= MAX_PATH
    BY <1>1, Zenon DEF Shallow
  <2>5. Len(PathOf[d]) + StillToCome(call)' <= MAX_PATH
    BY <1>1, <2>2, <2>3, <2>4, PathDepth, BoundsAssumption, SMTT(30)
  <2> QED
    BY <1>1, <1>2, <2>5, Zenon DEF Shallow, tableVars
<1>7. FileRefs'
  BY <1>1, <1>2, WalkFiles, Zenon
<1>8. DentryRefs'
  <2>1. \A e \in Dentry : ref[e] \in Int /\
          ref'[e] = ref[e] - (IF call.cur = e THEN 1 ELSE 0) + (IF call'.cur = e THEN 1 ELSE 0)
    BY <1>2, Zenon DEF TypeOK, WalkTo
  <2> QED
    BY <1>1, <2>1, WalkRefs, Zenon
<1>9. NegativeTransient' /\ CwdIsDirectory' /\ NoStaleFlag'
  BY <1>1, <1>2, Zenon DEF NegativeTransient, CwdIsDirectory, NoStaleFlag, tableVars
<1> QED
  BY <1>4, <1>5, <1>6, <1>7, <1>8, <1>9, SMTT(30)

-----------------------------------------------------------------------------
(* Files come and go.                                                      *)

\* A File on a descriptor has a count to give back; on two, it has two.
LEMMA HeldOnce ==
  ASSUME IInv, NEW fd \in FD, open_files[fd] # NoFile
  PROVE  open_files[fd] \in File /\ Cardinality(FdsOf(open_files[fd])) >= 1
<1> DEFINE f == open_files[fd]
<1>1. f \in File
  BY Zenon DEF IInv, TypeOK
<1>2. fd \in FdsOf(f) /\ FdsOf(f) \in SUBSET FD
  BY Zenon DEF FdsOf
<1>3. IsFiniteSet(FdsOf(f))
  BY <1>2, FDFinite, FS_Subset, Zenon
<1>4. Cardinality(FdsOf(f)) # 0
  BY <1>2, <1>3, FS_EmptySet, Zenon
<1> QED
  BY <1>1, <1>4, CountsAreNat

\* A File at two descriptors has a count of at least two.
LEMMA HeldTwice ==
  ASSUME IInv, NEW fd \in FD, NEW other \in FD, fd # other,
         open_files[fd] # NoFile, open_files[other] = open_files[fd]
  PROVE  Cardinality(FdsOf(open_files[fd])) >= 2
<1> DEFINE S == FdsOf(open_files[fd])
<1>1. fd \in S /\ other \in S \ {fd} /\ S \in SUBSET FD
  BY Zenon DEF FdsOf
<1> HIDE DEF S
<1>2. IsFiniteSet(S)
  BY <1>1, FDFinite, FS_Subset, Zenon
<1>3. IsFiniteSet(S \ {fd}) /\ Cardinality(S \ {fd}) = Cardinality(S) - 1
  BY <1>1, <1>2, FS_RemoveElement, Zenon
<1>4. Cardinality(S \ {fd}) # 0
  BY <1>1, <1>3, FS_EmptySet, Zenon
<1>5. Cardinality(S \ {fd}) \in Nat /\ Cardinality(S) \in Nat
  BY <1>2, <1>3, FS_CardinalityType, Zenon
<1>6. Cardinality(S) >= 2
  BY <1>3, <1>4, <1>5
<1> QED
  BY <1>6, Zenon DEF S

\* Freeing a File takes it, and one reference, from its dentry.
LEMMA ReleaseRefs ==
  ASSUME TypeOK, DentryRefs, NEW g \in File, fdent[g] # NoDentry,
         fdent' = [fdent EXCEPT ![g] = NoDentry],
         ref' = dput(ref, fdent[g]),
         call'.cur = call.cur
  PROVE  DentryRefs' /\ ref' \in [Dentry -> Int] /\ fdent' \in [File -> Dentry \cup {NoDentry}]
<1>1. fdent[g] \in Dentry
  BY Zenon DEF TypeOK
<1>2. fdent'[g] = NoDentry /\ \A y \in File \ {g} : fdent'[y] = fdent[y]
  BY Zenon DEF TypeOK
<1>3. DentryRefs'
  <2> SUFFICES ASSUME NEW d \in Dentry
               PROVE  ref'[d] = 1 + Cardinality(FilesOf(d)') + (IF call'.cur = d THEN 1 ELSE 0)
    BY Zenon DEF DentryRefs
  <2>1. Cardinality(FilesOf(d)') = Cardinality(FilesOf(d))
          - (IF fdent[g] = d THEN 1 ELSE 0) + (IF fdent'[g] = d THEN 1 ELSE 0)
    BY <1>2, FilesOfUpdate, Zenon
  <2>2. Cardinality(FilesOf(d)) \in Nat
    BY CountsAreNat, Zenon
  <2>3. ref[d] = 1 + Cardinality(FilesOf(d)) + (IF call.cur = d THEN 1 ELSE 0)
    BY Zenon DEF DentryRefs
  <2>4. ref'[d] = ref[d] - (IF fdent[g] = d THEN 1 ELSE 0) /\ ref[d] \in Int
    BY <1>1 DEF TypeOK, dput
  <2>5. fdent'[g] # d
    BY <1>2, ConstantFacts, Zenon
  <2> QED
    BY <2>1, <2>2, <2>3, <2>4, <2>5, SMTT(30)
<1> QED
  BY <1>1, <1>3 DEF TypeOK, dput

\* What vfs::close does to the counts.
LEMMA CloseFacts ==
  ASSUME IInv, NEW f \in File, fref[f] >= 1, close(f), call'.cur = call.cur
  PROVE  /\ DentryRefs'
         /\ ref' \in [Dentry -> Int] /\ fdent' \in [File -> Dentry \cup {NoDentry}]
         /\ fref' \in [File -> Int]
         /\ \A g \in File : fref'[g] = fref[g] - (IF g = f THEN 1 ELSE 0)
         /\ \A g \in File : fref'[g] = 0 <=> fdent'[g] = NoDentry
         /\ \A g \in File : fdent'[g] # NoDentry => fdent'[g] = fdent[g]
<1>1. /\ TypeOK /\ DentryRefs
      /\ \A g \in File : fref[g] = 0 <=> fdent[g] = NoDentry
      /\ ref \in [Dentry -> Int] /\ fdent \in [File -> Dentry \cup {NoDentry}]
      /\ fref \in [File -> Int]
  BY Zenon DEF IInv, TypeOK, FileRefs
<1>2. fref' = [fref EXCEPT ![f] = @ - 1]
  BY Zenon DEF close
<1>3. /\ fref' \in [File -> Int]
      /\ \A g \in File : fref'[g] = fref[g] - (IF g = f THEN 1 ELSE 0)
  BY <1>1, <1>2
<1>4. CASE fref[f] = 1
  <2>1. fdent[f] # NoDentry /\ fdent' = [fdent EXCEPT ![f] = NoDentry] /\ ref' = dput(ref, fdent[f])
    BY <1>1, <1>4 DEF close
  <2>2. DentryRefs' /\ ref' \in [Dentry -> Int] /\ fdent' \in [File -> Dentry \cup {NoDentry}]
    BY <1>1, <2>1, ReleaseRefs, Zenon
  <2>3. /\ \A g \in File : fref'[g] = 0 <=> fdent'[g] = NoDentry
        /\ \A g \in File : fdent'[g] # NoDentry => fdent'[g] = fdent[g]
    BY <1>1, <1>3, <1>4, <2>1
  <2> QED
    BY <1>3, <2>2, <2>3, Zenon
<1>5. CASE fref[f] # 1
  <2>1. fdent' = fdent /\ ref' = ref
    BY <1>5, Zenon DEF close
  <2>2. DentryRefs'
    BY <1>1, <2>1 DEF DentryRefs, FilesOf
  <2>3. \A g \in File : fref'[g] = 0 <=> fdent'[g] = NoDentry
    BY <1>1, <1>3, <1>5, <2>1
  <2> QED
    BY <1>1, <1>3, <2>1, <2>2, <2>3, Zenon
<1> QED
  BY <1>4, <1>5, Zenon

\* Closing a descriptor: sys_close and the loops of sys_execve and sys_exit.
LEMMA CloseFdFacts ==
  ASSUME IInv, NEW fd \in FD, open_files[fd] # NoFile, close(open_files[fd]),
         open_files' = [open_files EXCEPT ![fd] = NoFile],
         fd_flags' = [fd_flags EXCEPT ![fd] = FALSE],
         call'.cur = call.cur, call'.file = call.file
  PROVE  /\ FileRefs' /\ DentryRefs' /\ NoStaleFlag'
         /\ ref' \in [Dentry -> Int] /\ fdent' \in [File -> Dentry \cup {NoDentry}]
         /\ fref' \in [File -> Int] /\ open_files' \in [FD -> File \cup {NoFile}]
         /\ fd_flags' \in [FD -> BOOLEAN]
         /\ \A g \in File : fdent'[g] # NoDentry => fdent'[g] = fdent[g]
<1> DEFINE f == open_files[fd]
<1>1. f \in File /\ Cardinality(FdsOf(f)) >= 1
  BY HeldOnce, Zenon
<1>2. fref[f] = Cardinality(FdsOf(f)) + (IF call.file = f THEN 1 ELSE 0)
  BY <1>1, Zenon DEF IInv, FileRefs
<1>3. fref[f] >= 1
  BY <1>1, <1>2, CountsAreNat
<1>4. /\ DentryRefs'
      /\ ref' \in [Dentry -> Int] /\ fdent' \in [File -> Dentry \cup {NoDentry}]
      /\ fref' \in [File -> Int]
      /\ \A g \in File : fref'[g] = fref[g] - (IF g = f THEN 1 ELSE 0)
      /\ \A g \in File : fref'[g] = 0 <=> fdent'[g] = NoDentry
      /\ \A g \in File : fdent'[g] # NoDentry => fdent'[g] = fdent[g]
  BY <1>1, <1>3, CloseFacts, Zenon
<1>5. FileRefs'
  <2> SUFFICES ASSUME NEW g \in File
               PROVE  fref'[g] = Cardinality(FdsOf(g)') + (IF call'.file = g THEN 1 ELSE 0)
    BY <1>4, Zenon DEF FileRefs
  <2>1. open_files'[fd] = NoFile /\ \A y \in FD \ {fd} : open_files'[y] = open_files[y]
    BY Zenon DEF IInv, TypeOK
  <2>2. Cardinality(FdsOf(g)') = Cardinality(FdsOf(g))
          - (IF open_files[fd] = g THEN 1 ELSE 0) + (IF open_files'[fd] = g THEN 1 ELSE 0)
    BY <2>1, FdsOfUpdate, Zenon
  <2>3. open_files'[fd] # g
    BY <2>1, ConstantFacts, Zenon
  <2>4. fref[g] = Cardinality(FdsOf(g)) + (IF call.file = g THEN 1 ELSE 0)
    BY Zenon DEF IInv, FileRefs
  <2>5. fref'[g] = fref[g] - (IF open_files[fd] = g THEN 1 ELSE 0)
    BY <1>4, Zenon
  <2>6. Cardinality(FdsOf(g)) \in Nat
    BY CountsAreNat, Zenon
  <2> QED
    BY <2>2, <2>3, <2>4, <2>5, <2>6
<1>6. /\ open_files' \in [FD -> File \cup {NoFile}]
      /\ fd_flags' \in [FD -> BOOLEAN]
      /\ NoStaleFlag'
  BY Zenon DEF IInv, TypeOK, NoStaleFlag
<1> QED
  BY <1>4, <1>5, <1>6, Zenon

\* vfs::open: the new File takes the target, the walk gives the parent back.
LEMMA NewFileFacts ==
  ASSUME IInv, call.pc = "walk", call.todo = << >>, call.op \in {"open", "exec"},
         NEW f \in File, NewFile(f), call'.cur = NoDentry
  PROVE  /\ DentryRefs'
         /\ ref' \in [Dentry -> Int] /\ fdent' \in [File -> Dentry \cup {NoDentry}]
         /\ fref' \in [File -> Int]
         /\ fref[f] = 0 /\ fref'[f] = 1 /\ \A g \in File \ {f} : fref'[g] = fref[g]
         /\ \A g \in File : fref'[g] = 0 <=> fdent'[g] = NoDentry
         /\ \A g \in File : fdent'[g] # NoDentry => Len(PathOf[fdent'[g]]) <= MAX_PATH
<1>1. /\ TypeOK /\ DentryRefs /\ Shallow
      /\ \A g \in File : fref[g] = 0 <=> fdent[g] = NoDentry
      /\ ref \in [Dentry -> Int] /\ fdent \in [File -> Dentry \cup {NoDentry}]
      /\ fref \in [File -> Int]
      /\ call.cur \in Dentry
  BY Zenon DEF IInv, TypeOK, FileRefs, CallShape, Call
<1>2. Target \in Dentry \ {Root} /\ Parent[Target] = call.cur
  BY LookupFacts, Zenon DEF NewFile, Target
<1>3. /\ fdent[f] = NoDentry /\ fdent' = [fdent EXCEPT ![f] = Target]
      /\ fref' = [fref EXCEPT ![f] = 1]
      /\ ref' = dput(dget(ref, Target), call.cur)
  BY Zenon DEF NewFile
<1> HIDE DEF Target
<1>4. /\ ref' \in [Dentry -> Int]
      /\ \A d \in Dentry : ref'[d] = ref[d] + (IF d = Target THEN 1 ELSE 0)
                                            - (IF d = call.cur THEN 1 ELSE 0)
  BY <1>1, <1>2, <1>3 DEF dput, dget
<1>5. /\ fdent' \in [File -> Dentry \cup {NoDentry}] /\ fdent'[f] = Target
      /\ \A g \in File \ {f} : fdent'[g] = fdent[g]
  BY <1>1, <1>2, <1>3, SMTT(30)
<1>6. DentryRefs'
  <2> SUFFICES ASSUME NEW d \in Dentry
               PROVE  ref'[d] = 1 + Cardinality(FilesOf(d)') + (IF call'.cur = d THEN 1 ELSE 0)
    BY Zenon DEF DentryRefs
  <2>1. Cardinality(FilesOf(d)') = Cardinality(FilesOf(d))
          - (IF fdent[f] = d THEN 1 ELSE 0) + (IF fdent'[f] = d THEN 1 ELSE 0)
    BY <1>5, FilesOfUpdate, Zenon
  <2>2. Cardinality(FilesOf(d)) \in Nat
    BY CountsAreNat, Zenon
  <2>3. ref[d] = 1 + Cardinality(FilesOf(d)) + (IF call.cur = d THEN 1 ELSE 0)
    BY <1>1, Zenon DEF DentryRefs
  <2>4. fdent[f] # d /\ call'.cur # d
    BY <1>3, ConstantFacts, Zenon
  <2>5. fdent'[f] = Target
    BY <1>5, Zenon
  <2>6. ref'[d] = ref[d] + (IF d = Target THEN 1 ELSE 0) - (IF d = call.cur THEN 1 ELSE 0)
    BY <1>4, Zenon
  <2> QED
    BY <2>1, <2>2, <2>3, <2>4, <2>5, <2>6, SMTT(30)
<1>7. /\ fref' \in [File -> Int] /\ fref[f] = 0 /\ fref'[f] = 1
      /\ \A g \in File \ {f} : fref'[g] = fref[g]
  BY <1>1, <1>3
<1>8. \A g \in File : fref'[g] = 0 <=> fdent'[g] = NoDentry
  <2>1. fref'[f] # 0 /\ fdent'[f] # NoDentry
    BY <1>2, <1>5, <1>7, ConstantFacts
  <2>2. \A g \in File \ {f} : fref'[g] = 0 <=> fdent'[g] = NoDentry
    BY <1>1, <1>5, <1>7, Zenon
  <2> QED
    BY <2>1, <2>2, Zenon
<1>9. Len(PathOf[Target]) <= MAX_PATH
  <2>1. Len(PathOf[Target]) = Len(PathOf[call.cur]) + 1
    BY <1>2, PathDepth, Zenon
  <2>2. StillToCome(call) = 1
    BY DEF StillToCome
  <2>3. Len(PathOf[call.cur]) + StillToCome(call) <= MAX_PATH
    BY <1>1, Zenon DEF Shallow
  <2> QED
    BY <2>1, <2>2, <2>3, Zenon
<1>10. \A g \in File : fdent'[g] # NoDentry => Len(PathOf[fdent'[g]]) <= MAX_PATH
  BY <1>1, <1>5, <1>9 DEF Shallow
<1> QED
  BY <1>4, <1>5, <1>6, <1>7, <1>8, <1>10, SMTT(30)

\* The end of sys_openat, where the File enters the table.
LEMMA OpenDoneInv ==
  ASSUME IInv, NEW f \in File, NEW cloexec \in BOOLEAN, OpenDone(f, cloexec)
  PROVE  IInv'
<1>1. /\ call.pc = "walk" /\ call.todo = << >> /\ call.op = "open" /\ NewFile(f)
      /\ call' = Idle /\ UNCHANGED << neg, current_directory >>
      /\ open_files' = [open_files EXCEPT ![call.fd] = f]
      /\ fd_flags' = [fd_flags EXCEPT ![call.fd] = cloexec]
  BY Zenon DEF OpenDone, Walked
<1>2. call'.pc = "idle" /\ call'.cur = NoDentry /\ call'.file = NoFile
  BY <1>1, IdleFacts
<1>3. call.fd \in FD /\ open_files[call.fd] = NoFile /\ call.file = NoFile
  BY <1>1, BoundsAssumption DEF IInv, CallFd, CallShape, FD
<1>4. /\ DentryRefs'
      /\ ref' \in [Dentry -> Int] /\ fdent' \in [File -> Dentry \cup {NoDentry}]
      /\ fref' \in [File -> Int]
      /\ fref[f] = 0 /\ fref'[f] = 1 /\ \A g \in File \ {f} : fref'[g] = fref[g]
      /\ \A g \in File : fref'[g] = 0 <=> fdent'[g] = NoDentry
      /\ \A g \in File : fdent'[g] # NoDentry => Len(PathOf[fdent'[g]]) <= MAX_PATH
  BY <1>1, <1>2, NewFileFacts, Zenon
<1>5. /\ open_files \in [FD -> File \cup {NoFile}] /\ fd_flags \in [FD -> BOOLEAN]
      /\ NoStaleFlag /\ FileRefs /\ CwdIsDirectory
  BY Zenon DEF IInv, TypeOK
<1>6. /\ open_files' \in [FD -> File \cup {NoFile}] /\ open_files'[call.fd] = f
      /\ \A y \in FD \ {call.fd} : open_files'[y] = open_files[y]
  BY <1>1, <1>3, <1>5, Zenon
<1>7. FileRefs'
  <2> SUFFICES ASSUME NEW g \in File
               PROVE  fref'[g] = Cardinality(FdsOf(g)') + (IF call'.file = g THEN 1 ELSE 0)
    BY <1>4, Zenon DEF FileRefs
  <2>1. Cardinality(FdsOf(g)') = Cardinality(FdsOf(g))
          - (IF open_files[call.fd] = g THEN 1 ELSE 0)
          + (IF open_files'[call.fd] = g THEN 1 ELSE 0)
    BY <1>3, <1>6, FdsOfUpdate, Zenon
  <2>2. fref[g] = Cardinality(FdsOf(g)) + (IF call.file = g THEN 1 ELSE 0)
    BY <1>5, Zenon DEF FileRefs
  <2>3. open_files[call.fd] # g /\ call.file # g /\ call'.file # g
    BY <1>2, <1>3, ConstantFacts, Zenon
  <2>4. fref'[g] = fref[g] + (IF f = g THEN 1 ELSE 0)
    BY <1>4
  <2>5. open_files'[call.fd] = f /\ Cardinality(FdsOf(g)) \in Nat
    BY <1>6, CountsAreNat
  <2> QED
    BY <2>1, <2>2, <2>3, <2>4, <2>5
<1>8. fd_flags' \in [FD -> BOOLEAN] /\ NoStaleFlag'
  BY <1>1, <1>3, <1>5, ConstantFacts, SMTT(30) DEF NoStaleFlag
<1>9. TypeOK'
  BY <1>1, <1>4, <1>6, <1>8, IdleFacts, SMTT(30) DEF IInv, TypeOK
<1>10. CallShape' /\ CallFd' /\ Shallow'
  BY <1>2, <1>4, Zenon DEF CallShape, CallFd, Shallow
<1>11. NegativeTransient' /\ CwdIsDirectory'
  BY <1>1, <1>5, NoNegative, Zenon DEF NegativeTransient, CwdIsDirectory
<1> QED
  BY <1>4, <1>7, <1>8, <1>9, <1>10, <1>11, Zenon DEF IInv

\* sys_execve opens the image: the File is held by the call alone.
LEMMA ExecOpenedInv ==
  ASSUME IInv, NEW f \in File, ExecOpened(f)
  PROVE  IInv'
<1>1. /\ call.pc = "walk" /\ call.todo = << >> /\ call.op = "exec" /\ NewFile(f)
      /\ call' = [call EXCEPT !.pc = "loaded", !.cur = NoDentry, !.file = f]
      /\ UNCHANGED << neg, open_files, fd_flags, current_directory >>
  BY Zenon DEF ExecOpened, Walked
<1>2. TypeOK /\ call \in Call /\ FileRefs /\ call.file = NoFile
  BY <1>1, Zenon DEF IInv, TypeOK, CallShape
<1>3. /\ call'.pc = "loaded" /\ call'.cur = NoDentry /\ call'.file = f /\ call' \in Call
  BY <1>1, <1>2, Zenon DEF Call, Pcs
<1>4. /\ DentryRefs'
      /\ ref' \in [Dentry -> Int] /\ fdent' \in [File -> Dentry \cup {NoDentry}]
      /\ fref' \in [File -> Int]
      /\ fref[f] = 0 /\ fref'[f] = 1 /\ \A g \in File \ {f} : fref'[g] = fref[g]
      /\ \A g \in File : fref'[g] = 0 <=> fdent'[g] = NoDentry
      /\ \A g \in File : fdent'[g] # NoDentry => Len(PathOf[fdent'[g]]) <= MAX_PATH
  BY <1>1, <1>3, NewFileFacts, Zenon
<1>5. FileRefs'
  <2> SUFFICES ASSUME NEW g \in File
               PROVE  fref'[g] = Cardinality(FdsOf(g)') + (IF call'.file = g THEN 1 ELSE 0)
    BY <1>4, Zenon DEF FileRefs
  <2>1. FdsOf(g)' = FdsOf(g)
    BY <1>1, Zenon DEF FdsOf
  <2>2. fref[g] = Cardinality(FdsOf(g)) + (IF call.file = g THEN 1 ELSE 0)
    BY <1>2, Zenon DEF FileRefs
  <2>3. call.file # g
    BY <1>2, ConstantFacts, Zenon
  <2>4. fref'[g] = fref[g] + (IF f = g THEN 1 ELSE 0) /\ call'.file = f
    BY <1>3, <1>4
  <2>5. Cardinality(FdsOf(g)) \in Nat
    BY CountsAreNat, Zenon
  <2> QED
    BY <2>1, <2>2, <2>3, <2>4, <2>5
<1>6. TypeOK'
  BY <1>1, <1>2, <1>3, <1>4, Zenon DEF TypeOK
<1>7. CallShape' /\ CallFd' /\ Shallow'
  BY <1>3, <1>4, ConstantFacts, Zenon DEF CallShape, CallFd, Shallow
<1>8. NegativeTransient' /\ CwdIsDirectory' /\ NoStaleFlag'
  BY <1>1, NoNegative, SMTT(30) DEF IInv, NegativeTransient, CwdIsDirectory, NoStaleFlag
<1> QED
  BY <1>4, <1>5, <1>6, <1>7, <1>8, Zenon DEF IInv

\* sys_execve closes the image after loading it.
LEMMA ExecClosedInv ==
  ASSUME IInv, ExecClosed
  PROVE  IInv'
<1> DEFINE f == call.file
<1>1. /\ call.pc = "loaded" /\ close(f)
      /\ call' = [call EXCEPT !.pc = "prepared", !.file = NoFile]
      /\ UNCHANGED << neg, open_files, fd_flags, current_directory >>
  BY Zenon DEF ExecClosed
<1>2. /\ TypeOK /\ call \in Call /\ FileRefs /\ Shallow
      /\ f \in File /\ call.cur = NoDentry
  BY <1>1, ConstantFacts, Zenon DEF IInv, TypeOK, CallShape, Call
<1>3. call'.pc = "prepared" /\ call'.cur = call.cur /\ call'.file = NoFile /\ call' \in Call
  BY <1>1, <1>2, Zenon DEF Call, Pcs
<1>4. fref[f] >= 1
  <2>1. fref[f] = Cardinality(FdsOf(f)) + 1
    BY <1>2, Zenon DEF FileRefs
  <2> QED
    BY <2>1, CountsAreNat
<1>5. /\ DentryRefs'
      /\ ref' \in [Dentry -> Int] /\ fdent' \in [File -> Dentry \cup {NoDentry}]
      /\ fref' \in [File -> Int]
      /\ \A g \in File : fref'[g] = fref[g] - (IF g = f THEN 1 ELSE 0)
      /\ \A g \in File : fref'[g] = 0 <=> fdent'[g] = NoDentry
      /\ \A g \in File : fdent'[g] # NoDentry => fdent'[g] = fdent[g]
  BY <1>1, <1>2, <1>3, <1>4, CloseFacts, Zenon
<1>6. FileRefs'
  <2> SUFFICES ASSUME NEW g \in File
               PROVE  fref'[g] = Cardinality(FdsOf(g)') + (IF call'.file = g THEN 1 ELSE 0)
    BY <1>5, Zenon DEF FileRefs
  <2>1. FdsOf(g)' = FdsOf(g)
    BY <1>1, Zenon DEF FdsOf
  <2>2. fref[g] = Cardinality(FdsOf(g)) + (IF call.file = g THEN 1 ELSE 0)
    BY <1>2, Zenon DEF FileRefs
  <2>3. call'.file # g
    BY <1>3, ConstantFacts, Zenon
  <2>4. fref'[g] = fref[g] - (IF g = call.file THEN 1 ELSE 0)
    BY <1>5, Zenon
  <2>5. Cardinality(FdsOf(g)) \in Nat
    BY CountsAreNat
  <2> QED
    BY <2>1, <2>2, <2>3, <2>4, <2>5
<1>7. TypeOK'
  BY <1>1, <1>2, <1>3, <1>5, Zenon DEF TypeOK
<1>8. CallShape' /\ CallFd' /\ Shallow'
  BY <1>2, <1>3, <1>5, Zenon DEF CallShape, CallFd, Shallow
<1>9. NegativeTransient' /\ CwdIsDirectory' /\ NoStaleFlag'
  BY <1>1, NoNegative DEF IInv, NegativeTransient, CwdIsDirectory, NoStaleFlag
<1> QED
  BY <1>5, <1>6, <1>7, <1>8, <1>9, Zenon DEF IInv

\* dup onto a descriptor: what was there is closed, then the File is shared.
LEMMA CopyFdInv ==
  ASSUME IInv, NEW old \in FD, NEW new \in FD, old # new, NEW cloexec \in BOOLEAN,
         call.pc = "idle", open_files[old] # NoFile, CopyFd(old, new, cloexec)
  PROVE  IInv'
<1> DEFINE f == open_files[old]
           g == open_files[new]
           closed == IF g = NoFile THEN fref ELSE [fref EXCEPT ![g] = @ - 1]
           gone == g # NoFile /\ closed[g] = 0
<1>1. /\ fref' = [closed EXCEPT ![f] = @ + 1]
      /\ fdent' = IF gone THEN [fdent EXCEPT ![g] = NoDentry] ELSE fdent
      /\ ref' = IF gone THEN dput(ref, fdent[g]) ELSE ref
      /\ open_files' = [open_files EXCEPT ![new] = f]
      /\ fd_flags' = [fd_flags EXCEPT ![new] = cloexec]
      /\ UNCHANGED << neg, current_directory, call >>
  BY Zenon DEF CopyFd
<1>2. /\ TypeOK /\ FileRefs /\ DentryRefs /\ Shallow
      /\ f \in File /\ g \in File \cup {NoFile} /\ call.file = NoFile
      /\ fref \in [File -> Int] /\ fdent \in [File -> Dentry \cup {NoDentry}]
      /\ open_files \in [FD -> File \cup {NoFile}] /\ fd_flags \in [FD -> BOOLEAN]
  BY DEF IInv, TypeOK, CallShape
<1>3. \A h \in File : /\ fref[h] = Cardinality(FdsOf(h))
                      /\ fref[h] = 0 <=> fdent[h] = NoDentry
  BY <1>2, ConstantFacts, CountsAreNat DEF FileRefs
<1>4. fref[f] >= 1 /\ (g # NoFile => fref[g] >= 1) /\ (g = f => fref[f] >= 2)
  BY <1>2, <1>3, HeldOnce, HeldTwice, Zenon
<1>5. closed \in [File -> Int] /\ \A h \in File : closed[h] = fref[h] - (IF h = g THEN 1 ELSE 0)
  BY <1>2, ConstantFacts
<1> HIDE DEF closed
<1>6. /\ fref' \in [File -> Int]
      /\ \A h \in File : fref'[h] = fref[h] - (IF h = g THEN 1 ELSE 0) + (IF h = f THEN 1 ELSE 0)
  BY <1>1, <1>2, <1>5, SMTT(30)
<1>7. ASSUME gone
      PROVE  g \in File /\ g # f /\ fref[g] = 1 /\ fdent[g] # NoDentry
  <2>1. g \in File /\ closed[g] = 0 /\ fref[g] \in Int
    BY <1>2, <1>7, Zenon
  <2>2. closed[g] = fref[g] - 1
    BY <1>5, <2>1
  <2>3. fref[g] = 1
    BY <2>1, <2>2
  <2> QED
    BY <1>3, <1>4, <2>1, <2>3, SMTT(30)
<1>8. DentryRefs' /\ ref' \in [Dentry -> Int] /\ fdent' \in [File -> Dentry \cup {NoDentry}]
  <2>1. CASE gone
    BY <1>1, <1>2, <1>7, <2>1, ReleaseRefs, ZenonT(40)
  <2>2. CASE ~gone
    BY <1>1, <1>2, <2>2, SMTT(30) DEF TypeOK, DentryRefs, FilesOf
  <2> QED
    BY <2>1, <2>2, Zenon
<1>9. /\ open_files' \in [FD -> File \cup {NoFile}] /\ open_files'[new] = f
      /\ \A y \in FD \ {new} : open_files'[y] = open_files[y]
  BY <1>1, <1>2, Zenon
<1>10. \A h \in File : fref'[h] = 0 <=> fdent'[h] = NoDentry
  <2> SUFFICES ASSUME NEW h \in File
               PROVE  fref'[h] = 0 <=> fdent'[h] = NoDentry
    BY Zenon
  <2>1. CASE h = g
    <3>1. gone <=> fref[g] = 1
      BY <1>5, <2>1, <1>2, <1>3, ConstantFacts, SMTT(30)
    <3>2. fref'[g] = fref[g] - 1 + (IF g = f THEN 1 ELSE 0)
      BY <1>6, <2>1, SMTT(30)
    <3>3. fdent'[g] = IF gone THEN NoDentry ELSE fdent[g]
      BY <1>1, <1>2, <2>1, SMTT(30)
    <3>4. g \in File /\ g # NoFile /\ fref[g] \in Int /\ fref[g] >= 1 /\ fdent[g] # NoDentry
      <4>1. g \in File /\ g # NoFile /\ fref[g] \in Int
        BY <1>2, <2>1, ConstantFacts, Zenon
      <4>2. fref[g] >= 1 /\ fref[g] # 0
        BY <1>4, <4>1
      <4> QED
        BY <1>3, <4>1, <4>2, SMTT(30)
    <3>5. g = f => fref[g] >= 2
      BY <1>4, SMTT(30)
    <3> QED
      BY <2>1, <3>1, <3>2, <3>3, <3>4, <3>5, SMTT(30)
  <2>2. CASE h # g
    <3>1. fref'[h] = fref[h] + (IF h = f THEN 1 ELSE 0)
      BY <1>2, <1>6, <2>2, SMTT(30)
    <3>2. fdent'[h] = fdent[h]
      BY <1>1, <1>2, <2>2, SMTT(30)
    <3> QED
      BY <1>2, <1>3, <1>4, <3>1, <3>2
  <2> QED
    BY <2>1, <2>2, Zenon
<1>11. FileRefs'
  <2> SUFFICES ASSUME NEW h \in File
               PROVE  fref'[h] = Cardinality(FdsOf(h)') + (IF call'.file = h THEN 1 ELSE 0)
    BY <1>10, Zenon DEF FileRefs
  <2>1. Cardinality(FdsOf(h)') = Cardinality(FdsOf(h))
          - (IF open_files[new] = h THEN 1 ELSE 0) + (IF open_files'[new] = h THEN 1 ELSE 0)
    BY <1>9, FdsOfUpdate, SMTT(30)
  <2>2. fref[h] = Cardinality(FdsOf(h)) /\ Cardinality(FdsOf(h)) \in Nat
    BY <1>3, CountsAreNat, Zenon
  <2>3. fref'[h] = fref[h] - (IF h = g THEN 1 ELSE 0) + (IF h = f THEN 1 ELSE 0)
    BY <1>6, SMTT(30)
  <2>4. call'.file # h /\ open_files'[new] = f /\ open_files[new] = g
    BY <1>1, <1>2, <1>9, ConstantFacts, SMTT(30)
  <2> QED
    BY <2>1, <2>2, <2>3, <2>4, SMTT(30)
<1>12. TypeOK' /\ NoStaleFlag'
  <2>1. fd_flags' \in [FD -> BOOLEAN] /\ NoStaleFlag'
    BY <1>1, <1>2, ConstantFacts, SMTT(30) DEF IInv, NoStaleFlag
  <2> QED
    BY <1>1, <1>2, <1>6, <1>8, <1>9, <2>1, SMTT(30) DEF TypeOK
<1>13. CallShape' /\ CallFd' /\ NegativeTransient' /\ CwdIsDirectory'
  BY <1>1, SMTT(30) DEF IInv, CallShape, CallFd, NegativeTransient, CwdIsDirectory
<1>14. Shallow'
  BY <1>1, <1>2, Zenon DEF Shallow
<1> QED
  BY <1>8, <1>11, <1>12, <1>13, <1>14, Zenon DEF IInv

-----------------------------------------------------------------------------
(* The calls that walk a path.                                             *)

\* What a path from user space consists of.
LEMMA UserPathFacts ==
  ASSUME NEW p \in UserPath
  PROVE  p.dir \in Seq(Names) /\ Len(p.dir) \in Nat /\ p.last \in Names
<1>1. p.dir \in Seq(Names)
  BY PathAssumption, Zenon
<1>2. Len(p.dir) \in Nat
  BY <1>1, PathLength, Zenon
<1>3. p.last \in Names
  BY Zenon DEF Names
<1> QED
  BY <1>1, <1>2, <1>3, Zenon

\* A path that resolve_user_path accepts fits the buffer with its base.
LEMMA Resolved ==
  ASSUME IInv, NEW dirfd, NEW p \in UserPath, NEW base, resolve_user_path(dirfd, p, base)
  PROVE  /\ base \in Seq(Names) /\ Len(base) \in Nat
         /\ Len(base) + Len(p.dir) + 1 <= MAX_PATH
<1>1. base \in Seq(Names)
  <2>1. CASE base = << >>
    BY <2>1, EmptyPath, Zenon
  <2>2. CASE base = current_directory
    BY <2>2, Zenon DEF IInv, TypeOK
  <2>3. CASE \E d \in Directory : dentry_path_fits(d) /\ base = dentry_path(d)
    BY <2>3, ConstantFacts, ShallowPath, Zenon DEF dentry_path_fits
  <2> QED
    BY <2>1, <2>2, <2>3, Zenon DEF resolve_user_path
<1>2. Len(base) \in Nat
  BY <1>1, PathLength, Zenon
<1> QED
  BY <1>1, <1>2, Zenon DEF resolve_user_path

\* The empty path and the path of one name.
LEMMA ShortSeqs ==
  /\ << >> \in Seq(Names) /\ Len(<< >>) = 0
  /\ \A n \in Names : << n >> \in Seq(Names) /\ Len(<< n >>) = 1
  OBVIOUS

\* The length of a base followed by a path.
LEMMA WholePathFacts ==
  ASSUME NEW base \in Seq(Names), NEW p \in UserPath
  PROVE  /\ base \o p.dir \in Seq(Names)
         /\ Len(base \o p.dir) = Len(base) + Len(p.dir)
         /\ WholePath(base, p) \in Seq(Names)
         /\ Len(WholePath(base, p)) <= Len(base) + Len(p.dir) + 1
<1> DEFINE tail == IF p.last = "" THEN << >> ELSE << p.last >>
<1>1. p.dir \in Seq(Names) /\ Len(p.dir) \in Nat /\ p.last \in Names
  BY UserPathFacts, Zenon
<1>2. base \o p.dir \in Seq(Names) /\ Len(base \o p.dir) = Len(base) + Len(p.dir)
  BY <1>1, PathsJoined, Zenon
<1>3. tail \in Seq(Names) /\ Len(tail) <= 1 /\ Len(tail) \in Nat
  <2>1. tail \in Seq(Names) /\ (Len(tail) = 0 \/ Len(tail) = 1)
    BY <1>1, ShortSeqs, Zenon
  <2> HIDE DEF tail
  <2> QED
    BY <2>1, SMTT(30)
<1>4. WholePath(base, p) = (base \o p.dir) \o tail
  BY Zenon DEF WholePath
<1> HIDE DEF tail
<1>5. /\ WholePath(base, p) \in Seq(Names)
      /\ Len(WholePath(base, p)) = Len(base \o p.dir) + Len(tail)
  BY <1>2, <1>3, <1>4, PathsJoined
<1> QED
  BY <1>1, <1>2, <1>3, <1>5, PathLength

\* sys_openat picks a free descriptor and begins its walk.
LEMMA OpenatInv ==
  ASSUME IInv, NEW dirfd, NEW p \in UserPath, sys_openat(dirfd, p)
  PROVE  IInv'
<1>1. PICK fd \in 3 .. MAX_OPEN_FILES - 1, base \in Bases(dirfd) :
        /\ open_files[fd] = NoFile
        /\ resolve_user_path(dirfd, p, base)
        /\ StartWalk([Idle EXCEPT !.op = "open", !.todo = base \o p.dir,
                                  !.last = p.last, !.fd = fd])
  BY Zenon DEF sys_openat
<1> DEFINE c == [Idle EXCEPT !.op = "open", !.todo = base \o p.dir, !.last = p.last, !.fd = fd]
<1>2. /\ base \in Seq(Names) /\ Len(base) \in Nat /\ Len(base) + Len(p.dir) + 1 <= MAX_PATH
  BY <1>1, Resolved, Zenon
<1>3. /\ base \o p.dir \in Seq(Names) /\ Len(base \o p.dir) = Len(base) + Len(p.dir)
      /\ p.last \in Names
  BY <1>2, WholePathFacts, UserPathFacts, Zenon
<1>4. fd \in 0 .. MAX_OPEN_FILES
  BY BoundsAssumption
<1>5. /\ c \in Call
      /\ c.op = "open" /\ c.fd = fd /\ c.file = NoFile /\ c.todo = base \o p.dir
  BY <1>3, <1>4, IdleFacts, Zenon DEF Idle, Call, Ops
<1>6. StartWalk(c)
  BY <1>1, Zenon
<1> HIDE DEF c
<1>7. StillToCome(c) = Len(base \o p.dir) + 1
  BY <1>5, Zenon DEF StillToCome
<1>8. StillToCome(c) <= MAX_PATH
  BY <1>2, <1>3, <1>7, Zenon
<1>9. c.op # "exit" /\ c.fd \in 3 .. MAX_OPEN_FILES - 1 /\ open_files[c.fd] = NoFile
  BY <1>1, <1>5, Zenon
<1> QED
  BY <1>5, <1>6, <1>8, <1>9, StartWalkInv, SMTT(30)

\* sys_chdir and the stat calls begin their walk.
LEMMA WholeWalkInv ==
  ASSUME IInv, NEW dirfd, NEW p \in UserPath, NEW base, NEW op \in {"chdir", "probe"},
         resolve_user_path(dirfd, p, base),
         StartWalk([Idle EXCEPT !.op = op, !.todo = WholePath(base, p)])
  PROVE  IInv'
<1> DEFINE c == [Idle EXCEPT !.op = op, !.todo = WholePath(base, p)]
<1>1. /\ base \in Seq(Names) /\ Len(base) \in Nat /\ Len(base) + Len(p.dir) + 1 <= MAX_PATH
  BY Resolved, Zenon
<1>2. /\ WholePath(base, p) \in Seq(Names)
      /\ Len(WholePath(base, p)) <= Len(base) + Len(p.dir) + 1
  BY <1>1, WholePathFacts, Zenon
<1>3. /\ c \in Call /\ c.op \notin {"open", "exec", "exit"}
      /\ c.file = NoFile /\ c.todo = WholePath(base, p)
  BY <1>2, IdleFacts, Zenon DEF Idle, Call, Ops
<1>4. StartWalk(c)
  BY Zenon
<1> HIDE DEF c
<1>5. Len(c.todo) \in Nat /\ MAX_PATH \in Nat /\ Len(p.dir) \in Nat
  BY <1>3, CallTodo, BoundsAssumption, UserPathFacts
<1>6. Len(c.todo) <= MAX_PATH
  BY <1>1, <1>2, <1>3, <1>5
<1>7. StillToCome(c) <= MAX_PATH
  BY <1>3, <1>5, <1>6 DEF StillToCome
<1> QED
  BY <1>3, <1>4, <1>7, StartWalkInv, Zenon

\* sys_execve begins its walk.
LEMMA ExecveInv ==
  ASSUME IInv, NEW p \in UserPath, sys_execve(p)
  PROVE  IInv'
<1> DEFINE c == [Idle EXCEPT !.op = "exec", !.todo = p.dir, !.last = p.last]
<1>1. p.dir \in Seq(Names) /\ p.last \in Names
  BY UserPathFacts, Zenon
<1>2. /\ c \in Call /\ c.op = "exec" /\ c.file = NoFile /\ c.todo = p.dir
  BY <1>1, IdleFacts, Zenon DEF Idle, Call, Ops
<1>3. StartWalk(c) /\ Len(p.dir) + 1 <= MAX_PATH
  BY Zenon DEF sys_execve
<1> HIDE DEF c
<1>4. StillToCome(c) = Len(p.dir) + 1
  BY <1>2, Zenon DEF StillToCome
<1>5. StillToCome(c) <= MAX_PATH
  BY <1>3, <1>4, Zenon
<1> QED
  BY <1>2, <1>3, <1>5, StartWalkInv, Zenon

-----------------------------------------------------------------------------
(* Every step keeps the invariant.                                         *)

\* The invariant holds when the first process starts.
LEMMA InitInv == Init => IInv
<1> SUFFICES ASSUME Init PROVE IInv
  BY Zenon
<1>1. call.pc = "idle" /\ call.cur = NoDentry /\ call.file = NoFile /\ call \in Call
  BY IdleFacts, Zenon DEF Init
<1>2. TypeOK
  BY <1>1, ConstantFacts, EmptyPath DEF Init, TypeOK
<1>3. CallShape /\ CallFd /\ NegativeTransient /\ NoStaleFlag
  BY <1>1, Zenon DEF Init, CallShape, CallFd, NegativeTransient, NoStaleFlag
<1>4. Shallow
  BY <1>1, Zenon DEF Init, Shallow
<1>5. FileRefs
  <2> SUFFICES ASSUME NEW f \in File
               PROVE  Cardinality(FdsOf(f)) = 0
    BY <1>1, ConstantFacts DEF Init, FileRefs
  <2>1. FdsOf(f) = {}
    BY ConstantFacts, Zenon DEF Init, FdsOf
  <2> QED
    BY <2>1, FS_EmptySet, Zenon
<1>6. DentryRefs
  <2> SUFFICES ASSUME NEW d \in Dentry
               PROVE  Cardinality(FilesOf(d)) = 0
    BY <1>1, ConstantFacts DEF Init, DentryRefs
  <2>1. FilesOf(d) = {}
    BY ConstantFacts, Zenon DEF Init, FilesOf
  <2> QED
    BY <2>1, FS_EmptySet, Zenon
<1>7. CwdIsDirectory
  BY TreeAssumption, Zenon DEF Init, CwdIsDirectory
<1> QED
  BY <1>2, <1>3, <1>4, <1>5, <1>6, <1>7, Zenon DEF IInv

\* One turn of the loop of path_walk.
LEMMA WalkInv ==
  ASSUME IInv, WalkDot \/ WalkDotDot \/ WalkHit
  PROVE  IInv'
<1>1. Walking /\ call.pc = "walk" /\ call.cur \in Dentry /\ ref \in [Dentry -> Int]
  BY Zenon DEF IInv, TypeOK, CallShape, Call, Walking, WalkDot, WalkDotDot, WalkHit
<1>2. \A d \in Dentry : Len(PathOf[d]) \in Nat
  BY PathDepth, Zenon
<1>3. CASE WalkDot
  BY <1>1, <1>2, <1>3, WalkToInv DEF WalkDot
<1>4. CASE WalkDotDot
  <2>1. CASE call.cur = Root
    BY <1>1, <1>2, <1>4, <2>1, WalkToInv DEF WalkDotDot
  <2>2. CASE call.cur # Root
    <3> DEFINE d == Parent[call.cur]
               r == dput(dget(ref, d), call.cur)
    <3>1. WalkTo(d, r)
      BY <1>4, <2>2, Zenon DEF WalkDotDot
    <3>2. d \in Dentry /\ Len(PathOf[call.cur]) = Len(PathOf[d]) + 1
      BY <1>1, <2>2, PathDepth, Zenon
    <3>3. /\ r \in [Dentry -> Int]
          /\ \A e \in Dentry :
               r[e] = ref[e] - (IF call.cur = e THEN 1 ELSE 0) + (IF d = e THEN 1 ELSE 0)
      BY <1>1, <3>2, SMTT(30) DEF dput, dget
    <3> HIDE DEF d, r
    <3>4. Len(PathOf[d]) <= Len(PathOf[call.cur]) + 1
      BY <1>1, <1>2, <3>2
    <3> QED
      BY <1>1, <3>1, <3>2, <3>3, <3>4, WalkToInv, SMTT(30)
  <2> QED
    BY <2>1, <2>2, Zenon
<1>5. CASE WalkHit
  <2> DEFINE d == d_lookup(call.cur, Head(call.todo))
             r == dput(dget(ref, d), call.cur)
  <2>1. d # NoDentry /\ WalkTo(d, r)
    BY <1>5, Zenon DEF WalkHit
  <2>2. d \in Dentry \ {Root} /\ Parent[d] = call.cur
    BY <2>1, LookupFacts, Zenon
  <2> HIDE DEF d
  <2>3. Len(PathOf[d]) = Len(PathOf[call.cur]) + 1
    BY <2>2, PathDepth
  <2>4. /\ r \in [Dentry -> Int]
        /\ \A e \in Dentry :
             r[e] = ref[e] - (IF call.cur = e THEN 1 ELSE 0) + (IF d = e THEN 1 ELSE 0)
    BY <1>1, <2>2 DEF dput, dget
  <2> HIDE DEF r
  <2>5. Len(PathOf[d]) <= Len(PathOf[call.cur]) + 1
    BY <1>1, <1>2, <2>2, <2>3
  <2> QED
    BY <1>1, <2>1, <2>2, <2>4, <2>5, WalkToInv, SMTT(30)
<1> QED
  BY <1>3, <1>4, <1>5, Zenon

\* A lookup that misses makes a negative dentry, which lasts as long as the lookup.
LEMMA WalkMissInv ==
  ASSUME IInv, WalkMiss
  PROVE  IInv'
<1>1. /\ call.pc = "walk" /\ call.todo # << >> /\ call.cur \in Dentry
      /\ call.todo \in Seq(Names) /\ call \in Call /\ call.file = NoFile
      /\ neg' = [neg EXCEPT ![call.cur] = @ \cup {Head(call.todo)}]
      /\ call' = [call EXCEPT !.pc = "lookup"]
      /\ UNCHANGED << ref, tableVars, current_directory >>
  BY ConstantFacts, Zenon DEF WalkMiss, Walking, IInv, TypeOK, CallShape, Call
<1>2. /\ call'.pc = "lookup" /\ call'.cur = call.cur /\ call'.todo = call.todo
      /\ call'.op = call.op /\ call'.fd = call.fd /\ call'.file = call.file
      /\ call' \in Call
  BY <1>1, Zenon DEF Call, Pcs
<1>3. Head(call.todo) \in Names
  BY <1>1, TailFacts, Zenon
<1>4. TypeOK'
  BY <1>1, <1>2, <1>3 DEF IInv, TypeOK, tableVars
<1>5. CallShape' /\ CallFd'
  BY <1>1, <1>2, Zenon DEF IInv, CallShape, CallFd, tableVars
<1>6. Shallow'
  BY <1>1, <1>2, Zenon DEF IInv, Shallow, StillToCome, tableVars
<1>7. FileRefs'
  BY <1>1, <1>2, WalkFiles DEF IInv
<1>8. DentryRefs'
  BY <1>1, <1>2, SameTable, Zenon DEF IInv, DentryRefs
<1>9. NegativeTransient'
  BY <1>1, <1>2, NoNegative, Zenon DEF NegativeTransient
<1>10. CwdIsDirectory' /\ NoStaleFlag'
  BY <1>1 DEF IInv, CwdIsDirectory, NoStaleFlag, tableVars
<1> QED
  BY <1>4, <1>5, <1>6, <1>7, <1>8, <1>9, <1>10, SMTT(30) DEF IInv

\* Every way a walk ends without a File.
LEMMA WalkOverInv ==
  ASSUME IInv, WalkNotDir \/ WalkNoMemory \/ LookupMiss \/ ChdirDone \/ ProbeDone \/ OpenFails
  PROVE  IInv'
<1>1. /\ call.pc \in {"walk", "lookup"} /\ call.cur \in Dentry
      /\ ref' = dput(ref, call.cur) /\ call' = Idle /\ UNCHANGED tableVars
  BY ConstantFacts, Zenon DEF IInv, TypeOK, CallShape, Call, WalkNotDir, WalkNoMemory, LookupMiss, ChdirDone,
     ProbeDone, OpenFails, Walking, Walked, WalkFails
<1>2. neg' \in [Dentry -> SUBSET Names] /\ \A d \in Dentry : neg'[d] = {}
  <2>1. CASE LookupMiss
    BY <1>1, <2>1, Zenon DEF LookupMiss, IInv, TypeOK, NegativeTransient
  <2>2. CASE ~LookupMiss
    <3>1. call.pc = "walk" /\ UNCHANGED neg
      BY <2>2, Zenon DEF WalkNotDir, WalkNoMemory, ChdirDone, ProbeDone, OpenFails, Walking, Walked
    <3> QED
      BY <3>1, NoNegative, Zenon
  <2> QED
    BY <2>1, <2>2
<1>3. current_directory' \in Seq(Names) /\ CwdIsDirectory'
  <2>1. CASE ChdirDone /\ call.cur \in Directory
    <3>1. Len(PathOf[call.cur]) <= MAX_PATH
      <4>1. call.pc = "walk" /\ call \in Call
        BY <2>1, Zenon DEF ChdirDone, Walked, IInv, TypeOK
      <4>2. StillToCome(call) \in Nat /\ Len(PathOf[call.cur]) \in Nat
        BY <1>1, <4>1, CallTodo, PathDepth, Zenon
      <4>3. Len(PathOf[call.cur]) + StillToCome(call) <= MAX_PATH
        BY <4>1, Zenon DEF IInv, Shallow
      <4> QED
        BY <4>2, <4>3, BoundsAssumption
    <3>2. current_directory' = PathOf[call.cur] /\ PathOf[call.cur] \in Seq(Names)
      BY <1>1, <2>1, <3>1, ShallowPath, Zenon DEF ChdirDone
    <3> QED
      BY <2>1, <3>2, Zenon DEF CwdIsDirectory
  <2>2. CASE ~(ChdirDone /\ call.cur \in Directory)
    <3>1. UNCHANGED current_directory
      BY <2>2, Zenon DEF WalkNotDir, WalkNoMemory, LookupMiss, ChdirDone, ProbeDone, OpenFails, WalkFails
    <3> QED
      BY <3>1, Zenon DEF IInv, TypeOK, CwdIsDirectory
  <2> QED
    BY <2>1, <2>2, Zenon
<1> QED
  BY <1>1, <1>2, <1>3, WalkEndInv, Zenon

\* sys_close keeps the invariant.
LEMMA SysCloseInv ==
  ASSUME IInv, NEW fd \in FdArg, sys_close(fd)
  PROVE  IInv'
<1>1. /\ call.pc = "idle" /\ fd \in FD /\ open_files[fd] # NoFile /\ close(open_files[fd])
      /\ open_files' = [open_files EXCEPT ![fd] = NoFile]
      /\ fd_flags' = [fd_flags EXCEPT ![fd] = FALSE]
      /\ UNCHANGED << neg, current_directory, call >>
  BY Zenon DEF sys_close, IsOpen
<1>2. /\ FileRefs' /\ DentryRefs' /\ NoStaleFlag'
      /\ ref' \in [Dentry -> Int] /\ fdent' \in [File -> Dentry \cup {NoDentry}]
      /\ fref' \in [File -> Int] /\ open_files' \in [FD -> File \cup {NoFile}]
      /\ fd_flags' \in [FD -> BOOLEAN]
      /\ \A g \in File : fdent'[g] # NoDentry => fdent'[g] = fdent[g]
  BY <1>1, CloseFdFacts, Zenon
<1>3. TypeOK' /\ Shallow'
  BY <1>1, <1>2, Zenon DEF IInv, TypeOK, Shallow
<1>4. CallShape' /\ CallFd' /\ NegativeTransient' /\ CwdIsDirectory'
  BY <1>1 DEF IInv, CallShape, CallFd, NegativeTransient, CwdIsDirectory
<1> QED
  BY <1>2, <1>3, <1>4, Zenon DEF IInv

\* The loops of sys_execve and sys_exit close a descriptor or pass it over.
LEMMA CloseLoopInv ==
  ASSUME IInv, CloseLoop
  PROVE  IInv'
<1>1. /\ call.pc = "closing" /\ call.fd < MAX_OPEN_FILES /\ call \in Call
      /\ call.fd \in 3 .. MAX_OPEN_FILES /\ MAX_OPEN_FILES \in Nat
      /\ call' = [call EXCEPT !.fd = @ + 1]
      /\ UNCHANGED << neg, current_directory >>
  BY BoundsAssumption, Zenon DEF CloseLoop, IInv, TypeOK, CallFd
<1>2. /\ call'.pc = "closing" /\ call'.cur = call.cur /\ call'.file = call.file
      /\ call'.op = call.op /\ call'.fd = call.fd + 1 /\ call' \in Call
  <2>1. call.fd + 1 \in 0 .. MAX_OPEN_FILES
    BY <1>1
  <2> QED
    BY <1>1, <2>1, Zenon DEF Call
<1>3. call.fd \in FD
  BY <1>1 DEF FD
<1>4. /\ FileRefs' /\ DentryRefs' /\ NoStaleFlag' /\ TypeOK' /\ Shallow'
  <2>1. CASE MustClose(call.fd)
    <3>1. /\ open_files[call.fd] # NoFile /\ close(open_files[call.fd])
          /\ open_files' = [open_files EXCEPT ![call.fd] = NoFile]
          /\ fd_flags' = [fd_flags EXCEPT ![call.fd] = FALSE]
      BY <2>1, Zenon DEF CloseLoop, MustClose
    <3>2. /\ FileRefs' /\ DentryRefs' /\ NoStaleFlag'
          /\ ref' \in [Dentry -> Int] /\ fdent' \in [File -> Dentry \cup {NoDentry}]
          /\ fref' \in [File -> Int] /\ open_files' \in [FD -> File \cup {NoFile}]
          /\ fd_flags' \in [FD -> BOOLEAN]
          /\ \A g \in File : fdent'[g] # NoDentry => fdent'[g] = fdent[g]
      BY <1>2, <1>3, <3>1, CloseFdFacts, Zenon
    <3> QED
      BY <1>1, <1>2, <3>2 DEF IInv, TypeOK, Shallow
  <2>2. CASE ~MustClose(call.fd)
    <3>1. UNCHANGED << ref, tableVars >>
      BY <2>2, Zenon DEF CloseLoop
    <3>2. FileRefs' /\ DentryRefs'
      BY <1>2, <3>1, SameTable, WalkFiles DEF IInv, DentryRefs
    <3> QED
      BY <1>1, <1>2, <3>1, <3>2 DEF IInv, TypeOK, Shallow, NoStaleFlag, tableVars
  <2> QED
    BY <2>1, <2>2, Zenon
<1>5. CallFd'
  <2> SUFFICES ASSUME NEW fd \in 3 .. call.fd
               PROVE  ~fd_flags'[fd] /\ (call.op = "exit" => open_files'[fd] = NoFile)
    BY <1>1, <1>2 DEF CallFd
  <2>1. fd \in FD
    BY <1>1 DEF FD
  <2>2. fd # call.fd => ~fd_flags[fd] /\ (call.op = "exit" => open_files[fd] = NoFile)
    BY <1>1 DEF IInv, CallFd
  <2>3. open_files \in [FD -> File \cup {NoFile}] /\ fd_flags \in [FD -> BOOLEAN] /\ NoStaleFlag
    BY Zenon DEF IInv, TypeOK
  <2>4. CASE MustClose(call.fd)
    BY <1>3, <2>1, <2>2, <2>3, <2>4 DEF CloseLoop
  <2>5. CASE ~MustClose(call.fd)
    BY <1>3, <2>1, <2>2, <2>3, <2>5, Zenon DEF CloseLoop, MustClose, NoStaleFlag, tableVars
  <2> QED
    BY <2>4, <2>5, Zenon
<1>6. CallShape' /\ NegativeTransient' /\ CwdIsDirectory'
  BY <1>1, <1>2, Zenon DEF IInv, CallShape, NegativeTransient, CwdIsDirectory
<1> QED
  BY <1>4, <1>5, <1>6, Zenon DEF IInv

\* The steps that change no object: only where the call stands, or a flag, or
\* the working directory.
LEMMA CallMovesInv ==
  ASSUME IInv, ExecFails \/ ExecActivated \/ sys_exit \/ CloseLoopEnds
  PROVE  IInv'
<1>1. /\ call.pc \in {"idle", "prepared", "closing"} /\ call \in Call
      /\ call.cur = NoDentry /\ call.file = NoFile
      /\ UNCHANGED << ref, neg, tableVars, current_directory >>
  BY Zenon DEF ExecFails, ExecActivated, sys_exit, CloseLoopEnds, IInv, TypeOK, CallShape
<1>2. /\ call' \in Call /\ call'.cur = NoDentry /\ call'.file = NoFile
      /\ call'.pc \in {"idle", "closing", "exited"}
      /\ call'.pc = "closing" => call'.fd = 3
      /\ call'.pc = "exited" =>
           /\ call.pc = "closing" /\ call.fd = MAX_OPEN_FILES /\ call.op = "exit"
           /\ call'.fd = call.fd /\ call'.op = call.op
  <2>1. 3 \in 0 .. MAX_OPEN_FILES
    BY BoundsAssumption
  <2>2. CASE ExecFails
    BY <2>2, IdleFacts, Zenon DEF ExecFails
  <2>3. CASE ExecActivated
    BY <1>1, <2>1, <2>3, Zenon DEF ExecActivated, Call, Pcs
  <2>4. CASE sys_exit
    BY <2>1, <2>4, IdleFacts, Zenon DEF sys_exit, Idle, Call, Pcs, Ops
  <2>5. CASE CloseLoopEnds
    BY <1>1, <2>5, IdleFacts, Zenon DEF CloseLoopEnds, Call, Pcs
  <2> QED
    BY <2>2, <2>3, <2>4, <2>5, Zenon
<1>3. TypeOK' /\ Shallow' /\ NoStaleFlag' /\ CwdIsDirectory'
  BY <1>1, <1>2, Zenon DEF IInv, TypeOK, Shallow, NoStaleFlag, CwdIsDirectory, tableVars
<1>4. CallShape' /\ CallFd'
  BY <1>1, <1>2, BoundsAssumption, SMTT(30) DEF IInv, CallShape, CallFd, tableVars
<1>5. FileRefs' /\ DentryRefs'
  BY <1>1, <1>2, SameTable, WalkFiles, SMTT(30) DEF IInv, DentryRefs
<1>6. NegativeTransient'
  BY <1>1, NoNegative DEF NegativeTransient
<1> QED
  BY <1>3, <1>4, <1>5, <1>6 DEF IInv

\* F_SETFD changes the flag of an open descriptor.
LEMMA FcntlInv ==
  ASSUME IInv, NEW fd \in FdArg, NEW c \in BOOLEAN, sys_fcntl_setfd(fd, c)
  PROVE  IInv'
<1>1. /\ call.pc = "idle" /\ fd \in FD /\ open_files[fd] # NoFile
      /\ fd_flags' = [fd_flags EXCEPT ![fd] = c]
      /\ UNCHANGED << ref, neg, fdent, fref, open_files, current_directory, call >>
  BY Zenon DEF sys_fcntl_setfd, IsOpen
<1>2. TypeOK' /\ NoStaleFlag'
  BY <1>1, Zenon DEF IInv, TypeOK, NoStaleFlag
<1>3. FileRefs' /\ DentryRefs'
  <2>1. \A x : FdsOf(x)' = FdsOf(x) /\ FilesOf(x)' = FilesOf(x)
    BY <1>1, Zenon DEF FdsOf, FilesOf
  <2>2. FileRefs'
    BY <1>1, <2>1, SMTT(30) DEF IInv, FileRefs
  <2>3. DentryRefs'
    BY <1>1, <2>1, SMTT(30) DEF IInv, DentryRefs
  <2> QED
    BY <2>2, <2>3, Zenon
<1>4. CallShape' /\ CallFd' /\ Shallow' /\ NegativeTransient' /\ CwdIsDirectory'
  BY <1>1, Zenon DEF IInv, CallShape, CallFd, Shallow, NegativeTransient, CwdIsDirectory
<1> QED
  BY <1>2, <1>3, <1>4, Zenon DEF IInv

\* sys_fchdir sets the working directory to the path of an open directory.
LEMMA FchdirInv ==
  ASSUME IInv, NEW fd \in FdArg, sys_fchdir(fd)
  PROVE  IInv'
<1> DEFINE d == fdent[open_files[fd]]
<1>1. /\ call.pc = "idle" /\ fd \in FD /\ open_files[fd] \in File /\ d \in Directory
      /\ current_directory' = dentry_path(d)
      /\ UNCHANGED << ref, neg, tableVars, call >>
  BY Zenon DEF sys_fchdir, IsOpen, IInv, TypeOK
<1>2. d \in Dentry /\ d # NoDentry
  BY <1>1, ConstantFacts, Zenon
<1>3. Len(PathOf[d]) <= MAX_PATH
  BY <1>1, <1>2 DEF IInv, Shallow
<1>4. current_directory' = PathOf[d] /\ current_directory' \in Seq(Names)
  BY <1>1, <1>2, <1>3, ShallowPath, SMTT(30)
<1> HIDE DEF d
<1>5. TypeOK' /\ CwdIsDirectory'
  BY <1>1, <1>4, Zenon DEF IInv, TypeOK, CwdIsDirectory, tableVars
<1>6. FileRefs' /\ DentryRefs'
  <2>1. FileRefs'
    BY <1>1, WalkFiles, Zenon DEF IInv
  <2>2. UNCHANGED << ref, call >> /\ \A x : FilesOf(x)' = FilesOf(x)
    BY <1>1, SameTable, Zenon
  <2>3. DentryRefs'
    BY <2>2, SMTT(30) DEF IInv, DentryRefs
  <2> QED
    BY <2>1, <2>3
<1>7. CallShape' /\ CallFd' /\ Shallow' /\ NegativeTransient' /\ NoStaleFlag'
  BY <1>1, Zenon DEF IInv, CallShape, CallFd, Shallow, NegativeTransient, NoStaleFlag, tableVars
<1> QED
  BY <1>5, <1>6, <1>7 DEF IInv

\* Every step keeps the invariant.
LEMMA StepInv == IInv /\ [Next]_vars => IInv'
<1> SUFFICES ASSUME IInv, [Next]_vars PROVE IInv'
  BY Zenon
<1>1. CASE PathCalls
  <2>1. PICK p \in UserPath :
          \/ \E dirfd \in FdArg \cup {AT_FDCWD} : sys_openat(dirfd, p) \/ sys_stat_path(dirfd, p)
          \/ sys_chdir(p)
          \/ sys_execve(p)
    BY <1>1, Zenon DEF PathCalls
  <2>2. CASE \E dirfd \in FdArg \cup {AT_FDCWD} : sys_openat(dirfd, p)
    <3>1. PICK dirfd : sys_openat(dirfd, p)
      BY <2>2, Zenon
    <3> QED
      BY <3>1, OpenatInv, SMTT(30)
  <2>3. CASE \E dirfd \in FdArg \cup {AT_FDCWD} : sys_stat_path(dirfd, p)
    <3>1. PICK dirfd, base :
            /\ resolve_user_path(dirfd, p, base)
            /\ StartWalk([Idle EXCEPT !.op = "probe", !.todo = WholePath(base, p)])
      BY <2>3, ZenonT(40) DEF sys_stat_path
    <3> QED
      BY <3>1, WholeWalkInv, ZenonT(40)
  <2>4. CASE sys_chdir(p)
    <3>1. PICK dirfd, base :
            /\ resolve_user_path(dirfd, p, base)
            /\ StartWalk([Idle EXCEPT !.op = "chdir", !.todo = WholePath(base, p)])
      BY <2>4, ZenonT(40) DEF sys_chdir
    <3> QED
      BY <3>1, WholeWalkInv, ZenonT(40)
  <2>5. CASE sys_execve(p)
    BY <2>5, ExecveInv
  <2> QED
    BY <2>1, <2>2, <2>3, <2>4, <2>5, Zenon
<1>2. CASE FdCalls
  <2>1. PICK fd \in FdArg :
          \/ sys_close(fd)
          \/ sys_fchdir(fd)
          \/ \E c \in BOOLEAN :
               \/ sys_fcntl_setfd(fd, c)
               \/ \E new \in FdArg : dup_exact(fd, new, c) \/ dup_lowest(fd, new, c)
    BY <1>2, Zenon DEF FdCalls
  <2>2. CASE sys_close(fd)
    BY <2>2, SysCloseInv, Zenon
  <2>3. CASE sys_fchdir(fd)
    BY <2>3, FchdirInv, Zenon
  <2>4. CASE \E c \in BOOLEAN : sys_fcntl_setfd(fd, c)
    BY <2>4, FcntlInv, Zenon
  <2>5. CASE \E c \in BOOLEAN, new \in FdArg : dup_exact(fd, new, c)
    BY <2>5, CopyFdInv, Zenon DEF dup_exact, IsOpen
  <2>6. CASE \E c \in BOOLEAN, new \in FdArg : dup_lowest(fd, new, c)
    BY <2>6, CopyFdInv DEF dup_lowest, IsOpen
  <2> QED
    BY <2>1, <2>2, <2>3, <2>4, <2>5, <2>6, SMTT(30)
<1>3. CASE KernelStep
  BY <1>3, WalkInv, WalkMissInv, WalkOverInv, OpenDoneInv, ExecOpenedInv, ExecClosedInv,
     CallMovesInv, CloseLoopInv, SMTT(30) DEF KernelStep
<1>4. CASE sys_exit
  BY <1>4, CallMovesInv, Zenon
<1>5. CASE UNCHANGED vars
  <2>1. FileRefs' /\ DentryRefs'
    BY <1>5 DEF IInv, FileRefs, DentryRefs, FdsOf, FilesOf, vars
  <2>2. TypeOK' /\ CallShape' /\ CallFd' /\ Shallow'
    BY <1>5, Zenon DEF IInv, TypeOK, CallShape, CallFd, Shallow, StillToCome, vars
  <2>3. NegativeTransient' /\ CwdIsDirectory' /\ NoStaleFlag'
    BY <1>5, Zenon DEF IInv, NegativeTransient, CwdIsDirectory, NoStaleFlag, vars
  <2> QED
    BY <2>1, <2>2, <2>3 DEF IInv
<1> QED
  BY <1>1, <1>2, <1>3, <1>4, <1>5, SMTT(30) DEF Next, Halted

\* The invariant holds throughout.
LEMMA Invariance == Spec => []IInv
  BY InitInv, StepInv, PTL DEF Spec

-----------------------------------------------------------------------------
(* The theorems.                                                           *)

\* The descriptor table, the counts and the call in progress keep their types.
THEOREM Typing == Spec => []TypeOK
<1>1. IInv => TypeOK
  BY Zenon DEF IInv
<1> QED
  BY <1>1, Invariance, PTL

\* The count of a File is the number of its descriptors, plus the execve reading
\* it, and a File is free exactly at zero, for any number of Files and
\* descriptors and any sequence of calls.
THEOREM FileCounts == Spec => []FileRefs
<1>1. IInv => FileRefs
  BY DEF IInv
<1> QED
  BY <1>1, Invariance, PTL

\* The count of a dentry is one for the tree, one for every File on it and one
\* for the walk standing on it, in every tree.
THEOREM DentryCounts == Spec => []DentryRefs
<1>1. IInv => DentryRefs
  BY Zenon DEF IInv
<1> QED
  BY <1>1, Invariance, PTL

\* Inode-less dentries live inside one path_walk only.
THEOREM NegativesAreTransient == Spec => []NegativeTransient
<1>1. IInv => NegativeTransient
  BY Zenon DEF IInv
<1> QED
  BY <1>1, Invariance, PTL

\* Every count says who holds the object, through every path_walk, open and close.
THEOREM ReferencesExact == Spec => []RefsExact
<1>1. FileRefs /\ DentryRefs /\ NegativeTransient => RefsExact
  BY Zenon DEF RefsExact
<1> QED
  BY <1>1, FileCounts, DentryCounts, NegativesAreTransient, PTL

\* The working directory always spells a directory of the tree, even in a tree
\* with paths longer than a path buffer.
THEOREM CwdStaysValid == Spec => []CwdIsDirectory
<1>1. IInv => CwdIsDirectory
  BY Zenon DEF IInv
<1> QED
  BY <1>1, Invariance, PTL

\* FD_CLOEXEC never outlives the descriptor it was set on.
THEOREM FlagsFollowDescriptors == Spec => []NoStaleFlag
<1>1. IInv => NoStaleFlag
  BY DEF IInv
<1> QED
  BY <1>1, Invariance, PTL

\* sys_exit leaves no File behind but those on descriptors 0 to 2.
THEOREM ExitReleasesFiles == Spec => []ExitReleases
<1>1. IInv => ExitReleases
  <2> SUFFICES ASSUME IInv, call.pc = "exited", NEW f \in File, fdent[f] # NoDentry
               PROVE  FdsOf(f) # {} /\ FdsOf(f) \subseteq 0 .. 2
    BY Zenon DEF ExitReleases
  <2>1. call.file # f
    BY ConstantFacts DEF IInv, CallShape
  <2>2. Cardinality(FdsOf(f)) # 0
    BY <2>1, CountsAreNat DEF IInv, FileRefs
  <2>3. FdsOf(f) # {}
    BY <2>2, FS_EmptySet, Zenon
  <2>4. \A fd \in 3 .. MAX_OPEN_FILES - 1 : open_files[fd] = NoFile
    BY Zenon DEF IInv, CallShape, CallFd
  <2>5. FdsOf(f) \subseteq 0 .. 2
    BY <2>4, ConstantFacts, BoundsAssumption DEF FdsOf, FD
  <2> QED
    BY <2>3, <2>5, Zenon
<1> QED
  BY <1>1, Invariance, PTL

\* A successful execve closes the marked descriptors from 3 up and no other, and one that
\* fails closes none.
THEOREM ExecClosesMarked == Spec => CloseOnExec
<1> DEFINE Others == \A fd \in FD : \/ call.pc = "closing" /\ fd_flags[fd]
                                    \/ open_files'[fd] = open_files[fd] /\ fd_flags'[fd] = fd_flags[fd]
           Closed == call.pc = "closing" /\ call'.pc = "idle" => \A fd \in FD : fd >= 3 => ~fd_flags'[fd]
           Step == call.op = "exec" /\ call.pc # "idle" => /\ Others
                                                           /\ Closed
<1>1. ASSUME IInv, Next, call.op = "exec", call.pc # "idle" PROVE Others /\ Closed
  <2>1. \/ CloseLoop \/ CloseLoopEnds
        \/ call.pc # "closing" /\ UNCHANGED << open_files, fd_flags >>
    BY <1>1, Zenon DEF Next, PathCalls, FdCalls, KernelStep, Halted, vars, tableVars, sys_exit, WalkDot,
       WalkDotDot, WalkNotDir, WalkHit, WalkMiss, WalkNoMemory, LookupMiss, Walking, WalkTo, WalkFails,
       Walked, ChdirDone, ProbeDone, OpenFails, OpenDone, ExecOpened, ExecClosed, ExecFails, ExecActivated
  <2>2. /\ call \in Call /\ open_files \in [FD -> File \cup {NoFile}]
        /\ fd_flags \in [FD -> BOOLEAN]
    BY <1>1, Zenon DEF IInv, TypeOK
  <2>3. CASE CloseLoop
    <3>1. call.pc = "closing" /\ call'.pc = "closing"
      BY <2>2, <2>3, Zenon DEF CloseLoop, Call
    <3>2. ASSUME NEW fd \in FD, ~fd_flags[fd]
          PROVE  open_files'[fd] = open_files[fd] /\ fd_flags'[fd] = fd_flags[fd]
      <4>1. CASE MustClose(call.fd)
        <5>1. fd # call.fd
          BY <1>1, <3>2, <4>1, Zenon DEF MustClose
        <5>2. /\ open_files' = [open_files EXCEPT ![call.fd] = NoFile]
              /\ fd_flags' = [fd_flags EXCEPT ![call.fd] = FALSE]
          BY <2>3, <4>1, Zenon DEF CloseLoop
        <5> QED
          BY <2>2, <5>1, <5>2, Zenon
      <4>2. CASE ~MustClose(call.fd)
        BY <2>3, <4>2, Zenon DEF CloseLoop, tableVars
      <4> QED
        BY <4>1, <4>2, Zenon
    <3> QED
      BY <3>1, <3>2, Zenon
  <2>4. CASE CloseLoopEnds
    <3>1. UNCHANGED << open_files, fd_flags >> /\ call.fd = MAX_OPEN_FILES /\ call.pc = "closing"
      BY <2>4, Zenon DEF CloseLoopEnds, tableVars
    <3>2. \A fd \in 3 .. MAX_OPEN_FILES - 1 : ~fd_flags[fd]
      BY <1>1, <3>1, Zenon DEF IInv, CallFd
    <3>3. \A fd \in FD : fd >= 3 => fd \in 3 .. MAX_OPEN_FILES - 1
      BY BoundsAssumption DEF FD
    <3> QED
      BY <3>1, <3>2, <3>3, Zenon
  <2>5. CASE call.pc # "closing" /\ UNCHANGED << open_files, fd_flags >>
    BY <2>5, Zenon
  <2> QED
    BY <2>1, <2>3, <2>4, <2>5, Zenon
<1>2. IInv /\ [Next]_vars => [Step]_vars
  BY <1>1, Zenon
<1>3. Spec => [][Step]_vars
  BY <1>2, Invariance, PTL DEF Spec
<1> QED
  BY <1>3, SMTT(30) DEF CloseOnExec
=============================================================================
