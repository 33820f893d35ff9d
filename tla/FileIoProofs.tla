---------------------------- MODULE FileIoProofs ----------------------------
(***************************************************************************)
(* Transfers, seeks, directory reads and structures are exact, for every   *)
(* file, directory, width of an offset, chunk size, page layout and vector.*)
(*                                                                         *)
(* The properties speak of a call that has returned.  SeekInv adds what    *)
(* keeps offsets within the width (reads stop at the end of the file,      *)
(* directory reads and their rewinds at the end of the directory) and that *)
(* nothing moves between entering lseek and its one step.  IoInv adds what *)
(* holds in the middle of the loops: how far a vector has come (Shape),    *)
(* what the console has received (Writing), which records are out          *)
(* (Listing).  Reading is the same for reads, and needs that no vector     *)
(* names an address twice.                                                 *)
(***************************************************************************)
EXTENDS FileIo, WellFoundedInduction, TLAPS

\* Leaves are for Zenon unless they name another prover.
USE Zenon

\* The table of descriptors.
LEMMA OpenFacts ==
  /\ DOMAIN open_files = {3, 4, 5}
  /\ open_files[3] = "file" /\ open_files[4] = "dir" /\ open_files[5] = "sink"
  /\ \A fd \in DOMAIN open_files : open_files[fd] \in File
BY SMT DEF open_files, File

\* The elements of a sequence.
LEMMA ElementOf == ASSUME NEW S, NEW s \in Seq(S), NEW i \in 1 .. Len(s) PROVE s[i] \in S
  BY SMT

-----------------------------------------------------------------------------
(* Seeking.                                                                *)

\* The span between two offsets.
Between(from, m, off, len) ==
  /\ (IF from <= len THEN from ELSE len) = from
  /\ off - from = m /\ off >= from

\* Between entering lseek and its step the offset stands still.
Seeks ==
  /\ call.op = "lseek" => call.pc \in {"lseek", "returned"}
  /\ call.pc = "lseek" =>
       /\ call.op = "lseek" /\ call.buf \in Offsets /\ call.count \in 0 .. 3
       /\ call.fd \in DOMAIN open_files => call.from = offset[open_files[call.fd]]

\* A call that is not lseek, and did not become one, satisfies what is said of lseek.
LEMMA NotASeek ==
  ASSUME call'.op # "lseek", call'.pc # "lseek"
  PROVE  Seeks' /\ SeekExact'
BY DEF Seeks, SeekExact, Returned

\* A call is a record of its fields.
IsCall ==
  call = [pc |-> call.pc, op |-> call.op, fd |-> call.fd, buf |-> call.buf, count |-> call.count,
          done |-> call.done, iovs |-> call.iovs, iov |-> call.iov, i |-> call.i,
          total |-> call.total, from |-> call.from, result |-> call.result]

Typed ==
  /\ IsCall
  /\ offset \in [File -> 0 .. INT_MAX]
  /\ call.fd \in Nat /\ call.count \in Nat
  /\ call.from \in 0 .. INT_MAX
  /\ call.i \in Nat \ {0}
  /\ call.iovs \in Seq([base : Nat, length : Nat])

\* A transfer has a File to read from, and counts what it has read.
Transfers ==
  call.pc = "reading" => call.fd \in DOMAIN open_files /\ call.done \in Nat /\ call.done <= call.count

SeekInv == Typed /\ Transfers /\ Seeks /\ SeekExact

\* Before the first call.
LEMMA InitInv == Init => SeekInv
<1> SUFFICES ASSUME Init PROVE SeekInv
  OBVIOUS
<1>1. call = NoCall /\ offset = [f \in File |-> 0]
  BY DEF Init
<1>2. Typed
  BY <1>1, WidthAssumption, SMT DEF Typed, IsCall, NoCall
<1>3. call.pc = "user" /\ call.op = "none"
  BY <1>1 DEF NoCall
<1> QED
  BY <1>2, <1>3 DEF SeekInv, Transfers, Seeks, SeekExact, Returned

\* The steps of a call that is not lseek: which fields they leave alone.
Kept == call'.op = call.op /\ call'.fd = call.fd /\ call'.from = call.from /\ call'.iovs = call.iovs

\* Every step keeps the invariant.
LEMMA StepInv == SeekInv /\ [Next]_vars => SeekInv'
\* A step of a call other than lseek has only to keep the types and the transfers.
<1>OtherStep.
    ASSUME SeekInv, call.op # "lseek", (offset \in [File -> 0 .. INT_MAX])', IsCall', Kept,
           call'.pc # "lseek", call'.i \in Nat \ {0}, call'.count \in Nat, Transfers'
    PROVE  SeekInv'
  <2> USE <1>OtherStep
  <2>1. call'.op # "lseek"
    BY DEF Kept
  <2>2. Seeks' /\ SeekExact'
    BY <2>1, NotASeek
  <2>3. /\ call'.fd \in Nat /\ call'.from \in 0 .. INT_MAX
        /\ call'.iovs \in Seq([base : Nat, length : Nat])
    BY DEF SeekInv, Typed, Kept
  <2>4. Typed'
    BY <2>3 DEF Typed
  <2> QED
    BY <2>2, <2>4 DEF SeekInv
\* Returning changes the place and the result alone.
<1>ReturnFacts.
    ASSUME IsCall, NEW r, Return(r)
    PROVE  /\ IsCall' /\ Kept /\ call'.pc = "returned" /\ call'.result = r
           /\ call'.i = call.i /\ call'.count = call.count /\ call'.buf = call.buf
  BY <1>ReturnFacts DEF IsCall, Return, Kept
\* A transfer that ends returns or goes on to the next element of its vector.
<1>DoneFacts.
    ASSUME IsCall, call.i \in Nat \ {0}, NEW r, Done(r)
    PROVE  /\ IsCall' /\ Kept /\ call'.pc \in {"returned", "iov"}
           /\ call'.i \in Nat \ {0} /\ call'.count = call.count
  <2> USE <1>DoneFacts
  <2>1. CASE \E q : Return(q)
    BY <2>1, <1>ReturnFacts
  <2>2. CASE call' = [call EXCEPT !.pc = "iov", !.total = @ + r, !.i = @ + 1]
    <3>1. IsCall'
      BY <2>2 DEF IsCall
    <3>2. call'.i = call.i + 1 /\ call'.pc = "iov" /\ call'.count = call.count /\ Kept
      BY <2>2 DEF IsCall, Kept
    <3> QED
      BY <3>1, <3>2, SMT
  <2> QED
    BY <2>1, <2>2 DEF Done
\* A returned call that is not lseek.
<1>DoneInv.
    ASSUME SeekInv, call.op # "lseek", (offset \in [File -> 0 .. INT_MAX])', NEW r, Done(r)
    PROVE  SeekInv'
  <2> USE <1>DoneInv
  <2>1. /\ IsCall' /\ Kept /\ call'.pc \in {"returned", "iov"}
        /\ call'.i \in Nat \ {0} /\ call'.count = call.count
    BY <1>DoneFacts DEF SeekInv, Typed
  <2>2. call'.count \in Nat /\ call'.pc # "lseek" /\ Transfers'
    BY <2>1 DEF SeekInv, Typed, Transfers
  <2> QED
    BY <2>1, <2>2, <1>OtherStep
\* A call that is not lseek returns.
<1>ReturnInv.
    ASSUME SeekInv, call.op # "lseek", (offset \in [File -> 0 .. INT_MAX])', NEW r, Return(r)
    PROVE  SeekInv'
  <2> USE <1>ReturnInv
  <2>1. /\ IsCall' /\ Kept /\ call'.pc = "returned" /\ call'.i = call.i /\ call'.count = call.count
    BY <1>ReturnFacts DEF SeekInv, Typed
  <2>2. call'.count \in Nat /\ call'.i \in Nat \ {0} /\ call'.pc # "lseek" /\ Transfers'
    BY <2>1 DEF SeekInv, Typed, Transfers
  <2> QED
    BY <2>1, <2>2, <1>OtherStep
\* Outside lseek, a step is of another call.
<1>OtherCall.
    ASSUME SeekInv, call.pc # "lseek", call.pc # "returned"
    PROVE  call.op # "lseek"
  BY <1>OtherCall DEF SeekInv, Seeks
\* user code asks for the next call.
<1>DispatchInv. SeekInv /\ Dispatch => SeekInv'
\* The offset a call starts from.
  <2>FromFacts.
      ASSUME offset \in [File -> 0 .. INT_MAX], NEW fd
      PROVE  (IF fd \in DOMAIN open_files THEN offset[open_files[fd]] ELSE 0) \in 0 .. INT_MAX
    <3> USE <2>FromFacts
    <3>1. 0 \in 0 .. INT_MAX
      BY WidthAssumption, SMT
    <3> QED
      BY <3>1, OpenFacts
  \* Entering any call through Enter: the offset is remembered.
  <2>EnterInv.
      ASSUME SeekInv, NEW op, NEW fd \in Nat, NEW buf, NEW count \in Nat,
             op = "lseek" => buf \in Offsets /\ count \in 0 .. 3,
             op \notin {"reading", "returned"},
             Enter(op, fd, buf, count)
      PROVE  SeekInv'
    <3> USE <2>EnterInv
    <3>1. /\ call' = [NoCall EXCEPT !.op = op, !.pc = op, !.fd = fd, !.buf = buf, !.count = count,
                                !.from = IF fd \in DOMAIN open_files THEN offset[open_files[fd]] ELSE 0]
          /\ offset' = offset
      BY DEF Enter, fileState
    <3>2. /\ call'.pc = op /\ call'.op = op /\ call'.fd = fd /\ call'.buf = buf /\ call'.count = count
          /\ call'.i = 1 /\ call'.iovs = << >>
          /\ call'.from = IF fd \in DOMAIN open_files THEN offset[open_files[fd]] ELSE 0
          /\ IsCall'
      BY <3>1 DEF NoCall, IsCall
    <3>3. call'.from \in 0 .. INT_MAX
      BY <3>2, <2>FromFacts DEF SeekInv, Typed
    <3>4. << >> \in Seq([base : Nat, length : Nat])
      BY SMT
    <3>5. Typed'
      <4>1. (offset \in [File -> 0 .. INT_MAX])'
        BY <3>1 DEF SeekInv, Typed
      <4>2. call'.i \in Nat \ {0} /\ call'.fd \in Nat /\ call'.count \in Nat
        BY <3>2, SMT
      <4>3. call'.iovs \in Seq([base : Nat, length : Nat])
        BY <3>2, <3>4
      <4> QED
        BY <3>2, <3>3, <4>1, <4>2, <4>3 DEF Typed
    <3>6. Seeks'
      BY <3>1, <3>2 DEF Seeks
    <3> QED
      BY <3>2, <3>5, <3>6 DEF SeekInv, Transfers, SeekExact, Returned
  <2> SUFFICES ASSUME SeekInv, Dispatch PROVE SeekInv'
    OBVIOUS
  <2> DEFINE Vec(op, fd, v) == sys_vector_io(op, fd, v.iov, v.iovs)
  <2>1. CASE \E fd \in FdArg, buf \in Buffers, count \in Counts :
               Enter("read", fd, buf, count) \/ Enter("write", fd, buf, count)
                 \/ Enter("getdents64", fd, buf, count)
    <3>1. PICK fd \in FdArg, buf \in Buffers, count \in Counts, op \in {"read", "write", "getdents64"} :
               Enter(op, fd, buf, count)
      BY <2>1
    <3>2. fd \in Nat /\ count \in Nat
      BY ArgAssumption
    <3>3. op \notin {"lseek", "reading", "returned"}
      OBVIOUS
    <3> QED
      BY <3>1, <3>2, <3>3, <2>EnterInv
  <2>2. CASE \E op \in StructCalls, fd \in {1, 3, 4}, buf \in Buffers, count \in {STRUCT - 1, STRUCT} :
               Enter(op, fd, buf, count)
    <3>1. PICK op \in StructCalls, fd \in {1, 3, 4}, buf \in Buffers, count \in {STRUCT - 1, STRUCT} :
               Enter(op, fd, buf, count)
      BY <2>2
    <3>2. count \in Nat /\ fd \in Nat
      BY ArgAssumption, SMT
    <3>3. op \notin {"lseek", "reading", "returned"}
      BY DEF StructCalls
    <3> QED
      BY <3>1, <3>2, <3>3, <2>EnterInv
  <2>3. CASE \E fd \in FdArg, v \in IoVectors : Vec("readv", fd, v) \/ Vec("writev", fd, v)
    <3>1. PICK fd \in FdArg, v \in IoVectors, op \in {"readv", "writev"} : Vec(op, fd, v)
      BY <2>3
    <3>2. /\ offset' = offset
          /\ \E vector, error :
               /\ vector = [NoCall EXCEPT !.op = op, !.fd = fd, !.iovs = v.iovs, !.iov = v.iov,
                              !.from = IF fd \in DOMAIN open_files THEN offset[open_files[fd]] ELSE 0]
               /\ \/ call' = [vector EXCEPT !.pc = "returned", !.result = error]
                  \/ call' = [vector EXCEPT !.pc = "iov"]
      BY <3>1 DEF sys_vector_io, fileState
    <3> DEFINE from == IF fd \in DOMAIN open_files THEN offset[open_files[fd]] ELSE 0
    <3>3. /\ IsCall' /\ call'.op = op /\ call'.pc \in {"returned", "iov"} /\ call'.fd = fd
          /\ call'.i = 1 /\ call'.count = 0 /\ call'.iovs = v.iovs /\ call'.from = from
      <4>1. PICK vector, error :
               /\ vector = [NoCall EXCEPT !.op = op, !.fd = fd, !.iovs = v.iovs, !.iov = v.iov, !.from = from]
               /\ \/ call' = [vector EXCEPT !.pc = "returned", !.result = error]
                  \/ call' = [vector EXCEPT !.pc = "iov"]
        BY <3>2
      <4> HIDE DEF from
      <4>2. vector = [pc |-> "user", op |-> op, fd |-> fd, buf |-> 0, count |-> 0, done |-> 0,
                      iovs |-> v.iovs, iov |-> v.iov, i |-> 1, total |-> 0, from |-> from, result |-> 0]
        BY <4>1 DEF NoCall
      <4>3. CASE call' = [vector EXCEPT !.pc = "returned", !.result = error]
        BY <4>2, <4>3 DEF IsCall
      <4>4. CASE call' = [vector EXCEPT !.pc = "iov"]
        BY <4>2, <4>4 DEF IsCall
      <4> QED
        BY <4>1, <4>3, <4>4
    <3>4. call'.from \in 0 .. INT_MAX
      BY <3>3, <2>FromFacts DEF SeekInv, Typed
    <3>5. call'.iovs \in Seq([base : Nat, length : Nat]) /\ call'.fd \in Nat
      BY <3>3, ArgAssumption
    <3>6. (offset \in [File -> 0 .. INT_MAX])'
      BY <3>2 DEF SeekInv, Typed
    <3>7. Typed'
      BY <3>3, <3>4, <3>5, <3>6, SMT DEF Typed
    <3>8. Transfers' /\ Seeks' /\ SeekExact'
      BY <3>3, NotASeek DEF Transfers
    <3> QED
      BY <3>7, <3>8 DEF SeekInv
  <2>4. CASE \E fd \in SeekArg, off \in Offsets, whence \in 0 .. 3 : Enter("lseek", fd, off, whence)
    <3>1. PICK fd \in SeekArg, off \in Offsets, whence \in 0 .. 3 : Enter("lseek", fd, off, whence)
      BY <2>4
    <3>2. fd \in Nat /\ whence \in Nat
      BY ArgAssumption, SMT
    <3> QED
      BY <3>1, <3>2, <2>EnterInv
  <2>5. CASE \E mask \in Masks : sys_umask(mask)
    <3>1. /\ offset' = offset
          /\ \E r : call' = [NoCall EXCEPT !.op = "umask", !.pc = "returned", !.result = r]
      BY <2>5 DEF sys_umask
    <3>2. /\ IsCall' /\ call'.op = "umask" /\ call'.pc = "returned" /\ call'.fd = 0
          /\ call'.i = 1 /\ call'.count = 0 /\ call'.iovs = << >> /\ call'.from = 0
      BY <3>1, ZenonT(30) DEF NoCall, IsCall
    <3>3. (offset \in [File -> 0 .. INT_MAX])'
      BY <3>1 DEF SeekInv, Typed
    <3>4. << >> \in Seq([base : Nat, length : Nat])
      BY SMT
    <3>5. Typed'
      BY <3>2, <3>3, <3>4, WidthAssumption, SMT DEF Typed
    <3>6. Transfers' /\ Seeks' /\ SeekExact'
      BY <3>2, NotASeek DEF Transfers
    <3> QED
      BY <3>5, <3>6 DEF SeekInv
  <2> QED
    BY <2>1, <2>2, <2>3, <2>4, <2>5 DEF Dispatch
\* user code goes on.
<1>UserRunsInv. SeekInv /\ UserRuns => SeekInv'
  <2> SUFFICES ASSUME SeekInv, UserRuns PROVE SeekInv'
    OBVIOUS
  <2>1. call' = NoCall /\ offset' = offset
    BY DEF UserRuns, fileState
  <2>2. /\ IsCall' /\ call'.op = "none" /\ call'.pc = "user" /\ call'.fd = 0
        /\ call'.i = 1 /\ call'.count = 0 /\ call'.iovs = << >> /\ call'.from = 0
    BY <2>1 DEF NoCall, IsCall
  <2>3. (offset \in [File -> 0 .. INT_MAX])'
    BY <2>1 DEF SeekInv, Typed
  <2>4. << >> \in Seq([base : Nat, length : Nat])
    BY SMT
  <2>5. Typed'
    BY <2>2, <2>3, <2>4, WidthAssumption, SMT DEF Typed
  <2>6. Transfers' /\ Seeks' /\ SeekExact'
    BY <2>2, NotASeek DEF Transfers
  <2> QED
    BY <2>5, <2>6 DEF SeekInv
\* The checks of read and write: only an open descriptor is read from.
<1>SysRwInv. SeekInv /\ sys_rw => SeekInv'
  <2> SUFFICES ASSUME SeekInv, sys_rw PROVE SeekInv'
    OBVIOUS
  <2> DEFINE error == rw_check(Direction, call.fd, call.count)
  <2>1. call.op # "lseek"
    BY <1>OtherCall DEF sys_rw
  <2>2. (offset \in [File -> 0 .. INT_MAX])'
    BY DEF SeekInv, Typed, sys_rw, fileState
  <2>3. CASE Done(error)
    BY <2>1, <2>2, <2>3, <1>DoneInv
  <2>4. CASE /\ ~(error < 0)
             /\ call' = [call EXCEPT !.pc = IF Direction = "read" THEN "reading" ELSE "writing", !.done = 0]
    <3>1. /\ IsCall' /\ Kept /\ call'.i = call.i /\ call'.count = call.count /\ call'.done = 0
          /\ call'.pc = IF Direction = "read" THEN "reading" ELSE "writing"
      BY <2>4 DEF IsCall, Kept, SeekInv, Typed
    <3>2. Direction = "read" => call.fd \in DOMAIN open_files
      <4> SUFFICES ASSUME Direction = "read", call.fd \notin DOMAIN open_files PROVE FALSE
        OBVIOUS
      <4>1. call.fd \in Nat
        BY DEF SeekInv, Typed
      <4>2. rw_check("read", call.fd, call.count) = -9
        BY <4>1, SMT DEF rw_check, ERR_BADF
      <4> QED
        BY <2>4, <4>2, SMT
    <3>3. call'.i \in Nat \ {0} /\ call'.count \in Nat
      BY <3>1 DEF SeekInv, Typed
    <3>4. Transfers'
      BY <3>1, <3>2, <3>3, SMT DEF Transfers, Kept
    <3> QED
      BY <2>1, <2>2, <3>1, <3>3, <3>4, <1>OtherStep
  <2> QED
    BY <2>3, <2>4 DEF sys_rw
\* A chunk is read: the offset moves within the file.
<1>ReadChunkInv. SeekInv /\ ReadChunk => SeekInv'
  <2> SUFFICES ASSUME SeekInv, ReadChunk PROVE SeekInv'
    OBVIOUS
  <2> DEFINE f == open_files[call.fd]
             n == vfs_read(f, amount)
  <2>1. call.op # "lseek" /\ call.pc = "reading"
    BY <1>OtherCall DEF ReadChunk
  <2>2. call.fd \in DOMAIN open_files /\ call.done \in Nat /\ call.done <= call.count /\ call.count \in Nat
    BY <2>1 DEF SeekInv, Transfers, Typed
  <2>3. f \in File
    BY <2>2, OpenFacts
  <2>4. amount \in Nat /\ amount <= call.count - call.done
    BY <2>2, ArgAssumption, SMT DEF amount, Least
  <2>5. offset[f] \in 0 .. INT_MAX /\ offset \in [File -> 0 .. INT_MAX]
    BY <2>3 DEF SeekInv, Typed
  <2>6. n \in Int /\ (n > 0 => n <= amount /\ offset[f] + n \in 0 .. INT_MAX)
    <3>1. inode_size(f) \in 0 .. INT_MAX
      BY WidthAssumption, SMT DEF inode_size
    <3>2. CASE f = "sink"
      BY <3>2, SMT DEF vfs_read, ERR_IO
    <3>3. CASE f = "dir"
      BY <3>3, SMT DEF vfs_read, ramfs_read, ERR_INVAL
    <3>4. CASE f = "file"
      <4> HIDE DEF f
      <4>1. n = ramfs_read(f, amount)
        BY <3>4 DEF vfs_read
      <4>2. CASE offset[f] >= inode_size(f)
        BY <4>1, <4>2, <3>4, SMT DEF ramfs_read
      <4>3. CASE ~(offset[f] >= inode_size(f))
        <5>1. n = Least(amount, inode_size(f) - offset[f])
          BY <4>1, <4>3, <3>4 DEF ramfs_read
        <5> QED
          BY <5>1, <4>3, <2>4, <2>5, <3>1, WidthAssumption, SMT DEF Least
      <4> QED
        BY <4>2, <4>3
    <3> QED
      BY <2>3, <3>2, <3>3, <3>4 DEF File
  <2> HIDE DEF n
  <2>7. CASE n <= 0
    <3>1. offset' = offset /\ \E r : Done(r)
      BY <2>7 DEF ReadChunk, n
    <3> QED
      BY <3>1, <2>1, <2>5, <1>DoneInv
  <2>8. CASE ~(n <= 0)
    <3>1. /\ offset' = [offset EXCEPT ![f] = @ + n]
          /\ \/ \E r : Done(r)
             \/ /\ ~(call.done + n = call.count)
                /\ call' = [call EXCEPT !.done = @ + n]
      BY <2>8 DEF ReadChunk, n
    <3>2. (offset \in [File -> 0 .. INT_MAX])'
      BY <3>1, <2>3, <2>5, <2>6, <2>8, SMT
    <3>3. CASE \E r : Done(r)
      BY <3>2, <3>3, <2>1, <1>DoneInv
    <3>4. CASE call' = [call EXCEPT !.done = @ + n]
      <4>1. /\ IsCall' /\ Kept /\ call'.i = call.i /\ call'.count = call.count
            /\ call'.done = call.done + n /\ call'.pc = call.pc
        BY <3>4 DEF IsCall, Kept, SeekInv, Typed
      <4>2. call'.i \in Nat \ {0} /\ call'.count \in Nat
        BY <4>1 DEF SeekInv, Typed
      <4>3. Transfers'
        BY <4>1, <2>2, <2>4, <2>6, <2>8, SMT DEF Transfers, Kept
      <4> QED
        BY <4>1, <4>2, <4>3, <2>1, <3>2, <1>OtherStep
    <3> QED
      BY <3>1, <3>3, <3>4
  <2> QED
    BY <2>6, <2>7, <2>8
\* write moves no offset.
<1>WriteChunkInv. SeekInv /\ WriteChunk => SeekInv'
  <2> SUFFICES ASSUME SeekInv, WriteChunk PROVE SeekInv'
    OBVIOUS
  <2>1. call.op # "lseek" /\ call.pc = "writing"
    BY <1>OtherCall DEF WriteChunk
  <2>2. (offset \in [File -> 0 .. INT_MAX])'
    BY DEF SeekInv, Typed, WriteChunk, fileState
  <2>3. CASE \E r : Done(r)
    BY <2>1, <2>2, <2>3, <1>DoneInv
  <2>4. CASE call' = [call EXCEPT !.done = @ + amount]
    <3>1. IsCall' /\ Kept /\ call'.i = call.i /\ call'.count = call.count /\ call'.pc = call.pc
      BY <2>4 DEF IsCall, Kept, SeekInv, Typed
    <3>2. call'.i \in Nat \ {0} /\ call'.count \in Nat /\ Transfers'
      BY <3>1, <2>1 DEF SeekInv, Typed, Transfers
    <3> QED
      BY <2>1, <2>2, <3>1, <3>2, <1>OtherStep
  <2> QED
    BY <2>3, <2>4 DEF WriteChunk
\* The loop over a vector moves no offset either.
<1>NextIovecInv. SeekInv /\ NextIovec => SeekInv'
  <2> SUFFICES ASSUME SeekInv, NextIovec PROVE SeekInv'
    OBVIOUS
  <2>1. call.op # "lseek" /\ call.pc = "iov"
    BY <1>OtherCall DEF NextIovec
  <2>2. (offset \in [File -> 0 .. INT_MAX])'
    BY DEF SeekInv, Typed, NextIovec, fileState
  <2>3. CASE \E r : Return(r)
    BY <2>1, <2>2, <2>3, <1>ReturnInv
  <2>4. CASE call' = [call EXCEPT !.i = @ + 1]
    <3>1. IsCall' /\ Kept /\ call'.i = call.i + 1 /\ call'.count = call.count /\ call'.pc = call.pc
      BY <2>4 DEF IsCall, Kept, SeekInv, Typed
    <3>2. call'.i \in Nat \ {0} /\ call'.count \in Nat /\ Transfers'
      BY <3>1, <2>1, SMT DEF SeekInv, Typed, Transfers
    <3> QED
      BY <2>1, <2>2, <3>1, <3>2, <1>OtherStep
  <2>5. CASE /\ ~(call.i > Len(call.iovs))
             /\ call' = [call EXCEPT !.pc = Direction, !.buf = call.iovs[call.i].base,
                                     !.count = call.iovs[call.i].length]
    <3>1. /\ IsCall' /\ Kept /\ call'.i = call.i /\ call'.pc = Direction
          /\ call'.count = call.iovs[call.i].length
      BY <2>5 DEF IsCall, Kept, SeekInv, Typed
    <3>2. call.iovs[call.i] \in [base : Nat, length : Nat]
      <4>1. call.iovs \in Seq([base : Nat, length : Nat]) /\ call.i \in Nat \ {0}
        BY DEF SeekInv, Typed
      <4>2. call.i \in 1 .. Len(call.iovs)
        BY <2>5, <4>1, SMT
      <4> QED
        BY <4>1, <4>2, ElementOf
    <3>3. call'.i \in Nat \ {0} /\ call'.count \in Nat
      BY <3>1, <3>2 DEF SeekInv, Typed
    <3>4. call'.pc \in {"read", "write"} /\ Transfers'
      BY <3>1 DEF Direction, Transfers
    <3> QED
      BY <2>1, <2>2, <3>1, <3>3, <3>4, <1>OtherStep
  <2> QED
    BY <2>3, <2>4, <2>5 DEF NextIovec
\* The step of lseek: the tests made before the addition are exact.
<1>SysLseekInv. SeekInv /\ sys_lseek => SeekInv'
  <2> SUFFICES ASSUME SeekInv, sys_lseek PROVE SeekInv'
    OBVIOUS
  <2> DEFINE f == open_files[call.fd]
             base == Base(f, call.count)
  <2>1. /\ call.pc = "lseek" /\ call.op = "lseek" /\ call.buf \in Offsets /\ call.count \in 0 .. 3
        /\ call.fd \in DOMAIN open_files => call.from = offset[f]
    BY DEF SeekInv, Seeks, sys_lseek
  <2>2. PICK r : Return(r)
    BY DEF sys_lseek
  <2>3. /\ IsCall' /\ Kept /\ call'.pc = "returned" /\ call'.result = r
        /\ call'.i = call.i /\ call'.count = call.count /\ call'.buf = call.buf
    BY <2>2, <1>ReturnFacts DEF SeekInv, Typed
  <2>4. offset \in [File -> 0 .. INT_MAX]
    BY DEF SeekInv, Typed
  <2>5. Transfers' /\ Seeks'
    BY <2>3 DEF Transfers, Seeks
  <2>6. /\ call'.fd \in Nat /\ call'.count \in Nat /\ call'.from \in 0 .. INT_MAX /\ call'.i \in Nat \ {0}
        /\ call'.iovs \in Seq([base : Nat, length : Nat])
    BY <2>3 DEF SeekInv, Typed, Kept
  <2>7. ASSUME (offset \in [File -> 0 .. INT_MAX])', SeekExact' PROVE SeekInv'
    BY <2>3, <2>5, <2>6, <2>7 DEF SeekInv, Typed
  <2>8. CASE call.fd \notin DOMAIN open_files
    <3>1. offset' = offset
      BY <2>8 DEF sys_lseek
    <3>2. SeekExact'
      BY <2>3, <2>8 DEF SeekExact, Kept
    <3> QED
      BY <2>4, <2>7, <3>1, <3>2
  <2>9. CASE call.fd \in DOMAIN open_files /\ call.count > 2
    <3>1. offset' = offset /\ Return(ERR_INVAL)
      BY <2>9 DEF sys_lseek
    <3>2. call'.result = ERR_INVAL
      BY <3>1, <1>ReturnFacts DEF SeekInv, Typed
    <3>3. call.count = 3
      BY <2>1, <2>9, SMT
    <3>4. SeekExact'
      BY <2>1, <2>3, <2>9, <3>1, <3>2, <3>3, SMT DEF SeekExact, Kept, Base
    <3> QED
      BY <2>4, <2>7, <3>1, <3>4
  <2>10. CASE call.fd \in DOMAIN open_files /\ ~(call.count > 2)
    <3>1. f \in File /\ offset[f] \in 0 .. INT_MAX
      BY <2>4, <2>10, OpenFacts
    <3>2. inode_size(f) \in 0 .. INT_MAX
      BY WidthAssumption, SMT DEF inode_size
    <3>3. call.count \in {0, 1, 2}
      BY <2>1, <2>10, SMT
    <3>4. base \in 0 .. INT_MAX
      BY <3>1, <3>2, <3>3, WidthAssumption, SMT DEF Base
    <3>5. call.buf \in Int /\ -INT_MAX - 1 <= call.buf /\ call.buf <= INT_MAX
      <4>1. call.buf \in -INT_MAX - 1 .. INT_MAX
        BY <2>1, WidthAssumption
      <4> QED
        BY <4>1, WidthAssumption, SMT
    <3>6. SeekOverflows(base, call.buf) \/ base + call.buf < 0 <=> base + call.buf \notin 0 .. INT_MAX
      <4> HIDE DEF base
      <4> QED
        BY <3>4, <3>5, WidthAssumption, SMT DEF SeekOverflows, INT_MIN
    <3>7. IF SeekOverflows(base, call.buf) \/ base + call.buf < 0
          THEN r \in {ERR_RANGE, ERR_INVAL} /\ offset' = offset
          ELSE r = base + call.buf /\ offset' = [offset EXCEPT ![f] = base + call.buf]
      <4> HIDE DEF base
      <4>1. IF SeekOverflows(base, call.buf) \/ base + call.buf < 0
            THEN (Return(ERR_RANGE) \/ Return(ERR_INVAL)) /\ offset' = offset
            ELSE Return(base + call.buf) /\ offset' = [offset EXCEPT ![f] = base + call.buf]
        BY <2>10 DEF sys_lseek, base
      <4>2. IsCall
        BY DEF SeekInv, Typed
      <4>3. \A q : Return(q) => q = r
        BY <2>3, <4>2, <1>ReturnFacts
      <4> QED
        BY <4>1, <4>3
    <3>8. base = CASE call'.count = 0 -> 0 [] call'.count = 1 -> call'.from
                    [] call'.count = 2 -> inode_size(f) [] OTHER -> -1
      BY <2>1, <2>3, <2>10, <3>3, SMT DEF Base, Kept
    <3>9. (offset \in [File -> 0 .. INT_MAX])'
      BY <2>4, <3>1, <3>4, <3>5, <3>6, <3>7
    <3>10. IF base + call.buf \in 0 .. INT_MAX
           THEN offset'[f] = base + call.buf /\ call'.result = base + call.buf
           ELSE offset'[f] = call'.from /\ call'.result \in {ERR_RANGE, ERR_INVAL}
      BY <2>1, <2>3, <2>4, <2>10, <3>1, <3>6, <3>7 DEF Kept
    <3>11. SeekExact'
      <4> HIDE DEF base
      <4> QED
        BY <2>3, <3>4, <3>8, <3>10, SMT DEF SeekExact, Kept, inode_size
    <3> QED
      BY <2>7, <3>9, <3>11
  <2> QED
    BY <2>8, <2>9, <2>10
\* A directory read stops at the end of the directory.
<1>SysGetdentsInv. SeekInv /\ sys_getdents64 => SeekInv'
  <2> SUFFICES ASSUME SeekInv, sys_getdents64 PROVE SeekInv'
    OBVIOUS
  <2>1. call.op # "lseek" /\ call.pc = "getdents64"
    BY <1>OtherCall DEF sys_getdents64
  <2>2. offset \in [File -> 0 .. INT_MAX]
    BY DEF SeekInv, Typed
  <2>3. CASE \E r : Return(r) /\ offset' = offset
    BY <2>1, <2>2, <2>3, <1>ReturnInv
  <2>4. CASE /\ offset' = [offset EXCEPT !["dir"] = readdir_end("dir")]
             /\ call' = [call EXCEPT !.pc = "dirents"]
    <3>1. readdir_end("dir") \in 0 .. INT_MAX
      <4>1. offset["dir"] \in 0 .. INT_MAX
        BY <2>2 DEF File
      <4> QED
        BY <4>1, WidthAssumption, ArgAssumption, SMTT(30) DEF readdir_end, Least
    <3>2. (offset \in [File -> 0 .. INT_MAX])'
      BY <2>2, <2>4, <3>1
    <3>3. IsCall' /\ Kept /\ call'.i = call.i /\ call'.count = call.count /\ call'.pc = "dirents"
      BY <2>4 DEF IsCall, Kept, SeekInv, Typed
    <3>4. call'.i \in Nat \ {0} /\ call'.count \in Nat /\ Transfers'
      BY <3>3 DEF SeekInv, Typed, Transfers
    <3> QED
      BY <2>1, <3>2, <3>3, <3>4, <1>OtherStep
  <2> QED
    BY <2>3, <2>4 DEF sys_getdents64
\* An entry that does not fit takes the offset back, not below where it was.
<1>NextDirentInv. SeekInv /\ NextDirent => SeekInv'
\* rewind goes back to an offset there is.
  <2>StepBack.
      ASSUME NEW from \in 0 .. INT_MAX, NEW i \in Nat \ {0}, NEW at \in 0 .. INT_MAX, ~(from + i > at)
      PROVE  from + i - 1 \in 0 .. INT_MAX
    BY <2>StepBack, WidthAssumption, SMT
  <2> SUFFICES ASSUME SeekInv, NextDirent PROVE SeekInv'
    OBVIOUS
  <2> DEFINE rewind == offset' = [offset EXCEPT !["dir"] = call.from + call.i - 1]
  <2>1. call.op # "lseek" /\ call.pc = "dirents"
    BY <1>OtherCall DEF NextDirent
  <2>2. /\ offset \in [File -> 0 .. INT_MAX]
        /\ call.from \in 0 .. INT_MAX /\ call.i \in Nat \ {0}
    BY DEF SeekInv, Typed
  <2>3. CASE \E r : Return(r) /\ offset' = offset
    BY <2>1, <2>2, <2>3, <1>ReturnInv
  <2>4. CASE ~(call.from + call.i > offset["dir"]) /\ rewind /\ \E r : Return(r)
    <3>1. offset["dir"] \in 0 .. INT_MAX
      BY <2>2 DEF File
    <3>2. call.from + call.i - 1 \in 0 .. INT_MAX
      <4>1. ~(call.from + call.i > offset["dir"])
        BY <2>4
      <4> QED
        BY <2>2, <3>1, <4>1, <2>StepBack
    <3>3. (offset \in [File -> 0 .. INT_MAX])'
      BY <2>2, <2>4, <3>2
    <3> QED
      BY <2>1, <2>4, <3>3, <1>ReturnInv
  <2>5. CASE /\ offset' = offset
             /\ \E d : call' = [call EXCEPT !.done = d, !.i = @ + 1]
    <3>1. PICK d : call' = [call EXCEPT !.done = d, !.i = @ + 1]
      BY <2>5
    <3>2. IsCall' /\ Kept /\ call'.i = call.i + 1 /\ call'.count = call.count /\ call'.pc = call.pc
      BY <3>1 DEF IsCall, Kept, SeekInv, Typed
    <3>3. call'.i \in Nat \ {0} /\ call'.count \in Nat /\ Transfers'
      BY <3>2, <2>1, SMT DEF SeekInv, Typed, Transfers
    <3> QED
      BY <2>1, <2>2, <2>5, <3>2, <3>3, <1>OtherStep
  <2> QED
    BY <2>3, <2>4, <2>5 DEF NextDirent
\* Structures are copied without touching an offset.
<1>CopyOutInv. SeekInv /\ CopyOut => SeekInv'
  <2> SUFFICES ASSUME SeekInv, CopyOut PROVE SeekInv'
    OBVIOUS
  <2>1. call.op # "lseek"
    BY <1>OtherCall DEF CopyOut, StructCalls
  <2>2. (offset \in [File -> 0 .. INT_MAX])'
    BY DEF SeekInv, Typed, CopyOut, fileState
  <2>3. \E r : Return(r)
    BY DEF CopyOut
  <2> QED
    BY <2>1, <2>2, <2>3, <1>ReturnInv
<1> SUFFICES ASSUME SeekInv, [Next]_vars PROVE SeekInv'
  OBVIOUS
<1>1. CASE UNCHANGED vars
  BY <1>1 DEF vars, SeekInv, Typed, IsCall, Transfers, Seeks, SeekExact, Returned
<1> QED
  BY <1>1, <1>DispatchInv, <1>UserRunsInv, <1>SysRwInv, <1>ReadChunkInv, <1>WriteChunkInv, <1>NextIovecInv, <1>SysLseekInv,
     <1>SysGetdentsInv, <1>NextDirentInv, <1>CopyOutInv DEF Next

\* The invariant holds throughout.
LEMMA Invariance == Spec => []SeekInv
<1> QED
  BY InitInv, StepInv, PTL DEF Spec

\* sys_lseek sets the offset to base plus argument exactly when that is a representable
\* offset that is not negative, for every width and whatever calls came before.
THEOREM SeekIsExact == Spec => []SeekExact
<1>1. SeekInv => SeekExact
  BY DEF SeekInv
<1> QED
  BY <1>1, Invariance, PTL

\* No sequence of lseek, read, readv and getdents64 takes an offset below zero or out
\* of its width.
THEOREM OffsetsInRange == Spec => [](offset \in [File -> 0 .. INT_MAX])
<1>1. SeekInv => offset \in [File -> 0 .. INT_MAX]
  BY DEF SeekInv, Typed
<1> QED
  BY <1>1, Invariance, PTL

-----------------------------------------------------------------------------
(* Calls that return.                                                      *)

\* readv and writev stand at element i, with the ones before it done, and may use the file.
InVector ==
  /\ \E v \in IoVectors : call.iov = v.iov /\ call.iovs = v.iovs
  /\ call.i <= Len(call.iovs) + 1 /\ call.iovs # << >>
  /\ call.total = Len(JoinedTo(Spans(call.iovs))[call.i - 1])
  /\ rw_check(Direction, call.fd, 0) = 0

\* They have taken up that element.
AtElement ==
  /\ call.i <= Len(call.iovs)
  /\ call.buf = call.iovs[call.i].base
  /\ call.count = call.iovs[call.i].length
  /\ call.count \in 1 .. MAX_IO_SIZE

Moving == {"read", "write", "reading", "writing"}

Vectored == {"readv", "writev"}

\* Where the call stands.
Shape ==
  /\ call.total \in Nat
  /\ call.pc \in {"read", "reading"} => call.op \in {"read", "readv"}
  /\ call.pc \in {"write", "writing"} => call.op \in {"write", "writev"}
  /\ call.pc = "iov" => call.op \in Vectored
  /\ call.op \in {"read", "write"} => call.iovs = << >> /\ call.total = 0 /\ call.buf \in Nat
  /\ call.op \in Vectored /\ call.pc # "returned" => InVector
  /\ call.op \in Vectored /\ call.pc \in Moving => AtElement
  /\ call.pc \in {"reading", "writing"} => call.done \in Nat /\ call.done < call.count

\* A call that has been entered, and has done nothing yet.
Untouched == user = [a \in Address |-> Fresh(a)] /\ printed = << >>

Entered ==
  /\ call.pc = "user" => Untouched
  /\ call.pc \in StructCalls \cup {"getdents64"} =>
       /\ Untouched /\ call.op = call.pc /\ call.buf \in Nat /\ call.done = 0 /\ call.i = 1
       /\ call.fd \in DOMAIN open_files => offset[open_files[call.fd]] = call.from

\* The bytes a transfer has moved.
Sent == call.total + (IF call.pc \in {"reading", "writing"} THEN call.done ELSE 0)

Writing ==
  call.pc \in {"iov", "write", "writing"} /\ call.op \in {"write", "writev"} =>
    /\ user = [a \in Address |-> Fresh(a)]
    /\ printed = [k \in 1 .. Sent |-> Fresh(Named[k])]
    /\ call.fd \in DOMAIN open_files => Sent = 0 /\ offset[open_files[call.fd]] = call.from
    /\ call.pc = "writing" => call.fd \in {1, 2} \cup DOMAIN open_files

\* The records of the entries passed on.
Passed(from, n) == Joined([k \in 1 .. n |-> Dirent(from + k)])

Listing ==
  call.pc = "dirents" =>
    LET records == Passed(call.from, call.i - 1)
    IN  /\ call.op = "getdents64" /\ call.fd = 4 /\ call.buf \in Nat /\ call.count > 0
        /\ offset["dir"] = Least(Len(Children), call.from + DIRENTS)
        /\ call.i = 1 \/ call.from + call.i - 1 <= offset["dir"]
        /\ call.done = Len(records) /\ call.done <= call.count
        /\ call.done = 0 => call.i = 1
        /\ \A k \in 1 .. call.done : call.buf + k - 1 \in Address /\ user[call.buf + k - 1] = records[k]
        /\ \A a \in Address \ call.buf .. call.buf + call.done - 1 : user[a] = Fresh(a)

IoInv == Shape /\ Entered /\ Writing /\ Listing

\* All that is shown of calls other than read and readv.
Good == IoInv /\ WriteExact /\ DirentsOnce /\ StructWhole

\* Returning, field by field.
LEMMA ReturnAll ==
  ASSUME IsCall, NEW r, Return(r)
  PROVE  /\ call'.pc = "returned" /\ Kept /\ call'.iov = call.iov /\ call'.result = r
         /\ call'.buf = call.buf /\ call'.count = call.count /\ call'.total = call.total
         /\ call'.done = call.done /\ call'.i = call.i
BY DEF IsCall, Return, Kept

\* A call that has not returned.
LEMMA NotReturned ==
  ASSUME call'.pc # "returned"
  PROVE  WriteExact' /\ DirentsOnce' /\ StructWhole' /\ ReadExact'
BY DEF WriteExact, DirentsOnce, StructWhole, ReadExact, Returned

\* A call that is not write or writev.
LEMMA NotAWrite ==
  ASSUME call'.op \notin {"write", "writev"}
  PROVE  Writing' /\ WriteExact'
BY DEF Writing, WriteExact, Returned

\* The first n bytes are where they belong, and nothing else.
Got(n) ==
  /\ \A k \in 1 .. n : Named[k] \in Address /\ user[Named[k]] = Regular[call.from + k]
  /\ \A a \in Address : user[a] # Fresh(a) => translate_user(a, TRUE) /\ \E k \in 1 .. n : Named[k] = a

Reading ==
  call.pc \in {"iov", "read", "reading"} /\ call.op \in {"read", "readv"} /\ call.fd \in DOMAIN open_files =>
    /\ offset[open_files[call.fd]] = call.from + Sent
    /\ open_files[call.fd] # "file" => Sent = 0
    /\ Got(Sent)

\* A call that is not read or readv.
LEMMA NotARead ==
  ASSUME call'.op \notin {"read", "readv"}
  PROVE  Reading' /\ ReadExact'
BY DEF Reading, ReadExact, Returned

-----------------------------------------------------------------------------
(* Copying to and from user memory, and structures.                        *)

\* A set of natural numbers that is not empty has a least one.
LEMMA LeastOf ==
  ASSUME NEW T \in SUBSET Nat, T # {}
  PROVE  \E x \in T : \A y \in T : x <= y
<1>1. PICK x \in T : \A y \in T : ~(<< y, x >> \in OpToRel(<, Nat))
  BY NatLessThanWellFounded, WFMin
<1>2. \A a, b \in Nat : a < b => << a, b >> \in OpToRel(<, Nat)
  BY DEF OpToRel
<1>3. \A y \in T : ~(y < x)
  BY <1>1, <1>2
<1>4. \A y \in T : x <= y
  BY <1>3, SMT
<1> QED
  BY <1>4

\* What copy_user tells of the range it was given: c bytes of it were moved.
Copies(addr, size, w, c) ==
  /\ c \in 0 .. size
  /\ \A k \in 1 .. c : addr + k - 1 \in Address /\ translate_user(addr + k - 1, w)
  /\ copy_user(addr, size, w) => c = size
  /\ ~copy_user(addr, size, w) => \E k \in 1 .. size : ~translate_user(addr + k - 1, w)

\* copy_user stops at the first address it may not touch.
LEMMA CopyFacts ==
  ASSUME NEW addr \in Nat, NEW size \in Nat, NEW w
  PROVE  Copies(addr, size, w, copied(addr, size, w))
<1> DEFINE c == copied(addr, size, w)
           Stops == { k \in 0 .. size : k = size \/ ~translate_user(addr + k, w) }
<1>1. CASE addr >= USER_TOP \/ size > USER_TOP - addr
  <2>1. c = 0
    BY <1>1 DEF copied
  <2>2. USER_TOP \in Nat
    BY ArgAssumption
  <2>3. size # 0 => ~translate_user(addr + size - 1, w) /\ size \in 1 .. size
    BY <1>1, <2>2, SMT DEF translate_user
  <2>4. copy_user(addr, size, w) <=> size = 0 \/ 0 = size
    BY <2>1 DEF copy_user
  <2> QED
    BY <2>1, <2>3, <2>4, SMT DEF Copies
<1>2. CASE ~(addr >= USER_TOP \/ size > USER_TOP - addr)
  <2>1. Stops \in SUBSET Nat /\ size \in Stops
    BY SMT
  <2>2. \E x \in Stops : \A y \in Stops : x <= y
    BY <2>1, LeastOf
  <2>3. c = CHOOSE x \in Stops : \A y \in Stops : x <= y
    BY <1>2 DEF copied, Min
  <2> HIDE DEF c
  <2>4. c \in Stops /\ \A y \in Stops : c <= y
    BY <2>2, <2>3
  <2>5. c \in 0 .. size /\ (c = size \/ ~translate_user(addr + c, w))
    BY <2>4
  <2>6. ASSUME NEW k \in 1 .. c PROVE addr + k - 1 \in Address /\ translate_user(addr + k - 1, w)
    <3>1. k - 1 \in 0 .. size /\ ~(c <= k - 1) /\ k - 1 # size /\ addr + (k - 1) = addr + k - 1
      BY <2>5, SMT
    <3>2. translate_user(addr + (k - 1), w)
      BY <2>4, <3>1
    <3>3. addr + k - 1 \in Address
      BY <1>2, <2>5, ArgAssumption, SMT DEF Address
    <3> QED
      BY <3>1, <3>2, <3>3
  <2>7. copy_user(addr, size, w) <=> size = 0 \/ c = size
    BY DEF copy_user, c
  <2>8. c # size => c + 1 \in 1 .. size /\ addr + (c + 1) - 1 = addr + c
    BY <2>5, SMT
  <2>9. c # size => \E k \in 1 .. size : ~translate_user(addr + k - 1, w)
    BY <2>5, <2>8
  <2>10. size = 0 => c = size
    BY <2>5, SMT
  <2> QED
    BY <2>5, <2>6, <2>7, <2>9, <2>10 DEF Copies, c
<1> QED
  BY <1>1, <1>2

\* The first c bytes have landed at addr and on, and nothing else has changed.
Landed(addr, bytes, c) ==
  /\ Copies(addr, Len(bytes), TRUE, c)
  /\ \A k \in 1 .. c : user'[addr + k - 1] = bytes[k]
  /\ \A a \in Address : (\A k \in 1 .. c : addr + k - 1 # a) => user'[a] = user[a]

\* Copying out.
LEMMA PutFacts ==
  ASSUME NEW addr \in Nat, NEW bytes, Len(bytes) \in Nat, Put(addr, bytes)
  PROVE  \E c \in Nat : Landed(addr, bytes, c)
<1>1. PICK c : c = copied(addr, Len(bytes), TRUE)
  OBVIOUS
<1>2. Copies(addr, Len(bytes), TRUE, c)
  BY <1>1, CopyFacts
<1>3. c \in Nat /\ \A k \in 1 .. c : addr + k - 1 \in Address
  <2>1. c \in 0 .. Len(bytes)
    BY <1>2 DEF Copies
  <2>2. \A k \in 1 .. c : addr + k - 1 \in Address
    BY <1>2 DEF Copies
  <2> QED
    BY <2>1, <2>2, SMT
<1>4. \A a \in Address : user'[a] = IF a \in addr .. addr + c - 1 THEN bytes[a - addr + 1] ELSE user[a]
  BY <1>1 DEF Put
<1>5. ASSUME NEW k \in 1 .. c PROVE user'[addr + k - 1] = bytes[k]
  <2>1. addr + k - 1 \in addr .. addr + c - 1 /\ (addr + k - 1) - addr + 1 = k
    BY <1>3, SMT
  <2> QED
    BY <1>3, <1>4, <2>1
<1>6. ASSUME NEW a \in Address, \A k \in 1 .. c : addr + k - 1 # a PROVE user'[a] = user[a]
  <2>1. a \notin addr .. addr + c - 1
    <3> SUFFICES ASSUME a \in addr .. addr + c - 1 PROVE FALSE
      OBVIOUS
    <3>1. a - addr + 1 \in 1 .. c /\ addr + (a - addr + 1) - 1 = a
      BY <1>3, SMT DEF Address
    <3> QED
      BY <1>6, <3>1
  <2> QED
    BY <1>4, <2>1
<1> QED
  BY <1>2, <1>3, <1>5, <1>6 DEF Landed

\* The structure a call copies out, and its size.
Value == IF call.op = "fstat" THEN fill_stat(open_files[call.fd]) ELSE Filled(call.op)

Size == IF call.op = "fstat" THEN 4 ELSE STRUCT

\* fstat's, getcwd's, uname's and the clocks' one step.
LEMMA CopyOutGood ==
  ASSUME SeekInv, Good, CopyOut
  PROVE  Good' /\ Reading' /\ ReadExact'
\* It has that size; the second field of fstat's is the mode.
<1>ValueFacts.
    /\ Len(Value) = Size /\ Size \in Nat
    /\ call.op = "fstat" => Value[2] = SumSet((IF open_files[call.fd] = "dir" THEN {1, 2, 4} ELSE {2, 4}) \ file_creation_mask)
  <2>1. CASE call.op = "fstat"
    <3>1. PICK f, a, b, c, e :
            /\ f = open_files[call.fd] /\ a = IF f = "dir" THEN 40 ELSE 10
            /\ b = SumSet((IF f = "dir" THEN {1, 2, 4} ELSE {2, 4}) \ file_creation_mask)
            /\ c = IF f = "dir" THEN 2 + Cardinality({ j \in DOMAIN Children : Children[j].dir }) ELSE 1
            /\ e = inode_size(f)
      OBVIOUS
    <3>2. Value = << a, b, c, e >>
      BY <2>1, <3>1 DEF Value, fill_stat
    <3>3. Len(<< a, b, c, e >>) = 4 /\ << a, b, c, e >>[2] = b /\ 4 \in Nat
      BY SMT
    <3> QED
      BY <2>1, <3>1, <3>2, <3>3 DEF Size
  <2>2. CASE call.op # "fstat"
    <3>0. PICK base : base = CASE call.op = "uname" -> 200 [] call.op = "clock_gettime" -> 210
                                [] call.op = "clock_getres" -> 220 [] call.op = "getcwd" -> 230
      BY SMT
    <3>1. Filled(call.op) = [k \in 1 .. STRUCT |-> base + k]
      BY <3>0, SMT DEF Filled
    <3>2. STRUCT \in Nat
      BY ArgAssumption, SMT
    <3>3. Len([k \in 1 .. STRUCT |-> base + k]) = STRUCT
      <4>1. PICK g : g = [k \in 1 .. STRUCT |-> base + k]
        OBVIOUS
      <4>2. PICK T : T = { base + k : k \in 1 .. STRUCT }
        OBVIOUS
      <4>3. g \in [1 .. STRUCT -> T]
        BY <4>1, <4>2
      <4>4. Len(g) = STRUCT
        BY <3>2, <4>3, SMT
      <4> QED
        BY <4>1, <4>4
    <3> QED
      BY <2>2, <3>1, <3>2, <3>3 DEF Value, Size
  <2> QED
    BY <2>1, <2>2
<1>1. /\ call.pc \in StructCalls /\ perm' = perm /\ printed' = printed /\ offset' = offset
      /\ file_creation_mask' = file_creation_mask /\ IsCall
  BY DEF CopyOut, fileState, SeekInv, Typed
<1>2. /\ Untouched /\ call.op = call.pc /\ call.buf \in Nat /\ call.total \in Nat
  BY <1>1 DEF Good, IoInv, Entered, Shape
<1>3. PICK r : Return(r)
  BY DEF CopyOut
<1>4. /\ call'.pc = "returned" /\ Kept /\ call'.result = r
      /\ call'.buf = call.buf /\ call'.count = call.count /\ call'.total = call.total
  BY <1>1, <1>3, ReturnAll
<1>5. call'.op \in StructCalls /\ call'.total \in Nat
  BY <1>1, <1>2, <1>4 DEF Kept
<1>6. ASSUME StructWhole' PROVE Good' /\ Reading' /\ ReadExact'
  <2>1. Shape'
    BY <1>4, <1>5 DEF Shape, Moving, Vectored, StructCalls
  <2>2. call'.op \notin {"write", "writev", "read", "readv", "getdents64"}
    BY <1>5 DEF StructCalls
  <2>3. Writing' /\ WriteExact' /\ Reading' /\ ReadExact'
    BY <2>2, NotAWrite, NotARead
  <2>4. Entered' /\ Listing' /\ DirentsOnce'
    BY <1>4, <2>2 DEF Entered, Listing, DirentsOnce, Returned, StructCalls
  <2> QED
    BY <1>6, <2>1, <2>3, <2>4 DEF Good, IoInv
<1>7. Early(call)' = Early(call)
  BY <1>4 DEF Early, Kept, sys_fstat, sys_getcwd, sys_clock_gettime
<1>8. CASE Early(call) # << >>
  <2>1. StructWhole'
    BY <1>7, <1>8 DEF StructWhole
  <2> QED
    BY <1>6, <2>1
<1>9. CASE /\ Early(call) = << >> /\ Put(call.buf, Value)
           /\ Return(IF ~copy_user(call.buf, Len(Value), TRUE) THEN ERR_FAULT
                     ELSE IF call.op = "getcwd" THEN STRUCT ELSE 0)
  <2>1. Len(Value) = Size /\ Size \in Nat
    BY <1>ValueFacts
  <2>2. PICK c \in Nat : Landed(call.buf, Value, c)
    BY <1>2, <1>9, <2>1, PutFacts
  <2>3. Copies(call.buf, Size, TRUE, c) /\ \A k \in 1 .. c : user'[call.buf + k - 1] = Value[k]
    BY <2>1, <2>2 DEF Landed
  <2>4. c \in 0 .. Size
    BY <2>3 DEF Copies
  <2>5. call'.result >= 0 => c = Size
    <3>1. ~copy_user(call.buf, Len(Value), TRUE) => call'.result = ERR_FAULT
      BY <1>1, <1>9, ReturnAll
    <3>2. ~(ERR_FAULT >= 0)
      BY SMT DEF ERR_FAULT
    <3> QED
      BY <2>1, <2>3, <3>1, <3>2 DEF Copies
  <2>6. Value' = Value /\ Size' = Size
    BY <1>1, <1>4 DEF Value, Size, Kept, fill_stat
  <2>7. \A a : translate_user(a, TRUE)' <=> translate_user(a, TRUE)
    BY <1>1 DEF translate_user
  <2>8. call'.result >= 0 =>
          \A k \in 1 .. Size : translate_user(call.buf + k - 1, TRUE)' /\ user'[call.buf + k - 1] = Value[k]
    <3>1. \A k \in 1 .. c : translate_user(call.buf + k - 1, TRUE)
      BY <2>3 DEF Copies
    <3>2. ASSUME NEW k \in 1 .. c PROVE translate_user(call.buf + k - 1, TRUE)'
      <4>1. PICK a : a = call.buf + k - 1
        BY SMT
      <4>2. translate_user(a, TRUE) /\ a = call'.buf + k - 1
        BY <1>4, <3>1, <4>1
      <4> QED
        BY <2>7, <4>2
    <3> QED
      BY <2>3, <2>5, <3>2
  <2>9. ASSUME NEW a \in Address \ call.buf .. call.buf + Size - 1 PROVE user'[a] = Fresh(a)
    <3>1. a \in Int
      BY ArgAssumption, SMT DEF Address
    <3>2. \A k \in 1 .. c : call.buf + k - 1 # a
      BY <1>2, <2>1, <2>4, <2>9, <3>1, SMT
    <3>3. user'[a] = user[a]
      BY <2>2, <3>2 DEF Landed
    <3> QED
      BY <1>2, <3>3 DEF Untouched
  <2>10. ASSUME call.op = "fstat", call'.result >= 0
         PROVE  user'[call.buf + 1] = IF call.fd = 4 THEN SumSet({1, 2, 4} \ file_creation_mask)
                                      ELSE SumSet({2, 4} \ file_creation_mask)
    <3>1. call.fd \in DOMAIN open_files
      <4>1. << ERR_BADF >> # << >>
        BY SMT
      <4> QED
        BY <1>9, <2>10, <4>1 DEF Early, sys_fstat
    <3>2. open_files[call.fd] = "dir" <=> call.fd = 4
      BY <3>1, OpenFacts
    <3>3. Size = 4 /\ 2 \in 1 .. 4 /\ call.buf + 2 - 1 = call.buf + 1
      <4>1. Size = 4
        BY <2>10 DEF Size
      <4> QED
        BY <1>2, <4>1, SMT
    <3>4. user'[call.buf + 2 - 1] = Value[2]
      BY <2>8, <2>10, <3>3
    <3>5. Value[2] = SumSet((IF open_files[call.fd] = "dir" THEN {1, 2, 4} ELSE {2, 4}) \ file_creation_mask)
      BY <2>10, <1>ValueFacts
    <3> QED
      BY <3>2, <3>3, <3>4, <3>5
  <2>11. StructWhole'
    BY <1>1, <1>4, <2>6, <2>8, <2>9, <2>10 DEF StructWhole, Value, Size, Kept
  <2> QED
    BY <1>6, <2>11
<1> QED
  BY <1>8, <1>9 DEF CopyOut, Value

-----------------------------------------------------------------------------
(* Joining sequences.                                                      *)

\* One line of the definition of JoinedTo, and a function that satisfies it up to m.
Appended(f, seqs, i) == IF i = 0 THEN << >> ELSE f[i - 1] \o seqs[i]

Joins(f, seqs, m) == f = [i \in 0 .. m |-> Appended(f, seqs, i)]

\* There is such a function.
LEMMA JoinExists ==
  ASSUME NEW seqs, NEW n \in Nat
  PROVE  \E f : Joins(f, seqs, n)
<1> DEFINE Bad == { m \in Nat : ~\E f : Joins(f, seqs, m) }
<1> SUFFICES ASSUME Bad # {} PROVE FALSE
  OBVIOUS
<1>1. PICK m \in Bad : \A k \in Bad : m <= k
  BY LeastOf
<1>2. m \in Nat /\ ~\E f : Joins(f, seqs, m)
  BY <1>1
<1>3. CASE m = 0
  <2> DEFINE g == [i \in 0 .. 0 |-> << >>]
  <2>1. \A i \in 0 .. 0 : Appended(g, seqs, i) = << >>
    BY SMT DEF Appended
  <2>2. Joins(g, seqs, 0)
    BY <2>1 DEF Joins
  <2> QED
    BY <1>2, <1>3, <2>2
<1>4. CASE m # 0
  <2>1. m - 1 \in Nat /\ ~(m <= m - 1)
    BY <1>2, <1>4, SMT
  <2>2. PICK h : Joins(h, seqs, m - 1)
    BY <1>1, <2>1
  <2> DEFINE g == [i \in 0 .. m |-> Appended(h, seqs, i)]
  <2>3. ASSUME NEW i \in 0 .. m PROVE Appended(g, seqs, i) = Appended(h, seqs, i)
    <3>1. CASE i = 0
      BY <3>1 DEF Appended
    <3>2. CASE i # 0
      <4>1. i - 1 \in 0 .. m - 1 /\ i - 1 \in 0 .. m
        BY <1>2, <3>2, SMT
      <4>2. h[i - 1] = Appended(h, seqs, i - 1) /\ g[i - 1] = Appended(h, seqs, i - 1)
        BY <2>2, <4>1 DEF Joins
      <4> HIDE DEF g
      <4> QED
        BY <3>2, <4>2 DEF Appended
    <3> QED
      BY <3>1, <3>2
  <2>4. g = [i \in 0 .. m |-> Appended(g, seqs, i)]
    <3>1. g = [i \in 0 .. m |-> Appended(h, seqs, i)]
      BY SMT
    <3> HIDE DEF g
    <3> QED
      BY <2>3, <3>1
  <2> QED
    BY <1>2, <2>4 DEF Joins
<1> QED
  BY <1>3, <1>4

\* What JoinedTo says of its parts.
Parts(U, seqs) ==
  /\ U[0] = << >>
  /\ \A i \in 1 .. Len(seqs) : U[i] = U[i - 1] \o seqs[i]

\* JoinedTo satisfies its definition.
LEMMA JoinParts ==
  ASSUME NEW seqs, Len(seqs) \in Nat
  PROVE  Parts(JoinedTo(seqs), seqs)
<1>1. JoinedTo(seqs) = CHOOSE f : Joins(f, seqs, Len(seqs))
  BY DEF JoinedTo, Joins, Appended
<1>2. Joins(JoinedTo(seqs), seqs, Len(seqs))
  BY <1>1, JoinExists
<1> DEFINE U == JoinedTo(seqs)
<1> HIDE DEF U
<1>3. \A i \in 0 .. Len(seqs) : U[i] = Appended(U, seqs, i)
  BY <1>2 DEF Joins, U
<1>4. U[0] = << >>
  <2>1. 0 \in 0 .. Len(seqs)
    BY SMT
  <2> QED
    BY <1>3, <2>1 DEF Appended
<1>5. ASSUME NEW i \in 1 .. Len(seqs) PROVE U[i] = U[i - 1] \o seqs[i]
  <2>1. i \in 0 .. Len(seqs) /\ i # 0
    BY SMT
  <2> QED
    BY <1>3, <2>1 DEF Appended
<1> QED
  BY <1>4, <1>5 DEF Parts, U

\* s is how t begins.
Begins(s, t) == Len(s) <= Len(t) /\ \A k \in 1 .. Len(s) : t[k] = s[k]

\* w is s and then t.
Concat(S, s, t, w) ==
  /\ w \in Seq(S) /\ Len(w) = Len(s) + Len(t)
  /\ Begins(s, w)
  /\ \A k \in 1 .. Len(t) : w[Len(s) + k] = t[k]
  /\ \A k \in 1 .. Len(s) + Len(t) : w[k] = IF k <= Len(s) THEN s[k] ELSE t[k - Len(s)]

\* Concatenation.
LEMMA ConcatFacts ==
  ASSUME NEW S, NEW s \in Seq(S), NEW t \in Seq(S)
  PROVE  Concat(S, s, t, s \o t)
<1>1. s \o t \in Seq(S) /\ Len(s \o t) = Len(s) + Len(t)
  BY SMT
<1>2. \A k \in 1 .. Len(s) + Len(t) : (s \o t)[k] = IF k <= Len(s) THEN s[k] ELSE t[k - Len(s)]
  BY SMT
<1>3. Len(s) \in Nat /\ Len(t) \in Nat
  BY SMT
<1>4. \A k \in 1 .. Len(t) : (s \o t)[Len(s) + k] = t[k]
  BY <1>2, <1>3, SMT
<1>5. Begins(s, s \o t)
  BY <1>1, <1>2, <1>3, SMT DEF Begins
<1> QED
  BY <1>1, <1>2, <1>4, <1>5 DEF Concat

\* What is joined is a sequence of the elements of the parts.
LEMMA JoinTyped ==
  ASSUME NEW S, NEW seqs \in Seq(Seq(S)), NEW i \in 0 .. Len(seqs)
  PROVE  JoinedTo(seqs)[i] \in Seq(S)
<1> DEFINE U == JoinedTo(seqs)
           Bad == { j \in 0 .. Len(seqs) : U[j] \notin Seq(S) }
<1>0. Len(seqs) \in Nat
  BY SMT
<1>1. Parts(U, seqs)
  BY <1>0, JoinParts
<1> HIDE DEF U
<1> SUFFICES ASSUME Bad # {} PROVE FALSE
  BY DEF U
<1>2. Bad \in SUBSET Nat
  BY SMT
<1>3. PICK j \in Bad : \A k \in Bad : j <= k
  BY <1>2, LeastOf
<1>4. j \in 0 .. Len(seqs) /\ U[j] \notin Seq(S)
  BY <1>3
<1>5. j # 0
  <2>1. << >> \in Seq(S)
    BY SMT
  <2> QED
    BY <1>1, <1>4, <2>1 DEF Parts
<1>6. j \in 1 .. Len(seqs) /\ j - 1 \in 0 .. Len(seqs) /\ ~(j <= j - 1)
  BY <1>0, <1>4, <1>5, SMT
<1>7. U[j - 1] \in Seq(S) /\ seqs[j] \in Seq(S)
  <2>1. seqs[j] \in Seq(S)
    BY <1>6, ElementOf
  <2> QED
    BY <1>3, <1>6, <2>1
<1>8. U[j - 1] \o seqs[j] \in Seq(S)
  BY <1>7, ConcatFacts DEF Concat
<1> QED
  BY <1>1, <1>4, <1>6, <1>8 DEF Parts

\* Nothing is joined.
LEMMA JoinNothing == JoinedTo(<< >>)[0] = << >> /\ Joined(<< >>) = << >> /\ Len(Joined(<< >>)) = 0
<1>1. Len(<< >>) = 0 /\ 0 \in Nat
  BY SMT
<1>2. JoinedTo(<< >>)[0] = << >>
  BY <1>1, JoinParts DEF Parts
<1> QED
  BY <1>1, <1>2 DEF Joined

-----------------------------------------------------------------------------
(* getdents64.                                                             *)

\* The records from one child on.
Records(from, n) == [k \in 1 .. n |-> Dirent(from + k)]

\* No records, no bytes.
LEMMA PassedNone == ASSUME NEW from PROVE Passed(from, 0) = << >> /\ Len(Passed(from, 0)) = 0
<1>1. Records(from, 0) = << >>
  BY SMT DEF Records
<1> QED
  BY <1>1, JoinNothing DEF Passed, Records

\* A step of getdents64 concerns no other call.
LEMMA DirentsOnly ==
  ASSUME call'.op = "getdents64", call'.pc \in {"dirents", "returned"}, call'.total \in Nat
  PROVE  Shape' /\ Entered' /\ Writing' /\ WriteExact' /\ StructWhole' /\ Reading' /\ ReadExact'
<1>1. Shape'
  BY DEF Shape, Moving, Vectored
<1> QED
  BY <1>1 DEF Entered, Writing, WriteExact, StructWhole, Reading, ReadExact, Returned, StructCalls

\* sys_getdents64 fails, or asks the directory for entries.
LEMMA GetdentsGood ==
  ASSUME SeekInv, Good, sys_getdents64
  PROVE  Good' /\ Reading' /\ ReadExact'
\* Nothing is listed.
<1>DirentsNone.
    ASSUME offset'["dir"] = call'.from, ~(call'.result > 0), call'.result = 0 => ~(call'.count > 0),
           \A a \in Address : user'[a] = Fresh(a)
    PROVE  DirentsOnce'
  BY <1>DirentsNone DEF DirentsOnce
<1>1. /\ call.pc = "getdents64" /\ user' = user
      /\ IsCall /\ offset \in [File -> 0 .. INT_MAX] /\ call.from \in 0 .. INT_MAX /\ call.count \in Nat
  BY DEF sys_getdents64, SeekInv, Typed
<1>2. /\ Untouched /\ call.op = "getdents64" /\ call.buf \in Nat /\ call.done = 0 /\ call.i = 1
      /\ call.fd \in DOMAIN open_files => offset[open_files[call.fd]] = call.from
      /\ call.total \in Nat
  BY <1>1 DEF Good, IoInv, Shape, Entered
<1>3. \A a \in Address : user'[a] = Fresh(a)
  BY <1>1, <1>2 DEF Untouched
<1>4. ASSUME NEW r, Return(r), offset' = offset, ~(r > 0), r = 0 => ~(call.count > 0)
      PROVE  Good' /\ Reading' /\ ReadExact'
  <2>1. call'.pc = "returned" /\ Kept /\ call'.result = r /\ call'.count = call.count /\ call'.total = call.total
    BY <1>1, <1>4, ReturnAll
  <2>2. Shape' /\ Entered' /\ Writing' /\ WriteExact' /\ StructWhole' /\ Reading' /\ ReadExact'
    BY <1>2, <2>1, DirentsOnly DEF Kept
  <2>3. call.fd = 4 => DirentsOnce'
    BY <1>2, <1>3, <1>4, <2>1, <1>DirentsNone, OpenFacts DEF Kept
  <2>4. call.fd # 4 => DirentsOnce'
    BY <2>1 DEF DirentsOnce, Kept
  <2> QED
    BY <2>1, <2>2, <2>3, <2>4 DEF Good, IoInv, Listing
<1>5. CASE \E r \in {ERR_BADF, ERR_INVAL, ERR_NOTDIR} : Return(r) /\ offset' = offset
  <2>1. \A r \in {ERR_BADF, ERR_INVAL, ERR_NOTDIR} : ~(r > 0) /\ r # 0
    BY SMT DEF ERR_BADF, ERR_INVAL, ERR_NOTDIR
  <2> QED
    BY <1>4, <1>5, <2>1
<1>6. CASE call.count = 0 /\ Return(0) /\ offset' = offset
  <2>1. ~(0 > 0)
    BY SMT
  <2> QED
    BY <1>4, <1>6, <2>1
<1>7. CASE /\ call.fd \in DOMAIN open_files /\ call.count # 0 /\ open_files[call.fd] = "dir"
           /\ offset' = [offset EXCEPT !["dir"] = readdir_end("dir")]
           /\ call' = [call EXCEPT !.pc = "dirents"]
  <2>1. call.fd = 4 /\ call.count > 0
    <3>1. call.fd = 4
      BY <1>7, OpenFacts
    <3> QED
      BY <1>1, <1>7, <3>1, SMT
  <2>2. /\ call'.pc = "dirents" /\ call'.op = call.op /\ call'.fd = call.fd /\ call'.buf = call.buf
        /\ call'.count = call.count /\ call'.from = call.from /\ call'.i = call.i /\ call'.done = call.done
        /\ call'.total = call.total
    BY <1>1, <1>7 DEF IsCall
  <2>3. offset["dir"] = call.from /\ offset'["dir"] = readdir_end("dir")
    <3>1. offset["dir"] = call.from
      BY <1>2, <2>1, OpenFacts
    <3> QED
      BY <1>1, <1>7, <3>1 DEF File
  <2>4. offset'["dir"] = Least(Len(Children), call.from + DIRENTS)
    BY <2>3 DEF readdir_end
  <2>5. Len(Passed(call.from, 0)) = 0
    BY PassedNone
  <2>6. call.i - 1 = 0 /\ 0 <= call.count /\ \A k \in 1 .. 0 : FALSE
    BY <1>1, <1>2, SMT
  <2>7. Listing'
    <3>1. \A k \in 1 .. call'.done : FALSE
      BY <1>2, <2>2, <2>6
    <3>2. \A a \in Address \ call'.buf .. call'.buf + call'.done - 1 : user'[a] = Fresh(a)
      BY <1>3
    <3>3. call'.done = Len(Passed(call'.from, call'.i - 1)) /\ call'.done <= call'.count
      BY <1>2, <2>2, <2>5, <2>6
    <3>4. call'.i = 1 /\ call'.fd = 4 /\ call'.op = "getdents64" /\ call'.buf \in Nat /\ call'.count > 0
      BY <1>2, <2>1, <2>2
    <3>5. offset'["dir"] = Least(Len(Children), call'.from + DIRENTS)
      BY <2>2, <2>4
    <3> QED
      BY <3>1, <3>2, <3>3, <3>4, <3>5 DEF Listing
  <2>8. Shape' /\ Entered' /\ Writing' /\ WriteExact' /\ StructWhole' /\ Reading' /\ ReadExact'
    BY <1>2, <2>2, DirentsOnly
  <2>9. DirentsOnce'
    BY <2>2 DEF DirentsOnce, Returned
  <2> QED
    BY <2>7, <2>8, <2>9 DEF Good, IoInv
<1> QED
  BY <1>5, <1>6, <1>7 DEF sys_getdents64

\* A directory record.
IsRecord(d) == d \in Seq(Int) /\ Len(d) \in Nat \ {0}

AreRecords(s, from, n) == s \in Seq(Seq(Int)) /\ Len(s) = n /\ \A k \in 1 .. n : s[k] = Dirent(from + k)

\* Where a round of the loop over the entries stands.
AtEnd(from, i, off, len) ==
  /\ i = 1 => off = len /\ (IF from <= len THEN from ELSE len) = len /\ off >= len
  /\ i # 1 /\ from + i - 1 <= off => off = from + (i - 1) /\ from + (i - 1) <= len

AtEntry(from, i, off, len) ==
  /\ from + i \in 1 .. len /\ i - 1 \in Nat /\ i = (i - 1) + 1 /\ from + i - 1 = from + (i - 1)
  /\ from + (i - 1) <= len /\ from + i <= len /\ from + (i + 1) - 1 <= off /\ (i + 1) - 1 = i

\* A record of d bytes fits after the ones before it.
Fits(done, d, count) == done + d \in Nat /\ done + d <= count /\ done + d # 0 /\ done \in Nat

\* c bytes after the first done ones, within n.
Apart(buf, done, c, n) ==
  /\ \A k \in 1 .. done : \A j \in 1 .. c : buf + done + j - 1 # buf + k - 1
  /\ \A a \in Int \ buf .. buf + n - 1 : a \notin buf .. buf + done - 1
  /\ \A a \in Int \ buf .. buf + n - 1 : \A j \in 1 .. c : buf + done + j - 1 # a

\* User memory with the entries so far, and nothing outside the n bytes from buf.
Listed(memory, buf, done, n) ==
  /\ \A k \in 1 .. done : memory[buf + k - 1] = user[buf + k - 1]
  /\ \A a \in Address \ buf .. buf + n - 1 : memory[a] = Fresh(a)

\* Memory holds s at buf, and s and then t.
Holds(memory, buf, s, n) == \A k \in 1 .. n : buf + k - 1 \in Address /\ memory[buf + k - 1] = s[k]

Rows(memory, buf, s, t) == Holds(memory, buf, s, Len(s)) /\ Holds(memory, buf + Len(s), t, Len(t))

\* One round of the loop over the entries.
LEMMA NextDirentGood ==
  ASSUME SeekInv, Good, NextDirent
  PROVE  Good' /\ Reading' /\ ReadExact'
\* Every child has one.
<1>DirentFacts.
    ASSUME NEW j \in 1 .. Len(Children)
    PROVE  IsRecord(Dirent(j))
  <2> USE <1>DirentFacts
  <2>1. Children[j] \in [len : Nat \ {0}, dir : BOOLEAN]
    BY WidthAssumption, ElementOf
  <2>2. PICK n \in Nat \ {0} : n = Children[j].len
    BY <2>1, SMT
  <2>3. PICK b \in Int : b = 300 + 2 * j + (IF Children[j].dir THEN 1 ELSE 0)
    BY SMT
  <2>4. Dirent(j) = [k \in 1 .. n |-> b]
    BY <2>2, <2>3 DEF Dirent
  <2>5. [k \in 1 .. n |-> b] \in Seq(Int) /\ Len([k \in 1 .. n |-> b]) = n
    BY SMT
  <2> QED
    BY <2>2, <2>4, <2>5 DEF IsRecord
<1>RecordsFacts.
    ASSUME NEW from \in Nat, NEW n \in Nat, from + n <= Len(Children)
    PROVE  AreRecords(Records(from, n), from, n)
  <2> USE <1>RecordsFacts
  <2>1. \A k \in 1 .. n : from + k \in 1 .. Len(Children)
    BY WidthAssumption, SMT
  <2>2. \A k \in 1 .. n : Dirent(from + k) \in Seq(Int)
    BY <2>1, <1>DirentFacts DEF IsRecord
  <2>3. PICK s : s = Records(from, n)
    BY SMT
  <2>4. s \in [1 .. n -> Seq(Int)] /\ \A k \in 1 .. n : s[k] = Dirent(from + k)
    BY <2>2, <2>3 DEF Records
  <2>5. s \in Seq(Seq(Int)) /\ Len(s) = n
    BY <2>4, SMT
  <2> QED
    BY <2>3, <2>4, <2>5 DEF AreRecords
\* The records joined are a sequence of bytes.
<1>PassedTyped.
    ASSUME NEW from \in Nat, NEW n \in Nat, from + n <= Len(Children)
    PROVE  Passed(from, n) \in Seq(Int)
  <2> USE <1>PassedTyped
  <2>1. PICK s : s = Records(from, n)
    BY SMT
  <2>2. s \in Seq(Seq(Int)) /\ Len(s) = n
    BY <2>1, <1>RecordsFacts DEF AreRecords
  <2>3. n \in 0 .. Len(s)
    BY <2>2, SMT
  <2>4. JoinedTo(s)[n] \in Seq(Int)
    BY <2>2, <2>3, JoinTyped
  <2> QED
    BY <2>1, <2>2, <2>4 DEF Passed, Joined, Records
\* One more part.
<1>JoinStep.
    ASSUME NEW S, NEW seqs \in Seq(Seq(S)), NEW t \in Seq(Seq(S)), Len(t) = Len(seqs) + 1,
           \A k \in 1 .. Len(seqs) : t[k] = seqs[k]
    PROVE  Joined(t) = Joined(seqs) \o t[Len(t)]
  <2> USE <1>JoinStep
  <2> DEFINE U == JoinedTo(seqs)
             V == JoinedTo(t)
             n == Len(seqs)
             Bad == { j \in 0 .. n : V[j] # U[j] }
  <2>1. n \in Nat /\ Len(t) \in Nat /\ n + 1 \in 1 .. Len(t) /\ n + 1 - 1 = n /\ n \in 0 .. n
    BY SMT
  <2>2. Parts(U, seqs) /\ Parts(V, t)
    BY <2>1, JoinParts
  <2> HIDE DEF U, V
  <2>3. Bad = {}
    <3> SUFFICES ASSUME Bad # {} PROVE FALSE
      OBVIOUS
    <3>1. Bad \in SUBSET Nat
      BY SMT
    <3>2. PICK j \in Bad : \A k \in Bad : j <= k
      BY <3>1, LeastOf
    <3>3. j \in 0 .. n /\ V[j] # U[j]
      BY <3>2
    <3>4. j # 0
      BY <2>2, <3>3 DEF Parts
    <3>5. j \in 1 .. n /\ j \in 1 .. Len(t) /\ j - 1 \in 0 .. n /\ ~(j <= j - 1)
      BY <2>1, <3>3, <3>4, SMT
    <3>6. V[j - 1] = U[j - 1]
      BY <3>2, <3>5
    <3> QED
      BY <2>2, <3>3, <3>5, <3>6 DEF Parts
  <2>4. V[n] = U[n]
    BY <2>1, <2>3
  <2>5. V[n + 1] = V[n] \o t[n + 1]
    <3>1. PICK m : m = n + 1
      BY SMT
    <3>2. m \in 1 .. Len(t) /\ m - 1 = n
      BY <2>1, <3>1, SMT
    <3>3. V[m] = V[m - 1] \o t[m]
      BY <2>2, <3>2 DEF Parts
    <3> QED
      BY <3>1, <3>2, <3>3
  <2>6. Len(t) = n + 1
    BY SMT
  <2> QED
    BY <2>4, <2>5, <2>6 DEF Joined, U, V
\* One record more.
<1>PassedMore.
    ASSUME NEW from \in Nat, NEW n \in Nat, from + n <= Len(Children), NEW m \in Nat, m = n + 1,
           from + m <= Len(Children)
    PROVE  Passed(from, m) = Passed(from, n) \o Dirent(from + m)
  <2> USE <1>PassedMore
  <2>1. PICK s, t : s = Records(from, n) /\ t = Records(from, m)
    BY SMT
  <2>2. AreRecords(s, from, n) /\ AreRecords(t, from, m)
    BY <2>1, <1>RecordsFacts
  <2>3. s \in Seq(Seq(Int)) /\ t \in Seq(Seq(Int)) /\ Len(s) = n /\ Len(t) = m
    BY <2>2 DEF AreRecords
  <2>4. \A k \in 1 .. n : k \in 1 .. m
    BY SMT
  <2>5. \A k \in 1 .. n : t[k] = s[k]
    BY <2>2, <2>4 DEF AreRecords
  <2>6. Len(t) = Len(s) + 1 /\ \A k \in 1 .. Len(s) : t[k] = s[k]
    BY <2>3, <2>5
  <2>7. Joined(t) = Joined(s) \o t[Len(t)]
    BY <2>3, <2>6, <1>JoinStep
  <2>8. m \in 1 .. m
    BY SMT
  <2>9. t[Len(t)] = Dirent(from + m)
    BY <2>2, <2>3, <2>8 DEF AreRecords
  <2> QED
    BY <2>1, <2>7, <2>9 DEF Passed, Records
\* The offset of a directory that was not at its end.
<1>BetweenIs.
    ASSUME NEW from \in Nat, NEW m \in Nat, NEW len \in Nat, from + m <= len, NEW off, off = from + m
    PROVE  Between(from, m, off, len)
  BY <1>BetweenIs, SMT DEF Between
\* What getdents64 must show as it returns: m entries are passed on.
<1>DirentsBack.
    ASSUME Kept, call'.buf = call.buf, call'.count = call.count, call.from \in Nat, NEW m \in Nat,
           offset'["dir"] = call.from + m, call.from + m <= Len(Children),
           call'.result > 0 =>
             /\ call'.result = Len(Passed(call.from, m))
             /\ \A k \in 1 .. Len(Passed(call.from, m)) : user'[call.buf + k - 1] = Passed(call.from, m)[k],
           call'.result = 0 => FALSE,
           call'.result < 0 => m = 0,
           \A a \in Address \ call.buf .. call.buf + call.count - 1 : user'[a] = Fresh(a)
    PROVE  DirentsOnce'
  <2> USE <1>DirentsBack
  <2>1. PICK off : off = offset'["dir"]
    BY SMT
  <2>2. Between(call.from, m, off, Len(Children))
    <3>1. Len(Children) \in Nat
      BY WidthAssumption, SMT
    <3> QED
      BY <2>1, <3>1, <1>BetweenIs
  <2>3. Least(call.from, Len(Children)) = call.from /\ off - call.from = m /\ off >= call.from
    BY <2>2 DEF Between, Least
  <2>4. PICK s : s = Passed(call.from, m)
    BY SMT
  <2>5. s = Joined([k \in 1 .. off - call.from |-> Dirent(call.from + k)])
    BY <2>3, <2>4 DEF Passed
  <2>6. DOMAIN s = 1 .. Len(s)
    <3>1. s \in Seq(Int)
      BY <2>4, <1>PassedTyped
    <3> QED
      BY <3>1, SMT
  <2>7. call'.result > 0 => call'.result = Len(s) /\ \A k \in DOMAIN s : user'[call.buf + k - 1] = s[k]
    BY <2>4, <2>6
  <2>8. call'.result < 0 => off = call.from
    <3>1. call'.result < 0 => off = call.from + 0
      BY <2>1
    <3>2. call.from + 0 = call.from
      BY SMT
    <3> QED
      BY <3>1, <3>2
  <2>9. call'.from = call.from
    BY DEF Kept
  <2>10. PICK old : old = Least(call'.from, Len(Children))
    BY SMT
  <2>11. old = call.from
    BY <2>3, <2>9, <2>10
  <2>12. s = Joined([k \in 1 .. offset'["dir"] - old |-> Dirent(old + k)])
    BY <2>1, <2>5, <2>11
  <2>13. offset'["dir"] # call'.from => offset'["dir"] >= old
    BY <2>1, <2>3, <2>11
  <2>14. call'.result < 0 => offset'["dir"] = call'.from
    BY <2>1, <2>8, <2>9
  <2>15. call'.result > 0 => call'.result = Len(s) /\ \A k \in DOMAIN s : user'[call'.buf + k - 1] = s[k]
    BY <2>7
  <2>16. \A a \in Address \ call'.buf .. call'.buf + call'.count - 1 : user'[a] = Fresh(a)
    OBVIOUS
  <2> QED
    BY <2>10, <2>12, <2>13, <2>14, <2>15, <2>16 DEF DirentsOnce
<1>AtEndIs.
    ASSUME NEW from \in Nat, NEW i \in Nat \ {0}, NEW len \in Nat, NEW off,
           off = Least(len, from + DIRENTS), from + i > off
    PROVE  AtEnd(from, i, off, len)
  <2> USE <1>AtEndIs
  <2>1. DIRENTS \in Nat \ {0}
    BY ArgAssumption, SMT
  <2> QED
    BY <2>1, SMT DEF AtEnd, Least
<1>AtEntryIs.
    ASSUME NEW from \in Nat, NEW i \in Nat \ {0}, NEW len \in Nat, NEW off,
           off = Least(len, from + DIRENTS), ~(from + i > off)
    PROVE  AtEntry(from, i, off, len)
  <2> USE <1>AtEntryIs
  <2>1. DIRENTS \in Nat \ {0}
    BY ArgAssumption, SMT
  <2> QED
    BY <2>1, SMT DEF AtEntry, Least
<1>FitsIs.
    ASSUME NEW done \in Nat, NEW d \in Nat \ {0}, NEW count \in Nat, ~(d > count - done)
    PROVE  Fits(done, d, count)
  BY <1>FitsIs, SMT DEF Fits
<1>ApartIs.
    ASSUME NEW buf \in Nat, NEW done \in Nat, NEW c \in Nat, NEW n \in Nat, done + c <= n
    PROVE  Apart(buf, done, c, n)
  <2> USE <1>ApartIs
  <2>1. \A k \in 1 .. done : \A j \in 1 .. c : buf + done + j - 1 # buf + k - 1
    BY SMT
  <2>2. \A a \in Int \ buf .. buf + n - 1 : a \notin buf .. buf + done - 1
    BY SMT
  <2>3. \A a \in Int \ buf .. buf + n - 1 : \A j \in 1 .. c : buf + done + j - 1 # a
    BY SMT
  <2> QED
    BY <2>1, <2>2, <2>3 DEF Apart
\* Copying a record out leaves the ones before it.
<1>RecordLands.
    ASSUME NEW buf \in Nat, NEW done \in Nat, NEW c \in Nat, NEW n \in Nat, done + c <= n,
           NEW record, Landed(buf + done, record, c),
           \A k \in 1 .. done : buf + k - 1 \in Address,
           \A a \in Address \ buf .. buf + done - 1 : user[a] = Fresh(a)
    PROVE  Listed(user', buf, done, n)
  <2> USE <1>RecordLands
  <2>1. Apart(buf, done, c, n)
    BY <1>ApartIs
  <2>2. \A a \in Address : (\A j \in 1 .. c : buf + done + j - 1 # a) => user'[a] = user[a]
    BY DEF Landed
  <2>3. \A k \in 1 .. done : user'[buf + k - 1] = user[buf + k - 1]
    BY <2>1, <2>2 DEF Apart
  <2>4. ASSUME NEW a \in Address \ buf .. buf + n - 1 PROVE user'[a] = Fresh(a)
    <3>1. a \in Int
      BY ArgAssumption, SMT DEF Address
    <3>2. a \in Address /\ a \in Int \ buf .. buf + n - 1
      BY <3>1
    <3>3. user'[a] = user[a]
      BY <2>1, <2>2, <3>2 DEF Apart
    <3>4. user[a] = Fresh(a)
      BY <2>1, <3>2 DEF Apart
    <3> QED
      BY <3>3, <3>4
  <2> QED
    BY <2>3, <2>4 DEF Listed
\* The k-th byte of two sequences in a row is at its place.
<1>NewBytes.
    ASSUME NEW buf \in Nat, NEW s \in Seq(Int), NEW t \in Seq(Int), NEW w, Concat(Int, s, t, w), NEW memory,
           Rows(memory, buf, s, t)
    PROVE  Holds(memory, buf, w, Len(s) + Len(t))
  <2> USE <1>NewBytes
  <2>0. /\ \A k \in 1 .. Len(s) : buf + k - 1 \in Address /\ memory[buf + k - 1] = s[k]
        /\ \A j \in 1 .. Len(t) : buf + Len(s) + j - 1 \in Address /\ memory[buf + Len(s) + j - 1] = t[j]
    BY DEF Rows, Holds
  <2> SUFFICES ASSUME NEW k \in 1 .. Len(s) + Len(t)
               PROVE  buf + k - 1 \in Address /\ memory[buf + k - 1] = w[k]
    BY DEF Holds
  <2>1. w[k] = IF k <= Len(s) THEN s[k] ELSE t[k - Len(s)]
    BY DEF Concat
  <2>2. CASE k <= Len(s)
    <3>1. k \in 1 .. Len(s)
      BY <2>2, SMT
    <3> QED
      BY <2>0, <2>1, <2>2, <3>1
  <2>3. CASE ~(k <= Len(s))
    <3>0. PICK m, n : m = Len(s) /\ n = Len(t)
      OBVIOUS
    <3>1. PICK j \in 1 .. Len(t) : j = k - Len(s) /\ buf + Len(s) + j - 1 = buf + k - 1
      <4>1. m \in Nat /\ n \in Nat /\ k \in 1 .. m + n /\ ~(k <= m)
        BY <2>3, <3>0, SMT
      <4>2. k - m \in 1 .. n /\ buf + m + (k - m) - 1 = buf + k - 1
        BY <4>1, SMT
      <4> QED
        BY <3>0, <4>2
    <3> QED
      BY <2>0, <2>1, <2>3, <3>1
  <2> QED
    BY <2>2, <2>3
<1> DEFINE from == call.from
           i == call.i
           off == offset["dir"]
           at == call.buf + call.done
           record == Dirent(from + i)
           d == Len(record)
           records == Passed(from, i - 1)
           rewind == offset' = [offset EXCEPT !["dir"] = from + i - 1]
<1>1. /\ call.pc = "dirents" /\ IsCall /\ offset \in [File -> 0 .. INT_MAX]
      /\ from \in 0 .. INT_MAX /\ call.count \in Nat /\ i \in Nat \ {0} /\ call.total \in Nat
  BY DEF NextDirent, SeekInv, Typed, Good, IoInv, Shape
<1>2. /\ call.op = "getdents64" /\ call.fd = 4 /\ call.buf \in Nat /\ call.count > 0
      /\ off = Least(Len(Children), from + DIRENTS)
      /\ i = 1 \/ from + i - 1 <= off
      /\ call.done = Len(records) /\ call.done <= call.count
      /\ call.done = 0 => i = 1
      /\ \A k \in 1 .. call.done : call.buf + k - 1 \in Address /\ user[call.buf + k - 1] = records[k]
      /\ \A a \in Address \ call.buf .. call.buf + call.done - 1 : user[a] = Fresh(a)
  BY <1>1 DEF Good, IoInv, Listing
<1>3. from \in Nat /\ Len(Children) \in Nat
  BY <1>1, WidthAssumption, SMT
<1>4. (i = 1 => call.done = 0) /\ i - 1 \in Nat
  <2>1. i = 1 => i - 1 = 0
    BY <1>1, SMT
  <2>2. i - 1 \in Nat
    BY <1>1, SMT
  <2> QED
    BY <1>2, <2>1, <2>2, PassedNone
<1>5. ASSUME NEW r, Return(r), DirentsOnce' PROVE Good' /\ Reading' /\ ReadExact'
  <2>1. call'.pc = "returned" /\ Kept /\ call'.total = call.total
    BY <1>1, <1>5, ReturnAll
  <2>2. Shape' /\ Entered' /\ Writing' /\ WriteExact' /\ StructWhole' /\ Reading' /\ ReadExact'
    BY <1>1, <1>2, <2>1, DirentsOnly DEF Kept
  <2> QED
    BY <1>5, <2>1, <2>2 DEF Good, IoInv, Listing
<1>6. CASE from + i > off /\ Return(call.done) /\ user' = user /\ offset' = offset
  <2>1. AtEnd(from, i, off, Len(Children))
    BY <1>1, <1>2, <1>3, <1>6, <1>AtEndIs
  <2>2. /\ Kept /\ call'.result = call.done /\ call'.buf = call.buf /\ call'.count = call.count
    BY <1>1, <1>6, ReturnAll
  <2>3. \A a \in Address \ call.buf .. call.buf + call.count - 1 : user'[a] = Fresh(a)
    <3>1. call.done \in Nat
      <4>1. i = 1 => call.done \in Nat
        BY <1>4, SMT
      <4>2. i # 1 => from + (i - 1) <= Len(Children)
        BY <1>2, <2>1 DEF AtEnd
      <4>3. i # 1 => records \in Seq(Int)
        BY <1>3, <1>4, <4>2, <1>PassedTyped
      <4>4. i # 1 => Len(records) \in Nat
        BY <4>3, SMT
      <4> QED
        BY <1>2, <4>1, <4>4
    <3>2. \A a \in Address \ call.buf .. call.buf + call.count - 1 : a \notin call.buf .. call.buf + call.done - 1
      BY <1>1, <1>2, <3>1, SMT
    <3> QED
      BY <1>2, <1>6, <3>2
  <2>4. CASE i = 1
    <3>1. off = Len(Children) /\ Least(from, Len(Children)) = Len(Children) /\ off >= Len(Children)
      BY <2>1, <2>4 DEF AtEnd, Least
    <3>2. call'.result = 0 /\ ~(call'.result > 0) /\ ~(call'.result < 0)
      BY <1>4, <2>2, <2>4, SMT
    <3>3. call'.from = from /\ offset'["dir"] = off
      BY <1>6, <2>2 DEF Kept
    <3>4. DirentsOnce'
      BY <2>2, <2>3, <3>1, <3>2, <3>3 DEF DirentsOnce
    <3> QED
      BY <1>5, <1>6, <3>4
  <2>5. CASE i # 1
    <3>1. off = from + (i - 1) /\ from + (i - 1) <= Len(Children)
      BY <1>2, <2>1, <2>5 DEF AtEnd
    <3>2. records \in Seq(Int)
      BY <1>3, <1>4, <3>1, <1>PassedTyped
    <3>3. call.done # 0 /\ ~(call.done < 0)
      <4>1. call.done # 0
        BY <1>2, <2>5
      <4> QED
        BY <1>2, <3>2, <4>1, SMT
    <3>4. \A k \in 1 .. Len(records) : user'[call.buf + k - 1] = records[k]
      BY <1>2, <1>6
    <3>5. DirentsOnce'
      BY <1>2, <1>3, <1>4, <1>6, <2>2, <2>3, <3>1, <3>3, <3>4, <1>DirentsBack
    <3> QED
      BY <1>5, <1>6, <3>5
  <2> QED
    BY <2>4, <2>5
<1>7. ASSUME ~(from + i > off)
      PROVE  AtEntry(from, i, off, Len(Children)) /\ IsRecord(record) /\ records \in Seq(Int) /\ call.done \in Nat
  <2>1. AtEntry(from, i, off, Len(Children))
    BY <1>1, <1>2, <1>3, <1>7, <1>AtEntryIs
  <2>2. records \in Seq(Int)
    BY <1>3, <2>1, <1>PassedTyped DEF AtEntry
  <2>3. call.done \in Nat
    BY <1>2, <2>2, SMT
  <2>4. IsRecord(record)
    BY <2>1, <1>DirentFacts DEF AtEntry
  <2> QED
    BY <2>1, <2>2, <2>3, <2>4
<1>8. ASSUME ~(from + i > off), rewind, NEW e \in Int, e < 0, Return(SoFar(call.done, e)),
             Listed(user', call.buf, call.done, call.count)
      PROVE  Good' /\ Reading' /\ ReadExact'
  <2>1. /\ Kept /\ call'.result = SoFar(call.done, e) /\ call'.buf = call.buf /\ call'.count = call.count
    BY <1>1, <1>8, ReturnAll
  <2>2. offset'["dir"] = from + (i - 1) /\ from + (i - 1) <= Len(Children)
    <3>1. from + i - 1 = from + (i - 1) /\ from + (i - 1) <= Len(Children)
      BY <1>7, <1>8 DEF AtEntry
    <3> QED
      BY <1>1, <1>8, <3>1 DEF File
  <2>3. call.done \in Nat /\ records \in Seq(Int)
    BY <1>7, <1>8
  <2>4. \A k \in 1 .. Len(records) : user'[call.buf + k - 1] = records[k]
    BY <1>2, <1>8 DEF Listed
  <2>5. /\ call'.result > 0 => call'.result = call.done
        /\ call'.result = 0 => FALSE
        /\ call'.result < 0 => call.done = 0
    BY <1>8, <2>1, <2>3, SMT DEF SoFar
  <2>6. i = 1 => i - 1 = 0
    BY <1>1, SMT
  <2>7. call'.result > 0 => call'.result = Len(records) /\ \A k \in 1 .. Len(records) : user'[call.buf + k - 1] = records[k]
    BY <1>2, <2>4, <2>5
  <2>8. call'.result < 0 => i - 1 = 0
    BY <1>2, <2>5, <2>6
  <2>9. \A a \in Address \ call.buf .. call.buf + call.count - 1 : user'[a] = Fresh(a)
    BY <1>8 DEF Listed
  <2>10. DirentsOnce'
    BY <1>3, <1>4, <2>1, <2>2, <2>5, <2>7, <2>8, <2>9, <1>DirentsBack
  <2> QED
    BY <1>5, <1>8, <2>10
<1>9. ERR_INVAL \in Int /\ ERR_INVAL < 0 /\ ERR_FAULT \in Int /\ ERR_FAULT < 0
  BY SMT DEF ERR_INVAL, ERR_FAULT
<1>10. CASE ~(from + i > off) /\ Return(SoFar(call.done, ERR_INVAL)) /\ rewind /\ user' = user
  <2>1. call.done \in Nat
    BY <1>7, <1>10
  <2>2. \A a \in Address \ call.buf .. call.buf + call.count - 1 : a \notin call.buf .. call.buf + call.done - 1
    BY <1>1, <1>2, <2>1, SMT
  <2>3. Listed(user', call.buf, call.done, call.count)
    BY <1>2, <1>10, <2>2 DEF Listed
  <2> QED
    BY <1>8, <1>9, <1>10, <2>3
<1>11. ASSUME ~(from + i > off), ~(d > call.count - call.done), Put(at, record)
       PROVE  /\ Fits(call.done, d, call.count) /\ d \in Nat
              /\ Listed(user', call.buf, call.done, call.count)
              /\ copy_user(at, d, TRUE) =>
                   /\ Listed(user', call.buf, call.done, call.done + d)
                   /\ \A j \in 1 .. d : at + j - 1 \in Address /\ user'[at + j - 1] = record[j]
  <2>1. call.done \in Nat /\ d \in Nat \ {0} /\ d \in Nat
    BY <1>7, <1>11, SMT DEF IsRecord
  <2>2. Fits(call.done, d, call.count)
    BY <1>1, <1>11, <2>1, <1>FitsIs
  <2>3. at \in Nat
    BY <1>2, <2>1, SMT
  <2>4. PICK c \in Nat : Landed(at, record, c)
    BY <1>11, <2>1, <2>3, PutFacts
  <2>5. c \in 0 .. d /\ (copy_user(at, d, TRUE) => c = d) /\ \A j \in 1 .. c : at + j - 1 \in Address
    BY <2>4 DEF Landed, Copies
  <2>6. call.done + c <= call.done + d /\ call.done + c <= call.count /\ call.done + d \in Nat
    <3>1. call.done + d <= call.count
      BY <2>2 DEF Fits
    <3> QED
      BY <1>1, <2>1, <2>5, <3>1, SMT
  <2>7. \A k \in 1 .. call.done : call.buf + k - 1 \in Address
    BY <1>2
  <2>8. Listed(user', call.buf, call.done, call.count)
    BY <1>1, <1>2, <2>1, <2>4, <2>6, <2>7, <1>RecordLands
  <2>9. Listed(user', call.buf, call.done, call.done + d)
    BY <1>2, <2>1, <2>4, <2>6, <2>7, <1>RecordLands
  <2>10. \A j \in 1 .. c : user'[at + j - 1] = record[j]
    BY <2>4 DEF Landed
  <2> QED
    BY <2>1, <2>2, <2>5, <2>8, <2>9, <2>10
<1>12. CASE /\ ~(from + i > off) /\ ~(d > call.count - call.done) /\ Put(at, record)
            /\ Return(SoFar(call.done, ERR_FAULT)) /\ rewind
  BY <1>8, <1>9, <1>11, <1>12
<1>13. CASE /\ ~(from + i > off) /\ ~(d > call.count - call.done) /\ Put(at, record) /\ copy_user(at, d, TRUE)
            /\ call' = [call EXCEPT !.done = @ + d, !.i = @ + 1] /\ offset' = offset
  <2>1. /\ Fits(call.done, d, call.count) /\ Listed(user', call.buf, call.done, call.done + d)
        /\ \A j \in 1 .. d : at + j - 1 \in Address /\ user'[at + j - 1] = record[j]
    BY <1>11, <1>13
  <2>2. /\ call'.pc = "dirents" /\ call'.op = call.op /\ call'.fd = call.fd /\ call'.buf = call.buf
        /\ call'.count = call.count /\ call'.from = call.from /\ call'.i = i + 1 /\ call'.done = call.done + d
        /\ call'.total = call.total
    BY <1>1, <1>13 DEF IsCall
  <2>3. AtEntry(from, i, off, Len(Children)) /\ IsRecord(record) /\ records \in Seq(Int)
    BY <1>7, <1>13
  <2>4. record \in Seq(Int)
    BY <2>3 DEF IsRecord
  <2>5. PICK w : w = Passed(from, call'.i - 1)
    BY SMT
  <2>6. w = records \o record
    <3>1. /\ call'.i - 1 = i /\ i - 1 \in Nat /\ i = (i - 1) + 1
          /\ from + (i - 1) <= Len(Children) /\ from + i <= Len(Children)
      BY <2>2, <2>3 DEF AtEntry
    <3>2. i \in Nat
      BY <1>1, SMT
    <3>3. Passed(from, i) = records \o record
      BY <1>3, <3>1, <3>2, <1>PassedMore
    <3> QED
      BY <2>5, <3>1, <3>3
  <2>7. Concat(Int, records, record, w)
    BY <2>3, <2>4, <2>6, ConcatFacts
  <2>8. \A k \in 1 .. Len(records) : call.buf + k - 1 \in Address /\ user'[call.buf + k - 1] = records[k]
    BY <1>2, <2>1 DEF Listed
  <2>9. \A j \in 1 .. d : /\ call.buf + Len(records) + j - 1 \in Address
                          /\ user'[call.buf + Len(records) + j - 1] = record[j]
    BY <1>2, <2>1
  <2>10. \A k \in 1 .. Len(records) + d : call.buf + k - 1 \in Address /\ user'[call.buf + k - 1] = w[k]
    <3>1. Rows(user', call.buf, records, record)
      BY <2>8, <2>9 DEF Rows, Holds
    <3>2. Holds(user', call.buf, w, Len(records) + d)
      BY <1>2, <2>3, <2>4, <2>7, <3>1, <1>NewBytes
    <3> QED
      BY <3>2 DEF Holds
  <2>11. call'.done = Len(w) /\ call'.done <= call'.count /\ call'.done # 0
    <3>1. Len(w) = Len(records) + d
      BY <2>7 DEF Concat
    <3> QED
      BY <1>2, <2>1, <2>2, <3>1 DEF Fits
  <2>12. \A k \in 1 .. call'.done : call'.buf + k - 1 \in Address /\ user'[call'.buf + k - 1] = w[k]
    BY <1>2, <2>2, <2>10
  <2>13. \A a \in Address \ call'.buf .. call'.buf + call'.done - 1 : user'[a] = Fresh(a)
    BY <2>1, <2>2 DEF Listed
  <2>14. call'.from + call'.i - 1 <= offset'["dir"]
    <3>1. from + (i + 1) - 1 <= off
      BY <2>3 DEF AtEntry
    <3> QED
      BY <1>13, <2>2, <3>1
  <2>15. offset'["dir"] = Least(Len(Children), call'.from + DIRENTS)
    BY <1>2, <1>13, <2>2
  <2>16. /\ call'.op = "getdents64" /\ call'.fd = 4 /\ call'.buf \in Nat /\ call'.count > 0
    BY <1>2, <2>2
  <2>17. w = Passed(call'.from, call'.i - 1)
    BY <2>2, <2>5
  <2>18. Listing'
    BY <2>11, <2>12, <2>13, <2>14, <2>15, <2>16, <2>17 DEF Listing
  <2>19. Shape' /\ Entered' /\ Writing' /\ WriteExact' /\ StructWhole' /\ Reading' /\ ReadExact'
    BY <1>1, <1>2, <2>2, DirentsOnly
  <2>20. DirentsOnce'
    BY <2>2 DEF DirentsOnce, Returned
  <2> QED
    BY <2>18, <2>19, <2>20 DEF Good, IoInv
<1> QED
  BY <1>6, <1>10, <1>12, <1>13 DEF NextDirent

-----------------------------------------------------------------------------
(* Entering a call, and going on after it.                                 *)

\* Before the first call.
LEMMA InitGood == Init => Good /\ Reading /\ ReadExact
<1> SUFFICES ASSUME Init PROVE Good /\ Reading /\ ReadExact
  OBVIOUS
<1>1. call = NoCall /\ Untouched
  BY DEF Init, Untouched
<1>2. call.pc = "user" /\ call.op = "none" /\ call.total = 0
  BY <1>1 DEF NoCall
<1>3. Shape
  <2>1. call.total \in Nat
    BY <1>2, SMT
  <2> QED
    BY <1>2, <2>1 DEF Shape, Moving, Vectored
<1> QED
  BY <1>1, <1>2, <1>3 DEF Good, IoInv, Entered, Writing, Listing, WriteExact, DirentsOnce, StructWhole,
    Returned, StructCalls, Reading, ReadExact

TransferCalls == {"read", "write", "readv", "writev"}

\* A step of a transfer.
LEMMA TransferOnly ==
  ASSUME call'.op \in TransferCalls, call'.pc \in Moving \cup {"iov", "returned"}
  PROVE  Entered' /\ Listing' /\ DirentsOnce' /\ StructWhole'
BY DEF Entered, Listing, DirentsOnce, StructWhole, Returned, TransferCalls, Moving, StructCalls

\* s holds the addresses from base on.
IsSpan(s, base, length) ==
  s \in Seq(Nat) /\ Len(s) = length /\ \A k \in 1 .. length : s[k] = base + k - 1

\* The addresses of one element.
LEMMA SpanFacts ==
  ASSUME NEW base \in Nat, NEW length \in Nat
  PROVE  IsSpan(Span(base, length), base, length)
<1>1. \A k \in 1 .. length : base + k - 1 \in Nat
  BY SMT
<1> QED
  BY <1>1, SMT DEF Span, IsSpan

\* The addresses of a vector, element by element.
LEMMA SpansFacts ==
  ASSUME NEW iovs \in Seq([base : Nat, length : Nat])
  PROVE  /\ Spans(iovs) \in Seq(Seq(Nat)) /\ Len(Spans(iovs)) = Len(iovs)
         /\ \A i \in 1 .. Len(iovs) : /\ Spans(iovs)[i] = Span(iovs[i].base, iovs[i].length)
                                      /\ iovs[i].base \in Nat /\ iovs[i].length \in Nat
<1>1. DOMAIN iovs = 1 .. Len(iovs) /\ Len(iovs) \in Nat
  BY SMT
<1>2. \A i \in 1 .. Len(iovs) : iovs[i].base \in Nat /\ iovs[i].length \in Nat
  <2>1. \A i \in 1 .. Len(iovs) : iovs[i] \in [base : Nat, length : Nat]
    BY ElementOf
  <2> QED
    BY <2>1
<1>3. \A i \in 1 .. Len(iovs) : Span(iovs[i].base, iovs[i].length) \in Seq(Nat)
  BY <1>2, SpanFacts DEF IsSpan
<1>4. Spans(iovs) = [i \in 1 .. Len(iovs) |-> Span(iovs[i].base, iovs[i].length)]
  BY <1>1 DEF Spans
<1>5. Spans(iovs) \in Seq(Seq(Nat)) /\ Len(Spans(iovs)) = Len(iovs)
  BY <1>1, <1>3, <1>4, SMT
<1> QED
  BY <1>2, <1>4, <1>5

\* The outcomes of the checks.
LEMMA CheckFacts ==
  ASSUME NEW op, NEW fd, NEW count
  PROVE  rw_check(op, fd, count) \in {-9, -22, 0}
BY SMT DEF rw_check, ERR_BADF, ERR_INVAL

\* user code goes on, umask answers at once and lseek moves an offset.
LEMMA QuietGood ==
  ASSUME SeekInv, Good, UserRuns \/ (\E mask \in Masks : sys_umask(mask)) \/ sys_lseek
  PROVE  Good' /\ Reading' /\ ReadExact'
\* The return of a call that promises nothing here.
<1>OtherReturn.
    ASSUME call'.pc = "returned", call'.op \in {"lseek", "umask"}, call'.total \in Nat
    PROVE  Good' /\ Reading' /\ ReadExact'
  <2> USE <1>OtherReturn
  <2>1. Shape'
    BY DEF Shape, Moving, Vectored
  <2> QED
    BY <2>1 DEF Good, IoInv, Entered, Writing, Listing, WriteExact, DirentsOnce, StructWhole,
      Returned, StructCalls, Reading, ReadExact
<1>1. CASE UserRuns
  <2>1. call' = NoCall /\ Untouched'
    BY <1>1 DEF UserRuns, Untouched
  <2>2. call'.pc = "user" /\ call'.op = "none" /\ call'.total = 0
    BY <2>1 DEF NoCall
  <2>3. call'.total \in Nat
    BY <2>2, SMT
  <2>4. Shape'
    BY <2>2, <2>3 DEF Shape, Moving, Vectored
  <2> QED
    BY <2>1, <2>2, <2>4 DEF Good, IoInv, Entered, Writing, Listing, WriteExact, DirentsOnce,
      StructWhole, Returned, StructCalls, Reading, ReadExact
<1>2. CASE \E mask \in Masks : sys_umask(mask)
  <2>1. \E r : call' = [NoCall EXCEPT !.op = "umask", !.pc = "returned", !.result = r]
    BY <1>2 DEF sys_umask
  <2>2. call'.pc = "returned" /\ call'.op = "umask" /\ call'.total = 0
    BY <2>1, ZenonT(30) DEF NoCall
  <2>3. call'.total \in Nat
    BY <2>2, SMT
  <2> QED
    BY <2>2, <2>3, <1>OtherReturn
<1>3. CASE sys_lseek
  <2>1. PICK r : Return(r)
    BY <1>3 DEF sys_lseek
  <2>2. call.op = "lseek"
    BY <1>3 DEF SeekInv, Seeks, sys_lseek
  <2>3. call'.pc = "returned" /\ Kept /\ call'.total = call.total
    BY <2>1, ReturnAll DEF SeekInv, Typed
  <2>4. call'.op = "lseek" /\ call'.total \in Nat
    BY <2>2, <2>3 DEF Kept, Good, IoInv, Shape
  <2> QED
    BY <2>3, <2>4, <1>OtherReturn
<1> QED
  BY <1>1, <1>2, <1>3

\* syscall_dispatch enters a call.
LEMMA DispatchGood ==
  ASSUME SeekInv', SeekInv, Good, Dispatch
  PROVE  Good' /\ Reading' /\ ReadExact'
\* A call is entered with user memory as user code left it.
<1>EnterGood.
    ASSUME Good, SeekInv', NEW op \in {"read", "write", "getdents64", "lseek"} \cup StructCalls,
           NEW fd, NEW buf, NEW count, op # "lseek" => buf \in Nat, Enter(op, fd, buf, count)
    PROVE  Good' /\ Reading' /\ ReadExact'
  <2> USE <1>EnterGood
  <2>1. /\ call.pc = "user"
        /\ call' = [NoCall EXCEPT !.op = op, !.pc = op, !.fd = fd, !.buf = buf, !.count = count,
                              !.from = IF fd \in DOMAIN open_files THEN offset[open_files[fd]] ELSE 0]
        /\ offset' = offset /\ user' = user /\ printed' = printed
    BY DEF Enter, fileState
  <2>2. /\ call'.pc = op /\ call'.op = op /\ call'.fd = fd /\ call'.buf = buf /\ call'.count = count
        /\ call'.i = 1 /\ call'.iovs = << >> /\ call'.total = 0 /\ call'.done = 0
        /\ call'.from = IF fd \in DOMAIN open_files THEN offset[open_files[fd]] ELSE 0
    BY <2>1 DEF NoCall
  <2>3. Untouched /\ Untouched'
    BY <2>1 DEF Good, IoInv, Entered, Untouched
  <2>4. op \notin Vectored \cup {"reading", "writing", "iov", "dirents", "user", "returned"}
    BY DEF Vectored, StructCalls
  <2>5. Shape'
    <3>1. call'.total \in Nat
      BY <2>2, SMT
    <3>2. op \in {"read", "write"} => call'.buf \in Nat
      BY <2>2
    <3> QED
      BY <2>2, <2>4, <3>1, <3>2 DEF Shape, Vectored, StructCalls
  <2>6. call'.fd \in DOMAIN open_files => offset'[open_files[call'.fd]] = call'.from
    BY <2>1, <2>2
  <2>7. op # "lseek" => Entered'
    BY <2>2, <2>3, <2>4, <2>6 DEF Entered
  <2>8. op = "lseek" => Entered'
    BY <2>2 DEF Entered, StructCalls
  <2>9. Sent' = 0
    <3>1. Sent' = call'.total + 0
      BY <2>2, <2>4 DEF Sent
    <3> QED
      BY <2>2, <3>1, SMT
  <2>10. Writing'
    <3>2. printed' = [k \in 1 .. 0 |-> Fresh(Named[k])']
      BY <2>3, SMT DEF Untouched
    <3> QED
      BY <2>2, <2>3, <2>4, <2>6, <2>9, <3>2 DEF Writing, Untouched
  <2>11. Reading'
    <3>1. Got(0)'
      <4>1. \A k \in 1 .. 0 : FALSE
        BY SMT
      <4>2. \A a \in Address : user'[a] = Fresh(a)
        BY <2>3 DEF Untouched
      <4> QED
        BY <4>1, <4>2 DEF Got
    <3>2. ASSUME call'.fd \in DOMAIN open_files, op = "read" PROVE offset'[open_files[call'.fd]] = call'.from + 0
      <4>1. offset'[open_files[call'.fd]] = call'.from
        BY <2>6, <3>2
      <4>2. call'.from \in Int
        BY SMT DEF SeekInv, Typed
      <4> QED
        BY <4>1, <4>2, SMT
    <3> QED
      BY <2>2, <2>4, <2>9, <3>1, <3>2 DEF Reading
  <2>12. Listing'
    BY <2>2, <2>4 DEF Listing
  <2>13. WriteExact' /\ DirentsOnce' /\ StructWhole' /\ ReadExact'
    BY <2>2, <2>4, NotReturned
  <2> QED
    BY <2>5, <2>7, <2>8, <2>10, <2>11, <2>12, <2>13 DEF Good, IoInv
\* readv and writev: nothing is moved before the loop.
<1>VectorGood.
    ASSUME Good, SeekInv', NEW op \in Vectored, NEW fd, NEW v \in IoVectors, sys_vector_io(op, fd, v.iov, v.iovs)
    PROVE  Good' /\ Reading' /\ ReadExact'
  <2> USE <1>VectorGood
  <2> DEFINE from == IF fd \in DOMAIN open_files THEN offset[open_files[fd]] ELSE 0
             checked == rw_check(IF op = "readv" THEN "read" ELSE "write", fd, 0)
             error == IF Len(v.iovs) > MAX_IOVEC_COUNT THEN ERR_INVAL
                      ELSE IF v.iov >= USER_TOP /\ v.iovs # << >> THEN ERR_FAULT ELSE checked
             vector == [NoCall EXCEPT !.op = op, !.fd = fd, !.iovs = v.iovs, !.iov = v.iov, !.from = from]
  <2>1. /\ call.pc = "user" /\ user' = user /\ printed' = printed /\ offset' = offset
        /\ call' = IF error < 0 \/ v.iovs = << >>
                   THEN [vector EXCEPT !.pc = "returned", !.result = error]
                   ELSE [vector EXCEPT !.pc = "iov"]
    BY DEF sys_vector_io, fileState
  <2>2. error \in {-9, -14, -22, 0} /\ (error = 0 => checked = 0)
    <3>1. checked \in {-9, -22, 0}
      BY CheckFacts
    <3> HIDE DEF checked
    <3> QED
      BY <3>1, SMT DEF ERR_INVAL, ERR_FAULT
  <2>3. Untouched'
    BY <2>1 DEF Good, IoInv, Entered, Untouched
  <2> HIDE DEF from, checked, error
  <2>4. vector = [pc |-> "user", op |-> op, fd |-> fd, buf |-> 0, count |-> 0, done |-> 0,
                  iovs |-> v.iovs, iov |-> v.iov, i |-> 1, total |-> 0, from |-> from, result |-> 0]
    <3>1. PICK w : w = [NoCall EXCEPT !.op = op, !.fd = fd, !.iovs = v.iovs, !.iov = v.iov, !.from = from]
      BY SMT
    <3>2. w = [pc |-> "user", op |-> op, fd |-> fd, buf |-> 0, count |-> 0, done |-> 0,
               iovs |-> v.iovs, iov |-> v.iov, i |-> 1, total |-> 0, from |-> from, result |-> 0]
      BY <3>1 DEF NoCall
    <3> QED
      BY <3>1, <3>2
  <2> HIDE DEF vector
  <2>5. /\ call'.op = op /\ call'.fd = fd /\ call'.iovs = v.iovs /\ call'.iov = v.iov /\ call'.from = from
        /\ call'.total = 0 /\ call'.i = 1
        /\ \/ /\ call'.pc = "returned" /\ call'.result = error
              /\ error < 0 \/ v.iovs = << >>
           \/ call'.pc = "iov" /\ v.iovs # << >> /\ ~(error < 0)
    <3>1. CASE error < 0 \/ v.iovs = << >>
      <4>1. call' = [vector EXCEPT !.pc = "returned", !.result = error]
        BY <2>1, <3>1 DEF vector
      <4>2. /\ call'.op = op /\ call'.fd = fd /\ call'.iovs = v.iovs /\ call'.iov = v.iov /\ call'.from = from
            /\ call'.total = 0 /\ call'.i = 1 /\ call'.pc = "returned" /\ call'.result = error
        BY <2>4, <4>1
      <4> QED
        BY <3>1, <4>2
    <3>2. CASE ~(error < 0 \/ v.iovs = << >>)
      <4>1. call' = [vector EXCEPT !.pc = "iov"]
        BY <2>1, <3>2 DEF vector
      <4>2. /\ call'.op = op /\ call'.fd = fd /\ call'.iovs = v.iovs /\ call'.iov = v.iov /\ call'.from = from
            /\ call'.total = 0 /\ call'.i = 1 /\ call'.pc = "iov"
        BY <2>4, <4>1
      <4> QED
        BY <3>2, <4>2
    <3> QED
      BY <3>1, <3>2
  <2>6. call'.fd \in DOMAIN open_files => offset'[open_files[call'.fd]] = call'.from
    BY <2>1, <2>5 DEF from
  <2>7. call'.total \in Nat
    BY <2>5, SMT
  <2>8. call'.op \in TransferCalls /\ call'.op \notin {"read", "write"}
    BY <2>5 DEF Vectored, TransferCalls
  <2>9. call'.from \in Int
    BY SMT DEF SeekInv, Typed
  <2>10. \A k \in 1 .. 0 : FALSE
    BY SMT
  <2>11. printed' = [k \in 1 .. 0 |-> Fresh(Named[k])']
    BY <2>3, SMT DEF Untouched
  <2>12. \A a \in Address : user'[a] = Fresh(a)
    BY <2>3 DEF Untouched
  <2>13. CASE call'.pc = "iov"
    <3>1. InVector'
      <4>1. call'.i <= Len(call'.iovs) + 1 /\ call'.i - 1 = 0 /\ Len(call'.iovs) \in Nat
        <5>1. v.iovs \in Seq([base : Nat, length : Nat])
          BY ArgAssumption
        <5>2. Len(v.iovs) \in Nat
          BY <5>1, SMT
        <5> QED
          BY <2>5, <5>2, SMT
      <4>2. call'.total = Len(JoinedTo(Spans(call'.iovs))[call'.i - 1])
        <5>1. Len(Spans(v.iovs)) \in Nat
          <6>1. v.iovs \in Seq([base : Nat, length : Nat])
            BY ArgAssumption
          <6>2. Len(Spans(v.iovs)) = Len(v.iovs)
            BY <6>1, SpansFacts
          <6> QED
            BY <4>1, <6>2, <2>5
        <5>2. JoinedTo(Spans(v.iovs))[0] = << >>
          BY <5>1, JoinParts DEF Parts
        <5>3. Len(<< >>) = 0
          BY SMT
        <5> QED
          BY <4>1, <5>2, <5>3, <2>5
      <4>3. checked = 0
        <5>1. ~(error < 0)
          BY <2>5, <2>13
        <5> QED
          BY <2>2, <5>1, SMT
      <4>4. rw_check(Direction, call.fd, 0)' = checked
        <5>1. Direction' = IF op = "readv" THEN "read" ELSE "write"
          BY <2>5 DEF Direction, Vectored
        <5> QED
          BY <2>5, <5>1 DEF checked, rw_check
      <4> QED
        BY <2>5, <2>13, <4>1, <4>2, <4>3, <4>4 DEF InVector
    <3>2. Shape'
      BY <2>7, <2>8, <2>5, <2>13, <3>1 DEF Shape, Moving
    <3>3. Sent' = 0
      <4>1. Sent' = call'.total + 0
        BY <2>13 DEF Sent
      <4> QED
        BY <2>5, <4>1, SMT
    <3>4. Writing'
      BY <2>3, <2>6, <2>11, <2>13, <3>3 DEF Writing, Untouched
    <3>5. Reading'
      <4>1. Got(0)'
        BY <2>10, <2>12 DEF Got
      <4>2. call'.fd \in DOMAIN open_files => offset'[open_files[call'.fd]] = call'.from + 0
        <5>1. call'.from + 0 = call'.from
          BY <2>9, SMT
        <5> QED
          BY <2>6, <5>1
      <4> QED
        BY <2>13, <3>3, <4>1, <4>2 DEF Reading
    <3> QED
      BY <2>8, <2>13, <3>2, <3>4, <3>5, NotReturned, TransferOnly DEF Good, IoInv
  <2>14. CASE call'.pc = "returned"
    <3>1. Shape'
      BY <2>7, <2>8, <2>14 DEF Shape, Moving
    <3>2. Writing' /\ Reading'
      BY <2>14 DEF Writing, Reading
    <3>3. Moved' = 0 /\ (call'.result >= 0 => v.iovs = << >>)
      <4>1. call'.result = error /\ (error < 0 \/ v.iovs = << >>)
        BY <2>5, <2>14
      <4>2. Moved' = IF error < 0 THEN 0 ELSE error
        BY <4>1 DEF Moved
      <4> QED
        BY <2>2, <4>1, <4>2, SMT
    <3>4. ~(call'.result >= 0 /\ Moved' < Len(Named)')
      <4> SUFFICES ASSUME v.iovs = << >> PROVE ~(Moved' < Len(Named)')
        BY <3>3
      <4>1. Named' = Joined(Spans(<< >>))
        BY <2>5, <2>8 DEF Named
      <4>2. Spans(<< >>) = << >>
        BY SMT DEF Spans
      <4>3. Len(Named)' = 0
        BY <4>1, <4>2, JoinNothing
      <4> QED
        BY <3>3, <4>3, SMT
    <3>5. WriteExact'
      BY <2>6, <2>11, <2>12, <3>3, <3>4 DEF WriteExact
    <3>6. ReadExact'
      <4> SUFFICES ASSUME call'.fd \in DOMAIN open_files PROVE ReadExact'
        BY DEF ReadExact
      <4> DEFINE f == open_files[call'.fd]
      <4>1. offset'[f] - call'.from - Moved' = 0
        <5>1. offset'[f] = call'.from
          BY <2>6
        <5> QED
          BY <2>9, <3>3, <5>1, SMT
      <4>2. ~(0 > 0) /\ 0 \in 0 .. CHUNK
        BY ArgAssumption, SMT
      <4> QED
        BY <2>10, <2>12, <3>3, <3>4, <4>1, <4>2 DEF ReadExact
    <3> QED
      BY <2>8, <2>14, <3>1, <3>2, <3>5, <3>6, TransferOnly DEF Good, IoInv
  <2> QED
    BY <2>5, <2>13, <2>14
<1> DEFINE Enters == {"read", "write", "getdents64", "lseek"} \cup StructCalls
           Vec(op, fd, v) == sys_vector_io(op, fd, v.iov, v.iovs)
<1>1. ASSUME NEW op \in Enters, NEW fd, NEW buf, op # "lseek" => buf \in Nat, NEW count, Enter(op, fd, buf, count)
      PROVE  Good' /\ Reading' /\ ReadExact'
  BY <1>1, <1>EnterGood
<1>2. \A buf \in Buffers : buf \in Nat
  BY ArgAssumption
<1>3. CASE \E fd \in FdArg, buf \in Buffers, count \in Counts :
             Enter("read", fd, buf, count) \/ Enter("write", fd, buf, count)
               \/ Enter("getdents64", fd, buf, count)
  <2>1. PICK fd \in FdArg, buf \in Buffers, count \in Counts, op \in {"read", "write", "getdents64"} :
             Enter(op, fd, buf, count)
    BY <1>3
  <2> QED
    BY <1>1, <1>2, <2>1
<1>4. CASE \E op \in StructCalls, fd \in {1, 3, 4}, buf \in Buffers, count \in {STRUCT - 1, STRUCT} :
             Enter(op, fd, buf, count)
  BY <1>1, <1>2, <1>4
<1>5. CASE \E fd \in FdArg, v \in IoVectors : Vec("readv", fd, v) \/ Vec("writev", fd, v)
  <2>1. PICK fd \in FdArg, v \in IoVectors, op \in Vectored : Vec(op, fd, v)
    BY <1>5 DEF Vectored
  <2> QED
    BY <2>1, <1>VectorGood
<1>6. CASE \E fd \in SeekArg, off \in Offsets, whence \in 0 .. 3 : Enter("lseek", fd, off, whence)
  BY <1>1, <1>6
<1>7. CASE \E mask \in Masks : sys_umask(mask)
  BY <1>7, QuietGood
<1> QED
  BY <1>3, <1>4, <1>5, <1>6, <1>7 DEF Dispatch

\* Nothing happens.
LEMMA StutterGood ==
  ASSUME UNCHANGED vars
  PROVE  (Good => Good') /\ (Reading => Reading') /\ (ReadExact => ReadExact')
<1>1. /\ perm' = perm /\ user' = user /\ offset' = offset /\ printed' = printed /\ call' = call
      /\ file_creation_mask' = file_creation_mask
  BY DEF vars
<1>2. Named' = Named /\ Sent' = Sent /\ Moved' = Moved /\ Direction' = Direction
  BY <1>1 DEF Named, Sent, Moved, Direction
<1>3. \A a, w : translate_user(a, w)' <=> translate_user(a, w)
  BY <1>1 DEF translate_user
<1>4. (FaultAhead(TRUE)' <=> FaultAhead(TRUE)) /\ (FaultAhead(FALSE)' <=> FaultAhead(FALSE))
  BY <1>2, <1>3 DEF FaultAhead
<1>5. VectorStops' <=> VectorStops
  BY <1>1, <1>2, <1>3 DEF VectorStops
<1>6. Shape => Shape'
  BY <1>1, <1>2 DEF Shape, InVector, AtElement
<1>7. (Entered => Entered') /\ (Writing => Writing') /\ (Listing => Listing')
  BY <1>1, <1>2 DEF Entered, Untouched, Writing, Listing
<1>8. Reading => Reading'
  BY <1>1, <1>2, <1>3 DEF Reading, Got
<1>9. ReadExact => ReadExact'
  BY <1>1, <1>2, <1>3, <1>4, <1>5 DEF ReadExact, Returned
<1>10. WriteExact => WriteExact'
  BY <1>1, <1>2, <1>4, <1>5 DEF WriteExact, Returned
<1>11. DirentsOnce => DirentsOnce'
  BY <1>1 DEF DirentsOnce, Returned
<1>12. StructWhole => StructWhole'
  <2>1. Value' = Value /\ Size' = Size
    BY <1>1 DEF Value, Size, fill_stat
  <2>2. Early(call)' = Early(call)
    BY <1>1
  <2> QED
    BY <1>1, <1>3, <2>1, <2>2 DEF StructWhole, Returned, Value, Size
<1> QED
  BY <1>6, <1>7, <1>8, <1>9, <1>10, <1>11, <1>12 DEF Good, IoInv

-----------------------------------------------------------------------------
(* Where a transfer stands.                                                *)

\* Beginning is transitive.
LEMMA BeginsTrans ==
  ASSUME NEW S, NEW s \in Seq(S), NEW t \in Seq(S), NEW u \in Seq(S), Begins(s, t), Begins(t, u)
  PROVE  Begins(s, u)
<1>1. Len(s) \in Nat /\ Len(t) \in Nat /\ Len(u) \in Nat
  BY SMT
<1>2. Len(s) <= Len(t) /\ Len(t) <= Len(u)
  BY DEF Begins
<1>3. \A k \in 1 .. Len(s) : k \in 1 .. Len(t)
  BY <1>1, <1>2, SMT
<1>4. \A k \in 1 .. Len(s) : u[k] = s[k]
  BY <1>3 DEF Begins
<1>5. Len(s) <= Len(u)
  BY <1>1, <1>2, SMT
<1> QED
  BY <1>4, <1>5 DEF Begins

\* The first parts are how the whole begins.
LEMMA JoinBegins ==
  ASSUME NEW S, NEW seqs \in Seq(Seq(S)), NEW i \in 0 .. Len(seqs)
  PROVE  Begins(JoinedTo(seqs)[i], Joined(seqs))
<1> DEFINE U == JoinedTo(seqs)
           Bad == { j \in i .. Len(seqs) : ~Begins(U[i], U[j]) }
<1>0. Len(seqs) \in Nat /\ i \in Nat
  BY SMT
<1>1. Parts(U, seqs) /\ \A j \in 0 .. Len(seqs) : U[j] \in Seq(S)
  BY <1>0, JoinParts, JoinTyped
<1>2. Joined(seqs) = U[Len(seqs)]
  BY DEF Joined
<1> HIDE DEF U
<1>3. Len(seqs) \in i .. Len(seqs)
  BY <1>0, SMT
<1> SUFFICES ASSUME Bad # {} PROVE FALSE
  BY <1>2, <1>3 DEF U
<1>4. Bad \in SUBSET Nat
  BY <1>0, SMT
<1>5. PICK j \in Bad : \A k \in Bad : j <= k
  BY <1>4, LeastOf
<1>6. j \in i .. Len(seqs) /\ ~Begins(U[i], U[j])
  BY <1>5
<1>7. j # i
  <2>1. Len(U[i]) \in Nat
    BY <1>1, SMT
  <2>2. Len(U[i]) <= Len(U[i])
    BY <2>1, SMT
  <2> QED
    BY <1>6, <2>2 DEF Begins
<1>8. /\ j \in 1 .. Len(seqs) /\ j - 1 \in i .. Len(seqs) /\ j - 1 \in 0 .. Len(seqs) /\ ~(j <= j - 1)
      /\ j \in 0 .. Len(seqs)
  BY <1>0, <1>6, <1>7, SMT
<1>9. Begins(U[i], U[j - 1])
  BY <1>5, <1>8
<1>10. seqs[j] \in Seq(S)
  BY <1>8, ElementOf
<1>11. Begins(U[j - 1], U[j])
  <2>1. Concat(S, U[j - 1], seqs[j], U[j - 1] \o seqs[j])
    BY <1>1, <1>8, <1>10, ConcatFacts
  <2> QED
    BY <1>1, <1>8, <2>1 DEF Parts, Concat
<1>12. Begins(U[i], U[j])
  BY <1>1, <1>8, <1>9, <1>11, BeginsTrans
<1> QED
  BY <1>6, <1>12

\* The i-th part lies in the whole after the n elements of the parts before it.
Within(seqs, i, n) ==
  /\ n \in Nat /\ Len(Joined(seqs)) \in Nat
  /\ Len(JoinedTo(seqs)[i]) = n + Len(seqs[i])
  /\ n + Len(seqs[i]) <= Len(Joined(seqs))
  /\ \A k \in 1 .. Len(seqs[i]) : Joined(seqs)[n + k] = seqs[i][k]

\* Where a part lies.
LEMMA JoinPart ==
  ASSUME NEW S, NEW seqs \in Seq(Seq(S)), NEW i \in 1 .. Len(seqs)
  PROVE  Within(seqs, i, Len(JoinedTo(seqs)[i - 1]))
<1> DEFINE U == JoinedTo(seqs)
           W == Joined(seqs)
<1>1. Len(seqs) \in Nat /\ i \in 0 .. Len(seqs) /\ i - 1 \in 0 .. Len(seqs) /\ Len(seqs) \in 0 .. Len(seqs)
  BY SMT
<1>2. U[i] \in Seq(S) /\ U[i - 1] \in Seq(S) /\ W \in Seq(S) /\ seqs[i] \in Seq(S)
  BY <1>1, JoinTyped, ElementOf DEF Joined
<1>3. Begins(U[i], W)
  BY <1>1, JoinBegins
<1>4. U[i] = U[i - 1] \o seqs[i]
  BY <1>1, JoinParts DEF Parts
<1> HIDE DEF U, W
<1>5. /\ Len(U[i]) = Len(U[i - 1]) + Len(seqs[i])
      /\ \A k \in 1 .. Len(seqs[i]) : U[i][Len(U[i - 1]) + k] = seqs[i][k]
  <2>1. Concat(S, U[i - 1], seqs[i], U[i - 1] \o seqs[i])
    BY <1>2, ConcatFacts
  <2> QED
    BY <1>4, <2>1 DEF Concat
<1>6. Len(U[i - 1]) \in Nat /\ Len(W) \in Nat /\ Len(seqs[i]) \in Nat
  BY <1>2, SMT
<1>7. Len(U[i]) <= Len(W) /\ \A k \in 1 .. Len(U[i]) : W[k] = U[i][k]
  BY <1>3 DEF Begins
<1>8. \A k \in 1 .. Len(seqs[i]) : Len(U[i - 1]) + k \in 1 .. Len(U[i])
  <2>1. \A a, b \in Nat : \A k \in 1 .. b : a + k \in 1 .. a + b
    BY SMT
  <2> QED
    BY <1>5, <1>6, <2>1
<1>9. \A k \in 1 .. Len(seqs[i]) : W[Len(U[i - 1]) + k] = seqs[i][k]
  BY <1>5, <1>7, <1>8
<1> QED
  BY <1>5, <1>6, <1>7, <1>9 DEF U, W, Within

\* A vector at one of its elements, of the given base and length.
LEMMA ElementFacts ==
  ASSUME SeekInv, InVector, call.op \in Vectored, call.i <= Len(call.iovs)
  PROVE  LET v == call.iovs[call.i]
         IN  /\ v.base \in Nat /\ v.length \in Nat /\ call.total \in Nat /\ Len(Named) \in Nat
             /\ call.total + v.length <= Len(Named)
             /\ Len(JoinedTo(Spans(call.iovs))[call.i]) = call.total + v.length
             /\ \A k \in 1 .. v.length : Named[call.total + k] = v.base + k - 1
<1> DEFINE iovs == call.iovs
           i == call.i
           v == call.iovs[call.i]
           W == Spans(call.iovs)
<1>1. iovs \in Seq([base : Nat, length : Nat]) /\ i \in 1 .. Len(iovs)
  <2>1. iovs \in Seq([base : Nat, length : Nat]) /\ i \in Nat \ {0}
    BY DEF SeekInv, Typed
  <2> QED
    BY <2>1, SMT
<1>2. W \in Seq(Seq(Nat)) /\ Len(W) = Len(iovs) /\ W[i] = Span(v.base, v.length) /\ v.base \in Nat /\ v.length \in Nat
  BY <1>1, SpansFacts
<1>3. Len(W[i]) = v.length /\ \A k \in 1 .. v.length : W[i][k] = v.base + k - 1
  <2>1. IsSpan(Span(v.base, v.length), v.base, v.length)
    BY <1>2, SpanFacts
  <2> QED
    BY <1>2, <2>1 DEF IsSpan
<1>4. Named = Joined(W)
  BY DEF Named, Vectored, InVector
<1>5. call.total = Len(JoinedTo(W)[i - 1])
  BY DEF InVector
<1> HIDE DEF W, v
<1>6. i \in 1 .. Len(W)
  BY <1>1, <1>2
<1>7. Within(W, i, call.total)
  BY <1>2, <1>5, <1>6, JoinPart
<1>8. \A k \in 1 .. v.length : Named[call.total + k] = v.base + k - 1
  BY <1>3, <1>4, <1>7 DEF Within
<1>9. /\ call.total \in Nat /\ Len(Named) \in Nat /\ call.total + v.length <= Len(Named)
      /\ Len(JoinedTo(W)[i]) = call.total + v.length
  BY <1>3, <1>4, <1>7 DEF Within
<1> QED
  BY <1>2, <1>8, <1>9 DEF W, v

\* The element at hand lies among the addresses named, after the bytes done.
Placed ==
  /\ call.total \in Nat /\ call.buf \in Nat /\ call.count \in Nat /\ Len(Named) \in Nat
  /\ call.total + call.count <= Len(Named)
  /\ \A k \in 1 .. call.count : Named[call.total + k] = call.buf + k - 1
  /\ call.op \in Vectored => Len(JoinedTo(Spans(call.iovs))[call.i]) = call.total + call.count
  /\ call.op \notin Vectored => call.total = 0 /\ Len(Named) = call.count

\* A transfer is placed.
LEMMA PlacedFacts ==
  ASSUME SeekInv, Shape, call.pc \in Moving
  PROVE  Placed
<1>1. CASE call.op \in Vectored
  <2>1. InVector /\ AtElement
    BY <1>1 DEF Shape, Moving
  <2>2. call.i <= Len(call.iovs) /\ call.iovs[call.i].base = call.buf /\ call.iovs[call.i].length = call.count
    BY <2>1 DEF AtElement
  <2> QED
    BY <1>1, <2>1, <2>2, ElementFacts DEF Placed
<1>2. CASE call.op \notin Vectored
  <2>1. call.op \in {"read", "write"}
    BY <1>2 DEF Shape, Moving, Vectored
  <2>2. call.iovs = << >> /\ call.total = 0 /\ call.buf \in Nat /\ call.count \in Nat
    BY <2>1 DEF Shape, SeekInv, Typed
  <2>3. Named = Span(call.buf, call.count)
    BY <2>1, <2>2 DEF Named
  <2>4. Len(Named) = call.count /\ \A k \in 1 .. call.count : Named[k] = call.buf + k - 1
    BY <2>2, <2>3, SpanFacts DEF IsSpan
  <2>5. \A k \in 1 .. call.count : 0 + k = k
    BY SMT
  <2>6. \A k \in 1 .. call.count : Named[call.total + k] = call.buf + k - 1
    BY <2>2, <2>4, <2>5
  <2>7. call.total + call.count <= Len(Named)
    BY <2>2, <2>4, SMT
  <2>8. call.total \in Nat
    BY <2>2, SMT
  <2> QED
    BY <1>2, <2>2, <2>4, <2>6, <2>7, <2>8 DEF Placed
<1> QED
  BY <1>1, <1>2

\* A step keeps what the addresses named depend on.
LEMMA NamedKept ==
  ASSUME call'.op = call.op, call'.iovs = call.iovs,
         call.op \in {"read", "write"} => call'.buf = call.buf /\ call'.count = call.count
  PROVE  Named' = Named
BY DEF Named

-----------------------------------------------------------------------------
(* How a transfer ends.                                                    *)

\* SoFar: the count if there is one, otherwise the error.
LEMMA SoFarFacts ==
  ASSUME NEW done \in Nat, NEW error \in Int, error < 0
  PROVE  /\ SoFar(done, error) \in Int /\ (done = 0 => SoFar(done, error) = error)
         /\ (done # 0 => SoFar(done, error) = done)
         /\ (IF SoFar(done, error) < 0 THEN 0 ELSE SoFar(done, error)) = done
BY SMT DEF SoFar

\* The call is over, with r bytes of the element at hand, or an error.
Ended(r) ==
  /\ call'.pc = "returned" /\ Kept /\ call'.iov = call.iov
  /\ call'.buf = call.buf /\ call'.count = call.count /\ call'.total = call.total
  /\ Moved' = call.total + (IF r < 0 THEN 0 ELSE r)
  /\ r = call.count => Moved' = Len(Named)
  /\ r < 0 /\ call.total = 0 => ~(call'.result >= 0)

\* The vector goes on to its next element.
Continued ==
  /\ call.op \in Vectored /\ call'.pc = "iov" /\ Kept /\ call'.iov = call.iov
  /\ call'.total = call.total + call.count /\ call'.i = call.i + 1

\* Done(r) ends the call with what the vector has so far and r, or goes on.
LEMMA DoneOut ==
  ASSUME SeekInv, Shape, call.pc \in Moving, NEW r \in Int, r <= call.count, Done(r)
  PROVE  Ended(r) \/ (r = call.count /\ Continued)
<1>1. Placed /\ IsCall
  BY PlacedFacts DEF SeekInv, Typed
<1>2. call.total \in Nat /\ call.count \in Nat /\ Len(Named) \in Nat
  BY <1>1 DEF Placed
<1> DEFINE m == IF r < 0 THEN 0 ELSE r
<1>3. ASSUME NEW q \in Int, Return(q), (IF q < 0 THEN 0 ELSE q) = call.total + m,
             r = call.count => call.op \notin Vectored, r < 0 /\ call.total = 0 => ~(q >= 0)
      PROVE  Ended(r)
  <2>1. /\ call'.pc = "returned" /\ Kept /\ call'.iov = call.iov /\ call'.result = q
        /\ call'.buf = call.buf /\ call'.count = call.count /\ call'.total = call.total
    BY <1>1, <1>3, ReturnAll
  <2>2. Moved' = call.total + m
    BY <1>3, <2>1 DEF Moved
  <2>3. r = call.count => Moved' = Len(Named)
    <3>1. r = call.count => call.total = 0 /\ Len(Named) = call.count
      BY <1>1, <1>3 DEF Placed
    <3> QED
      BY <1>2, <2>2, <3>1, SMT
  <2> QED
    BY <1>3, <2>1, <2>2, <2>3 DEF Ended
<1>4. CASE call.op \notin Vectored
  <2>1. Return(r)
    BY <1>4 DEF Done, Vectored
  <2>2. call.total = 0
    BY <1>1, <1>4 DEF Placed
  <2>3. (IF r < 0 THEN 0 ELSE r) = call.total + m /\ (r < 0 => ~(r >= 0))
    BY <2>2, SMT
  <2> QED
    BY <1>3, <1>4, <2>1, <2>3
<1>5. CASE call.op \in Vectored /\ r < 0
  <2>1. Return(SoFar(call.total, r))
    BY <1>5 DEF Done, Vectored
  <2>2. /\ SoFar(call.total, r) \in Int /\ (call.total = 0 => SoFar(call.total, r) = r)
        /\ (IF SoFar(call.total, r) < 0 THEN 0 ELSE SoFar(call.total, r)) = call.total
    BY <1>2, <1>5, SoFarFacts
  <2>3. call.total + m = call.total /\ r # call.count /\ ~(r >= 0)
    BY <1>2, <1>5, SMT
  <2> QED
    BY <1>3, <1>5, <2>1, <2>2, <2>3
<1>6. CASE call.op \in Vectored /\ ~(r < 0) /\ r < call.count
  <2>1. Return(call.total + r)
    BY <1>6 DEF Done, Vectored
  <2>2. call.total + r \in Int /\ ~(call.total + r < 0) /\ m = r /\ r # call.count
    BY <1>2, <1>6, SMT
  <2> QED
    BY <1>3, <1>6, <2>1, <2>2
<1>7. CASE call.op \in Vectored /\ ~(r < 0) /\ ~(r < call.count)
  <2>1. call' = [call EXCEPT !.pc = "iov", !.total = @ + r, !.i = @ + 1]
    BY <1>7 DEF Done, Vectored
  <2>2. r = call.count
    BY <1>2, <1>7, SMT
  <2>3. Continued
    BY <1>1, <1>7, <2>1, <2>2 DEF Continued, IsCall, Kept
  <2> QED
    BY <2>2, <2>3
<1> QED
  BY <1>4, <1>5, <1>6, <1>7

\* After a return nothing more is said of the place.
LEMMA ReturnShape ==
  ASSUME Shape, call'.pc = "returned", Kept, call'.buf = call.buf, call'.total = call.total
  PROVE  Shape'
BY DEF Shape, Kept, Moving

\* The direction and the check of the descriptor belong to the call.
LEMMA CheckKept ==
  ASSUME Kept
  PROVE  Direction' = Direction /\ rw_check(Direction, call.fd, 0)' = rw_check(Direction, call.fd, 0)
<1>1. Direction' = Direction
  BY DEF Direction, Kept
<1> QED
  BY <1>1 DEF rw_check, Kept

\* The next element of the vector.
LEMMA ContinuedShape ==
  ASSUME SeekInv, Shape, call.pc \in Moving, Continued
  PROVE  Shape'
<1>1. InVector /\ AtElement /\ Placed
  BY PlacedFacts DEF Continued, Shape, Moving
<1>2. call.i \in Nat \ {0} /\ call.iovs \in Seq([base : Nat, length : Nat]) /\ call.total \in Nat /\ call.count \in Nat
  BY <1>1 DEF SeekInv, Typed, Placed
<1>3. call'.i - 1 = call.i /\ call'.i <= Len(call.iovs) + 1 /\ call'.total \in Nat
  <2>1. call.i <= Len(call.iovs) /\ Len(call.iovs) \in Nat /\ call'.i = call.i + 1
        /\ call'.total = call.total + call.count
    BY <1>1, <1>2, SMT DEF AtElement, Continued
  <2> QED
    BY <1>2, <2>1, SMT
<1>4. call'.total = Len(JoinedTo(Spans(call'.iovs))[call'.i - 1])
  BY <1>1, <1>3 DEF Placed, Continued, Kept
<1>5. InVector'
  BY <1>1, <1>3, <1>4, CheckKept DEF InVector, Continued, Kept
<1>6. call'.op \in Vectored /\ call'.pc = "iov"
  BY DEF Continued, Kept
<1> QED
  BY <1>3, <1>5, <1>6 DEF Shape, Moving, Vectored

\* The k-th byte of the chunk after the bytes moved.
InChunk(total, done, count, buf, len, k) ==
  /\ done + k \in 1 .. count /\ buf + (done + k) - 1 = buf + done + k - 1
  /\ total + done \in Nat /\ total + (done + k) <= len
  /\ total + (done + k) \in total + done + 1 .. total + done + CHUNK

\* Places within the chunk after the bytes moved.
LEMMA ChunkPlaces ==
  ASSUME NEW total \in Nat, NEW done \in Nat, NEW count \in Nat, NEW buf \in Nat, NEW n \in Nat,
         NEW len \in Nat, NEW k \in 1 .. n, n <= CHUNK, done + n <= count, total + count <= len
  PROVE  InChunk(total, done, count, buf, len, k)
BY ArgAssumption, SMT DEF InChunk

\* A place within a chunk and within the transfer.
LEMMA LeastPlace ==
  ASSUME NEW m \in Nat, NEW len \in Nat, NEW j \in m + 1 .. m + CHUNK, j <= len
  PROVE  j \in m + 1 .. Least(len, m + CHUNK)
BY ArgAssumption, SMT DEF Least

\* An address after the bytes moved, within a chunk, that cannot be used.
LEMMA FaultIs ==
  ASSUME Named' = Named, perm' = perm, Moved' \in Nat, Len(Named) \in Nat, NEW w,
         NEW j \in Moved' + 1 .. Moved' + CHUNK, j <= Len(Named), ~translate_user(Named[j], w)
  PROVE  FaultAhead(w)'
<1>1. ~translate_user(Named[j], w)'
  BY DEF translate_user
<1>2. j \in Moved' + 1 .. Least(Len(Named), Moved' + CHUNK)
  BY LeastPlace
<1>3. j \in Moved' + 1 .. Least(Len(Named)', Moved' + CHUNK)
  BY <1>2
<1> QED
  BY <1>1, <1>3 DEF FaultAhead, Least

\* A chunk that could not be copied: the fault lies ahead of the bytes moved.
LEMMA ChunkFault ==
  ASSUME Placed, call.done \in Nat, NEW w, NEW n \in Nat, n <= CHUNK, call.done + n <= call.count,
         ~copy_user(call.buf + call.done, n, w),
         Moved' = call.total + call.done, Named' = Named, perm' = perm
  PROVE  FaultAhead(w)'
<1>1. /\ call.total \in Nat /\ call.buf \in Nat /\ call.count \in Nat /\ Len(Named) \in Nat
      /\ call.total + call.count <= Len(Named)
      /\ \A k \in 1 .. call.count : Named[call.total + k] = call.buf + k - 1
  BY DEF Placed
<1>2. call.buf + call.done \in Nat
  BY <1>1, SMT
<1>3. PICK k \in 1 .. n : ~translate_user(call.buf + call.done + k - 1, w)
  BY <1>2, CopyFacts DEF Copies
<1>4. /\ call.done + k \in 1 .. call.count
      /\ call.buf + (call.done + k) - 1 = call.buf + call.done + k - 1
      /\ call.total + call.done \in Nat /\ call.total + (call.done + k) <= Len(Named)
      /\ call.total + (call.done + k) \in call.total + call.done + 1 .. call.total + call.done + CHUNK
  <2>1. InChunk(call.total, call.done, call.count, call.buf, Len(Named), k)
    BY <1>1, ChunkPlaces
  <2> QED
    BY <2>1 DEF InChunk
<1>5. PICK j : j = call.total + (call.done + k)
  BY SMT
<1>6. Named[j] = call.buf + call.done + k - 1
  BY <1>1, <1>4, <1>5
<1>7. j \in Moved' + 1 .. Moved' + CHUNK /\ j <= Len(Named) /\ Moved' \in Nat
  BY <1>4, <1>5
<1> QED
  BY <1>1, <1>3, <1>6, <1>7, FaultIs

\* The offset leads the m bytes counted.
Lead(ahead, m, n) == ahead \in 0 .. CHUNK /\ m + ahead = n /\ (ahead > 0 => n > m)

\* The offset's lead over the count.
LEMMA LeadIs ==
  ASSUME NEW from \in Int, NEW m \in Nat, NEW n \in m .. m + CHUNK
  PROVE  Lead((from + n) - from - m, m, n)
BY ArgAssumption, SMT DEF Lead

\* What a read must show as it returns: n bytes have left the file.
LEMMA ReadReturned ==
  ASSUME Kept, Named' = Named, perm' = perm, call.fd \in DOMAIN open_files, call.from \in Int,
         Moved' \in Nat, NEW n \in Moved' .. Moved' + CHUNK, offset'[open_files[call.fd]] = call.from + n,
         \A k \in 1 .. Moved' : user'[Named[k]] = Regular[call.from + k],
         \A a \in Address : user'[a] # Fresh(a) =>
           translate_user(a, TRUE) /\ \E k \in 1 .. n : Named[k] = a /\ user'[a] = Regular[call.from + k],
         n > Moved' => FaultAhead(TRUE)',
         call'.result >= 0 /\ Moved' < Len(Named) =>
           call.from + n >= inode_size(open_files[call.fd]) \/ FaultAhead(TRUE)' \/ VectorStops'
  PROVE  ReadExact'
<1> DEFINE f == open_files[call.fd]
           ahead == offset'[f] - call'.from - Moved'
<1>1. call'.fd = call.fd /\ call'.from = call.from
  BY DEF Kept
<1>2. ahead \in 0 .. CHUNK /\ Moved' + ahead = n /\ (ahead > 0 => n > Moved')
  <2>1. Lead((call.from + n) - call.from - Moved', Moved', n)
    BY LeadIs
  <2> QED
    BY <1>1, <2>1 DEF Lead
<1>3. \A a : translate_user(a, TRUE)' <=> translate_user(a, TRUE)
  BY DEF translate_user
<1>4. \A a \in Address : user'[a] # Fresh(a) =>
        /\ translate_user(a, TRUE)'
        /\ \E k \in 1 .. Moved' + ahead : Named'[k] = a /\ user'[a] = Regular[call'.from + k]
  <2> HIDE DEF ahead
  <2> SUFFICES ASSUME NEW a \in Address, user'[a] # Fresh(a)
               PROVE  /\ translate_user(a, TRUE)'
                      /\ \E k \in 1 .. Moved' + ahead : Named'[k] = a /\ user'[a] = Regular[call'.from + k]
    OBVIOUS
  <2>1. PICK k \in 1 .. n : Named[k] = a /\ user'[a] = Regular[call.from + k]
    OBVIOUS
  <2>2. k \in 1 .. Moved' + ahead
    BY <1>2
  <2> QED
    BY <1>1, <1>3, <2>1, <2>2
<1>5. \A k \in 1 .. Moved' : user'[Named'[k]] = Regular[call'.from + k]
  BY <1>1
<1>6. inode_size(open_files[call.fd])' = inode_size(f)
  BY <1>1 DEF inode_size
<1>7. call'.result >= 0 /\ Moved' < Len(Named)' => offset'[f] >= inode_size(f) \/ FaultAhead(TRUE)' \/ VectorStops'
  OBVIOUS
<1> HIDE DEF f
<1>8. ahead > 0 => FaultAhead(TRUE)'
  BY <1>2
<1> QED
  BY <1>1, <1>2, <1>4, <1>5, <1>6, <1>7, <1>8 DEF ReadExact, f

\* A read returns with the bytes it has.
LEMMA ReadQuiet ==
  ASSUME SeekInv, Reading, call.pc \in {"iov", "read", "reading"}, call.op \in {"read", "readv"},
         Kept, Named' = Named, perm' = perm, user' = user, offset' = offset,
         Sent \in Nat, Moved' = Sent,
         call.fd \in DOMAIN open_files /\ call'.result >= 0 /\ Moved' < Len(Named) =>
           \/ call.from + Sent >= inode_size(open_files[call.fd])
           \/ FaultAhead(TRUE)' \/ VectorStops'
  PROVE  ReadExact'
<1> SUFFICES ASSUME call.fd \in DOMAIN open_files PROVE ReadExact'
  BY DEF ReadExact, Kept
<1>1. offset[open_files[call.fd]] = call.from + Sent /\ Got(Sent)
  BY DEF Reading
<1>2. call.from \in Int
  BY SMT DEF SeekInv, Typed
<1>3. \A k \in 1 .. Moved' : user'[Named[k]] = Regular[call.from + k]
  BY <1>1 DEF Got
<1>4. ASSUME NEW a \in Address, user'[a] # Fresh(a)
      PROVE  translate_user(a, TRUE) /\ \E k \in 1 .. Sent : Named[k] = a /\ user'[a] = Regular[call.from + k]
  BY <1>1, <1>4 DEF Got
<1>5. Sent \in Moved' .. Moved' + CHUNK /\ ~(Sent > Moved')
  BY ArgAssumption, SMT
<1>6. offset'[open_files[call.fd]] = call.from + Sent
  BY <1>1
<1> QED
  BY <1>2, <1>3, <1>4, <1>5, <1>6, ReadReturned

\* What a write must show as it returns.
LEMMA WriteReturned ==
  ASSUME Kept, Named' = Named, user' = user, offset' = offset, Writing, call.op \in {"write", "writev"},
         call.pc \in {"iov", "write", "writing"}, printed' = [k \in 1 .. Moved' |-> Fresh(Named[k])],
         call'.result >= 0 /\ Moved' < Len(Named) => FaultAhead(FALSE)' \/ VectorStops'
  PROVE  WriteExact'
<1>1. /\ user = [a \in Address |-> Fresh(a)]
      /\ call.fd \in DOMAIN open_files => offset[open_files[call.fd]] = call.from
  BY DEF Writing
<1>2. \A a \in Address : user'[a] = Fresh(a)
  BY <1>1
<1>3. call'.fd \in DOMAIN open_files => offset'[open_files[call'.fd]] = call'.from
  BY <1>1 DEF Kept
<1> QED
  BY <1>2, <1>3 DEF WriteExact

\* The bytes moved when no element is under way.
LEMMA SentIs ==
  /\ call.pc \notin {"reading", "writing"} /\ call.total \in Nat => Sent = call.total
  /\ call.pc \in {"reading", "writing"} => Sent = call.total + call.done
BY SMT DEF Sent

-----------------------------------------------------------------------------
(* Steps of a transfer.                                                    *)

\* sys_read and sys_write up to their loops.
LEMMA SysRwGood ==
  ASSUME SeekInv, Good, sys_rw
  PROVE  Good' /\ (Reading => Reading' /\ ReadExact')
\* The descriptor and the size pass: what the checks leave to the loops.
<1>CheckPasses.
    ASSUME NEW op, NEW fd \in Nat, NEW count \in Nat, rw_check(op, fd, count) = 0
    PROVE  /\ op = "read" => fd \in DOMAIN open_files
           /\ op = "write" => fd \in {1, 2} \cup DOMAIN open_files
  BY <1>CheckPasses, SMT DEF rw_check, ERR_BADF, ERR_INVAL
\* An element no longer than the limit passes where the vector did.
<1>CheckElement.
    ASSUME NEW op, NEW fd, NEW count \in 1 .. MAX_IO_SIZE, rw_check(op, fd, 0) = 0
    PROVE  rw_check(op, fd, count) = 0
  BY <1>CheckElement, ArgAssumption, SMT DEF rw_check, ERR_BADF, ERR_INVAL
<1> DEFINE error == rw_check(Direction, call.fd, call.count)
<1>1. /\ call.pc \in {"read", "write"} /\ call.pc \in Moving /\ Shape /\ Writing /\ IsCall
      /\ call.op \in TransferCalls
  BY DEF sys_rw, Moving, Good, IoInv, SeekInv, Typed, Shape, TransferCalls
<1>2. Placed
  BY <1>1, PlacedFacts
<1>3. call.total \in Nat /\ call.count \in Nat /\ call.fd \in Nat /\ Len(Named) \in Nat
  BY <1>2 DEF Placed, SeekInv, Typed
<1>4. perm' = perm /\ user' = user /\ printed' = printed /\ offset' = offset
  BY DEF sys_rw, fileState
<1>5. error \in {-9, -22, 0}
  BY CheckFacts
<1>6. Sent = call.total
  BY <1>1, <1>3, SentIs
<1>7. Direction = (IF call.pc = "read" THEN "read" ELSE "write")
  BY <1>1 DEF Shape, Direction
<1> HIDE DEF error
<1>8. CASE error < 0 \/ call.count = 0
  <2>1. Done(error)
    BY <1>8 DEF sys_rw, error
  <2>2. call.op \notin Vectored
    <3> SUFFICES ASSUME call.op \in Vectored PROVE FALSE
      OBVIOUS
    <3>1. InVector /\ AtElement
      BY <1>1 DEF Shape
    <3>2. call.count \in 1 .. MAX_IO_SIZE /\ rw_check(Direction, call.fd, 0) = 0
      BY <3>1 DEF InVector, AtElement
    <3>3. error = 0
      BY <3>2, <1>CheckElement DEF error
    <3>4. call.count # 0
      BY <3>2, SMT
    <3> QED
      BY <1>8, <3>3, <3>4, SMT
  <2>3. Return(error)
    BY <2>1, <2>2 DEF Done, Vectored
  <2>4. /\ call'.pc = "returned" /\ Kept /\ call'.result = error
        /\ call'.buf = call.buf /\ call'.count = call.count /\ call'.total = call.total
    BY <1>1, <2>3, ReturnAll
  <2>5. Named' = Named
    BY <2>4, NamedKept DEF Kept
  <2>6. call.total = 0 /\ Len(Named) = call.count
    BY <1>2, <2>2 DEF Placed
  <2>7. Moved' = 0 /\ ~(call'.result >= 0 /\ Moved' < Len(Named))
    <3>1. Moved' = IF error < 0 THEN 0 ELSE error
      BY <2>4 DEF Moved
    <3>2. Moved' = 0
      BY <1>5, <3>1, SMT
    <3>3. error >= 0 => call.count = 0
      BY <1>5, <1>8, SMT
    <3> QED
      BY <2>4, <2>6, <3>2, <3>3, SMT
  <2>8. Shape'
    BY <1>1, <2>4, ReturnShape
  <2>9. Moved' = Sent /\ Sent \in Nat
    BY <1>3, <1>6, <2>6, <2>7
  <2>10. call'.op \in TransferCalls /\ call'.pc \in Moving \cup {"iov", "returned"}
    BY <1>1, <2>4 DEF Kept
  <2>11. Writing' /\ Reading'
    BY <2>4 DEF Writing, Reading
  <2>12. WriteExact'
    <3>1. CASE call.op \in {"write", "writev"}
      <4>1. call.pc \in {"iov", "write", "writing"}
        BY <1>1, <3>1 DEF Shape
      <4>2. printed' = [k \in 1 .. Moved' |-> Fresh(Named[k])]
        BY <1>1, <1>4, <2>9, <3>1, <4>1 DEF Writing
      <4> QED
        BY <1>1, <1>4, <2>4, <2>5, <2>7, <3>1, <4>1, <4>2, WriteReturned
    <3>2. CASE call.op \notin {"write", "writev"}
      BY <2>4, <3>2, NotAWrite DEF Kept
    <3> QED
      BY <3>1, <3>2
  <2>13. Reading => ReadExact'
    <3>1. CASE call.op \in {"read", "readv"}
      <4>1. call.pc \in {"iov", "read", "reading"}
        BY <1>1, <3>1 DEF Shape
      <4> QED
        BY <1>4, <2>4, <2>5, <2>7, <2>9, <3>1, <4>1, ReadQuiet
    <3>2. CASE call.op \notin {"read", "readv"}
      BY <2>4, <3>2, NotARead DEF Kept
    <3> QED
      BY <3>1, <3>2
  <2> QED
    BY <2>8, <2>10, <2>11, <2>12, <2>13, TransferOnly DEF Good, IoInv
<1>9. CASE ~(error < 0 \/ call.count = 0)
  <2>1. call' = [call EXCEPT !.pc = IF Direction = "read" THEN "reading" ELSE "writing", !.done = 0]
    BY <1>9 DEF sys_rw, error
  <2>2. /\ Kept /\ call'.iov = call.iov /\ call'.buf = call.buf /\ call'.count = call.count
        /\ call'.total = call.total /\ call'.i = call.i /\ call'.done = 0
        /\ call'.pc = IF call.pc = "read" THEN "reading" ELSE "writing"
    BY <1>1, <1>7, <2>1 DEF IsCall, Kept
  <2>3. error = 0 /\ call.count > 0
    BY <1>3, <1>5, <1>9, SMT
  <2>4. Named' = Named
    BY <2>2, NamedKept DEF Kept
  <2>5. Sent' = Sent
    <3>1. Sent' = call.total + 0
      BY <2>2 DEF Sent
    <3> QED
      BY <1>3, <1>6, <3>1, SMT
  <2>6. Shape'
    <3>1. call'.done \in Nat /\ call'.done < call'.count
      BY <1>3, <2>2, <2>3, SMT
    <3>2. InVector => InVector'
      BY <2>2, CheckKept DEF InVector, Kept
    <3>3. AtElement => AtElement'
      BY <2>2 DEF AtElement, Kept
    <3> QED
      BY <1>1, <2>2, <3>1, <3>2, <3>3 DEF Shape, Kept, Moving
  <2>7. call'.op \in TransferCalls /\ call'.pc \in Moving /\ call'.pc # "returned"
    BY <1>1, <2>2 DEF Kept, Moving
  <2>8. Writing'
    <3> SUFFICES ASSUME call.op \in {"write", "writev"} PROVE Writing'
      BY <2>2, NotAWrite DEF Kept
    <3>1. call.pc = "write" /\ Direction = "write"
      BY <1>1, <1>7 DEF Shape
    <3>2. call.fd \in {1, 2} \cup DOMAIN open_files
      BY <1>3, <2>3, <3>1, <1>CheckPasses DEF error
    <3>3. /\ user = [a \in Address |-> Fresh(a)]
          /\ printed = [k \in 1 .. Sent |-> Fresh(Named[k])]
          /\ call.fd \in DOMAIN open_files => Sent = 0 /\ offset[open_files[call.fd]] = call.from
      BY <1>1, <3>1 DEF Writing
    <3>4. printed' = [k \in 1 .. Sent' |-> Fresh(Named'[k])]
      BY <1>4, <2>4, <2>5, <3>3
    <3> QED
      BY <1>4, <2>2, <2>5, <3>2, <3>3, <3>4 DEF Writing, Kept
  <2>9. Reading => Reading'
    <3> SUFFICES ASSUME Reading, call.op \in {"read", "readv"}, call.fd \in DOMAIN open_files PROVE Reading'
      BY <2>2 DEF Kept, Reading
    <3>1. call.pc = "read"
      BY <1>1 DEF Shape
    <3>2. Got(Sent)'
      <4>1. Got(Sent)
        BY <3>1 DEF Reading
      <4>2. \A a : translate_user(a, TRUE)' <=> translate_user(a, TRUE)
        BY <1>4 DEF translate_user
      <4> QED
        BY <1>4, <2>2, <2>4, <2>5, <4>1, <4>2, ZenonT(30) DEF Got, Kept
    <3> QED
      BY <1>4, <2>2, <2>5, <3>1, <3>2 DEF Reading, Kept
  <2> QED
    BY <2>6, <2>7, <2>8, <2>9, NotReturned, TransferOnly DEF Good, IoInv
<1> QED
  BY <1>8, <1>9

\* The loop over the vector: it takes up an element, passes an empty one, or stops.
LEMMA NextIovecGood ==
  ASSUME SeekInv, Good, NextIovec
  PROVE  Good' /\ (Reading => Reading' /\ ReadExact')
\* Element i of an array of n elements lies within it.
<1>ElementBytes.
    ASSUME NEW iov \in Nat, NEW i \in Nat \ {0}, NEW n \in Nat, i <= n, NEW k \in 1 .. IOVEC
    PROVE  iov + (i - 1) * IOVEC + k - 1 \in iov .. iov + n * IOVEC - 1
  <2> USE <1>ElementBytes
  <2>1. IOVEC \in Nat
    BY ArgAssumption
  <2>2. i * IOVEC = (i - 1) * IOVEC + IOVEC /\ (i - 1) * IOVEC \in Nat /\ n * IOVEC \in Nat
    BY <2>1, SMT
  <2>3. i * IOVEC <= n * IOVEC
    <3>1. n - i \in Nat /\ (n - i) * IOVEC \in Nat
      BY <2>1, SMT
    <3>2. n * IOVEC = i * IOVEC + (n - i) * IOVEC
      BY <2>1, SMT
    <3> QED
      BY <2>1, <3>1, <3>2, SMT
  <2> QED
    BY <2>1, <2>2, <2>3, SMT
\* Where element i is.
<1>ElementStart.
    ASSUME NEW iov \in Nat, NEW i \in Nat \ {0}
    PROVE  iov + (i - 1) * IOVEC \in Nat
  <2> USE <1>ElementStart
  <2>1. IOVEC \in Nat /\ i - 1 \in Nat
    BY ArgAssumption, SMT
  <2>2. \A a, b \in Nat : a * b \in Nat
    BY SMT
  <2>3. (i - 1) * IOVEC \in Nat
    BY <2>1, <2>2
  <2> QED
    BY <2>3, SMT
\* Readers and writers of a vector stop with what they have so far.
<1>VectorReturned.
    ASSUME SeekInv, Good, NextIovec, NEW r \in Int, Return(r), call.total \in Nat,
           (IF r < 0 THEN 0 ELSE r) = call.total,
           r >= 0 /\ call.total < Len(Named) => VectorStops
    PROVE  Good' /\ (Reading => Reading' /\ ReadExact')
  <2> USE <1>VectorReturned
  <2>1. call.pc = "iov" /\ Shape /\ Writing /\ IsCall /\ call.op \in Vectored
    BY DEF NextIovec, Good, IoInv, SeekInv, Typed, Shape
  <2>2. perm' = perm /\ user' = user /\ printed' = printed /\ offset' = offset
    BY DEF NextIovec, fileState
  <2>3. Sent = call.total
    BY <2>1, SentIs
  <2>4. /\ call'.pc = "returned" /\ Kept /\ call'.iov = call.iov /\ call'.result = r
        /\ call'.buf = call.buf /\ call'.count = call.count /\ call'.total = call.total
    BY <2>1, ReturnAll
  <2>5. Named' = Named
    BY <2>4, NamedKept DEF Kept
  <2>6. Moved' = Sent /\ Sent \in Nat
    BY <2>3, <2>4 DEF Moved
  <2>7. VectorStops' <=> VectorStops
    <3>1. \A a : translate_user(a, FALSE)' <=> translate_user(a, FALSE)
      BY <2>2 DEF translate_user
    <3> QED
      BY <2>4, <2>5, <3>1 DEF VectorStops, Kept
  <2>8. call'.result >= 0 /\ Moved' < Len(Named) => VectorStops'
    BY <2>3, <2>4, <2>6, <2>7
  <2>9. call.op \in TransferCalls /\ call'.op \in TransferCalls /\ call'.pc \in Moving \cup {"iov", "returned"}
    BY <2>1, <2>4 DEF Kept, Vectored, TransferCalls
  <2>10. Shape' /\ Writing' /\ Reading'
    BY <2>1, <2>4, ReturnShape DEF Writing, Reading
  <2>11. WriteExact'
    <3>1. CASE call.op \in {"write", "writev"}
      <4>1. printed' = [k \in 1 .. Moved' |-> Fresh(Named[k])]
        BY <2>1, <2>2, <2>6, <3>1 DEF Writing
      <4> QED
        BY <2>1, <2>2, <2>4, <2>5, <2>8, <3>1, <4>1, WriteReturned
    <3>2. CASE call.op \notin {"write", "writev"}
      BY <2>4, <3>2, NotAWrite DEF Kept
    <3> QED
      BY <3>1, <3>2
  <2>12. Reading => ReadExact'
    <3>1. CASE call.op \in {"read", "readv"}
      BY <2>1, <2>2, <2>4, <2>5, <2>6, <2>8, <3>1, ReadQuiet
    <3>2. CASE call.op \notin {"read", "readv"}
      BY <2>4, <3>2, NotARead DEF Kept
    <3> QED
      BY <3>1, <3>2
  <2> QED
    BY <2>9, <2>10, <2>11, <2>12, TransferOnly DEF Good, IoInv
\* A transfer goes on with as many bytes moved as before.
<1>StandsStill.
    ASSUME Writing, call.op \in TransferCalls,
           perm' = perm, user' = user, printed' = printed, offset' = offset,
           Kept, Named' = Named, Sent' = Sent, call.pc = "iov", call'.pc \in {"iov", "read", "write"}
    PROVE  Writing' /\ (Reading => Reading')
  <2> USE <1>StandsStill
  <2>1. Writing'
    <3> SUFFICES ASSUME call.op \in {"write", "writev"} PROVE Writing'
      BY NotAWrite DEF Kept
    <3>1. /\ user = [a \in Address |-> Fresh(a)]
          /\ printed = [k \in 1 .. Sent |-> Fresh(Named[k])]
          /\ call.fd \in DOMAIN open_files => Sent = 0 /\ offset[open_files[call.fd]] = call.from
      BY DEF Writing
    <3>2. printed' = [k \in 1 .. Sent' |-> Fresh(Named'[k])]
      BY <3>1
    <3>3. call'.pc # "writing"
      OBVIOUS
    <3> QED
      BY <3>1, <3>2, <3>3 DEF Writing, Kept
  <2>2. Reading => Reading'
    <3> SUFFICES ASSUME Reading, call.op \in {"read", "readv"}, call.fd \in DOMAIN open_files PROVE Reading'
      BY DEF Kept, Reading
    <3>1. Got(Sent)'
      <4>1. Got(Sent)
        BY DEF Reading
      <4>2. \A a : translate_user(a, TRUE)' <=> translate_user(a, TRUE)
        BY DEF translate_user
      <4> QED
        BY <4>1, <4>2 DEF Got, Kept
    <3> QED
      BY <3>1 DEF Reading, Kept
  <2> QED
    BY <2>1, <2>2
<1> DEFINE at == call.iov + (call.i - 1) * IOVEC
           v == call.iovs[call.i]
<1>1. call.pc = "iov" /\ Shape /\ Writing /\ IsCall /\ call.op \in Vectored /\ InVector
  BY DEF NextIovec, Good, IoInv, SeekInv, Typed, Shape
<1>2. perm' = perm /\ user' = user /\ printed' = printed /\ offset' = offset
  BY DEF NextIovec, fileState
<1>3. call.total \in Nat /\ call.i \in Nat \ {0} /\ call.iovs \in Seq([base : Nat, length : Nat])
  BY <1>1 DEF Shape, SeekInv, Typed
<1>4. Len(call.iovs) \in Nat
  BY <1>3, SMT
<1>5. call.iov \in Nat /\ call.i <= Len(call.iovs) + 1 /\ call.iovs # << >>
  BY <1>1, ArgAssumption DEF InVector
<1>6. Sent = call.total
  BY <1>1, <1>3, SentIs
<1>7. ASSUME NEW error \in Int, error < 0, Return(SoFar(call.total, error)), VectorStops
      PROVE  Good' /\ (Reading => Reading' /\ ReadExact')
  <2>1. /\ SoFar(call.total, error) \in Int
        /\ (IF SoFar(call.total, error) < 0 THEN 0 ELSE SoFar(call.total, error)) = call.total
    BY <1>3, <1>7, SoFarFacts
  <2> QED
    BY <1>3, <1>7, <2>1, <1>VectorReturned
<1>8. CASE call.i > Len(call.iovs)
  <2>1. Return(call.total)
    BY <1>8 DEF NextIovec
  <2>2. call.i - 1 = Len(call.iovs)
    BY <1>3, <1>4, <1>5, <1>8, SMT
  <2>3. Len(Spans(call.iovs)) = Len(call.iovs)
    BY <1>3, SpansFacts
  <2>4. Named = Joined(Spans(call.iovs))
    BY <1>5 DEF Named
  <2>5. call.total = Len(Named)
    BY <1>1, <2>2, <2>3, <2>4 DEF InVector, Joined
  <2>6. ~(call.total < Len(Named)) /\ call.total \in Int /\ ~(call.total < 0)
    BY <1>3, <2>5, SMT
  <2> QED
    BY <1>3, <2>1, <2>6, <1>VectorReturned
<1>9. CASE ~(call.i > Len(call.iovs))
  <2>1. call.i <= Len(call.iovs)
    BY <1>3, <1>4, <1>9, SMT
  <2>2. /\ v.base \in Nat /\ v.length \in Nat /\ Len(Named) \in Nat
        /\ call.total + v.length <= Len(Named)
        /\ Len(JoinedTo(Spans(call.iovs))[call.i]) = call.total + v.length
    BY <1>1, <2>1, ElementFacts
  <2>3. MAX_IO_SIZE \in Nat /\ IOVEC \in Nat
    BY ArgAssumption
  <2> HIDE DEF v
  <2>4. CASE ~copy_user(at, IOVEC, FALSE)
    <3>1. Return(SoFar(call.total, ERR_FAULT))
      BY <1>9, <2>4 DEF NextIovec
    <3>2. at \in Nat
      BY <1>3, <1>5, <1>ElementStart
    <3>3. PICK k \in 1 .. IOVEC : ~translate_user(at + k - 1, FALSE)
      BY <2>3, <2>4, <3>2, CopyFacts DEF Copies
    <3>4. at + k - 1 \in call.iov .. call.iov + Len(call.iovs) * IOVEC - 1
      BY <1>3, <1>4, <1>5, <2>1, <1>ElementBytes
    <3>5. VectorStops
      BY <1>5, <3>3, <3>4 DEF VectorStops
    <3>6. ERR_FAULT \in Int /\ ERR_FAULT < 0
      BY SMT DEF ERR_FAULT
    <3> QED
      BY <1>7, <3>1, <3>5, <3>6
  <2>5. CASE copy_user(at, IOVEC, FALSE) /\ v.length > MAX_IO_SIZE - call.total
    <3>1. Return(SoFar(call.total, ERR_INVAL))
      BY <1>9, <2>5 DEF NextIovec, v
    <3>2. Len(Named) > MAX_IO_SIZE
      BY <1>3, <2>2, <2>3, <2>5, SMT
    <3>3. VectorStops
      BY <1>5, <3>2 DEF VectorStops
    <3>4. ERR_INVAL \in Int /\ ERR_INVAL < 0
      BY SMT DEF ERR_INVAL
    <3> QED
      BY <1>7, <3>1, <3>3, <3>4
  <2>6. CASE v.length = 0 /\ call' = [call EXCEPT !.i = @ + 1]
    <3>1. /\ Kept /\ call'.iov = call.iov /\ call'.buf = call.buf /\ call'.count = call.count
          /\ call'.total = call.total /\ call'.i = call.i + 1 /\ call'.pc = "iov"
      BY <1>1, <2>6 DEF IsCall, Kept
    <3>2. call'.i - 1 = call.i /\ call'.i <= Len(call.iovs) + 1 /\ call.total + v.length = call.total
      BY <1>3, <1>4, <2>1, <2>6, <3>1, SMT
    <3>3. InVector'
      <4>1. call'.total = Len(JoinedTo(Spans(call'.iovs))[call'.i - 1])
        BY <2>2, <3>1, <3>2 DEF Kept
      <4> QED
        BY <1>1, <3>1, <3>2, <4>1, CheckKept DEF InVector, Kept
    <3>4. Shape'
      BY <1>1, <1>3, <3>1, <3>3 DEF Shape, Moving, Vectored, Kept
    <3>5. Named' = Named
      BY <3>1, NamedKept DEF Kept
    <3>6. Sent' = Sent
      BY <1>1, <3>1 DEF Sent
    <3>7. call.op \in TransferCalls /\ call'.op \in TransferCalls /\ call'.pc \in Moving \cup {"iov", "returned"}
      BY <1>1, <3>1 DEF Kept, Vectored, TransferCalls
    <3>8. Writing' /\ (Reading => Reading')
      BY <1>1, <1>2, <3>1, <3>5, <3>6, <3>7, <1>StandsStill
    <3> QED
      BY <3>1, <3>4, <3>7, <3>8, NotReturned, TransferOnly DEF Good, IoInv
  <2>7. CASE /\ ~(v.length > MAX_IO_SIZE - call.total) /\ v.length # 0
             /\ call' = [call EXCEPT !.pc = Direction, !.buf = v.base, !.count = v.length]
    <3>1. /\ Kept /\ call'.iov = call.iov /\ call'.buf = v.base /\ call'.count = v.length
          /\ call'.total = call.total /\ call'.i = call.i /\ call'.pc = Direction
      BY <1>1, <2>7 DEF IsCall, Kept
    <3>2. InVector' /\ call.op \notin {"read", "write"}
      BY <1>1, <3>1, CheckKept DEF InVector, Kept, Vectored
    <3>3. v.length \in 1 .. MAX_IO_SIZE
      BY <1>3, <2>2, <2>3, <2>7, SMT
    <3>4. AtElement'
      BY <2>1, <3>1, <3>3 DEF AtElement, Kept, v
    <3>5. /\ call'.pc \in {"read", "write"} /\ (call'.pc = "read" => call.op = "readv")
          /\ (call'.pc = "write" => call.op = "writev")
      BY <1>1, <3>1 DEF Direction, Vectored
    <3>6. Shape'
      BY <1>1, <1>3, <3>1, <3>2, <3>4, <3>5 DEF Shape, Vectored, Kept
    <3>7. Named' = Named
      BY <3>1, <3>2, NamedKept DEF Kept
    <3>8. Sent' = Sent
      BY <1>1, <3>1, <3>5 DEF Sent
    <3>9. call.op \in TransferCalls /\ call'.op \in TransferCalls /\ call'.pc \in Moving \cup {"iov", "returned"}
      BY <1>1, <3>1, <3>5 DEF Kept, Vectored, TransferCalls, Moving
    <3>10. Writing' /\ (Reading => Reading')
      BY <1>1, <1>2, <3>1, <3>5, <3>7, <3>8, <3>9, <1>StandsStill
    <3>11. call'.pc # "returned"
      BY <3>5
    <3> QED
      BY <3>6, <3>9, <3>10, <3>11, NotReturned, TransferOnly DEF Good, IoInv
  <2> QED
    BY <1>9, <2>4, <2>5, <2>6, <2>7 DEF NextIovec, v
<1> QED
  BY <1>8, <1>9

Short(done, count) == done \in Nat /\ done < count

\* Short of the end.
LEMMA ShortOf ==
  ASSUME NEW done \in Nat, NEW n \in Nat, NEW count \in Nat, done + n <= count, ~(done + n = count)
  PROVE  Short(done + n, count)
BY SMT DEF Short

\* A chunk of a transfer.
LEMMA ChunkIs ==
  ASSUME NEW count \in Nat, NEW done \in Nat, done < count
  PROVE  /\ Least(CHUNK, count - done) \in Nat \ {0}
         /\ Least(CHUNK, count - done) <= CHUNK /\ done + Least(CHUNK, count - done) <= count
BY ArgAssumption, SMT DEF Least

Halves(f, s, n) ==
  [k \in 1 .. s |-> f[k]] \o [k \in 1 .. n |-> f[s + k]] = [k \in 1 .. s + n |-> f[k]]

\* After s bytes, the n at `at` go to the console.
Prints(s, n, at) ==
  /\ printed = [k \in 1 .. s |-> Fresh(Named[k])]
  /\ \A k \in 1 .. n : user[at + k - 1] = Fresh(Named[s + k])
  /\ printed' = printed \o [k \in 1 .. n |-> user[at + k - 1]]

\* sys_write's loop: the console has the bytes the call will count.
LEMMA WriteChunkGood ==
  ASSUME SeekInv, Good, WriteChunk
  PROVE  Good' /\ Reading' /\ ReadExact'
\* A function on 1 .. s + n in two parts.
<1>TwoParts.
    ASSUME NEW f, NEW s \in Nat, NEW n \in Nat
    PROVE  Halves(f, s, n)
  <2> USE <1>TwoParts
  <2> DEFINE S == { f[k] : k \in 1 .. s + n }
             a == [k \in 1 .. s |-> f[k]]
             b == [k \in 1 .. n |-> f[s + k]]
  <2>1. \A k \in 1 .. s : k \in 1 .. s + n
    BY SMT
  <2>2. \A k \in 1 .. n : s + k \in 1 .. s + n
    BY SMT
  <2>3. a \in [1 .. s -> S] /\ b \in [1 .. n -> S]
    BY <2>1, <2>2
  <2> HIDE DEF S
  <2>4. a \in Seq(S) /\ Len(a) = s /\ b \in Seq(S) /\ Len(b) = n
    <3> HIDE DEF a, b
    <3> QED
      BY <2>3, SMT
  <2>5. \A k \in 1 .. s : a[k] = f[k]
    OBVIOUS
  <2>6. \A k \in 1 .. n : b[k] = f[s + k]
    OBVIOUS
  <2> HIDE DEF a, b
  <2>7. a \o b \in Seq(S) /\ Len(a \o b) = s + n
    BY <2>4, ConcatFacts DEF Concat
  <2>8. \A k \in 1 .. s + n : (a \o b)[k] = IF k <= s THEN a[k] ELSE b[k - s]
    <3>1. Concat(S, a, b, a \o b)
      BY <2>4, ConcatFacts
    <3>2. \A k \in 1 .. Len(a) + Len(b) : (a \o b)[k] = IF k <= Len(a) THEN a[k] ELSE b[k - Len(a)]
      BY <3>1 DEF Concat
    <3> QED
      BY <2>4, <3>2, SMT
  <2>9. ASSUME NEW k \in 1 .. s + n PROVE (a \o b)[k] = f[k]
    <3>1. CASE k <= s
      <4>1. k \in 1 .. s
        BY <3>1, SMT
      <4> QED
        BY <2>5, <2>8, <3>1, <4>1
    <3>2. CASE ~(k <= s)
      <4>1. k - s \in 1 .. n /\ s + (k - s) = k
        BY <3>2, SMT
      <4> QED
        BY <2>6, <2>8, <3>2, <4>1
    <3> QED
      BY <3>1, <3>2
  <2>10. a \o b = [k \in 1 .. s + n |-> (a \o b)[k]]
    <3>1. \A w \in Seq(S) : w = [k \in 1 .. Len(w) |-> w[k]]
      BY SMT
    <3> QED
      BY <2>7, <3>1
  <2>11. a \o b = [k \in 1 .. s + n |-> f[k]]
    BY <2>9, <2>10
  <2> QED
    BY <2>11 DEF a, b, Halves
\* The chunk goes to the console after what went before.
<1>PrintedMore.
    ASSUME NEW s \in Nat, NEW n \in Nat, NEW at, Prints(s, n, at)
    PROVE  printed' = [k \in 1 .. s + n |-> Fresh(Named[k])]
  <2> USE <1>PrintedMore
  <2> DEFINE f == [k \in 1 .. s + n |-> Fresh(Named[k])]
  <2>1. \A k \in 1 .. s : k \in 1 .. s + n
    BY SMT
  <2>2. \A k \in 1 .. n : s + k \in 1 .. s + n
    BY SMT
  <2>3. [k \in 1 .. s |-> Fresh(Named[k])] = [k \in 1 .. s |-> f[k]]
    BY <2>1
  <2>4. [k \in 1 .. n |-> user[at + k - 1]] = [k \in 1 .. n |-> f[s + k]]
    BY <2>2 DEF Prints
  <2>5. f = [k \in 1 .. s + n |-> f[k]]
    OBVIOUS
  <2> HIDE DEF f
  <2>6. printed' = [k \in 1 .. s |-> f[k]] \o [k \in 1 .. n |-> f[s + k]]
    BY <2>3, <2>4 DEF Prints
  <2>7. printed' = [k \in 1 .. s + n |-> f[k]]
    <3>1. [k \in 1 .. s |-> f[k]] \o [k \in 1 .. n |-> f[s + k]] = [k \in 1 .. s + n |-> f[k]]
      <4>1. Halves(f, s, n)
        BY <1>TwoParts
      <4> QED
        BY <4>1 DEF Halves
    <3> QED
      BY <2>6, <3>1
  <2> QED
    BY <2>5, <2>7 DEF f
<1> DEFINE at == call.buf + call.done
<1>1. /\ call.pc = "writing" /\ call.pc \in Moving /\ Shape /\ Writing /\ IsCall
      /\ call.op \in {"write", "writev"}
  BY DEF WriteChunk, Moving, Good, IoInv, SeekInv, Typed, Shape
<1>2. Placed /\ call.done \in Nat /\ call.done < call.count
  BY <1>1, PlacedFacts DEF Shape
<1>3. /\ call.total \in Nat /\ call.count \in Nat /\ call.buf \in Nat /\ Len(Named) \in Nat
      /\ \A k \in 1 .. call.count : Named[call.total + k] = call.buf + k - 1
  BY <1>2 DEF Placed
<1>4. perm' = perm /\ user' = user /\ offset' = offset
  BY DEF WriteChunk, fileState
<1>5. amount \in Nat \ {0} /\ amount <= CHUNK /\ call.done + amount <= call.count
  BY <1>2, <1>3, ChunkIs DEF amount
<1>6. amount \in Nat /\ at \in Nat
  BY <1>2, <1>3, <1>5, SMT
<1>7. Sent = call.total + call.done /\ Sent \in Nat
  <2>1. Sent = call.total + call.done
    BY <1>1, SentIs
  <2> QED
    BY <1>2, <1>3, <2>1, SMT
<1>8. /\ user = [a \in Address |-> Fresh(a)]
      /\ printed = [k \in 1 .. Sent |-> Fresh(Named[k])]
      /\ call.fd \in DOMAIN open_files => Sent = 0 /\ offset[open_files[call.fd]] = call.from
      /\ call.fd \in {1, 2} \cup DOMAIN open_files
  BY <1>1 DEF Writing
<1>9. ASSUME call'.pc \in {"iov", "writing", "returned"}, Kept, Shape', Writing', WriteExact'
      PROVE  Good' /\ Reading' /\ ReadExact'
  <2>1. call'.op \in TransferCalls /\ call'.op \notin {"read", "readv"} /\ call'.pc \in Moving \cup {"iov", "returned"}
    BY <1>1, <1>9 DEF Kept, TransferCalls, Moving
  <2> QED
    BY <1>9, <2>1, TransferOnly, NotARead DEF Good, IoInv
<1>10. ASSUME NEW r, Ended(r), printed' = [k \in 1 .. Moved' |-> Fresh(Named[k])],
              Named' = Named /\ call'.result >= 0 /\ Moved' < Len(Named) => FaultAhead(FALSE)' \/ VectorStops'
       PROVE  Good' /\ Reading' /\ ReadExact'
  <2>1. call'.pc = "returned" /\ Kept /\ call'.buf = call.buf /\ call'.count = call.count /\ call'.total = call.total
    BY <1>10 DEF Ended
  <2>2. Named' = Named
    BY <2>1, NamedKept DEF Kept
  <2>3. WriteExact'
    BY <1>1, <1>4, <1>10, <2>1, <2>2, WriteReturned
  <2>4. Shape'
    BY <1>1, <2>1, ReturnShape
  <2>5. Writing'
    BY <2>1 DEF Writing
  <2> QED
    BY <1>9, <2>1, <2>3, <2>4, <2>5
<1>11. ASSUME NEW error \in Int, error < 0, Done(SoFar(call.done, error)), printed' = printed,
              Moved' = call.total + call.done /\ Named' = Named /\ perm' = perm /\ call'.result >= 0 =>
                FaultAhead(FALSE)'
       PROVE  Good' /\ Reading' /\ ReadExact'
  <2> DEFINE r == SoFar(call.done, error)
  <2>1. /\ r \in Int /\ (call.done = 0 => r = error) /\ (call.done # 0 => r = call.done)
        /\ (IF r < 0 THEN 0 ELSE r) = call.done
    BY <1>2, <1>11, SoFarFacts
  <2> HIDE DEF r
  <2>2. r <= call.count /\ r # call.count
    BY <1>2, <1>3, <1>11, <2>1, SMT
  <2>3. Ended(r)
    BY <1>1, <1>11, <2>1, <2>2, DoneOut DEF r
  <2>4. Moved' = call.total + call.done
    BY <2>1, <2>3 DEF Ended
  <2>5. printed' = [k \in 1 .. Moved' |-> Fresh(Named[k])]
    BY <1>7, <1>8, <1>11, <2>4
  <2> QED
    BY <1>4, <1>10, <1>11, <2>3, <2>4, <2>5
<1>12. CASE ~copy_user(at, amount, FALSE)
  <2>1. Done(SoFar(call.done, ERR_FAULT)) /\ printed' = printed
    BY <1>12 DEF WriteChunk
  <2>2. ERR_FAULT \in Int /\ ERR_FAULT < 0
    BY SMT DEF ERR_FAULT
  <2>3. Moved' = call.total + call.done /\ Named' = Named /\ perm' = perm => FaultAhead(FALSE)'
    BY <1>2, <1>5, <1>6, <1>12, ChunkFault
  <2> QED
    BY <1>11, <2>1, <2>2, <2>3
<1>13. CASE copy_user(at, amount, FALSE) /\ call.fd \in {1, 2}
  <2>1. /\ printed' = printed \o [k \in 1 .. amount |-> user[at + k - 1]]
        /\ IF call.done + amount = call.count THEN Done(call.count)
           ELSE call' = [call EXCEPT !.done = @ + amount]
    BY <1>13 DEF WriteChunk
  <2>2. \A k \in 1 .. amount : user[at + k - 1] = Fresh(Named[Sent + k])
    <3> SUFFICES ASSUME NEW k \in 1 .. amount PROVE user[at + k - 1] = Fresh(Named[Sent + k])
      OBVIOUS
    <3>1. at + k - 1 \in Address
      <4>1. Copies(at, amount, FALSE, copied(at, amount, FALSE))
        BY <1>6, CopyFacts
      <4> QED
        BY <1>13, <4>1 DEF Copies
    <3>2. call.done + k \in 1 .. call.count /\ call.buf + (call.done + k) - 1 = at + k - 1
          /\ Sent + k = call.total + (call.done + k)
      <4>1. InChunk(call.total, call.done, call.count, call.buf, Len(Named), k)
        BY <1>2, <1>3, <1>5, <1>6, ChunkPlaces DEF Placed
      <4>2. call.total + call.done + k = call.total + (call.done + k)
        BY <1>2, <1>3, SMT
      <4> QED
        BY <1>7, <4>1, <4>2 DEF InChunk
    <3>3. Named[Sent + k] = at + k - 1
      BY <1>3, <3>2
    <3> QED
      BY <1>8, <3>1, <3>3
  <2>3. printed' = [k \in 1 .. Sent + amount |-> Fresh(Named[k])]
    <3>1. Prints(Sent, amount, at)
      BY <1>8, <2>1, <2>2 DEF Prints
    <3> QED
      BY <1>6, <1>7, <3>1, <1>PrintedMore
  <2>4. call.fd \notin DOMAIN open_files
    BY <1>13, OpenFacts, SMT
  <2>5. Sent + amount = call.total + (call.done + amount)
    BY <1>2, <1>3, <1>6, <1>7, SMT
  <2>6. CASE call.done + amount = call.count
    <3>1. Done(call.count)
      BY <2>1, <2>6
    <3>2. call.count \in Int /\ call.count <= call.count /\ ~(call.count < 0)
      BY <1>3, SMT
    <3>3. CASE Ended(call.count)
      <4>1. Moved' = call.total + call.count /\ Moved' = Len(Named)
        BY <3>2, <3>3 DEF Ended
      <4>2. ~(Moved' < Len(Named))
        BY <1>3, <4>1, SMT
      <4>3. printed' = [k \in 1 .. Moved' |-> Fresh(Named[k])]
        BY <2>3, <2>5, <2>6, <4>1
      <4> QED
        BY <1>10, <3>3, <4>2, <4>3
    <3>4. CASE Continued
      <4>1. call'.pc = "iov" /\ Kept /\ call'.total = call.total + call.count /\ call.op \in Vectored
        BY <3>4 DEF Continued
      <4>2. Named' = Named
        BY <4>1, NamedKept DEF Kept, Vectored
      <4>3. Sent' = call.total + call.count
        <5>1. Sent' = call'.total + 0
          BY <4>1 DEF Sent
        <5> QED
          BY <1>3, <4>1, <5>1, SMT
      <4>4. printed' = [k \in 1 .. Sent' |-> Fresh(Named'[k])]
        BY <2>3, <2>5, <2>6, <4>2, <4>3
      <4>5. Writing'
        BY <1>4, <1>8, <2>4, <4>1, <4>4 DEF Writing, Kept
      <4>6. Shape'
        BY <1>1, <3>4, ContinuedShape
      <4> QED
        BY <1>9, <4>1, <4>5, <4>6, NotReturned
    <3> QED
      BY <1>1, <3>1, <3>2, <3>3, <3>4, DoneOut
  <2>7. CASE ~(call.done + amount = call.count)
    <3>1. call' = [call EXCEPT !.done = @ + amount]
      BY <2>1, <2>7
    <3>2. /\ Kept /\ call'.iov = call.iov /\ call'.buf = call.buf /\ call'.count = call.count
          /\ call'.total = call.total /\ call'.i = call.i /\ call'.done = call.done + amount /\ call'.pc = call.pc
      BY <1>1, <3>1 DEF IsCall, Kept
    <3>3. Named' = Named
      BY <3>2, NamedKept DEF Kept
    <3>4. call'.done \in Nat /\ call'.done < call'.count
      <4>1. Short(call.done + amount, call.count)
        BY <1>2, <1>3, <1>5, <1>6, <2>7, ShortOf
      <4> QED
        BY <3>2, <4>1 DEF Short
    <3>5. Shape'
      <4>1. InVector => InVector'
        BY <3>2, CheckKept DEF InVector, Kept
      <4>2. AtElement => AtElement'
        BY <3>2 DEF AtElement, Kept
      <4> QED
        BY <1>1, <3>2, <3>4, <4>1, <4>2 DEF Shape, Kept, Moving
    <3>6. Sent' = Sent + amount
      BY <1>1, <2>5, <3>2 DEF Sent
    <3>7. printed' = [k \in 1 .. Sent' |-> Fresh(Named'[k])]
      BY <2>3, <3>3, <3>6
    <3>8. Writing'
      BY <1>4, <1>8, <2>4, <3>2, <3>7 DEF Writing, Kept
    <3> QED
      BY <1>1, <1>9, <3>2, <3>5, <3>8, NotReturned
  <2> QED
    BY <2>6, <2>7
<1>14. CASE copy_user(at, amount, FALSE) /\ call.fd \notin {1, 2}
  <2>1. Done(SoFar(call.done, ERR_IO)) /\ printed' = printed
    BY <1>14 DEF WriteChunk, vfs_write
  <2>2. ERR_IO \in Int /\ ERR_IO < 0
    BY SMT DEF ERR_IO
  <2>3. call.total = 0 /\ call.done = 0
    <3>1. Sent = 0
      BY <1>8, <1>14
    <3> QED
      BY <1>2, <1>3, <1>7, <3>1, SMT
  <2>4. ~(call'.result >= 0)
    <3>1. SoFar(call.done, ERR_IO) = ERR_IO
      BY <2>3, SMT DEF SoFar
    <3>2. ERR_IO <= call.count /\ ERR_IO # call.count
      BY <1>3, SMT DEF ERR_IO
    <3>3. Ended(ERR_IO)
      BY <1>1, <2>1, <2>2, <3>1, <3>2, DoneOut
    <3> QED
      BY <2>2, <2>3, <3>3 DEF Ended
  <2> QED
    BY <1>11, <2>1, <2>2, <2>4
<1> QED
  BY <1>12, <1>13, <1>14

\* What the file system answers to a read of size bytes.
Answers(f, size, n) ==
  /\ n \in Int
  /\ n < 0 => f # "file"
  /\ n = 0 => offset[f] >= inode_size(f)
  /\ n > 0 => /\ f = "file" /\ n \in Nat \ {0} /\ n <= size /\ offset[f] + n <= Len(Regular)
              /\ n < size => offset[f] + n >= inode_size(f)

\* sys_read's loop goes on: done bytes of the element at hand are in.
GoesOn(n) ==
  /\ Kept /\ call'.iov = call.iov /\ call'.buf = call.buf /\ call'.count = call.count
  /\ call'.total = call.total /\ call'.i = call.i /\ call'.pc = call.pc
  /\ call'.done = call.done + n /\ Short(call.done + n, call.count)

\* A round of sys_read's loop that reads n > 0 bytes.
Round(n) ==
  LET f == open_files[call.fd]
      at == call.buf + call.done
  IN  /\ n \in Nat \ {0} /\ n <= CHUNK /\ call.done + n <= call.count /\ f = "file"
      /\ offset[f] + n <= Len(Regular)
      /\ offset'[f] = offset[f] + n
      /\ Put(at, SubSeq(Regular, offset[f] + 1, offset[f] + n))
      /\ \/ ~copy_user(at, n, TRUE) /\ Ended(SoFar(call.done, ERR_FAULT))
         \/ /\ copy_user(at, n, TRUE) /\ Ended(call.done + n)
            /\ call.done + n = call.count \/ offset[f] + n >= inode_size(f)
         \/ copy_user(at, n, TRUE) /\ call.done + n = call.count /\ Continued
         \/ copy_user(at, n, TRUE) /\ GoesOn(n)

\* A round that reads nothing.
Blank ==
  LET f == open_files[call.fd]
  IN  /\ user' = user /\ offset' = offset
      /\ \/ f # "file" /\ \E e \in Int : e < 0 /\ Ended(SoFar(call.done, e))
         \/ offset[f] >= inode_size(f) /\ Ended(call.done)

\* The rounds there are.
LEMMA ReadRounds ==
  ASSUME SeekInv, Shape, ReadChunk
  PROVE  Blank \/ \E n \in Nat : Round(n)
\* vfs::read over ramfs_read: an error, the end of the file, or bytes of it.
<1>AnswerFacts.
    ASSUME SeekInv, call.fd \in DOMAIN open_files, NEW size \in Nat \ {0}
    PROVE  Answers(open_files[call.fd], size, vfs_read(open_files[call.fd], size))
  <2> USE <1>AnswerFacts
  <2>1. PICK f : f = open_files[call.fd]
    BY SMT
  <2>2. f \in File /\ offset[f] \in 0 .. INT_MAX
    BY <2>1, OpenFacts DEF SeekInv, Typed
  <2>3. CASE f = "sink"
    BY <2>1, <2>3, SMT DEF Answers, vfs_read, ERR_IO
  <2>4. CASE f = "dir"
    BY <2>1, <2>4, SMT DEF Answers, vfs_read, ramfs_read, ERR_INVAL
  <2>5. CASE f = "file"
    <3>1. vfs_read(f, size) = ramfs_read(f, size) /\ inode_size(f) = Len(Regular) /\ f # "dir"
      BY <2>5 DEF vfs_read, inode_size
    <3>2. PICK o, l : o = offset[f] /\ l = Len(Regular)
      OBVIOUS
    <3>3. o \in Nat /\ l \in Nat
      BY <2>2, <3>2, WidthAssumption, SMT
    <3>4. vfs_read(f, size) = IF o >= l THEN 0 ELSE Least(size, l - o)
      BY <3>1, <3>2 DEF ramfs_read
    <3>5. PICK n : n = vfs_read(f, size)
      BY SMT
    <3>6. /\ n \in Int /\ ~(n < 0) /\ (n = 0 => o >= l)
          /\ n > 0 => n \in Nat \ {0} /\ n <= size /\ o + n <= l /\ (n < size => o + n >= l)
      BY <3>3, <3>4, <3>5, SMT DEF Least
    <3> QED
      BY <2>1, <2>5, <3>1, <3>2, <3>5, <3>6 DEF Answers
  <2> QED
    BY <2>2, <2>3, <2>4, <2>5 DEF File
<1>1. /\ call.pc = "reading" /\ call.pc \in Moving /\ IsCall /\ call.fd \in DOMAIN open_files
      /\ call.done \in Nat /\ call.done < call.count
  BY DEF ReadChunk, Moving, SeekInv, Typed, Transfers, Shape
<1>2. call.count \in Nat
  BY DEF SeekInv, Typed
<1>3. amount \in Nat \ {0} /\ amount <= CHUNK /\ call.done + amount <= call.count
  BY <1>1, <1>2, ChunkIs DEF amount
<1>4. PICK f, at : f = open_files[call.fd] /\ at = call.buf + call.done
  BY SMT
<1>5. PICK n : n = vfs_read(f, amount)
  BY SMT
<1>6. Answers(f, amount, n)
  BY <1>1, <1>3, <1>4, <1>5, <1>AnswerFacts
<1>7. n \in Int
  BY <1>6 DEF Answers
<1>8. ASSUME NEW e \in Int, e < 0, Done(SoFar(call.done, e)) PROVE Ended(SoFar(call.done, e))
  <2>1. /\ SoFar(call.done, e) \in Int /\ (call.done = 0 => SoFar(call.done, e) = e)
        /\ (call.done # 0 => SoFar(call.done, e) = call.done)
    BY <1>1, <1>8, SoFarFacts
  <2>2. SoFar(call.done, e) <= call.count /\ SoFar(call.done, e) # call.count
    BY <1>1, <1>2, <1>8, <2>1, SMT
  <2> QED
    BY <1>1, <1>8, <2>1, <2>2, DoneOut
<1>9. CASE n <= 0
  <2>1. Done(IF n < 0 THEN SoFar(call.done, n) ELSE call.done) /\ user' = user /\ offset' = offset
    BY <1>4, <1>5, <1>9 DEF ReadChunk
  <2>2. CASE n < 0
    <3>1. Done(SoFar(call.done, n))
      BY <2>1, <2>2
    <3>2. f # "file"
      BY <1>6, <2>2 DEF Answers
    <3> QED
      BY <1>4, <1>7, <1>8, <2>1, <2>2, <3>1, <3>2 DEF Blank
  <2>3. CASE ~(n < 0)
    <3>1. Done(call.done) /\ n = 0
      BY <1>7, <1>9, <2>1, <2>3, SMT
    <3>2. call.done \in Int /\ call.done <= call.count /\ call.done # call.count
      BY <1>1, <1>2, SMT
    <3>3. Ended(call.done)
      BY <1>1, <3>1, <3>2, DoneOut
    <3>4. offset[f] >= inode_size(f)
      BY <1>6, <3>1 DEF Answers
    <3> QED
      BY <1>4, <2>1, <3>3, <3>4 DEF Blank
  <2> QED
    BY <2>2, <2>3
<1>10. CASE ~(n <= 0)
  <2>1. /\ offset' = [offset EXCEPT ![f] = @ + n]
        /\ Put(at, SubSeq(Regular, offset[f] + 1, offset[f] + n))
        /\ IF ~copy_user(at, n, TRUE) THEN Done(SoFar(call.done, ERR_FAULT))
           ELSE IF n < amount \/ call.done + n = call.count THEN Done(call.done + n)
           ELSE call' = [call EXCEPT !.done = @ + n]
    BY <1>4, <1>5, <1>10 DEF ReadChunk
  <2>2. n > 0
    BY <1>7, <1>10, SMT
  <2>3. /\ f = "file" /\ n \in Nat \ {0} /\ n <= amount /\ offset[f] + n <= Len(Regular)
        /\ n < amount => offset[f] + n >= inode_size(f)
    BY <1>6, <2>2 DEF Answers
  <2>4. n <= CHUNK /\ call.done + n <= call.count
    BY <1>1, <1>2, <1>3, <2>3, ArgAssumption, SMT
  <2>5. offset'[f] = offset[f] + n
    <3>1. f \in DOMAIN offset
      BY <2>3 DEF SeekInv, Typed, File
    <3> QED
      BY <2>1, <3>1
  <2>6. n \in Nat
    BY <2>3, SMT
  <2> SUFFICES \/ ~copy_user(at, n, TRUE) /\ Ended(SoFar(call.done, ERR_FAULT))
               \/ /\ copy_user(at, n, TRUE) /\ Ended(call.done + n)
                  /\ call.done + n = call.count \/ offset[f] + n >= inode_size(f)
               \/ copy_user(at, n, TRUE) /\ call.done + n = call.count /\ Continued
               \/ copy_user(at, n, TRUE) /\ GoesOn(n)
    BY <1>4, <2>1, <2>3, <2>4, <2>5, <2>6 DEF Round
  <2>7. CASE ~copy_user(at, n, TRUE)
    <3>1. ERR_FAULT \in Int /\ ERR_FAULT < 0
      BY SMT DEF ERR_FAULT
    <3> QED
      BY <1>8, <2>1, <2>7, <3>1
  <2>8. CASE copy_user(at, n, TRUE) /\ (n < amount \/ call.done + n = call.count)
    <3>1. Done(call.done + n)
      BY <2>1, <2>8
    <3>2. call.done + n \in Int
      BY <1>1, <2>6, SMT
    <3>3. Ended(call.done + n) \/ (call.done + n = call.count /\ Continued)
      BY <1>1, <2>4, <3>1, <3>2, DoneOut
    <3> QED
      BY <2>3, <2>8, <3>3
  <2>9. CASE copy_user(at, n, TRUE) /\ ~(n < amount \/ call.done + n = call.count)
    <3>1. call' = [call EXCEPT !.done = @ + n]
      BY <2>1, <2>9
    <3>2. Short(call.done + n, call.count)
      BY <1>1, <1>2, <2>4, <2>6, <2>9, ShortOf
    <3>3. /\ Kept /\ call'.iov = call.iov /\ call'.buf = call.buf /\ call'.count = call.count
          /\ call'.total = call.total /\ call'.i = call.i /\ call'.pc = call.pc /\ call'.done = call.done + n
      BY <1>1, <3>1 DEF IsCall, Kept
    <3> QED
      BY <2>9, <3>2, <3>3 DEF GoesOn
  <2> QED
    BY <2>7, <2>8, <2>9
<1> QED
  BY <1>9, <1>10

\* sys_read's loop keeps its place, and what is said of other calls.
LEMMA ReadChunkGood ==
  ASSUME SeekInv, Good, ReadChunk
  PROVE  Good' /\ Kept
<1>1. call.pc = "reading" /\ call.pc \in Moving /\ Shape /\ call.op \in {"read", "readv"}
  BY DEF ReadChunk, Moving, Good, IoInv, Shape
<1>2. (\E r : Ended(r)) \/ Continued \/ \E n : GoesOn(n)
  BY <1>1, ReadRounds DEF Blank, Round, Good, IoInv
<1>3. ASSUME call'.pc \in {"iov", "reading", "returned"}, Kept, Shape'
      PROVE  Good' /\ Kept
  <2>1. call'.op \in TransferCalls /\ call'.op \notin {"write", "writev"} /\ call'.pc \in Moving \cup {"iov", "returned"}
    BY <1>1, <1>3 DEF Kept, TransferCalls, Moving
  <2> QED
    BY <1>3, <2>1, TransferOnly, NotAWrite DEF Good, IoInv
<1>4. CASE \E r : Ended(r)
  <2>1. call'.pc = "returned" /\ Kept /\ call'.buf = call.buf /\ call'.total = call.total
    BY <1>4 DEF Ended
  <2> QED
    BY <1>1, <1>3, <2>1, ReturnShape
<1>5. CASE Continued
  BY <1>1, <1>3, <1>5, ContinuedShape DEF Continued
<1>6. CASE \E n : GoesOn(n)
  <2>1. /\ Kept /\ call'.iov = call.iov /\ call'.buf = call.buf /\ call'.count = call.count
        /\ call'.total = call.total /\ call'.i = call.i /\ call'.pc = call.pc
        /\ call'.done \in Nat /\ call'.done < call'.count
    BY <1>6 DEF GoesOn, Short
  <2>2. InVector => InVector'
    BY <2>1, CheckKept DEF InVector, Kept
  <2>3. AtElement => AtElement'
    BY <2>1 DEF AtElement, Kept
  <2>4. Shape'
    BY <1>1, <2>1, <2>2, <2>3 DEF Shape, Kept
  <2> QED
    BY <1>1, <1>3, <2>1, <2>4
<1> QED
  BY <1>2, <1>4, <1>5, <1>6

\* No vector names an address twice.
NamedOnce ==
  \A v \in IoVectors : LET named == Joined(Spans(v.iovs))
                       IN  \A k, l \in DOMAIN named : named[k] = named[l] => k = l

Sums(total, done, n) ==
  total + done + n = total + (done + n) /\ total + done \in Nat /\ total + (done + n) \in Nat

\* No address is named twice.
Once == \A k, l \in 1 .. Len(Named) : Named[k] = Named[l] => k = l

Room(s, n, len) == s \in Nat /\ s + n <= len

\* The first m bytes are in after the step.
GotNext(m) ==
  /\ \A k \in 1 .. m : Named[k] \in Address /\ user'[Named[k]] = Regular[call.from + k]
  /\ \A a \in Address : user'[a] # Fresh(a) => translate_user(a, TRUE) /\ \E k \in 1 .. m : Named[k] = a

\* A part of a sequence, element by element.
Piece(bytes, s, o, n) == Len(bytes) = n /\ \A k \in 1 .. n : bytes[k] = s[o + k]

\* A chunk that has left the file, counted or not.
Ahead(s, n, m) == s + n \in m .. m + CHUNK /\ (s + n > m => m = s)

\* c bytes of the n read have landed.
MoreIn(n, c, bytes) ==
  /\ n \in Nat /\ n <= CHUNK /\ call.done + n <= call.count /\ c \in Nat /\ c <= n
  /\ \A k \in 1 .. n : bytes[k] = Regular[call.from + Sent + k]
  /\ Landed(call.buf + call.done, bytes, c)

\* sys_read's loop: the bytes counted are the file's, at the addresses named.
LEMMA ReadChunkReads ==
  ASSUME SeekInv, Good, NamedOnce, Reading, ReadChunk
  PROVE  Reading' /\ ReadExact'
\* A plain read names each address once, a vector by assumption.
<1>OnceFacts.
    ASSUME SeekInv, Shape, NamedOnce, call.pc \in Moving
    PROVE  Once
  <2> USE <1>OnceFacts
  <2>1. CASE call.op \in Vectored
    <3>1. InVector
      BY <2>1 DEF Shape, Moving
    <3>2. PICK v \in IoVectors : call.iovs = v.iovs
      BY <3>1 DEF InVector
    <3>3. Named = Joined(Spans(v.iovs))
      BY <2>1, <3>2 DEF Named, Vectored
    <3>4. Spans(v.iovs) \in Seq(Seq(Nat)) /\ v.iovs \in Seq([base : Nat, length : Nat])
      BY <3>2, SpansFacts DEF SeekInv, Typed
    <3>5. Len(Spans(v.iovs)) \in 0 .. Len(Spans(v.iovs))
      BY <3>4, SMT
    <3>6. Named \in Seq(Nat)
      BY <3>3, <3>4, <3>5, JoinTyped DEF Joined
    <3>7. DOMAIN Named = 1 .. Len(Named)
      BY <3>6, SMT
    <3> QED
      BY <3>3, <3>7 DEF NamedOnce, Once
  <2>2. CASE call.op \notin Vectored
    <3>1. Placed
      BY PlacedFacts
    <3>2. /\ call.total = 0 /\ Len(Named) = call.count /\ call.count \in Nat /\ call.buf \in Nat
          /\ \A k \in 1 .. call.count : Named[call.total + k] = call.buf + k - 1
      BY <2>2, <3>1 DEF Placed
    <3>3. \A k \in 1 .. call.count : 0 + k = k
      BY SMT
    <3>4. \A k \in 1 .. Len(Named) : Named[k] = call.buf + k - 1
      BY <3>2, <3>3
    <3>5. \A b \in Nat : \A k, l \in Nat : b + k - 1 = b + l - 1 => k = l
      BY SMT
    <3>6. \A k \in 1 .. Len(Named) : k \in Nat
      BY <3>2, SMT
    <3>7. ASSUME NEW k \in 1 .. Len(Named), NEW l \in 1 .. Len(Named), Named[k] = Named[l] PROVE k = l
      <4>1. call.buf + k - 1 = call.buf + l - 1
        BY <3>4, <3>7
      <4> QED
        BY <3>2, <3>5, <3>6, <4>1
    <3> QED
      BY <3>7 DEF Once
  <2> QED
    BY <2>1, <2>2
\* Sums of what is done.
<1>SumFacts.
    ASSUME NEW total \in Nat, NEW done \in Nat, NEW n \in Nat
    PROVE  Sums(total, done, n)
  BY <1>SumFacts, SMT DEF Sums
\* There is room for a chunk.
<1>RoomIs.
    ASSUME NEW total \in Nat, NEW done \in Nat, NEW count \in Nat, NEW n \in Nat, NEW len \in Nat,
           done + n <= count, total + count <= len
    PROVE  Room(total + done, n, len)
  BY <1>RoomIs, SMT DEF Room
\* c more bytes of the file have landed after the s that were in.
<1>GotMore.
    ASSUME Once, Got(Sent), Placed, Sent = call.total + call.done, call.done \in Nat, call.from \in Int,
           NEW n \in Nat, n <= CHUNK, call.done + n <= call.count, NEW c \in Nat, c <= n,
           NEW bytes, \A k \in 1 .. n : bytes[k] = Regular[call.from + Sent + k],
           Landed(call.buf + call.done, bytes, c)
    PROVE  GotNext(Sent + c)
  <2> USE <1>GotMore
  <2>1. /\ call.total \in Nat /\ call.count \in Nat /\ call.buf \in Nat /\ Len(Named) \in Nat
        /\ call.total + call.count <= Len(Named)
        /\ \A k \in 1 .. call.count : Named[call.total + k] = call.buf + k - 1
    BY DEF Placed
  <2>2. PICK s, at, from, len : s = Sent /\ at = call.buf + call.done /\ from = call.from /\ len = Len(Named)
    OBVIOUS
  <2>3. s \in Nat /\ from \in Int /\ len \in Nat /\ s + n <= len
    <3>1. Room(call.total + call.done, n, Len(Named))
      BY <2>1, <1>RoomIs
    <3> QED
      BY <2>1, <2>2, <3>1 DEF Room
  <2>4. ASSUME NEW j \in 1 .. c PROVE Named[s + j] = at + j - 1 /\ s + j \in 1 .. len
    <3>1. j \in 1 .. n
      BY SMT
    <3>2. InChunk(call.total, call.done, call.count, call.buf, Len(Named), j)
      BY <2>1, <3>1, ChunkPlaces
    <3>3. s + j = call.total + (call.done + j)
      <4>1. j \in Nat
        BY SMT
      <4>2. Sums(call.total, call.done, j)
        BY <2>1, <4>1, <1>SumFacts
      <4> QED
        BY <2>2, <4>2 DEF Sums
    <3>4. Named[s + j] = at + j - 1
      BY <2>1, <2>2, <3>2, <3>3 DEF InChunk
    <3>5. s + j \in 1 .. len
      BY <2>3, SMT
    <3> QED
      BY <3>4, <3>5
  <2>5. /\ \A j \in 1 .. c : /\ at + j - 1 \in Address /\ translate_user(at + j - 1, TRUE)
                             /\ user'[at + j - 1] = bytes[j]
        /\ \A a \in Address : (\A j \in 1 .. c : at + j - 1 # a) => user'[a] = user[a]
    BY <2>2 DEF Landed, Copies
  <2>6. /\ \A k \in 1 .. s : Named[k] \in Address /\ user[Named[k]] = Regular[from + k]
        /\ \A a \in Address : user[a] # Fresh(a) => translate_user(a, TRUE) /\ \E k \in 1 .. s : Named[k] = a
    BY <2>2 DEF Got
  <2>7. \A j \in 1 .. c : bytes[j] = Regular[from + (s + j)]
    <3>1. \A j \in 1 .. c : j \in 1 .. n /\ from + s + j = from + (s + j)
      BY <2>3, SMT
    <3> QED
      BY <2>2, <3>1
  <2>8. ASSUME NEW k \in 1 .. s + c PROVE Named[k] \in Address /\ user'[Named[k]] = Regular[from + k]
    <3>1. CASE k <= s
      <4>1. k \in 1 .. s /\ k \in 1 .. len
        BY <2>3, <3>1, SMT
      <4>2. \A j \in 1 .. c : k # s + j
        BY <2>3, <3>1, SMT
      <4>3. \A j \in 1 .. c : at + j - 1 # Named[k]
        <5> SUFFICES ASSUME NEW j \in 1 .. c, at + j - 1 = Named[k] PROVE FALSE
          OBVIOUS
        <5>1. Named[s + j] = Named[k] /\ s + j \in 1 .. Len(Named) /\ k \in 1 .. Len(Named)
          BY <2>2, <2>4, <4>1
        <5> QED
          BY <4>2, <5>1 DEF Once
      <4> QED
        BY <2>5, <2>6, <4>1, <4>3
    <3>2. CASE ~(k <= s)
      <4>1. k - s \in 1 .. c /\ s + (k - s) = k
        BY <2>3, <3>2, SMT
      <4>2. PICK j \in 1 .. c : s + j = k
        BY <4>1
      <4> QED
        BY <2>4, <2>5, <2>7, <4>2, ZenonT(30)
    <3> QED
      BY <3>1, <3>2
  <2>9. ASSUME NEW a \in Address, user'[a] # Fresh(a)
        PROVE  translate_user(a, TRUE) /\ \E k \in 1 .. s + c : Named[k] = a
    <3>1. CASE \E j \in 1 .. c : at + j - 1 = a
      <4>1. PICK j \in 1 .. c : at + j - 1 = a
        BY <3>1
      <4>2. s + j \in 1 .. s + c
        BY <2>3, SMT
      <4> QED
        BY <2>4, <2>5, <4>1, <4>2
    <3>2. CASE ~\E j \in 1 .. c : at + j - 1 = a
      <4>1. user[a] # Fresh(a)
        BY <2>5, <2>9, <3>2
      <4>2. \A k \in 1 .. s : k \in 1 .. s + c
        BY <2>3, SMT
      <4> QED
        BY <2>6, <4>1, <4>2
    <3> QED
      BY <3>1, <3>2
  <2> QED
    BY <2>2, <2>8, <2>9 DEF GotNext
\* SubSeq from o + 1 on.
<1>PieceFacts.
    ASSUME NEW S, NEW s \in Seq(S), NEW o \in Nat, NEW n \in Nat, o + n <= Len(s)
    PROVE  Piece(SubSeq(s, o + 1, o + n), s, o, n)
  <2> USE <1>PieceFacts
  <2>1. Len(SubSeq(s, o + 1, o + n)) = n
    BY SMT
  <2>2. \A k \in 1 .. n : SubSeq(s, o + 1, o + n)[k] = s[o + k]
    BY SMT
  <2> QED
    BY <2>1, <2>2 DEF Piece
\* What is in after the step is in for the next state.
<1>GotStays.
    ASSUME Kept, Named' = Named, perm' = perm, NEW m, m = Sent', GotNext(m)
    PROVE  Got(Sent)'
  <2> USE <1>GotStays
  <2>1. \A a : translate_user(a, TRUE)' <=> translate_user(a, TRUE)
    BY DEF translate_user
  <2> QED
    BY <2>1 DEF Got, GotNext, Kept
\* The file is at most a chunk ahead of the count.
<1>AheadIs.
    ASSUME NEW s \in Nat, NEW n \in Nat \ {0}, n <= CHUNK, NEW m, m = s \/ m = s + n
    PROVE  Ahead(s, n, m)
  BY <1>AheadIs, ArgAssumption, SMT DEF Ahead
\* <1>GotMore with its hypotheses named.
<1>GotMoreIn.
    ASSUME Once, Got(Sent), Placed, Sent = call.total + call.done, call.done \in Nat, call.from \in Int,
           NEW n, NEW c, NEW bytes, MoreIn(n, c, bytes)
    PROVE  GotNext(Sent + c)
  <2> USE <1>GotMoreIn
  <2>1. /\ n \in Nat /\ n <= CHUNK /\ call.done + n <= call.count /\ c \in Nat /\ c <= n
        /\ \A k \in 1 .. n : bytes[k] = Regular[call.from + Sent + k]
        /\ Landed(call.buf + call.done, bytes, c)
    BY DEF MoreIn
  <2> QED
    BY <2>1, <1>GotMore
<1> DEFINE f == open_files[call.fd]
           at == call.buf + call.done
<1>1. /\ call.pc = "reading" /\ call.pc \in Moving /\ Shape /\ call.op \in {"read", "readv"}
      /\ call.fd \in DOMAIN open_files /\ call.done \in Nat /\ call.done < call.count
  BY DEF ReadChunk, Moving, Good, IoInv, Shape, SeekInv, Transfers
<1>2. Placed /\ Once
  BY <1>1, PlacedFacts, <1>OnceFacts
<1>3. call.total \in Nat /\ call.count \in Nat /\ call.buf \in Nat /\ Len(Named) \in Nat
  BY <1>2 DEF Placed
<1>4. perm' = perm /\ call.from \in Int
  BY SMT DEF ReadChunk, SeekInv, Typed
<1>5. Sent = call.total + call.done /\ Sent \in Nat
  <2>1. Sent = call.total + call.done
    BY <1>1, SentIs
  <2> QED
    BY <1>1, <1>3, <2>1, SMT
<1>6. offset[f] = call.from + Sent /\ (f # "file" => Sent = 0) /\ Got(Sent)
  BY <1>1 DEF Reading
<1>7. ASSUME NEW r, Ended(r)
      PROVE  call'.pc = "returned" /\ Kept /\ Named' = Named /\ Reading'
  <2>1. call'.pc = "returned" /\ Kept /\ call'.buf = call.buf /\ call'.count = call.count
    BY <1>7 DEF Ended
  <2>2. Named' = Named
    BY <2>1, NamedKept DEF Kept
  <2> QED
    BY <2>1, <2>2 DEF Reading
<1>8. CASE Blank
  <2>1. user' = user /\ offset' = offset
    BY <1>8 DEF Blank
  <2>2. CASE f # "file" /\ \E e \in Int : e < 0 /\ Ended(SoFar(call.done, e))
    <3>1. PICK e \in Int : e < 0 /\ Ended(SoFar(call.done, e))
      BY <2>2
    <3>2. Sent = 0 /\ call.total = 0 /\ call.done = 0
      <4>1. Sent = 0
        BY <1>6, <2>2
      <4> QED
        BY <1>1, <1>3, <1>5, <4>1, SMT
    <3>3. SoFar(call.done, e) = e
      BY <3>2, SMT DEF SoFar
    <3>4. Moved' = call.total + 0 /\ ~(call'.result >= 0)
      BY <3>1, <3>2, <3>3 DEF Ended
    <3>5. Moved' = Sent
      BY <3>2, <3>4, SMT
    <3> QED
      BY <1>1, <1>4, <1>5, <1>7, <2>1, <3>1, <3>4, <3>5, ReadQuiet
  <2>3. CASE offset[f] >= inode_size(f) /\ Ended(call.done)
    <3>1. ~(call.done < 0)
      BY <1>1, SMT
    <3>2. Moved' = Sent
      BY <1>5, <2>3, <3>1 DEF Ended
    <3>3. call.from + Sent >= inode_size(f)
      BY <1>6, <2>3
    <3> QED
      BY <1>1, <1>4, <1>5, <1>7, <2>1, <2>3, <3>2, <3>3, ReadQuiet
  <2> QED
    BY <1>8, <2>2, <2>3 DEF Blank
<1>9. ASSUME NEW n \in Nat, Round(n) PROVE Reading' /\ ReadExact'
  <2>1. /\ n \in Nat \ {0} /\ n <= CHUNK /\ call.done + n <= call.count /\ f = "file"
        /\ offset[f] + n <= Len(Regular) /\ offset'[f] = offset[f] + n
        /\ Put(at, SubSeq(Regular, offset[f] + 1, offset[f] + n))
    BY <1>9 DEF Round
  <2>2. PICK bytes : bytes = SubSeq(Regular, offset[f] + 1, offset[f] + n)
    OBVIOUS
  <2>3. Len(bytes) = n /\ \A k \in 1 .. n : bytes[k] = Regular[call.from + Sent + k]
    <3>1. offset[f] \in Nat /\ Regular \in Seq(Nat)
      <4>1. offset[f] \in 0 .. INT_MAX
        BY <1>1, OpenFacts DEF SeekInv, Typed
      <4> QED
        BY <4>1, WidthAssumption, SMT
    <3>2. Piece(SubSeq(Regular, offset[f] + 1, offset[f] + n), Regular, offset[f], n)
      BY <2>1, <3>1, <1>PieceFacts
    <3> QED
      BY <1>6, <2>2, <3>2 DEF Piece
  <2>4. PICK c \in Nat : Landed(at, bytes, c)
    <3>1. at \in Nat
      BY <1>1, <1>3, SMT
    <3> QED
      BY <2>1, <2>2, <2>3, <3>1, PutFacts
  <2>5. c \in 0 .. n /\ (copy_user(at, n, TRUE) => c = n)
    BY <2>3, <2>4 DEF Landed, Copies
  <2>6. c <= n
    BY <2>5, SMT
  <2>7. GotNext(Sent + c)
    <3>1. MoreIn(n, c, bytes)
      BY <2>1, <2>3, <2>4, <2>6 DEF MoreIn
    <3> QED
      BY <1>1, <1>2, <1>4, <1>5, <1>6, <3>1, <1>GotMoreIn
  <2>8. Sums(call.total, call.done, n)
    BY <1>1, <1>3, <1>SumFacts
  <2>9. Sent + n = call.total + (call.done + n) /\ Sent + n \in Nat
    BY <1>5, <2>8 DEF Sums
  <2>10. offset'[f] = call.from + (Sent + n)
    <3>1. offset'[f] = call.from + Sent + n
      BY <1>6, <2>1
    <3> QED
      BY <1>4, <1>5, <3>1, SMT
  <2>11. ASSUME NEW m \in Nat, m = Moved', NEW r, Ended(r), m \in {Sent, Sent + n}, m <= Sent + c,
                m = Sent => FaultAhead(TRUE)',
                m = Sent + n /\ call'.result >= 0 /\ m < Len(Named) => call.from + m >= inode_size(f)
         PROVE  Reading' /\ ReadExact'
    <3>1. Kept /\ Named' = Named /\ Reading'
      BY <1>7, <2>11
    <3>2. \A k \in 1 .. m : k \in 1 .. Sent + c
      BY <1>5, <2>11, SMT
    <3>3. \A k \in 1 .. Sent + c : k \in 1 .. Sent + n
      BY <1>5, <2>6, SMT
    <3>4. \A k \in 1 .. Moved' : user'[Named[k]] = Regular[call.from + k]
      BY <2>7, <2>11, <3>2 DEF GotNext
    <3>5. \A a \in Address : user'[a] # Fresh(a) =>
            translate_user(a, TRUE) /\ \E k \in 1 .. Sent + n : Named[k] = a /\ user'[a] = Regular[call.from + k]
      <4> SUFFICES ASSUME NEW a \in Address, user'[a] # Fresh(a)
                   PROVE  translate_user(a, TRUE)
                          /\ \E k \in 1 .. Sent + n : Named[k] = a /\ user'[a] = Regular[call.from + k]
        OBVIOUS
      <4>1. translate_user(a, TRUE) /\ \E k \in 1 .. Sent + c : Named[k] = a
        BY <2>7 DEF GotNext
      <4>2. PICK k \in 1 .. Sent + c : Named[k] = a
        BY <4>1
      <4>3. user'[Named[k]] = Regular[call.from + k]
        BY <2>7, <4>2 DEF GotNext
      <4>4. user'[a] = Regular[call.from + k]
        BY <4>2, <4>3
      <4> QED
        BY <3>3, <4>1, <4>2, <4>4
    <3>6. Sent + n \in m .. m + CHUNK /\ (Sent + n > m => m = Sent)
      <4>1. m = Sent \/ m = Sent + n
        BY <2>11
      <4>2. Ahead(Sent, n, m)
        BY <1>5, <2>1, <4>1, <1>AheadIs
      <4> QED
        BY <4>2 DEF Ahead
    <3>7. call'.result >= 0 /\ Moved' < Len(Named) =>
            call.from + (Sent + n) >= inode_size(f) \/ FaultAhead(TRUE)'
      BY <2>11
    <3> QED
      BY <1>1, <1>4, <2>10, <2>11, <3>1, <3>4, <3>5, <3>6, <3>7, ReadReturned
  <2>12. CASE ~copy_user(at, n, TRUE) /\ Ended(SoFar(call.done, ERR_FAULT))
    <3>1. (IF SoFar(call.done, ERR_FAULT) < 0 THEN 0 ELSE SoFar(call.done, ERR_FAULT)) = call.done
      <4>1. ERR_FAULT \in Int /\ ERR_FAULT < 0
        BY SMT DEF ERR_FAULT
      <4> QED
        BY <1>1, <4>1, SoFarFacts
    <3>2. Moved' = call.total + call.done
      BY <2>12, <3>1 DEF Ended
    <3>3. Named' = Named
      BY <1>7, <2>12
    <3>4. FaultAhead(TRUE)'
      BY <1>1, <1>2, <1>4, <2>1, <2>12, <3>2, <3>3, ChunkFault
    <3>5. Moved' = Sent /\ Sent # Sent + n /\ Sent <= Sent + c
      BY <1>5, <2>1, <3>2, SMT
    <3> QED
      BY <1>5, <2>11, <2>12, <3>4, <3>5
  <2>13. CASE /\ copy_user(at, n, TRUE) /\ Ended(call.done + n)
              /\ call.done + n = call.count \/ offset[f] + n >= inode_size(f)
    <3>1. ~(call.done + n < 0)
      BY <1>1, SMT
    <3>2. Moved' = Sent + n /\ (call.done + n = call.count => Moved' = Len(Named))
      BY <2>9, <2>13, <3>1 DEF Ended
    <3>3. Sent # Sent + n /\ Sent + n <= Sent + c
      BY <1>5, <2>1, <2>5, <2>13, SMT
    <3>4. ASSUME Sent + n < Len(Named) PROVE call.from + (Sent + n) >= inode_size(f)
      <4>1. Sent + n # Len(Named)
        BY <1>3, <2>9, <3>4, SMT
      <4> QED
        BY <2>1, <2>10, <2>13, <3>2, <4>1
    <3> QED
      BY <2>9, <2>11, <2>13, <3>2, <3>3, <3>4
  <2>14. CASE copy_user(at, n, TRUE) /\ (GoesOn(n) \/ (call.done + n = call.count /\ Continued))
    <3>1. c = n
      BY <2>5, <2>14
    <3>2. Sent' = Sent + n /\ call'.pc # "returned" /\ Kept /\ Named' = Named
      <4>1. CASE GoesOn(n)
        <5>1. Named' = Named
          BY <4>1, NamedKept DEF GoesOn, Kept
        <5>2. Sent' = call.total + (call.done + n)
          BY <1>1, <4>1 DEF Sent, GoesOn
        <5> QED
          BY <1>1, <2>9, <4>1, <5>1, <5>2 DEF GoesOn
      <4>2. CASE call.done + n = call.count /\ Continued
        <5>1. Named' = Named
          BY <4>2, NamedKept DEF Continued, Kept, Vectored
        <5>2. Sent' = call'.total + 0
          BY <4>2 DEF Sent, Continued
        <5>3. call'.total = call.total + call.count
          BY <4>2 DEF Continued
        <5>4. Sent' = call.total + (call.done + n)
          BY <1>3, <4>2, <5>2, <5>3, SMTT(30)
        <5> QED
          BY <2>9, <4>2, <5>1, <5>4 DEF Continued
      <4> QED
        BY <2>14, <4>1, <4>2
    <3>3. Got(Sent)'
      BY <1>4, <2>7, <3>1, <3>2, <1>GotStays
    <3>4. Reading'
      BY <2>1, <2>10, <3>2, <3>3 DEF Reading, Kept
    <3> QED
      BY <3>2, <3>4, NotReturned
  <2> QED
    BY <1>9, <2>12, <2>13, <2>14 DEF Round
<1> QED
  BY <1>1, <1>8, <1>9, ReadRounds

-----------------------------------------------------------------------------
(* Every step, and the theorems.                                           *)

\* Every step keeps what is said of all calls but read and readv.
LEMMA StepGood == SeekInv /\ SeekInv' /\ Good /\ [Next]_vars => Good'
<1> SUFFICES ASSUME SeekInv, SeekInv', Good, [Next]_vars PROVE Good'
  OBVIOUS
<1> QED
  BY StutterGood, DispatchGood, QuietGood, SysRwGood, ReadChunkGood, WriteChunkGood, NextIovecGood,
     GetdentsGood, NextDirentGood, CopyOutGood DEF Next

\* And of read and readv, when no vector names an address twice.
LEMMA StepReads ==
  NamedOnce /\ SeekInv /\ SeekInv' /\ Good /\ Reading /\ ReadExact /\ [Next]_vars => Reading' /\ ReadExact'
<1> SUFFICES ASSUME NamedOnce, SeekInv, SeekInv', Good, Reading, ReadExact, [Next]_vars
             PROVE  Reading' /\ ReadExact'
  OBVIOUS
<1> QED
  BY StutterGood, DispatchGood, QuietGood, SysRwGood, ReadChunkReads, WriteChunkGood, NextIovecGood,
     GetdentsGood, NextDirentGood, CopyOutGood DEF Next

\* The invariant of the transfers holds throughout.
LEMMA GoodAlways == Spec => []Good
<1>1. Init => Good
  BY InitGood
<1> QED
  BY <1>1, StepGood, Invariance, PTL DEF Spec

\* sys_write and sys_vector_io: when a write or writev returns, the console has received
\* exactly the bytes it counts, in order and whole unless memory cannot be read or the
\* vector stops, for every chunk size, page layout and vector; no write moves an offset
\* or touches user memory.
THEOREM WritesAreExact == Spec => []WriteExact
<1>1. Good => WriteExact
  BY DEF Good
<1> QED
  BY <1>1, GoodAlways, PTL

\* sys_getdents64 over ramfs_readdir: the records a call delivers are those of the children
\* between the old offset and the new one, for every directory, buffer and read-ahead, so
\* that calls in a row deliver each child once.
THEOREM DirentsAreOnce == Spec => []DirentsOnce
<1>1. Good => DirentsOnce
  BY DEF Good
<1> QED
  BY <1>1, GoodAlways, PTL

\* fstat, getcwd, uname and the clocks: a call that succeeds has copied the whole structure
\* to memory user code may write, and none has touched anything outside it.
THEOREM StructsAreWhole == Spec => []StructWhole
<1>1. Good => StructWhole
  BY DEF Good
<1> QED
  BY <1>1, GoodAlways, PTL

\* sys_read and sys_vector_io: when a read or readv returns, the bytes it counts are the
\* file's, in order, at the addresses named, nothing else has changed, and the offset is
\* past them, or by one chunk further at a fault.  This holds for every file, chunk size
\* and page layout, provided no vector names an address twice: a byte that is named again
\* is overwritten by the later element.
THEOREM ReadsAreExact == ASSUME NamedOnce PROVE Spec => []ReadExact
<1> DEFINE All == Good /\ Reading /\ ReadExact
<1>1. Init => All
  BY InitGood
<1>2. SeekInv /\ SeekInv' /\ All /\ [Next]_vars => All'
  BY StepGood, StepReads
<1>3. All => ReadExact
  OBVIOUS
<1> HIDE DEF All
<1> QED
  BY <1>1, <1>2, <1>3, Invariance, PTL DEF Spec

=============================================================================
