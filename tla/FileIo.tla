------------------------------- MODULE FileIo -------------------------------
(***************************************************************************)
(* Reading, writing and seeking: read, write, readv, writev, lseek,        *)
(* getdents64, umask and the calls that fill in a structure (getcwd,       *)
(* uname, fstat, clock_gettime, clock_getres), over vfs::read,             *)
(* vfs::write, ramfs_read, ramfs_readdir and copy_user.                    *)
(*                                                                         *)
(* Data moves in chunks of CHUNK bytes through a kernel buffer, and each   *)
(* chunk page by page to or from user memory, any page of which may be     *)
(* absent or read only: a call can stop in the middle of either loop.  One *)
(* step is one round of the chunk loop, of the loop over an iovec array or *)
(* of the loop over directory entries.                                     *)
(*                                                                         *)
(* Which descriptor holds which File is the matter of module FileTable;    *)
(* here the table is fixed and the Files' offsets change.                  *)
(* read(0, ...) is in module Keyboard.                                     *)
(***************************************************************************)
EXTENDS Integers, Sequences, FiniteSets, FiniteSetsExt

CONSTANTS
  Regular,         \* the bytes of the regular file
  Children,        \* a directory's children in list order: [len, dir]
  PAGE_SIZE, USER_TOP,
  CHUNK,           \* bytes of the kernel buffer
  MAX_IO_SIZE, MAX_IOVEC_COUNT,
  DIRENTS,         \* entries getdents64 asks of readdir
  IOVEC,           \* bytes of a UserIovec
  INT_MAX,         \* the largest signed offset
  STRUCT,          \* bytes of a uname, timespec or working directory
  Permissions,     \* the accesses user pages may have, by page
  FdArg, SeekArg, Buffers, Counts, Offsets, IoVectors, Masks  \* what user code passes

\* Signed offsets are symmetric but for INT_MIN; a file and a directory fit in one, and
\* no directory record is empty.
ASSUME WidthAssumption ==
  /\ INT_MAX \in Nat
  /\ Offsets \subseteq -INT_MAX - 1 .. INT_MAX
  /\ Regular \in Seq(Nat) /\ Children \in Seq([len : Nat \ {0}, dir : BOOLEAN])
  /\ Len(Regular) \in 0 .. INT_MAX /\ Len(Children) \in 0 .. INT_MAX

\* Arguments are unsigned numbers; sizes are positive or zero.
ASSUME ArgAssumption ==
  /\ FdArg \cup SeekArg \cup Buffers \cup Counts \subseteq Nat
  /\ \A v \in IoVectors : v.iov \in Nat /\ v.iovs \in Seq([base : Nat, length : Nat])
  /\ {USER_TOP, MAX_IO_SIZE, MAX_IOVEC_COUNT, IOVEC} \subseteq Nat
  /\ {CHUNK, DIRENTS, STRUCT} \subseteq Nat \ {0}

ERR_IO == -5
ERR_BADF == -9
ERR_FAULT == -14
ERR_NOTDIR == -20
ERR_INVAL == -22
ERR_RANGE == -34
ERR_NOTSUP == -95

INT_MIN == -INT_MAX - 1

\* Descriptors 3, 4 and 5 are open, the last for writing only; 0 to 2 have no File.
open_files == [fd \in {3, 4, 5} |-> CASE fd = 3 -> "file" [] fd = 4 -> "dir" [] fd = 5 -> "sink"]
File == {"file", "dir", "sink"}
Address == 0 .. USER_TOP - 1

\* The byte user code left at an address before a call.
Fresh(a) == 100 + a

VARIABLES
  perm,               \* access of each user page: "none", "ro" or "rw"
  user,               \* user memory
  offset,             \* File::offset
  file_creation_mask,
  printed,            \* what the call has sent to the console
  call                \* the call in progress, or the last one

fileState == << offset, file_creation_mask >>
vars == << perm, user, offset, file_creation_mask, printed, call >>

NoCall == [pc |-> "user", op |-> "none", fd |-> 0, buf |-> 0, count |-> 0, done |-> 0,
           iovs |-> << >>, iov |-> 0, i |-> 1, total |-> 0, from |-> 0, result |-> 0]

Init ==
  /\ perm \in Permissions
  /\ user = [a \in Address |-> Fresh(a)]
  /\ offset = [f \in File |-> 0]
  /\ file_creation_mask = {4}
  /\ printed = << >>
  /\ call = NoCall

-----------------------------------------------------------------------------
(* User memory.                                                            *)

\* The walk of the four table levels, by its outcome.
translate_user(a, write_access) ==
  a < USER_TOP /\ perm[a \div PAGE_SIZE] \in (IF write_access THEN {"rw"} ELSE {"ro", "rw"})

\* Mutant: the page is looked up once, for the first byte.
MutFirstPageOnly(addr, size, to_user) ==
  IF addr >= USER_TOP \/ size > USER_TOP - addr \/ ~translate_user(addr, to_user) THEN 0 ELSE size

\* How many bytes copy_user moves before it meets a page it may not touch; the
\* copy succeeds if that is all of them.
copied(addr, size, to_user) ==
  IF addr >= USER_TOP \/ size > USER_TOP - addr THEN 0
  ELSE Min({ k \in 0 .. size : k = size \/ ~translate_user(addr + k, to_user) })

copy_user(addr, size, to_user) == size = 0 \/ copied(addr, size, to_user) = size

Put(addr, bytes) ==
  user' = [a \in Address |->
             IF a \in addr .. addr + copied(addr, Len(bytes), TRUE) - 1
             THEN bytes[a - addr + 1] ELSE user[a]]

-----------------------------------------------------------------------------
(* Entering and leaving a call.  Between calls user code uses what it got  *)
(* and fills its memory anew.                                              *)

Enter(op, fd, buf, count) ==
  /\ call.pc = "user"
  /\ call' = [NoCall EXCEPT !.op = op, !.pc = op, !.fd = fd, !.buf = buf, !.count = count,
                            !.from = IF fd \in DOMAIN open_files THEN offset[open_files[fd]] ELSE 0]
  /\ UNCHANGED << perm, user, printed, fileState >>

Return(result) == call' = [call EXCEPT !.pc = "returned", !.result = result]

UserRuns ==
  /\ call.pc = "returned"
  /\ call' = NoCall
  /\ user' = [a \in Address |-> Fresh(a)]
  /\ printed' = << >>
  /\ UNCHANGED << perm, fileState >>

SoFar(done, error) == IF done # 0 THEN done ELSE error

\* Mutant: the vector goes on after an element that came short.
MutGoesOn(result) ==
  IF call.op \notin {"readv", "writev"} THEN Return(result)
  ELSE IF result < 0 THEN Return(SoFar(call.total, result))
  ELSE call' = [call EXCEPT !.pc = "iov", !.total = @ + result, !.i = @ + 1]

\* A read or write within readv or writev hands its result to the loop over the
\* vector, a plain one to user code.
Done(result) ==
  IF call.op \notin {"readv", "writev"} THEN Return(result)
  ELSE IF result < 0 THEN Return(SoFar(call.total, result))
  ELSE IF result < call.count THEN Return(call.total + result)
  ELSE call' = [call EXCEPT !.pc = "iov", !.total = @ + result, !.i = @ + 1]

-----------------------------------------------------------------------------
(* read and write.                                                         *)

\* sys_read and sys_write up to their loops; 0 when they go on.
rw_check(op, fd, count) ==
  IF \/ fd > 2 /\ fd \notin DOMAIN open_files
     \/ op = "read" /\ fd < 3
     \/ op = "write" /\ fd = 0
  THEN ERR_BADF
  ELSE IF count > MAX_IO_SIZE THEN ERR_INVAL ELSE 0

Direction == IF call.op \in {"read", "readv"} THEN "read" ELSE "write"

sys_rw ==
  /\ call.pc \in {"read", "write"}
  /\ LET error == rw_check(Direction, call.fd, call.count)
     IN  IF error < 0 \/ call.count = 0
         THEN Done(error)
         ELSE call' = [call EXCEPT !.pc = IF Direction = "read" THEN "reading" ELSE "writing", !.done = 0]
  /\ UNCHANGED << perm, user, printed, fileState >>

Least(m, n) == IF m <= n THEN m ELSE n

amount == Least(CHUNK, call.count - call.done)

inode_size(f) == IF f = "file" THEN Len(Regular) ELSE 0

\* An error, or the number of bytes found at the offset.
ramfs_read(f, size) ==
  CASE f = "dir" -> ERR_INVAL
    [] f # "dir" /\ offset[f] >= inode_size(f) -> 0
    [] OTHER -> Least(size, inode_size(f) - offset[f])

vfs_read(f, size) == IF f = "sink" THEN ERR_IO ELSE ramfs_read(f, size)

\* One round: the offset moves before the bytes are known to have arrived.
ReadChunk ==
  /\ call.pc = "reading"
  /\ LET f == open_files[call.fd]
         n == vfs_read(f, amount)
     IN  IF n <= 0
         THEN Done(IF n < 0 THEN SoFar(call.done, n) ELSE call.done) /\ UNCHANGED << user, offset >>
         ELSE /\ offset' = [offset EXCEPT ![f] = @ + n]
              /\ Put(call.buf + call.done, SubSeq(Regular, offset[f] + 1, offset[f] + n))
              /\ IF ~copy_user(call.buf + call.done, n, TRUE) THEN Done(SoFar(call.done, ERR_FAULT))
                 ELSE IF n < amount \/ call.done + n = call.count THEN Done(call.done + n)
                 ELSE call' = [call EXCEPT !.done = @ + n]
  /\ UNCHANGED << perm, printed, file_creation_mask >>

\* ramfs has no write operation: whatever the flags, vfs::write fails.
vfs_write(f, size) == ERR_IO

WriteChunk ==
  /\ call.pc = "writing"
  /\ LET at == call.buf + call.done
     IN  IF ~copy_user(at, amount, FALSE)
         THEN Done(SoFar(call.done, ERR_FAULT)) /\ UNCHANGED printed
         ELSE IF call.fd \in {1, 2}
         THEN /\ printed' = printed \o [k \in 1 .. amount |-> user[at + k - 1]]
              /\ IF call.done + amount = call.count THEN Done(call.count)
                 ELSE call' = [call EXCEPT !.done = @ + amount]
         ELSE Done(SoFar(call.done, vfs_write(open_files[call.fd], amount))) /\ UNCHANGED printed
  /\ UNCHANGED << perm, user, fileState >>

\* readv and writev: the array lies in user memory at `iov`.
sys_vector_io(op, fd, iov, iovs) ==
  /\ call.pc = "user"
  /\ LET checked == rw_check(IF op = "readv" THEN "read" ELSE "write", fd, 0)
         error == IF Len(iovs) > MAX_IOVEC_COUNT THEN ERR_INVAL
                  ELSE IF iov >= USER_TOP /\ iovs # << >> THEN ERR_FAULT ELSE checked
         vector == [NoCall EXCEPT !.op = op, !.fd = fd, !.iovs = iovs, !.iov = iov,
                                  !.from = IF fd \in DOMAIN open_files THEN offset[open_files[fd]] ELSE 0]
     IN  call' = IF error < 0 \/ iovs = << >>
                 THEN [vector EXCEPT !.pc = "returned", !.result = error]
                 ELSE [vector EXCEPT !.pc = "iov"]
  /\ UNCHANGED << perm, user, printed, fileState >>

\* The element is fetched anew in each round.
NextIovec ==
  /\ call.pc = "iov"
  /\ IF call.i > Len(call.iovs) THEN Return(call.total)
     ELSE LET at == call.iov + (call.i - 1) * IOVEC
              v == call.iovs[call.i]
          IN  IF ~copy_user(at, IOVEC, FALSE) THEN Return(SoFar(call.total, ERR_FAULT))
              ELSE IF v.length > MAX_IO_SIZE - call.total THEN Return(SoFar(call.total, ERR_INVAL))
              ELSE IF v.length = 0 THEN call' = [call EXCEPT !.i = @ + 1]
              ELSE call' = [call EXCEPT !.pc = Direction, !.buf = v.base, !.count = v.length]
  /\ UNCHANGED << perm, user, printed, fileState >>

-----------------------------------------------------------------------------
(* lseek.                                                                  *)

Base(f, whence) == CASE whence = 0 -> 0 [] whence = 1 -> offset[f] [] whence = 2 -> inode_size(f)

\* Mutant: the sum is bounded by its terms.
MutSeekBound(base, off) == base > INT_MAX \/ off = INT_MIN \/ (off < 0 /\ base < -off)

\* The tests made before the addition; their own sums stay within the width.
SeekOverflows(base, off) ==
  \/ base > INT_MAX
  \/ off > 0 /\ base > INT_MAX - off
  \/ off < 0 /\ (off = INT_MIN \/ base < -off)

\* The call's buf and count are the argument and the whence.
sys_lseek ==
  /\ call.pc = "lseek"
  /\ LET f == open_files[call.fd]
         result == Base(f, call.count) + call.buf
         Fails(error) == Return(error) /\ UNCHANGED offset
     IN  CASE call.fd \notin DOMAIN open_files -> Fails(ERR_BADF)
           [] call.fd \in DOMAIN open_files /\ call.count > 2 -> Fails(ERR_INVAL)
           [] OTHER -> IF SeekOverflows(Base(f, call.count), call.buf) THEN Fails(ERR_RANGE)
                       ELSE IF result < 0 THEN Fails(ERR_INVAL)
                       ELSE Return(result) /\ offset' = [offset EXCEPT ![f] = result]
  /\ UNCHANGED << perm, user, printed, file_creation_mask >>

-----------------------------------------------------------------------------
(* getdents64.                                                             *)

\* ramfs_readdir leaves the offset after the last entry it looked at.
readdir_end(f) == Least(Len(Children), offset[f] + DIRENTS)

sys_getdents64 ==
  /\ call.pc = "getdents64"
  /\ LET f == open_files[call.fd]
     IN  IF call.fd \notin DOMAIN open_files THEN Return(ERR_BADF) /\ UNCHANGED offset
         ELSE IF call.count > MAX_IO_SIZE THEN Return(ERR_INVAL) /\ UNCHANGED offset
         ELSE IF call.count = 0 THEN Return(0) /\ UNCHANGED offset
         ELSE IF f # "dir" THEN Return(ERR_NOTDIR) /\ UNCHANGED offset
         ELSE /\ offset' = [offset EXCEPT ![f] = readdir_end(f)]
              /\ call' = [call EXCEPT !.pc = "dirents"]
  /\ UNCHANGED << perm, user, printed, file_creation_mask >>

\* The bytes of the record of child j: its number, offset and type.
Dirent(j) == [k \in 1 .. Children[j].len |-> 300 + 2 * j + (IF Children[j].dir THEN 1 ELSE 0)]

\* Mutant: the entries read ahead of the one that does not fit are gone.
MutReadAheadLost ==
  /\ call.pc = "dirents"
  /\ IF call.from + call.i > offset["dir"] THEN Return(call.done) /\ UNCHANGED << user, offset >>
     ELSE LET record == Dirent(call.from + call.i)
              at == call.buf + call.done
          IN  /\ UNCHANGED offset
              /\ IF Len(record) > call.count - call.done
                 THEN Return(SoFar(call.done, ERR_INVAL)) /\ UNCHANGED user
                 ELSE /\ Put(at, record)
                      /\ IF copy_user(at, Len(record), TRUE)
                         THEN call' = [call EXCEPT !.done = @ + Len(record), !.i = @ + 1]
                         ELSE Return(SoFar(call.done, ERR_FAULT))
  /\ UNCHANGED << perm, printed, file_creation_mask >>

\* One entry: when it does not fit or cannot be copied the offset goes back to it.
NextDirent ==
  /\ call.pc = "dirents"
  /\ LET rewind == offset' = [offset EXCEPT !["dir"] = call.from + call.i - 1]
     IN  IF call.from + call.i > offset["dir"] THEN Return(call.done) /\ UNCHANGED << user, offset >>
         ELSE LET record == Dirent(call.from + call.i)
                  at == call.buf + call.done
              IN  IF Len(record) > call.count - call.done
                  THEN Return(SoFar(call.done, ERR_INVAL)) /\ rewind /\ UNCHANGED user
                  ELSE /\ Put(at, record)
                       /\ IF copy_user(at, Len(record), TRUE)
                          THEN /\ call' = [call EXCEPT !.done = @ + Len(record), !.i = @ + 1]
                               /\ UNCHANGED offset
                          ELSE Return(SoFar(call.done, ERR_FAULT)) /\ rewind
  /\ UNCHANGED << perm, printed, file_creation_mask >>

-----------------------------------------------------------------------------
(* Calls that fill in a structure.                                         *)

sys_umask(mask) ==
  /\ call.pc = "user"
  /\ file_creation_mask' = mask
  /\ call' = [NoCall EXCEPT !.op = "umask", !.pc = "returned", !.result = SumSet(file_creation_mask)]
  /\ UNCHANGED << perm, user, printed, offset >>

\* Mutant: the mask is added to the permissions.
MutMaskKept(f) ==
  << IF f = "dir" THEN 40 ELSE 10,
     SumSet(IF f = "dir" THEN {1, 2, 4} ELSE {2, 4}),
     IF f = "dir" THEN 2 + Cardinality({ j \in DOMAIN Children : Children[j].dir }) ELSE 1,
     inode_size(f) >>

\* Type, permissions (bits 1 for x, 2 for r and the owner's w, 4 for w), links and size.
fill_stat(f) ==
  << IF f = "dir" THEN 40 ELSE 10,
     SumSet((IF f = "dir" THEN {1, 2, 4} ELSE {2, 4}) \ file_creation_mask),
     IF f = "dir" THEN 2 + Cardinality({ j \in DOMAIN Children : Children[j].dir }) ELSE 1,
     inode_size(f) >>

\* What uname, clock_gettime, clock_getres and getcwd copy out.
Filled(op) ==
  LET base == CASE op = "uname" -> 200 [] op = "clock_gettime" -> 210
                [] op = "clock_getres" -> 220 [] op = "getcwd" -> 230
  IN  [k \in 1 .. STRUCT |-> base + k]

\* Each call's early return, or << >> when it goes on to copy out.
sys_fstat(fd) == IF fd \notin DOMAIN open_files THEN << ERR_BADF >> ELSE << >>
sys_getcwd(size) == IF size < STRUCT THEN << ERR_RANGE >> ELSE << >>
sys_clock_gettime(clock_id, user_time, get_resolution) ==
  IF clock_id # 1 THEN << ERR_NOTSUP >>
  ELSE IF get_resolution /\ user_time = 0 THEN << 0 >> ELSE << >>

Early(c) ==
  CASE c.op = "fstat" -> sys_fstat(c.fd)
    [] c.op = "getcwd" -> sys_getcwd(c.count)
    [] c.op = "uname" -> << >>
    [] OTHER -> sys_clock_gettime(c.fd, c.buf, c.op = "clock_getres")

StructCalls == {"fstat", "getcwd", "uname", "clock_gettime", "clock_getres"}

\* For the clocks the first argument is the clock's number.
CopyOut ==
  /\ call.pc \in StructCalls
  /\ LET early == Early(call)
         value == IF call.op = "fstat" THEN fill_stat(open_files[call.fd]) ELSE Filled(call.op)
     IN  IF early # << >> THEN Return(early[1]) /\ UNCHANGED user
         ELSE /\ Put(call.buf, value)
              /\ Return(IF ~copy_user(call.buf, Len(value), TRUE) THEN ERR_FAULT
                        ELSE IF call.op = "getcwd" THEN STRUCT ELSE 0)
  /\ UNCHANGED << perm, printed, fileState >>

-----------------------------------------------------------------------------
\* syscall_dispatch: what user code may ask for next.
Dispatch ==
  \/ \E fd \in FdArg \ {0}, buf \in Buffers, count \in Counts : Enter("read", fd, buf, count)
  \/ \E fd \in FdArg, buf \in Buffers, count \in Counts : Enter("write", fd, buf, count)
  \/ \E fd \in FdArg, buf \in Buffers, count \in Counts : Enter("getdents64", fd, buf, count)
  \/ \E op \in StructCalls, fd \in {1, 3, 4}, buf \in Buffers, count \in {STRUCT - 1, STRUCT} :
       Enter(op, fd, buf, count)
  \/ \E fd \in FdArg \ {0}, v \in IoVectors : sys_vector_io("readv", fd, v.iov, v.iovs)
  \/ \E fd \in FdArg, v \in IoVectors : sys_vector_io("writev", fd, v.iov, v.iovs)
  \/ \E fd \in SeekArg, off \in Offsets, whence \in 0 .. 3 : Enter("lseek", fd, off, whence)
  \/ \E mask \in Masks : sys_umask(mask)

Next ==
  \/ Dispatch
  \/ UserRuns
  \/ sys_rw
  \/ ReadChunk
  \/ WriteChunk
  \/ NextIovec
  \/ sys_lseek
  \/ sys_getdents64
  \/ NextDirent
  \/ CopyOut

Spec == Init /\ [][Next]_vars

-----------------------------------------------------------------------------
(* Properties of a call that has returned.                                 *)

Returned(ops) == call.pc = "returned" /\ call.op \in ops

\* A sequence of sequences as one, and the first i of them.
JoinedTo(seqs) ==
  LET upTo[i \in 0 .. Len(seqs)] == IF i = 0 THEN << >> ELSE upTo[i - 1] \o seqs[i]
  IN  upTo
Joined(seqs) == JoinedTo(seqs)[Len(seqs)]

\* The addresses a transfer names, in order.
Span(base, length) == [k \in 1 .. length |-> base + k - 1]
Spans(iovs) == [i \in DOMAIN iovs |-> Span(iovs[i].base, iovs[i].length)]
Named ==
  IF call.iovs = << >> /\ call.op \in {"read", "write"} THEN Span(call.buf, call.count)
  ELSE Joined(Spans(call.iovs))

Moved == IF call.result < 0 THEN 0 ELSE call.result

\* The next chunk after the bytes moved meets an address that cannot be used.
FaultAhead(to_user) ==
  \E k \in Moved + 1 .. Least(Len(Named), Moved + CHUNK) : ~translate_user(Named[k], to_user)

\* A vector may also stop at an element it cannot fetch or that is too long.
VectorStops ==
  call.iovs # << >> /\ \/ Len(call.iovs) > MAX_IOVEC_COUNT
                       \/ Len(Named) > MAX_IO_SIZE
                       \/ \E a \in call.iov .. call.iov + Len(call.iovs) * IOVEC - 1 : ~translate_user(a, FALSE)

\* sys_read and sys_vector_io: the bytes counted are the file's, in order, at the
\* addresses named, and nothing else changes, least of all a page that user code
\* may not write.  The offset has moved by the count,
\* except that a fault may leave it up to one chunk ahead.  A call that succeeds
\* comes short only at the end of the file, at a fault or where the vector stops.
ReadExact ==
  Returned({"read", "readv"}) /\ call.fd \in DOMAIN open_files =>
    LET f == open_files[call.fd]
        Ahead == offset[f] - call.from - Moved
    IN  /\ \A k \in 1 .. Moved : user[Named[k]] = Regular[call.from + k]
        /\ \A a \in Address : user[a] # Fresh(a) =>
             /\ translate_user(a, TRUE)
             /\ \E k \in 1 .. Moved + Ahead : Named[k] = a /\ user[a] = Regular[call.from + k]
        /\ Ahead \in 0 .. CHUNK
        /\ Ahead > 0 => FaultAhead(TRUE)
        /\ call.result >= 0 /\ Moved < Len(Named) =>
             offset[f] >= inode_size(f) \/ FaultAhead(TRUE) \/ VectorStops

\* sys_write and sys_vector_io: the console has received exactly the bytes the
\* call counts, in order, whole unless memory cannot be read or the vector stops;
\* no write moves an offset or touches user memory.
WriteExact ==
  Returned({"write", "writev"}) =>
    /\ printed = [k \in 1 .. Moved |-> Fresh(Named[k])]
    /\ call.result >= 0 /\ Moved < Len(Named) => FaultAhead(FALSE) \/ VectorStops
    /\ \A a \in Address : user[a] = Fresh(a)
    /\ call.fd \in DOMAIN open_files => offset[open_files[call.fd]] = call.from

\* sys_lseek: the new offset is base plus argument exactly when that is a
\* representable offset that is not negative; otherwise nothing moves.
SeekExact ==
  Returned({"lseek"}) /\ call.fd \in DOMAIN open_files =>
    LET f == open_files[call.fd]
        base == CASE call.count = 0 -> 0 [] call.count = 1 -> call.from
                  [] call.count = 2 -> inode_size(f) [] OTHER -> -1
    IN  IF base >= 0 /\ base + call.buf \in 0 .. INT_MAX
        THEN offset[f] = base + call.buf /\ call.result = base + call.buf
        ELSE offset[f] = call.from /\ call.result \in {ERR_RANGE, ERR_INVAL}

\* sys_getdents64 over ramfs_readdir: the records delivered are those of the
\* children between the old offset and the new one, so that calls in a row give
\* each child once, whatever was read ahead and then did not fit or faulted.  A
\* call with room returns nothing only at the end of the directory.
DirentsOnce ==
  Returned({"getdents64"}) /\ call.fd = 4 =>
    LET old == Least(call.from, Len(Children))
        records == Joined([k \in 1 .. offset["dir"] - old |-> Dirent(old + k)])
    IN  /\ offset["dir"] # call.from => offset["dir"] >= old
        /\ call.result > 0 => /\ call.result = Len(records)
                              /\ \A k \in DOMAIN records : user[call.buf + k - 1] = records[k]
        /\ call.result = 0 /\ call.count > 0 => offset["dir"] = Len(Children)
        /\ call.result < 0 => offset["dir"] = call.from
        /\ \A a \in Address \ call.buf .. call.buf + call.count - 1 : user[a] = Fresh(a)

\* sys_fstat, sys_getcwd, sys_uname and sys_clock_gettime: a call that succeeds has
\* copied the whole structure, a later one fstat's mode under the mask umask set
\* last; a call that fails has touched nothing outside it.
StructWhole ==
  Returned(StructCalls) /\ Early(call) = << >> =>
    LET mode == IF call.fd = 4 THEN SumSet({1, 2, 4} \ file_creation_mask)
                ELSE SumSet({2, 4} \ file_creation_mask)
        size == IF call.op = "fstat" THEN 4 ELSE STRUCT
        value == IF call.op = "fstat" THEN fill_stat(open_files[call.fd]) ELSE Filled(call.op)
    IN  /\ call.result >= 0 =>
             /\ \A k \in 1 .. size : /\ translate_user(call.buf + k - 1, TRUE)
                                     /\ user[call.buf + k - 1] = value[k]
             /\ call.op = "fstat" => user[call.buf + 1] = mode
        /\ \A a \in Address \ call.buf .. call.buf + size - 1 : user[a] = Fresh(a)

=============================================================================
