----------------------------- MODULE FileHandle -----------------------------
(***************************************************************************)
(* Objects with the interface IFile: File objects on one path              *)
(* (src/Posix/FilePosix.cpp, src/Win32/FileWin32.cpp, src/File.cpp), each  *)
(* used by a thread of its own and made of several system calls, or        *)
(* StringFile objects (src/StringFile.cpp).  A file outlives its path as   *)
(* long as an object has it open.  What one read(), write() or ftruncate() *)
(* of the system does to a file is what ByteFile says of one operation;    *)
(* StringFile does its own arithmetic.  Moving the position back does not  *)
(* fail.                                                                   *)
(***************************************************************************)
EXTENDS Naturals, Sequences, Functions

CONSTANTS
  Objects,  \* the objects
  Files,    \* bound: the files there can be
  NoFile,   \* no file
  Bytes,    \* the bytes, among them 0
  MaxSize,  \* bound: the size of a file, and a position
  Space     \* bound: the size of all files together

VARIABLES
  kind,     \* "posix", "win32" or "memory"; "none": there are no objects
  there,    \* the file at the path
  content,  \* content[f]: its bytes
  object,   \* object[o]: its file, position and access
  method,   \* method[o]: between which system calls of which method it is
  got       \* what the last call returned

handleVars == <<kind, there, content, object, method, got>>

-----------------------------------------------------------------------------
Closed == [file |-> NoFile, position |-> 0, write |-> FALSE]
Opened(f, write) == [file |-> f, position |-> 0, write |-> write]

Idle == [at |-> "idle", saved |-> 0]

Unused == {f \in Files : f # there /\ \A o \in Objects : object[o].file # f}

File == INSTANCE ByteFile WITH
  medium <- IF kind = "memory" THEN "memory" ELSE "disk",
  file <- [o \in Objects |-> object[o].file],
  position <- [o \in Objects |->
    IF method[o].at = "idle" THEN object[o].position ELSE method[o].saved]

ObjectsInit ==
  /\ kind \in {"posix", "win32", "memory"}
  /\ there = NoFile
  /\ content = [f \in Files |-> << >>]
  /\ \E first \in Objects, f \in Files :
       object = [o \in Objects |->
                   IF kind = "memory" /\ o = first THEN Opened(f, TRUE)
                   ELSE Closed]
  /\ method = [o \in Objects |-> Idle]
  /\ got = File!Done("none")

(* No objects at all.                                                       *)
NoObjects ==
  /\ kind = "none" /\ there = NoFile
  /\ content = [f \in Files |-> << >>]
  /\ object = [o \in Objects |-> Closed]
  /\ method = [o \in Objects |-> Idle]
  /\ got = File!Done("none")

OnDisk == kind \in {"posix", "win32"}
Free(o) == method[o].at = "idle"
Usable(o) == Free(o) /\ object[o].file # NoFile
Bytesof(o) == content[object[o].file]

Returned(op, bytes, size) == got' = File!Result(op, bytes, size)
HasDone(op) == got' = File!Done(op)
HasFailed == OnDisk /\ got' = File!Done("failed")

MovedTo(o, p) == object' = [object EXCEPT ![o].position = p]

Fits(new) == FoldFunction(LAMBDA c, sum : Len(c) + sum, 0, new) <= Space

Changed(o, bytes) ==
  /\ content' = [content EXCEPT ![object[o].file] = bytes]
  /\ Fits(content')

-----------------------------------------------------------------------------
(* The arithmetic and the loops of StringFile.                              *)

Smaller(m, n) == IF m < n THEN m ELSE n
Larger(m, n) == IF m > n THEN m ELSE n

AmountCopied(c, p, n) == Smaller(n, Len(c) - Smaller(Len(c), p))

(* The loop of Peek and Read.                                               *)
CopiedOut(c, p, amount) == [i \in 1 .. amount |-> c[p + i]]

(* deque::resize().                                                         *)
Resize(c, n) == IF n < Len(c) THEN SubSeq(c, 1, n)
                ELSE c \o [i \in 1 .. n - Len(c) |-> 0]

(* Faulty variant: the gap before the bytes is forgotten.                   *)
GrownByLength(c, p, n) == IF n > Len(c) THEN Resize(c, p + n) ELSE c

Grown(c, p, n) == IF p + n > Len(c) THEN Resize(c, p + n) ELSE c

(* The loop of Write.                                                       *)
CopiedIn(c, p, data) ==
  [i \in 1 .. Len(c) |-> IF i > p /\ i <= p + Len(data) THEN data[i - p] ELSE c[i]]

(* deque::erase(), from the beginning.                                      *)
Erased(c, n) == SubSeq(c, n + 1, Len(c))

-----------------------------------------------------------------------------
(* Opening and closing.  Whatever is opened may fail to be, on Windows also *)
(* because of how other objects share the file.                             *)

(* A file without a path is gone when the last object that had it open is   *)
(* done with it.                                                            *)
Becomes(o, state, path, op) ==
  /\ object' = [object EXCEPT ![o] = state]
  /\ there' = path
  /\ content' = [f \in Files |->
       IF f \in {path, state.file} \cup {object[q].file : q \in Objects \ {o}}
       THEN content[f] ELSE << >>]
  /\ HasDone(op)
  /\ UNCHANGED <<kind, method>>

(* open() or CreateFile(), without and with creating the file.              *)
OpensExisting(o, op) ==
  \/ there # NoFile /\ Becomes(o, Opened(there, FALSE), there, op)
  \/ Becomes(o, Closed, there, "failed")

OpensOrCreates(o, op) ==
  \/ there # NoFile /\ Becomes(o, Opened(there, TRUE), there, op)
  \/ there = NoFile /\ \E f \in Unused : Becomes(o, Opened(f, TRUE), f, op)
  \/ Becomes(o, Closed, there, "failed")

OpenReadOnly(o) == OnDisk /\ Free(o) /\ OpensExisting(o, "OpenReadOnly")

OpenReadWrite(o) == OnDisk /\ Free(o) /\ OpensOrCreates(o, "OpenReadWrite")

Close(o) == OnDisk /\ Usable(o) /\ Becomes(o, Closed, there, "Close")

(* Close() and remove() or DeleteFile(), which may fail.                    *)
Destroy(o) ==
  /\ OnDisk /\ Free(o)
  /\ \E path \in {there, NoFile} : Becomes(o, Closed, path, "Destroy")

(* o becomes the clone of q: File opens the path again, with its own        *)
(* position; StringFile copies the bytes along with the position.           *)
Clone(q, o) ==
  /\ Free(o) /\ object[o] = Closed
  /\ Usable(q)
  /\ \/ OnDisk /\ object[q].write /\ OpensOrCreates(o, "Clone")
     \/ OnDisk /\ ~object[q].write /\ OpensExisting(o, "Clone")
     \/ /\ kind = "memory"
        /\ \E f \in Unused :
             /\ content' = [content EXCEPT ![f] = Bytesof(q)]
             /\ Fits(content')
             /\ object' = [object EXCEPT ![o] = [object[q] EXCEPT !.file = f]]
        /\ HasDone("Clone")
        /\ UNCHANGED <<kind, there, method>>

-----------------------------------------------------------------------------
(* Reading and writing: File by one system call, which may fail; StringFile *)
(* by its loops.                                                            *)

SetPosition(o) ==
  /\ Usable(o)
  /\ \E p \in 0 .. MaxSize : MovedTo(o, p)
  /\ HasDone("SetPosition")
  /\ UNCHANGED <<kind, there, content, method>>

(* What Peek and Read get, in either kind.                                  *)
BytesRead(o, n) ==
  LET c == Bytesof(o)
      p == object[o].position
  IN  IF OnDisk THEN File!Region(c, p, n)
      ELSE CopiedOut(c, p, AmountCopied(c, p, n))

Read(o) ==
  /\ Usable(o)
  /\ \E n \in 1 .. MaxSize :
       LET bytes == BytesRead(o, n)
       IN  \/ /\ Returned("Read", bytes, Len(bytes))
              /\ MovedTo(o, object[o].position + Len(bytes))
           \/ HasFailed /\ UNCHANGED object
  /\ UNCHANGED <<kind, there, content, method>>

(* The bytes after all of the buffer, or a part of it, is written.          *)
BytesWritten(o, data) ==
  LET c == Bytesof(o)
      p == object[o].position
  IN  IF OnDisk THEN File!Overwritten(c, p, data)
      ELSE CopiedIn(Grown(c, p, Len(data)), p, data)

Write(o) ==
  /\ Usable(o)
  /\ \E data \in File!Data :
       /\ object[o].position + Len(data) <= MaxSize
       /\ \/ /\ object[o].write
             /\ Changed(o, BytesWritten(o, data))
             /\ MovedTo(o, object[o].position + Len(data))
             /\ Returned("Write", << >>, Len(data))
          \/ HasFailed /\ UNCHANGED <<content, object>>
  /\ UNCHANGED <<kind, there, method>>

(* StringFile::Remove().                                                    *)
Remove(o) ==
  /\ kind = "memory" /\ Usable(o)
  /\ \E n \in 1 .. MaxSize :
       /\ Changed(o, Erased(Bytesof(o), Smaller(n, Len(Bytesof(o)))))
       /\ MovedTo(o, Larger(n, object[o].position) - n)
  /\ HasDone("Remove")
  /\ UNCHANGED <<kind, there, method>>

-----------------------------------------------------------------------------
(* The methods that move the position and restore it: Peek, on POSIX        *)
(* GetSize, on Windows SetSize.  StringFile moves nothing.                  *)

Moving(o, at, p) ==
  /\ MovedTo(o, p)
  /\ method' = [method EXCEPT ![o] = [at |-> at, saved |-> object[o].position]]
  /\ UNCHANGED <<kind, there, content>>

Peek(o) ==
  /\ Usable(o)
  /\ \E n \in 1 .. MaxSize :
       LET bytes == BytesRead(o, n)
       IN  \/ /\ Returned("Peek", bytes, Len(bytes))
              /\ IF OnDisk THEN Moving(o, "restore", object[o].position + Len(bytes))
                           ELSE UNCHANGED <<object, method>>
           \/ HasFailed /\ UNCHANGED <<object, method>>
  /\ UNCHANGED <<kind, there, content>>

(* On POSIX any lseek() but the last may fail, also the one that asks where *)
(* the end is.                                                              *)
GetSize(o) ==
  /\ Usable(o)
  /\ \/ Returned("GetSize", << >>, Len(Bytesof(o)))
     \/ HasFailed
  /\ \/ kind = "posix" /\ Moving(o, "restore", Len(Bytesof(o)))
     \/ /\ kind # "posix" \/ HasFailed
        /\ UNCHANGED <<object, method>>
  /\ UNCHANGED <<kind, there, content>>

(* What is done at once, on POSIX and in memory.                            *)
SetSize(o) ==
  /\ kind # "win32" /\ Usable(o)
  /\ \E n \in 0 .. MaxSize :
       \/ /\ object[o].write
          /\ Changed(o, IF OnDisk THEN File!Resized(Bytesof(o), n)
                        ELSE Resize(Bytesof(o), n))
          /\ HasDone("SetSize")
       \/ HasFailed /\ UNCHANGED content
  /\ UNCHANGED <<kind, there, object, method>>

SetSizeMoves(o) ==
  /\ kind = "win32" /\ Usable(o)
  /\ \E n \in 0 .. MaxSize : Moving(o, "resize", n)
  /\ UNCHANGED got

(* SetEndOfFile() cuts or extends the file at the position.                 *)
SetEndOfFile(o) ==
  /\ method[o].at = "resize"
  /\ \/ /\ object[o].write
        /\ Changed(o, File!Resized(Bytesof(o), object[o].position))
        /\ HasDone("SetSize")
     \/ HasFailed /\ UNCHANGED content
  /\ method' = [method EXCEPT ![o].at = "restore"]
  /\ UNCHANGED <<kind, there, object>>

Before(o) == method[o].saved

Restore(o) ==
  /\ method[o].at = "restore"
  /\ MovedTo(o, Before(o))
  /\ method' = [method EXCEPT ![o] = Idle]
  /\ UNCHANGED <<kind, there, content, got>>

-----------------------------------------------------------------------------
Step(o) ==
  \/ OpenReadOnly(o) \/ OpenReadWrite(o) \/ Close(o) \/ Destroy(o)
  \/ \E q \in Objects \ {o} : Clone(q, o)
  \/ SetPosition(o) \/ Read(o) \/ Write(o) \/ Remove(o) \/ Peek(o) \/ GetSize(o)
  \/ SetSize(o) \/ SetSizeMoves(o) \/ SetEndOfFile(o) \/ Restore(o)

ObjectsNext == \E o \in Objects : Step(o)

(* Objects that share a file, each between any two of its system calls, are *)
(* nothing but positions in arrays of bytes, and every method is a single   *)
(* step that does and returns what ByteFile says of the operation of its    *)
(* name: what is read is what was last written there, or zeros, whoever     *)
(* wrote it; nothing is left of a file that is created again; a position    *)
(* changes by its own object only; Peek, GetSize and SetSize leave it where *)
(* it was; a call that fails has done nothing.  StringFile's loops and      *)
(* comparisons come to the same, at and past the end of the bytes too.      *)
(* Exceptions to what IFile.hpp says of a clone: one made after the path    *)
(* was removed, and that of a StringFile, which is a copy.                  *)
ImplementsByteFile == File!Spec
=============================================================================
