------------------------------ MODULE ByteFile ------------------------------
(***************************************************************************)
(* What include/SystemAbstractions/IFile.hpp promises: each object has a   *)
(* mutable array of bytes and a movable position in it of its own.  Every  *)
(* operation is a single step, and says which one it was.  On disk the     *)
(* arrays are those that one path leads to, or led to, and objects share   *)
(* them; in memory every object has its own.                               *)
(***************************************************************************)
EXTENDS Naturals, Sequences

CONSTANTS
  Objects,  \* the objects
  Files,    \* the arrays of bytes
  NoFile,   \* no array
  Bytes,    \* the bytes, among them 0
  MaxSize   \* bound: the size of an array, and a position

VARIABLES
  medium,    \* "disk" or "memory"
  there,     \* on disk, the array at the path
  content,   \* content[f]: an array of bytes
  file,      \* file[o]: the array of o
  position,  \* position[o]: where o is in it
  got        \* what the last operation was and returned

vars == <<medium, there, content, file, position, got>>

Positions == 0 .. MaxSize

ByteAt(c, i) == IF i <= Len(c) THEN c[i] ELSE 0

(* The bytes from p on, n at most.                                          *)
Region(c, p, n) ==
  IF p + n <= Len(c) THEN SubSeq(c, p + 1, p + n) ELSE SubSeq(c, p + 1, Len(c))

(* Cut, or filled up with zeros.                                            *)
Resized(c, n) == [i \in 1 .. n |-> ByteAt(c, i)]

(* Written over from p on, with zeros before where there was nothing.       *)
Overwritten(c, p, data) ==
  [i \in 1 .. (IF p + Len(data) > Len(c) THEN p + Len(data) ELSE Len(c)) |->
     IF i \in p + 1 .. p + Len(data) THEN data[i - p] ELSE ByteAt(c, i)]

Result(op, bytes, size) == [op |-> op, bytes |-> bytes, size |-> size]
Done(op) == Result(op, << >>, 0)
Data == UNION {[1 .. n -> Bytes \ {0}] : n \in 1 .. MaxSize}

Has(o) == file[o] # NoFile

(* An array nobody has, and no path leads to.                               *)
Fresh(f) == f # there /\ content[f] = << >> /\ \A o \in Objects : file[o] # f

Init ==
  /\ medium \in {"disk", "memory"}
  /\ there = NoFile
  /\ content = [f \in Files |-> << >>]
  /\ file \in [Objects -> Files \cup {NoFile}]
  /\ \A o, q \in Objects : Has(o) /\ file[q] = file[o] => q = o
  /\ position = [o \in Objects |-> 0]
  /\ got = Done("none")

-----------------------------------------------------------------------------
(* An object gets an array, at its start, or loses the one it has.  Every   *)
(* array that the path leads to or an object has stays as it is.            *)
Gets(o, f, path, op) ==
  /\ medium = "disk" /\ got' = Done(op)
  /\ there' = path
  /\ file' = [file EXCEPT ![o] = f]
  /\ position' = [position EXCEPT ![o] = 0]
  /\ content' = [g \in Files |-> IF g = path \/ \E q \in Objects : file'[q] = g
                                 THEN content[g] ELSE << >>]
  /\ UNCHANGED medium

(* What the path leads to, or a new, empty array that it now leads to.      *)
AtPath(f) == f = there \/ (there = NoFile /\ Fresh(f))

OpenReadOnly(o) == there # NoFile /\ Gets(o, there, there, "OpenReadOnly")
OpenReadWrite(o) == \E f \in Files : AtPath(f) /\ Gets(o, f, f, "OpenReadWrite")
OpenFails(o) == Gets(o, NoFile, there, "failed")
Close(o) == Has(o) /\ Gets(o, NoFile, there, "Close")
Destroy(o) == \E path \in {there, NoFile} : Gets(o, NoFile, path, "Destroy")

(* On disk the clone has the same array, at its start, ...                  *)
CloneShares(q, o) ==
  /\ Has(q) /\ ~Has(o)
  /\ file[q] = there /\ Gets(o, there, there, "Clone")

(* ... unless the path of q no longer leads to the array of q: then it is   *)
(* opened again, which IFile.hpp does not say.                              *)
CloneReopens(q, o) ==
  /\ Has(q) /\ ~Has(o)
  /\ file[q] # there
  /\ \E f \in Files : AtPath(f) /\ Gets(o, f, f, "Clone")

(* In memory it has a copy, and the position with it: not what IFile.hpp    *)
(* says, but what the tests of StringFile do.                               *)
CloneCopies(q, o) ==
  /\ medium = "memory" /\ Has(q) /\ ~Has(o) /\ got' = Done("Clone")
  /\ \E f \in Files :
       /\ Fresh(f)
       /\ content' = [content EXCEPT ![f] = content[file[q]]]
       /\ file' = [file EXCEPT ![o] = f]
  /\ position' = [position EXCEPT ![o] = position[q]]
  /\ UNCHANGED <<medium, there>>

-----------------------------------------------------------------------------
Read(o) ==
  /\ Has(o)
  /\ \E n \in Positions :
       LET bytes == Region(content[file[o]], position[o], n)
       IN  /\ got' = Result("Read", bytes, Len(bytes))
           /\ position' = [position EXCEPT ![o] = @ + Len(bytes)]
  /\ UNCHANGED <<medium, there, content, file>>

Peek(o) ==
  /\ Has(o)
  /\ \E n \in Positions :
       LET bytes == Region(content[file[o]], position[o], n)
       IN  got' = Result("Peek", bytes, Len(bytes))
  /\ UNCHANGED <<medium, there, content, file, position>>

Write(o) ==
  /\ Has(o)
  /\ \E data \in Data :
       /\ got' = Result("Write", << >>, Len(data))
       /\ content' = [content EXCEPT ![file[o]] = Overwritten(@, position[o], data)]
       /\ position' = [position EXCEPT ![o] = @ + Len(data)]
  /\ UNCHANGED <<medium, there, file>>

GetSize(o) ==
  /\ Has(o)
  /\ got' = Result("GetSize", << >>, Len(content[file[o]]))
  /\ UNCHANGED <<medium, there, content, file, position>>

SetSize(o) ==
  /\ Has(o) /\ got' = Done("SetSize")
  /\ \E n \in Positions :
       content' = [content EXCEPT ![file[o]] = Resized(@, n)]
  /\ UNCHANGED <<medium, there, file, position>>

SetPosition(o) ==
  /\ Has(o) /\ got' = Done("SetPosition")
  /\ \E p \in Positions : position' = [position EXCEPT ![o] = p]
  /\ UNCHANGED <<medium, there, content, file>>

(* StringFile::Remove: the first bytes go, the position stays at its byte,  *)
(* or at the first one if its byte is gone.                                 *)
Remove(o) ==
  /\ medium = "memory" /\ Has(o) /\ got' = Done("Remove")
  /\ \E n \in Positions :
       /\ content' = [content EXCEPT ![file[o]] = SubSeq(@, n + 1, Len(@))]
       /\ position' = [position EXCEPT ![o] = IF @ < n THEN 0 ELSE @ - n]
  /\ UNCHANGED <<medium, there, file>>

(* On disk a call may fail: it says so, and has done nothing.               *)
Failed ==
  /\ medium = "disk" /\ got' = Done("failed")
  /\ UNCHANGED <<medium, there, content, file, position>>

Next ==
  \/ \E o \in Objects :
       \/ OpenReadOnly(o) \/ OpenReadWrite(o) \/ OpenFails(o) \/ Close(o) \/ Destroy(o)
       \/ \E q \in Objects : CloneShares(q, o) \/ CloneReopens(q, o) \/ CloneCopies(q, o)
       \/ Read(o) \/ Peek(o) \/ Write(o)
       \/ GetSize(o) \/ SetSize(o) \/ SetPosition(o) \/ Remove(o)
  \/ Failed

Spec == Init /\ [][Next]_vars
=============================================================================
