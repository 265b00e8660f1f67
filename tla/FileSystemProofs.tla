--------------------------- MODULE FileSystemProofs ---------------------------
(***************************************************************************)
(* What holds of FileSystem for any objects, files, bytes and sizes, and   *)
(* for any paths, trees, calls, failures and directories made by others.   *)
(*                                                                         *)
(* FileHandle implements ByteFile, whichever of its system calls come      *)
(* between the others'.  First StringFile's loops and comparisons are      *)
(* shown to come to ByteFile's operators; then the step for each method    *)
(* says which operation of ByteFile it is.  A call that only moves the     *)
(* position for a moment changes nothing.  That a file is empty when it is *)
(* created again rests on Owned: nothing is left in a file that no path    *)
(* leads to and no object has.                                             *)
(*                                                                         *)
(* FileTree changes its own directory only.  TreeInv says of every frame   *)
(* where it may work.  When the links in the new directory led to files,   *)
(* those a copy is not done with are the ones from before the call, so     *)
(* that what is written through a link goes where the tree at the start    *)
(* says: two frames never copy to the same place.  When one led to a       *)
(* directory or to nothing, what is written is in reach of the links there *)
(* are at the time, and that only grows, since a copy writes only where    *)
(* there was nothing or a file (Keeping).  Proceeding gives one rule for   *)
(* all steps: the first frame gives way to others that have less to do.    *)
(*                                                                         *)
(* And true means done.  For making and deleting, Answered says so of the  *)
(* last frame.  For copying, CopyInv says of each entry that it is in its  *)
(* new place or that a frame has still to copy it; Progressing gives the   *)
(* rule.  That is so only where nothing is copied over its own source or   *)
(* through a link: Plain.                                                  *)
(***************************************************************************)
EXTENDS FileSystem, SequenceTheorems, TLAPS

Positions == 0 .. MaxSize

ObjectStates == [file : Files \cup {NoFile}, position : Positions, write : BOOLEAN]
MethodStates == [at : {"idle", "resize", "restore"}, saved : Positions]

(* An array of bytes that fits.                                             *)
Arrays == {c \in Seq(Bytes) : Len(c) <= MaxSize}

HandleTypes ==
  /\ there \in Files \cup {NoFile}
  /\ content \in [Files -> Arrays]
  /\ object \in [Objects -> ObjectStates]
  /\ method \in [Objects -> MethodStates]

(* A method on its way has the file it began with.                          *)
Holds == \A o \in Objects : method[o].at # "idle" => object[o].file # NoFile

(* What is not empty can be reached.                                        *)
Owned ==
  \A f \in Files :
    content[f] = << >> \/ f = there \/ \E o \in Objects : object[o].file = f

HandleInv == HandleTypes /\ Holds /\ Owned

(* What ByteFile sees of the objects.                                       *)
MediumOf == IF kind = "memory" THEN "memory" ELSE "disk"
FileOf == [o \in Objects |-> object[o].file]
PositionOf ==
  [o \in Objects |->
     IF method[o].at = "idle" THEN object[o].position ELSE method[o].saved]

-----------------------------------------------------------------------------
(* Arrays of bytes.                                                         *)

(* An array is no longer than what fits.                                    *)
LEMMA ArrayFacts ==
  ASSUME NEW c \in Arrays
  PROVE  /\ MaxSize \in Nat /\ 0 \in Bytes
         /\ c \in Seq(Bytes) /\ Len(c) \in Nat /\ Len(c) <= MaxSize
         /\ \A i \in 1 .. Len(c) : c[i] \in Bytes
<1>1. MaxSize \in Nat /\ 0 \in Bytes /\ c \in Seq(Bytes) /\ Len(c) <= MaxSize
  BY FileSystemAssumption DEF Arrays
<1>. QED BY <1>1, ElementOfSeq

(* A part of an array, from some byte to a later one.                       *)
LEMMA Part ==
  ASSUME NEW c \in Arrays, NEW m \in Nat, NEW n \in Nat, n <= Len(c)
  PROVE  /\ SubSeq(c, m + 1, n) \in Seq(Bytes)
         /\ Len(SubSeq(c, m + 1, n)) = IF m < n THEN n - m ELSE 0
         /\ \A i \in 1 .. n - m : SubSeq(c, m + 1, n)[i] = c[m + i]
<1>1. \A i \in m + 1 .. n : c[i] \in Bytes
  BY ArrayFacts
<1>2. /\ SubSeq(c, m + 1, n) \in Seq(Bytes)
      /\ Len(SubSeq(c, m + 1, n)) = IF m + 1 <= n THEN n - (m + 1) + 1 ELSE 0
      /\ \A i \in 1 .. n - (m + 1) + 1 : SubSeq(c, m + 1, n)[i] = c[m + 1 + i - 1]
  BY <1>1, SubSeqProperties
<1>3. n - (m + 1) + 1 = n - m /\ (m + 1 <= n <=> m < n)
  OBVIOUS
<1>4. \A i \in 1 .. n - m : m + 1 + i - 1 = m + i
  OBVIOUS
<1>. QED BY <1>2, <1>3, <1>4

(* What is read is bytes, and no more than there are.                       *)
LEMMA RegionType ==
  ASSUME NEW c \in Arrays, NEW p \in Positions, NEW n \in Positions
  PROVE  /\ File!Region(c, p, n) \in Seq(Bytes)
         /\ Len(File!Region(c, p, n)) =
              IF p + n <= Len(c) THEN n ELSE IF p < Len(c) THEN Len(c) - p ELSE 0
         /\ p + Len(File!Region(c, p, n)) \in Positions
<1>1. /\ MaxSize \in Nat /\ Len(c) \in Nat /\ Len(c) <= MaxSize
      /\ p \in Nat /\ n \in Nat /\ p <= MaxSize
  BY ArrayFacts DEF Positions
<1>2. CASE p + n <= Len(c)
  <2>1. /\ SubSeq(c, p + 1, p + n) \in Seq(Bytes)
        /\ Len(SubSeq(c, p + 1, p + n)) = IF p < p + n THEN p + n - p ELSE 0
    <3>1. p + n \in Nat
      BY <1>1
    <3>. QED BY <1>1, <1>2, <3>1, Part
  <2>2. Len(SubSeq(c, p + 1, p + n)) = n
    BY <1>1, <2>1
  <2>3. File!Region(c, p, n) = SubSeq(c, p + 1, p + n)
    BY <1>2 DEF File!Region
  <2>4. p + n \in Positions
    BY <1>1, <1>2 DEF Positions
  <2>. QED BY <1>2, <2>1, <2>2, <2>3, <2>4
<1>3. CASE ~(p + n <= Len(c))
  <2>1. /\ SubSeq(c, p + 1, Len(c)) \in Seq(Bytes)
        /\ Len(SubSeq(c, p + 1, Len(c))) = IF p < Len(c) THEN Len(c) - p ELSE 0
    BY <1>1, Part
  <2>2. File!Region(c, p, n) = SubSeq(c, p + 1, Len(c))
    BY <1>3 DEF File!Region
  <2>3. p + (IF p < Len(c) THEN Len(c) - p ELSE 0) \in Positions
    BY <1>1 DEF Positions
  <2>. QED BY <1>3, <2>1, <2>2, <2>3
<1>. QED BY <1>2, <1>3

(* StringFile reads the same.                                               *)
LEMMA ReadsRegion ==
  ASSUME NEW c \in Arrays, NEW p \in Positions, NEW n \in Positions
  PROVE  CopiedOut(c, p, AmountCopied(c, p, n)) = File!Region(c, p, n)
<1>. DEFINE a == AmountCopied(c, p, n)
<1>1. /\ Len(c) \in Nat /\ p \in Nat /\ n \in Nat
      /\ \A i \in 1 .. Len(c) : c[i] \in Bytes
  BY ArrayFacts DEF Positions
<1>2. a = IF p + n <= Len(c) THEN n ELSE IF p < Len(c) THEN Len(c) - p ELSE 0
  BY <1>1 DEF AmountCopied, Smaller
<1>3. a \in Nat /\ (a = 0 \/ p + a <= Len(c))
  BY <1>1, <1>2
<1>. HIDE DEF a
<1>4. \A i \in 1 .. a : c[p + i] \in Bytes
  BY <1>1, <1>3
<1>5. CopiedOut(c, p, a) \in [1 .. a -> Bytes]
  BY <1>4 DEF CopiedOut
<1>6. /\ CopiedOut(c, p, a) \in Seq(Bytes) /\ Len(CopiedOut(c, p, a)) = a
      /\ \A i \in 1 .. a : CopiedOut(c, p, a)[i] = c[p + i]
  BY <1>3, <1>5 DEF CopiedOut
<1>7. File!Region(c, p, n) \in Seq(Bytes) /\ Len(File!Region(c, p, n)) = a
  BY <1>2, RegionType
<1>8. \A i \in 1 .. a : File!Region(c, p, n)[i] = c[p + i]
  <2>1. CASE p + n <= Len(c)
    <3>1. \A i \in 1 .. p + n - p : SubSeq(c, p + 1, p + n)[i] = c[p + i]
      BY <1>1, <2>1, Part
    <3>. QED BY <1>1, <1>2, <2>1, <3>1 DEF File!Region
  <2>2. CASE ~(p + n <= Len(c))
    <3>1. \A i \in 1 .. Len(c) - p : SubSeq(c, p + 1, Len(c))[i] = c[p + i]
      BY <1>1, Part
    <3>. QED BY <1>1, <1>2, <2>2, <3>1 DEF File!Region
  <2>. QED BY <2>1, <2>2
<1>9. CopiedOut(c, p, a) = File!Region(c, p, n)
  BY <1>6, <1>7, <1>8, SeqEqual
<1>. QED BY <1>9 DEF a

(* Cutting and filling up.                                                  *)
LEMMA ResizedType ==
  ASSUME NEW c \in Arrays, NEW n \in Nat
  PROVE  /\ File!Resized(c, n) \in [1 .. n -> Bytes]
         /\ File!Resized(c, n) \in Seq(Bytes) /\ Len(File!Resized(c, n)) = n
         /\ \A i \in 1 .. n : File!Resized(c, n)[i] = File!ByteAt(c, i)
         /\ n <= MaxSize => File!Resized(c, n) \in Arrays
<1>1. \A i \in 1 .. n : File!ByteAt(c, i) \in Bytes
  BY ArrayFacts DEF File!ByteAt
<1>2. File!Resized(c, n) \in [1 .. n -> Bytes]
  BY <1>1 DEF File!Resized
<1>3. \A i \in 1 .. n : File!Resized(c, n)[i] = File!ByteAt(c, i)
  BY DEF File!Resized
<1>. QED BY <1>2, <1>3 DEF Arrays

(* So does StringFile.                                                      *)
LEMMA ResizesAlike ==
  ASSUME NEW c \in Arrays, NEW n \in Nat
  PROVE  Resize(c, n) = File!Resized(c, n)
<1>1. /\ c \in Seq(Bytes) /\ Len(c) \in Nat /\ 0 \in Bytes
      /\ File!Resized(c, n) \in Seq(Bytes) /\ Len(File!Resized(c, n)) = n
      /\ \A i \in 1 .. n : File!Resized(c, n)[i] = IF i <= Len(c) THEN c[i] ELSE 0
  BY ArrayFacts, ResizedType DEF File!ByteAt
<1>2. /\ Resize(c, n) \in Seq(Bytes) /\ Len(Resize(c, n)) = n
      /\ \A i \in 1 .. n : Resize(c, n)[i] = IF i <= Len(c) THEN c[i] ELSE 0
  <2>1. CASE n < Len(c)
    <3>1. /\ SubSeq(c, 0 + 1, n) \in Seq(Bytes)
          /\ Len(SubSeq(c, 0 + 1, n)) = IF 0 < n THEN n - 0 ELSE 0
          /\ \A i \in 1 .. n - 0 : SubSeq(c, 0 + 1, n)[i] = c[0 + i]
      BY <1>1, <2>1, Part
    <3>2. Resize(c, n) = SubSeq(c, 0 + 1, n)
      BY <2>1 DEF Resize
    <3>3. Len(Resize(c, n)) = n
      BY <3>1, <3>2
    <3>4. \A i \in 1 .. n : Resize(c, n)[i] = c[i]
      BY <3>1, <3>2
    <3>5. \A i \in 1 .. n : i <= Len(c)
      BY <1>1, <2>1
    <3>. QED BY <3>1, <3>2, <3>3, <3>4, <3>5
  <2>2. CASE ~(n < Len(c))
    <3>. DEFINE k == n - Len(c)
                z == [i \in 1 .. k |-> 0]
    <3>1. k \in Nat /\ Len(c) + k = n
      BY <1>1, <2>2
    <3>. HIDE DEF k
    <3>2. z \in [1 .. k -> Bytes]
      BY <1>1
    <3>3. z \in Seq(Bytes) /\ Len(z) = k /\ \A i \in 1 .. k : z[i] = 0
      BY <3>1, <3>2
    <3>4. Resize(c, n) = c \o z
      BY <2>2 DEF Resize, k
    <3>. HIDE DEF z
    <3>5. /\ c \o z \in Seq(Bytes)
          /\ Len(c \o z) = Len(c) + Len(z)
          /\ \A i \in 1 .. Len(c) + Len(z) :
               (c \o z)[i] = IF i <= Len(c) THEN c[i] ELSE z[i - Len(c)]
      BY <1>1, <3>3, ConcatProperties
    <3>6. \A i \in 1 .. n : ~(i <= Len(c)) => i - Len(c) \in 1 .. k
      BY <1>1, <3>1
    <3>. QED BY <1>1, <3>1, <3>3, <3>4, <3>5, <3>6
  <2>. QED BY <2>1, <2>2
<1>. QED BY <1>1, <1>2, SeqEqual

(* What is written is one byte or more.                                     *)
LEMMA DataType ==
  ASSUME NEW data \in File!Data
  PROVE  /\ data \in Seq(Bytes) /\ Len(data) \in Nat \ {0}
         /\ \A i \in 1 .. Len(data) : data[i] \in Bytes
<1>1. PICK k \in 1 .. MaxSize : data \in [1 .. k -> Bytes \ {0}]
  BY DEF File!Data
<1>2. MaxSize \in Nat /\ k \in Nat \ {0}
  BY FileSystemAssumption
<1>3. data \in Seq(Bytes) /\ Len(data) = k
  BY <1>1, <1>2
<1>. QED BY <1>2, <1>3, ElementOfSeq

(* Writing, where there is room for it.                                     *)
LEMMA OverwrittenType ==
  ASSUME NEW c \in Arrays, NEW p \in Positions, NEW data \in File!Data,
         p + Len(data) <= MaxSize
  PROVE  /\ File!Overwritten(c, p, data) \in Arrays
         /\ p + Len(data) \in Positions
<1>1. /\ MaxSize \in Nat /\ 0 \in Bytes /\ Len(c) \in Nat /\ Len(c) <= MaxSize
      /\ p \in Nat /\ Len(data) \in Nat
      /\ \A i \in 1 .. Len(c) : c[i] \in Bytes
      /\ \A i \in 1 .. Len(data) : data[i] \in Bytes
  BY ArrayFacts, DataType DEF Positions
<1>. DEFINE n == IF p + Len(data) > Len(c) THEN p + Len(data) ELSE Len(c)
<1>2. n \in Nat /\ n <= MaxSize
  BY <1>1
<1>. HIDE DEF n
<1>3. \A i \in 1 .. n : (IF i \in p + 1 .. p + Len(data) THEN data[i - p]
                         ELSE File!ByteAt(c, i)) \in Bytes
  BY <1>1, <1>2 DEF File!ByteAt
<1>4. File!Overwritten(c, p, data) \in [1 .. n -> Bytes]
  BY <1>3 DEF File!Overwritten, n
<1>. QED BY <1>1, <1>2, <1>4 DEF Arrays, Positions

(* StringFile makes room, and then writes the same.                         *)
LEMMA WritesAlike ==
  ASSUME NEW c \in Arrays, NEW p \in Positions, NEW data \in File!Data
  PROVE  CopiedIn(Grown(c, p, Len(data)), p, data) = File!Overwritten(c, p, data)
<1>. DEFINE k == Len(data)
            n == IF p + k > Len(c) THEN p + k ELSE Len(c)
            g == Grown(c, p, k)
<1>1. Len(c) \in Nat /\ p \in Nat /\ k \in Nat
  BY ArrayFacts, DataType DEF Positions
<1>2. n \in Nat
  BY <1>1
<1>3. Len(g) = n /\ \A i \in 1 .. n : g[i] = File!ByteAt(c, i)
  <2>1. CASE p + k > Len(c)
    <3>1. p + k \in Nat
      BY <1>1
    <3>2. g = File!Resized(c, p + k)
      BY <2>1, <3>1, ResizesAlike DEF Grown
    <3>3. n = p + k
      BY <2>1
    <3>. HIDE DEF g, n, k
    <3>. QED BY <3>1, <3>2, <3>3, ResizedType
  <2>2. CASE ~(p + k > Len(c))
    BY <1>1, <2>2 DEF Grown, File!ByteAt
  <2>. QED BY <2>1, <2>2
<1>. HIDE DEF g, n
<1>4. CopiedIn(g, p, data) =
        [i \in 1 .. n |-> IF i > p /\ i <= p + k THEN data[i - p] ELSE g[i]]
  BY <1>3 DEF CopiedIn
<1>5. File!Overwritten(c, p, data) =
        [i \in 1 .. n |-> IF i \in p + 1 .. p + k THEN data[i - p]
                          ELSE File!ByteAt(c, i)]
  BY DEF File!Overwritten, n
<1>. HIDE DEF k
<1>6. \A i \in 1 .. n : (i > p /\ i <= p + k) <=> i \in p + 1 .. p + k
  BY <1>1, <1>2
<1>7. \A i \in 1 .. n :
        (IF i > p /\ i <= p + k THEN data[i - p] ELSE g[i]) =
        (IF i \in p + 1 .. p + k THEN data[i - p] ELSE File!ByteAt(c, i))
  BY <1>3, <1>6
<1>8. CopiedIn(g, p, data) = File!Overwritten(c, p, data)
  BY <1>4, <1>5, <1>7
<1>. QED BY <1>8 DEF g, k

(* Removing the first bytes, as many as there are.                          *)
LEMMA ErasesAlike ==
  ASSUME NEW c \in Arrays, NEW n \in Nat
  PROVE  /\ Erased(c, Smaller(n, Len(c))) = SubSeq(c, n + 1, Len(c))
         /\ SubSeq(c, n + 1, Len(c)) \in Arrays
<1>1. Len(c) \in Nat /\ Len(c) <= MaxSize /\ MaxSize \in Nat
  BY ArrayFacts
<1>2. SubSeq(c, n + 1, Len(c)) \in Arrays
  <2>1. /\ SubSeq(c, n + 1, Len(c)) \in Seq(Bytes)
        /\ Len(SubSeq(c, n + 1, Len(c))) = IF n < Len(c) THEN Len(c) - n ELSE 0
    BY <1>1, Part
  <2>2. (IF n < Len(c) THEN Len(c) - n ELSE 0) <= MaxSize
    BY <1>1
  <2>. QED BY <2>1, <2>2 DEF Arrays
<1>3. CASE n < Len(c)
  BY <1>2, <1>3 DEF Erased, Smaller
<1>4. CASE ~(n < Len(c))
  <2>1. Erased(c, Smaller(n, Len(c))) = SubSeq(c, Len(c) + 1, Len(c))
    BY <1>4 DEF Erased, Smaller
  <2>2. SubSeq(c, Len(c) + 1, Len(c)) = << >>
    BY <1>1, SubSeqEmpty
  <2>3. SubSeq(c, n + 1, Len(c)) = << >>
    BY <1>1, <1>4, SubSeqEmpty
  <2>. QED BY <1>2, <2>1, <2>2, <2>3
<1>. QED BY <1>3, <1>4, <1>2

-----------------------------------------------------------------------------
(* What a step does to the objects and their arrays.                        *)

(* One object and its method change, the others stay.                       *)
LEMMA Changes ==
  ASSUME HandleTypes, NEW o \in Objects,
         NEW s \in ObjectStates, NEW m \in MethodStates,
         object' = [object EXCEPT ![o] = s], method' = [method EXCEPT ![o] = m]
  PROVE  /\ object' \in [Objects -> ObjectStates]
         /\ method' \in [Objects -> MethodStates]
         /\ FileOf' = [FileOf EXCEPT ![o] = s.file]
         /\ m.at = "idle" => PositionOf' = [PositionOf EXCEPT ![o] = s.position]
         /\ m.at # "idle" => PositionOf' = [PositionOf EXCEPT ![o] = m.saved]
<1>1. object \in [Objects -> ObjectStates] /\ method \in [Objects -> MethodStates]
  BY DEF HandleTypes
<1>2. object' \in [Objects -> ObjectStates] /\ method' \in [Objects -> MethodStates]
  BY <1>1
<1>3. FileOf' = [q \in Objects |-> object'[q].file]
  BY DEF FileOf
<1>4. PositionOf' = [q \in Objects |-> IF method'[q].at = "idle" THEN object'[q].position
                                       ELSE method'[q].saved]
  BY DEF PositionOf
<1>5. \A q \in Objects : FileOf'[q] = [FileOf EXCEPT ![o] = s.file][q]
  BY <1>1, <1>3 DEF FileOf
<1>6. \A q \in Objects : PositionOf'[q] =
        [PositionOf EXCEPT ![o] = IF m.at = "idle" THEN s.position ELSE m.saved][q]
  BY <1>1, <1>4 DEF PositionOf
<1>7. FileOf' = [FileOf EXCEPT ![o] = s.file]
  BY <1>3, <1>5 DEF FileOf
<1>8. PositionOf' = [PositionOf EXCEPT
                       ![o] = IF m.at = "idle" THEN s.position ELSE m.saved]
  BY <1>4, <1>6 DEF PositionOf
<1>. QED BY <1>2, <1>7, <1>8

(* No array changes but those that objects have.                            *)
OwnedChange ==
  \A f \in Files : content'[f] = content[f] \/ \E q \in Objects : object[q].file = f

(* Then, and if no array changes hands, what is not empty can be reached.   *)
LEMMA SameOwners ==
  ASSUME Owned, there' = there, OwnedChange, FileOf' = FileOf
  PROVE  Owned'
<1>1. \A q \in Objects : object'[q].file = object[q].file
  BY DEF FileOf
<1>. QED BY <1>1 DEF Owned, OwnedChange

(* The types and what methods hold keep, when the changed method, if on its *)
(* way, has a file.                                                         *)
LEMMA Keeps ==
  ASSUME HandleInv, NEW o \in Objects,
         NEW s \in ObjectStates, NEW m \in MethodStates,
         object' = [object EXCEPT ![o] = s], method' = [method EXCEPT ![o] = m],
         m.at # "idle" => s.file # NoFile,
         there' \in Files \cup {NoFile}, content' \in [Files -> Arrays],
         Owned'
  PROVE  HandleInv'
<1>1. object' \in [Objects -> ObjectStates] /\ method' \in [Objects -> MethodStates]
  BY Changes DEF HandleInv
<1>2. HandleTypes'
  BY <1>1 DEF HandleTypes
<1>3. ASSUME NEW q \in Objects, method'[q].at # "idle"
      PROVE  object'[q].file # NoFile
  BY <1>3 DEF HandleInv, HandleTypes, Holds
<1>. QED BY <1>2, <1>3 DEF HandleInv, Holds

(* The states of a single object.                                           *)
LEMMA States ==
  ASSUME HandleInv, NEW o \in Objects
  PROVE  /\ object[o] \in ObjectStates /\ method[o] \in MethodStates
         /\ object[o].position \in Positions /\ method[o].saved \in Positions
         /\ object[o].file \in Files \cup {NoFile}
         /\ object = [object EXCEPT ![o] = object[o]]
         /\ method = [method EXCEPT ![o] = method[o]]
         /\ FileOf[o] = object[o].file
         /\ PositionOf[o] = IF method[o].at = "idle" THEN object[o].position
                            ELSE method[o].saved
         /\ \A p \in Positions : [object[o] EXCEPT !.position = p] \in ObjectStates
         /\ \A p : /\ [object[o] EXCEPT !.position = p].position = p
                   /\ [object[o] EXCEPT !.position = p].file = object[o].file
<1>1. object \in [Objects -> ObjectStates] /\ method \in [Objects -> MethodStates]
  BY DEF HandleInv, HandleTypes
<1>2. object[o] \in ObjectStates /\ method[o] \in MethodStates
  BY <1>1
<1>. QED BY <1>1, <1>2 DEF ObjectStates, MethodStates, FileOf, PositionOf

(* There is always room for no bytes and the start of an array.             *)
LEMMA Constants ==
  /\ MaxSize \in Nat /\ 0 \in Positions
  /\ << >> \in Arrays
  /\ Closed \in ObjectStates /\ Idle \in MethodStates
  /\ \A f \in Files \cup {NoFile}, w \in BOOLEAN : Opened(f, w) \in ObjectStates
BY FileSystemAssumption
   DEF Positions, Arrays, Closed, Idle, ObjectStates, MethodStates, Opened

(* Files are on disk, and StringFiles in memory.                            *)
LEMMA Media ==
  /\ OnDisk => MediumOf = "disk"
  /\ kind = "memory" => MediumOf = "memory"
  /\ kind' = kind => MediumOf' = MediumOf
BY DEF OnDisk, MediumOf

-----------------------------------------------------------------------------
(* Initially.                                                               *)
LEMMA InitKeeps == Init => HandleInv /\ File!Init
<1>. SUFFICES ASSUME Init PROVE HandleInv /\ File!Init
  OBVIOUS
<1>1. /\ there = NoFile /\ content = [f \in Files |-> << >>]
      /\ method = [o \in Objects |-> Idle] /\ got = File!Done("none")
  BY DEF Init, NoObjects, ObjectsInit
<1>2. PICK start \in [Objects -> ObjectStates] :
        /\ object = start
        /\ \A o \in Objects : start[o].position = 0
        /\ \A o, q \in Objects :
             start[o].file # NoFile /\ start[q].file = start[o].file => q = o
  <2>1. CASE NoObjects
    <3>1. Closed \in ObjectStates /\ Closed.position = 0 /\ Closed.file = NoFile
      BY Constants DEF Closed
    <3>2. /\ [o \in Objects |-> Closed] \in [Objects -> ObjectStates]
          /\ \A o \in Objects : /\ [p \in Objects |-> Closed][o].position = 0
                                /\ [p \in Objects |-> Closed][o].file = NoFile
      BY <3>1
    <3>. QED BY <2>1, <3>2 DEF NoObjects
  <2>2. CASE ObjectsInit
    <3>1. PICK first \in Objects, f \in Files :
            object = [o \in Objects |-> IF kind = "memory" /\ o = first
                                        THEN Opened(f, TRUE) ELSE Closed]
      BY <2>2 DEF ObjectsInit
    <3>2. Opened(f, TRUE) \in ObjectStates /\ Closed \in ObjectStates
      BY Constants
    <3>3. Opened(f, TRUE).position = 0 /\ Closed.position = 0 /\ Closed.file = NoFile
      BY DEF Opened, Closed
    <3>4. object \in [Objects -> ObjectStates]
      BY <3>1, <3>2
    <3>5. \A o \in Objects : object[o].position = 0 /\ (o # first => object[o].file = NoFile)
      BY <3>1, <3>3
    <3>. QED BY <3>4, <3>5
  <2>. QED BY <2>1, <2>2 DEF Init
<1>3. \A o \in Objects : object[o] \in ObjectStates /\ object[o].position = 0
  BY <1>2
<1>4. HandleInv
  <2>1. HandleTypes
    BY <1>1, <1>2, Constants DEF HandleTypes
  <2>2. Holds /\ Owned
    BY <1>1 DEF Holds, Owned, Idle
  <2>. QED BY <2>1, <2>2 DEF HandleInv
<1>5. FileOf \in [Objects -> Files \cup {NoFile}]
  BY <1>3 DEF FileOf, ObjectStates
<1>6. \A o, q \in Objects : FileOf[o] # NoFile /\ FileOf[q] = FileOf[o] => q = o
  BY <1>2 DEF FileOf
<1>7. PositionOf = [o \in Objects |-> 0]
  BY <1>1, <1>3 DEF PositionOf, Idle
<1>8. MediumOf \in {"disk", "memory"}
  BY DEF MediumOf
<1>9. File!Init
  BY <1>1, <1>5, <1>6, <1>7, <1>8
     DEF File!Init, File!Has, FileOf, PositionOf, MediumOf
<1>. QED BY <1>4, <1>9

-----------------------------------------------------------------------------
(* Opening, closing and cloning.                                            *)

(* An object gets a file or loses it, at position 0.                        *)
LEMMA BecomesGets ==
  ASSUME HandleInv, NEW o \in Objects, OnDisk, Free(o),
         NEW s \in ObjectStates, s.position = 0,
         NEW path \in Files \cup {NoFile}, NEW op, Becomes(o, s, path, op)
  PROVE  HandleInv' /\ File!Gets(o, s.file, path, op)
<1>. DEFINE m == method[o]
<1>1. /\ object' = [object EXCEPT ![o] = s] /\ there' = path
      /\ content' = [g \in Files |->
           IF g \in {path, s.file} \cup {object[q].file : q \in Objects \ {o}}
           THEN content[g] ELSE << >>]
      /\ got' = File!Done(op)
      /\ method' = method /\ kind' = kind
  BY DEF Becomes, HasDone
<1>2. << >> \in Arrays /\ 0 \in Positions
  BY Constants
<1>3. m \in MethodStates /\ method' = [method EXCEPT ![o] = m] /\ m.at = "idle"
  BY <1>1, States DEF Free
<1>4. content' \in [Files -> Arrays]
  BY <1>1, <1>2 DEF HandleInv, HandleTypes
<1>. HIDE DEF m
<1>5. /\ FileOf' = [FileOf EXCEPT ![o] = s.file]
      /\ PositionOf' = [PositionOf EXCEPT ![o] = 0]
  <2>1. /\ HandleTypes /\ s \in ObjectStates /\ m \in MethodStates /\ m.at = "idle"
        /\ object' = [object EXCEPT ![o] = s] /\ method' = [method EXCEPT ![o] = m]
    BY <1>1, <1>3 DEF HandleInv
  <2>2. /\ FileOf' = [FileOf EXCEPT ![o] = s.file]
        /\ PositionOf' = [PositionOf EXCEPT ![o] = s.position]
    BY <2>1, Changes
  <2>. QED BY <2>2
<1>6. \A g \in Files :
        g \in {path, s.file} \cup {object[q].file : q \in Objects \ {o}}
          <=> g = path \/ \E q \in Objects : FileOf'[q] = g
  <2>1. \A q \in Objects : FileOf'[q] = IF q = o THEN s.file ELSE object[q].file
    BY <1>5 DEF FileOf
  <2>. QED BY <2>1
<1>7. content' = [g \in Files |-> IF g = path \/ \E q \in Objects : FileOf'[q] = g
                                  THEN content[g] ELSE << >>]
  BY <1>1, <1>6
<1>8. Owned'
  <2>1. \A g \in Files : content'[g] = << >> \/ g = there' \/ \E q \in Objects : FileOf'[q] = g
    BY <1>1, <1>7
  <2>2. \A q \in Objects : FileOf'[q] = object'[q].file
    BY DEF FileOf
  <2>. QED BY <2>1, <2>2 DEF Owned
<1>9. HandleInv'
  BY <1>1, <1>3, <1>4, <1>8, Keeps
<1>10. MediumOf = "disk" /\ MediumOf' = MediumOf
  BY <1>1, Media
<1>. QED BY <1>1, <1>5, <1>7, <1>9, <1>10 DEF File!Gets, FileOf, PositionOf, MediumOf

(* A file not in use is one ByteFile takes to be new: it is empty.          *)
LEMMA UnusedIsFresh ==
  ASSUME HandleInv, NEW f \in Unused
  PROVE  f \in Files /\ File!Fresh(f)
<1>1. f \in Files /\ f # there /\ \A q \in Objects : object[q].file # f
  BY DEF Unused
<1>2. content[f] = << >>
  BY <1>1 DEF HandleInv, Owned
<1>3. \A q \in Objects : FileOf[q] # f
  BY <1>1 DEF FileOf
<1>. QED BY <1>1, <1>2, <1>3 DEF File!Fresh, FileOf

(* What objects that are opened or closed become.                           *)
LEMMA NewStates ==
  ASSUME HandleInv
  PROVE  /\ Closed \in ObjectStates /\ Closed.position = 0 /\ Closed.file = NoFile
         /\ there \in Files \cup {NoFile} /\ NoFile \in Files \cup {NoFile}
         /\ \A f \in Files \cup {NoFile}, w \in BOOLEAN :
              /\ Opened(f, w) \in ObjectStates
              /\ Opened(f, w).position = 0 /\ Opened(f, w).file = f
BY Constants DEF HandleInv, HandleTypes, Closed, Opened

(* The file at the path is opened, or nothing.                              *)
LEMMA OpeningExisting ==
  ASSUME HandleInv, NEW o \in Objects, OnDisk, Free(o), NEW op, OpensExisting(o, op)
  PROVE  /\ HandleInv'
         /\ \/ there # NoFile /\ File!Gets(o, there, there, op)
            \/ File!OpenFails(o)
<1>1. CASE there # NoFile /\ Becomes(o, Opened(there, FALSE), there, op)
  BY <1>1, NewStates, BecomesGets
<1>2. CASE Becomes(o, Closed, there, "failed")
  <2>1. HandleInv' /\ File!Gets(o, NoFile, there, "failed")
    BY <1>2, NewStates, BecomesGets
  <2>. QED BY <2>1 DEF File!OpenFails
<1>. QED BY <1>1, <1>2 DEF OpensExisting

(* Or it is created.                                                        *)
LEMMA OpeningOrCreating ==
  ASSUME HandleInv, NEW o \in Objects, OnDisk, Free(o), NEW op, OpensOrCreates(o, op)
  PROVE  /\ HandleInv'
         /\ \/ \E f \in Files : File!AtPath(f) /\ File!Gets(o, f, f, op)
            \/ File!OpenFails(o)
<1>1. CASE there # NoFile /\ Becomes(o, Opened(there, TRUE), there, op)
  <2>1. there \in Files /\ HandleInv' /\ File!Gets(o, there, there, op)
    BY <1>1, NewStates, BecomesGets
  <2>2. File!AtPath(there)
    BY DEF File!AtPath
  <2>. QED BY <2>1, <2>2
<1>2. ASSUME there = NoFile, NEW f \in Unused, Becomes(o, Opened(f, TRUE), f, op)
      PROVE  HandleInv' /\ \E g \in Files : File!AtPath(g) /\ File!Gets(o, g, g, op)
  <2>1. f \in Files /\ File!Fresh(f)
    BY UnusedIsFresh
  <2>2. HandleInv' /\ File!Gets(o, f, f, op)
    BY <1>2, <2>1, NewStates, BecomesGets
  <2>3. File!AtPath(f)
    BY <1>2, <2>1 DEF File!AtPath
  <2>. QED BY <2>1, <2>2, <2>3
<1>3. CASE Becomes(o, Closed, there, "failed")
  <2>1. HandleInv' /\ File!Gets(o, NoFile, there, "failed")
    BY <1>3, NewStates, BecomesGets
  <2>. QED BY <2>1 DEF File!OpenFails
<1>. QED BY <1>1, <1>2, <1>3 DEF OpensOrCreates

(* Opening and closing, whatever path is left.                              *)
LEMMA Opening ==
  ASSUME HandleInv, NEW o \in Objects,
         OpenReadOnly(o) \/ OpenReadWrite(o) \/ Close(o) \/ Destroy(o)
  PROVE  HandleInv' /\ [File!Next]_(File!vars)
<1>1. CASE OpenReadOnly(o)
  <2>1. /\ HandleInv'
        /\ \/ there # NoFile /\ File!Gets(o, there, there, "OpenReadOnly")
           \/ File!OpenFails(o)
    BY <1>1, OpeningExisting DEF OpenReadOnly
  <2>. QED BY <2>1 DEF File!OpenReadOnly, File!Next
<1>2. CASE OpenReadWrite(o)
  <2>1. /\ HandleInv'
        /\ \/ \E f \in Files : File!AtPath(f) /\ File!Gets(o, f, f, "OpenReadWrite")
           \/ File!OpenFails(o)
    BY <1>2, OpeningOrCreating DEF OpenReadWrite
  <2>. QED BY <2>1 DEF File!OpenReadWrite, File!Next
<1>3. CASE Close(o)
  <2>1. HandleInv' /\ File!Gets(o, NoFile, there, "Close")
    BY <1>3, NewStates, BecomesGets DEF Close, Usable
  <2>2. File!Has(o)
    BY <1>3 DEF Close, Usable, File!Has
  <2>. QED BY <2>1, <2>2 DEF File!Close, File!Next
<1>4. CASE Destroy(o)
  <2>1. PICK path \in {there, NoFile} : OnDisk /\ Free(o) /\ Becomes(o, Closed, path, "Destroy")
    BY <1>4 DEF Destroy
  <2>2. HandleInv' /\ File!Gets(o, NoFile, path, "Destroy")
    BY <2>1, NewStates, BecomesGets
  <2>. QED BY <2>2 DEF File!Destroy, File!Next
<1>. QED BY <1>1, <1>2, <1>3, <1>4

(* A clone in memory is a copy with the same position.                      *)
LEMMA Copying ==
  ASSUME HandleInv, NEW o \in Objects, NEW q \in Objects \ {o}, Clone(q, o),
         kind = "memory"
  PROVE  HandleInv' /\ File!CloneCopies(q, o)
<1>1. PICK f \in Unused :
        /\ content' = [content EXCEPT ![f] = Bytesof(q)]
        /\ object' = [object EXCEPT ![o] = [object[q] EXCEPT !.file = f]]
        /\ got' = File!Done("Clone")
        /\ there' = there /\ method' = method /\ kind' = kind
  BY DEF Clone, HasDone, OnDisk
<1>2. f \in Files /\ File!Fresh(f)
  BY UnusedIsFresh
<1>. DEFINE s == [object[q] EXCEPT !.file = f]
            m == method[o]
<1>3. /\ Free(o) /\ Free(q) /\ object[q].file # NoFile /\ object[o].file = NoFile
      /\ object[q] \in ObjectStates /\ object[q].file \in Files
  BY States DEF Clone, Usable, Closed
<1>4. s \in ObjectStates /\ s.position = object[q].position /\ s.file = f
  BY <1>2, <1>3 DEF ObjectStates
<1>5. m \in MethodStates /\ method' = [method EXCEPT ![o] = m] /\ m.at = "idle"
  BY <1>1, <1>3, States DEF Free
<1>6. Bytesof(q) \in Arrays /\ Bytesof(q) = content[object[q].file]
  BY <1>3 DEF Bytesof, HandleInv, HandleTypes
<1>7. content' \in [Files -> Arrays] /\ there' \in Files \cup {NoFile}
  BY <1>1, <1>2, <1>6 DEF HandleInv, HandleTypes
<1>. HIDE DEF s, m
<1>8. object' = [object EXCEPT ![o] = s]
  BY <1>1 DEF s
<1>9. /\ FileOf' = [FileOf EXCEPT ![o] = f]
      /\ PositionOf' = [PositionOf EXCEPT ![o] = object[q].position]
  <2>1. HandleTypes /\ s \in ObjectStates /\ m \in MethodStates /\ m.at = "idle"
    BY <1>4, <1>5 DEF HandleInv
  <2>2. /\ FileOf' = [FileOf EXCEPT ![o] = s.file]
        /\ PositionOf' = [PositionOf EXCEPT ![o] = s.position]
    BY <1>5, <1>8, <2>1, Changes
  <2>. QED BY <1>4, <2>2
<1>10. Owned'
  <2>1. ASSUME NEW g \in Files, content'[g] # << >>
        PROVE  g = there' \/ \E p \in Objects : object'[p].file = g
    <3>1. CASE g = f
      <4>1. object'[o].file = f
        BY <1>4, <1>8 DEF HandleInv, HandleTypes
      <4>. QED BY <3>1, <4>1
    <3>2. CASE g # f
      <4>1. content'[g] = content[g]
        BY <1>1, <3>2 DEF HandleInv, HandleTypes
      <4>2. g = there \/ \E p \in Objects : object[p].file = g
        BY <2>1, <4>1 DEF HandleInv, Owned
      <4>3. CASE g = there
        BY <1>1, <4>3
      <4>4. ASSUME NEW p \in Objects, object[p].file = g
            PROVE  \E r \in Objects : object'[r].file = g
        <5>1. CASE p = o
          BY <1>3, <4>4, <5>1, FileSystemAssumption
        <5>2. CASE p # o
          BY <1>8, <4>4, <5>2 DEF HandleInv, HandleTypes
        <5>. QED BY <5>1, <5>2
      <4>. QED BY <4>2, <4>3, <4>4
    <3>. QED BY <3>1, <3>2
  <2>. QED BY <2>1 DEF Owned
<1>11. HandleInv'
  BY <1>4, <1>5, <1>7, <1>8, <1>10, Keeps
<1>12. FileOf[q] = object[q].file /\ PositionOf[q] = object[q].position
  BY <1>3, States DEF Free
<1>13. MediumOf = "memory" /\ MediumOf' = MediumOf
  BY <1>1, Media
<1>14. File!Has(q) /\ ~File!Has(o)
  BY <1>3 DEF File!Has
<1>. QED
  BY <1>1, <1>2, <1>6, <1>9, <1>11, <1>12, <1>13, <1>14
  DEF File!CloneCopies, FileOf, PositionOf, MediumOf

(* On disk a clone is opened where the path leads: to the same file, unless *)
(* that is no longer there.                                                 *)
LEMMA Reopening ==
  ASSUME HandleInv, NEW o \in Objects, NEW q \in Objects \ {o}, Clone(q, o), OnDisk
  PROVE  HandleInv' /\ [File!Next]_(File!vars)
<1>1. /\ Free(o) /\ object[o].file = NoFile /\ object[q].file # NoFile
      /\ kind # "memory"
  BY DEF Clone, Usable, Closed, OnDisk
<1>2. File!Has(q) /\ ~File!Has(o)
  BY <1>1 DEF File!Has
<1>3. ASSUME NEW f \in Files, File!AtPath(f), File!Gets(o, f, f, "Clone")
      PROVE  File!CloneShares(q, o) \/ File!CloneReopens(q, o)
  <2>1. CASE FileOf[q] = there
    <3>1. there # NoFile
      BY <1>1, <2>1 DEF FileOf
    <3>2. f = there
      BY <1>3, <3>1 DEF File!AtPath
    <3>. QED BY <1>2, <1>3, <2>1, <3>2 DEF File!CloneShares, FileOf
  <2>2. CASE FileOf[q] # there
    BY <1>2, <1>3, <2>2 DEF File!CloneReopens, FileOf
  <2>. QED BY <2>1, <2>2
<1>4. CASE OpensExisting(o, "Clone")
  <2>1. /\ HandleInv'
        /\ \/ there # NoFile /\ File!Gets(o, there, there, "Clone")
           \/ File!OpenFails(o)
    BY <1>1, <1>4, OpeningExisting
  <2>2. ASSUME there # NoFile, File!Gets(o, there, there, "Clone")
        PROVE  File!CloneShares(q, o) \/ File!CloneReopens(q, o)
    <3>1. there \in Files /\ File!AtPath(there)
      BY <2>2 DEF HandleInv, HandleTypes, File!AtPath
    <3>. QED BY <1>3, <2>2, <3>1
  <2>. QED BY <2>1, <2>2 DEF File!Next
<1>5. CASE OpensOrCreates(o, "Clone")
  <2>1. /\ HandleInv'
        /\ \/ \E f \in Files : File!AtPath(f) /\ File!Gets(o, f, f, "Clone")
           \/ File!OpenFails(o)
    BY <1>1, <1>5, OpeningOrCreating
  <2>. QED BY <1>3, <2>1 DEF File!Next
<1>. QED BY <1>1, <1>4, <1>5 DEF Clone

-----------------------------------------------------------------------------
(* The position moves, or is moved for a while.                             *)

(* What a method starts from.                                               *)
LEMMA Used ==
  ASSUME HandleInv, NEW o \in Objects, Usable(o)
  PROVE  /\ object[o].file \in Files /\ object[o].file # NoFile
         /\ method[o].at = "idle"
         /\ File!Has(o)
         /\ FileOf[o] = object[o].file /\ PositionOf[o] = object[o].position
         /\ object[o].position \in Positions
         /\ Bytesof(o) = content[object[o].file] /\ Bytesof(o) \in Arrays
<1>1. object[o].file \in Files /\ object[o].file # NoFile /\ method[o].at = "idle"
  BY States DEF Usable, Free
<1>2. Bytesof(o) = content[object[o].file] /\ Bytesof(o) \in Arrays
  BY <1>1 DEF Bytesof, HandleInv, HandleTypes
<1>3. File!Has(o)
  BY <1>1 DEF File!Has
<1>4. FileOf[o] = object[o].file /\ PositionOf[o] = object[o].position
  BY <1>1, States
<1>. QED BY <1>1, <1>2, <1>3, <1>4, States

(* ByteFile sees the position of one object move, and no file change hands. *)
LEMMA Moves ==
  ASSUME HandleInv, NEW o \in Objects, Usable(o), NEW p \in Positions, MovedTo(o, p),
         method' = method, there' = there, content' \in [Files -> Arrays], OwnedChange
  PROVE  /\ HandleInv'
         /\ FileOf' = FileOf /\ PositionOf' = [PositionOf EXCEPT ![o] = p]
<1>. DEFINE s == [object[o] EXCEPT !.position = p]
            m == method[o]
<1>1. s \in ObjectStates /\ s.position = p /\ s.file = object[o].file
  BY States
<1>2. m \in MethodStates /\ method' = [method EXCEPT ![o] = m] /\ m.at = "idle"
  BY Used, States
<1>3. object' = [object EXCEPT ![o] = s]
  BY DEF MovedTo
<1>4. there' \in Files \cup {NoFile}
  BY DEF HandleInv, HandleTypes
<1>. HIDE DEF s, m
<1>5. /\ FileOf' = [FileOf EXCEPT ![o] = s.file]
      /\ PositionOf' = [PositionOf EXCEPT ![o] = s.position]
  <2>1. HandleTypes /\ s \in ObjectStates /\ m \in MethodStates /\ m.at = "idle"
    BY <1>1, <1>2 DEF HandleInv
  <2>. QED BY ZenonT(30), <1>2, <1>3, <2>1, Changes
<1>6. FileOf' = FileOf /\ PositionOf' = [PositionOf EXCEPT ![o] = p]
  <2>1. FileOf[o] = s.file
    BY <1>1, States
  <2>. QED BY <1>1, <1>5, <2>1 DEF FileOf
<1>7. Owned'
  BY <1>6, SameOwners DEF HandleInv
<1>8. HandleInv'
  BY <1>1, <1>2, <1>3, <1>4, <1>7, Keeps
<1>. QED BY <1>6, <1>8

(* Nothing moves.                                                           *)
LEMMA Rests ==
  ASSUME HandleInv, object' = object, method' = method, there' = there,
         content' \in [Files -> Arrays], OwnedChange
  PROVE  HandleInv' /\ FileOf' = FileOf /\ PositionOf' = PositionOf
<1>1. FileOf' = FileOf /\ PositionOf' = PositionOf
  BY DEF FileOf, PositionOf
<1>2. HandleTypes' /\ Holds'
  BY DEF HandleInv, HandleTypes, Holds
<1>3. Owned'
  BY <1>1, SameOwners DEF HandleInv
<1>. QED BY <1>1, <1>2, <1>3 DEF HandleInv

(* A method begins to move the position; to ByteFile it stays.              *)
LEMMA Begins ==
  ASSUME HandleInv, NEW o \in Objects, Usable(o),
         NEW at \in {"resize", "restore"}, NEW p \in Positions, Moving(o, at, p)
  PROVE  HandleInv' /\ FileOf' = FileOf /\ PositionOf' = PositionOf
<1>. DEFINE s == [object[o] EXCEPT !.position = p]
            m == [at |-> at, saved |-> object[o].position]
<1>1. s \in ObjectStates /\ s.position = p /\ s.file = object[o].file
  BY States
<1>2. /\ m \in MethodStates /\ m.at # "idle" /\ m.saved = object[o].position
      /\ method' = [method EXCEPT ![o] = m]
  BY States DEF Moving, MethodStates
<1>3. object' = [object EXCEPT ![o] = s]
  BY DEF Moving, MovedTo
<1>4. /\ there' = there /\ there' \in Files \cup {NoFile}
      /\ content' \in [Files -> Arrays] /\ OwnedChange
  BY DEF HandleInv, HandleTypes, Moving, OwnedChange
<1>5. s.file # NoFile
  BY <1>1, Used
<1>. HIDE DEF s, m
<1>6. /\ FileOf' = [FileOf EXCEPT ![o] = s.file]
      /\ PositionOf' = [PositionOf EXCEPT ![o] = m.saved]
  <2>1. HandleTypes /\ s \in ObjectStates /\ m \in MethodStates /\ m.at # "idle"
    BY <1>1, <1>2 DEF HandleInv
  <2>. QED BY <1>2, <1>3, <2>1, Changes
<1>7. PositionOf[o] = m.saved /\ FileOf[o] = s.file
  BY <1>1, <1>2, Used
<1>8. FileOf' = FileOf /\ PositionOf' = PositionOf
  BY <1>6, <1>7 DEF FileOf, PositionOf
<1>9. Owned'
  BY <1>4, <1>8, SameOwners DEF HandleInv
<1>10. HandleInv'
  BY <1>1, <1>2, <1>3, <1>4, <1>5, <1>9, Keeps
<1>. QED BY <1>8, <1>10

(* What is left alone is no change.                                         *)
LEMMA NoChange ==
  ASSUME HandleInv, content' = content
  PROVE  content' \in [Files -> Arrays] /\ OwnedChange
BY DEF HandleInv, HandleTypes, OwnedChange

(* Setting the position.                                                    *)
LEMMA SettingPosition ==
  ASSUME HandleInv, NEW o \in Objects, SetPosition(o)
  PROVE  HandleInv' /\ File!SetPosition(o)
<1>1. PICK p \in Positions : MovedTo(o, p)
  BY DEF SetPosition, Positions
<1>2. /\ Usable(o) /\ method' = method /\ there' = there /\ content' = content
      /\ got' = File!Done("SetPosition") /\ kind' = kind
  BY DEF SetPosition, HasDone
<1>3. /\ HandleInv'
      /\ FileOf' = FileOf /\ PositionOf' = [PositionOf EXCEPT ![o] = p]
  BY <1>1, <1>2, NoChange, Moves
<1>4. \E q \in File!Positions : PositionOf' = [PositionOf EXCEPT ![o] = q]
  BY <1>3 DEF Positions, File!Positions
<1>5. File!Has(o) /\ MediumOf' = MediumOf
  BY <1>2, Used, Media
<1>. QED BY <1>2, <1>3, <1>4, <1>5 DEF File!SetPosition, FileOf, PositionOf, MediumOf

(* A call that changes nothing ByteFile sees has failed.                    *)
LEMMA Fails ==
  ASSUME HasFailed, kind' = kind, there' = there, content' = content,
         FileOf' = FileOf, PositionOf' = PositionOf
  PROVE  File!Failed
<1>1. MediumOf = "disk" /\ MediumOf' = MediumOf
  BY Media DEF HasFailed
<1>. QED BY <1>1 DEF HasFailed, File!Failed, FileOf, PositionOf, MediumOf

(* Both kinds read what ByteFile does.                                      *)
LEMMA ReadsAlike ==
  ASSUME HandleInv, NEW o \in Objects, Usable(o), NEW n \in 1 .. MaxSize
  PROVE  /\ n \in File!Positions
         /\ BytesRead(o, n) = File!Region(content[FileOf[o]], PositionOf[o], n)
         /\ object[o].position + Len(BytesRead(o, n)) \in Positions
<1>1. n \in Positions
  BY FileSystemAssumption DEF Positions
<1>2. BytesRead(o, n) = File!Region(Bytesof(o), object[o].position, n)
  BY <1>1, Used, ReadsRegion DEF BytesRead
<1>3. object[o].position + Len(File!Region(Bytesof(o), object[o].position, n)) \in Positions
  BY <1>1, Used, RegionType
<1>. QED BY <1>1, <1>2, <1>3, Used DEF Positions, File!Positions

(* Reading: some bytes, or a failure.                                       *)
LEMMA Reading ==
  ASSUME HandleInv, NEW o \in Objects, Read(o)
  PROVE  HandleInv' /\ (File!Read(o) \/ File!Failed)
<1>1. /\ Usable(o) /\ kind' = kind /\ method' = method /\ there' = there
      /\ content' = content
  BY DEF Read
<1>2. PICK n \in 1 .. MaxSize :
        \/ /\ Returned("Read", BytesRead(o, n), Len(BytesRead(o, n)))
           /\ MovedTo(o, object[o].position + Len(BytesRead(o, n)))
        \/ HasFailed /\ UNCHANGED object
  BY DEF Read
<1>3. CASE HasFailed /\ UNCHANGED object
  <2>1. HandleInv' /\ FileOf' = FileOf /\ PositionOf' = PositionOf
    BY <1>1, <1>3, NoChange, Rests
  <2>. QED BY <1>1, <1>3, <2>1, Fails
<1>4. CASE /\ Returned("Read", BytesRead(o, n), Len(BytesRead(o, n)))
           /\ MovedTo(o, object[o].position + Len(BytesRead(o, n)))
  <2>. DEFINE bytes == BytesRead(o, n)
  <2>1. /\ n \in File!Positions /\ object[o].position + Len(bytes) \in Positions
        /\ bytes = File!Region(content[FileOf[o]], PositionOf[o], n)
    BY <1>1, ReadsAlike
  <2>2. /\ got' = File!Result("Read", bytes, Len(bytes))
        /\ MovedTo(o, object[o].position + Len(bytes))
    BY <1>4 DEF Returned
  <2>. HIDE DEF bytes
  <2>3. /\ HandleInv' /\ FileOf' = FileOf
        /\ PositionOf' = [PositionOf EXCEPT ![o] = object[o].position + Len(bytes)]
    BY <1>1, <2>1, <2>2, NoChange, Moves
  <2>4. PositionOf' = [PositionOf EXCEPT ![o] = @ + Len(bytes)]
    BY <1>1, <2>3, Used
  <2>5. \E k \in File!Positions :
          LET b == File!Region(content[FileOf[o]], PositionOf[o], k)
          IN  /\ got' = File!Result("Read", b, Len(b))
              /\ PositionOf' = [PositionOf EXCEPT ![o] = @ + Len(b)]
    BY <2>1, <2>2, <2>4
  <2>6. File!Has(o) /\ MediumOf' = MediumOf
    BY <1>1, Used, Media
  <2>7. File!Read(o)
    BY <1>1, <2>3, <2>5, <2>6 DEF File!Read, FileOf, PositionOf, MediumOf
  <2>. QED BY <2>3, <2>7
<1>. QED BY <1>2, <1>3, <1>4

-----------------------------------------------------------------------------
(* The bytes change, or are only looked at.                                 *)

(* The new bytes of a file.                                                 *)
LEMMA ChangedType ==
  ASSUME HandleInv, NEW o \in Objects, object[o].file \in Files,
         NEW c \in Arrays, Changed(o, c)
  PROVE  /\ content' = [content EXCEPT ![object[o].file] = c]
         /\ content' \in [Files -> Arrays] /\ OwnedChange
<1>1. content' = [content EXCEPT ![object[o].file] = c] /\ content \in [Files -> Arrays]
  BY DEF Changed, HandleInv, HandleTypes
<1>2. content' \in [Files -> Arrays]
  BY <1>1
<1>3. OwnedChange
  BY <1>1 DEF OwnedChange
<1>. QED BY <1>1, <1>2, <1>3

(* Writing: all of the data, or nothing and the call fails.                 *)
LEMMA Writing ==
  ASSUME HandleInv, NEW o \in Objects, Write(o)
  PROVE  HandleInv' /\ (File!Write(o) \/ File!Failed)
<1>1. /\ Usable(o) /\ kind' = kind /\ method' = method /\ there' = there
  BY DEF Write
<1>2. PICK data \in File!Data :
        /\ object[o].position + Len(data) <= MaxSize
        /\ \/ /\ Changed(o, BytesWritten(o, data))
              /\ MovedTo(o, object[o].position + Len(data))
              /\ Returned("Write", << >>, Len(data))
           \/ HasFailed /\ UNCHANGED <<content, object>>
  BY DEF Write
<1>3. CASE HasFailed /\ UNCHANGED <<content, object>>
  <2>1. HandleInv' /\ FileOf' = FileOf /\ PositionOf' = PositionOf
    BY <1>1, <1>3, NoChange, Rests
  <2>. QED BY <1>1, <1>3, <2>1, Fails
<1>4. CASE /\ Changed(o, BytesWritten(o, data))
           /\ MovedTo(o, object[o].position + Len(data))
           /\ Returned("Write", << >>, Len(data))
  <2>. DEFINE c == BytesWritten(o, data)
  <2>1. c = File!Overwritten(Bytesof(o), object[o].position, data)
    BY <1>1, Used, WritesAlike DEF BytesWritten
  <2>2. Changed(o, c) /\ MovedTo(o, object[o].position + Len(data))
    BY <1>4
  <2>. HIDE DEF c
  <2>3. c \in Arrays /\ object[o].position + Len(data) \in Positions
    BY <1>1, <1>2, <2>1, Used, OverwrittenType
  <2>4. /\ content' = [content EXCEPT ![object[o].file] = c]
        /\ content' \in [Files -> Arrays] /\ OwnedChange
    BY <1>1, <2>2, <2>3, Used, ChangedType
  <2>5. /\ HandleInv' /\ FileOf' = FileOf
        /\ PositionOf' = [PositionOf EXCEPT ![o] = object[o].position + Len(data)]
    BY <1>1, <2>2, <2>3, <2>4, Moves
  <2>6. /\ FileOf[o] = object[o].file /\ PositionOf[o] = object[o].position
        /\ c = File!Overwritten(content[FileOf[o]], PositionOf[o], data)
    BY <1>1, <2>1, Used
  <2>7. /\ content' = [content EXCEPT ![FileOf[o]] =
                         File!Overwritten(@, PositionOf[o], data)]
        /\ PositionOf' = [PositionOf EXCEPT ![o] = @ + Len(data)]
        /\ got' = File!Result("Write", << >>, Len(data))
    BY <1>4, <2>4, <2>5, <2>6 DEF Returned
  <2>8. File!Has(o) /\ MediumOf' = MediumOf
    BY <1>1, Used, Media
  <2>9. File!Write(o)
    BY <1>1, <2>5, <2>7, <2>8 DEF File!Write, FileOf, PositionOf, MediumOf
  <2>. QED BY <2>5, <2>9
<1>. QED BY <1>2, <1>3, <1>4

(* The first bytes are removed.                                             *)
LEMMA Removing ==
  ASSUME HandleInv, NEW o \in Objects, Remove(o)
  PROVE  HandleInv' /\ File!Remove(o)
<1>1. /\ Usable(o) /\ kind = "memory" /\ kind' = kind /\ method' = method
      /\ there' = there /\ got' = File!Done("Remove")
  BY DEF Remove, HasDone
<1>2. PICK n \in 1 .. MaxSize :
        /\ Changed(o, Erased(Bytesof(o), Smaller(n, Len(Bytesof(o)))))
        /\ MovedTo(o, Larger(n, object[o].position) - n)
  BY DEF Remove
<1>3. MaxSize \in Nat /\ n \in Nat /\ n \in Positions /\ object[o].position \in Positions
  BY <1>1, Used, FileSystemAssumption DEF Positions
<1>. DEFINE c == Erased(Bytesof(o), Smaller(n, Len(Bytesof(o))))
            p == Larger(n, object[o].position) - n
<1>4. Changed(o, c) /\ MovedTo(o, p)
  BY <1>2
<1>5. p = IF object[o].position < n THEN 0 ELSE object[o].position - n
  BY <1>3 DEF Larger, Positions
<1>6. p \in Positions
  BY <1>3, <1>5 DEF Positions
<1>7. c = SubSeq(Bytesof(o), n + 1, Len(Bytesof(o))) /\ c \in Arrays
  BY <1>1, <1>3, Used, ErasesAlike
<1>. HIDE DEF c, p
<1>8. /\ content' = [content EXCEPT ![object[o].file] = c]
      /\ content' \in [Files -> Arrays] /\ OwnedChange
  BY <1>1, <1>4, <1>7, Used, ChangedType
<1>9. /\ HandleInv' /\ FileOf' = FileOf
      /\ PositionOf' = [PositionOf EXCEPT ![o] = p]
  BY <1>1, <1>4, <1>6, <1>8, Moves
<1>10. /\ FileOf[o] = object[o].file /\ n \in File!Positions
       /\ c = SubSeq(content[FileOf[o]], n + 1, Len(content[FileOf[o]]))
       /\ p = IF PositionOf[o] < n THEN 0 ELSE PositionOf[o] - n
  BY <1>1, <1>3, <1>5, <1>7, Used DEF Positions, File!Positions
<1>11. /\ content' = [content EXCEPT ![FileOf[o]] = SubSeq(@, n + 1, Len(@))]
       /\ PositionOf' = [PositionOf EXCEPT ![o] = IF @ < n THEN 0 ELSE @ - n]
  BY <1>8, <1>9, <1>10
<1>12. File!Has(o) /\ MediumOf = "memory" /\ MediumOf' = MediumOf
  BY <1>1, Used, Media
<1>13. File!Remove(o)
  BY <1>1, <1>9, <1>10, <1>11, <1>12 DEF File!Remove, FileOf, PositionOf, MediumOf
<1>. QED BY <1>9, <1>13

(* Looking at the bytes.                                                    *)
LEMMA Peeking ==
  ASSUME HandleInv, NEW o \in Objects, Peek(o)
  PROVE  HandleInv' /\ (File!Peek(o) \/ File!Failed)
<1>1. Usable(o) /\ kind' = kind /\ there' = there /\ content' = content
  BY DEF Peek
<1>2. PICK n \in 1 .. MaxSize :
        \/ /\ Returned("Peek", BytesRead(o, n), Len(BytesRead(o, n)))
           /\ \/ Moving(o, "restore", object[o].position + Len(BytesRead(o, n)))
              \/ UNCHANGED <<object, method>>
        \/ HasFailed /\ UNCHANGED <<object, method>>
  BY DEF Peek
<1>. DEFINE bytes == BytesRead(o, n)
<1>3. /\ n \in File!Positions /\ object[o].position + Len(bytes) \in Positions
      /\ bytes = File!Region(content[FileOf[o]], PositionOf[o], n)
  BY <1>1, ReadsAlike
<1>4. HandleInv' /\ FileOf' = FileOf /\ PositionOf' = PositionOf
  <2>1. CASE UNCHANGED <<object, method>>
    BY <1>1, <2>1, NoChange, Rests
  <2>2. CASE Moving(o, "restore", object[o].position + Len(bytes))
    BY <1>1, <1>3, <2>2, Begins
  <2>. QED BY <1>2, <2>1, <2>2
<1>5. CASE HasFailed
  BY <1>1, <1>4, <1>5, Fails
<1>6. CASE Returned("Peek", BytesRead(o, n), Len(BytesRead(o, n)))
  <2>1. got' = File!Result("Peek", bytes, Len(bytes))
    BY <1>6 DEF Returned
  <2>. HIDE DEF bytes
  <2>2. \E k \in File!Positions :
          LET b == File!Region(content[FileOf[o]], PositionOf[o], k)
          IN  got' = File!Result("Peek", b, Len(b))
    BY <1>3, <2>1
  <2>3. File!Has(o) /\ MediumOf' = MediumOf
    BY <1>1, Used, Media
  <2>4. File!Peek(o)
    BY <1>1, <1>4, <2>2, <2>3 DEF File!Peek, FileOf, PositionOf, MediumOf
  <2>. QED BY <1>4, <2>4
<1>. QED BY <1>2, <1>5, <1>6

(* Asking for the size.                                                     *)
LEMMA GettingSize ==
  ASSUME HandleInv, NEW o \in Objects, GetSize(o)
  PROVE  HandleInv' /\ (File!GetSize(o) \/ File!Failed)
<1>1. Usable(o) /\ kind' = kind /\ there' = there /\ content' = content
  BY DEF GetSize
<1>2. Moving(o, "restore", Len(Bytesof(o))) \/ UNCHANGED <<object, method>>
  BY DEF GetSize
<1>3. Len(Bytesof(o)) \in Positions
  BY <1>1, Used, ArrayFacts DEF Positions
<1>4. HandleInv' /\ FileOf' = FileOf /\ PositionOf' = PositionOf
  BY <1>1, <1>2, <1>3, NoChange, Rests, Begins
<1>5. CASE HasFailed
  BY <1>1, <1>4, <1>5, Fails
<1>6. CASE Returned("GetSize", << >>, Len(Bytesof(o)))
  <2>1. got' = File!Result("GetSize", << >>, Len(content[FileOf[o]]))
    BY <1>1, <1>6, Used DEF Returned
  <2>2. File!Has(o) /\ MediumOf' = MediumOf
    BY <1>1, Used, Media
  <2>3. File!GetSize(o)
    BY <1>1, <1>4, <2>1, <2>2 DEF File!GetSize, FileOf, PositionOf, MediumOf
  <2>. QED BY <1>4, <2>3
<1>. QED BY <1>5, <1>6 DEF GetSize

-----------------------------------------------------------------------------
(* The size is set: at once, or where the position was moved to.            *)

(* In one call, on POSIX and in memory.                                     *)
LEMMA SettingSize ==
  ASSUME HandleInv, NEW o \in Objects, SetSize(o)
  PROVE  HandleInv' /\ (File!SetSize(o) \/ File!Failed)
<1>1. /\ Usable(o) /\ kind' = kind /\ object' = object /\ method' = method
      /\ there' = there
  BY DEF SetSize
<1>2. PICK n \in Positions :
        \/ /\ Changed(o, IF OnDisk THEN File!Resized(Bytesof(o), n)
                         ELSE Resize(Bytesof(o), n))
           /\ HasDone("SetSize")
        \/ HasFailed /\ UNCHANGED content
  BY DEF SetSize, Positions
<1>3. n \in Nat /\ n <= MaxSize
  BY FileSystemAssumption DEF Positions
<1>4. CASE HasFailed /\ UNCHANGED content
  <2>1. HandleInv' /\ FileOf' = FileOf /\ PositionOf' = PositionOf
    BY <1>1, <1>4, NoChange, Rests
  <2>. QED BY <1>1, <1>4, <2>1, Fails
<1>5. CASE /\ Changed(o, IF OnDisk THEN File!Resized(Bytesof(o), n)
                         ELSE Resize(Bytesof(o), n))
           /\ HasDone("SetSize")
  <2>. DEFINE c == File!Resized(Bytesof(o), n)
  <2>1. Changed(o, c)
    BY <1>1, <1>3, <1>5, Used, ResizesAlike
  <2>2. c \in Arrays /\ c = File!Resized(content[FileOf[o]], n)
    BY <1>1, <1>3, Used, ResizedType
  <2>. HIDE DEF c
  <2>3. /\ content' = [content EXCEPT ![object[o].file] = c]
        /\ content' \in [Files -> Arrays] /\ OwnedChange
    BY <1>1, <2>1, <2>2, Used, ChangedType
  <2>4. HandleInv' /\ FileOf' = FileOf /\ PositionOf' = PositionOf
    BY <1>1, <2>3, Rests
  <2>5. FileOf[o] = object[o].file /\ n \in File!Positions
    BY <1>1, Used DEF Positions, File!Positions
  <2>6. content' = [content EXCEPT ![FileOf[o]] = File!Resized(@, n)]
    BY <2>2, <2>3, <2>5
  <2>7. /\ File!Has(o) /\ MediumOf' = MediumOf /\ got' = File!Done("SetSize")
    BY <1>1, <1>5, Used, Media DEF HasDone
  <2>8. File!SetSize(o)
    BY <1>1, <2>4, <2>5, <2>6, <2>7 DEF File!SetSize, FileOf, PositionOf, MediumOf
  <2>. QED BY <2>4, <2>8
<1>. QED BY <1>2, <1>4, <1>5

(* Moving there is nothing yet.                                             *)
LEMMA SizeMoves ==
  ASSUME HandleInv, NEW o \in Objects, SetSizeMoves(o)
  PROVE  HandleInv' /\ UNCHANGED File!vars
<1>1. PICK n \in Positions : Moving(o, "resize", n)
  BY DEF SetSizeMoves, Positions
<1>2. /\ Usable(o) /\ got' = got /\ content' = content /\ there' = there
      /\ kind' = kind
  BY <1>1 DEF SetSizeMoves, Moving
<1>3. HandleInv' /\ FileOf' = FileOf /\ PositionOf' = PositionOf
  BY <1>1, <1>2, Begins
<1>. QED BY <1>2, <1>3 DEF File!vars, FileOf, PositionOf

(* The method goes on, from wherever the position is, or comes back.        *)
LEMMA Proceeds ==
  ASSUME HandleInv, NEW o \in Objects, method[o].at # "idle",
         NEW s \in ObjectStates, NEW m \in MethodStates,
         object' = [object EXCEPT ![o] = s], method' = [method EXCEPT ![o] = m],
         s.file = object[o].file,
         \/ m.at = "idle" /\ s.position = method[o].saved
         \/ m.at # "idle" /\ m.saved = method[o].saved,
         there' = there, content' \in [Files -> Arrays], OwnedChange
  PROVE  HandleInv' /\ FileOf' = FileOf /\ PositionOf' = PositionOf
<1>1. s.file # NoFile /\ there' \in Files \cup {NoFile}
  BY DEF HandleInv, HandleTypes, Holds
<1>2. HandleTypes
  BY DEF HandleInv
<1>3. FileOf' = [FileOf EXCEPT ![o] = s.file] /\ FileOf[o] = s.file
  BY <1>2, Changes, States
<1>4. FileOf' = FileOf
  BY <1>3 DEF FileOf
<1>5. PositionOf[o] = method[o].saved
  BY States
<1>6. PositionOf' = [PositionOf EXCEPT ![o] = method[o].saved]
  <2>1. CASE m.at = "idle"
    <3>1. PositionOf' = [PositionOf EXCEPT ![o] = s.position]
      BY <1>2, <2>1, Changes
    <3>. QED BY <2>1, <3>1
  <2>2. CASE m.at # "idle"
    <3>1. PositionOf' = [PositionOf EXCEPT ![o] = m.saved]
      BY <1>2, <2>2, Changes
    <3>. QED BY <2>2, <3>1
  <2>. QED BY <2>1, <2>2
<1>7. Owned'
  BY <1>4, SameOwners DEF HandleInv
<1>8. HandleInv'
  BY <1>1, <1>7, Keeps
<1>. QED BY <1>4, <1>5, <1>6, <1>8 DEF PositionOf

(* The file is cut or filled up at the position the method moved to.        *)
LEMMA SettingEndOfFile ==
  ASSUME HandleInv, NEW o \in Objects, SetEndOfFile(o)
  PROVE  HandleInv' /\ (File!SetSize(o) \/ File!Failed)
<1>. DEFINE n == object[o].position
            c == File!Resized(Bytesof(o), n)
            m == [method[o] EXCEPT !.at = "restore"]
<1>1. /\ method[o].at = "resize" /\ object' = object /\ there' = there /\ kind' = kind
      /\ content \in [Files -> Arrays]
      /\ \/ Changed(o, c) /\ HasDone("SetSize")
         \/ HasFailed /\ UNCHANGED content
      /\ method' = [method EXCEPT ![o] = m]
  BY DEF SetEndOfFile, HandleInv, HandleTypes
<1>2. /\ object[o].file \in Files /\ object[o].file # NoFile
      /\ n \in Positions /\ FileOf[o] = object[o].file
      /\ object[o] \in ObjectStates /\ object' = [object EXCEPT ![o] = object[o]]
  BY <1>1, States DEF HandleInv, Holds
<1>3. m \in MethodStates /\ m.at # "idle" /\ m.saved = method[o].saved
  BY States DEF MethodStates
<1>4. Bytesof(o) \in Arrays /\ Bytesof(o) = content[FileOf[o]]
  BY <1>1, <1>2 DEF Bytesof
<1>5. n \in Nat /\ n <= MaxSize
  BY <1>2, FileSystemAssumption DEF Positions
<1>6. c \in Arrays /\ c = File!Resized(content[FileOf[o]], n)
  BY <1>4, <1>5, ResizedType
<1>. HIDE DEF n, c, m
<1>7. CASE HasFailed /\ UNCHANGED content
  <2>1. HandleInv' /\ FileOf' = FileOf /\ PositionOf' = PositionOf
    <3>1. method[o].at # "idle" /\ content' \in [Files -> Arrays] /\ OwnedChange
      BY <1>1, <1>7, NoChange
    <3>. QED BY <1>1, <1>2, <1>3, <3>1, Proceeds
  <2>. QED BY <1>1, <1>7, <2>1, Fails
<1>8. CASE Changed(o, c) /\ HasDone("SetSize")
  <2>1. /\ content' = [content EXCEPT ![object[o].file] = c]
        /\ content' \in [Files -> Arrays] /\ OwnedChange
    BY <1>2, <1>6, <1>8, ChangedType
  <2>2. HandleInv' /\ FileOf' = FileOf /\ PositionOf' = PositionOf
    <3>1. method[o].at # "idle"
      BY <1>1
    <3>. QED BY <1>1, <1>2, <1>3, <2>1, <3>1, Proceeds
  <2>3. content' = [content EXCEPT ![FileOf[o]] = File!Resized(@, n)]
    BY <1>2, <1>6, <2>1
  <2>4. File!Has(o) /\ n \in File!Positions
    BY <1>2 DEF File!Has, Positions, File!Positions
  <2>5. MediumOf' = MediumOf /\ got' = File!Done("SetSize")
    BY <1>1, <1>8, Media DEF HasDone
  <2>6. File!SetSize(o)
    BY <1>1, <2>2, <2>3, <2>4, <2>5 DEF File!SetSize, FileOf, PositionOf, MediumOf
  <2>. QED BY <2>2, <2>6
<1>. QED BY <1>1, <1>7, <1>8

(* The position is back where it was, and ByteFile sees nothing of it.      *)
LEMMA Restoring ==
  ASSUME HandleInv, NEW o \in Objects, Restore(o)
  PROVE  HandleInv' /\ UNCHANGED File!vars
<1>. DEFINE s == [object[o] EXCEPT !.position = method[o].saved]
<1>1. /\ method[o].at = "restore" /\ object' = [object EXCEPT ![o] = s]
      /\ method' = [method EXCEPT ![o] = Idle]
      /\ there' = there /\ content' = content /\ got' = got /\ kind' = kind
  BY DEF Restore, MovedTo, Before
<1>2. /\ s \in ObjectStates /\ s.position = method[o].saved /\ s.file = object[o].file
      /\ Idle \in MethodStates /\ Idle.at = "idle"
  BY States, Constants DEF Idle
<1>. HIDE DEF s
<1>3. HandleInv' /\ FileOf' = FileOf /\ PositionOf' = PositionOf
  <2>1. method[o].at # "idle" /\ content' \in [Files -> Arrays] /\ OwnedChange
    BY <1>1, NoChange
  <2>. QED BY <1>1, <1>2, <2>1, Proceeds
<1>. QED BY <1>1, <1>3 DEF File!vars, FileOf, PositionOf

-----------------------------------------------------------------------------
(* Every step of an object is one of ByteFile, or nothing to it.            *)
LEMMA StepRefines ==
  ASSUME HandleInv, NEW o \in Objects, Step(o)
  PROVE  HandleInv' /\ [File!Next]_(File!vars)
<1>1. CASE OpenReadOnly(o) \/ OpenReadWrite(o) \/ Close(o) \/ Destroy(o)
  BY <1>1, Opening
<1>2. ASSUME NEW q \in Objects \ {o}, Clone(q, o)
      PROVE  HandleInv' /\ [File!Next]_(File!vars)
  <2>1. CASE OnDisk
    BY <1>2, <2>1, Reopening
  <2>2. CASE kind = "memory"
    BY <1>2, <2>2, Copying DEF File!Next
  <2>. QED BY <1>2, <2>1, <2>2 DEF Clone
<1>3. CASE SetPosition(o)
  BY <1>3, SettingPosition DEF File!Next
<1>4. CASE Read(o)
  BY <1>4, Reading DEF File!Next
<1>5. CASE Write(o)
  BY <1>5, Writing DEF File!Next
<1>6. CASE Remove(o)
  BY <1>6, Removing DEF File!Next
<1>7. CASE Peek(o)
  BY <1>7, Peeking DEF File!Next
<1>8. CASE GetSize(o)
  BY <1>8, GettingSize DEF File!Next
<1>9. CASE SetSize(o)
  BY <1>9, SettingSize DEF File!Next
<1>10. CASE SetSizeMoves(o)
  BY <1>10, SizeMoves
<1>11. CASE SetEndOfFile(o)
  BY <1>11, SettingEndOfFile DEF File!Next
<1>12. CASE Restore(o)
  BY <1>12, Restoring
<1>. QED
  BY <1>1, <1>2, <1>3, <1>4, <1>5, <1>6, <1>7, <1>8, <1>9, <1>10, <1>11, <1>12
  DEF Step

(* So is every step, those of the directories among them.                   *)
LEMMA NextRefines ==
  HandleInv /\ [Next]_vars => HandleInv' /\ [File!Next]_(File!vars)
<1>. SUFFICES ASSUME HandleInv, [Next]_vars
              PROVE  HandleInv' /\ [File!Next]_(File!vars)
  OBVIOUS
<1>1. CASE Work
  BY <1>1, StepRefines DEF Work, ObjectsNext
<1>2. CASE Walk \/ UNCHANGED vars
  <2>1. /\ there' = there /\ content' = content /\ object' = object
        /\ method' = method /\ got' = got /\ kind' = kind
    BY <1>2 DEF Walk, vars, handleVars
  <2>2. HandleInv' /\ FileOf' = FileOf /\ PositionOf' = PositionOf
    BY <2>1, NoChange, Rests
  <2>. QED BY <2>1, <2>2 DEF File!vars, FileOf, PositionOf
<1>. QED BY <1>1, <1>2 DEF Next

(* The types; whoever is in the middle of Peek, GetSize or SetSize still    *)
(* has the file it began with; and nothing is left in a file that nobody    *)
(* can reach.                                                               *)
THEOREM HandlesAreRight == Spec => []HandleInv
<1>1. Init => HandleInv
  BY InitKeeps
<1>2. HandleInv /\ [Next]_vars => HandleInv'
  BY NextRefines
<1>. QED BY <1>1, <1>2, PTL DEF Spec

(* Any number of objects on any files behave as ByteFile says: arrays of    *)
(* bytes that Files share and StringFiles do not, a position of its own for *)
(* each object, and every method a single step, though other objects'       *)
(* system calls come between its own; StringFile's comparisons and loops do *)
(* to the bytes what ByteFile says of the operation.                        *)
THEOREM FilesAreBytes == Spec => ImplementsByteFile
<1>1. Init => HandleInv /\ File!Init
  BY InitKeeps
<1>2. HandleInv /\ [Next]_vars => HandleInv' /\ [File!Next]_(File!vars)
  BY NextRefines
<1>. QED BY <1>1, <1>2, PTL DEF Spec, ImplementsByteFile, File!Spec

-----------------------------------------------------------------------------
(* Directories.                                                             *)
Names == STRING

PrefixOf(p, r) == Tree!IsPrefixOf(p, r)

-----------------------------------------------------------------------------
(* Paths.                                                                   *)

(* A prefix has the same names, as far as it goes.                          *)
LEMMA PrefixMeans ==
  ASSUME NEW p \in Seq(Names), NEW r \in Seq(Names)
  PROVE  PrefixOf(p, r) <=> Len(p) <= Len(r) /\ \A i \in 1 .. Len(p) : p[i] = r[i]
<1>1. PICK m \in Nat : m = Len(p)
  BY LenProperties
<1>2. PICK n \in Nat : n = Len(r)
  BY LenProperties
<1>3. SUFFICES ASSUME m <= n
               PROVE  SubSeq(r, 1, m) = p <=> \A i \in 1 .. m : p[i] = r[i]
  BY <1>1, <1>2 DEF PrefixOf, Tree!IsPrefixOf
<1>4. /\ SubSeq(r, 1, m) \in Seq(Names) /\ Len(SubSeq(r, 1, m)) = m
      /\ \A i \in 1 .. m : SubSeq(r, 1, m)[i] = r[i]
  <2>1. \A i \in 1 .. m : r[i] \in Names
    BY <1>2, <1>3, ElementOfSeq
  <2>2. /\ SubSeq(r, 1, m) \in Seq(Names)
        /\ Len(SubSeq(r, 1, m)) = IF 1 <= m THEN m - 1 + 1 ELSE 0
        /\ \A i \in 1 .. m - 1 + 1 : SubSeq(r, 1, m)[i] = r[1 + i - 1]
    BY <1>2, <1>3, <2>1, SubSeqProperties
  <2>. QED BY <2>2
<1>. DEFINE b == SubSeq(r, 1, m)
<1>5. b \in Seq(Names) /\ Len(b) = m /\ \A i \in 1 .. m : b[i] = r[i]
  BY <1>4
<1>. HIDE DEF b
<1>6. b = p <=> \A i \in 1 .. m : p[i] = r[i]
  <2>1. ASSUME \A i \in 1 .. m : p[i] = r[i] PROVE b = p
    <3>1. Len(b) = Len(p) /\ \A i \in 1 .. Len(b) : b[i] = p[i]
      BY <1>1, <1>5, <2>1
    <3>. QED BY <1>5, <3>1, SeqEqual
  <2>. QED BY <1>5, <2>1
<1>. QED BY <1>6 DEF b

(* A path is below itself.                                                  *)
LEMMA PrefixSelf ==
  ASSUME NEW p \in Seq(Names)
  PROVE  PrefixOf(p, p)
BY PrefixMeans, LenProperties

(* What is below something below is below.                                  *)
LEMMA PrefixPrefix ==
  ASSUME NEW p \in Seq(Names), NEW r \in Seq(Names), NEW u \in Seq(Names),
         PrefixOf(p, r), PrefixOf(r, u)
  PROVE  PrefixOf(p, u)
<1>1. Len(p) \in Nat /\ Len(r) \in Nat /\ Len(u) \in Nat
  BY LenProperties
<1>2. Len(p) <= Len(r) /\ \A i \in 1 .. Len(p) : p[i] = r[i]
  BY PrefixMeans
<1>3. Len(r) <= Len(u) /\ \A i \in 1 .. Len(r) : r[i] = u[i]
  BY PrefixMeans
<1>4. Len(p) <= Len(u) /\ \A i \in 1 .. Len(p) : p[i] = u[i]
  BY <1>1, <1>2, <1>3
<1>. QED BY <1>4, PrefixMeans

(* What an entry is called.                                                 *)
LEMMA Appended ==
  ASSUME NEW p \in Seq(Names), NEW n \in Names
  PROVE  /\ Append(p, n) \in Seq(Names) /\ Len(Append(p, n)) = Len(p) + 1
         /\ \A i \in 1 .. Len(p) : Append(p, n)[i] = p[i]
         /\ Append(p, n)[Len(p) + 1] = n
         /\ PrefixOf(p, Append(p, n))
<1>. DEFINE a == Append(p, n)
<1>1. /\ a \in Seq(Names) /\ Len(a) = Len(p) + 1
      /\ \A i \in 1 .. Len(p) : a[i] = p[i]
      /\ a[Len(p) + 1] = n
  BY AppendProperties
<1>. HIDE DEF a
<1>2. Len(p) \in Nat
  BY LenProperties
<1>3. PrefixOf(p, a)
  BY <1>1, <1>2, PrefixMeans
<1>. QED BY <1>1, <1>3 DEF a

(* An entry of a directory below another is below that one.                 *)
LEMMA PrefixOfEntry ==
  ASSUME NEW p \in Seq(Names), NEW r \in Seq(Names), NEW n \in Names, PrefixOf(p, r)
  PROVE  Append(r, n) \in Seq(Names) /\ PrefixOf(p, Append(r, n))
<1>. DEFINE a == Append(r, n)
<1>1. a \in Seq(Names) /\ PrefixOf(r, a)
  BY Appended
<1>. HIDE DEF a
<1>2. PrefixOf(p, a)
  BY <1>1, PrefixPrefix
<1>. QED BY <1>1, <1>2 DEF a

(* Two entries of a directory have nothing in common.                       *)
LEMMA EntriesApart ==
  ASSUME NEW p \in Seq(Names), NEW n \in Names, NEW m \in Names, NEW u \in Seq(Names),
         PrefixOf(Append(p, n), u), PrefixOf(Append(p, m), u)
  PROVE  n = m
<1>. DEFINE a == Append(p, n)
            b == Append(p, m)
<1>1. a \in Seq(Names) /\ Len(a) = Len(p) + 1 /\ a[Len(p) + 1] = n
  BY Appended
<1>2. b \in Seq(Names) /\ Len(b) = Len(p) + 1 /\ b[Len(p) + 1] = m
  BY Appended
<1>3. PrefixOf(a, u) /\ PrefixOf(b, u)
  OBVIOUS
<1>. HIDE DEF a, b
<1>4. Len(p) \in Nat
  BY LenProperties
<1>5. \A i \in 1 .. Len(a) : a[i] = u[i]
  BY <1>1, <1>3, PrefixMeans
<1>6. \A i \in 1 .. Len(b) : b[i] = u[i]
  BY <1>2, <1>3, PrefixMeans
<1>7. Len(p) + 1 \in 1 .. Len(p) + 1
  BY <1>4
<1>. QED BY <1>1, <1>2, <1>5, <1>6, <1>7

(* The directory above.                                                     *)
LEMMA ParentIs ==
  ASSUME NEW p \in Seq(Names)
  PROVE  /\ Tree!Parent(p) \in Seq(Names) /\ PrefixOf(Tree!Parent(p), p)
         /\ p # << >> => Len(Tree!Parent(p)) = Len(p) - 1
         /\ p # << >> => Len(p) # 0
<1>1. PICK m \in Nat : m = Len(p)
  BY LenProperties
<1>. DEFINE r == SubSeq(p, 1, m - 1)
<1>2. Tree!Parent(p) = r
  BY <1>1 DEF Tree!Parent
<1>3. p # << >> => m # 0
  BY <1>1, EmptySeq
<1>4. \A i \in 1 .. m - 1 : p[i] \in Names
  BY <1>1, ElementOfSeq
<1>5. 1 \in Int /\ m - 1 \in Int
  OBVIOUS
<1>6. /\ SubSeq(p, 1, m - 1) \in Seq(Names)
      /\ Len(SubSeq(p, 1, m - 1)) = IF 1 <= m - 1 THEN m - 1 - 1 + 1 ELSE 0
      /\ \A i \in 1 .. m - 1 - 1 + 1 : SubSeq(p, 1, m - 1)[i] = p[1 + i - 1]
  BY ONLY <1>4, <1>5, SubSeqProperties
<1>7. r \in Seq(Names) /\ Len(r) <= m /\ (m # 0 => Len(r) = m - 1)
      /\ \A i \in 1 .. Len(r) : r[i] = p[i]
  BY <1>6
<1>. HIDE DEF r
<1>8. PrefixOf(r, p)
  BY <1>1, <1>7, PrefixMeans
<1>. QED BY <1>1, <1>2, <1>3, <1>7, <1>8

(* A path that is on the way to another, or below it: so is its parent.     *)
LEMMA ParentInTheWay ==
  ASSUME NEW p \in Seq(Names), NEW c \in Seq(Names), p # << >>,
         PrefixOf(p, c) \/ PrefixOf(c, p)
  PROVE  PrefixOf(Tree!Parent(p), c) \/ PrefixOf(c, Tree!Parent(p))
<1>. DEFINE r == Tree!Parent(p)
<1>1. r \in Seq(Names) /\ PrefixOf(r, p) /\ Len(r) = Len(p) - 1 /\ Len(p) # 0
  BY ParentIs
<1>. HIDE DEF r
<1>2. CASE PrefixOf(p, c)
  BY <1>1, <1>2, PrefixPrefix DEF r
<1>3. CASE PrefixOf(c, p)
  <2>1. Len(c) \in Nat /\ Len(p) \in Nat /\ Len(r) \in Nat
    BY <1>1, LenProperties
  <2>2. \A i \in 1 .. Len(c) : c[i] = p[i]
    BY <1>3, PrefixMeans
  <2>3. \A i \in 1 .. Len(r) : r[i] = p[i]
    BY <1>1, PrefixMeans
  <2>4. CASE Len(c) <= Len(r)
    <3>1. \A i \in 1 .. Len(c) : c[i] = r[i]
      BY <2>1, <2>2, <2>3, <2>4
    <3>2. PrefixOf(c, r)
      BY <1>1, <2>4, <3>1, PrefixMeans
    <3>. QED BY <3>2 DEF r
  <2>5. CASE ~(Len(c) <= Len(r))
    <3>1. Len(r) <= Len(c) /\ \A i \in 1 .. Len(r) : r[i] = c[i]
      BY <2>1, <2>2, <2>3, <2>5
    <3>2. PrefixOf(r, c)
      BY <1>1, <3>1, PrefixMeans
    <3>. QED BY <3>2 DEF r
  <2>. QED BY <2>4, <2>5
<1>. QED BY <1>2, <1>3

-----------------------------------------------------------------------------
(* The state.                                                               *)

Nodes == [kind : {"none", "file", "dir", "link"}, data : Seq(Names)]
Frames == [op : {"create", "delete", "copy"}, path : Seq(Names), to : Seq(Names),
           at : Seq(Names), phase : {"begin", "again", "entries", "remove"},
           todo : SUBSET Names, link : Seq(Names)]
CallStates == [op : {"none", "create", "delete", "copy"},
               path : Seq(Names), to : Seq(Names), result : BOOLEAN]

WalkTypes ==
  /\ tree \in [Paths -> Nodes] /\ before \in [Paths -> Nodes]
  /\ call \in CallStates
  /\ stack \in Seq(Frames)

(* p is, or is below, what one of the links leads to.                       *)
Led(t, p, links) == \E r \in links : PrefixOf(t[r].data, p)

(* What may be deleted.                                                     *)
Inside(p) ==
  \/ PrefixOf(call.path, p)
  \/ /\ os = "win32"
     /\ \A links \in SUBSET Tree!Links(before, Paths) :
          Tree!Links(before, Tree!Below(call.path) \cup Tree!LeadTo(before, links)) \subseteq links =>
            PrefixOf(call.path, p) \/ Led(before, p, links)
  \/ os # "win32" /\ Led(before, p, Tree!Links(before, {call.path} \cap Paths))

(* On the way to the new directory, or in it.                               *)
InTheWay(p) == PrefixOf(p, call.to) \/ PrefixOf(call.to, p)

(* What the links in the new directory lead to, the links there, and so on. *)
Reached(p) ==
  \A links \in SUBSET Tree!Links(tree, Paths) :
    Tree!Links(tree, Tree!Below(call.to) \cup Tree!LeadTo(tree, links)) \subseteq links =>
      Led(tree, p, links)

(* What is written through links.                                           *)
Through(p) ==
  IF Tree!Shared THEN Reached(p)
                 ELSE Led(before, p, Tree!Links(before, Tree!Below(call.to)))

(* Where a directory may be copied to.                                      *)
Arrives(p) == PrefixOf(call.to, p) \/ (Tree!Shared /\ Reached(p))

(* What the call may change.                                                *)
Allowed(p) ==
  /\ call.op = "create" => PrefixOf(p, call.path)
  /\ call.op = "delete" => Inside(p)
  /\ call.op = "copy" => InTheWay(p) \/ Through(p)

(* The frames of each call.                                                 *)
MadeBy(f) == f.op = "create" /\ PrefixOf(f.path, call.path)

DeletedBy(f) ==
  /\ f.op = "delete" /\ Inside(f.path) /\ Inside(f.at)
  /\ os # "win32" /\ f.phase = "begin" /\ Tree!Kind(tree, f.path) = "link" => f.path = call.path

(* A directory that is made through a link needs none made above it.        *)
CopiedBy(f) ==
  \/ /\ f.op = "create"
     /\ \/ InTheWay(f.path)
        \/ /\ Tree!Shared /\ Reached(f.path)
           /\ Tree!Kind(tree, Tree!Parent(f.path)) = "dir"
  \/ f.op = "copy" /\ Arrives(f.to)

FrameFor(f) ==
  /\ call.op = "create" => MadeBy(f)
  /\ call.op = "delete" => DeletedBy(f)
  /\ call.op = "copy" => CopiedBy(f)

(* The new directory of a frame, and what the frame has still to copy to;   *)
(* where links may lead from one to the other, nothing is said of them.     *)
Ahead(f, p) ==
  /\ ~Tree!Shared /\ f.op = "copy"
  /\ \/ f.phase = "begin" /\ PrefixOf(f.to, p)
     \/ /\ f.phase = "entries"
        /\ p = f.to \/ \E n \in f.todo : PrefixOf(Append(f.to, n), p)

(* No two frames have the same to copy to.                                  *)
Divided(s) ==
  \A i, j \in 1 .. Len(s) : \A p \in Paths : Ahead(s[i], p) /\ Ahead(s[j], p) => i = j

Started ==
  /\ call.op = "none" => tree = before /\ stack = << >>
  /\ os \in {"none", "posix", "win32"}
  /\ call.op # "none" => os # "none"

Framed == \A i \in 1 .. Len(stack) : FrameFor(stack[i])

Bottom == stack # << >> => stack[Len(stack)].path = call.path

Confined == \A p \in Paths : tree[p] # before[p] => p \in others \/ Allowed(p)

(* A link was there before, or it has been copied and is done with.         *)
LinksBehind ==
  \A p \in Paths : tree[p].kind = "link" /\ tree[p] # before[p] =>
     call.op = "copy" /\ \A i \in 1 .. Len(stack) : ~Ahead(stack[i], p)

(* Copying keeps files files.                                               *)
FilesStay ==
  call.op = "copy" => \A p \in Paths : before[p].kind = "file" => tree[p].kind = "file"

Origin == os # "none" => before \in Trees

TreeInv ==
  /\ WalkTypes /\ Started /\ Framed /\ Bottom /\ Origin
  /\ Confined /\ LinksBehind /\ Divided(stack) /\ FilesStay

-----------------------------------------------------------------------------
(* The stack.                                                               *)

(* The first frame gives way to those of u.                                 *)
Over(u, s) == u \o Tail(s)

(* What is then where.                                                      *)
LEMMA OverIs ==
  ASSUME NEW S, NEW u \in Seq(S), NEW s \in Seq(S), s # << >>
  PROVE  /\ Over(u, s) \in Seq(S)
         /\ Len(Over(u, s)) = Len(u) + Len(s) - 1
         /\ \A i \in 1 .. Len(u) : Over(u, s)[i] = u[i]
         /\ \A i \in Len(u) + 1 .. Len(u) + Len(s) - 1 : Over(u, s)[i] = s[i - Len(u) + 1]
<1>. DEFINE t == Tail(s)
<1>1. PICK m \in Nat : m = Len(u)
  BY LenProperties
<1>2. PICK n \in Nat : n = Len(s)
  BY LenProperties
<1>3. n # 0
  BY <1>2, EmptySeq
<1>4. t \in Seq(S) /\ Len(t) = n - 1 /\ \A i \in 1 .. n - 1 : t[i] = s[i + 1]
  BY <1>2, HeadTailProperties
<1>. HIDE DEF t
<1>. DEFINE o == u \o t
<1>5. /\ o \in Seq(S) /\ Len(o) = m + (n - 1)
      /\      \A i \in 1 .. m + (n - 1) : o[i] = IF i <= m THEN u[i] ELSE t[i - m]
  <2>1. u \in Seq(S) /\ t \in Seq(S) /\ Len(u) = m /\ Len(t) = n - 1
    BY <1>1, <1>4
  <2>2. /\ o \in Seq(S) /\ Len(o) = Len(u) + Len(t)
        /\ \A i \in 1 .. Len(u) + Len(t) : o[i] = IF i <= Len(u) THEN u[i] ELSE t[i - Len(u)]
    BY ONLY <2>1, ConcatProperties, ZenonT(30)
  <2>. HIDE DEF o
  <2>. QED BY ONLY <2>1, <2>2, Zenon
<1>6. Over(u, s) = o
  BY DEF Over, t
<1>. HIDE DEF o
<1>7. \A i \in 1 .. m : o[i] = u[i]
  BY <1>3, <1>5
<1>8. ASSUME NEW i \in m + 1 .. m + n - 1 PROVE o[i] = s[i - m + 1]
  <2>1. i \in 1 .. m + (n - 1) /\ ~(i <= m) /\ i - m \in 1 .. n - 1
    BY <1>3
  <2>2. o[i] = t[i - m]
    BY <1>5, <2>1
  <2>. QED BY <1>4, <2>1, <2>2
<1>9. m + (n - 1) = m + n - 1
  OBVIOUS
<1>. QED BY <1>1, <1>2, <1>5, <1>6, <1>7, <1>8, <1>9

(* A stack without its first frame.                                         *)
LEMMA OverNothing ==
  ASSUME NEW S, NEW s \in Seq(S), s # << >>
  PROVE  Over(<< >>, s) = Tail(s) /\ << >> \in Seq(S)
<1>1. Tail(s) \in Seq(S)
  BY HeadTailProperties
<1>. QED BY <1>1, ConcatEmptySeq, EmptySeq DEF Over

(* A stack that stays.                                                      *)
LEMMA OverItself ==
  ASSUME NEW S, NEW s \in Seq(S), s # << >>
  PROVE  /\ << s[1] >> \in Seq(S) /\ Over(<< s[1] >>, s) = s
<1>. DEFINE u == << s[1] >>
            o == Over(u, s)
<1>1. Len(s) \in Nat /\ Len(s) # 0
  BY LenProperties, EmptySeq
<1>2. s[1] \in S
  BY <1>1, ElementOfSeq
<1>3. u \in Seq(S) /\ Len(u) = 1 /\ u[1] = s[1]
  BY <1>2
<1>. HIDE DEF u
<1>4. /\ o \in Seq(S) /\ Len(o) = Len(u) + Len(s) - 1
      /\ \A i \in 1 .. Len(u) : o[i] = u[i]
      /\ \A i \in Len(u) + 1 .. Len(u) + Len(s) - 1 : o[i] = s[i - Len(u) + 1]
  BY <1>3, OverIs
<1>. HIDE DEF o
<1>5. Len(o) = Len(s)
  BY <1>1, <1>3, <1>4
<1>6. ASSUME NEW i \in 1 .. Len(o) PROVE o[i] = s[i]
  <2>1. i = 1 \/ i \in 1 + 1 .. 1 + Len(s) - 1
    BY <1>1, <1>5
  <2>2. i # 1 => i - 1 + 1 = i
    BY <1>5
  <2>. QED BY <1>3, <1>4, <2>1, <2>2
<1>7. o = s
  BY <1>4, <1>5, <1>6, SeqEqual
<1>. QED BY <1>3, <1>7 DEF o, u

(* One frame or two on top of another.                                      *)
Joined(u, v) == u \o v
LongerBy(u, x) == Append(u, x)

(* One frame more.                                                          *)
LEMMA Longer ==
  ASSUME NEW S, NEW u \in Seq(S), NEW x \in S
  PROVE  /\ LongerBy(u, x) \in Seq(S) /\ Len(LongerBy(u, x)) = Len(u) + 1
         /\ \A i \in 1 .. Len(u) : LongerBy(u, x)[i] = u[i]
         /\ LongerBy(u, x)[Len(u) + 1] = x
BY AppendProperties DEF LongerBy

(* It is the same to append a frame.                                        *)
LEMMA OneAbove ==
  ASSUME NEW S, NEW u \in Seq(S), NEW x \in S
  PROVE  Joined(u, << x >>) = LongerBy(u, x)
<1>. DEFINE v == << x >>
            c == u \o v
            a == Append(u, x)
<1>1. v \in Seq(S) /\ Len(v) = 1 /\ v[1] = x
  OBVIOUS
<1>2. PICK m \in Nat : m = Len(u)
  BY LenProperties
<1>. HIDE DEF v
<1>3. /\ c \in Seq(S) /\ Len(c) = m + 1
      /\ \A i \in 1 .. m + 1 : c[i] = IF i <= m THEN u[i] ELSE v[i - m]
  <2>1. u \in Seq(S) /\ v \in Seq(S) /\ Len(u) = m /\ Len(v) = 1
    BY <1>1, <1>2
  <2>2. /\ c \in Seq(S) /\ Len(c) = Len(u) + Len(v)
        /\ \A i \in 1 .. Len(u) + Len(v) : c[i] = IF i <= Len(u) THEN u[i] ELSE v[i - Len(u)]
    BY ONLY <2>1, ConcatProperties, ZenonT(30)
  <2>. HIDE DEF c
  <2>. QED BY ONLY <2>1, <2>2, Zenon
<1>4. /\ a \in Seq(S) /\ Len(a) = m + 1
      /\ \A i \in 1 .. m : a[i] = u[i]
      /\ a[m + 1] = x
  BY <1>2, AppendProperties
<1>. HIDE DEF c, a
<1>5. ASSUME NEW i \in 1 .. m + 1 PROVE c[i] = a[i]
  <2>1. CASE i <= m
    BY <1>3, <1>4, <2>1
  <2>2. CASE ~(i <= m)
    <3>1. i = m + 1 /\ i - m = 1
      BY <2>2
    <3>. QED BY <1>1, <1>3, <1>4, <2>2, <3>1
  <2>. QED BY <2>1, <2>2
<1>6. c = a
  <2>1. Len(c) = Len(a) /\ \A i \in 1 .. Len(c) : c[i] = a[i]
    BY <1>3, <1>4, <1>5
  <2>. QED BY <1>3, <1>4, <2>1, SeqEqual
<1>. QED BY <1>6 DEF c, a, v, Joined, LongerBy

(* Two or three frames.                                                     *)
LEMMA Above ==
  ASSUME NEW S, NEW x \in S, NEW y \in S, NEW z \in S
  PROVE  /\ << x >> \in Seq(S) /\ Len(<< x >>) = 1 /\ << x >>[1] = x
         /\ << x >> \o << y >> \in Seq(S) /\ Len(<< x >> \o << y >>) = 2
         /\ (<< x >> \o << y >>)[1] = x /\ (<< x >> \o << y >>)[2] = y
         /\ << x, y >> \o << z >> \in Seq(S) /\ Len(<< x, y >> \o << z >>) = 3
         /\ (<< x, y >> \o << z >>)[1] = x /\ (<< x, y >> \o << z >>)[2] = y
         /\ (<< x, y >> \o << z >>)[3] = z
<1>1. << x >> \in Seq(S) /\ Len(<< x >>) = 1 /\ << x >>[1] = x
  OBVIOUS
<1>2. /\ << x, y >> \in Seq(S) /\ Len(<< x, y >>) = 2
      /\ << x, y >>[1] = x /\ << x, y >>[2] = y
  OBVIOUS
<1>. DEFINE v == << x >>
            w == << x, y >>
<1>3. /\ v \in Seq(S) /\ Len(v) = 1 /\ v[1] = x
      /\ w \in Seq(S) /\ Len(w) = 2 /\ w[1] = x /\ w[2] = y
  BY <1>1, <1>2
<1>. HIDE DEF v, w
<1>4. Joined(v, << y >>) = LongerBy(v, y) /\ Joined(w, << z >>) = LongerBy(w, z)
  BY <1>3, OneAbove
<1>5. /\ LongerBy(v, y) \in Seq(S) /\ Len(LongerBy(v, y)) = 2
      /\ LongerBy(v, y)[1] = x /\ LongerBy(v, y)[2] = y
  <2>0. v \in Seq(S) /\ y \in S
    BY <1>3
  <2>1. 1 \in 1 .. Len(v) /\ Len(v) + 1 = 2
    BY <1>3
  <2>2. /\ LongerBy(v, y) \in Seq(S) /\ Len(LongerBy(v, y)) = Len(v) + 1
        /\ \A i \in 1 .. Len(v) : LongerBy(v, y)[i] = v[i]
        /\ LongerBy(v, y)[Len(v) + 1] = y
    BY ONLY <2>0, Longer, Zenon
  <2>. QED BY <1>3, <2>1, <2>2
<1>6. /\ LongerBy(w, z) \in Seq(S) /\ Len(LongerBy(w, z)) = 3
      /\ LongerBy(w, z)[1] = x /\ LongerBy(w, z)[2] = y /\ LongerBy(w, z)[3] = z
  <2>0. w \in Seq(S) /\ z \in S
    BY <1>3
  <2>1. 1 \in 1 .. Len(w) /\ 2 \in 1 .. Len(w) /\ Len(w) + 1 = 3
    BY <1>3
  <2>2. /\ LongerBy(w, z) \in Seq(S) /\ Len(LongerBy(w, z)) = Len(w) + 1
        /\ \A i \in 1 .. Len(w) : LongerBy(w, z)[i] = w[i]
        /\ LongerBy(w, z)[Len(w) + 1] = z
    BY ONLY <2>0, Longer, Zenon
  <2>. QED BY <1>3, <2>1, <2>2
<1>7. /\ v \o << y >> \in Seq(S) /\ Len(v \o << y >>) = 2
      /\ (v \o << y >>)[1] = x /\ (v \o << y >>)[2] = y
      /\ w \o << z >> \in Seq(S) /\ Len(w \o << z >>) = 3
      /\ (w \o << z >>)[1] = x /\ (w \o << z >>)[2] = y /\ (w \o << z >>)[3] = z
  BY <1>4, <1>5, <1>6 DEF Joined
<1>. QED BY <1>1, <1>7 DEF v, w

-----------------------------------------------------------------------------
(* What a step must keep to.                                                *)

(* The call stays the same call.                                            *)
SameCall ==
  /\ call' \in CallStates
  /\ call'.op = call.op /\ call'.path = call.path /\ call'.to = call.to
  /\ os' = os /\ before' = before

(* The bounds that only depend on the call stay.                            *)
LEMMA SameBounds ==
  ASSUME SameCall
  PROVE  /\ \A p : Inside(p)' <=> Inside(p)
         /\ \A p : InTheWay(p)' <=> InTheWay(p)
         /\ Tree!Shared' <=> Tree!Shared
         /\ \A f, p : Ahead(f, p)' <=> Ahead(f, p)
<1>1. /\ call'.op = call.op /\ call'.path = call.path /\ call'.to = call.to
      /\ os' = os /\ before' = before
  BY DEF SameCall
<1>2. \A S : Tree!Links(before, S)' = Tree!Links(before, S)
  BY <1>1 DEF Tree!Links
<1>3. \A S : Tree!LeadTo(before, S)' = Tree!LeadTo(before, S)
  BY <1>1 DEF Tree!LeadTo
<1>4. \A p, S : Led(before, p, S)' <=> Led(before, p, S)
  BY <1>1 DEF Led
<1>5. /\ Tree!Below(call.path)' = Tree!Below(call.path)
      /\ Tree!Below(call.to)' = Tree!Below(call.to)
  BY <1>1 DEF Tree!Below, Tree!IsPrefixOf
<1>6. \A p : Inside(p)' <=> Inside(p)
  BY <1>1, <1>2, <1>3, <1>4, <1>5 DEF Inside
<1>7. \A p : InTheWay(p)' <=> InTheWay(p)
  BY <1>1 DEF InTheWay
<1>8. Tree!Shared' <=> Tree!Shared
  <2>1. Tree!Links(before, Tree!Below(call.to))' = Tree!Links(before, Tree!Below(call.to))
    BY <1>1, <1>5 DEF Tree!Links
  <2>2. \A p : Tree!Kind(before, p)' = Tree!Kind(before, p)
    BY <1>1 DEF Tree!Kind
  <2>. QED BY <1>1, <2>1, <2>2 DEF Tree!Shared
<1>9. \A f, p : Ahead(f, p)' <=> Ahead(f, p)
  BY <1>8 DEF Ahead
<1>. QED BY <1>6, <1>7, <1>8, <1>9

(* Copying writes where there was nothing, or a file, which stays one.      *)
Keeping ==
  call.op = "copy" =>
    \A p \in Paths : tree'[p] # tree[p] =>
      /\ tree[p].kind \in {"none", "file"}
      /\ tree[p].kind = "file" => tree'[p].kind = "file"

(* So what is reached stays within reach.                                   *)
LEMMA ReachedStays ==
  ASSUME WalkTypes, SameCall, tree' \in [Paths -> Nodes], Keeping, call.op = "copy",
         NEW p, Reached(p)
  PROVE  Reached(p)'
<1>1. call'.to = call.to
  BY DEF SameCall
<1>2. \A r \in Tree!Links(tree, Paths) : tree'[r] = tree[r] /\ r \in Paths
  BY DEF Keeping, Tree!Links
<1>3. \A S : Tree!Links(tree, S) \subseteq S
  BY DEF Tree!Links
<1>4. ASSUME NEW links \in SUBSET Tree!Links(tree', Paths),
             Tree!Links(tree', Tree!Below(call.to) \cup Tree!LeadTo(tree', links))
               \subseteq links
      PROVE  Led(tree', p, links)
  <2>. DEFINE old == links \cap Tree!Links(tree, Paths)
  <2>1. old \in SUBSET Tree!Links(tree, Paths) /\ old \subseteq links
    OBVIOUS
  <2>2. \A r \in old : tree'[r] = tree[r]
    BY <1>2
  <2>. HIDE DEF old
  <2>3. Tree!LeadTo(tree, old) \subseteq Tree!LeadTo(tree', links)
    BY <2>1, <2>2 DEF Tree!LeadTo
  <2>4. ASSUME NEW r \in Tree!Links(tree, Tree!Below(call.to) \cup Tree!LeadTo(tree, old))
        PROVE  r \in old
    <3>1. /\ r \in Tree!Below(call.to) \cup Tree!LeadTo(tree', links)
          /\ tree[r].kind = "link"
      BY <2>3 DEF Tree!Links
    <3>2. r \in Paths
      BY <3>1 DEF Tree!Below, Tree!LeadTo
    <3>3. r \in Tree!Links(tree, Paths)
      BY <3>1, <3>2 DEF Tree!Links
    <3>4. tree'[r].kind = "link"
      BY <1>2, <3>1, <3>3
    <3>5. r \in links
      BY <1>4, <3>1, <3>4 DEF Tree!Links
    <3>. QED BY <3>3, <3>5 DEF old
  <2>5. Led(tree, p, old)
    BY <2>1, <2>4 DEF Reached
  <2>. QED BY <2>1, <2>2, <2>5 DEF Led
<1>5. Tree!Below(call.to)' = Tree!Below(call.to)
  BY <1>1 DEF Tree!Below, Tree!IsPrefixOf
<1>. QED BY <1>4, <1>5 DEF Reached

(* What the call may change it may change later.                            *)
LEMMA AllowedStays ==
  ASSUME WalkTypes, SameCall, tree' \in [Paths -> Nodes], Keeping, NEW p, Allowed(p)
  PROVE  Allowed(p)'
<1>1. /\ call'.op = call.op /\ call'.path = call.path /\ call'.to = call.to
      /\ before' = before
  BY DEF SameCall
<1>2. call.op = "delete" => Inside(p)'
  BY SameBounds DEF Allowed
<1>3. call.op = "copy" => InTheWay(p)' \/ Through(p)'
  <2>1. SUFFICES ASSUME call.op = "copy", ~InTheWay(p) PROVE Through(p)'
    BY SameBounds
  <2>2. Through(p)
    BY <2>1 DEF Allowed
  <2>3. CASE Tree!Shared
    <3>1. Reached(p)'
      BY <2>1, <2>2, <2>3, ReachedStays DEF Through
    <3>2. Tree!Shared'
      BY <2>3, SameBounds
    <3>. QED BY <3>1, <3>2 DEF Through
  <2>4. CASE ~Tree!Shared
    <3>1. Led(before, p, Tree!Links(before, Tree!Below(call.to)))'
      BY <1>1, <2>2, <2>4 DEF Through, Led, Tree!Links, Tree!Below, Tree!IsPrefixOf
    <3>2. ~Tree!Shared'
      BY <2>4, SameBounds
    <3>. QED BY <3>1, <3>2 DEF Through
  <2>. QED BY <2>3, <2>4
<1>. QED BY <1>1, <1>2, <1>3 DEF Allowed

(* Directories stay, and a frame that copies stays right.                   *)
LEMMA CopiedStays ==
  ASSUME WalkTypes, SameCall, tree' \in [Paths -> Nodes], Keeping, call.op = "copy",
         NEW f \in Frames, CopiedBy(f)
  PROVE  CopiedBy(f)'
<1>1. \A p : Tree!Kind(tree, p) = "dir" => Tree!Kind(tree', p) = "dir"
  BY DEF Keeping, Tree!Kind
<1>2. \A p : Reached(p) => Reached(p)'
  BY ReachedStays
<1>3. call'.to = call.to
  BY DEF SameCall
<1>4. /\ \A p : InTheWay(p)' <=> InTheWay(p)
      /\ Tree!Shared' <=> Tree!Shared
  BY SameBounds
<1>5. CASE f.op = "create" /\ InTheWay(f.path)
  BY <1>4, <1>5 DEF CopiedBy
<1>6. CASE /\ f.op = "create" /\ Tree!Shared /\ Reached(f.path)
           /\ Tree!Kind(tree, Tree!Parent(f.path)) = "dir"
  <2>1. Reached(f.path)' /\ Tree!Shared' /\ Tree!Kind(tree', Tree!Parent(f.path)) = "dir"
    BY <1>1, <1>2, <1>4, <1>6
  <2>. QED BY <1>6, <2>1 DEF CopiedBy
<1>7. CASE f.op = "copy" /\ Arrives(f.to)
  <2>1. Arrives(f.to)'
    BY <1>2, <1>3, <1>4, <1>7 DEF Arrives
  <2>. QED BY <1>7, <2>1 DEF CopiedBy
<1>. QED BY <1>5, <1>6, <1>7 DEF CopiedBy

(* A frame stays right, as long as deleting makes no links.                 *)
LEMMA SameFrames ==
  ASSUME WalkTypes, SameCall, tree' \in [Paths -> Nodes], Keeping,
         \A p \in Paths : tree'[p].kind = "link" /\ tree'[p] # tree[p] => call.op = "copy",
         NEW f \in Frames, FrameFor(f)
  PROVE  FrameFor(f)'
<1>1. /\ call'.op = call.op /\ call'.path = call.path /\ call'.to = call.to
      /\ os' = os
  BY DEF SameCall
<1>2. call.op = "create" => MadeBy(f)'
  BY <1>1 DEF FrameFor, MadeBy
<1>3. call.op = "copy" => CopiedBy(f)'
  BY CopiedStays DEF FrameFor
<1>4. call.op = "delete" => DeletedBy(f)'
  <2>1. SUFFICES ASSUME call.op = "delete" PROVE DeletedBy(f)'
    OBVIOUS
  <2>2. DeletedBy(f) /\ call.op # "copy"
    BY <2>1 DEF FrameFor
  <2>3. Inside(f.path)' /\ Inside(f.at)'
    BY <2>2, SameBounds DEF DeletedBy
  <2>4. Tree!Kind(tree', f.path) = "link" => Tree!Kind(tree, f.path) = "link"
    BY <2>2 DEF Tree!Kind
  <2>. QED BY <1>1, <2>2, <2>3, <2>4 DEF DeletedBy
<1>. QED BY <1>1, <1>2, <1>3, <1>4 DEF FrameFor

(* The frames u do what the first frame had to do, or less, and nothing but *)
(* what may be changed is changed.                                          *)
Advances(u) ==
  /\ stack # << >>
  /\ stack' = Over(u, stack) \/ stack' = << >>
  /\ others \subseteq others'
  /\ tree' \in [Paths -> Nodes]
  /\ \A p \in Paths : tree'[p] # tree[p] => p \in others' \/ Allowed(p)
  /\ Keeping
  /\ \A p \in Paths : tree'[p].kind = "link" /\ tree'[p] # tree[p] =>
       /\ call.op = "copy" /\ (Tree!Shared \/ Ahead(stack[1], p))
       /\ \A k \in 1 .. Len(u) : ~Ahead(u[k], p)
  /\ \A k \in 1 .. Len(u) : FrameFor(u[k])
  /\ \A k \in 1 .. Len(u) : \A p \in Paths : Ahead(u[k], p) => Ahead(stack[1], p)
  /\ Divided(u)
  /\ Len(u) > 0 => u[Len(u)].path = stack[1].path

(* If so, TreeInv stays.                                                    *)
LEMMA Proceeding ==
  ASSUME TreeInv, SameCall, call.op # "none", NEW u \in Seq(Frames), Advances(u)
  PROVE  TreeInv'
<1>1. /\ WalkTypes /\ Started /\ Framed /\ Bottom /\ Confined /\ LinksBehind
      /\ Divided(stack) /\ FilesStay /\ Origin
  BY DEF TreeInv
<1>2. /\ stack \in Seq(Frames) /\ stack # << >>
      /\ tree \in [Paths -> Nodes] /\ before \in [Paths -> Nodes]
      /\ tree' \in [Paths -> Nodes]
  BY <1>1 DEF WalkTypes, Advances
<1>3. /\ call' \in CallStates /\ before' = before /\ os' = os
      /\ call'.op = call.op /\ call'.path = call.path
  BY DEF SameCall
<1>4. PICK n \in Nat : n = Len(stack)
  BY <1>2, LenProperties
<1>5. PICK m \in Nat : m = Len(u)
  BY LenProperties
<1>6. n # 0
  BY <1>2, <1>4, EmptySeq
<1>7. /\ stack' \in Seq(Frames)
      /\ \/ Len(stack') = 0
         \/ /\ Len(stack') = m + n - 1
            /\ \A i \in 1 .. m : stack'[i] = u[i]
            /\ \A i \in m + 1 .. m + n - 1 : stack'[i] = stack[i - m + 1]
  <2>1. CASE stack' = << >>
    BY <2>1, EmptySeq
  <2>2. CASE stack' = Over(u, stack)
    <3>1. /\ Over(u, stack) \in Seq(Frames)
          /\ Len(Over(u, stack)) = Len(u) + Len(stack) - 1
          /\ \A i \in 1 .. Len(u) : Over(u, stack)[i] = u[i]
          /\ \A i \in Len(u) + 1 .. Len(u) + Len(stack) - 1 :
               Over(u, stack)[i] = stack[i - Len(u) + 1]
      BY <1>2, OverIs
    <3>. QED BY <1>4, <1>5, <2>2, <3>1
  <2>. QED BY <2>1, <2>2 DEF Advances
(* Every frame of the new stack is one of u or one that was there.          *)
<1>8. ASSUME NEW i \in 1 .. Len(stack')
      PROVE  \/ i \in 1 .. m /\ stack'[i] = u[i]
             \/ /\ i \in m + 1 .. m + n - 1 /\ i - m + 1 \in 2 .. n
                /\ stack'[i] = stack[i - m + 1]
  <2>1. Len(stack') # 0 /\ i \in 1 .. m + n - 1
    <3>1. Len(stack') # 0
      OBVIOUS
    <3>. QED BY <1>7, <3>1
  <2>2. \/ i \in 1 .. m
        \/ i \in m + 1 .. m + n - 1 /\ i - m + 1 \in 2 .. n
    BY <2>1
  <2>. QED BY <1>7, <2>1, <2>2
<1>9. \A i \in 1 .. n : stack[i] \in Frames
  BY <1>2, <1>4, ElementOfSeq
<1>10. \A i \in 1 .. m : u[i] \in Frames
  BY <1>5, ElementOfSeq
<1>11. \A f \in Frames : FrameFor(f) => FrameFor(f)'
  <2>1. \A p \in Paths : tree'[p].kind = "link" /\ tree'[p] # tree[p] => call.op = "copy"
    BY DEF Advances
  <2>2. Keeping
    BY DEF Advances
  <2>. QED BY <1>1, <1>2, <2>1, <2>2, SameFrames
<1>12. WalkTypes'
  BY <1>2, <1>3, <1>7 DEF WalkTypes
<1>13. Started'
  BY <1>1, <1>3 DEF Started
<1>14. Framed'
  <2>1. ASSUME NEW i \in 1 .. Len(stack') PROVE FrameFor(stack[i])'
    <3>1. CASE i \in 1 .. m /\ stack'[i] = u[i]
      <4>1. u[i] \in Frames /\ FrameFor(u[i])
        BY <1>5, <1>10, <3>1 DEF Advances
      <4>2. FrameFor(u[i])'
        BY <1>11, <4>1
      <4>. QED BY <3>1, <4>2
    <3>2. CASE i - m + 1 \in 2 .. n /\ stack'[i] = stack[i - m + 1]
      <4>1. i - m + 1 \in 1 .. n
        BY <3>2
      <4>2. stack[i - m + 1] \in Frames /\ FrameFor(stack[i - m + 1])
        BY <1>1, <1>4, <1>9, <4>1 DEF Framed
      <4>. QED BY <1>11, <3>2, <4>2
    <3>. QED BY <1>8, <3>1, <3>2
  <2>. QED BY <2>1 DEF Framed
<1>15. Bottom'
  <2>1. SUFFICES ASSUME stack' # << >> PROVE stack'[Len(stack')].path = call.path
    BY <1>3 DEF Bottom
  <2>2. Len(stack') # 0 /\ Len(stack') \in Nat
    BY <1>7, <2>1, EmptySeq, LenProperties
  <2>3. Len(stack') = m + n - 1 /\ m + n - 1 # 0
    BY <1>7, <2>2
  <2>4. stack[n].path = call.path
    BY <1>1, <1>2, <1>4 DEF Bottom
  <2>5. CASE n = 1
    <3>1. m > 0 /\ m + n - 1 = m /\ m \in 1 .. m
      BY <2>3, <2>5
    <3>2. stack'[m] = u[m] /\ u[m].path = stack[1].path
      BY <1>5, <1>7, <2>2, <3>1 DEF Advances
    <3>. QED BY <2>3, <2>4, <2>5, <3>1, <3>2
  <2>6. CASE n # 1
    <3>1. m + n - 1 \in m + 1 .. m + n - 1 /\ m + n - 1 - m + 1 = n
      BY <1>6, <2>6
    <3>2. stack'[m + n - 1] = stack[m + n - 1 - m + 1]
      BY <1>7, <2>2, <3>1
    <3>. QED BY <2>3, <2>4, <3>1, <3>2
  <2>. QED BY <2>5, <2>6
<1>16. Confined'
  <2>1. SUFFICES ASSUME NEW p \in Paths, tree'[p] # before[p]
                 PROVE  p \in others' \/ Allowed(p)'
    BY <1>3 DEF Confined
  <2>2. Allowed(p) => Allowed(p)'
    BY <1>1, <1>2, AllowedStays DEF Advances
  <2>3. CASE tree'[p] # tree[p]
    BY <2>2, <2>3 DEF Advances
  <2>4. CASE tree'[p] = tree[p]
    BY <1>1, <2>1, <2>2, <2>4 DEF Confined, Advances
  <2>. QED BY <2>3, <2>4
<1>17. LinksBehind'
  <2>1. SUFFICES ASSUME NEW p \in Paths, tree'[p].kind = "link", tree'[p] # before[p]
                 PROVE  /\ call.op = "copy"
                        /\ \A i \in 1 .. Len(stack') : ~Ahead(stack'[i], p)
    BY <1>3, SameBounds DEF LinksBehind, Ahead
  <2>2. CASE tree'[p] # tree[p]
    <3>1. CASE Tree!Shared
      BY <2>1, <2>2, <3>1 DEF Advances, Ahead
    <3>2. CASE ~Tree!Shared
      <4>1. /\ call.op = "copy" /\ Ahead(stack[1], p)
            /\ \A k \in 1 .. m : ~Ahead(u[k], p)
        BY <1>5, <2>1, <2>2, <3>2 DEF Advances
      <4>2. ASSUME NEW i \in 1 .. Len(stack') PROVE ~Ahead(stack'[i], p)
        <5>1. CASE i \in 1 .. m /\ stack'[i] = u[i]
          BY <4>1, <5>1
        <5>2. CASE i - m + 1 \in 2 .. n /\ stack'[i] = stack[i - m + 1]
          <6>1. 1 \in 1 .. n /\ i - m + 1 \in 1 .. n /\ i - m + 1 # 1
            BY <5>2
          <6>2. ~Ahead(stack[i - m + 1], p)
            BY <1>1, <1>4, <4>1, <6>1 DEF Divided
          <6>. QED BY <5>2, <6>2
        <5>. QED BY <1>8, <5>1, <5>2
      <4>. QED BY <4>1, <4>2
    <3>. QED BY <3>1, <3>2
  <2>3. CASE tree'[p] = tree[p]
    <3>1. call.op = "copy" /\ \A i \in 1 .. n : ~Ahead(stack[i], p)
      BY <1>1, <1>4, <2>1, <2>3 DEF LinksBehind
    <3>2. ASSUME NEW i \in 1 .. Len(stack') PROVE ~Ahead(stack'[i], p)
      <4>1. CASE i \in 1 .. m /\ stack'[i] = u[i]
        <5>1. 1 \in 1 .. n
          BY <1>6
        <5>2. Ahead(u[i], p) => Ahead(stack[1], p)
          BY <1>5, <4>1 DEF Advances
        <5>. QED BY <3>1, <4>1, <5>1, <5>2
      <4>2. CASE i - m + 1 \in 2 .. n /\ stack'[i] = stack[i - m + 1]
        <5>1. i - m + 1 \in 1 .. n
          BY <4>2
        <5>. QED BY <3>1, <4>2, <5>1
      <4>. QED BY <1>8, <4>1, <4>2
    <3>. QED BY <3>1, <3>2
  <2>. QED BY <2>2, <2>3
<1>18. Divided(stack')
  <2>1. SUFFICES ASSUME NEW i \in 1 .. Len(stack'), NEW j \in 1 .. Len(stack'),
                        NEW p \in Paths, Ahead(stack'[i], p), Ahead(stack'[j], p)
                 PROVE  i = j
    BY DEF Divided
  <2>2. 1 \in 1 .. n
    BY <1>6
  <2>3. CASE i \in 1 .. m /\ stack'[i] = u[i]
    <3>1. Ahead(u[i], p) /\ Ahead(stack[1], p)
      BY <1>5, <2>1, <2>3 DEF Advances
    <3>2. CASE j \in 1 .. m /\ stack'[j] = u[j]
      BY <1>5, <2>1, <2>3, <3>1, <3>2 DEF Advances, Divided
    <3>3. CASE j - m + 1 \in 2 .. n /\ stack'[j] = stack[j - m + 1]
      <4>1. j - m + 1 \in 1 .. n /\ j - m + 1 # 1
        BY <3>3
      <4>2. Ahead(stack[j - m + 1], p)
        BY <2>1, <3>3
      <4>. QED BY <1>1, <1>4, <2>2, <3>1, <4>1, <4>2 DEF Divided
    <3>. QED BY <1>8, <3>2, <3>3
  <2>4. CASE i - m + 1 \in 2 .. n /\ stack'[i] = stack[i - m + 1]
    <3>1. i - m + 1 \in 1 .. n /\ i - m + 1 # 1
      BY <2>4
    <3>2. Ahead(stack[i - m + 1], p)
      BY <2>1, <2>4
    <3>3. CASE j \in 1 .. m /\ stack'[j] = u[j]
      <4>1. Ahead(stack[1], p)
        BY <1>5, <2>1, <3>3 DEF Advances
      <4>. QED BY <1>1, <1>4, <2>2, <3>1, <3>2, <4>1 DEF Divided
    <3>4. CASE j - m + 1 \in 2 .. n /\ stack'[j] = stack[j - m + 1]
      <4>1. j - m + 1 \in 1 .. n
        BY <3>4
      <4>2. Ahead(stack[j - m + 1], p)
        BY <2>1, <3>4
      <4>3. i - m + 1 = j - m + 1
        BY <1>1, <1>4, <3>1, <3>2, <4>1, <4>2 DEF Divided
      <4>4. i \in Int /\ j \in Int
        OBVIOUS
      <4>. QED BY ONLY <4>3, <4>4, m \in Nat
    <3>. QED BY <1>8, <3>3, <3>4
  <2>. QED BY <1>8, <2>3, <2>4
<1>19. Divided(stack)'
  BY <1>18, SameBounds DEF Divided
<1>20. FilesStay'
  BY <1>1, <1>3 DEF FilesStay, Advances, Keeping
<1>21. Origin'
  BY <1>1, <1>3 DEF Origin
<1>. QED BY <1>12, <1>13, <1>14, <1>15, <1>16, <1>17, <1>19, <1>20, <1>21 DEF TreeInv

-----------------------------------------------------------------------------
(* The first frame.                                                         *)
LEMMA TopIs ==
  ASSUME TreeInv, stack # << >>
  PROVE  /\ call.op # "none" /\ os \in {"posix", "win32"}
         /\ Tree!Top = stack[1] /\ stack[1] \in Frames /\ FrameFor(stack[1])
         /\ stack[1].path \in Seq(Names) /\ stack[1].to \in Seq(Names)
         /\ stack[1].at \in Seq(Names) /\ stack[1].link \in Seq(Names)
         /\ stack[1].todo \subseteq Names
         /\ 1 \in 1 .. Len(stack)
         /\ call.path \in Seq(Names) /\ call.to \in Seq(Names)
<1>1. WalkTypes /\ Started /\ Framed
  BY DEF TreeInv
<1>2. stack \in Seq(Frames) /\ call \in CallStates
  BY <1>1 DEF WalkTypes
<1>3. Len(stack) \in Nat /\ Len(stack) # 0
  BY <1>2, EmptySeq, LenProperties
<1>4. 1 \in 1 .. Len(stack)
  BY <1>3
<1>5. stack[1] \in Frames /\ FrameFor(stack[1])
  BY <1>1, <1>2, <1>4, ElementOfSeq DEF Framed
<1>6. call.op # "none" /\ os \in {"posix", "win32"}
  BY <1>1 DEF Started
<1>7. call.path \in Seq(Names) /\ call.to \in Seq(Names)
  BY <1>2 DEF CallStates
<1>8. /\ stack[1].path \in Seq(Names) /\ stack[1].to \in Seq(Names)
      /\ stack[1].at \in Seq(Names) /\ stack[1].link \in Seq(Names)
      /\ stack[1].todo \subseteq Names
  BY <1>5 DEF Frames
<1>. QED BY <1>4, <1>5, <1>6, <1>7, <1>8 DEF Tree!Top

(* What happens to the tree.                                                *)
Writes ==
  /\ others \subseteq others'
  /\ tree' \in [Paths -> Nodes]
  /\ \A p \in Paths : tree'[p] # tree[p] => p \in others' \/ Allowed(p)
  /\ Keeping

NoLinks == \A p \in Paths : tree'[p].kind = "link" => tree'[p] = tree[p]

(* One path is written.                                                     *)
LEMMA Putting ==
  ASSUME WalkTypes, NEW p, NEW node, p \in Paths => node \in Nodes, Tree!Put(p, node)
  PROVE  /\ tree' \in [Paths -> Nodes]
         /\ \A r \in Paths : tree'[r] # tree[r] => r = p /\ tree'[r] = node
<1>1. tree \in [Paths -> Nodes] /\ tree' = [tree EXCEPT ![p] = node]
  BY DEF WalkTypes, Tree!Put
<1>2. \A r \in Paths : tree'[r] = IF r = p THEN node ELSE tree[r]
  BY <1>1
<1>3. tree' \in [Paths -> Nodes]
  BY <1>1
<1>. QED BY <1>2, <1>3

(* What may be changed is.                                                  *)
LEMMA Written ==
  ASSUME WalkTypes, NEW p, NEW node, p \in Paths => node \in Nodes, Tree!Put(p, node),
         Allowed(p), others' = others,
         call.op = "copy" /\ p \in Paths =>
           /\ tree[p].kind \in {"none", "file"}
           /\ tree[p].kind = "file" => node.kind = "file"
  PROVE  Writes
BY Putting DEF Writes, Keeping

(* Nothing is.                                                              *)
LEMMA Unwritten ==
  ASSUME WalkTypes, tree' = tree, others' = others
  PROVE  Writes /\ NoLinks
BY DEF Writes, NoLinks, WalkTypes, Keeping

(* A frame returns, or all do.                                              *)
LEMMA Returning ==
  ASSUME TreeInv, SameCall, stack # << >>, Writes, NoLinks,
         stack' = Tail(stack) \/ stack' = << >>
  PROVE  TreeInv'
<1>. DEFINE u == << >>
<1>1. stack \in Seq(Frames) /\ call.op # "none"
  BY TopIs DEF TreeInv, WalkTypes
<1>2. u \in Seq(Frames) /\ Over(u, stack) = Tail(stack)
  BY <1>1, OverNothing
<1>3. Len(u) = 0 /\ \A k \in 1 .. Len(u) : FALSE
  OBVIOUS
<1>. HIDE DEF u
<1>4. Advances(u)
  BY <1>2, <1>3 DEF Advances, Writes, NoLinks, Divided
<1>. QED BY <1>1, <1>2, <1>4, Proceeding

(* The first frame goes on.                                                 *)
LEMMA GoingOn ==
  ASSUME TreeInv, SameCall, stack # << >>, Writes,
         NEW f \in Frames, Tree!Going(f), f.path = stack[1].path, FrameFor(f),
         \A p \in Paths : Ahead(f, p) => Ahead(stack[1], p),
         \A p \in Paths : tree'[p].kind = "link" /\ tree'[p] # tree[p] =>
           call.op = "copy" /\ (Tree!Shared \/ Ahead(stack[1], p)) /\ ~Ahead(f, p)
  PROVE  TreeInv'
<1>. DEFINE u == << f >>
<1>1. stack \in Seq(Frames) /\ call.op # "none"
  BY TopIs DEF TreeInv, WalkTypes
<1>2. u \in Seq(Frames) /\ Len(u) = 1 /\ u[1] = f
  BY Above
<1>3. stack' = Over(u, stack)
  BY DEF Tree!Going, Over
<1>. HIDE DEF u
<1>4. \A k \in 1 .. Len(u) : k = 1
  BY <1>2
<1>5. Divided(u)
  BY <1>4 DEF Divided
<1>6. Advances(u)
  BY <1>2, <1>3, <1>4, <1>5 DEF Advances, Writes
<1>. QED BY <1>1, <1>2, <1>6, Proceeding

(* A frame for making or deleting is entered.                               *)
LEMMA EnteringOne ==
  ASSUME TreeInv, SameCall, stack # << >>, Writes, NoLinks,
         NEW x \in Frames, x.op # "copy", FrameFor(x),
         NEW f \in Frames, f.path = stack[1].path, FrameFor(f), f.op # "copy",
         stack' = Over(<< x >> \o << f >>, stack)
  PROVE  TreeInv'
<1>. DEFINE u == << x >> \o << f >>
<1>1. stack \in Seq(Frames) /\ call.op # "none"
  BY TopIs DEF TreeInv, WalkTypes
<1>2. u \in Seq(Frames) /\ Len(u) = 2 /\ u[1] = x /\ u[2] = f
  BY Above
<1>3. stack' = Over(u, stack)
  OBVIOUS
<1>. HIDE DEF u
<1>4. \A k \in 1 .. Len(u) : k = 1 \/ k = 2
  BY <1>2
<1>5. \A k \in 1 .. Len(u) : FrameFor(u[k]) /\ \A p \in Paths : ~Ahead(u[k], p)
  BY <1>2, <1>4 DEF Ahead
<1>6. Divided(u)
  BY <1>5 DEF Divided
<1>7. Advances(u)
  BY <1>2, <1>3, <1>5, <1>6 DEF Advances, Writes, NoLinks
<1>. QED BY <1>1, <1>2, <1>7, Proceeding

(* Two frames for copying are entered.                                      *)
LEMMA EnteringTwo ==
  ASSUME TreeInv, SameCall, stack # << >>, Writes, NoLinks,
         NEW c \in Frames, c.op # "copy", FrameFor(c),
         NEW x \in Frames, FrameFor(x),
         NEW f \in Frames, f.path = stack[1].path, FrameFor(f),
         \A p \in Paths : Ahead(x, p) \/ Ahead(f, p) => Ahead(stack[1], p),
         \A p \in Paths : ~(Ahead(x, p) /\ Ahead(f, p)),
         stack' = Over(<< c, x >> \o << f >>, stack)
  PROVE  TreeInv'
<1>. DEFINE u == << c, x >> \o << f >>
<1>1. stack \in Seq(Frames) /\ call.op # "none"
  BY TopIs DEF TreeInv, WalkTypes
<1>2. u \in Seq(Frames) /\ Len(u) = 3 /\ u[1] = c /\ u[2] = x /\ u[3] = f
  BY Above
<1>3. stack' = Over(u, stack)
  OBVIOUS
<1>. HIDE DEF u
<1>4. \A k \in 1 .. Len(u) : k = 1 \/ k = 2 \/ k = 3
  BY <1>2
<1>5. \A k \in 1 .. Len(u) : FrameFor(u[k])
  BY <1>2, <1>4
<1>6. \A p \in Paths : ~Ahead(c, p)
  BY DEF Ahead
<1>7. \A k \in 1 .. Len(u) : \A p \in Paths : Ahead(u[k], p) => Ahead(stack[1], p)
  BY <1>2, <1>4, <1>6
<1>8. Divided(u)
  BY <1>2, <1>4, <1>6 DEF Divided
<1>9. Advances(u)
  BY <1>2, <1>3, <1>5, <1>7, <1>8 DEF Advances, Writes, NoLinks
<1>. QED BY <1>1, <1>2, <1>9, Proceeding

-----------------------------------------------------------------------------
(* The steps.                                                               *)

(* However a frame ends, the call is the same call.                         *)
LEMMA CallStays ==
  ASSUME WalkTypes, os' = os, before' = before,
         \/ Tree!Return \/ Tree!Fail \/ call' = call
  PROVE  SameCall
<1>1. call \in CallStates
  BY DEF WalkTypes
<1>2. call' \in CallStates /\ call'.op = call.op /\ call'.path = call.path /\ call'.to = call.to
  BY <1>1 DEF CallStates, Tree!Return, Tree!Fail
<1>. QED BY <1>2 DEF SameCall

(* When a frame ends, TreeInv stays.                                        *)
LEMMA Ends ==
  ASSUME TreeInv, stack # << >>, os' = os, before' = before, Tree!Return \/ Tree!Fail,
         Writes, NoLinks
  PROVE  TreeInv'
<1>1. SameCall
  BY CallStays DEF TreeInv
<1>2. stack' = Tail(stack) \/ stack' = << >>
  BY DEF Tree!Return, Tree!Fail
<1>. QED BY <1>1, <1>2, Returning

(* Without a change of the tree.                                            *)
LEMMA EndsUnwritten ==
  ASSUME TreeInv, stack # << >>, os' = os, before' = before, others' = others,
         tree' = tree, Tree!Return \/ Tree!Fail
  PROVE  TreeInv'
<1>1. Writes /\ NoLinks
  BY Unwritten DEF TreeInv
<1>. QED BY <1>1, Ends

(* A new frame.                                                             *)
LEMMA FrameIs ==
  ASSUME NEW op \in {"create", "delete", "copy"},
         NEW path \in Seq(Names), NEW to \in Seq(Names)
  PROVE  /\ Tree!Frame(op, path, to) \in Frames
         /\ Tree!Frame(op, path, to).op = op /\ Tree!Frame(op, path, to).path = path
         /\ Tree!Frame(op, path, to).to = to /\ Tree!Frame(op, path, to).at = path
         /\ Tree!Frame(op, path, to).phase = "begin"
<1>1. << >> \in Seq(Names)
  BY EmptySeq
<1>. QED BY <1>1 DEF Tree!Frame, Frames

(* The nodes that are written.                                              *)
LEMMA Kinds ==
  /\ Tree!Nothing \in Nodes /\ Tree!Nothing.kind = "none"
  /\ Tree!Directory \in Nodes /\ Tree!Directory.kind = "dir"
<1>1. << >> \in Seq(Names)
  BY EmptySeq
<1>. QED BY <1>1 DEF Tree!Nothing, Tree!Directory, Nodes

(* MakeDirectory.                                                           *)
LEMMA Making ==
  ASSUME TreeInv, Tree!MakeDirectory
  PROVE  TreeInv'
<1>. DEFINE p == stack[1].path
            again == [stack[1] EXCEPT !.phase = "again"]
            above == Tree!Frame("create", Tree!Parent(p), << >>)
<1>1. stack # << >> /\ Tree!Top.op = "create" /\ os' = os /\ before' = before
      /\ others' = others
  BY DEF Tree!MakeDirectory, Tree!Same
<1>2. /\ call.op # "none" /\ Tree!Top = stack[1] /\ stack[1] \in Frames /\ FrameFor(stack[1])
      /\ p \in Seq(Names) /\ call.path \in Seq(Names) /\ call.to \in Seq(Names)
      /\ stack[1].op = "create"
  BY <1>1, TopIs
<1>3. WalkTypes
  BY DEF TreeInv
<1>4. call.op \in {"create", "copy"}
  <2>1. call.op # "delete"
    BY <1>2 DEF FrameFor, DeletedBy
  <2>2. call.op \in {"none", "create", "delete", "copy"}
    BY <1>3 DEF WalkTypes, CallStates
  <2>. QED BY <1>2, <2>1, <2>2
<1>5. call.op = "create" => PrefixOf(p, call.path)
  BY <1>2 DEF FrameFor, MadeBy
<1>6. call.op = "copy" =>
        \/ InTheWay(p)
        \/ Tree!Shared /\ Reached(p) /\ Tree!Kind(tree, Tree!Parent(p)) = "dir"
  BY <1>2 DEF FrameFor, CopiedBy
<1>7. \/ /\ Tree!Kind(tree, p) = "none" /\ Tree!Put(p, Tree!Directory) /\ Tree!Return
      \/ /\ tree' = tree /\ (Tree!Return \/ Tree!Fail)
      \/ /\ tree' = tree /\ Tree!Kind(tree, p) = "none"
         /\ Tree!Kind(tree, Tree!Parent(p)) = "none"
         /\ Tree!Entering(again, "create", Tree!Parent(p), << >>)
  <2>. HIDE DEF p, again
  <2>1. p = Tree!Top.path /\ again = [Tree!Top EXCEPT !.phase = "again"]
    BY <1>2 DEF p, again
  <2>. QED BY <2>1 DEF Tree!MakeDirectory, Tree!MakeParent
<1>8. CASE Tree!Kind(tree, p) = "none" /\ Tree!Put(p, Tree!Directory) /\ Tree!Return
  <2>1. Allowed(p)
    BY <1>4, <1>5, <1>6 DEF Allowed, Through
  <2>2. Tree!Directory \in Nodes /\ Tree!Directory.kind # "link"
    BY Kinds
  <2>. HIDE DEF p
  <2>3. Writes
    <3>1. p \in Paths => tree[p].kind = "none"
      BY <1>8, TreeAssumption DEF Tree!Kind
    <3>. QED BY <1>1, <1>3, <1>8, <2>1, <2>2, <3>1, Written
  <2>4. \A r \in Paths : tree'[r] # tree[r] => tree'[r] = Tree!Directory
    BY <1>3, <1>8, <2>2, Putting
  <2>5. NoLinks
    BY <2>2, <2>4 DEF NoLinks
  <2>. QED BY <1>1, <1>8, <2>3, <2>5, Ends
<1>9. CASE tree' = tree /\ (Tree!Return \/ Tree!Fail)
  BY <1>1, <1>9, EndsUnwritten
<1>10. CASE /\ tree' = tree /\ Tree!Kind(tree, p) = "none"
            /\ Tree!Kind(tree, Tree!Parent(p)) = "none"
            /\ Tree!Entering(again, "create", Tree!Parent(p), << >>)
  <2>1. p # << >>
    BY <1>10 DEF Tree!Kind
  <2>2. Tree!Parent(p) \in Seq(Names) /\ PrefixOf(Tree!Parent(p), p)
    BY <1>2, ParentIs
  <2>3. /\ above \in Frames /\ above.op = "create" /\ above.path = Tree!Parent(p)
    <3>. DEFINE r == Tree!Parent(p)
    <3>1. r \in Seq(Names) /\ << >> \in Seq(Names)
      BY <2>2, EmptySeq
    <3>. HIDE DEF r
    <3>2. /\ Tree!Frame("create", r, << >>) \in Frames
          /\ Tree!Frame("create", r, << >>).op = "create"
          /\ Tree!Frame("create", r, << >>).path = r
      BY <3>1, EmptySeq DEF Tree!Frame, Frames
    <3>. QED BY <3>2 DEF r
  <2>4. /\ again \in Frames /\ again.op = "create" /\ again.path = p
    BY <1>2 DEF Frames
  <2>. HIDE DEF p, again, above
  <2>5. FrameFor(again)
    BY <1>4, <1>5, <1>6, <2>4 DEF FrameFor, MadeBy, CopiedBy
  <2>6. call.op = "create" => PrefixOf(above.path, call.path)
    BY <1>2, <1>5, <2>2, <2>3, PrefixPrefix DEF p
  <2>7. call.op = "copy" => InTheWay(above.path)
    BY <1>2, <1>6, <1>10, <2>1, <2>3, ParentInTheWay DEF InTheWay, p
  <2>8. FrameFor(above)
    BY <1>4, <2>3, <2>6, <2>7 DEF FrameFor, MadeBy, CopiedBy
  <2>9. /\ stack' = Over(<< above >> \o << again >>, stack) /\ call' = call
    BY <1>10 DEF Tree!Entering, Tree!Frames, Over, above
  <2>10. SameCall
    BY <1>1, <1>3, <2>9, CallStays
  <2>11. Writes /\ NoLinks
    BY <1>1, <1>3, <1>10, Unwritten
  <2>12. above.op # "copy" /\ again.op # "copy" /\ again.path = stack[1].path
    BY <2>3, <2>4 DEF p
  <2>. QED BY <1>1, <2>3, <2>4, <2>5, <2>8, <2>9, <2>10, <2>11, <2>12, EnteringOne
<1>. QED BY <1>7, <1>8, <1>9, <1>10

(* Where a path leads.                                                      *)
LEMMA ResolvedIs ==
  ASSUME WalkTypes, NEW p \in Seq(Names)
  PROVE  /\ Tree!Resolved(tree, p) \in Seq(Names)
         /\ Tree!Kind(tree, p) # "link" => Tree!Resolved(tree, p) = p
         /\ Tree!Kind(tree, p) = "link" =>
              /\ p \in Paths /\ tree[p].kind = "link"
              /\ Tree!Resolved(tree, p) = tree[p].data
<1>1. tree \in [Paths -> Nodes]
  BY DEF WalkTypes
<1>2. \A r \in Paths : tree[r].data \in Seq(Names)
  BY <1>1 DEF Nodes
<1>3. Tree!Kind(tree, p) = "link" => p \in Paths /\ tree[p].kind = "link"
  BY DEF Tree!Kind
<1>. QED BY <1>2, <1>3 DEF Tree!Resolved

(* Entries have names.                                                      *)
LEMMA EntriesAre ==
  ASSUME NEW t, NEW p
  PROVE  Tree!Entries(t, p) \subseteq Names
<1>1. ASSUME NEW r \in Paths PROVE Tree!Name(r) \in Names
  <2>1. r \in Seq(Names) /\ r # << >>
    BY TreeAssumption DEF Names
  <2>2. Len(r) \in Nat /\ Len(r) # 0
    BY <2>1, EmptySeq, LenProperties
  <2>3. Len(r) \in 1 .. Len(r)
    BY <2>2
  <2>. QED BY <2>1, <2>3, ElementOfSeq DEF Tree!Name
<1>. QED BY <1>1 DEF Tree!Entries

(* What may be deleted is whole directories.                                *)
LEMMA InsideEntry ==
  ASSUME WalkTypes, NEW p \in Seq(Names), NEW n \in Names, Inside(p)
  PROVE  Append(p, n) \in Seq(Names) /\ Inside(Append(p, n))
<1>. DEFINE a == Append(p, n)
<1>1. /\ call.path \in Seq(Names)
      /\ \A r \in Paths : before[r].data \in Seq(Names)
  BY DEF WalkTypes, CallStates, Nodes
<1>2. a \in Seq(Names) /\ \A c \in Seq(Names) : PrefixOf(c, p) => PrefixOf(c, a)
  BY PrefixOfEntry
<1>. HIDE DEF a
<1>3. \A links \in SUBSET Paths : Led(before, p, links) => Led(before, a, links)
  BY <1>1, <1>2 DEF Led
<1>4. Tree!Links(before, {call.path} \cap Paths) \in SUBSET Paths /\ Tree!Links(before, Paths) \subseteq Paths
  BY DEF Tree!Links
<1>5. Inside(a)
  BY <1>1, <1>2, <1>3, <1>4 DEF Inside
<1>. QED BY <1>2, <1>5 DEF a

(* And on Windows what the links there lead to.                             *)
LEMMA InsideLink ==
  ASSUME WalkTypes, NEW p \in Paths, before[p].kind = "link", Inside(p),
         os # "win32" => p = call.path
  PROVE  Inside(before[p].data)
<1>. DEFINE d == before[p].data
<1>1. d \in Seq(Names) /\ PrefixOf(d, d)
  <2>1. d \in Seq(Names)
    BY DEF WalkTypes, Nodes
  <2>. QED BY <2>1, PrefixSelf
<1>2. \A links : p \in links => Led(before, d, links)
  BY <1>1 DEF Led
<1>. HIDE DEF d
<1>3. CASE os # "win32"
  <2>1. p \in Tree!Links(before, {call.path} \cap Paths)
    BY <1>3 DEF Tree!Links
  <2>. QED BY <1>2, <1>3, <2>1 DEF Inside, d
<1>4. CASE os = "win32"
  <2>1. ASSUME NEW links \in SUBSET Tree!Links(before, Paths),
               Tree!Links(before, Tree!Below(call.path) \cup Tree!LeadTo(before, links)) \subseteq links
        PROVE  Led(before, d, links)
    <3>1. PrefixOf(call.path, p) \/ Led(before, p, links)
      BY <1>4, <2>1 DEF Inside
    <3>2. PrefixOf(call.path, p) => p \in Tree!Below(call.path)
      BY DEF Tree!Below, PrefixOf
    <3>3. Led(before, p, links) => p \in Tree!LeadTo(before, links)
      BY DEF Led, Tree!LeadTo, Tree!Below, PrefixOf
    <3>4. p \in Tree!Links(before, Tree!Below(call.path) \cup Tree!LeadTo(before, links))
      BY <3>1, <3>2, <3>3 DEF Tree!Links
    <3>5. p \in links
      BY <2>1, <3>4
    <3>. QED BY <1>2, <3>5
  <2>. QED BY <1>4, <2>1 DEF Inside, d
<1>. QED BY <1>3, <1>4

(* A frame that deletes belongs to a call that does.                        *)
LEMMA DeleteFrame ==
  ASSUME TreeInv, stack # << >>, Tree!Top.op = "delete"
  PROVE  call.op = "delete" /\ DeletedBy(stack[1]) /\ stack[1].op = "delete"
<1>1. /\ call.op # "none" /\ Tree!Top = stack[1] /\ FrameFor(stack[1])
  BY TopIs
<1>2. call.op # "create" /\ call.op # "copy"
  BY <1>1 DEF FrameFor, MadeBy, CopiedBy
<1>3. call.op \in {"none", "create", "delete", "copy"}
  BY DEF TreeInv, WalkTypes, CallStates
<1>4. call.op = "delete"
  BY <1>1, <1>2, <1>3
<1>. QED BY <1>1, <1>4 DEF FrameFor

(* And one that copies to one that copies.                                  *)
LEMMA CopyFrame ==
  ASSUME TreeInv, stack # << >>, Tree!Top.op = "copy"
  PROVE  /\ call.op = "copy" /\ stack[1].op = "copy" /\ Arrives(stack[1].to)
         /\ ~Tree!Shared => PrefixOf(call.to, stack[1].to)
<1>1. /\ call.op # "none" /\ Tree!Top = stack[1] /\ FrameFor(stack[1])
  BY TopIs
<1>2. call.op # "create" /\ call.op # "delete"
  BY <1>1 DEF FrameFor, MadeBy, DeletedBy
<1>3. call.op \in {"none", "create", "delete", "copy"}
  BY DEF TreeInv, WalkTypes, CallStates
<1>4. call.op = "copy"
  BY <1>1, <1>2, <1>3
<1>5. Arrives(stack[1].to) /\ stack[1].op = "copy"
  BY <1>1, <1>4 DEF FrameFor, CopiedBy
<1>. QED BY <1>4, <1>5 DEF Arrives

(* A frame that deletes goes on as one, on what is there now.               *)
LEMMA GoesOnDeleting ==
  ASSUME TreeInv, stack # << >>, Tree!Top.op = "delete", os' = os, before' = before,
         Writes, NoLinks,
         NEW f \in Frames, Tree!Going(f), f.op = "delete", f.path = stack[1].path,
         f.phase # "begin", Inside(f.at)
  PROVE  TreeInv'
<1>1. call.op = "delete" /\ DeletedBy(stack[1])
  BY DeleteFrame
<1>2. DeletedBy(f)
  BY <1>1 DEF DeletedBy
<1>3. FrameFor(f)
  BY <1>1, <1>2 DEF FrameFor
<1>4. \A p \in Paths : ~Ahead(f, p)
  BY DEF Ahead
<1>5. SameCall
  BY CallStays DEF Tree!Going, TreeInv
<1>. QED BY <1>3, <1>4, <1>5, GoingOn DEF NoLinks

(* ListToDelete.                                                            *)
LEMMA ListingToDelete ==
  ASSUME TreeInv, Tree!ListToDelete
  PROVE  TreeInv'
<1>. DEFINE at == Tree!Resolved(tree, stack[1].path)
            listed == [stack[1] EXCEPT !.phase = "entries", !.at = at,
                                       !.todo = Tree!Entries(tree, at)]
            skipped == [stack[1] EXCEPT !.phase = "remove"]
<1>1. /\ stack # << >> /\ Tree!Top.op = "delete" /\ Tree!Top.phase = "begin"
      /\ os' = os /\ before' = before /\ others' = others /\ tree' = tree
      /\ Tree!List
  BY DEF Tree!ListToDelete, Tree!Same, Tree!In
<1>2. /\ Tree!Top = stack[1] /\ stack[1] \in Frames /\ os \in {"posix", "win32"}
      /\ stack[1].path \in Seq(Names)
  BY <1>1, TopIs
<1>3. call.op = "delete" /\ DeletedBy(stack[1]) /\ stack[1].op = "delete"
  BY <1>1, DeleteFrame
<1>4. WalkTypes /\ LinksBehind
  BY DEF TreeInv
<1>5. Tree!Going(listed) \/ Tree!Return \/ Tree!Going(skipped)
  <2>. HIDE DEF listed, skipped, at
  <2>1. at = Tree!Resolved(tree, Tree!Top.path)
    BY <1>2 DEF at
  <2>2. /\ listed = [Tree!Top EXCEPT !.phase = "entries", !.at = at,
                                     !.todo = Tree!Entries(tree, at)]
        /\ skipped = [Tree!Top EXCEPT !.phase = "remove"]
    BY <1>2 DEF listed, skipped
  <2>. QED BY <1>1, <2>1, <2>2 DEF Tree!List, Tree!NotListed
<1>6. Writes /\ NoLinks
  BY <1>1, <1>4, Unwritten
<1>7. at \in Seq(Names) /\ Inside(at)
  <2>1. Inside(stack[1].path)
    BY <1>3 DEF DeletedBy
  <2>2. CASE Tree!Kind(tree, stack[1].path) = "link"
    <3>1. /\ stack[1].path \in Paths /\ tree[stack[1].path].kind = "link"
          /\ at = tree[stack[1].path].data /\ at \in Seq(Names)
      BY <1>2, <1>4, <2>2, ResolvedIs
    <3>2. tree[stack[1].path] = before[stack[1].path]
      BY <1>3, <1>4, <3>1 DEF LinksBehind
    <3>3. os # "win32" => stack[1].path = call.path
      BY <1>1, <1>2, <1>3, <2>2 DEF DeletedBy
    <3>4. Inside(before[stack[1].path].data)
      BY <1>4, <2>1, <3>1, <3>2, <3>3, InsideLink
    <3>. QED BY <3>1, <3>2, <3>4
  <2>3. CASE Tree!Kind(tree, stack[1].path) # "link"
    BY <1>2, <1>4, <2>1, <2>3, ResolvedIs
  <2>. QED BY <2>2, <2>3
<1>8. Tree!Entries(tree, at) \subseteq Names
  BY EntriesAre
<1>. HIDE DEF at
<1>9. /\ listed \in Frames /\ listed.op = "delete" /\ listed.path = stack[1].path
      /\ listed.phase = "entries" /\ listed.at = at
  BY <1>2, <1>3, <1>7, <1>8 DEF Frames
<1>10. /\ skipped \in Frames /\ skipped.op = "delete" /\ skipped.path = stack[1].path
       /\ skipped.phase = "remove" /\ skipped.at = stack[1].at
  BY <1>2, <1>3 DEF Frames
<1>. HIDE DEF listed, skipped
<1>11. CASE Tree!Going(listed)
  BY <1>1, <1>6, <1>7, <1>9, <1>11, GoesOnDeleting
<1>12. CASE Tree!Return
  BY <1>1, <1>12, EndsUnwritten
<1>13. CASE Tree!Going(skipped)
  <2>1. Inside(skipped.at)
    BY <1>3, <1>10 DEF DeletedBy
  <2>. QED BY <1>1, <1>6, <1>10, <1>13, <2>1, GoesOnDeleting
<1>. QED BY <1>5, <1>11, <1>12, <1>13

(* AllDeleted.                                                              *)
LEMMA DeletingAll ==
  ASSUME TreeInv, Tree!AllDeleted
  PROVE  TreeInv'
<1>. DEFINE f == [stack[1] EXCEPT !.phase = "remove"]
<1>1. /\ stack # << >> /\ Tree!Top.op = "delete"
      /\ os' = os /\ before' = before /\ others' = others /\ tree' = tree
      /\ Tree!Going([Tree!Top EXCEPT !.phase = "remove"])
  BY DEF Tree!AllDeleted, Tree!Same, Tree!In
<1>2. /\ Tree!Top = stack[1] /\ stack[1] \in Frames
  BY <1>1, TopIs
<1>3. DeletedBy(stack[1]) /\ stack[1].op = "delete"
  BY <1>1, DeleteFrame
<1>4. Tree!Going(f)
  BY <1>1, <1>2
<1>5. Writes /\ NoLinks
  BY <1>1, Unwritten DEF TreeInv
<1>6. /\ f \in Frames /\ f.op = "delete" /\ f.path = stack[1].path
      /\ f.phase = "remove" /\ f.at = stack[1].at
  BY <1>2, <1>3 DEF Frames
<1>. HIDE DEF f
<1>7. Inside(f.at)
  BY <1>3, <1>6 DEF DeletedBy
<1>. QED BY <1>1, <1>4, <1>5, <1>6, <1>7, GoesOnDeleting

(* Something that may be deleted is.                                        *)
LEMMA Deleted ==
  ASSUME TreeInv, call.op = "delete", NEW p \in Seq(Names), Inside(p), others' = others,
         Tree!Put(p, Tree!Nothing)
  PROVE  Writes /\ NoLinks
<1>1. WalkTypes /\ Allowed(p)
  BY DEF TreeInv, Allowed
<1>2. Tree!Nothing \in Nodes /\ Tree!Nothing.kind # "link"
  BY Kinds
<1>3. \A r \in Paths : tree'[r] # tree[r] => tree'[r] = Tree!Nothing
  BY <1>1, <1>2, Putting
<1>. QED BY <1>1, <1>2, <1>3, Written DEF NoLinks

(* RemoveDirectory.                                                         *)
LEMMA RemovingIt ==
  ASSUME TreeInv, Tree!RemoveDirectory
  PROVE  TreeInv'
<1>1. /\ stack # << >> /\ Tree!Top.op = "delete"
      /\ os' = os /\ before' = before /\ others' = others
  BY DEF Tree!RemoveDirectory, Tree!Same, Tree!In
<1>2. /\ Tree!Top = stack[1] /\ stack[1].path \in Seq(Names)
  BY <1>1, TopIs
<1>3. call.op = "delete" /\ Inside(stack[1].path)
  BY <1>1, DeleteFrame DEF DeletedBy
<1>4. \/ Tree!Put(stack[1].path, Tree!Nothing) /\ Tree!Return
      \/ tree' = tree /\ Tree!Fail
  BY <1>2 DEF Tree!RemoveDirectory
<1>5. CASE Tree!Put(stack[1].path, Tree!Nothing) /\ Tree!Return
  <2>1. Writes /\ NoLinks
    BY <1>1, <1>2, <1>3, <1>5, Deleted
  <2>. QED BY <1>1, <1>5, <2>1, Ends
<1>6. CASE tree' = tree /\ Tree!Fail
  BY <1>1, <1>6, EndsUnwritten
<1>. QED BY <1>4, <1>5, <1>6

(* DeleteEntry.                                                             *)
LEMMA DeletingEntry ==
  ASSUME TreeInv, Tree!DeleteEntry
  PROVE  TreeInv'
<1>1. /\ stack # << >> /\ Tree!Top.op = "delete" /\ Tree!Top.phase = "entries"
      /\ os' = os /\ before' = before /\ others' = others
  BY DEF Tree!DeleteEntry, Tree!Same, Tree!In
<1>2. /\ Tree!Top = stack[1] /\ stack[1] \in Frames /\ os \in {"posix", "win32"}
      /\ stack[1].at \in Seq(Names) /\ stack[1].todo \subseteq Names
  BY <1>1, TopIs
<1>3. call.op = "delete" /\ DeletedBy(stack[1]) /\ stack[1].op = "delete"
  BY <1>1, DeleteFrame
<1>4. WalkTypes
  BY DEF TreeInv
<1>. DEFINE path(name) == Append(stack[1].at, name)
            done(name) == [stack[1] EXCEPT !.todo = @ \ {name}]
<1>5. PICK name \in stack[1].todo :
        \/ /\ Tree!TakenForDirectory(path(name)) /\ tree' = tree
           /\ Tree!Entering(done(name), "delete", path(name), << >>)
        \/ Tree!Put(path(name), Tree!Nothing) /\ Tree!Going(done(name))
        \/ tree' = tree /\ Tree!Fail
  <2>1. \A name : done(name) = [Tree!Top EXCEPT !.todo = @ \ {name}]
    BY <1>2
  <2>2. \A name : path(name) = Append(Tree!Top.at, name)
    BY <1>2
  <2>. HIDE DEF path, done
  <2>. QED BY <1>2, <2>1, <2>2 DEF Tree!DeleteEntry
<1>6. path(name) \in Seq(Names) /\ Inside(path(name))
  <2>1. Inside(stack[1].at) /\ name \in Names
    BY <1>2, <1>3 DEF DeletedBy
  <2>. QED BY <1>2, <1>4, <2>1, InsideEntry
<1>7. /\ done(name) \in Frames /\ done(name).op = "delete" /\ done(name).path = stack[1].path
      /\ done(name).phase = "entries" /\ done(name).at = stack[1].at
  BY <1>1, <1>2, <1>3 DEF Frames
<1>. HIDE DEF path, done
<1>8. Inside(done(name).at) /\ Inside(done(name).path)
  BY <1>3, <1>7 DEF DeletedBy
<1>9. CASE Tree!Put(path(name), Tree!Nothing) /\ Tree!Going(done(name))
  <2>1. Writes /\ NoLinks
    BY <1>1, <1>3, <1>6, <1>9, Deleted
  <2>. QED BY <1>1, <1>7, <1>8, <1>9, <2>1, GoesOnDeleting
<1>10. CASE tree' = tree /\ Tree!Fail
  BY <1>1, <1>10, EndsUnwritten
<1>11. CASE /\ Tree!TakenForDirectory(path(name)) /\ tree' = tree
            /\ Tree!Entering(done(name), "delete", path(name), << >>)
  <2>. DEFINE x == Tree!Frame("delete", path(name), << >>)
  <2>1. /\ x \in Frames /\ x.op = "delete" /\ x.path = path(name) /\ x.at = path(name)
    BY <1>6, EmptySeq DEF Tree!Frame, Frames
  <2>2. /\ stack' = Over(<< x >> \o << done(name) >>, stack) /\ call' = call
    BY <1>11 DEF Tree!Entering, Tree!Frames, Over
  <2>. HIDE DEF x
  <2>3. os # "win32" => Tree!Kind(tree, path(name)) # "link"
    BY <1>2, <1>11 DEF Tree!TakenForDirectory
  <2>4. DeletedBy(x)
    BY <1>6, <2>1, <2>3 DEF DeletedBy
  <2>5. DeletedBy(done(name))
    BY <1>7, <1>8 DEF DeletedBy
  <2>6. FrameFor(x) /\ FrameFor(done(name))
    BY <1>3, <2>4, <2>5 DEF FrameFor
  <2>7. SameCall
    BY <1>1, <1>4, <2>2, CallStays
  <2>8. Writes /\ NoLinks
    BY <1>1, <1>4, <1>11, Unwritten
  <2>. QED BY <1>1, <1>7, <2>1, <2>2, <2>6, <2>7, <2>8, EnteringOne
<1>. QED BY <1>5, <1>9, <1>10, <1>11

-----------------------------------------------------------------------------
(* Copying.                                                                 *)

(* A file's first part.                                                     *)
LEMMA FirstPart ==
  ASSUME NEW a \in Seq(Names), NEW n \in 0 .. Len(a)
  PROVE  SubSeq(a, 1, n) \in Seq(Names)
<1>1. PICK m \in Nat : m = Len(a)
  BY LenProperties
<1>2. \A i \in 1 .. n : a[i] \in Names
  BY <1>1, ElementOfSeq
<1>3. 1 \in Int /\ n \in Int
  BY <1>1
<1>. QED BY ONLY <1>2, <1>3, SubSeqProperties

(* Its last part.                                                           *)
LEMMA LastPart ==
  ASSUME NEW a \in Seq(Names), NEW m \in Nat
  PROVE  SubSeq(a, m + 1, Len(a)) \in Seq(Names)
<1>1. PICK n \in Nat : n = Len(a)
  BY LenProperties
<1>2. \A i \in m + 1 .. n : a[i] \in Names
  BY <1>1, ElementOfSeq
<1>3. m + 1 \in Int /\ n \in Int
  OBVIOUS
<1>4. SubSeq(a, m + 1, n) \in Seq(Names)
  BY ONLY <1>2, <1>3, SubSeqProperties
<1>. QED BY <1>1, <1>4

(* What is put over something longer is a sequence of the same things.      *)
LEMMA OverlaidIs ==
  ASSUME NEW a \in Seq(Names), NEW b \in Seq(Names)
  PROVE  Tree!Overlaid(a, b) \in Seq(Names)
<1>1. Len(a) \in Nat
  BY LenProperties
<1>. DEFINE c == SubSeq(b, Len(a) + 1, Len(b))
<1>2. c \in Seq(Names)
  BY <1>1, LastPart
<1>. HIDE DEF c
<1>3. a \o c \in Seq(Names)
  BY ONLY <1>2, a \in Seq(Names), ConcatProperties, ZenonT(30)
<1>. QED BY <1>3 DEF Tree!Overlaid, c

(* An entry is in its directory.                                            *)
LEMMA ParentOfEntry ==
  ASSUME NEW p \in Seq(Names), NEW n \in Names
  PROVE  Tree!Parent(Append(p, n)) = p
<1>. DEFINE a == Append(p, n)
            u == Tree!Parent(a)
<1>1. PICK m \in Nat : m = Len(p)
  BY LenProperties
<1>2. a \in Seq(Names) /\ Len(a) = m + 1 /\ \A i \in 1 .. m : a[i] = p[i]
  BY <1>1, Appended
<1>. HIDE DEF a
<1>3. a # << >>
  BY <1>2, EmptySeq
<1>4. u \in Seq(Names) /\ PrefixOf(u, a) /\ Len(u) = m
  BY <1>2, <1>3, ParentIs
<1>. HIDE DEF u
<1>5. \A i \in 1 .. m : u[i] = a[i]
  BY <1>2, <1>4, PrefixMeans
<1>6. \A i \in 1 .. m : u[i] = p[i]
  BY <1>2, <1>5
<1>7. u = p
  BY <1>1, <1>4, <1>6, SeqEqual
<1>. QED BY <1>7 DEF u, a

(* Where one may copy to, one may copy to what is in there.                 *)
LEMMA ArrivesEntry ==
  ASSUME WalkTypes, NEW p \in Seq(Names), NEW n \in Names, Arrives(p)
  PROVE  Append(p, n) \in Seq(Names) /\ Arrives(Append(p, n))
<1>. DEFINE a == Append(p, n)
<1>1. /\ call.to \in Seq(Names)
      /\ \A r \in Paths : tree[r].data \in Seq(Names)
  BY DEF WalkTypes, CallStates, Nodes
<1>2. a \in Seq(Names) /\ \A c \in Seq(Names) : PrefixOf(c, p) => PrefixOf(c, a)
  BY PrefixOfEntry
<1>. HIDE DEF a
<1>3. \A links \in SUBSET Paths : Led(tree, p, links) => Led(tree, a, links)
  BY <1>1, <1>2 DEF Led
<1>4. Tree!Links(tree, Paths) \subseteq Paths
  BY DEF Tree!Links
<1>5. Reached(p) => Reached(a)
  BY <1>3, <1>4 DEF Reached
<1>6. Arrives(a)
  BY <1>1, <1>2, <1>5 DEF Arrives
<1>. QED BY <1>2, <1>6 DEF a

(* And what a link there leads to is reached.                               *)
LEMMA ReachedLink ==
  ASSUME WalkTypes, NEW p \in Paths, tree[p].kind = "link",
         PrefixOf(call.to, p) \/ Reached(p)
  PROVE  Reached(tree[p].data)
<1>. DEFINE d == tree[p].data
<1>1. d \in Seq(Names) /\ PrefixOf(d, d)
  <2>1. d \in Seq(Names)
    BY DEF WalkTypes, Nodes
  <2>. QED BY <2>1, PrefixSelf
<1>2. \A links : p \in links => Led(tree, d, links)
  BY <1>1 DEF Led
<1>. HIDE DEF d
<1>3. ASSUME NEW links \in SUBSET Tree!Links(tree, Paths),
             Tree!Links(tree, Tree!Below(call.to) \cup Tree!LeadTo(tree, links)) \subseteq links
      PROVE  Led(tree, d, links)
  <2>1. PrefixOf(call.to, p) \/ Led(tree, p, links)
    BY <1>3 DEF Reached
  <2>2. PrefixOf(call.to, p) => p \in Tree!Below(call.to)
    BY DEF Tree!Below, PrefixOf
  <2>3. Led(tree, p, links) => p \in Tree!LeadTo(tree, links)
    BY DEF Led, Tree!LeadTo, Tree!Below, PrefixOf
  <2>4. p \in Tree!Links(tree, Tree!Below(call.to) \cup Tree!LeadTo(tree, links))
    BY <2>1, <2>2, <2>3 DEF Tree!Links
  <2>5. p \in links
    BY <1>3, <2>4
  <2>. QED BY <1>2, <2>5
<1>. QED BY <1>3 DEF Reached, d

(* The new directory of a frame may be a link to one; it is not when the    *)
(* links there led to files before the call.                                *)
LEMMA Target ==
  ASSUME TreeInv, stack # << >>, Tree!Top.op = "copy", Tree!Top.phase = "entries",
         Tree!Kind(tree, Tree!Resolved(tree, stack[1].to)) = "dir"
  PROVE  /\ Tree!Resolved(tree, stack[1].to) \in Seq(Names)
         /\ Arrives(Tree!Resolved(tree, stack[1].to))
         /\ ~Tree!Shared => Tree!Resolved(tree, stack[1].to) = stack[1].to
<1>. DEFINE p == stack[1].to
            r == Tree!Resolved(tree, p)
<1>1. /\ Tree!Top = stack[1] /\ p \in Seq(Names) /\ call.to \in Seq(Names)
      /\ 1 \in 1 .. Len(stack)
  BY TopIs
<1>2. /\ call.op = "copy" /\ stack[1].op = "copy" /\ Arrives(p)
      /\ ~Tree!Shared => PrefixOf(call.to, p)
  BY CopyFrame
<1>3. WalkTypes /\ LinksBehind /\ FilesStay
  BY DEF TreeInv
<1>4. CASE Tree!Kind(tree, p) # "link"
  BY <1>1, <1>2, <1>3, <1>4, ResolvedIs
<1>5. CASE Tree!Kind(tree, p) = "link"
  <2>1. p \in Paths /\ tree[p].kind = "link" /\ r = tree[p].data /\ r \in Seq(Names)
    BY <1>1, <1>3, <1>5, ResolvedIs
  <2>2. CASE Tree!Shared
    <3>1. Reached(r)
      BY <1>2, <1>3, <2>1, ReachedLink DEF Arrives
    <3>. QED BY <2>1, <2>2, <3>1 DEF Arrives
  <2>3. CASE ~Tree!Shared
    <3>1. Ahead(stack[1], p)
      BY <1>1, <1>2, <2>3 DEF Ahead
    <3>2. tree[p] = before[p]
      BY <1>1, <1>3, <2>1, <3>1 DEF LinksBehind
    <3>3. p \in Tree!Links(before, Tree!Below(call.to))
      BY <1>2, <2>1, <2>3, <3>2 DEF Tree!Links, Tree!Below, PrefixOf
    <3>4. Tree!Kind(before, r) = "file"
      BY <2>1, <2>3, <3>2, <3>3 DEF Tree!Shared
    <3>5. r \in Paths /\ r # << >> /\ before[r].kind = "file"
      BY <3>4 DEF Tree!Kind
    <3>6. Tree!Kind(tree, r) = "file"
      BY <1>2, <1>3, <3>5 DEF FilesStay, Tree!Kind
    <3>. QED BY <3>6
  <2>. QED BY <2>2, <2>3
<1>. QED BY <1>4, <1>5

(* ListToCopy.                                                              *)
LEMMA ListingToCopy ==
  ASSUME TreeInv, Tree!ListToCopy
  PROVE  TreeInv'
<1>. DEFINE at == Tree!Resolved(tree, stack[1].path)
            f == [stack[1] EXCEPT !.phase = "entries", !.at = at,
                                  !.todo = Tree!Entries(tree, at)]
<1>1. /\ stack # << >> /\ Tree!Top.op = "copy" /\ Tree!Top.phase = "begin"
      /\ os' = os /\ before' = before /\ others' = others /\ tree' = tree
      /\ Tree!List
  BY DEF Tree!ListToCopy, Tree!Same, Tree!In
<1>2. /\ Tree!Top = stack[1] /\ stack[1] \in Frames
      /\ stack[1].path \in Seq(Names) /\ stack[1].to \in Seq(Names)
  BY <1>1, TopIs
<1>3. call.op = "copy" /\ Arrives(stack[1].to) /\ stack[1].op = "copy"
  BY <1>1, CopyFrame
<1>4. WalkTypes
  BY DEF TreeInv
<1>5. Tree!Going(f) \/ Tree!Return
  <2>. HIDE DEF f, at
  <2>1. at = Tree!Resolved(tree, Tree!Top.path)
    BY <1>2 DEF at
  <2>2. f = [Tree!Top EXCEPT !.phase = "entries", !.at = at,
                             !.todo = Tree!Entries(tree, at)]
    BY <1>2 DEF f
  <2>. QED BY <1>1, <2>1, <2>2 DEF Tree!List
<1>6. Writes /\ NoLinks
  BY <1>1, <1>4, Unwritten
<1>7. at \in Seq(Names)
  BY <1>2, <1>4, ResolvedIs
<1>8. Tree!Entries(tree, at) \subseteq Names
  BY EntriesAre
<1>. HIDE DEF at
<1>9. /\ f \in Frames /\ f.op = "copy" /\ f.path = stack[1].path
      /\ f.phase = "entries" /\ f.to = stack[1].to /\ f.todo \subseteq Names
  BY <1>2, <1>3, <1>7, <1>8 DEF Frames
<1>. HIDE DEF f
<1>10. CASE Tree!Going(f)
  <2>1. FrameFor(f)
    BY <1>3, <1>9 DEF FrameFor, CopiedBy
  <2>2. ASSUME NEW p \in Paths, Ahead(f, p) PROVE Ahead(stack[1], p)
    <3>0. ~Tree!Shared /\ p \in Seq(Names)
      BY <2>2, TreeAssumption DEF Ahead, Names
    <3>1. CASE p = stack[1].to
      <4>1. PrefixOf(stack[1].to, p)
        BY <1>2, <3>1, PrefixSelf
      <4>. QED BY <1>1, <1>2, <1>3, <3>0, <4>1 DEF Ahead
    <3>2. CASE \E n \in f.todo : PrefixOf(Append(stack[1].to, n), p)
      <4>1. PICK n \in f.todo : PrefixOf(Append(stack[1].to, n), p)
        BY <3>2
      <4>2. n \in Names
        BY <1>9
      <4>. DEFINE a == Append(stack[1].to, n)
      <4>3. a \in Seq(Names) /\ PrefixOf(stack[1].to, a) /\ PrefixOf(a, p)
        BY <1>2, <4>1, <4>2, Appended
      <4>. HIDE DEF a
      <4>4. PrefixOf(stack[1].to, p)
        BY <1>2, <3>0, <4>3, PrefixPrefix
      <4>. QED BY <1>1, <1>2, <1>3, <3>0, <4>4 DEF Ahead
    <3>. QED BY <1>9, <2>2, <3>1, <3>2 DEF Ahead
  <2>3. SameCall
    BY <1>1, <1>4, <1>10, CallStays DEF Tree!Going
  <2>. QED BY <1>1, <1>6, <1>9, <1>10, <2>1, <2>2, <2>3, GoingOn DEF NoLinks
<1>11. CASE Tree!Return
  BY <1>1, <1>11, EndsUnwritten
<1>. QED BY <1>5, <1>10, <1>11

(* AllCopied.                                                               *)
LEMMA CopyingAll ==
  ASSUME TreeInv, Tree!AllCopied
  PROVE  TreeInv'
<1>1. /\ stack # << >> /\ os' = os /\ before' = before /\ others' = others /\ tree' = tree
      /\ Tree!Return
  BY DEF Tree!AllCopied, Tree!Same, Tree!In
<1>. QED BY <1>1, EndsUnwritten

(* A frame that copies goes on to what else it has to copy.                 *)
LEMMA GoesOnCopying ==
  ASSUME TreeInv, stack # << >>, Tree!Top.op = "copy", Tree!Top.phase = "entries",
         os' = os, before' = before, Writes,
         NEW name \in stack[1].todo,
         NEW f \in Frames, Tree!Going(f), f.op = "copy", f.path = stack[1].path,
         f.to = stack[1].to, f.phase = "entries", f.todo = stack[1].todo \ {name},
         \A p \in Paths : tree'[p].kind = "link" /\ tree'[p] # tree[p] =>
                            Tree!Shared \/ p = Append(stack[1].to, name)
  PROVE  TreeInv'
<1>1. /\ Tree!Top = stack[1] /\ stack[1].to \in Seq(Names) /\ stack[1].todo \subseteq Names
  BY TopIs
<1>2. call.op = "copy" /\ Arrives(stack[1].to) /\ stack[1].op = "copy"
  BY CopyFrame
<1>3. FrameFor(f)
  BY <1>2 DEF FrameFor, CopiedBy
<1>4. \A p \in Paths : Ahead(f, p) => Ahead(stack[1], p)
  BY <1>1, <1>2 DEF Ahead
<1>5. ASSUME NEW p \in Paths, ~Tree!Shared, p = Append(stack[1].to, name)
      PROVE  Ahead(stack[1], p) /\ ~Ahead(f, p)
  <2>1. p \in Seq(Names) /\ name \in Names
    BY <1>1, TreeAssumption DEF Names
  <2>2. PrefixOf(Append(stack[1].to, name), p)
    BY <1>5, <2>1, PrefixSelf
  <2>3. Ahead(stack[1], p)
    BY <1>1, <1>2, <1>5, <2>2 DEF Ahead
  <2>4. ASSUME NEW m \in f.todo, PrefixOf(Append(stack[1].to, m), p) PROVE FALSE
    <3>1. m \in Names /\ m # name
      BY <1>1
    <3>. QED BY <1>1, <2>1, <2>2, <2>4, <3>1, EntriesApart
  <2>5. p # stack[1].to
    <3>1. Len(p) = Len(stack[1].to) + 1 /\ Len(stack[1].to) \in Nat
      BY <1>1, <1>5, <2>1, Appended, LenProperties
    <3>. QED BY <3>1
  <2>6. ~Ahead(f, p)
    BY <2>4, <2>5 DEF Ahead
  <2>. QED BY <2>3, <2>6
<1>6. SameCall
  BY CallStays DEF Tree!Going, TreeInv
<1>7. \A p \in Paths : tree'[p].kind = "link" /\ tree'[p] # tree[p] =>
        call.op = "copy" /\ (Tree!Shared \/ Ahead(stack[1], p)) /\ ~Ahead(f, p)
  <2>1. Tree!Shared => \A p : ~Ahead(f, p)
    BY DEF Ahead
  <2>. QED BY <1>2, <1>5, <2>1
<1>. QED BY <1>3, <1>4, <1>6, <1>7, GoingOn

(* Where an entry goes: to its place, through the link that may be there.   *)
LEMMA Destination ==
  ASSUME TreeInv, stack # << >>, Tree!Top.op = "copy", Tree!Top.phase = "entries",
         NEW name \in stack[1].todo,
         NEW to, to = Append(Tree!Resolved(tree, stack[1].to), name),
         Tree!Kind(tree, Tree!Parent(to)) = "dir"
  PROVE  /\ to \in Seq(Names) /\ Arrives(to)
         /\ Allowed(to) /\ Allowed(Tree!Resolved(tree, to))
         /\ ~Tree!Shared => to = Append(stack[1].to, name)
<1>1. /\ Tree!Top = stack[1] /\ stack[1].to \in Seq(Names) /\ stack[1].todo \subseteq Names
      /\ call.to \in Seq(Names) /\ 1 \in 1 .. Len(stack)
  BY TopIs
<1>2. call.op = "copy" /\ stack[1].op = "copy"
  BY CopyFrame
<1>3. WalkTypes /\ LinksBehind
  BY DEF TreeInv
<1>. DEFINE r == Tree!Resolved(tree, stack[1].to)
<1>4. r \in Seq(Names) /\ name \in Names
  BY <1>1, <1>3, ResolvedIs
<1>. HIDE DEF r
<1>5. Tree!Parent(to) = r
  BY <1>4, ParentOfEntry DEF r
<1>6. Arrives(r) /\ (~Tree!Shared => r = stack[1].to)
  BY <1>5, Target DEF r
<1>7. to \in Seq(Names) /\ Arrives(to)
  BY <1>3, <1>4, <1>6, ArrivesEntry DEF r
<1>8. ~Tree!Shared => to = Append(stack[1].to, name)
  BY <1>6 DEF r
<1>9. Allowed(to)
  BY <1>2, <1>7 DEF Allowed, Arrives, InTheWay, Through
<1>10. CASE Tree!Kind(tree, to) # "link"
  BY <1>3, <1>7, <1>8, <1>9, <1>10, ResolvedIs
<1>11. CASE Tree!Kind(tree, to) = "link"
  <2>1. /\ to \in Paths /\ tree[to].kind = "link"
        /\ Tree!Resolved(tree, to) = tree[to].data
    BY <1>3, <1>7, <1>11, ResolvedIs
  <2>2. CASE Tree!Shared
    <3>1. Reached(tree[to].data)
      BY <1>3, <1>7, <2>1, ReachedLink DEF Arrives
    <3>2. Allowed(tree[to].data)
      BY <1>2, <2>2, <3>1 DEF Allowed, Through
    <3>. QED BY <1>7, <1>8, <1>9, <2>1, <3>2
  <2>3. CASE ~Tree!Shared
    <3>1. PrefixOf(to, to) /\ PrefixOf(call.to, to)
      BY <1>7, <2>3, PrefixSelf DEF Arrives
    <3>2. Ahead(stack[1], to)
      BY <1>1, <1>2, <1>8, <2>3, <3>1 DEF Ahead
    <3>3. tree[to] = before[to]
      BY <1>1, <1>3, <2>1, <3>2 DEF LinksBehind
    <3>4. to \in Tree!Links(before, Tree!Below(call.to))
      BY <2>1, <3>1, <3>3 DEF Tree!Links, Tree!Below, PrefixOf
    <3>5. before[to].data \in Seq(Names)
      BY <1>3, <2>1 DEF WalkTypes, Nodes
    <3>6. PrefixOf(before[to].data, before[to].data)
      BY <3>5, PrefixSelf
    <3>7. Led(before, before[to].data, Tree!Links(before, Tree!Below(call.to)))
      BY <3>4, <3>6 DEF Led
    <3>8. Allowed(tree[to].data)
      BY <1>2, <2>3, <3>3, <3>7 DEF Allowed, Through
    <3>. QED BY <1>7, <1>8, <1>9, <2>1, <3>8
  <2>. QED BY <2>2, <2>3
<1>. QED BY <1>10, <1>11

(* A directory is entered, after the new one has been made.                 *)
LEMMA EnteringCopy ==
  ASSUME TreeInv, stack # << >>, Tree!Top.op = "copy", Tree!Top.phase = "entries",
         os' = os, before' = before, others' = others, tree' = tree,
         NEW name \in stack[1].todo,
         NEW f \in Frames, f.op = "copy", f.path = stack[1].path,
         f.to = stack[1].to, f.phase = "entries", f.todo = stack[1].todo \ {name},
         NEW p \in Seq(Names), NEW to,
         to = Append(Tree!Resolved(tree, stack[1].to), name),
         Tree!Kind(tree, Tree!Parent(to)) = "dir",
         Tree!Entering(f, "copy", p, to)
  PROVE  TreeInv'
<1>. DEFINE c == Tree!Frame("create", to, << >>)
            x == Tree!Frame("copy", p, to)
<1>1. /\ Tree!Top = stack[1] /\ stack[1].to \in Seq(Names) /\ stack[1].todo \subseteq Names
      /\ call.to \in Seq(Names)
  BY TopIs
<1>2. call.op = "copy" /\ Arrives(stack[1].to) /\ stack[1].op = "copy"
  BY CopyFrame
<1>3. /\ to \in Seq(Names) /\ Arrives(to)
      /\ ~Tree!Shared => to = Append(stack[1].to, name)
  BY Destination
<1>4. c \in Frames /\ c.op = "create" /\ c.path = to
  BY <1>3, EmptySeq DEF Tree!Frame, Frames
<1>5. x \in Frames /\ x.op = "copy" /\ x.path = p /\ x.to = to /\ x.phase = "begin"
  BY <1>3, EmptySeq DEF Tree!Frame, Frames
<1>6. stack' = Over(<< c, x >> \o << f >>, stack) /\ call' = call
  BY DEF Tree!Entering, Tree!Frames, Over
<1>. HIDE DEF c, x
<1>7. FrameFor(c) /\ FrameFor(x) /\ FrameFor(f)
  BY <1>2, <1>3, <1>4, <1>5 DEF FrameFor, CopiedBy, InTheWay, Arrives
<1>8. ASSUME NEW r \in Paths PROVE (Ahead(x, r) \/ Ahead(f, r)) => Ahead(stack[1], r)
  BY <1>1, <1>2, <1>3, <1>5 DEF Ahead
<1>9. ASSUME NEW r \in Paths, Ahead(x, r), Ahead(f, r) PROVE FALSE
  <2>1. r \in Seq(Names) /\ name \in Names
    BY <1>1, TreeAssumption DEF Names
  <2>2. /\ PrefixOf(Append(stack[1].to, name), r)
        /\ r = stack[1].to \/ \E m \in f.todo : PrefixOf(Append(stack[1].to, m), r)
    BY <1>3, <1>5, <1>9 DEF Ahead
  <2>3. CASE r = stack[1].to
    <3>1. /\ Append(stack[1].to, name) \in Seq(Names)
          /\ Len(Append(stack[1].to, name)) = Len(r) + 1 /\ Len(r) \in Nat
      BY <1>1, <2>1, <2>3, Appended, LenProperties
    <3>2. Len(Append(stack[1].to, name)) <= Len(r)
      BY <2>1, <2>2, <3>1, PrefixMeans
    <3>. QED BY <3>1, <3>2
  <2>4. CASE \E m \in f.todo : PrefixOf(Append(stack[1].to, m), r)
    <3>1. PICK m \in f.todo : PrefixOf(Append(stack[1].to, m), r)
      BY <2>4
    <3>2. m \in Names /\ m # name
      BY <1>1
    <3>. QED BY <1>1, <2>1, <2>2, <3>1, <3>2, EntriesApart
  <2>. QED BY <2>2, <2>3, <2>4
<1>10. SameCall
  BY <1>6, CallStays DEF TreeInv
<1>11. Writes /\ NoLinks
  BY Unwritten DEF TreeInv
<1>. QED BY <1>4, <1>5, <1>6, <1>7, <1>8, <1>9, <1>10, <1>11, EnteringTwo

(* CopyLink.                                                                *)
LEMMA CopyingLink ==
  ASSUME TreeInv, stack # << >>, Tree!Top.op = "copy", Tree!Top.phase = "entries",
         os' = os, before' = before, others' = others,
         NEW name \in stack[1].todo, NEW to,
         to = Append(Tree!Resolved(tree, stack[1].to), name),
         Tree!Kind(tree, Tree!Parent(to)) = "dir", Tree!Kind(tree, to) = "none",
         NEW f, f = [stack[1] EXCEPT !.todo = @ \ {name}],
         NEW target \in Seq(Names), Tree!CopyLink(to, target, f)
  PROVE  TreeInv'
<1>1. /\ Tree!Top = stack[1] /\ stack[1] \in Frames /\ stack[1].link \in Seq(Names)
  BY TopIs
<1>2. call.op = "copy" /\ stack[1].op = "copy"
  BY CopyFrame
<1>3. /\ to \in Seq(Names) /\ Allowed(to)
      /\ ~Tree!Shared => to = Append(stack[1].to, name)
  BY Destination
<1>4. WalkTypes
  BY DEF TreeInv
<1>. DEFINE buffer == Tree!Overlaid(target, stack[1].link)
            node == [kind |-> "link", data |-> buffer]
            g == [f EXCEPT !.link = buffer]
<1>5. \/ Tree!Put(to, node) /\ Tree!Going(g)
      \/ tree' = tree /\ Tree!Fail
  BY <1>1 DEF Tree!CopyLink
<1>6. buffer \in Seq(Names)
  BY <1>1, OverlaidIs
<1>. HIDE DEF buffer
<1>7. node \in Nodes
  BY <1>6 DEF Nodes
<1>8. /\ g \in Frames /\ g.op = "copy" /\ g.path = stack[1].path
      /\ g.to = stack[1].to /\ g.phase = "entries" /\ g.todo = stack[1].todo \ {name}
  BY <1>1, <1>2, <1>6 DEF Frames
<1>. HIDE DEF node, g
<1>9. CASE Tree!Put(to, node) /\ Tree!Going(g)
  <2>1. Writes
    <3>1. to \in Paths => tree[to].kind = "none"
      BY TreeAssumption DEF Tree!Kind
    <3>. QED BY <1>3, <1>4, <1>7, <1>9, <3>1, Written
  <2>2. \A p \in Paths : tree'[p] # tree[p] => p = to
    <3>1. WalkTypes /\ node \in Nodes /\ Tree!Put(to, node)
      BY <1>4, <1>7, <1>9
    <3>2. \A p \in Paths : tree'[p] # tree[p] => p = to /\ tree'[p] = node
      BY ONLY <3>1, Putting, Zenon
    <3>. QED BY <3>2
  <2>. QED BY <1>3, <1>8, <1>9, <2>1, <2>2, GoesOnCopying
<1>10. CASE tree' = tree /\ Tree!Fail
  BY <1>10, EndsUnwritten
<1>. QED BY <1>5, <1>9, <1>10

(* CopyFile.                                                                *)
LEMMA CopyingFile ==
  ASSUME TreeInv, stack # << >>, Tree!Top.op = "copy", Tree!Top.phase = "entries",
         os' = os, before' = before, others' = others,
         NEW name \in stack[1].todo, NEW to,
         to = Append(Tree!Resolved(tree, stack[1].to), name),
         Tree!Kind(tree, Tree!Parent(to)) = "dir",
         Tree!Kind(tree, Tree!Resolved(tree, to)) \notin {"dir", "link"},
         NEW f, f = [stack[1] EXCEPT !.todo = @ \ {name}],
         NEW data \in Seq(Names), Tree!CopyFile(to, data, f)
  PROVE  TreeInv'
<1>1. /\ Tree!Top = stack[1] /\ stack[1] \in Frames
  BY TopIs
<1>2. call.op = "copy" /\ stack[1].op = "copy"
  BY CopyFrame
<1>3. WalkTypes
  BY DEF TreeInv
<1>. DEFINE at == Tree!Resolved(tree, to)
            node(n) == [kind |-> "file",
                        data |-> Tree!Copied(SubSeq(data, 1, n), tree[at].data)]
<1>4. Allowed(at)
  BY Destination
<1>5. PICK n \in 0 .. Len(data) :
        /\ Tree!Put(at, node(n))
        /\ Tree!Going(f) \/ Tree!Fail
  BY DEF Tree!CopyFile
<1>. HIDE DEF at
<1>6. at \in Paths => node(n) \in Nodes
  <2>1. SUFFICES ASSUME at \in Paths PROVE node(n) \in Nodes
    OBVIOUS
  <2>. DEFINE new == SubSeq(data, 1, n)
              old == tree[at].data
  <2>2. new \in Seq(Names)
    BY FirstPart
  <2>3. old \in Seq(Names)
    BY <1>3, <2>1 DEF WalkTypes, Nodes
  <2>. HIDE DEF new, old
  <2>4. Tree!Copied(new, old) \in Seq(Names)
    BY <2>2, <2>3, OverlaidIs DEF Tree!Copied
  <2>. QED BY <2>4 DEF Nodes, new, old
<1>7. node(n).kind = "file"
  OBVIOUS
<1>8. /\ f \in Frames /\ f.op = "copy" /\ f.path = stack[1].path
      /\ f.to = stack[1].to /\ f.phase = "entries" /\ f.todo = stack[1].todo \ {name}
  BY <1>1, <1>2 DEF Frames
<1>. HIDE DEF node
<1>9. Writes
  <2>1. at \in Paths => tree[at].kind \in {"none", "file"}
    <3>1. SUFFICES ASSUME at \in Paths PROVE tree[at].kind \in {"none", "file"}
      OBVIOUS
    <3>2. at # << >> /\ tree[at].kind \in {"none", "file", "dir", "link"}
      BY <1>3, <3>1, TreeAssumption DEF WalkTypes, Nodes
    <3>3. Tree!Kind(tree, at) = tree[at].kind
      BY <3>1, <3>2 DEF Tree!Kind
    <3>. QED BY <3>2, <3>3 DEF at
  <2>2. node(n).kind = "file"
    BY <1>7
  <2>. QED BY <1>3, <1>4, <1>5, <1>6, <2>1, <2>2, Written
<1>10. \A p \in Paths : tree'[p] # tree[p] => tree'[p] = node(n)
  BY <1>3, <1>5, <1>6, Putting
<1>11. NoLinks
  BY <1>7, <1>10 DEF NoLinks
<1>12. CASE Tree!Going(f)
  BY <1>8, <1>9, <1>11, <1>12, GoesOnCopying DEF NoLinks
<1>13. CASE Tree!Fail
  BY <1>9, <1>11, <1>13, Ends
<1>. QED BY <1>5, <1>12, <1>13

(* What is copied as a file is one.                                         *)
LEMMA SourceIs ==
  ASSUME WalkTypes, os \in {"posix", "win32"}, NEW p \in Seq(Names), NEW to,
         ~Tree!TakenForDirectory(p), ~Tree!Blocked(p, to)
  PROVE  /\ Tree!Kind(tree, p) = "link" => tree[p].data \in Seq(Names)
         /\ os = "win32" \/ Tree!Kind(tree, p) # "link" =>
              tree[Tree!Resolved(tree, p)].data \in Seq(Names)
<1>1. \A r \in Paths : tree[r].data \in Seq(Names)
  BY DEF WalkTypes, Nodes
<1>2. Tree!Kind(tree, p) = "link" => tree[p].data \in Seq(Names)
  BY <1>1, ResolvedIs
<1>3. ASSUME os = "win32" \/ Tree!Kind(tree, p) # "link"
      PROVE  tree[Tree!Resolved(tree, p)].data \in Seq(Names)
  <2>1. Tree!Kind(tree, Tree!Resolved(tree, p)) = "file"
    BY <1>3 DEF Tree!Blocked
  <2>2. Tree!Resolved(tree, p) \in Paths
    BY <2>1 DEF Tree!Kind
  <2>. QED BY <1>1, <2>2
<1>. QED BY <1>2, <1>3

(* CopyEntry.                                                               *)
LEMMA CopyingEntry ==
  ASSUME TreeInv, Tree!CopyEntry
  PROVE  TreeInv'
<1>1. /\ stack # << >> /\ Tree!Top.op = "copy" /\ Tree!Top.phase = "entries"
      /\ os' = os /\ before' = before /\ others' = others
  BY DEF Tree!CopyEntry, Tree!Same, Tree!In
<1>2. /\ Tree!Top = stack[1] /\ stack[1] \in Frames /\ os \in {"posix", "win32"}
      /\ stack[1].at \in Seq(Names) /\ stack[1].todo \subseteq Names
  BY <1>1, TopIs
<1>3. stack[1].op = "copy"
  BY <1>1, CopyFrame
<1>. DEFINE path(name) == Append(stack[1].at, name)
            to(name) == Append(Tree!Resolved(tree, stack[1].to), name)
            done(name) == [stack[1] EXCEPT !.todo = @ \ {name}]
<1>4. PICK name \in stack[1].todo :
        \/ /\ tree' = tree /\ ~Tree!Blocked(path(name), to(name))
           /\ Tree!Entering(done(name), "copy", path(name), to(name))
        \/ tree' = tree /\ Tree!Fail
        \/ /\ ~Tree!TakenForDirectory(path(name)) /\ ~Tree!Blocked(path(name), to(name))
           /\ \/ /\ os = "posix" /\ Tree!Kind(tree, path(name)) = "link"
                 /\ Tree!CopyLink(to(name), tree[path(name)].data, done(name))
              \/ /\ os = "win32" \/ Tree!Kind(tree, path(name)) # "link"
                 /\ Tree!CopyFile(to(name), tree[Tree!Resolved(tree, path(name))].data,
                                  done(name))
  <2>1. \A name : done(name) = [Tree!Top EXCEPT !.todo = @ \ {name}]
    BY <1>2
  <2>2. \A name : /\ path(name) = Append(Tree!Top.at, name)
                   /\ to(name) = Append(Tree!Resolved(tree, Tree!Top.to), name)
    BY <1>2
  <2>. HIDE DEF path, to, done
  <2>. QED BY <1>2, <2>1, <2>2 DEF Tree!CopyEntry
<1>5. path(name) \in Seq(Names)
  BY <1>2, Appended
<1>6. WalkTypes
  BY DEF TreeInv
<1>7. /\ done(name) \in Frames /\ done(name).op = "copy" /\ done(name).path = stack[1].path
      /\ done(name).to = stack[1].to /\ done(name).phase = "entries"
      /\ done(name).todo = stack[1].todo \ {name}
  BY <1>1, <1>2, <1>3 DEF Frames
<1>8. /\ to(name) = Append(Tree!Resolved(tree, stack[1].to), name)
      /\ done(name) = [stack[1] EXCEPT !.todo = @ \ {name}]
  OBVIOUS
<1>. HIDE DEF path, to, done
<1>9. CASE /\ tree' = tree /\ ~Tree!Blocked(path(name), to(name))
           /\ Tree!Entering(done(name), "copy", path(name), to(name))
  <2>1. Tree!Kind(tree, Tree!Parent(to(name))) = "dir"
    BY <1>9 DEF Tree!Blocked
  <2>. QED BY <1>1, <1>5, <1>7, <1>8, <1>9, <2>1, EnteringCopy
<1>10. CASE tree' = tree /\ Tree!Fail
  BY <1>1, <1>10, EndsUnwritten
<1>11. CASE ~Tree!TakenForDirectory(path(name)) /\ ~Tree!Blocked(path(name), to(name))
  <2>1. /\ Tree!Kind(tree, path(name)) = "link" => tree[path(name)].data \in Seq(Names)
        /\ os = "win32" \/ Tree!Kind(tree, path(name)) # "link" =>
             tree[Tree!Resolved(tree, path(name))].data \in Seq(Names)
    BY <1>2, <1>5, <1>6, <1>11, SourceIs
  <2>2. CASE /\ os = "posix" /\ Tree!Kind(tree, path(name)) = "link"
             /\ Tree!CopyLink(to(name), tree[path(name)].data, done(name))
    <3>1. /\ Tree!Kind(tree, Tree!Parent(to(name))) = "dir"
          /\ Tree!Kind(tree, to(name)) = "none"
      BY <1>11, <2>2 DEF Tree!Blocked
    <3>. QED BY <1>1, <1>8, <2>1, <2>2, <3>1, CopyingLink
  <2>3. CASE /\ os = "win32" \/ Tree!Kind(tree, path(name)) # "link"
             /\ Tree!CopyFile(to(name), tree[Tree!Resolved(tree, path(name))].data, done(name))
    <3>1. /\ Tree!Kind(tree, Tree!Parent(to(name))) = "dir"
          /\ Tree!Kind(tree, Tree!Resolved(tree, to(name))) \notin {"dir", "link"}
      BY <1>11, <2>3 DEF Tree!Blocked
    <3>. QED BY <1>1, <1>8, <2>1, <2>3, <3>1, CopyingFile
  <2>. QED BY <1>4, <1>9, <1>10, <2>2, <2>3
<1>. QED BY <1>4, <1>9, <1>10, <1>11

(* OtherMakesDirectory: the frames stay, and what is made is known.         *)
LEMMA OthersMaking ==
  ASSUME TreeInv, Tree!OtherMakesDirectory
  PROVE  TreeInv'
<1>1. /\ stack # << >> /\ call' = call /\ stack' = stack /\ os' = os /\ before' = before
  BY DEF Tree!OtherMakesDirectory
<1>2. PICK p \in Paths : /\ Tree!Kind(tree, p) = "none" /\ Tree!Put(p, Tree!Directory)
                         /\ others' = others \cup {p}
  BY DEF Tree!OtherMakesDirectory
<1>3. WalkTypes /\ Framed /\ Bottom
  BY DEF TreeInv
<1>. DEFINE u == << stack[1] >>
<1>4. stack \in Seq(Frames) /\ call.op # "none" /\ FrameFor(stack[1]) /\ stack[1] \in Frames
  BY <1>1, <1>3, TopIs DEF WalkTypes
<1>5. u \in Seq(Frames) /\ Over(u, stack) = stack
  BY <1>1, <1>4, OverItself
<1>6. Len(u) = 1 /\ u[1] = stack[1]
  OBVIOUS
<1>. HIDE DEF u
<1>7. \A k \in 1 .. Len(u) : k = 1
  BY <1>6
<1>8. Tree!Directory \in Nodes /\ Tree!Directory.kind # "link"
  BY Kinds
<1>9. /\ tree' \in [Paths -> Nodes]
      /\ \A r \in Paths : tree'[r] # tree[r] => r = p /\ tree'[r] = Tree!Directory
  BY <1>2, <1>3, <1>8, Putting
<1>10. Divided(u)
  BY <1>7 DEF Divided
<1>11. SameCall
  BY <1>1, <1>3, CallStays
<1>12. Keeping
  <2>1. tree[p].kind = "none"
    BY <1>2, TreeAssumption DEF Tree!Kind
  <2>. QED BY <1>9, <2>1 DEF Keeping
<1>13. Advances(u)
  BY <1>1, <1>2, <1>4, <1>5, <1>6, <1>7, <1>8, <1>9, <1>10, <1>12 DEF Advances
<1>. QED BY <1>4, <1>5, <1>11, <1>13, Proceeding

(* What a call begins with: paths that exist, once links are followed.      *)
LEMMA BeginIs ==
  ASSUME TreeInv, NEW c \in Calls, Tree!Begin(c)
  PROVE  \E path \in Paths : \E to \in Seq(Names) :
           /\ call' = [op |-> c.op, path |-> path, to |-> to, result |-> FALSE]
           /\ stack' = Tree!Frames(c.op, path, to)
           /\ os # "none" /\ call.op = "none" /\ tree = before
           /\ os' = os /\ tree' = tree /\ before' = before /\ others' = others
           /\ c.op \in {"create", "delete", "copy"} /\ path \in Seq(Names) /\ path # << >>
<1>. DEFINE path == IF c.op = "delete" THEN Tree!Place(tree, c.path)
                    ELSE Tree!Entered(tree, c.path)
            to == IF c.op = "copy" THEN Tree!Entered(tree, c.to) ELSE << >>
<1>1. /\ os # "none" /\ call.op = "none"
      /\ call' = [op |-> c.op, path |-> path, to |-> to, result |-> FALSE]
      /\ stack' = Tree!Frames(c.op, path, to)
      /\ os' = os /\ tree' = tree /\ before' = before /\ others' = others
  BY DEF Tree!Begin
<1>2. tree = before /\ before \in Trees
  BY <1>1 DEF TreeInv, Started, Origin
<1>3. path \in Paths
  BY <1>2, CallAssumption
<1>4. to \in Paths \cup {<< >>}
  BY <1>2, CallAssumption
<1>. HIDE DEF path, to
<1>5. Paths \subseteq Seq(Names) /\ << >> \notin Paths
  BY TreeAssumption DEF Names
<1>6. << >> \in Seq(Names)
  BY EmptySeq
<1>7. path \in Seq(Names) /\ path # << >> /\ to \in Seq(Names)
  BY <1>3, <1>4, <1>5, <1>6
<1>8. c.op \in {"create", "delete", "copy"}
  BY TreeAssumption
<1>. QED BY <1>1, <1>2, <1>3, <1>7, <1>8

(* Begin.                                                                   *)
LEMMA Beginning ==
  ASSUME TreeInv, NEW c \in Calls, Tree!Begin(c)
  PROVE  TreeInv'
<1>1. PICK path \in Paths, to \in Seq(Names) :
        /\ call' = [op |-> c.op, path |-> path, to |-> to, result |-> FALSE]
        /\ stack' = Tree!Frames(c.op, path, to)
        /\ os # "none" /\ call.op = "none" /\ tree = before
        /\ os' = os /\ tree' = tree /\ before' = before /\ others' = others
        /\ c.op \in {"create", "delete", "copy"} /\ path \in Seq(Names) /\ path # << >>
  BY BeginIs
<1>3. WalkTypes /\ Started /\ Origin
  BY DEF TreeInv
<1>. DEFINE x == Tree!Frame(c.op, path, to)
            m == Tree!Frame("create", to, << >>)
<1>5. /\ x \in Frames /\ x.op = c.op /\ x.path = path /\ x.at = path /\ x.to = to
      /\ m \in Frames /\ m.op = "create" /\ m.path = to
  BY <1>1, EmptySeq DEF Tree!Frame, Frames
<1>6. \/ c.op # "copy" /\ stack' = << x >>
      \/ c.op = "copy" /\ stack' = << m, x >>
  BY <1>1 DEF Tree!Frames
<1>. HIDE DEF x, m
<1>7. /\ call' \in CallStates /\ call'.op = c.op /\ call'.path = path /\ call'.to = to
  BY <1>1 DEF CallStates
<1>8. PrefixOf(path, path) /\ PrefixOf(to, to)
  BY <1>1, PrefixSelf
<1>9. /\ stack' \in Seq(Frames)
      /\ \/ c.op # "copy" /\ Len(stack') = 1 /\ stack'[1] = x
         \/ c.op = "copy" /\ Len(stack') = 2 /\ stack'[1] = m /\ stack'[2] = x
  <2>1. << x >> \in Seq(Frames) /\ Len(<< x >>) = 1 /\ << x >>[1] = x
    BY <1>5
  <2>2. /\ << m, x >> \in Seq(Frames) /\ Len(<< m, x >>) = 2
        /\ << m, x >>[1] = m /\ << m, x >>[2] = x
    BY <1>5
  <2>. QED BY <1>6, <2>1, <2>2
<1>10. Inside(path)'
  BY <1>7, <1>8 DEF Inside
<1>11. FrameFor(x)'
  <2>1. c.op = "create" => MadeBy(x)'
    BY <1>5, <1>7, <1>8 DEF MadeBy
  <2>2. c.op = "delete" => DeletedBy(x)'
    BY <1>5, <1>7, <1>10 DEF DeletedBy
  <2>3. c.op = "copy" => CopiedBy(x)'
    BY <1>5, <1>7, <1>8 DEF CopiedBy, Arrives
  <2>. QED BY <1>7, <2>1, <2>2, <2>3 DEF FrameFor
<1>12. c.op = "copy" => FrameFor(m)'
  BY <1>5, <1>7, <1>8 DEF FrameFor, MadeBy, DeletedBy, CopiedBy, InTheWay
<1>13. WalkTypes'
  BY <1>1, <1>3, <1>7, <1>9 DEF WalkTypes
<1>14. Started'
  BY <1>1, <1>3, <1>7 DEF Started
<1>15. Framed'
  <2>1. \A i \in 1 .. Len(stack') : FrameFor(stack[i])'
    BY <1>9, <1>11, <1>12
  <2>. QED BY <2>1 DEF Framed
<1>16. Bottom'
  BY <1>5, <1>7, <1>9 DEF Bottom
<1>17. Confined' /\ LinksBehind' /\ FilesStay' /\ Origin'
  BY <1>1, <1>3 DEF Confined, LinksBehind, FilesStay, Origin
<1>18. Divided(stack)'
  <2>1. \A p : ~Ahead(m, p)'
    BY <1>5 DEF Ahead
  <2>. QED BY <1>9, <2>1 DEF Divided
<1>. QED BY <1>13, <1>14, <1>15, <1>16, <1>17, <1>18 DEF TreeInv

-----------------------------------------------------------------------------
(* In the beginning nothing has been changed.                               *)
LEMMA InitTree ==
  ASSUME Init
  PROVE  TreeInv
<1>1. /\ call = Tree!Idle /\ stack = << >> /\ before = tree /\ others = {}
      /\ os \in {"none", "posix", "win32"}
      /\ os # "none" => tree \in Trees
      /\ tree \in Trees \/ tree = [p \in Paths |-> Tree!Nothing]
  BY DEF Init, Tree!Init, Tree!None
<1>2. Tree!Nothing \in Nodes
  BY Kinds
<1>3. tree \in [Paths -> Nodes]
  BY <1>1, <1>2, TreeAssumption DEF Nodes, Names
<1>4. call \in CallStates /\ call.op = "none"
  BY <1>1, EmptySeq DEF Tree!Idle, CallStates
<1>5. stack \in Seq(Frames) /\ Len(stack) = 0
  BY <1>1, EmptySeq
<1>6. \A i \in 1 .. Len(stack) : FALSE
  BY <1>5
<1>. QED BY <1>1, <1>3, <1>4, <1>5, <1>6
        DEF TreeInv, WalkTypes, Started, Framed, Bottom, Confined, LinksBehind, Divided,
            FilesStay, Origin

(* Whatever happens, TreeInv stays.                                         *)
LEMMA TreeStays ==
  ASSUME TreeInv, [Next]_vars
  PROVE  TreeInv'
<1>1. CASE Tree!Next
  <2>1. CASE \E c \in Calls : Tree!Begin(c)
    BY <2>1, Beginning
  <2>2. CASE Tree!MakeDirectory
    BY <2>2, Making
  <2>3. CASE Tree!ListToDelete
    BY <2>3, ListingToDelete
  <2>4. CASE Tree!DeleteEntry
    BY <2>4, DeletingEntry
  <2>5. CASE Tree!AllDeleted
    BY <2>5, DeletingAll
  <2>6. CASE Tree!RemoveDirectory
    BY <2>6, RemovingIt
  <2>7. CASE Tree!ListToCopy
    BY <2>7, ListingToCopy
  <2>8. CASE Tree!CopyEntry
    BY <2>8, CopyingEntry
  <2>9. CASE Tree!AllCopied
    BY <2>9, CopyingAll
  <2>10. CASE Tree!OtherMakesDirectory
    BY <2>10, OthersMaking
  <2>. QED BY <1>1, <2>1, <2>2, <2>3, <2>4, <2>5, <2>6, <2>7, <2>8, <2>9, <2>10
           DEF Tree!Next
<1>2. CASE UNCHANGED treeVars
  <2>1. /\ os' = os /\ tree' = tree /\ call' = call /\ stack' = stack
        /\ before' = before /\ others' = others
    BY <1>2 DEF treeVars
  <2>2. /\ WalkTypes /\ Started /\ Framed /\ Bottom /\ Confined /\ LinksBehind
        /\ Divided(stack) /\ FilesStay /\ Origin
    BY DEF TreeInv
  <2>3. WalkTypes' /\ Started' /\ Bottom' /\ FilesStay' /\ Origin' /\ SameCall
    BY <2>1, <2>2 DEF WalkTypes, Started, Bottom, FilesStay, Origin, SameCall
  <2>4. Framed'
    <3>1. \A f \in Frames : FrameFor(f) => FrameFor(f)'
      <4>1. /\ tree' \in [Paths -> Nodes] /\ (\A p \in Paths : tree'[p] = tree[p])
            /\ Keeping
        BY <2>1, <2>2 DEF WalkTypes, Keeping
      <4>. QED BY <2>2, <2>3, <4>1, SameFrames
    <3>2. \A i \in 1 .. Len(stack) : stack[i] \in Frames
      BY <2>2, ElementOfSeq DEF WalkTypes
    <3>3. \A i \in 1 .. Len(stack) : FrameFor(stack[i])'
      <4>1. ASSUME NEW i \in 1 .. Len(stack) PROVE FrameFor(stack[i])'
        <5>1. stack[i] \in Frames /\ FrameFor(stack[i])
          BY <2>2, <3>2 DEF Framed
        <5>. QED BY <2>1, <3>1, <5>1
      <4>. QED BY <4>1
    <3>. QED BY <2>1, <3>3 DEF Framed
  <2>5. Confined'
    <3>1. \A p : Allowed(p) => Allowed(p)'
      <4>1. tree' \in [Paths -> Nodes] /\ Keeping
        BY <2>1, <2>2 DEF WalkTypes, Keeping
      <4>. QED BY <2>2, <2>3, <4>1, AllowedStays
    <3>. QED BY <2>1, <2>2, <3>1 DEF Confined
  <2>6. LinksBehind' /\ Divided(stack)'
    <3>1. \A f, p : Ahead(f, p)' <=> Ahead(f, p)
      BY <2>3, SameBounds
    <3>. QED BY <2>1, <2>2, <3>1 DEF LinksBehind, Divided
  <2>. QED BY <2>3, <2>4, <2>5, <2>6 DEF TreeInv
<1>. QED BY <1>1, <1>2 DEF Next, Walk, Work, vars

(* The bounds of a call, in the words of the property.                      *)
LEMMA StayingInside ==
  ASSUME TreeInv
  PROVE  StaysInside
<1>. DEFINE mine == Tree!Changed \ others
            followed == IF os = "win32" THEN Tree!LinkedFrom(before, Tree!Below(call.path))
                        ELSE Tree!LeadTo(before, Tree!Links(before, {call.path} \cap Paths))
            through == IF Tree!Shared THEN Tree!LinkedFrom(tree, Tree!Below(call.to))
                       ELSE Tree!LeadTo(before, Tree!Links(before, Tree!Below(call.to)))
<1>1. Confined
  BY DEF TreeInv
<1>2. ASSUME NEW p \in mine PROVE p \in Paths /\ Allowed(p)
  BY <1>1, <1>2 DEF Confined, Tree!Changed
<1>3. \A p \in Paths : \A t, links : Led(t, p, links) => p \in Tree!LeadTo(t, links)
  BY DEF Led, Tree!LeadTo, Tree!Below, PrefixOf
<1>4. \A p \in Paths : \A c : PrefixOf(c, p) => p \in Tree!Below(c)
  BY DEF Tree!Below, PrefixOf
<1>5. \A p \in Paths : \A c : PrefixOf(p, c) => p \in Tree!Above(c)
  BY DEF Tree!Above, PrefixOf
<1>6. ASSUME NEW p \in Paths, Inside(p) PROVE p \in Tree!Below(call.path) \cup followed
  <2>1. CASE PrefixOf(call.path, p)
    BY <1>4, <2>1
  <2>2. CASE os # "win32" /\ ~PrefixOf(call.path, p)
    <3>1. Led(before, p, Tree!Links(before, {call.path} \cap Paths))
      BY <1>6, <2>2 DEF Inside
    <3>. QED BY <1>3, <2>2, <3>1
  <2>3. CASE os = "win32" /\ ~PrefixOf(call.path, p)
    <3>1. ASSUME NEW links \in SUBSET Tree!Links(before, Paths),
                 Tree!Links(before, Tree!Below(call.path) \cup Tree!LeadTo(before, links)) \subseteq links
          PROVE  p \in Tree!LeadTo(before, links)
      <4>1. Led(before, p, links)
        BY <1>6, <2>3, <3>1 DEF Inside
      <4>. QED BY <1>3, <4>1
    <3>2. p \in Tree!LinkedFrom(before, Tree!Below(call.path))
      BY <3>1 DEF Tree!LinkedFrom
    <3>. QED BY <2>3, <3>2
  <2>. QED BY <2>1, <2>2, <2>3
<1>7. call.op = "create" => mine \subseteq Tree!Above(call.path)
  BY <1>2, <1>5 DEF Allowed
<1>8. call.op = "delete" => mine \subseteq Tree!Below(call.path) \cup followed
  <2>1. ASSUME call.op = "delete", NEW p \in mine
        PROVE  p \in Tree!Below(call.path) \cup followed
    <3>1. p \in Paths /\ Inside(p)
      BY <1>2, <2>1 DEF Allowed
    <3>. QED BY <1>6, <3>1
  <2>. QED BY <2>1
<1>9. ASSUME NEW p \in Paths, Through(p) PROVE p \in through
  <2>1. CASE Tree!Shared
    <3>1. Reached(p)
      BY <1>9, <2>1 DEF Through
    <3>2. p \in Tree!LinkedFrom(tree, Tree!Below(call.to))
      BY <1>3, <3>1 DEF Tree!LinkedFrom, Reached
    <3>. QED BY <2>1, <3>2
  <2>2. CASE ~Tree!Shared
    BY <1>3, <1>9, <2>2 DEF Through
  <2>. QED BY <2>1, <2>2
<1>10. call.op = "copy" => mine \subseteq Tree!Above(call.to) \cup Tree!Below(call.to) \cup through
  <2>1. ASSUME call.op = "copy", NEW p \in mine
        PROVE  p \in Tree!Above(call.to) \/ p \in Tree!Below(call.to) \/ p \in through
    <3>1. /\ p \in Paths
          /\ PrefixOf(p, call.to) \/ PrefixOf(call.to, p) \/ Through(p)
      BY <1>2, <2>1 DEF Allowed, InTheWay
    <3>. QED BY <1>4, <1>5, <1>9, <3>1
  <2>. QED BY <2>1
<1>. QED BY <1>7, <1>8, <1>10 DEF StaysInside, Tree!StaysInside

(* A call changes its own directory and nothing else, but for what links in *)
(* it lead to in the ways StaysInside names, whatever fails and whatever    *)
(* the trees, the calls and the numbers of failures and of directories made *)
(* by others.                                                               *)
THEOREM CallsStayInside == Spec => []StaysInside
<1>1. Init => TreeInv
  BY InitTree
<1>2. TreeInv /\ [Next]_vars => TreeInv'
  BY TreeStays
<1>3. TreeInv => StaysInside
  BY StayingInside
<1>. QED BY <1>1, <1>2, <1>3, PTL DEF Spec

-----------------------------------------------------------------------------
(* What a result of true means, of making and of deleting.                  *)
Answered ==
  /\ call.op # "none" => call.path \in Paths
  /\ call.result => stack = << >> /\ call.op # "none" /\ Tree!Made /\ Tree!Gone

(* The last frame is that of the call itself.                               *)
LEMMA LastFrame ==
  ASSUME TreeInv, Answered, stack # << >>, Len(stack) = 1
  PROVE  /\ stack[1].path = call.path /\ call.path \in Paths
         /\ Tree!Kind(tree, call.path) = tree[call.path].kind
<1>1. call.op # "none"
  BY TopIs
<1>2. stack[1].path = call.path
  BY DEF TreeInv, Bottom
<1>3. call.path \in Paths /\ call.path # << >>
  BY <1>1, TreeAssumption DEF Answered
<1>. QED BY <1>2, <1>3 DEF Tree!Kind

(* A call that has not returned, or returns false, has nothing to keep.     *)
LEMMA Unanswered ==
  ASSUME TreeInv, Answered, stack # << >>,
         call' = call \/ Tree!Fail \/ (Tree!Return /\ Len(stack) # 1)
  PROVE  Answered'
<1>1. call \in CallStates /\ ~call.result
  BY DEF TreeInv, WalkTypes, CallStates, Answered
<1>2. call' \in CallStates /\ ~call'.result /\ call'.op = call.op /\ call'.path = call.path
  BY <1>1 DEF CallStates, Tree!Fail, Tree!Return
<1>. QED BY <1>2 DEF Answered

(* The call returns true, having done what it was to do.                    *)
LEMMA Answering ==
  ASSUME TreeInv, Answered, stack # << >>, Tree!Return, Len(stack) = 1,
         call.op = "create" => tree'[call.path].kind # "none",
         call.op = "delete" => failures'.misread \/ tree'[call.path].kind # "dir"
  PROVE  Answered'
<1>1. call \in CallStates /\ call.op # "none"
  BY TopIs DEF TreeInv, WalkTypes
<1>2. call'.op = call.op /\ call'.path = call.path
  BY <1>1 DEF CallStates, Tree!Return
<1>3. stack' = << >>
  <2>1. stack \in Seq(Frames)
    BY DEF TreeInv, WalkTypes
  <2>2. Tail(stack) \in Seq(Frames) /\ Len(Tail(stack)) = 0
    BY <2>1, HeadTailProperties
  <2>. QED BY <2>2, EmptySeq DEF Tree!Return
<1>. QED BY <1>1, <1>2, <1>3 DEF Answered, Tree!Made, Tree!Gone

(* MakeDirectory.                                                           *)
LEMMA MadeAnswer ==
  ASSUME TreeInv, Answered, Tree!MakeDirectory
  PROVE  Answered'
<1>. DEFINE p == stack[1].path
<1>1. stack # << >> /\ Tree!Top.op = "create"
  BY DEF Tree!MakeDirectory
<1>2. Tree!Top = stack[1] /\ FrameFor(stack[1])
  BY <1>1, TopIs
<1>3. call.op # "delete"
  BY <1>1, <1>2 DEF FrameFor, DeletedBy
<1>4. \/ Tree!Put(p, Tree!Directory) /\ Tree!Return
      \/ Tree!Kind(tree, p) # "none" /\ tree' = tree /\ Tree!Return
      \/ call' = call \/ Tree!Fail
  <2>. HIDE DEF p
  <2>1. p = Tree!Top.path
    BY <1>2 DEF p
  <2>. QED BY <2>1 DEF Tree!MakeDirectory, Tree!MakeParent, Tree!Entering
<1>5. CASE call' = call \/ Tree!Fail \/ (Tree!Return /\ Len(stack) # 1)
  BY <1>1, <1>5, Unanswered
<1>6. CASE /\ Tree!Return /\ Len(stack) = 1
           /\ \/ Tree!Put(p, Tree!Directory)
              \/ Tree!Kind(tree, p) # "none" /\ tree' = tree
  <2>1. p = call.path /\ call.path \in Paths /\ Tree!Kind(tree, p) = tree[p].kind
    BY <1>1, <1>6, LastFrame
  <2>2. tree'[call.path].kind # "none"
    <3>1. CASE Tree!Put(p, Tree!Directory)
      <4>1. tree' = [tree EXCEPT ![p] = Tree!Directory] /\ tree \in [Paths -> Nodes]
        BY <3>1 DEF Tree!Put, TreeInv, WalkTypes
      <4>2. tree'[call.path] = Tree!Directory
        BY <2>1, <4>1
      <4>. QED BY <4>2, Kinds
    <3>2. CASE Tree!Kind(tree, p) # "none" /\ tree' = tree
      BY <2>1, <3>2
    <3>. QED BY <1>6, <3>1, <3>2
  <2>. QED BY <1>1, <1>3, <1>6, <2>2, Answering
<1>. QED BY <1>4, <1>5, <1>6

(* ListToDelete: what cannot be listed is not a directory, or misread.      *)
LEMMA ListedAnswer ==
  ASSUME TreeInv, Answered, Tree!ListToDelete
  PROVE  Answered'
<1>. DEFINE at == Tree!Resolved(tree, stack[1].path)
<1>1. /\ stack # << >> /\ Tree!Top.op = "delete" /\ tree' = tree /\ Tree!List
  BY DEF Tree!ListToDelete, Tree!In
<1>2. Tree!Top = stack[1]
  BY <1>1, TopIs
<1>3. call.op = "delete"
  BY <1>1, DeleteFrame
<1>4. \/ call' = call
      \/ Tree!Return /\ (Tree!Kind(tree, at) # "dir" \/ failures'.misread)
  <2>. HIDE DEF at
  <2>1. at = Tree!Resolved(tree, Tree!Top.path)
    BY <1>2 DEF at
  <2>2. Tree!Failure(TRUE) => failures'.misread
    <3>1. ASSUME Tree!Failure(TRUE) PROVE failures'.misread
      <4>1. failures'.misread = (failures.misread \/ TRUE)
        BY <3>1 DEF Tree!Failure
      <4>. QED BY <4>1
    <3>. QED BY <3>1
  <2>3. Tree!NotListed => call' = call \/ Tree!Return
    BY DEF Tree!NotListed, Tree!Going
  <2>4. \/ call' = call
        \/ (Tree!Kind(tree, at) # "dir" \/ Tree!Failure(TRUE)) /\ Tree!NotListed
    BY <1>1, <2>1 DEF Tree!List, Tree!Going
  <2>. QED BY <2>2, <2>3, <2>4
<1>5. CASE call' = call \/ (Tree!Return /\ Len(stack) # 1)
  BY <1>1, <1>5, Unanswered
<1>6. CASE /\ Tree!Return /\ Len(stack) = 1
           /\ Tree!Kind(tree, at) # "dir" \/ failures'.misread
  <2>1. /\ stack[1].path = call.path
        /\ Tree!Kind(tree, call.path) = tree[call.path].kind
    BY <1>1, <1>6, LastFrame
  <2>2. Tree!Kind(tree, call.path) = "dir" => at = call.path
    BY <2>1 DEF Tree!Resolved
  <2>3. failures'.misread \/ tree'[call.path].kind # "dir"
    BY <1>1, <1>6, <2>1, <2>2
  <2>. QED BY <1>1, <1>3, <1>6, <2>3, Answering
<1>. QED BY <1>4, <1>5, <1>6

(* RemoveDirectory.                                                         *)
LEMMA RemovedAnswer ==
  ASSUME TreeInv, Answered, Tree!RemoveDirectory
  PROVE  Answered'
<1>1. /\ stack # << >> /\ Tree!Top.op = "delete"
  BY DEF Tree!RemoveDirectory, Tree!In
<1>2. Tree!Top = stack[1]
  BY <1>1, TopIs
<1>3. call.op = "delete"
  BY <1>1, DeleteFrame
<1>4. (Tree!Put(stack[1].path, Tree!Nothing) /\ Tree!Return) \/ Tree!Fail
  BY <1>2 DEF Tree!RemoveDirectory
<1>5. CASE Tree!Fail \/ (Tree!Return /\ Len(stack) # 1)
  BY <1>1, <1>5, Unanswered
<1>6. CASE Tree!Put(stack[1].path, Tree!Nothing) /\ Tree!Return /\ Len(stack) = 1
  <2>1. stack[1].path = call.path /\ call.path \in Paths
    BY <1>1, <1>6, LastFrame
  <2>2. tree' = [tree EXCEPT ![call.path] = Tree!Nothing] /\ tree \in [Paths -> Nodes]
    BY <1>6, <2>1 DEF Tree!Put, TreeInv, WalkTypes
  <2>3. tree'[call.path] = Tree!Nothing
    BY <2>1, <2>2
  <2>4. tree'[call.path].kind # "dir"
    BY <2>3, Kinds
  <2>. QED BY <1>1, <1>3, <1>6, <2>4, Answering
<1>. QED BY <1>4, <1>5, <1>6

(* Whatever happens, Answered stays.                                        *)
LEMMA AnsweredStays ==
  ASSUME TreeInv, Answered, [Next]_vars
  PROVE  Answered'
<1>1. CASE \E c \in Calls : Tree!Begin(c)
  <2>1. PICK c \in Calls : Tree!Begin(c)
    BY <1>1
  <2>2. PICK path \in Paths, to \in Seq(Names) :
          call' = [op |-> c.op, path |-> path, to |-> to, result |-> FALSE]
    BY <2>1, BeginIs
  <2>. QED BY <2>2 DEF Answered
<1>2. CASE Tree!MakeDirectory
  BY <1>2, MadeAnswer
<1>3. CASE Tree!ListToDelete
  BY <1>3, ListedAnswer
<1>4. CASE Tree!RemoveDirectory
  BY <1>4, RemovedAnswer
<1>5. CASE \/ Tree!DeleteEntry \/ Tree!AllDeleted \/ Tree!CopyEntry
           \/ Tree!OtherMakesDirectory
  <2>1. stack # << >> /\ (call' = call \/ Tree!Fail)
    <3>1. Tree!DeleteEntry \/ Tree!AllDeleted \/ Tree!OtherMakesDirectory
            => stack # << >> /\ (call' = call \/ Tree!Fail)
      BY DEF Tree!DeleteEntry, Tree!AllDeleted, Tree!OtherMakesDirectory, Tree!In,
             Tree!Going, Tree!Entering
    <3>2. Tree!CopyEntry => stack # << >> /\ (call' = call \/ Tree!Fail)
      <4>1. \A to, data, done : Tree!CopyFile(to, data, done) => call' = call \/ Tree!Fail
        BY DEF Tree!CopyFile, Tree!Going
      <4>2. \A to, data, done : Tree!CopyLink(to, data, done) => call' = call \/ Tree!Fail
        BY DEF Tree!CopyLink, Tree!Going
      <4>3. \A f, op, path, to : Tree!Entering(f, op, path, to) => call' = call
        BY DEF Tree!Entering
      <4>4. Tree!CopyEntry => stack # << >>
        BY DEF Tree!CopyEntry, Tree!In
      <4>. QED BY <4>1, <4>2, <4>3, <4>4 DEF Tree!CopyEntry
    <3>. QED BY <1>5, <3>1, <3>2
  <2>. QED BY <2>1, Unanswered
<1>6. CASE Tree!ListToCopy \/ Tree!AllCopied
  <2>1. /\ stack # << >> /\ Tree!Top.op = "copy"
        /\ call' = call \/ Tree!Return
    BY <1>6 DEF Tree!ListToCopy, Tree!AllCopied, Tree!In, Tree!List, Tree!Going
  <2>2. call.op = "copy"
    BY <2>1, CopyFrame
  <2>3. CASE call' = call \/ (Tree!Return /\ Len(stack) # 1)
    BY <2>1, <2>3, Unanswered
  <2>4. CASE Tree!Return /\ Len(stack) = 1
    BY <2>1, <2>2, <2>4, Answering
  <2>. QED BY <2>1, <2>3, <2>4
<1>7. CASE UNCHANGED treeVars
  BY <1>7 DEF treeVars, Answered, Tree!Made, Tree!Gone
<1>. QED BY <1>1, <1>2, <1>3, <1>4, <1>5, <1>6, <1>7 DEF Next, Walk, Work, vars, Tree!Next

-----------------------------------------------------------------------------
(* Where things are copied to.                                              *)

(* What is called p, seen from c, seen from d.                              *)
Moved(c, d, p) == d \o SubSeq(p, Len(c) + 1, Len(p))

(* Its names, one by one.                                                   *)
LEMMA MovedIs ==
  ASSUME NEW c \in Seq(Names), NEW d \in Seq(Names), NEW p \in Seq(Names), PrefixOf(c, p)
  PROVE  /\ Moved(c, d, p) \in Seq(Names)
         /\ Len(Moved(c, d, p)) = Len(d) + Len(p) - Len(c)
         /\ \A i \in 1 .. Len(d) : Moved(c, d, p)[i] = d[i]
         /\ \A i \in Len(d) + 1 .. Len(d) + Len(p) - Len(c) :
              Moved(c, d, p)[i] = p[i - Len(d) + Len(c)]
<1>1. PICK k \in Nat : k = Len(c)
  BY LenProperties
<1>2. PICK l \in Nat : l = Len(d)
  BY LenProperties
<1>3. PICK m \in Nat : m = Len(p)
  BY LenProperties
<1>4. k <= m
  BY <1>1, <1>3, PrefixMeans
<1>. DEFINE t == SubSeq(p, k + 1, m)
<1>5. t \in Seq(Names) /\ Len(t) = m - k /\ \A i \in 1 .. m - k : t[i] = p[k + i]
  <2>1. \A i \in k + 1 .. m : p[i] \in Names
    BY <1>3, ElementOfSeq
  <2>2. k + 1 \in Int /\ m \in Int
    OBVIOUS
  <2>3. /\ SubSeq(p, k + 1, m) \in Seq(Names)
        /\ Len(SubSeq(p, k + 1, m)) = IF k + 1 <= m THEN m - (k + 1) + 1 ELSE 0
        /\ \A i \in 1 .. m - (k + 1) + 1 : SubSeq(p, k + 1, m)[i] = p[k + 1 + i - 1]
    BY ONLY <2>1, <2>2, SubSeqProperties
  <2>. QED BY <1>4, <2>3
<1>6. Moved(c, d, p) = d \o t
  BY <1>1, <1>3 DEF Moved
<1>. HIDE DEF t
<1>. DEFINE o == d \o t
<1>7. /\ o \in Seq(Names) /\ Len(o) = l + (m - k)
      /\ \A i \in 1 .. l + (m - k) : o[i] = IF i <= l THEN d[i] ELSE t[i - l]
  <2>1. d \in Seq(Names) /\ t \in Seq(Names) /\ Len(d) = l /\ Len(t) = m - k
    BY <1>2, <1>5
  <2>2. /\ o \in Seq(Names) /\ Len(o) = Len(d) + Len(t)
        /\ \A i \in 1 .. Len(d) + Len(t) : o[i] = IF i <= Len(d) THEN d[i] ELSE t[i - Len(d)]
    BY ONLY <2>1, ConcatProperties, ZenonT(30)
  <2>. HIDE DEF o
  <2>. QED BY ONLY <2>1, <2>2, Zenon
<1>. HIDE DEF o
<1>8. \A i \in 1 .. l : o[i] = d[i]
  BY <1>4, <1>7
<1>9. ASSUME NEW i \in l + 1 .. l + m - k PROVE o[i] = p[i - l + k]
  <2>1. i \in 1 .. l + (m - k) /\ ~(i <= l) /\ i - l \in 1 .. m - k /\ k + (i - l) = i - l + k
    BY <1>4
  <2>2. o[i] = t[i - l]
    BY <1>7, <2>1
  <2>. QED BY <1>5, <2>1, <2>2
<1>10. Len(o) = l + m - k
  BY <1>7
<1>. QED BY <1>1, <1>2, <1>3, <1>6, <1>7, <1>8, <1>9, <1>10 DEF o

(* It is in the new directory.                                              *)
LEMMA MovedInto ==
  ASSUME NEW c \in Seq(Names), NEW d \in Seq(Names), NEW p \in Seq(Names), PrefixOf(c, p)
  PROVE  PrefixOf(d, Moved(c, d, p))
<1>1. Len(c) \in Nat /\ Len(d) \in Nat /\ Len(p) \in Nat /\ Len(c) <= Len(p)
  BY LenProperties, PrefixMeans
<1>. DEFINE o == Moved(c, d, p)
<1>2. /\ o \in Seq(Names) /\ Len(o) = Len(d) + Len(p) - Len(c)
      /\ \A i \in 1 .. Len(d) : o[i] = d[i]
  BY MovedIs
<1>. HIDE DEF o
<1>3. PrefixOf(d, o)
  BY <1>1, <1>2, PrefixMeans
<1>. QED BY <1>3 DEF o

(* The directory itself becomes the new one.                                *)
LEMMA MovedItself ==
  ASSUME NEW c \in Seq(Names), NEW d \in Seq(Names)
  PROVE  Moved(c, d, c) = d
<1>1. Len(c) \in Nat /\ Len(d) \in Nat
  BY LenProperties
<1>. DEFINE o == Moved(c, d, c)
<1>2. /\ o \in Seq(Names) /\ Len(o) = Len(d) + Len(c) - Len(c)
      /\ \A i \in 1 .. Len(d) : o[i] = d[i]
  BY PrefixSelf, MovedIs
<1>. HIDE DEF o
<1>3. Len(o) = Len(d) /\ \A i \in 1 .. Len(o) : o[i] = d[i]
  BY <1>1, <1>2
<1>4. o = d
  BY <1>2, <1>3, SeqEqual
<1>. QED BY <1>4 DEF o

(* An entry becomes an entry of the same name.                              *)
LEMMA MovedEntry ==
  ASSUME NEW c \in Seq(Names), NEW d \in Seq(Names), NEW p \in Seq(Names), NEW n \in Names,
         PrefixOf(c, p)
  PROVE  Moved(c, d, Append(p, n)) = Append(Moved(c, d, p), n)
<1>1. Len(c) \in Nat /\ Len(d) \in Nat /\ Len(p) \in Nat /\ Len(c) <= Len(p)
  BY LenProperties, PrefixMeans
<1>. DEFINE e == Append(p, n)
            a == Moved(c, d, e)
            o == Moved(c, d, p)
            b == Append(o, n)
<1>2. /\ e \in Seq(Names) /\ Len(e) = Len(p) + 1 /\ e[Len(p) + 1] = n
      /\ \A i \in 1 .. Len(p) : e[i] = p[i]
  BY Appended
<1>3. PrefixOf(c, e)
  BY PrefixOfEntry
<1>. HIDE DEF e
<1>4. /\ o \in Seq(Names) /\ Len(o) = Len(d) + Len(p) - Len(c)
      /\ \A i \in 1 .. Len(d) : o[i] = d[i]
      /\ \A i \in Len(d) + 1 .. Len(d) + Len(p) - Len(c) : o[i] = p[i - Len(d) + Len(c)]
  BY MovedIs
<1>. HIDE DEF o
<1>5. /\ a \in Seq(Names) /\ Len(a) = Len(d) + Len(e) - Len(c)
      /\ \A i \in 1 .. Len(d) : a[i] = d[i]
      /\ \A i \in Len(d) + 1 .. Len(d) + Len(e) - Len(c) : a[i] = e[i - Len(d) + Len(c)]
  <2>1. e \in Seq(Names)
    BY <1>2
  <2>. QED BY ONLY <2>1, <1>3, c \in Seq(Names), d \in Seq(Names), MovedIs, ZenonT(20)
<1>. HIDE DEF a
<1>6. /\ b \in Seq(Names) /\ Len(b) = Len(o) + 1 /\ b[Len(o) + 1] = n
      /\ \A i \in 1 .. Len(o) : b[i] = o[i]
  BY <1>4, Appended
<1>. HIDE DEF b
<1>7. Len(a) = Len(b)
  BY <1>1, <1>2, <1>4, <1>5, <1>6
<1>8. ASSUME NEW i \in 1 .. Len(a) PROVE a[i] = b[i]
  <2>1. i \in Int /\ Len(a) = Len(d) + Len(p) - Len(c) + 1
    BY <1>1, <1>2, <1>5
  <2>2. CASE i <= Len(d)
    BY <1>1, <1>4, <1>5, <1>6, <2>1, <2>2
  <2>3. CASE i > Len(d) /\ i <= Len(d) + Len(p) - Len(c)
    <3>1. /\ i \in Len(d) + 1 .. Len(d) + Len(p) - Len(c)
          /\ i \in Len(d) + 1 .. Len(d) + Len(e) - Len(c)
          /\ i - Len(d) + Len(c) \in 1 .. Len(p) /\ i \in 1 .. Len(o)
      BY <1>1, <1>2, <1>4, <2>1, <2>3
    <3>. QED BY <1>2, <1>4, <1>5, <1>6, <3>1
  <2>4. CASE i > Len(d) + Len(p) - Len(c)
    <3>1. /\ i = Len(o) + 1 /\ i \in Len(d) + 1 .. Len(d) + Len(e) - Len(c)
          /\ i - Len(d) + Len(c) = Len(p) + 1
      <4>1. PICK k \in Nat : k = Len(c)
        BY <1>1
      <4>2. PICK l \in Nat : l = Len(d)
        BY <1>1
      <4>3. PICK m \in Nat : m = Len(p)
        BY <1>1
      <4>4. k <= m /\ Len(e) = m + 1 /\ Len(o) = l + m - k
        BY <1>1, <1>2, <1>4, <4>1, <4>2, <4>3
      <4>5. i \in Int /\ i <= l + m - k + 1 /\ i > l + m - k
        BY <1>1, <2>1, <2>4, <4>1, <4>2, <4>3
      <4>6. i = l + m - k + 1 /\ i \in l + 1 .. l + (m + 1) - k /\ i - l + k = m + 1
        BY ONLY <4>4, <4>5, k \in Nat, l \in Nat, m \in Nat
      <4>. QED BY <4>1, <4>2, <4>3, <4>4, <4>6
    <3>. QED BY <1>2, <1>5, <1>6, <3>1
  <2>. QED BY <1>1, <2>1, <2>2, <2>3, <2>4
<1>9. a = b
  BY <1>5, <1>6, <1>7, <1>8, SeqEqual
<1>. QED BY <1>9 DEF a, b, e, o

(* Nothing else becomes the same.                                           *)
LEMMA MovedApart ==
  ASSUME NEW c \in Seq(Names), NEW d \in Seq(Names), NEW p \in Seq(Names),
         NEW r \in Seq(Names), PrefixOf(c, p), PrefixOf(c, r),
         Moved(c, d, p) = Moved(c, d, r)
  PROVE  p = r
<1>1. /\ Len(c) \in Nat /\ Len(d) \in Nat /\ Len(p) \in Nat /\ Len(r) \in Nat
      /\ Len(c) <= Len(p) /\ Len(c) <= Len(r)
  BY LenProperties, PrefixMeans
<1>2. (\A i \in 1 .. Len(c) : c[i] = p[i]) /\ \A i \in 1 .. Len(c) : c[i] = r[i]
  BY PrefixMeans
<1>. DEFINE a == Moved(c, d, p)
            b == Moved(c, d, r)
<1>3. /\ Len(a) = Len(d) + Len(p) - Len(c)
      /\ \A i \in Len(d) + 1 .. Len(d) + Len(p) - Len(c) : a[i] = p[i - Len(d) + Len(c)]
  BY MovedIs
<1>4. /\ Len(b) = Len(d) + Len(r) - Len(c)
      /\ \A i \in Len(d) + 1 .. Len(d) + Len(r) - Len(c) : b[i] = r[i - Len(d) + Len(c)]
  BY MovedIs
<1>5. a = b
  OBVIOUS
<1>. HIDE DEF a, b
<1>6. Len(p) = Len(r)
  BY <1>1, <1>3, <1>4, <1>5
<1>7. ASSUME NEW i \in 1 .. Len(p) PROVE p[i] = r[i]
  <2>1. CASE i <= Len(c)
    BY <1>1, <1>2, <2>1
  <2>2. CASE ~(i <= Len(c))
    <3>1. PICK k \in Nat : k = Len(c)
      BY <1>1
    <3>2. PICK l \in Nat : l = Len(d)
      BY <1>1
    <3>3. PICK m \in Nat : m = Len(p)
      BY <1>1
    <3>. DEFINE j == i - k + l
    <3>4. i \in 1 .. m /\ ~(i <= k)
      BY <2>2, <3>1, <3>3
    <3>5. j \in l + 1 .. l + m - k /\ j - l + k = i
      BY ONLY <3>4, k \in Nat, l \in Nat, m \in Nat
    <3>. HIDE DEF j
    <3>6. a[j] = p[j - l + k] /\ b[j] = r[j - l + k]
      BY <1>3, <1>4, <1>6, <3>1, <3>2, <3>3, <3>5
    <3>. QED BY <1>5, <3>5, <3>6
  <2>. QED BY <2>1, <2>2
<1>. QED BY <1>6, <1>7, SeqEqual

(* Of two directories something is in, one is in the other.                 *)
LEMMA OneInTheOther ==
  ASSUME NEW c \in Seq(Names), NEW d \in Seq(Names), NEW p \in Seq(Names),
         PrefixOf(c, p), PrefixOf(d, p)
  PROVE  PrefixOf(c, d) \/ PrefixOf(d, c)
<1>1. Len(c) \in Nat /\ Len(d) \in Nat
  BY LenProperties
<1>2. (\A i \in 1 .. Len(c) : c[i] = p[i]) /\ \A i \in 1 .. Len(d) : d[i] = p[i]
  BY PrefixMeans
<1>3. CASE Len(c) <= Len(d)
  <2>1. \A i \in 1 .. Len(c) : c[i] = d[i]
    BY <1>1, <1>2, <1>3
  <2>. QED BY <1>3, <2>1, PrefixMeans
<1>4. CASE ~(Len(c) <= Len(d))
  <2>1. Len(d) <= Len(c) /\ \A i \in 1 .. Len(d) : d[i] = c[i]
    BY <1>1, <1>2, <1>4
  <2>. QED BY <2>1, PrefixMeans
<1>. QED BY <1>3, <1>4

(* What is in a directory is one of its entries, or in one.                 *)
LEMMA EntryOnTheWay ==
  ASSUME NEW c \in Seq(Names), NEW p \in Seq(Names), PrefixOf(c, p), p # c
  PROVE  \E r \in Seq(Names) :
           /\ Len(c) + 1 \in 1 .. Len(p) /\ r = SubSeq(p, 1, Len(c) + 1)
           /\ r # << >> /\ Tree!Parent(r) = c /\ Tree!Name(r) \in Names
           /\ r = Append(c, Tree!Name(r)) /\ PrefixOf(r, p)
           /\ Len(c) + 1 = Len(p) => r = p
<1>1. PICK k \in Nat : k = Len(c)
  BY LenProperties
<1>2. PICK m \in Nat : m = Len(p)
  BY LenProperties
<1>3. k <= m /\ \A i \in 1 .. k : c[i] = p[i]
  BY <1>1, <1>2, PrefixMeans
<1>4. k # m
  <2>1. SUFFICES ASSUME k = m PROVE FALSE
    OBVIOUS
  <2>2. Len(c) = Len(p) /\ \A i \in 1 .. Len(c) : c[i] = p[i]
    BY <1>1, <1>2, <1>3, <2>1
  <2>. QED BY <2>2, SeqEqual
<1>5. k + 1 <= m
  BY <1>3, <1>4
<1>. DEFINE r == SubSeq(p, 1, k + 1)
<1>6. r \in Seq(Names) /\ Len(r) = k + 1 /\ \A i \in 1 .. k + 1 : r[i] = p[i]
  <2>1. \A i \in 1 .. k + 1 : p[i] \in Names
    BY <1>2, <1>5, ElementOfSeq
  <2>2. 1 \in Int /\ k + 1 \in Int
    OBVIOUS
  <2>3. /\ SubSeq(p, 1, k + 1) \in Seq(Names)
        /\ Len(SubSeq(p, 1, k + 1)) = IF 1 <= k + 1 THEN k + 1 - 1 + 1 ELSE 0
        /\ \A i \in 1 .. k + 1 - 1 + 1 : SubSeq(p, 1, k + 1)[i] = p[1 + i - 1]
    BY ONLY <2>1, <2>2, SubSeqProperties
  <2>. QED BY <2>3
<1>7. r = SubSeq(p, 1, Len(c) + 1)
  BY <1>1
<1>. HIDE DEF r
<1>8. r # << >>
  BY <1>6, EmptySeq
<1>9. Tree!Name(r) = r[k + 1] /\ r[k + 1] \in Names
  BY <1>6, ElementOfSeq DEF Tree!Name
<1>. DEFINE n == Tree!Name(r)
            a == Append(c, n)
<1>10. n = r[k + 1] /\ n \in Names
  BY <1>9
<1>. HIDE DEF n
<1>11. /\ a \in Seq(Names) /\ Len(a) = k + 1 /\ a[k + 1] = n
       /\ \A i \in 1 .. k : a[i] = c[i]
  BY <1>1, <1>10, Appended
<1>. HIDE DEF a
<1>12. r = a
  <2>1. ASSUME NEW i \in 1 .. k + 1 PROVE r[i] = a[i]
    <3>1. CASE i \in 1 .. k
      BY <1>3, <1>6, <1>11, <3>1
    <3>2. CASE i = k + 1
      BY <1>10, <1>11, <3>2
    <3>. QED BY <3>1, <3>2
  <2>. QED BY <1>6, <1>11, <2>1, SeqEqual
<1>13. Tree!Parent(r) = c
  <2>1. Tree!Parent(r) \in Seq(Names) /\ PrefixOf(Tree!Parent(r), r) /\ Len(Tree!Parent(r)) = Len(r) - 1
    BY <1>6, <1>8, ParentIs
  <2>. DEFINE u == Tree!Parent(r)
  <2>2. u \in Seq(Names) /\ Len(u) = k /\ PrefixOf(u, r)
    BY <1>6, <2>1
  <2>. HIDE DEF u
  <2>3. \A i \in 1 .. k : u[i] = r[i]
    BY <1>6, <2>2, PrefixMeans
  <2>4. \A i \in 1 .. k : u[i] = c[i]
    BY <1>3, <1>6, <2>3
  <2>5. u = c
    BY <1>1, <2>2, <2>4, SeqEqual
  <2>. QED BY <2>5 DEF u
<1>14. PrefixOf(r, p)
  BY <1>2, <1>5, <1>6, PrefixMeans
<1>15. k + 1 = m => r = p
  BY <1>2, <1>6, SeqEqual
<1>16. Len(c) + 1 \in 1 .. Len(p)
  BY <1>1, <1>2, <1>5
<1>17. r = Append(c, Tree!Name(r))
  BY <1>12 DEF a, n
<1>. QED BY <1>1, <1>2, <1>6, <1>7, <1>8, <1>9, <1>13, <1>14, <1>15, <1>16, <1>17

-----------------------------------------------------------------------------
(* Copying directories without links.                                       *)

(* Neither directory is in the other, no links are in them, and there is a  *)
(* path for everything.                                                     *)
Plain ==
  /\ ~PrefixOf(call.to, call.path) /\ ~PrefixOf(call.path, call.to)
  /\ Tree!Links(before, Tree!Below(call.path) \cup Tree!Below(call.to)) = {}
  /\ \A p \in Tree!Below(call.path) : before[p].kind # "none" => Tree!CopyOf(p) \in Paths

PlainCopy == call.op = "copy" /\ before[call.path].kind = "dir" /\ Plain

(* What is to be found in the new directory.                                *)
Wanted(p) ==
  /\ PrefixOf(call.path, p) /\ p # call.path
  /\ before[p].kind # "none" /\ Tree!Comparable(p, Tree!CopyOf(p))

(* What is copied stays as it was, but for new directories.                 *)
SourceKept ==
  \A p \in Paths : PrefixOf(call.path, p) =>
    tree[p] = before[p] \/ (before[p].kind = "none" /\ tree[p] = Tree!Directory)

(* In its new place there is what there was, or a new directory, or a copy. *)
PlaceKept(p, q) ==
  \/ tree[q] = before[q] \/ tree[q] = before[p]
  \/ before[q].kind = "none" /\ tree[q] = Tree!Directory

PlacesKept == \A p \in Paths : Wanted(p) => PlaceKept(p, Tree!CopyOf(p))

(* A frame copies from where its new directory says.                        *)
Matched(f) ==
  f.op = "copy" =>
    /\ PrefixOf(call.path, f.path) /\ f.to = Tree!CopyOf(f.path) /\ f.at = f.path
    /\ Tree!Kind(tree, f.path) = "dir"

(* A frame has still to copy p.                                             *)
Owes(f, p) ==
  \/ f.op = "create" /\ f.path = Tree!CopyOf(p) /\ before[p].kind = "dir"
  \/ /\ f.op = "copy"
     /\ \/ f.phase = "begin" /\ PrefixOf(f.path, p) /\ p # f.path
        \/ f.phase = "entries" /\ \E n \in f.todo : PrefixOf(Append(f.path, n), p)

Owed ==
  \A p \in Paths : Wanted(p) =>
    \/ tree[Tree!CopyOf(p)] = before[p]
    \/ \E i \in 1 .. Len(stack) : Owes(stack[i], p)

AllMatched == \A i \in 1 .. Len(stack) : Matched(stack[i])

Progress == SourceKept /\ PlacesKept /\ Owed /\ AllMatched

(* The copying goes on, or has ended well.                                  *)
OnTrack == PlainCopy /\ ~failures.misread /\ (stack # << >> \/ call.result)

CopyInv == TreeInv /\ Answered /\ (OnTrack => Progress)

(* What a call is about stays.                                              *)
LEMMA SamePlain ==
  ASSUME SameCall
  PROVE  /\ PlainCopy' <=> PlainCopy
         /\ \A p : Tree!CopyOf(p)' = Tree!CopyOf(p)
         /\ \A p : Wanted(p)' <=> Wanted(p)
         /\ \A f, p : Owes(f, p)' <=> Owes(f, p)
<1>1. /\ call'.op = call.op /\ call'.path = call.path /\ call'.to = call.to
      /\ os' = os /\ before' = before
  BY DEF SameCall
<1>2. \A p : Tree!CopyOf(p)' = Tree!CopyOf(p)
  BY <1>1 DEF Tree!CopyOf
<1>3. \A p, q : Tree!Comparable(p, q)' <=> Tree!Comparable(p, q)
  BY <1>1 DEF Tree!Comparable, Tree!Alone, Tree!Resolved, Tree!Kind
<1>4. \A p : Wanted(p)' <=> Wanted(p)
  BY <1>1, <1>2, <1>3 DEF Wanted
<1>5. \A S : Tree!Links(before, S)' = Tree!Links(before, S)
  BY <1>1 DEF Tree!Links
<1>6. PlainCopy' <=> PlainCopy
  <2>1. Tree!Links(before, Tree!Below(call.path) \cup Tree!Below(call.to))'
          = Tree!Links(before, Tree!Below(call.path) \cup Tree!Below(call.to))
    BY <1>1 DEF Tree!Links, Tree!Below
  <2>2. Tree!Below(call.path)' = Tree!Below(call.path)
    BY <1>1
  <2>3. (\A p \in Tree!Below(call.path) : before[p].kind # "none" => Tree!CopyOf(p) \in Paths)'
          <=> \A p \in Tree!Below(call.path) : before[p].kind # "none" => Tree!CopyOf(p) \in Paths
    BY <1>1, <1>2, <2>2
  <2>4. /\ PrefixOf(call.to, call.path)' <=> PrefixOf(call.to, call.path)
        /\ PrefixOf(call.path, call.to)' <=> PrefixOf(call.path, call.to)
    BY <1>1
  <2>. QED BY <1>1, <2>1, <2>3, <2>4 DEF PlainCopy, Plain
<1>7. \A f, p : Owes(f, p)' <=> Owes(f, p)
  BY <1>1, <1>2 DEF Owes
<1>. QED BY <1>2, <1>4, <1>6, <1>7

(* What plain copies are.                                                   *)
LEMMA PlainIs ==
  ASSUME TreeInv, Answered, PlainCopy
  PROVE  /\ call.path \in Seq(Names) /\ call.to \in Seq(Names) /\ call.path \in Paths
         /\ \A p \in Paths : PrefixOf(call.path, p) =>
              /\ before[p].kind # "link" /\ ~PrefixOf(call.to, p)
              /\ before[p].kind # "none" => Tree!CopyOf(p) \in Paths
              /\ Tree!CopyOf(p) = Moved(call.path, call.to, p)
              /\ PrefixOf(call.to, Tree!CopyOf(p)) /\ ~PrefixOf(call.path, Tree!CopyOf(p))
         /\ \A p \in Paths : PrefixOf(call.to, p) => before[p].kind # "link"
         /\ ~Tree!Shared
<1>1. /\ call.path \in Seq(Names) /\ call.to \in Seq(Names) /\ call.path \in Paths
  BY DEF TreeInv, WalkTypes, CallStates, Answered, PlainCopy, Plain
<1>2. ASSUME NEW p \in Paths, PrefixOf(call.path, p)
      PROVE  /\ before[p].kind # "link" /\ ~PrefixOf(call.to, p)
             /\ before[p].kind # "none" => Tree!CopyOf(p) \in Paths
             /\ Tree!CopyOf(p) = Moved(call.path, call.to, p)
             /\ PrefixOf(call.to, Tree!CopyOf(p)) /\ ~PrefixOf(call.path, Tree!CopyOf(p))
  <2>1. p \in Seq(Names)
    BY TreeAssumption DEF Names
  <2>2. p \in Tree!Below(call.path)
    BY <1>2 DEF Tree!Below, PrefixOf
  <2>3. before[p].kind # "link"
    BY <2>2 DEF PlainCopy, Plain, Tree!Links
  <2>4. ~PrefixOf(call.to, call.path) /\ ~PrefixOf(call.path, call.to)
    BY DEF PlainCopy, Plain
  <2>5. ~PrefixOf(call.to, p)
    BY <1>1, <1>2, <2>1, <2>4, OneInTheOther
  <2>6. Tree!CopyOf(p) = Moved(call.path, call.to, p)
    BY DEF Tree!CopyOf, Moved
  <2>. DEFINE r == Moved(call.path, call.to, p)
  <2>7. r \in Seq(Names) /\ PrefixOf(call.to, r)
    BY <1>1, <1>2, <2>1, MovedIs, MovedInto
  <2>. HIDE DEF r
  <2>8. ~PrefixOf(call.path, r)
    BY <1>1, <2>4, <2>7, OneInTheOther
  <2>9. before[p].kind # "none" => Tree!CopyOf(p) \in Paths
    BY <2>2 DEF PlainCopy, Plain
  <2>. QED BY <2>3, <2>5, <2>6, <2>7, <2>8, <2>9 DEF r
<1>3. \A p \in Paths : PrefixOf(call.to, p) => before[p].kind # "link"
  BY DEF PlainCopy, Plain, Tree!Links, Tree!Below, PrefixOf
<1>4. ~Tree!Shared
  <2>1. Tree!Links(before, Tree!Below(call.to)) = {}
    BY DEF PlainCopy, Plain, Tree!Links
  <2>. QED BY <2>1 DEF Tree!Shared
<1>. QED BY <1>1, <1>2, <1>3, <1>4

(* No two entries have the same place.                                      *)
LEMMA PlacesApart ==
  ASSUME TreeInv, Answered, PlainCopy, NEW p \in Seq(Names), NEW r \in Seq(Names),
         PrefixOf(call.path, p), PrefixOf(call.path, r), Tree!CopyOf(p) = Tree!CopyOf(r)
  PROVE  p = r
<1>1. call.path \in Seq(Names) /\ call.to \in Seq(Names)
  BY PlainIs
<1>2. Moved(call.path, call.to, p) = Moved(call.path, call.to, r)
  BY DEF Tree!CopyOf, Moved
<1>. QED BY <1>1, <1>2, MovedApart

(* What a change of the tree must leave as it is.                           *)
Undisturbed ==
  /\ SourceKept' /\ PlacesKept'
  /\ \A p \in Paths : Wanted(p) /\ tree[Tree!CopyOf(p)] = before[p] =>
                        tree'[Tree!CopyOf(p)] = before[p]
  /\ \A f \in Frames : Matched(f) => Matched(f)'

(* A new directory where there was nothing.                                 *)
Grows ==
  \A p \in Paths : tree'[p] = tree[p] \/ (tree[p].kind = "none" /\ tree'[p] = Tree!Directory)

(* Neither disturbs what has been copied nor what will be.                  *)
LEMMA Growing ==
  ASSUME TreeInv, Answered, Origin, PlainCopy, SourceKept, PlacesKept, SameCall, Grows
  PROVE  Undisturbed
<1>1. /\ call'.op = call.op /\ call'.path = call.path /\ call'.to = call.to
      /\ os' = os /\ before' = before
  BY DEF SameCall
<1>2. /\ \A p : Tree!CopyOf(p)' = Tree!CopyOf(p)
      /\ \A p : Wanted(p)' <=> Wanted(p)
  BY SamePlain
<1>3. Tree!Directory.kind = "dir"
  BY Kinds
<1>4. SourceKept'
  <2>1. ASSUME NEW p \in Paths, PrefixOf(call.path, p)
        PROVE  tree'[p] = before[p] \/ (before[p].kind = "none" /\ tree'[p] = Tree!Directory)
    <3>1. tree[p] = before[p] \/ (before[p].kind = "none" /\ tree[p] = Tree!Directory)
      BY <2>1 DEF SourceKept
    <3>. QED BY <1>3, <3>1 DEF Grows
  <2>. QED BY <1>1, <2>1 DEF SourceKept
<1>5. ASSUME NEW p \in Paths, Wanted(p)
      PROVE  /\ Tree!CopyOf(p) \in Paths /\ before[p].kind # "none"
             /\ PlaceKept(p, Tree!CopyOf(p))
  <2>1. PrefixOf(call.path, p) /\ before[p].kind # "none"
    BY <1>5 DEF Wanted
  <2>. QED BY <1>5, <2>1, PlainIs DEF PlacesKept
<1>6. \A p \in Paths : Wanted(p) /\ tree[Tree!CopyOf(p)] = before[p] =>
                         tree'[Tree!CopyOf(p)] = before[p]
  BY <1>5 DEF Grows
<1>7. PlacesKept'
  <2>1. ASSUME NEW p \in Paths, Wanted(p) PROVE PlaceKept(p, Tree!CopyOf(p))'
    <3>. DEFINE q == Tree!CopyOf(p)
    <3>1. q \in Paths /\ before[p].kind # "none" /\ PlaceKept(p, q) /\ q' = q
      BY <1>2, <1>5, <2>1
    <3>. HIDE DEF q
    <3>2. PlaceKept(p, q)'
      BY <1>1, <1>3, <3>1 DEF PlaceKept, Grows
    <3>. QED BY <3>2 DEF q
  <2>. QED BY <1>2, <2>1 DEF PlacesKept
<1>8. ASSUME NEW f \in Frames, Matched(f) PROVE Matched(f)'
  <2>1. \A p : Tree!Kind(tree, p) = "dir" => Tree!Kind(tree', p) = "dir"
    BY DEF Grows, Tree!Kind
  <2>. QED BY <1>1, <1>2, <1>8, <2>1 DEF Matched
<1>. QED BY <1>4, <1>6, <1>7, <1>8 DEF Undisturbed

(* The frames u owe what the first frame owed, or it is done.               *)
LEMMA Progressing ==
  ASSUME TreeInv, PlainCopy, Progress, SameCall, stack # << >>,
         NEW u \in Seq(Frames), stack' = Over(u, stack), Undisturbed,
         \A k \in 1 .. Len(u) : Matched(u[k]),
         \A p \in Paths : Wanted(p) /\ Owes(stack[1], p) =>
           tree'[Tree!CopyOf(p)] = before[p] \/ \E k \in 1 .. Len(u) : Owes(u[k], p)
  PROVE  Progress'
<1>1. before' = before
  BY DEF SameCall
<1>2. /\ \A p : Tree!CopyOf(p)' = Tree!CopyOf(p)
      /\ \A p : Wanted(p)' <=> Wanted(p)
      /\ \A f, p : Owes(f, p)' <=> Owes(f, p)
  BY SamePlain
<1>3. stack \in Seq(Frames)
  BY DEF TreeInv, WalkTypes
<1>4. PICK n \in Nat : n = Len(stack)
  BY <1>3, LenProperties
<1>5. PICK m \in Nat : m = Len(u)
  BY LenProperties
<1>6. n # 0
  BY <1>3, <1>4, EmptySeq
<1>7. /\ Len(stack') = m + n - 1
      /\ \A i \in 1 .. m : stack'[i] = u[i]
      /\ \A i \in m + 1 .. m + n - 1 : stack'[i] = stack[i - m + 1]
  <2>1. /\ Over(u, stack) \in Seq(Frames)
        /\ Len(Over(u, stack)) = Len(u) + Len(stack) - 1
        /\ \A i \in 1 .. Len(u) : Over(u, stack)[i] = u[i]
        /\ \A i \in Len(u) + 1 .. Len(u) + Len(stack) - 1 :
             Over(u, stack)[i] = stack[i - Len(u) + 1]
    BY <1>3, OverIs
  <2>. QED BY <1>4, <1>5, <2>1
<1>8. \A i \in 1 .. n : stack[i] \in Frames
  BY <1>3, <1>4, ElementOfSeq
<1>9. \A i \in 1 .. m : u[i] \in Frames
  BY <1>5, ElementOfSeq
<1>10. AllMatched'
  <2>1. ASSUME NEW i \in 1 .. Len(stack') PROVE Matched(stack[i])'
    <3>1. CASE i \in 1 .. m
      <4>1. stack'[i] = u[i] /\ u[i] \in Frames /\ Matched(u[i])
        BY <1>5, <1>7, <1>9, <3>1
      <4>2. Matched(u[i])'
        BY <4>1 DEF Undisturbed
      <4>. QED BY <4>1, <4>2
    <3>2. CASE i \notin 1 .. m
      <4>1. i \in m + 1 .. m + n - 1 /\ i - m + 1 \in 1 .. n
        BY <1>7, <3>2
      <4>2. /\ stack'[i] = stack[i - m + 1] /\ stack[i - m + 1] \in Frames
            /\ Matched(stack[i - m + 1])
        BY <1>4, <1>7, <1>8, <4>1 DEF Progress, AllMatched
      <4>3. \A f \in Frames : Matched(f) => Matched(f)'
        BY DEF Undisturbed
      <4>. QED BY <4>2, <4>3
    <3>. QED BY <3>1, <3>2
  <2>. QED BY <2>1 DEF AllMatched
<1>11. Owed'
  <2>1. ASSUME NEW p \in Paths, Wanted(p)
        PROVE  \/ tree'[Tree!CopyOf(p)] = before[p]
               \/ \E i \in 1 .. Len(stack') : Owes(stack'[i], p)
    <3>1. CASE tree[Tree!CopyOf(p)] = before[p]
      BY <2>1, <3>1 DEF Undisturbed
    <3>2. CASE \E i \in 1 .. n : Owes(stack[i], p)
      <4>1. PICK i \in 1 .. n : Owes(stack[i], p)
        BY <3>2
      <4>2. CASE i = 1
        <5>1. \/ tree'[Tree!CopyOf(p)] = before[p]
              \/ \E k \in 1 .. m : Owes(u[k], p)
          BY <1>5, <2>1, <4>1, <4>2
        <5>2. \A k \in 1 .. m : k \in 1 .. m + n - 1 /\ stack'[k] = u[k]
          BY <1>6, <1>7
        <5>. QED BY <1>7, <5>1, <5>2
      <4>3. CASE i # 1
        <5>1. /\ i + m - 1 \in m + 1 .. m + n - 1 /\ i + m - 1 \in 1 .. m + n - 1
              /\ i + m - 1 - m + 1 = i
          BY <4>3
        <5>2. stack'[i + m - 1] = stack[i]
          BY <1>7, <5>1
        <5>. QED BY <1>7, <4>1, <5>1, <5>2
      <4>. QED BY <4>2, <4>3
    <3>. QED BY <1>4, <2>1, <3>1, <3>2 DEF Progress, Owed
  <2>. QED BY <1>1, <1>2, <2>1 DEF Owed
<1>. QED BY <1>10, <1>11 DEF Progress, Undisturbed

(* A step that is still on track was on track before.                       *)
LEMMA OnTheWay ==
  ASSUME CopyInv, stack # << >>, os' = os, before' = before,
         \/ Tree!Return \/ Tree!Fail \/ call' = call,
         failures' = failures \/ Tree!Failure(FALSE) \/ Tree!Failure(TRUE),
         OnTrack'
  PROVE  /\ PlainCopy /\ Progress /\ SameCall /\ call.op = "copy"
         /\ ~Tree!Fail /\ ~Tree!Failure(TRUE)
<1>1. TreeInv /\ WalkTypes /\ (OnTrack => Progress)
  BY DEF CopyInv, TreeInv
<1>2. SameCall
  BY <1>1, CallStays
<1>3. PlainCopy
  BY <1>2, SamePlain DEF OnTrack
<1>4. ~failures'.misread
  BY DEF OnTrack
<1>5. ~Tree!Failure(TRUE)
  <2>1. ASSUME Tree!Failure(TRUE) PROVE FALSE
    <3>1. failures'.misread = (failures.misread \/ TRUE)
      BY <2>1 DEF Tree!Failure
    <3>. QED BY <1>4, <3>1
  <2>. QED BY <2>1
<1>6. ~failures.misread
  <2>1. CASE failures' = failures
    BY <1>4, <2>1
  <2>2. CASE Tree!Failure(FALSE)
    <3>1. failures'.misread = (failures.misread \/ FALSE)
      BY <2>2 DEF Tree!Failure
    <3>. QED BY <1>4, <3>1
  <2>. QED BY <1>5, <2>1, <2>2
<1>7. ~Tree!Fail
  <2>1. ASSUME Tree!Fail PROVE FALSE
    <3>1. stack' = << >> /\ ~call'.result
      <4>1. call \in CallStates
        BY <1>1 DEF WalkTypes
      <4>. QED BY <2>1, <4>1 DEF Tree!Fail, CallStates
    <3>. QED BY <3>1 DEF OnTrack
  <2>. QED BY <2>1
<1>. QED BY <1>1, <1>2, <1>3, <1>5, <1>6, <1>7 DEF OnTrack, PlainCopy, Plain

(* A frame returns with nothing left to do.                                 *)
LEMMA ReturnsOnTrack ==
  ASSUME TreeInv, PlainCopy, Progress, SameCall, stack # << >>, Undisturbed, Tree!Return,
         \A p \in Paths : Wanted(p) /\ Owes(stack[1], p) => tree'[Tree!CopyOf(p)] = before[p]
  PROVE  Progress'
<1>. DEFINE u == << >>
<1>1. stack \in Seq(Frames)
  BY DEF TreeInv, WalkTypes
<1>2. u \in Seq(Frames) /\ Over(u, stack) = Tail(stack)
  BY <1>1, OverNothing
<1>3. \A k \in 1 .. Len(u) : FALSE
  OBVIOUS
<1>. HIDE DEF u
<1>4. stack' = Over(u, stack)
  BY <1>2 DEF Tree!Return
<1>5. \A k \in 1 .. Len(u) : Matched(u[k])
  BY <1>3
<1>. QED BY <1>2, <1>4, <1>5, Progressing

(* A frame goes on.                                                         *)
LEMMA GoesOnOnTrack ==
  ASSUME TreeInv, PlainCopy, Progress, SameCall, stack # << >>, Undisturbed,
         NEW f \in Frames, Tree!Going(f), Matched(f),
         \A p \in Paths : Wanted(p) /\ Owes(stack[1], p) =>
           tree'[Tree!CopyOf(p)] = before[p] \/ Owes(f, p)
  PROVE  Progress'
<1>. DEFINE u == << f >>
<1>1. u \in Seq(Frames) /\ Len(u) = 1 /\ u[1] = f
  BY Above
<1>2. stack' = Over(u, stack)
  BY DEF Tree!Going, Over
<1>. HIDE DEF u
<1>3. \A k \in 1 .. Len(u) : Matched(u[k])
  BY <1>1
<1>4. \A p \in Paths : Wanted(p) /\ Owes(stack[1], p) =>
        tree'[Tree!CopyOf(p)] = before[p] \/ \E k \in 1 .. Len(u) : Owes(u[k], p)
  <2>1. 1 \in 1 .. Len(u)
    BY <1>1
  <2>. QED BY <1>1, <2>1
<1>. QED BY <1>1, <1>2, <1>3, <1>4, Progressing

(* Nothing but kinds tells directories, before the call, apart.             *)
LEMMA DirectoriesAlike ==
  ASSUME TreeInv, Origin, os # "none", NEW p \in Paths, before[p].kind = "dir"
  PROVE  before[p] = Tree!Directory
<1>1. before \in Trees /\ before \in [Paths -> Nodes]
  BY DEF Origin, TreeInv, WalkTypes
<1>2. before[p].data = << >>
  BY <1>1, TreeAssumption
<1>3. before[p] \in [kind : {"none", "file", "dir", "link"}, data : Seq(Names)]
  BY <1>1 DEF Nodes
<1>. QED BY <1>2, <1>3 DEF Tree!Directory

(* What is above something is a directory.                                  *)
LEMMA AboveIsDirectory ==
  ASSUME Origin, os # "none", NEW p \in Paths, before[p].kind # "none",
         NEW c \in Seq(Names), c # << >>, c # p, PrefixOf(c, p)
  PROVE  c \in Paths /\ before[c].kind = "dir"
<1>1. p \in Seq(Names)
  BY TreeAssumption DEF Names
<1>2. PICK k \in Nat : k = Len(c)
  BY LenProperties
<1>3. PICK m \in Nat : m = Len(p)
  BY <1>1, LenProperties
<1>4. k <= m /\ \A i \in 1 .. k : c[i] = p[i]
  BY <1>1, <1>2, <1>3, PrefixMeans
<1>5. k # m
  <2>1. SUFFICES ASSUME k = m PROVE FALSE
    OBVIOUS
  <2>2. Len(c) = Len(p) /\ \A i \in 1 .. Len(c) : c[i] = p[i]
    BY <1>2, <1>3, <1>4, <2>1
  <2>. QED BY <1>1, <2>2, SeqEqual
<1>6. k # 0
  BY <1>2, EmptySeq
<1>7. k \in 1 .. Len(p) - 1
  BY <1>3, <1>4, <1>5, <1>6
<1>8. c = SubSeq(p, 1, k)
  BY <1>2 DEF PrefixOf, Tree!IsPrefixOf
<1>9. before \in Trees
  BY DEF Origin
<1>10. SubSeq(p, 1, k) \in Paths /\ before[SubSeq(p, 1, k)].kind = "dir"
  BY <1>7, <1>9, TreeAssumption
<1>. QED BY <1>8, <1>10

(* MakeDirectory.                                                           *)
LEMMA MakingOnTrack ==
  ASSUME CopyInv, Tree!MakeDirectory, OnTrack'
  PROVE  Progress'
<1>. DEFINE p == stack[1].path
            again == [stack[1] EXCEPT !.phase = "again"]
            above == Tree!Frame("create", Tree!Parent(p), << >>)
<1>1. /\ stack # << >> /\ Tree!Top.op = "create" /\ os' = os /\ before' = before
      /\ failures' = failures \/ Tree!Failure(FALSE)
      /\ Tree!Return \/ Tree!Fail \/ call' = call
  BY DEF Tree!MakeDirectory, Tree!Same, Tree!MakeParent, Tree!Entering
<1>2. TreeInv /\ Answered /\ Origin
  BY DEF CopyInv, TreeInv
<1>3. /\ Tree!Top = stack[1] /\ stack[1] \in Frames /\ os # "none" /\ p \in Seq(Names)
      /\ stack[1].op = "create"
  BY <1>1, <1>2, TopIs
<1>4. PlainCopy /\ Progress /\ SameCall /\ ~Tree!Fail
  BY <1>1, OnTheWay
<1>5. \/ Tree!Kind(tree, p) = "none" /\ Tree!Put(p, Tree!Directory) /\ Tree!Return
      \/ Tree!Kind(tree, p) # "none" /\ tree' = tree /\ Tree!Return
      \/ tree' = tree /\ Tree!Entering(again, "create", Tree!Parent(p), << >>)
  <2>. HIDE DEF p, again
  <2>1. p = Tree!Top.path /\ again = [Tree!Top EXCEPT !.phase = "again"]
    BY <1>3 DEF p, again
  <2>. QED BY <1>4, <2>1 DEF Tree!MakeDirectory, Tree!MakeParent
<1>6. tree \in [Paths -> Nodes]
  BY <1>2 DEF TreeInv, WalkTypes
<1>7. Grows
  <2>1. CASE Tree!Kind(tree, p) = "none" /\ Tree!Put(p, Tree!Directory)
    <3>. HIDE DEF p
    <3>1. tree' = [tree EXCEPT ![p] = Tree!Directory]
      BY <2>1 DEF Tree!Put
    <3>2. p \in Paths => tree[p].kind = "none"
      BY <2>1, TreeAssumption DEF Tree!Kind
    <3>3. \A r \in Paths : tree'[r] = IF r = p THEN Tree!Directory ELSE tree[r]
      BY <1>6, <3>1
    <3>. QED BY <3>2, <3>3 DEF Grows
  <2>. QED BY <1>5, <2>1 DEF Grows
<1>8. Undisturbed
  BY <1>2, <1>4, <1>7, Growing DEF Progress
<1>9. ASSUME NEW q \in Paths, Wanted(q), Owes(stack[1], q)
      PROVE  /\ p = Tree!CopyOf(q) /\ p \in Paths /\ before[q].kind = "dir"
             /\ before[q] = Tree!Directory /\ PlaceKept(q, p)
             /\ before[p].kind \in {"none", "dir"}
  <2>1. p = Tree!CopyOf(q) /\ before[q].kind = "dir"
    BY <1>3, <1>9 DEF Owes
  <2>2. PrefixOf(call.path, q) /\ Tree!Comparable(q, p) /\ PlaceKept(q, p)
    BY <1>4, <1>9, <2>1 DEF Wanted, Progress, PlacesKept
  <2>3. p \in Paths
    BY <1>2, <1>4, <2>1, <2>2, PlainIs
  <2>4. before[q] = Tree!Directory
    BY <1>2, <1>3, <2>1, DirectoriesAlike
  <2>. QED BY <2>1, <2>2, <2>3, <2>4 DEF Tree!Comparable
<1>10. CASE Tree!Put(p, Tree!Directory) /\ Tree!Return
  <2>. HIDE DEF p
  <2>1. p \in Paths => tree'[p] = Tree!Directory
    BY <1>6, <1>10 DEF Tree!Put
  <2>2. \A q \in Paths : Wanted(q) /\ Owes(stack[1], q) => tree'[Tree!CopyOf(q)] = before[q]
    BY <1>9, <2>1
  <2>. QED BY <1>1, <1>2, <1>4, <1>8, <1>10, <2>2, ReturnsOnTrack
<1>11. CASE Tree!Kind(tree, p) # "none" /\ tree' = tree /\ Tree!Return
  <2>1. ASSUME NEW q \in Paths, Wanted(q), Owes(stack[1], q)
        PROVE  tree'[Tree!CopyOf(q)] = before[q]
    <3>. HIDE DEF p
    <3>1. /\ p = Tree!CopyOf(q) /\ p \in Paths /\ before[q] = Tree!Directory /\ PlaceKept(q, p)
          /\ before[p].kind \in {"none", "dir"}
      BY <1>9, <2>1
    <3>2. tree[p].kind # "none"
      BY <1>11, <3>1, TreeAssumption DEF Tree!Kind
    <3>3. before[p].kind = "dir" => before[p] = Tree!Directory
      BY <1>2, <1>3, <3>1, DirectoriesAlike
    <3>. QED BY <1>11, <3>1, <3>2, <3>3 DEF PlaceKept
  <2>. QED BY <1>1, <1>2, <1>4, <1>8, <1>11, <2>1, ReturnsOnTrack
<1>12. CASE tree' = tree /\ Tree!Entering(again, "create", Tree!Parent(p), << >>)
  <2>1. Tree!Parent(p) \in Seq(Names)
    BY <1>3, ParentIs
  <2>2. above \in Frames /\ above.op = "create"
    <3>. DEFINE r == Tree!Parent(p)
    <3>1. r \in Seq(Names) /\ << >> \in Seq(Names)
      BY <2>1, EmptySeq
    <3>. HIDE DEF r
    <3>2. /\ Tree!Frame("create", r, << >>) \in Frames
          /\ Tree!Frame("create", r, << >>).op = "create"
      BY <3>1, EmptySeq DEF Tree!Frame, Frames
    <3>. QED BY <3>2 DEF r
  <2>3. again \in Frames /\ again.op = "create" /\ again.path = p
    BY <1>3 DEF Frames
  <2>4. stack' = Over(<< above >> \o << again >>, stack)
    BY <1>12 DEF Tree!Entering, Tree!Frames, Over, above
  <2>. HIDE DEF p, again, above
  <2>. DEFINE u == << above >> \o << again >>
  <2>5. u \in Seq(Frames) /\ Len(u) = 2 /\ u[1] = above /\ u[2] = again
    BY <2>2, <2>3, Above
  <2>6. stack' = Over(u, stack)
    BY <2>4
  <2>. HIDE DEF u
  <2>7. \A k \in 1 .. Len(u) : k = 1 \/ k = 2
    BY <2>5
  <2>8. \A k \in 1 .. Len(u) : Matched(u[k])
    BY <2>2, <2>3, <2>5, <2>7 DEF Matched
  <2>9. \A q \in Paths : Wanted(q) /\ Owes(stack[1], q) => \E k \in 1 .. Len(u) : Owes(u[k], q)
    <3>1. 2 \in 1 .. Len(u)
      BY <2>5
    <3>2. \A q \in Paths : Wanted(q) /\ Owes(stack[1], q) => Owes(again, q)
      BY <1>9, <2>3 DEF Owes
    <3>. QED BY <2>5, <3>1, <3>2
  <2>. QED BY <1>1, <1>2, <1>4, <1>8, <2>5, <2>6, <2>8, <2>9, Progressing
<1>. QED BY <1>5, <1>10, <1>11, <1>12

(* The tree stays: so does all that is said of it.                          *)
LEMMA Untouched ==
  ASSUME TreeInv, Answered, Origin, PlainCopy, Progress, SameCall, tree' = tree
  PROVE  Undisturbed
BY Growing DEF Grows, Progress

(* The first frame of a plain copy.                                         *)
LEMMA CopyingFrom ==
  ASSUME TreeInv, Answered, PlainCopy, Progress, stack # << >>, Tree!Top.op = "copy"
  PROVE  /\ Tree!Top = stack[1] /\ stack[1] \in Frames /\ stack[1].op = "copy"
         /\ os \in {"posix", "win32"}
         /\ stack[1].path \in Seq(Names) /\ stack[1].todo \subseteq Names
         /\ PrefixOf(call.path, stack[1].path) /\ stack[1].to = Tree!CopyOf(stack[1].path)
         /\ stack[1].at = stack[1].path /\ Tree!Kind(tree, stack[1].path) = "dir"
         /\ call.path \in Seq(Names) /\ call.to \in Seq(Names) /\ stack[1].to \in Seq(Names)
<1>1. /\ Tree!Top = stack[1] /\ stack[1] \in Frames /\ 1 \in 1 .. Len(stack)
      /\ os \in {"posix", "win32"}
      /\ stack[1].path \in Seq(Names) /\ stack[1].todo \subseteq Names
      /\ call.path \in Seq(Names) /\ call.to \in Seq(Names) /\ stack[1].to \in Seq(Names)
  BY TopIs
<1>2. Matched(stack[1])
  BY <1>1 DEF Progress, AllMatched
<1>. QED BY <1>1, <1>2 DEF Matched

(* ListToCopy: whatever is to be copied is one of the entries, or in one.   *)
LEMMA ListingOnTrack ==
  ASSUME CopyInv, Tree!ListToCopy, OnTrack'
  PROVE  Progress'
<1>. DEFINE path == stack[1].path
            at == Tree!Resolved(tree, path)
            f == [stack[1] EXCEPT !.phase = "entries", !.at = at,
                                  !.todo = Tree!Entries(tree, at)]
<1>1. /\ stack # << >> /\ Tree!Top.op = "copy" /\ Tree!Top.phase = "begin"
      /\ os' = os /\ before' = before /\ tree' = tree /\ Tree!List
  BY DEF Tree!ListToCopy, Tree!Same, Tree!In
<1>2. TreeInv /\ Answered /\ Origin
  BY DEF CopyInv, TreeInv
<1>3. /\ failures' = failures \/ Tree!Failure(TRUE)
      /\ Tree!Return \/ call' = call
  BY <1>1 DEF Tree!List, Tree!NotListed, Tree!Going
<1>4. PlainCopy /\ Progress /\ SameCall /\ ~Tree!Failure(TRUE)
  BY <1>1, <1>3, OnTheWay
<1>5. /\ Tree!Top = stack[1] /\ stack[1] \in Frames /\ stack[1].op = "copy"
      /\ os \in {"posix", "win32"} /\ path \in Seq(Names)
      /\ PrefixOf(call.path, path) /\ stack[1].to = Tree!CopyOf(path)
      /\ Tree!Kind(tree, path) = "dir" /\ call.path \in Seq(Names)
  BY <1>1, <1>2, <1>4, CopyingFrom
<1>6. at = path
  BY <1>5 DEF Tree!Resolved
<1>7. Tree!Going(f)
  <2>. HIDE DEF f, at
  <2>1. at = Tree!Resolved(tree, Tree!Top.path)
    BY <1>5 DEF at
  <2>2. f = [Tree!Top EXCEPT !.phase = "entries", !.at = at, !.todo = Tree!Entries(tree, at)]
    BY <1>5 DEF f
  <2>3. Tree!Kind(tree, at) = "dir"
    BY <1>5, <1>6
  <2>. QED BY <1>1, <1>4, <2>1, <2>2, <2>3 DEF Tree!List
<1>8. Undisturbed
  BY <1>1, <1>2, <1>4, Untouched
<1>9. Tree!Entries(tree, at) \subseteq Names
  BY EntriesAre
<1>. HIDE DEF at
<1>10. /\ f \in Frames /\ f.op = "copy" /\ f.path = path /\ f.at = path /\ f.to = stack[1].to
       /\ f.phase = "entries" /\ f.todo = Tree!Entries(tree, path)
  BY <1>5, <1>6, <1>9 DEF Frames
<1>. HIDE DEF f
<1>11. Matched(f)
  BY <1>5, <1>10 DEF Matched
<1>12. ASSUME NEW q \in Paths, Wanted(q), Owes(stack[1], q) PROVE Owes(f, q)
  <2>1. PrefixOf(path, q) /\ q # path
    BY <1>1, <1>5, <1>12 DEF Owes
  <2>2. before[q].kind # "none" /\ q \in Seq(Names)
    BY <1>12, TreeAssumption DEF Wanted, Names
  <2>3. PICK r \in Seq(Names) :
          /\ r # << >> /\ Tree!Parent(r) = path /\ Tree!Name(r) \in Names
          /\ r = Append(path, Tree!Name(r)) /\ PrefixOf(r, q)
    <3>. HIDE DEF path
    <3>. QED BY <1>5, <2>1, <2>2, EntryOnTheWay
  <2>4. r \in Paths /\ before[r].kind # "none"
    <3>1. CASE r = q
      BY <2>2, <3>1
    <3>2. CASE r # q
      <4>1. os # "none"
        BY <1>5
      <4>. QED BY <1>2, <2>2, <2>3, <3>2, <4>1, AboveIsDirectory
    <3>. QED BY <3>1, <3>2
  <2>5. PrefixOf(call.path, r)
    <3>. HIDE DEF path
    <3>. DEFINE n == Tree!Name(r)
    <3>1. n \in Names /\ r = Append(path, n)
      BY <2>3
    <3>. HIDE DEF n
    <3>2. PrefixOf(call.path, Append(path, n))
      BY <1>5, <3>1, PrefixOfEntry
    <3>. QED BY <3>1, <3>2
  <2>6. tree[r].kind # "none"
    BY <1>4, <2>4, <2>5 DEF Progress, SourceKept
  <2>7. Tree!Name(r) \in f.todo
    BY <1>10, <2>3, <2>4, <2>6 DEF Tree!Entries
  <2>. QED BY <1>10, <2>3, <2>7 DEF Owes
<1>. QED BY <1>1, <1>2, <1>4, <1>7, <1>8, <1>10, <1>11, <1>12, GoesOnOnTrack

(* AllCopied.                                                               *)
LEMMA CopiedOnTrack ==
  ASSUME CopyInv, Tree!AllCopied, OnTrack'
  PROVE  Progress'
<1>1. /\ stack # << >> /\ Tree!Top.op = "copy" /\ Tree!Top.phase = "entries"
      /\ os' = os /\ before' = before /\ tree' = tree /\ Tree!Return
      /\ \/ Tree!Top.todo = {} /\ failures' = failures
         \/ Tree!Failure(TRUE)
  BY DEF Tree!AllCopied, Tree!Same, Tree!In, Tree!NoMoreEntries
<1>2. TreeInv /\ Answered /\ Origin
  BY DEF CopyInv, TreeInv
<1>3. PlainCopy /\ Progress /\ SameCall /\ ~Tree!Failure(TRUE)
  BY <1>1, OnTheWay
<1>4. Tree!Top = stack[1] /\ stack[1].op = "copy"
  BY <1>1, <1>2, <1>3, CopyingFrom
<1>5. \A p \in Paths : ~Owes(stack[1], p)
  BY <1>1, <1>3, <1>4 DEF Owes
<1>6. Undisturbed
  BY <1>1, <1>2, <1>3, Untouched
<1>. QED BY <1>1, <1>2, <1>3, <1>5, <1>6, ReturnsOnTrack

(* What is copied is not a link, and if it was there it is what it was.     *)
LEMMA SourceNode ==
  ASSUME TreeInv, Answered, PlainCopy, Progress, NEW c \in Seq(Names), PrefixOf(call.path, c)
  PROVE  /\ Tree!Kind(tree, c) # "link" /\ Tree!Resolved(tree, c) = c
         /\ c \in Paths /\ before[c].kind # "none" => tree[c] = before[c]
         /\ c \in Paths /\ tree[c].kind = "file" => tree[c] = before[c]
<1>1. c \in Paths => /\ before[c].kind # "link"
                     /\ \/ tree[c] = before[c]
                        \/ before[c].kind = "none" /\ tree[c] = Tree!Directory
  BY PlainIs DEF Progress, SourceKept
<1>2. Tree!Directory.kind = "dir"
  BY Kinds
<1>3. Tree!Kind(tree, c) # "link"
  BY <1>1, <1>2 DEF Tree!Kind
<1>. QED BY <1>1, <1>2, <1>3 DEF Tree!Resolved

(* A directory is entered.                                                  *)
LEMMA EnteringOnTrack ==
  ASSUME TreeInv, Answered, Origin, PlainCopy, Progress, SameCall, stack # << >>,
         Tree!Top.op = "copy", Tree!Top.phase = "entries", tree' = tree,
         NEW name \in stack[1].todo, NEW f \in Frames, f.op = "copy", f.path = stack[1].path,
         f.to = stack[1].to, f.at = stack[1].at, f.phase = "entries",
         f.todo = stack[1].todo \ {name},
         NEW c \in Seq(Names), c = Append(stack[1].path, name), PrefixOf(call.path, c),
         NEW to \in Seq(Names), to = Tree!CopyOf(c),
         Tree!TakenForDirectory(c), Tree!Entering(f, "copy", c, to)
  PROVE  Progress'
<1>. DEFINE m == Tree!Frame("create", to, << >>)
            x == Tree!Frame("copy", c, to)
            u == << m, x >> \o << f >>
<1>1. /\ Tree!Top = stack[1] /\ stack[1].op = "copy" /\ os \in {"posix", "win32"}
      /\ PrefixOf(call.path, stack[1].path) /\ stack[1].to = Tree!CopyOf(stack[1].path)
      /\ stack[1].at = stack[1].path /\ Tree!Kind(tree, stack[1].path) = "dir"
  BY CopyingFrom
<1>2. m \in Frames /\ m.op = "create" /\ m.path = to
  BY EmptySeq DEF Tree!Frame, Frames
<1>3. /\ x \in Frames /\ x.op = "copy" /\ x.path = c /\ x.to = to /\ x.at = c
      /\ x.phase = "begin"
  BY EmptySeq DEF Tree!Frame, Frames
<1>4. stack' = Over(<< m, x >> \o << f >>, stack)
  BY DEF Tree!Entering, Tree!Frames, Over
<1>. HIDE DEF m, x
<1>5. u \in Seq(Frames) /\ Len(u) = 3 /\ u[1] = m /\ u[2] = x /\ u[3] = f
  BY <1>2, <1>3, Above
<1>6. stack' = Over(u, stack)
  BY <1>4
<1>. HIDE DEF u
<1>7. Tree!Kind(tree, c) = "dir"
  <2>1. Tree!Resolved(tree, c) = c
    BY SourceNode
  <2>. QED BY <2>1 DEF Tree!TakenForDirectory, Tree!FollowsLinks
<1>8. \A k \in 1 .. Len(u) : Matched(u[k])
  <2>1. \A k \in 1 .. Len(u) : k = 1 \/ k = 2 \/ k = 3
    BY <1>5
  <2>2. Matched(m) /\ Matched(x) /\ Matched(f)
    BY <1>1, <1>2, <1>3, <1>7 DEF Matched
  <2>. QED BY <1>5, <2>1, <2>2
<1>9. Undisturbed
  BY Untouched
<1>10. ASSUME NEW q \in Paths, Wanted(q), Owes(stack[1], q)
       PROVE  \E k \in 1 .. Len(u) : Owes(u[k], q)
  <2>1. PICK n \in stack[1].todo : PrefixOf(Append(stack[1].path, n), q)
    BY <1>1, <1>10 DEF Owes
  <2>2. 1 \in 1 .. Len(u) /\ 2 \in 1 .. Len(u) /\ 3 \in 1 .. Len(u)
    BY <1>5
  <2>3. CASE n # name
    <3>1. Owes(f, q)
      BY <2>1, <2>3 DEF Owes
    <3>. QED BY <1>5, <2>2, <3>1
  <2>4. CASE n = name /\ q # c
    <3>1. Owes(x, q)
      BY <1>3, <2>1, <2>4 DEF Owes
    <3>. QED BY <1>5, <2>2, <3>1
  <2>5. CASE q = c
    <3>1. before[q].kind # "none"
      BY <1>10 DEF Wanted
    <3>2. tree[q] = before[q]
      BY <2>5, <3>1, SourceNode
    <3>3. before[q].kind = "dir"
      BY <1>7, <2>5, <3>2, TreeAssumption DEF Tree!Kind
    <3>4. Owes(m, q)
      BY <1>2, <2>5, <3>3 DEF Owes
    <3>. QED BY <1>5, <2>2, <3>4
  <2>. QED BY <2>3, <2>4, <2>5
<1>. QED BY <1>5, <1>6, <1>8, <1>9, <1>10, Progressing

(* What is no longer than the new is replaced by it.                        *)
LEMMA OverlaidWhole ==
  ASSUME NEW a \in Seq(Names), NEW b \in Seq(Names), Len(b) <= Len(a)
  PROVE  Tree!Overlaid(a, b) = a
<1>1. PICK k \in Nat : k = Len(a)
  BY LenProperties
<1>2. PICK l \in Nat : l = Len(b)
  BY LenProperties
<1>3. l <= k
  BY <1>1, <1>2
<1>4. SubSeq(b, k + 1, l) \in Seq(Names) /\ Len(SubSeq(b, k + 1, l)) = 0
  <2>1. \A i \in k + 1 .. l : b[i] \in Names
    BY <1>2, ElementOfSeq
  <2>2. k + 1 \in Int /\ l \in Int
    OBVIOUS
  <2>3. /\ SubSeq(b, k + 1, l) \in Seq(Names)
        /\ Len(SubSeq(b, k + 1, l)) = IF k + 1 <= l THEN l - (k + 1) + 1 ELSE 0
    BY ONLY <2>1, <2>2, SubSeqProperties
  <2>. QED BY <1>3, <2>3
<1>5. SubSeq(b, Len(a) + 1, Len(b)) = << >>
  BY <1>1, <1>2, <1>4, EmptySeq
<1>6. a \o << >> = a
  BY ConcatEmptySeq
<1>. QED BY <1>5, <1>6 DEF Tree!Overlaid

(* The first part may be all.                                               *)
LEMMA WholePart ==
  ASSUME NEW a \in Seq(Names)
  PROVE  SubSeq(a, 1, Len(a)) = a
<1>1. PrefixOf(a, a)
  BY PrefixSelf
<1>. QED BY <1>1 DEF PrefixOf, Tree!IsPrefixOf

(* No link is in the place of what is still to be copied.                   *)
LEMMA NoLinkThere ==
  ASSUME TreeInv, Answered, PlainCopy, Progress, stack # << >>,
         Tree!Top.op = "copy", Tree!Top.phase = "entries",
         NEW name \in stack[1].todo, NEW to \in Seq(Names), to = Append(stack[1].to, name),
         PrefixOf(call.to, to)
  PROVE  Tree!Resolved(tree, to) = to
<1>1. /\ Tree!Top = stack[1] /\ stack[1].op = "copy"
  BY CopyingFrom
<1>2. 1 \in 1 .. Len(stack)
  BY TopIs
<1>3. ASSUME Tree!Kind(tree, to) = "link" PROVE FALSE
  <2>1. to \in Paths /\ tree[to].kind = "link"
    BY <1>3, ResolvedIs DEF TreeInv
  <2>2. PrefixOf(to, to)
    BY PrefixSelf
  <2>3. Ahead(stack[1], to)
    BY <1>1, <2>2, PlainIs DEF Ahead
  <2>4. tree[to] = before[to]
    BY <1>2, <2>1, <2>3 DEF TreeInv, LinksBehind
  <2>. QED BY <2>1, <2>4, PlainIs
<1>. QED BY <1>3 DEF Tree!Resolved

(* A file is copied to its end.                                             *)
LEMMA FilingOnTrack ==
  ASSUME TreeInv, Answered, Origin, PlainCopy, Progress, SameCall, stack # << >>,
         Tree!Top.op = "copy", Tree!Top.phase = "entries",
         ~Tree!Fail, ~Tree!Failure(TRUE),
         NEW name \in stack[1].todo, NEW f \in Frames, f.op = "copy", f.path = stack[1].path,
         f.to = stack[1].to, f.at = stack[1].at, f.phase = "entries",
         f.todo = stack[1].todo \ {name},
         NEW c \in Seq(Names), c = Append(stack[1].path, name), PrefixOf(call.path, c),
         NEW to \in Seq(Names), to = Tree!CopyOf(c), to = Append(stack[1].to, name),
         PrefixOf(call.to, to),
         ~Tree!TakenForDirectory(c), ~Tree!Blocked(c, to),
         Tree!CopyFile(to, tree[c].data, f)
  PROVE  Progress'
<1>1. /\ Tree!Top = stack[1] /\ stack[1].op = "copy" /\ os \in {"posix", "win32"}
      /\ PrefixOf(call.path, stack[1].path) /\ stack[1].to = Tree!CopyOf(stack[1].path)
      /\ stack[1].at = stack[1].path /\ Tree!Kind(tree, stack[1].path) = "dir"
      /\ call.path \in Seq(Names) /\ call.to \in Seq(Names)
  BY CopyingFrom
<1>2. /\ call'.op = call.op /\ call'.path = call.path /\ call'.to = call.to
      /\ os' = os /\ before' = before
  BY DEF SameCall
<1>3. Tree!Kind(tree, c) # "link" /\ Tree!Resolved(tree, c) = c
  BY SourceNode
<1>4. tree \in [Paths -> Nodes] /\ before \in [Paths -> Nodes]
  BY DEF TreeInv, WalkTypes
(* It was a file.                                                           *)
<1>5. c \in Paths /\ tree[c].kind = "file"
  <2>1. Tree!Kind(tree, c) = "file"
    BY <1>3 DEF Tree!Blocked
  <2>. QED BY <2>1 DEF Tree!Kind
<1>6. tree[c] = before[c]
  BY <1>5, SourceNode
<1>7. ~PrefixOf(call.path, to)
  BY <1>5, PlainIs
<1>8. Tree!Resolved(tree, to) = to
  BY NoLinkThere
<1>9. Tree!Kind(tree, to) # "dir"
  BY <1>3, <1>5, <1>8 DEF Tree!Blocked
(* The whole of it.                                                         *)
<1>. DEFINE data == tree[c].data
            node == [kind |-> "file", data |-> Tree!Copied(data, tree[to].data)]
<1>10. data \in Seq(Names)
  BY <1>4, <1>5 DEF Nodes
<1>11. tree' = [tree EXCEPT ![to] = node] /\ Tree!Going(f)
  <2>1. PICK n \in 0 .. Len(data) :
          /\ Tree!Put(to, [kind |-> "file",
                           data |-> Tree!Copied(SubSeq(data, 1, n), tree[to].data)])
          /\ n = Len(data) /\ Tree!Going(f)
    BY <1>8 DEF Tree!CopyFile
  <2>2. SubSeq(data, 1, n) = data
    <3>. HIDE DEF data
    <3>. QED BY <1>10, <2>1, WholePart
  <2>. QED BY <2>1, <2>2 DEF Tree!Put
<1>. HIDE DEF node
<1>12. \A r \in Paths : tree'[r] = IF r = to THEN node ELSE tree[r]
  BY <1>4, <1>11
(* It is as it was, in its new place.                                       *)
<1>13. Wanted(c) => to \in Paths /\ tree'[to] = before[c]
  <2>1. SUFFICES ASSUME Wanted(c) PROVE to \in Paths /\ tree'[to] = before[c]
    OBVIOUS
  <2>2. before[c].kind = "file" /\ Tree!Comparable(c, to)
    BY <1>5, <1>6, <2>1 DEF Wanted
  <2>3. to \in Paths /\ before[to].kind # "link"
    BY <1>5, <2>2, PlainIs
  <2>4. tree[to].data \in Seq(Names) /\ before[to].data \in Seq(Names)
    BY <1>4, <2>3 DEF Nodes
  <2>5. to # << >>
    BY <2>3, TreeAssumption
  <2>6. Tree!Resolved(before, to) = to
    BY <2>3, <2>5 DEF Tree!Resolved, Tree!Kind
  <2>7. tree[to] = before[to] \/ tree[to] = before[c]
    <3>1. PlaceKept(c, to)
      BY <1>5, <2>1 DEF Progress, PlacesKept
    <3>2. tree[to].kind # "dir" /\ Tree!Directory.kind = "dir"
      BY <1>9, <2>3, <2>5, Kinds DEF Tree!Kind
    <3>. QED BY <3>1, <3>2 DEF PlaceKept
  <2>8. Tree!Copied(data, tree[to].data) = data
    <3>1. CASE os = "win32"
      BY <3>1 DEF Tree!Copied
    <3>2. CASE os # "win32"
      <4>1. Len(before[to].data) <= Len(before[c].data)
        BY <2>2, <2>6, <3>2 DEF Tree!Comparable
      <4>2. Len(data) \in Nat
        BY <1>10, LenProperties
      <4>3. Len(tree[to].data) <= Len(data)
        BY <1>6, <2>7, <4>1, <4>2
      <4>4. Tree!Overlaid(data, tree[to].data) = data
        <5>. HIDE DEF data
        <5>. QED BY <1>10, <2>4, <4>3, OverlaidWhole
      <4>. QED BY <3>2, <4>4, <1>1 DEF Tree!Copied
    <3>. QED BY <3>1, <3>2
  <2>9. node = before[c]
    <3>1. node = [kind |-> "file", data |-> before[c].data]
      BY <1>6, <2>8 DEF node
    <3>2. before[c] \in [kind : {"none", "file", "dir", "link"}, data : Seq(Names)]
      BY <1>4, <1>5 DEF Nodes
    <3>. QED BY <2>2, <3>1, <3>2
  <2>. QED BY <1>12, <2>3, <2>9
(* Nothing else is disturbed.                                               *)
<1>14. \A p : Tree!CopyOf(p)' = Tree!CopyOf(p)
  BY SamePlain
<1>15. \A p : Wanted(p)' <=> Wanted(p)
  BY SamePlain
<1>16. ASSUME NEW p \in Paths, Wanted(p)
       PROVE  /\ Tree!CopyOf(p) \in Paths
              /\ \/ p = c /\ tree'[Tree!CopyOf(p)] = before[p]
                 \/ tree'[Tree!CopyOf(p)] = tree[Tree!CopyOf(p)]
  <2>1. PrefixOf(call.path, p) /\ before[p].kind # "none" /\ p \in Seq(Names)
    BY <1>16, TreeAssumption DEF Wanted, Names
  <2>2. Tree!CopyOf(p) \in Paths
    BY <2>1, PlainIs
  <2>3. CASE Tree!CopyOf(p) = to
    <3>1. p = c
      BY <2>1, <2>3, PlacesApart
    <3>. QED BY <1>13, <1>16, <2>2, <2>3, <3>1
  <2>4. CASE Tree!CopyOf(p) # to
    BY <1>12, <2>2, <2>4
  <2>. QED BY <2>2, <2>3, <2>4
<1>17. SourceKept'
  <2>1. ASSUME NEW p \in Paths, PrefixOf(call.path, p) PROVE tree'[p] = tree[p]
    BY <1>7, <1>12, <2>1
  <2>. QED BY <1>2, <2>1 DEF Progress, SourceKept
<1>18. PlacesKept'
  <2>1. ASSUME NEW p \in Paths, Wanted(p) PROVE PlaceKept(p, Tree!CopyOf(p))'
    <3>. DEFINE q == Tree!CopyOf(p)
    <3>1. /\ q \in Paths /\ PlaceKept(p, q) /\ q' = q
          /\ tree'[q] = before[p] \/ tree'[q] = tree[q]
      BY <1>14, <1>16, <2>1 DEF Progress, PlacesKept
    <3>. HIDE DEF q
    <3>2. PlaceKept(p, q)'
      BY <1>2, <3>1 DEF PlaceKept
    <3>. QED BY <3>2 DEF q
  <2>. QED BY <1>15, <2>1 DEF PlacesKept
<1>19. ASSUME NEW g \in Frames, Matched(g) PROVE Matched(g)'
  <2>1. PrefixOf(call.path, g.path) /\ Tree!Kind(tree, g.path) = "dir"
          => Tree!Kind(tree', g.path) = "dir"
    BY <1>7, <1>12 DEF Tree!Kind
  <2>. QED BY <1>2, <1>14, <1>19, <2>1 DEF Matched
<1>20. Undisturbed
  BY <1>16, <1>17, <1>18, <1>19 DEF Undisturbed
<1>21. Matched(f)
  BY <1>1 DEF Matched
<1>22. ASSUME NEW q \in Paths, Wanted(q), Owes(stack[1], q)
       PROVE  tree'[Tree!CopyOf(q)] = before[q] \/ Owes(f, q)
  <2>1. PICK n \in stack[1].todo : PrefixOf(Append(stack[1].path, n), q)
    BY <1>1, <1>22 DEF Owes
  <2>2. CASE n # name
    BY <2>1, <2>2 DEF Owes
  <2>3. CASE q = c
    BY <1>13, <1>22, <2>3
  <2>4. CASE n = name /\ q # c
    <3>1. PrefixOf(c, q) /\ c # << >> /\ before[q].kind # "none" /\ os # "none"
      BY <1>1, <1>5, <1>22, <2>1, <2>4, TreeAssumption DEF Wanted
    <3>2. before[c].kind = "dir"
      BY <2>4, <3>1, AboveIsDirectory
    <3>. QED BY <1>5, <1>6, <3>2
  <2>. QED BY <2>2, <2>3, <2>4
<1>. QED BY <1>11, <1>20, <1>21, <1>22, GoesOnOnTrack

(* CopyEntry.                                                               *)
LEMMA CopyingOnTrack ==
  ASSUME CopyInv, Tree!CopyEntry, OnTrack'
  PROVE  Progress'
<1>1. /\ stack # << >> /\ Tree!Top.op = "copy" /\ Tree!Top.phase = "entries"
      /\ os' = os /\ before' = before
      /\ Tree!Fail \/ call' = call
      /\ failures' = failures \/ Tree!Failure(FALSE) \/ Tree!Failure(TRUE)
  BY DEF Tree!CopyEntry, Tree!Same, Tree!In, Tree!CopyFile, Tree!CopyLink, Tree!Going,
         Tree!Entering
<1>2. TreeInv /\ Answered /\ Origin
  BY DEF CopyInv, TreeInv
<1>3. PlainCopy /\ Progress /\ SameCall /\ ~Tree!Fail /\ ~Tree!Failure(TRUE)
  BY <1>1, OnTheWay
<1>4. /\ Tree!Top = stack[1] /\ stack[1] \in Frames /\ stack[1].op = "copy"
      /\ stack[1].path \in Seq(Names) /\ stack[1].todo \subseteq Names
      /\ PrefixOf(call.path, stack[1].path) /\ stack[1].to = Tree!CopyOf(stack[1].path)
      /\ stack[1].at = stack[1].path /\ stack[1].to \in Seq(Names)
      /\ call.path \in Seq(Names) /\ call.to \in Seq(Names)
  BY <1>1, <1>2, <1>3, CopyingFrom
<1>. DEFINE path(name) == Append(stack[1].path, name)
            to(name) == Append(stack[1].to, name)
            done(name) == [stack[1] EXCEPT !.todo = @ \ {name}]
            place(name) == Append(Tree!Resolved(tree, stack[1].to), name)
<1>5. PICK name \in stack[1].todo :
        \/ /\ Tree!TakenForDirectory(path(name)) /\ ~Tree!Blocked(path(name), place(name))
           /\ tree' = tree
           /\ Tree!Entering(done(name), "copy", path(name), place(name))
        \/ /\ ~Tree!TakenForDirectory(path(name)) /\ ~Tree!Blocked(path(name), place(name))
           /\ \/ Tree!Kind(tree, path(name)) = "link"
              \/ Tree!CopyFile(place(name), tree[Tree!Resolved(tree, path(name))].data,
                               done(name))
  <2>1. \A name : done(name) = [Tree!Top EXCEPT !.todo = @ \ {name}]
    BY <1>4
  <2>2. \A name : /\ path(name) = Append(Tree!Top.at, name)
                   /\ place(name) = Append(Tree!Resolved(tree, Tree!Top.to), name)
    BY <1>4
  <2>. HIDE DEF path, place, done
  <2>. QED BY <1>3, <1>4, <2>1, <2>2 DEF Tree!CopyEntry
<1>6. name \in Names
  BY <1>4
<1>7. path(name) \in Seq(Names) /\ PrefixOf(call.path, path(name))
  BY <1>4, <1>6, PrefixOfEntry
<1>8. to(name) \in Seq(Names) /\ PrefixOf(call.to, to(name)) /\ to(name) = Tree!CopyOf(path(name))
  <2>1. stack[1].to = Moved(call.path, call.to, stack[1].path)
    BY <1>4 DEF Tree!CopyOf, Moved
  <2>2. PrefixOf(call.to, stack[1].to)
    BY <1>4, <2>1, MovedInto
  <2>3. to(name) \in Seq(Names) /\ PrefixOf(call.to, to(name))
    BY <1>4, <1>6, <2>2, PrefixOfEntry
  <2>4. Moved(call.path, call.to, Append(stack[1].path, name))
          = Append(Moved(call.path, call.to, stack[1].path), name)
    <3>1. /\ call.path \in Seq(Names) /\ call.to \in Seq(Names)
          /\ stack[1].path \in Seq(Names) /\ PrefixOf(call.path, stack[1].path)
      BY <1>4
    <3>. QED BY ONLY <3>1, <1>6, MovedEntry
  <2>5. Tree!CopyOf(path(name)) = Moved(call.path, call.to, Append(stack[1].path, name))
    BY DEF Tree!CopyOf, Moved
  <2>. QED BY <2>1, <2>3, <2>4, <2>5
<1>9. /\ done(name) \in Frames /\ done(name).op = "copy" /\ done(name).path = stack[1].path
      /\ done(name).to = stack[1].to /\ done(name).at = stack[1].at
      /\ done(name).phase = "entries" /\ done(name).todo = stack[1].todo \ {name}
  BY <1>1, <1>4 DEF Frames
<1>10. /\ path(name) = Append(stack[1].path, name) /\ to(name) = Append(stack[1].to, name)
  OBVIOUS
(* Where it says, since no link is in the new directory.                    *)
<1>13. place(name) = to(name)
  <2>1. ~Tree!Blocked(path(name), place(name))
    BY <1>5
  <2>. DEFINE q == place(name)
  <2>2. q = Append(Tree!Resolved(tree, stack[1].to), name)
    OBVIOUS
  <2>3. Tree!Kind(tree, Tree!Parent(q)) = "dir"
    BY <2>1 DEF Tree!Blocked
  <2>4. ~Tree!Shared
    BY <1>2, <1>3, PlainIs
  <2>. HIDE DEF q
  <2>5. ~Tree!Shared => q = Append(stack[1].to, name)
    BY <1>1, <1>2, <2>2, <2>3, Destination
  <2>. QED BY <1>10, <2>4, <2>5 DEF q
<1>. HIDE DEF path, to, done, place
<1>11. CASE /\ Tree!TakenForDirectory(path(name)) /\ tree' = tree
            /\ Tree!Entering(done(name), "copy", path(name), place(name))
  BY <1>13, <1>1, <1>2, <1>3, <1>7, <1>8, <1>9, <1>10, <1>11, EnteringOnTrack
<1>12. CASE ~Tree!TakenForDirectory(path(name)) /\ ~Tree!Blocked(path(name), place(name))
  <2>1. /\ Tree!Kind(tree, path(name)) # "link"
        /\ Tree!Resolved(tree, path(name)) = path(name)
    BY <1>2, <1>3, <1>7, SourceNode
  <2>2. CASE Tree!CopyFile(place(name), tree[Tree!Resolved(tree, path(name))].data,
                           done(name))
    <3>1. /\ Tree!CopyFile(to(name), tree[path(name)].data, done(name))
          /\ ~Tree!Blocked(path(name), to(name))
      BY <1>12, <1>13, <2>1, <2>2
    <3>. QED BY <1>1, <1>2, <1>3, <1>7, <1>8, <1>9, <1>10, <1>12, <3>1, FilingOnTrack
  <2>. QED BY <1>5, <1>12, <2>1, <2>2
<1>. QED BY <1>5, <1>11, <1>12

(* OtherMakesDirectory.                                                     *)
LEMMA OthersOnTrack ==
  ASSUME CopyInv, Tree!OtherMakesDirectory, OnTrack'
  PROVE  Progress'
<1>1. /\ stack # << >> /\ call' = call /\ stack' = stack /\ os' = os /\ before' = before
      /\ failures' = failures
  BY DEF Tree!OtherMakesDirectory
<1>2. PICK p \in Paths : Tree!Kind(tree, p) = "none" /\ Tree!Put(p, Tree!Directory)
  BY DEF Tree!OtherMakesDirectory
<1>3. TreeInv /\ Answered /\ Origin
  BY DEF CopyInv, TreeInv
<1>4. PlainCopy /\ Progress /\ SameCall
  BY <1>1, OnTheWay
<1>5. stack \in Seq(Frames) /\ tree \in [Paths -> Nodes]
  BY <1>3 DEF TreeInv, WalkTypes
<1>6. Grows
  <2>1. tree[p].kind = "none"
    BY <1>2, TreeAssumption DEF Tree!Kind
  <2>2. \A r \in Paths : tree'[r] = IF r = p THEN Tree!Directory ELSE tree[r]
    BY <1>2, <1>5 DEF Tree!Put
  <2>. QED BY <2>1, <2>2 DEF Grows
<1>7. Undisturbed
  BY <1>3, <1>4, <1>6, Growing DEF Progress
<1>. DEFINE u == << stack[1] >>
<1>8. 1 \in 1 .. Len(stack) /\ stack[1] \in Frames
  BY <1>1, <1>3, TopIs
<1>9. u \in Seq(Frames) /\ Over(u, stack) = stack
  BY <1>1, <1>5, OverItself
<1>10. Len(u) = 1 /\ u[1] = stack[1]
  OBVIOUS
<1>. HIDE DEF u
<1>11. \A k \in 1 .. Len(u) : Matched(u[k])
  <2>1. Matched(stack[1])
    BY <1>4, <1>8 DEF Progress, AllMatched
  <2>2. \A k \in 1 .. Len(u) : k = 1
    BY <1>10
  <2>. QED BY <1>10, <2>1, <2>2
<1>12. 1 \in 1 .. Len(u)
  BY <1>10
<1>13. stack' = Over(u, stack)
  BY <1>1, <1>9
<1>. QED BY <1>1, <1>3, <1>4, <1>7, <1>9, <1>10, <1>11, <1>12, <1>13, Progressing

(* Begin: everything is still to be copied.                                 *)
LEMMA BeginningOnTrack ==
  ASSUME CopyInv, NEW c \in Calls, Tree!Begin(c), OnTrack'
  PROVE  Progress'
<1>1. PICK path \in Paths, to \in Seq(Names) :
        /\ call' = [op |-> c.op, path |-> path, to |-> to, result |-> FALSE]
        /\ stack' = Tree!Frames(c.op, path, to)
        /\ tree = before /\ tree' = tree /\ before' = before
        /\ path \in Seq(Names) /\ path # << >>
  <2>1. TreeInv
    BY DEF CopyInv
  <2>. QED BY <2>1, BeginIs
<1>4. call'.op = "copy" /\ before[path].kind = "dir" /\ call'.path = path /\ call'.to = to
  BY <1>1 DEF OnTrack, PlainCopy, Plain
<1>. DEFINE m == Tree!Frame("create", to, << >>)
            x == Tree!Frame("copy", path, to)
<1>5. /\ x.op = "copy" /\ x.path = path /\ x.to = to /\ x.at = path
      /\ x.phase = "begin" /\ m.op = "create"
  BY DEF Tree!Frame
<1>6. stack' = << m, x >>
  BY <1>1, <1>4 DEF Tree!Frames
<1>. HIDE DEF m, x
<1>7. Len(stack') = 2 /\ stack'[1] = m /\ stack'[2] = x
  BY <1>6
<1>8. Moved(path, to, path) = to /\ PrefixOf(path, path)
  BY <1>1, MovedItself, PrefixSelf
<1>9. Matched(x)' /\ Matched(m)'
  <2>1. Tree!CopyOf(path)' = to
    BY <1>4, <1>8 DEF Tree!CopyOf, Moved
  <2>2. Tree!Kind(tree, path)' = "dir"
    BY <1>1, <1>4 DEF Tree!Kind
  <2>. QED BY <1>1, <1>4, <1>5, <1>8, <2>1, <2>2 DEF Matched
<1>10. AllMatched'
  <2>1. \A i \in 1 .. Len(stack') : Matched(stack[i])'
    BY <1>7, <1>9
  <2>. QED BY <2>1 DEF AllMatched
<1>11. SourceKept' /\ PlacesKept'
  BY <1>1 DEF SourceKept, PlacesKept, PlaceKept
<1>12. Owed'
  <2>1. 2 \in 1 .. Len(stack')
    BY <1>7
  <2>2. \A p \in Paths : Wanted(p)' => Owes(x, p)'
    BY <1>4, <1>5 DEF Wanted, Owes
  <2>3. \A p \in Paths : Wanted(p)' => \E i \in 1 .. Len(stack') : Owes(stack[i], p)'
    BY <1>7, <2>1, <2>2
  <2>. QED BY <2>3 DEF Owed
<1>. QED BY <1>10, <1>11, <1>12 DEF Progress

-----------------------------------------------------------------------------
(* Whatever happens, CopyInv stays.                                         *)
LEMMA CopyStays ==
  ASSUME CopyInv, [Next]_vars
  PROVE  CopyInv'
<1>1. TreeInv /\ Answered /\ Origin
  BY DEF CopyInv, TreeInv
<1>2. TreeInv' /\ Answered'
  BY <1>1, TreeStays, AnsweredStays
<1>3. CASE UNCHANGED treeVars
  <2>1. /\ os' = os /\ tree' = tree /\ call' = call /\ stack' = stack
        /\ before' = before /\ failures' = failures
    BY <1>3 DEF treeVars
  <2>2. SameCall
    BY <1>1, <2>1 DEF SameCall, TreeInv, WalkTypes
  <2>4. ASSUME OnTrack' PROVE Progress'
    <3>1. PlainCopy /\ Progress
      <4>1. PlainCopy
        BY <2>2, <2>4, SamePlain DEF OnTrack
      <4>2. OnTrack
        BY <2>1, <2>4, <4>1 DEF OnTrack
      <4>. QED BY <4>1, <4>2 DEF CopyInv
    <3>2. Undisturbed
      BY <1>1, <2>1, <2>2, <3>1, Untouched
    <3>3. /\ \A p : Tree!CopyOf(p)' = Tree!CopyOf(p)
          /\ \A p : Wanted(p)' <=> Wanted(p)
          /\ \A f, p : Owes(f, p)' <=> Owes(f, p)
      BY <2>2, SamePlain
    <3>4. Owed'
      <4>1. \A p : \A i \in 1 .. Len(stack) : Owes(stack[i], p)' <=> Owes(stack[i], p)
        BY <2>1, <3>3
      <4>. QED BY <2>1, <3>1, <3>3, <4>1 DEF Progress, Owed
    <3>5. AllMatched'
      <4>1. \A i \in 1 .. Len(stack) : stack[i] \in Frames
        BY <1>1, ElementOfSeq DEF TreeInv, WalkTypes
      <4>2. \A f \in Frames : Matched(f) => Matched(f)'
        BY <3>2 DEF Undisturbed
      <4>3. ASSUME NEW i \in 1 .. Len(stack) PROVE Matched(stack[i])'
        <5>1. stack[i] \in Frames /\ Matched(stack[i])
          BY <3>1, <4>1 DEF Progress, AllMatched
        <5>. QED BY <2>1, <4>2, <5>1
      <4>. QED BY <2>1, <4>3 DEF AllMatched
    <3>. QED BY <3>2, <3>4, <3>5 DEF Progress, Undisturbed
  <2>. QED BY <1>2, <2>4 DEF CopyInv
<1>4. CASE Tree!Next
  <2>2. ASSUME OnTrack' PROVE Progress'
    <3>1. CASE \E c \in Calls : Tree!Begin(c)
      BY <2>2, <3>1, BeginningOnTrack
    <3>2. CASE Tree!MakeDirectory
      BY <2>2, <3>2, MakingOnTrack
    <3>3. CASE Tree!ListToCopy
      BY <2>2, <3>3, ListingOnTrack
    <3>4. CASE Tree!CopyEntry
      BY <2>2, <3>4, CopyingOnTrack
    <3>5. CASE Tree!AllCopied
      BY <2>2, <3>5, CopiedOnTrack
    <3>6. CASE Tree!OtherMakesDirectory
      BY <2>2, <3>6, OthersOnTrack
    <3>7. CASE \/ Tree!ListToDelete \/ Tree!DeleteEntry \/ Tree!AllDeleted
               \/ Tree!RemoveDirectory
      <4>1. /\ stack # << >> /\ Tree!Top.op = "delete" /\ os' = os /\ before' = before
            /\ Tree!Return \/ Tree!Fail \/ call' = call
        BY <3>7 DEF Tree!ListToDelete, Tree!DeleteEntry, Tree!AllDeleted,
                    Tree!RemoveDirectory, Tree!In, Tree!Same, Tree!List, Tree!NotListed,
                    Tree!Going, Tree!Entering
      <4>2. call.op = "delete"
        BY <1>1, <4>1, DeleteFrame
      <4>3. SameCall
        BY <1>1, <4>1, CallStays DEF TreeInv
      <4>4. call.op = "copy"
        BY <2>2, <4>3, SamePlain DEF OnTrack, PlainCopy, Plain
      <4>. QED BY <4>2, <4>4
    <3>. QED BY <1>4, <3>1, <3>2, <3>3, <3>4, <3>5, <3>6, <3>7 DEF Tree!Next
  <2>. QED BY <1>2, <2>2 DEF CopyInv
<1>. QED BY <1>3, <1>4 DEF Next, Walk, Work, vars

(* In the beginning there is no call.                                       *)
LEMMA InitCopy ==
  ASSUME Init
  PROVE  CopyInv
<1>1. TreeInv
  BY InitTree
<1>2. Answered /\ ~OnTrack
  BY DEF Init, Tree!Init, Tree!None, Tree!Idle, Answered, OnTrack, PlainCopy, Plain
<1>. QED BY <1>1, <1>2 DEF CopyInv

(* True means done, for whatever is made, deleted, or copied plainly.       *)
LEMMA DoneWhenTrue ==
  ASSUME CopyInv, call.op = "copy" => Plain
  PROVE  TrueMeansDone
<1>1. SUFFICES ASSUME call.result, stack = << >> PROVE Tree!Made /\ Tree!Gone /\ Tree!Arrived
  BY DEF TrueMeansDone, Tree!TrueMeansDone
<1>2. TreeInv /\ Answered
  BY DEF CopyInv
<1>3. Tree!Made /\ Tree!Gone
  BY <1>1, <1>2 DEF Answered
<1>4. Tree!Arrived
  <2>1. SUFFICES ASSUME call.op = "copy", ~failures.misread, before[call.path].kind = "dir",
                        NEW p \in Tree!Below(call.path) \ {call.path},
                        before[p].kind # "none", Tree!Comparable(p, Tree!CopyOf(p))
                 PROVE  tree[IF before[p].kind = "link" THEN Tree!CopyOf(p)
                             ELSE Tree!Resolved(tree, Tree!CopyOf(p))] = before[p]
    BY DEF Tree!Arrived
  <2>2. PlainCopy
    BY <2>1 DEF PlainCopy
  <2>3. Progress
    BY <1>1, <2>1, <2>2 DEF CopyInv, OnTrack
  <2>4. p \in Paths /\ PrefixOf(call.path, p) /\ p # call.path
    BY DEF Tree!Below, PrefixOf
  <2>5. Wanted(p)
    BY <2>1, <2>4 DEF Wanted
  <2>6. before[p].kind # "link" /\ Tree!CopyOf(p) \in Paths
    BY <1>2, <2>1, <2>2, <2>4, PlainIs
  <2>7. tree[Tree!CopyOf(p)] = before[p]
    <3>1. \A i \in 1 .. Len(stack) : FALSE
      BY <1>1
    <3>. QED BY <2>3, <2>4, <2>5, <3>1 DEF Progress, Owed
  <2>8. Tree!Kind(tree, Tree!CopyOf(p)) # "link"
    BY <2>6, <2>7, TreeAssumption DEF Tree!Kind
  <2>. QED BY <2>6, <2>7, <2>8 DEF Tree!Resolved
<1>. QED BY <1>3, <1>4

(* A call that returned true has made its path, or has no directory left    *)
(* there, or has copied everything, unless something was not listed or      *)
(* read: always for making and deleting, and for copying a directory        *)
(* without links to another, neither in the other.                          *)
THEOREM TrueIsDone ==
  Spec => []((call.op = "copy" => Plain) => TrueMeansDone)
<1>1. Init => CopyInv
  BY InitCopy
<1>2. CopyInv /\ [Next]_vars => CopyInv'
  BY CopyStays
<1>3. CopyInv => ((call.op = "copy" => Plain) => TrueMeansDone)
  BY DoneWhenTrue
<1>. QED BY <1>1, <1>2, <1>3, PTL DEF Spec
=============================================================================
