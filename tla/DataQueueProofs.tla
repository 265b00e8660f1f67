--------------------------- MODULE DataQueueProofs ---------------------------
(***************************************************************************)
(* What holds of DataQueue for buffers and requests of any sizes: the loop *)
(* of Impl::Dequeue reads no element that is not there, totalBytes is the  *)
(* number of bytes left at each of its passes, and what a call returns and *)
(* leaves is what ByteQueue says.                                          *)
(*                                                                         *)
(* The invariant relates three sequences of bytes: what was in the queue   *)
(* when the call began, what it has taken of it so far, and what is ahead  *)
(* of it.  The second and the third together are the first (InCall), so    *)
(* that while bytes are wanted there is an element to take them from, and  *)
(* at the end the two are Front and Rest of ByteQueue.                     *)
(*                                                                         *)
(* FlattenSeq, which joins the elements, is defined by recursion over the  *)
(* queue.  What is needed of it is proved from its defining equations;     *)
(* that a solution of them exists, and only one, by the shortest sequence  *)
(* that has none.                                                          *)
(***************************************************************************)
EXTENDS DataQueue, SequenceTheorems, WellFoundedInduction, TLAPS

(* The bytes left in each of the elements.                                  *)
Units(e) == [i \in DOMAIN e |-> Unconsumed(e[i])]

(* The bytes the loop has not come to yet.                                  *)
Ahead == FlattenSeq(SubSeq(Units(elements), running.next, Len(elements)))

(* No more of an element is consumed than there is.                         *)
Elements ==
  \A i \in DOMAIN elements :
    Len(elements[i].data) <= MaxBytes /\ elements[i].consumed <= Len(elements[i].data)

(* The total is what is left of what was queued.                            *)
Counted == totalBytes = Len(Content) /\ totalBytes <= queued

(* Between two calls.                                                       *)
Waiting == ~running.busy => running = Idle /\ before = Content

(* What Dequeue(n), Peek(n) or Drop(n) has taken so far is a first part of  *)
(* what was in the queue, and what is ahead of the loop is the rest.        *)
CallFor(n) ==
  LET wanted == Smaller(n, Len(before))
      taken  == wanted - running.left
  IN  /\ running.left <= wanted
      /\ running.buffer = IF running.returnData THEN SubSeq(before, 1, taken) ELSE << >>
      /\ running.left > 0 \/ running.removeData =>
           Ahead = SubSeq(before, taken + 1, Len(before))

(* During a call.  Peek is the only one that comes to the second element:   *)
(* the others take the first away.                                          *)
InCall ==
  running.busy =>
    /\ running.returnData \/ running.removeData
    /\ running.removeData => running.next = 1
    /\ running.next \in 1 .. Len(elements) + 1
    /\ ~running.removeData => before = Content
    /\ \E n \in Requests : CallFor(n)

(* The invariant.                                                           *)
QueueInv == TypeOK /\ Elements /\ Counted /\ Waiting /\ InCall

-----------------------------------------------------------------------------
(* Concatenation, in a form the provers do not take apart.                  *)
Joined(s, u) == s \o u

(* The order in which sequences are joined does not matter.                 *)
LEMMA Regroup ==
  ASSUME NEW S, NEW s \in Seq(S), NEW u \in Seq(S), NEW v \in Seq(S)
  PROVE  Joined(Joined(s, u), v) = Joined(s, Joined(u, v))
BY SMTT(30), ConcatAssociative DEF Joined

(* What two sequences joined are, element by element.                       *)
LEMMA JoinedElements ==
  ASSUME NEW S, NEW s \in Seq(S), NEW u \in Seq(S)
  PROVE  /\ Joined(s, u) \in Seq(S) /\ Len(Joined(s, u)) = Len(s) + Len(u)
         /\ \A i \in 1 .. Len(s) + Len(u) :
              Joined(s, u)[i] = IF i <= Len(s) THEN s[i] ELSE u[i - Len(s)]
BY SMTT(30), ConcatProperties DEF Joined

(* FlattenSeq, which the community modules define by recursion.             *)

Follows(f, s, n) == \A i \in 2 .. n : f[i] = f[i-1] \o s[i]

(* What has been put together after each of the sequences.                  *)
Joins(f, s, S) ==
  /\ f \in [0 .. Len(s) -> Seq(S)]
  /\ f[0] = << >>
  /\ \A i \in 1 .. Len(s) : f[i] = f[i-1] \o s[i]

(* A set of numbers has a smallest one.                                     *)
LEMMA Smallest ==
  ASSUME NEW T \in SUBSET Nat, T # {}
  PROVE  \E x \in T : \A y \in T : x <= y
<1>1. PICK x \in T : \A y \in T : ~(<<y, x>> \in OpToRel(<, Nat))
  BY NatLessThanWellFounded, WFMin
<1>2. \A y \in T : ~(y < x)
  BY <1>1 DEF OpToRel
<1>3. ASSUME NEW y \in T PROVE x <= y
  <2>1. x \in Nat /\ y \in Nat /\ ~(y < x)
    BY <1>2
  <2>. QED BY <2>1
<1>. QED BY <1>3

(* The shortest sequence without joins would be one element longer than one *)
(* that has them.                                                           *)
LEMMA JoinsExist ==
  ASSUME NEW S, NEW s \in Seq(Seq(S))
  PROVE  \E f : Joins(f, s, S)
<1>. DEFINE P(n, f) == /\ f \in [0 .. n -> Seq(S)]
                       /\ f[0] = << >>
                       /\ \A i \in 1 .. n : f[i] = f[i-1] \o s[i]
            Bad == {n \in 0 .. Len(s) : ~ \E f : P(n, f)}
<1>0. Len(s) \in Nat /\ \A i \in 1 .. Len(s) : s[i] \in Seq(S)
  BY ElementOfSeq, LenProperties
<1>1. ASSUME Bad # {} PROVE FALSE
  <2>1. PICK n \in Bad : \A m \in Bad : n <= m
    <3>. HIDE DEF P
    <3>1. Bad \in SUBSET Nat
      BY <1>0
    <3>. QED BY <1>1, <3>1, Smallest
  <2>2. n \in 0 .. Len(s) /\ ~ \E f : P(n, f)
    OBVIOUS
  <2>3. CASE n = 0
    <3>. DEFINE f == [i \in 0 .. 0 |-> << >>]
    <3>1. << >> \in Seq(S)
      BY EmptySeq
    <3>2. f \in [0 .. 0 -> Seq(S)] /\ f[0] = << >>
      BY <3>1
    <3>3. 1 .. 0 = {}
      OBVIOUS
    <3>4. P(0, f)
      BY <3>2, <3>3
    <3>. QED BY <2>2, <2>3, <3>4
  <2>4. CASE n # 0
    <3>. HIDE DEF P
    <3>0. n \in Nat /\ n - 1 \in 0 .. Len(s) /\ ~(n <= n - 1)
      BY <1>0, <2>2, <2>4
    <3>1. n - 1 \notin Bad
      BY <2>1, <3>0
    <3>2. PICK f : P(n - 1, f)
      BY <3>0, <3>1
    <3>. USE DEF P
    <3>. DEFINE g == [i \in 0 .. n |-> IF i = n THEN f[n-1] \o s[n] ELSE f[i]]
    <3>3. n \in Nat /\ n > 0 /\ n \in 1 .. Len(s)
      BY <1>0, <2>2, <2>4
    <3>4. f[n-1] \in Seq(S) /\ s[n] \in Seq(S)
      BY <1>0, <3>2, <3>3
    <3>5. f[n-1] \o s[n] \in Seq(S)
      BY <3>4, ConcatProperties
    <3>6. \A i \in 0 .. n : i # n => i \in 0 .. n-1 /\ f[i] \in Seq(S)
      BY <3>2, <3>3
    <3>7. g \in [0 .. n -> Seq(S)]
      BY <3>5, <3>6
    <3>8. g[0] = << >>
      BY <3>2, <3>3
    <3>9. ASSUME NEW i \in 1 .. n PROVE g[i] = g[i-1] \o s[i]
      <4>1. i - 1 \in 0 .. n /\ i - 1 # n /\ i \in 0 .. n
        BY <3>3
      <4>2. CASE i = n
        BY <4>1, <4>2
      <4>3. CASE i # n
        <5>1. i \in 1 .. n-1
          BY <3>3, <4>3
        <5>. QED BY <3>2, <4>1, <4>3, <5>1
      <4>. QED BY <4>2, <4>3
    <3>10. P(n, g)
      BY <3>7, <3>8, <3>9
    <3>. QED BY <2>2, <3>10
  <2>. QED BY <2>3, <2>4
<1>2. \E f : P(Len(s), f)
  <2>. HIDE DEF P
  <2>1. Len(s) \in 0 .. Len(s)
    BY <1>0
  <2>. QED BY <1>1, <2>1
<1>. QED BY <1>2 DEF Joins

(* Two functions that join the same sequences in the same way are equal.    *)
LEMMA JoinsUnique ==
  ASSUME NEW s, NEW n \in Nat, n # 0, NEW f, NEW g,
         f[1] = g[1],
         Follows(f, s, n), Follows(g, s, n)
  PROVE  f[n] = g[n]
<1>. DEFINE Bad == {m \in 1 .. n : f[m] # g[m]}
<1>1. ASSUME Bad # {} PROVE FALSE
  <2>1. PICK m \in Bad : \A k \in Bad : m <= k
    <3>1. Bad \in SUBSET Nat
      OBVIOUS
    <3>. QED BY <1>1, <3>1, Smallest
  <2>0. m \in 1 .. n /\ m # 1
    OBVIOUS
  <2>2. m \in 2 .. n /\ m - 1 \in 1 .. n /\ ~(m <= m - 1)
    BY <2>0
  <2>5. m - 1 \notin Bad
    BY <2>1, <2>2
  <2>3. f[m-1] = g[m-1] /\ f[m] # g[m]
    BY <2>2, <2>5
  <2>4. f[m] = f[m-1] \o s[m] /\ g[m] = g[m-1] \o s[m]
    BY <2>2 DEF Follows
  <2>. QED BY <2>3, <2>4
<1>2. n \in 1 .. n
  OBVIOUS
<1>. QED BY <1>1, <1>2

(* FlattenSeq is what is there after the last sequence.                     *)
LEMMA FlattenJoins ==
  ASSUME NEW S, NEW s \in Seq(Seq(S)), NEW f, Joins(f, s, S)
  PROVE  FlattenSeq(s) = f[Len(s)]
<1>0. Len(s) \in Nat /\ \A i \in 1 .. Len(s) : s[i] \in Seq(S)
  BY ElementOfSeq, LenProperties
<1>1. CASE Len(s) = 0
  <2>1. s = << >>
    BY <1>1, EmptySeq
  <2>. QED BY <1>1, <2>1 DEF FlattenSeq, Joins
<1>2. CASE Len(s) # 0
  <2>. DEFINE Fix(h) == h = [i \in 1 .. Len(s) |-> IF i = 1 THEN s[i] ELSE h[i-1] \o s[i]]
              g == [i \in 1 .. Len(s) |-> f[i]]
              h == CHOOSE h : Fix(h)
  <2>1. 1 \in 1 .. Len(s) /\ 0 \in 0 .. Len(s)
    BY <1>0, <1>2
  <2>2. f[1] = s[1]
    <3>0. f[1] = f[1-1] \o s[1] /\ f[0] = << >>
      BY <2>1 DEF Joins
    <3>2. 1 - 1 = 0
      OBVIOUS
    <3>1. f[1] = f[0] \o s[1] /\ f[0] = << >> /\ s[1] \in Seq(S)
      BY <1>0, <2>1, <3>0, <3>2
    <3>3. << >> \o s[1] = s[1]
      BY <3>1, ConcatEmptySeq
    <3>. QED BY <3>1, <3>3
  <2>3. \A i \in 1 .. Len(s) : g[i] = IF i = 1 THEN s[i] ELSE g[i-1] \o s[i]
    <3>1. ASSUME NEW i \in 1 .. Len(s), i # 1 PROVE g[i] = g[i-1] \o s[i]
      <4>1. i - 1 \in 1 .. Len(s)
        BY <1>0, <3>1
      <4>2. f[i] = f[i-1] \o s[i]
        BY DEF Joins
      <4>. QED BY <3>1, <4>1, <4>2
    <3>2. g[1] = s[1]
      BY <2>1, <2>2
    <3>. QED BY <3>1, <3>2
  <2>4. Fix(g)
    BY <2>3
  <2>5. Fix(h)
    <3>. HIDE DEF Fix, g
    <3>. QED BY <2>4
  <2>6. \A i \in 1 .. Len(s) : h[i] = IF i = 1 THEN s[i] ELSE h[i-1] \o s[i]
    <3>. HIDE DEF h
    <3>. QED BY <2>5
  <2>7. FlattenSeq(s) = h[Len(s)]
    BY <1>2 DEF FlattenSeq
  <2>. HIDE DEF h, g
  <2>8. h[1] = g[1]
    BY <2>1, <2>3, <2>6
  <2>9. Follows(h, s, Len(s)) /\ Follows(g, s, Len(s))
    <3>1. ASSUME NEW i \in 2 .. Len(s) PROVE i \in 1 .. Len(s) /\ i # 1
      BY <1>0
    <3>. QED BY <2>3, <2>6, <3>1 DEF Follows
  <2>10. Len(s) \in 1 .. Len(s)
    BY <1>0, <1>2
  <2>12. h[Len(s)] = g[Len(s)]
    BY <1>0, <1>2, <2>8, <2>9, JoinsUnique
  <2>. QED BY <2>7, <2>10, <2>12 DEF g
<1>. QED BY <1>1, <1>2

(* Flattening makes one sequence, of nothing if there is nothing.           *)
LEMMA FlattenType ==
  ASSUME NEW S, NEW s \in Seq(Seq(S))
  PROVE  /\ FlattenSeq(s) \in Seq(S)
         /\ s = << >> => FlattenSeq(s) = << >>
<1>1. PICK f : Joins(f, s, S)
  BY JoinsExist
<1>2. FlattenSeq(s) = f[Len(s)]
  BY <1>1, FlattenJoins
<1>3. Len(s) \in 0 .. Len(s)
  BY LenProperties
<1>4. s = << >> => Len(s) = 0
  BY EmptySeq
<1>. QED BY <1>1, <1>2, <1>3, <1>4 DEF Joins

(* A sequence added at the end ...                                          *)
LEMMA FlattenAppend ==
  ASSUME NEW S, NEW s \in Seq(Seq(S)), NEW x \in Seq(S)
  PROVE  FlattenSeq(Append(s, x)) = FlattenSeq(s) \o x
<1>. DEFINE t == Append(s, x)
<1>1. /\ t \in Seq(Seq(S)) /\ Len(t) = Len(s) + 1 /\ Len(s) \in Nat
      /\ \A i \in 1 .. Len(s) : t[i] = s[i]
      /\ t[Len(s) + 1] = x
  BY AppendProperties, LenProperties
<1>. HIDE DEF t
<1>2. PICK g : Joins(g, t, S)
  BY <1>1, JoinsExist
<1>. DEFINE f == [i \in 0 .. Len(s) |-> g[i]]
<1>3. \A i \in 0 .. Len(s) : i \in 0 .. Len(t)
  BY <1>1
<1>4. \A i \in 1 .. Len(s) : i \in 1 .. Len(t) /\ i \in 0 .. Len(s) /\ i - 1 \in 0 .. Len(s)
  BY <1>1
<1>5. f \in [0 .. Len(s) -> Seq(S)]
  BY <1>2, <1>3 DEF Joins
<1>6. f[0] = << >>
  BY <1>1, <1>2 DEF Joins
<1>7. ASSUME NEW i \in 1 .. Len(s) PROVE f[i] = f[i-1] \o s[i]
  <2>1. g[i] = g[i-1] \o t[i]
    BY <1>2, <1>4 DEF Joins
  <2>2. f[i] = g[i] /\ f[i-1] = g[i-1] /\ t[i] = s[i]
    BY <1>1, <1>4
  <2>. QED BY <2>1, <2>2
<1>8. Joins(f, s, S)
  <2>. HIDE DEF f
  <2>. QED BY <1>5, <1>6, <1>7 DEF Joins
<1>9. FlattenSeq(s) = f[Len(s)] /\ f[Len(s)] = g[Len(s)]
  <2>1. FlattenSeq(s) = f[Len(s)]
    <3>. HIDE DEF f
    <3>. QED BY <1>8, FlattenJoins
  <2>2. Len(s) \in 0 .. Len(s)
    BY <1>1
  <2>. QED BY <2>1, <2>2
<1>10. FlattenSeq(t) = g[Len(t)]
  BY <1>1, <1>2, FlattenJoins
<1>11. g[Len(s) + 1] = g[Len(s)] \o x
  <2>1. Len(s) + 1 \in 1 .. Len(t) /\ (Len(s) + 1) - 1 = Len(s)
    BY <1>1
  <2>2. g[Len(s) + 1] = g[(Len(s) + 1) - 1] \o t[Len(s) + 1]
    BY <1>2, <2>1 DEF Joins
  <2>. QED BY <1>1, <2>1, <2>2
<1>. QED BY <1>1, <1>9, <1>10, <1>11 DEF t

(* ... and the first one taken away.                                        *)
LEMMA FlattenHead ==
  ASSUME NEW S, NEW s \in Seq(Seq(S)), s # << >>
  PROVE  FlattenSeq(s) = s[1] \o FlattenSeq(Tail(s))
<1>. DEFINE t == Tail(s)
<1>1. /\ t \in Seq(Seq(S)) /\ Len(t) = Len(s) - 1
      /\ \A i \in 1 .. Len(t) : t[i] = s[i+1]
  BY HeadTailProperties
<1>2. Len(s) \in Nat /\ Len(s) # 0 /\ \A i \in 1 .. Len(s) : s[i] \in Seq(S)
  BY EmptySeq, LenProperties, ElementOfSeq
<1>. HIDE DEF t
<1>3. PICK f : Joins(f, t, S)
  BY <1>1, JoinsExist
<1>. DEFINE g == [i \in 0 .. Len(s) |-> IF i = 0 THEN << >> ELSE s[1] \o f[i-1]]
<1>4. s[1] \in Seq(S) /\ << >> \in Seq(S)
  BY <1>2, EmptySeq
<1>5. \A i \in 1 .. Len(s) : f[i-1] \in Seq(S) /\ s[1] \o f[i-1] \in Seq(S)
  <2>1. ASSUME NEW i \in 1 .. Len(s) PROVE f[i-1] \in Seq(S)
    <3>1. i - 1 \in 0 .. Len(t)
      BY <1>1, <1>2
    <3>. QED BY <1>3, <3>1 DEF Joins
  <2>. QED BY <1>4, <2>1, ConcatProperties
<1>6. g \in [0 .. Len(s) -> Seq(S)] /\ g[0] = << >>
  <2>1. \A i \in 0 .. Len(s) : i = 0 \/ i \in 1 .. Len(s)
    BY <1>2
  <2>2. 0 \in 0 .. Len(s)
    BY <1>2
  <2>. QED BY <1>4, <1>5, <2>1, <2>2
<1>7. ASSUME NEW i \in 1 .. Len(s) PROVE g[i] = g[i-1] \o s[i]
  <2>0. i \in 0 .. Len(s) /\ i - 1 \in 0 .. Len(s) /\ i # 0 /\ s[i] \in Seq(S)
    BY <1>2
  <2>1. CASE i = 1
    <3>0. i - 1 = 0 /\ 0 \in 0 .. Len(s)
      BY <1>2, <2>1
    <3>1. g[i] = s[1] \o f[0] /\ g[0] = << >>
      BY <2>0, <3>0
    <3>2. f[0] = << >>
      BY <1>3 DEF Joins
    <3>3. s[1] \o << >> = s[1] /\ << >> \o s[1] = s[1]
      BY <1>4, ConcatEmptySeq
    <3>. QED BY <2>1, <3>0, <3>1, <3>2, <3>3
  <2>2. CASE i # 1
    <3>1. i - 1 \in 1 .. Len(t) /\ i - 1 # 0 /\ i - 1 \in 1 .. Len(s) /\ (i - 1) + 1 = i
      BY <1>1, <1>2, <2>2
    <3>2. g[i] = s[1] \o f[i-1] /\ g[i-1] = s[1] \o f[(i-1)-1]
      BY <2>0, <3>1
    <3>3. f[i-1] = f[(i-1)-1] \o t[i-1]
      BY <1>3, <3>1 DEF Joins
    <3>4. t[i-1] = s[i]
      BY <1>1, <3>1
    <3>5. f[(i-1)-1] \in Seq(S)
      BY <1>5, <3>1
    <3>6. (s[1] \o f[(i-1)-1]) \o s[i] = s[1] \o (f[(i-1)-1] \o s[i])
      <4>. DEFINE a == s[1]
                  b == f[(i-1)-1]
                  c == s[i]
      <4>1. a \in Seq(S) /\ b \in Seq(S) /\ c \in Seq(S)
        BY <1>4, <2>0, <3>5
      <4>. HIDE DEF a, b, c
      <4>2. Joined(Joined(a, b), c) = Joined(a, Joined(b, c))
        BY <4>1, Regroup
      <4>. QED BY <4>2 DEF a, b, c, Joined
    <3>. QED BY <3>2, <3>3, <3>4, <3>6
  <2>. QED BY <2>1, <2>2
<1>8. FlattenSeq(s) = g[Len(s)]
  <2>1. Joins(g, s, S)
    <3>. HIDE DEF g
    <3>. QED BY <1>6, <1>7 DEF Joins
  <2>. HIDE DEF g
  <2>. QED BY <2>1, FlattenJoins
<1>9. FlattenSeq(t) = f[Len(t)]
  BY <1>1, <1>3, FlattenJoins
<1>10. g[Len(s)] = s[1] \o f[Len(s) - 1]
  <2>1. Len(s) \in 0 .. Len(s)
    BY <1>2
  <2>. QED BY <1>2, <2>1
<1>. QED BY <1>1, <1>8, <1>9, <1>10 DEF t

(* Flattening from some element on.                                         *)
LEMMA FlattenFrom ==
  ASSUME NEW S, NEW s \in Seq(Seq(S)), NEW i \in 1 .. Len(s)
  PROVE  FlattenSeq(SubSeq(s, i, Len(s))) = s[i] \o FlattenSeq(SubSeq(s, i + 1, Len(s)))
<1>. DEFINE t == SubSeq(s, i, Len(s))
<1>1. Len(s) \in Nat /\ Len(s) \in i .. Len(s)
  BY LenProperties
<1>2. Head(t) = s[i] /\ Tail(t) = SubSeq(s, i + 1, Len(s))
  BY <1>1, HeadTailOfSubSeq
<1>3. t \in Seq(Seq(S)) /\ Len(t) = Len(s) - i + 1
  <2>1. \A j \in i .. Len(s) : s[j] \in Seq(S)
    BY ElementOfSeq
  <2>2. i \in Int /\ Len(s) \in Int /\ i <= Len(s)
    BY <1>1
  <2>. QED BY <2>1, <2>2, SubSeqProperties
<1>. HIDE DEF t
<1>4. t # << >>
  <2>1. Len(t) # 0
    BY <1>1, <1>3
  <2>. QED BY <2>1, EmptySeq
<1>5. FlattenSeq(t) = t[1] \o FlattenSeq(Tail(t))
  BY <1>3, <1>4, FlattenHead
<1>6. t[1] = Head(t)
  BY <1>3, <1>4
<1>. QED BY <1>2, <1>5, <1>6 DEF t

(* What comes after the first k of the elements of c begins with u: then    *)
(* the first b elements of u are the next ones of c.                        *)
LEMMA Split ==
  ASSUME NEW S, NEW c \in Seq(S), NEW u \in Seq(S), NEW rest \in Seq(S),
         NEW k \in 0 .. Len(c), NEW b \in 0 .. Len(u),
         SubSeq(c, k + 1, Len(c)) = Joined(u, rest)
  PROVE  /\ k + b \in 0 .. Len(c)
         /\ Joined(SubSeq(c, 1, k), SubSeq(u, 1, b)) = SubSeq(c, 1, k + b)
         /\ SubSeq(c, k + b + 1, Len(c)) = Joined(SubSeq(u, b + 1, Len(u)), rest)
         /\ Len(c) - k = Len(u) + Len(rest)
<1>. DEFINE v == SubSeq(c, k + 1, Len(c))
            x == SubSeq(c, 1, k)
            y == SubSeq(u, 1, b)
            z == SubSeq(u, b + 1, Len(u))
            l == SubSeq(c, 1, k + b)
            r == SubSeq(c, k + b + 1, Len(c))
<1>1. Len(c) \in Nat /\ Len(u) \in Nat /\ Len(rest) \in Nat /\ k \in Nat /\ b \in Nat
      /\ k <= Len(c) /\ b <= Len(u)
  BY LenProperties
<1>2. /\ \A i \in 1 .. Len(c) : c[i] \in S
      /\ \A i \in 1 .. Len(u) : u[i] \in S
  BY ElementOfSeq
<1>3. /\ v \in Seq(S) /\ Len(v) = Len(c) - k
      /\ \A i \in 1 .. Len(c) - k : v[i] = c[k + i]
  <2>1. \A i \in k + 1 .. Len(c) : c[i] \in S
    BY <1>1, <1>2
  <2>. QED BY <1>1, <2>1, SubSeqProperties
<1>4. /\ Len(v) = Len(u) + Len(rest)
      /\ \A i \in 1 .. Len(u) + Len(rest) :
           v[i] = IF i <= Len(u) THEN u[i] ELSE rest[i - Len(u)]
  BY ConcatProperties DEF Joined
<1>14. Len(c) - k = Len(u) + Len(rest)
  <2>1. Len(v) = Len(c) - k
    BY <1>3
  <2>2. Len(v) = Len(u) + Len(rest)
    BY <1>4
  <2>. QED BY ONLY <2>1, <2>2
<1>5. /\ x \in Seq(S) /\ Len(x) = k
      /\ \A i \in 1 .. k : x[i] = c[i]
  <2>1. \A i \in 1 .. k : c[i] \in S
    BY <1>1, <1>2
  <2>. QED BY <1>1, <2>1, SubSeqProperties
<1>6. /\ y \in Seq(S) /\ Len(y) = b
      /\ \A i \in 1 .. b : y[i] = u[i]
  <2>1. \A i \in 1 .. b : u[i] \in S
    BY <1>1, <1>2
  <2>. QED BY <1>1, <2>1, SubSeqProperties
<1>7. /\ z \in Seq(S) /\ Len(z) = Len(u) - b
      /\ \A i \in 1 .. Len(u) - b : z[i] = u[b + i]
  <2>1. \A i \in b + 1 .. Len(u) : u[i] \in S
    BY <1>1, <1>2
  <2>. QED BY <1>1, <2>1, SubSeqProperties
<1>8. k + b <= Len(c)
  BY <1>1, <1>3, <1>4
<1>9. /\ l \in Seq(S) /\ Len(l) = k + b
      /\ \A i \in 1 .. k + b : l[i] = c[i]
  <2>1. \A i \in 1 .. k + b : c[i] \in S
    BY <1>1, <1>2, <1>8
  <2>. QED BY <1>1, <2>1, SubSeqProperties
<1>10. /\ r \in Seq(S) /\ Len(r) = Len(c) - k - b
       /\ \A i \in 1 .. Len(c) - k - b : r[i] = c[k + b + i]
  <2>1. \A i \in k + b + 1 .. Len(c) : c[i] \in S
    BY <1>1, <1>2
  <2>. QED BY <1>1, <1>8, <2>1, SubSeqProperties
<1>. HIDE DEF v, x, y, z, l, r
<1>11. x \o y = l
  <2>1. /\ x \o y \in Seq(S) /\ Len(x \o y) = k + b
        /\ \A i \in 1 .. k + b : (x \o y)[i] = IF i <= k THEN x[i] ELSE y[i - k]
    <3>1. x \in Seq(S) /\ y \in Seq(S) /\ Len(x) = k /\ Len(y) = b
      BY <1>5, <1>6
    <3>2. /\ Joined(x, y) \in Seq(S) /\ Len(Joined(x, y)) = Len(x) + Len(y)
          /\ \A i \in 1 .. Len(x) + Len(y) :
               Joined(x, y)[i] = IF i <= Len(x) THEN x[i] ELSE y[i - Len(x)]
      BY ONLY <3>1, JoinedElements, ZenonT(30)
    <3>3. /\ Joined(x, y) \in Seq(S) /\ Len(Joined(x, y)) = k + b
          /\ \A i \in 1 .. k + b :
               Joined(x, y)[i] = IF i <= k THEN x[i] ELSE y[i - k]
      <4>. DEFINE j == Joined(x, y)
      <4>1. /\ j \in Seq(S) /\ Len(j) = Len(x) + Len(y)
            /\ \A i \in 1 .. Len(x) + Len(y) : j[i] = IF i <= Len(x) THEN x[i] ELSE y[i - Len(x)]
        BY <3>2
      <4>. HIDE DEF j
      <4>2. Len(j) = k + b
        BY ONLY <3>1, <4>1
      <4>3. \A i \in 1 .. k + b : j[i] = IF i <= k THEN x[i] ELSE y[i - k]
        BY ONLY <3>1, <4>1, Zenon
      <4>. QED BY <4>1, <4>2, <4>3 DEF j
    <3>4. Joined(x, y) = x \o y
      BY DEF Joined
    <3>. QED BY ONLY <3>3, <3>4, Zenon
  <2>2. ASSUME NEW i \in 1 .. k + b
        PROVE  (IF i <= k THEN x[i] ELSE y[i - k]) = l[i]
    <3>1. CASE i <= k
      <4>1. i \in 1 .. k
        BY <1>1, <3>1
      <4>2. x[i] = c[i] /\ l[i] = c[i]
        BY ONLY <1>5, <1>9, <4>1, i \in 1 .. k + b
      <4>. QED BY <3>1, <4>2
    <3>2. CASE ~(i <= k)
      <4>1. i - k \in 1 .. b /\ i - k \in 1 .. Len(c) - k /\ k + (i - k) = i
            /\ i - k <= Len(u) /\ i - k \in 1 .. Len(u) + Len(rest)
        BY <1>1, <1>3, <1>4, <3>2
      <4>2. y[i - k] = u[i - k]
        BY <1>6, <4>1
      <4>3. v[i - k] = u[i - k]
        BY <1>4, <4>1
      <4>4. v[i - k] = c[k + (i - k)]
        BY <1>3, <4>1
      <4>5. l[i] = c[i]
        BY <1>9
      <4>. QED BY <3>2, <4>1, <4>2, <4>3, <4>4, <4>5
    <3>. QED BY <3>1, <3>2
  <2>3. \A i \in 1 .. Len(x \o y) : (x \o y)[i] = l[i]
    BY <2>1, <2>2
  <2>. QED BY <1>9, <2>1, <2>3, SeqEqual
<1>12. r = z \o rest
  <2>1. /\ z \o rest \in Seq(S) /\ Len(z \o rest) = Len(c) - k - b
        /\ \A i \in 1 .. Len(c) - k - b :
             (z \o rest)[i] = IF i <= Len(u) - b THEN z[i] ELSE rest[i - (Len(u) - b)]
    <3>1. Len(z) = Len(u) - b /\ z \in Seq(S)
      BY <1>7
    <3>2. Len(z) + Len(rest) = Len(c) - k - b
      BY <1>1, <1>14, <3>1
    <3>3. /\ z \o rest \in Seq(S) /\ Len(z \o rest) = Len(z) + Len(rest)
          /\ \A i \in 1 .. Len(z) + Len(rest) :
               (z \o rest)[i] = IF i <= Len(z) THEN z[i] ELSE rest[i - Len(z)]
      BY <3>1, ConcatProperties
    <3>. QED BY <3>1, <3>2, <3>3
  <2>2. ASSUME NEW i \in 1 .. Len(c) - k - b
        PROVE  r[i] = IF i <= Len(u) - b THEN z[i] ELSE rest[i - (Len(u) - b)]
    <3>1. b + i \in 1 .. Len(c) - k /\ b + i \in 1 .. Len(u) + Len(rest)
          /\ k + (b + i) = k + b + i /\ (b + i) - Len(u) = i - (Len(u) - b)
      BY <1>1, <1>3, <1>4
    <3>2. r[i] = c[k + (b + i)]
      BY <1>10, <3>1
    <3>3. v[b + i] = c[k + (b + i)]
      BY <1>3, <3>1
    <3>4. v[b + i] = IF b + i <= Len(u) THEN u[b + i] ELSE rest[(b + i) - Len(u)]
      BY <1>4, <3>1
    <3>5. CASE i <= Len(u) - b
      <4>1. b + i <= Len(u) /\ i \in 1 .. Len(u) - b
        BY <1>1, <3>5
      <4>2. z[i] = u[b + i]
        BY <1>7, <4>1
      <4>. QED BY <3>2, <3>3, <3>4, <3>5, <4>1, <4>2
    <3>6. CASE ~(i <= Len(u) - b)
      <4>1. ~(b + i <= Len(u))
        BY <1>1, <3>6
      <4>. QED BY <3>1, <3>2, <3>3, <3>4, <3>6, <4>1
    <3>. QED BY <3>5, <3>6
  <2>3. Len(r) = Len(z \o rest) /\ \A i \in 1 .. Len(r) : r[i] = (z \o rest)[i]
    BY <1>10, <2>1, <2>2
  <2>. QED BY <1>10, <2>1, <2>3, SeqEqual
<1>13. k + b \in 0 .. Len(c)
  BY <1>1, <1>8
<1>. QED BY <1>11, <1>12, <1>13, <1>14 DEF x, y, z, l, r, Joined

-----------------------------------------------------------------------------
(* Elements.                                                                *)
Byte == 1 .. MaxBytes
ElementStates == [data : Seq(Byte), consumed : 0 .. MaxBytes]

(* The bound is a number.                                                   *)
LEMMA SomeBytes == MaxBytes \in Nat
BY DataQueueAssumption

(* What is left of an element.                                              *)
LEMMA UnconsumedType ==
  ASSUME NEW d \in Seq(Byte), NEW m \in 0 .. Len(d)
  PROVE  /\ SubSeq(d, m + 1, Len(d)) \in Seq(Byte)
         /\ Len(SubSeq(d, m + 1, Len(d))) = Len(d) - m
<1>1. Len(d) \in Nat /\ m \in Nat /\ m <= Len(d)
  BY LenProperties
<1>2. \A i \in m + 1 .. Len(d) : d[i] \in Byte
  <2>1. \A i \in m + 1 .. Len(d) : i \in 1 .. Len(d)
    BY <1>1
  <2>. QED BY <2>1, ElementOfSeq
<1>. QED BY <1>1, <1>2, SubSeqProperties

(* What is left of all of them.                                             *)
LEMMA UnitsType ==
  ASSUME NEW e \in Seq(ElementStates),
         \A i \in 1 .. Len(e) : e[i].consumed <= Len(e[i].data)
  PROVE  /\ Units(e) \in Seq(Seq(Byte))
         /\ Len(Units(e)) = Len(e)
         /\ \A i \in 1 .. Len(e) :
              /\ Units(e)[i] = Unconsumed(e[i])
              /\ Unconsumed(e[i]) \in Seq(Byte)
              /\ Len(Unconsumed(e[i])) = Len(e[i].data) - e[i].consumed
<1>1. Len(e) \in Nat /\ DOMAIN e = 1 .. Len(e)
  BY LenProperties
<1>2. ASSUME NEW i \in 1 .. Len(e)
      PROVE  /\ Unconsumed(e[i]) \in Seq(Byte)
             /\ Len(Unconsumed(e[i])) = Len(e[i].data) - e[i].consumed
  <2>1. e[i] \in ElementStates
    BY ElementOfSeq
  <2>2. e[i].data \in Seq(Byte) /\ e[i].consumed \in 0 .. MaxBytes
    BY <2>1 DEF ElementStates
  <2>3. e[i].consumed \in 0 .. Len(e[i].data)
    BY <2>2, SomeBytes, LenProperties
  <2>. QED BY <2>2, <2>3, UnconsumedType DEF Unconsumed
<1>3. Units(e) = [i \in 1 .. Len(e) |-> Unconsumed(e[i])]
  BY <1>1 DEF Units
<1>4. Units(e) \in [1 .. Len(e) -> Seq(Byte)]
  BY <1>2, <1>3
<1>5. Units(e) \in Seq(Seq(Byte)) /\ Len(Units(e)) = Len(e)
  BY <1>1, <1>3, <1>4, SeqDef
<1>6. \A i \in 1 .. Len(e) : Units(e)[i] = Unconsumed(e[i])
  BY <1>3
<1>. QED BY <1>2, <1>5, <1>6

(* A new element.                                                           *)
LEMMA UnitsAppend ==
  ASSUME NEW e \in Seq(ElementStates),
         \A i \in 1 .. Len(e) : e[i].consumed <= Len(e[i].data),
         NEW d \in Seq(Byte)
  PROVE  Units(Append(e, [data |-> d, consumed |-> 0])) = Append(Units(e), d)
<1>. DEFINE x == [data |-> d, consumed |-> 0]
            f == Append(e, x)
<1>1. x \in ElementStates /\ Len(e) \in Nat /\ Len(d) \in Nat
  BY SomeBytes, LenProperties DEF ElementStates
<1>2. Unconsumed(x) = d
  <2>1. SubSeq(d, 1, Len(d)) = d
    BY SubSeqFull
  <2>. QED BY <2>1 DEF Unconsumed
<1>3. x.consumed <= Len(x.data)
  BY <1>1
<1>. HIDE DEF x
<1>4. /\ f \in Seq(ElementStates) /\ Len(f) = Len(e) + 1
      /\ \A i \in 1 .. Len(e) : f[i] = e[i]
      /\ f[Len(e) + 1] = x
  BY <1>1, AppendProperties
<1>. HIDE DEF f
<1>5. \A i \in 1 .. Len(f) : i \in 1 .. Len(e) \/ i = Len(e) + 1
  BY <1>1, <1>4
<1>6. \A i \in 1 .. Len(f) : f[i].consumed <= Len(f[i].data)
  BY <1>3, <1>4, <1>5
<1>7. /\ Units(f) \in Seq(Seq(Byte)) /\ Len(Units(f)) = Len(f)
      /\ \A i \in 1 .. Len(f) : Units(f)[i] = Unconsumed(f[i])
  BY <1>4, <1>6, UnitsType
<1>8. /\ Units(e) \in Seq(Seq(Byte)) /\ Len(Units(e)) = Len(e)
      /\ \A i \in 1 .. Len(e) : Units(e)[i] = Unconsumed(e[i])
  BY UnitsType
<1>9. /\ Append(Units(e), d) \in Seq(Seq(Byte))
      /\ Len(Append(Units(e), d)) = Len(e) + 1
      /\ \A i \in 1 .. Len(e) : Append(Units(e), d)[i] = Units(e)[i]
      /\ Append(Units(e), d)[Len(e) + 1] = d
  BY <1>8, AppendProperties
<1>10. ASSUME NEW i \in 1 .. Len(f) PROVE Units(f)[i] = Append(Units(e), d)[i]
  BY <1>2, <1>4, <1>5, <1>7, <1>8, <1>9
<1>11. Len(Units(f)) = Len(Append(Units(e), d))
  BY <1>4, <1>7, <1>9
<1>12. \A i \in 1 .. Len(Units(f)) : Units(f)[i] = Append(Units(e), d)[i]
  BY <1>7, <1>10
<1>13. Units(f) = Append(Units(e), d)
  BY <1>7, <1>9, <1>11, <1>12, SeqEqual
<1>. QED BY <1>13 DEF f, x

(* An element erased.                                                       *)
LEMMA UnitsTail ==
  ASSUME NEW e \in Seq(ElementStates), e # << >>,
         \A i \in 1 .. Len(e) : e[i].consumed <= Len(e[i].data)
  PROVE  /\ RemoveAt(e, 1) = Tail(e)
         /\ Tail(e) \in Seq(ElementStates) /\ Len(Tail(e)) = Len(e) - 1
         /\ \A i \in 1 .. Len(Tail(e)) : Tail(e)[i] = e[i + 1] /\ i + 1 \in 1 .. Len(e)
         /\ Units(Tail(e)) = SubSeq(Units(e), 2, Len(e))
<1>1. Len(e) \in Nat /\ Len(e) # 0
  BY EmptySeq, LenProperties
<1>2. /\ Tail(e) \in Seq(ElementStates) /\ Len(Tail(e)) = Len(e) - 1
      /\ \A i \in 1 .. Len(Tail(e)) : Tail(e)[i] = e[i + 1]
  BY HeadTailProperties
<1>3. \A i \in 1 .. Len(Tail(e)) : i + 1 \in 1 .. Len(e)
  BY <1>1, <1>2
<1>4. RemoveAt(e, 1) = Tail(e)
  <2>1. SubSeq(e, 1, 1 - 1) = << >>
    BY SubSeqEmpty
  <2>2. SubSeq(e, 1 + 1, Len(e)) = Tail(e)
    BY TailIsSubSeq
  <2>3. << >> \o Tail(e) = Tail(e)
    BY <1>2, ConcatEmptySeq
  <2>. QED BY <2>1, <2>2, <2>3 DEF RemoveAt
<1>. DEFINE t == Tail(e)
<1>. HIDE DEF t
<1>5. t \in Seq(ElementStates) /\ \A i \in 1 .. Len(t) : t[i].consumed <= Len(t[i].data)
  BY <1>2, <1>3 DEF t
<1>6. /\ Units(t) \in Seq(Seq(Byte)) /\ Len(Units(t)) = Len(t)
      /\ \A i \in 1 .. Len(t) : Units(t)[i] = Unconsumed(t[i])
  BY <1>5, UnitsType
<1>7. /\ Units(e) \in Seq(Seq(Byte)) /\ Len(Units(e)) = Len(e)
      /\ \A i \in 1 .. Len(e) : Units(e)[i] = Unconsumed(e[i])
  BY UnitsType
<1>8. /\ SubSeq(Units(e), 2, Len(e)) \in Seq(Seq(Byte))
      /\ Len(SubSeq(Units(e), 2, Len(e))) = Len(e) - 1
      /\ \A i \in 1 .. Len(e) - 1 : SubSeq(Units(e), 2, Len(e))[i] = Units(e)[i + 1]
  <2>1. \A i \in 2 .. Len(e) : Units(e)[i] \in Seq(Byte)
    BY <1>1, <1>7, ElementOfSeq
  <2>2. /\ SubSeq(Units(e), 2, Len(e)) \in Seq(Seq(Byte))
        /\ Len(SubSeq(Units(e), 2, Len(e))) = IF 2 <= Len(e) THEN Len(e) - 2 + 1 ELSE 0
        /\ \A i \in 1 .. Len(e) - 2 + 1 : SubSeq(Units(e), 2, Len(e))[i] = Units(e)[2 + i - 1]
    BY <1>1, <2>1, SubSeqProperties
  <2>3. Len(e) - 2 + 1 = Len(e) - 1 /\ \A i \in 1 .. Len(e) - 1 : 2 + i - 1 = i + 1
    BY <1>1
  <2>4. (IF 2 <= Len(e) THEN Len(e) - 2 + 1 ELSE 0) = Len(e) - 1
    <3>1. CASE Len(e) = 1
      BY <3>1
    <3>2. CASE Len(e) # 1
      <4>0. PICK n \in Nat : n = Len(e)
        BY <1>1
      <4>1. 2 <= n
        BY <1>1, <3>2, <4>0
      <4>. QED BY <4>0, <4>1
    <3>. QED BY <3>1, <3>2
  <2>. QED BY <2>2, <2>3, <2>4
<1>9. \A i \in 1 .. Len(e) - 1 : Units(t)[i] = SubSeq(Units(e), 2, Len(e))[i]
  <2>1. ASSUME NEW i \in 1 .. Len(e) - 1
        PROVE  Units(t)[i] = SubSeq(Units(e), 2, Len(e))[i]
    <3>1. i \in 1 .. Len(t) /\ t[i] = e[i + 1] /\ i + 1 \in 1 .. Len(e)
      BY <1>2, <1>3 DEF t
    <3>. QED BY <1>6, <1>7, <1>8, <3>1
  <2>. QED BY <2>1
<1>10. Units(t) = SubSeq(Units(e), 2, Len(e))
  <2>1. Len(Units(t)) = Len(e) - 1
    BY <1>2, <1>6 DEF t
  <2>. QED BY <1>6, <1>8, <1>9, <2>1, SeqEqual
<1>. QED BY <1>2, <1>3, <1>4, <1>10 DEF t

(* Bytes of the first element consumed.                                     *)
Advanced(e, b) == [e EXCEPT ![1].consumed = @ + b]

(* They are the first ones of what it had left; no other element changes.   *)
LEMMA UnitsConsumed ==
  ASSUME NEW e \in Seq(ElementStates), e # << >>,
         \A i \in 1 .. Len(e) : e[i].consumed <= Len(e[i].data),
         NEW b \in Nat, e[1].consumed + b <= Len(e[1].data),
         Len(e[1].data) <= MaxBytes,
         NEW f, f = Advanced(e, b)
  PROVE  /\ f \in Seq(ElementStates) /\ Len(f) = Len(e)
         /\ \A i \in 1 .. Len(f) :
              f[i].data = e[i].data /\ f[i].consumed <= Len(f[i].data)
         /\ Units(f)[1] = SubSeq(Unconsumed(e[1]), b + 1, Len(Unconsumed(e[1])))
         /\ SubSeq(Units(f), 2, Len(f)) = SubSeq(Units(e), 2, Len(e))
<1>1. Len(e) \in Nat /\ Len(e) # 0 /\ 1 \in 1 .. Len(e) /\ DOMAIN e = 1 .. Len(e)
  BY EmptySeq, LenProperties
<1>. DEFINE x == [e[1] EXCEPT !.consumed = @ + b]
<1>2. e[1] \in ElementStates
  BY <1>1, ElementOfSeq
<1>3. /\ e[1].data \in Seq(Byte) /\ e[1].consumed \in Nat /\ Len(e[1].data) \in Nat
      /\ e[1] = [data |-> e[1].data, consumed |-> e[1].consumed]
  <2>1. e[1].data \in Seq(Byte) /\ e[1].consumed \in 0 .. MaxBytes
        /\ e[1] = [data |-> e[1].data, consumed |-> e[1].consumed]
    BY <1>2 DEF ElementStates
  <2>. QED BY <2>1, SomeBytes, LenProperties
<1>4. /\ x = [data |-> e[1].data, consumed |-> e[1].consumed + b]
      /\ x.data = e[1].data /\ x.consumed = e[1].consumed + b
  BY <1>3
<1>5. x \in ElementStates
  BY <1>3, <1>4, SomeBytes DEF ElementStates
<1>6. f = [e EXCEPT ![1] = x]
  BY DEF Advanced
<1>. HIDE DEF x
<1>7. /\ f \in Seq(ElementStates) /\ Len(f) = Len(e)
      /\ \A i \in 1 .. Len(e) : f[i] = IF i = 1 THEN x ELSE e[i]
  BY <1>1, <1>5, <1>6, ExceptSeq
<1>8. \A i \in 1 .. Len(f) : f[i].data = e[i].data /\ f[i].consumed <= Len(f[i].data)
  BY <1>4, <1>7
<1>9. /\ Units(f) \in Seq(Seq(Byte)) /\ Len(Units(f)) = Len(f)
      /\ \A i \in 1 .. Len(f) : Units(f)[i] = Unconsumed(f[i])
  BY <1>7, <1>8, UnitsType
<1>10. /\ Units(e) \in Seq(Seq(Byte)) /\ Len(Units(e)) = Len(e)
       /\ \A i \in 1 .. Len(e) : Units(e)[i] = Unconsumed(e[i])
  BY UnitsType
<1>11. Units(f)[1] = SubSeq(Unconsumed(e[1]), b + 1, Len(Unconsumed(e[1])))
  <2>. DEFINE d == e[1].data
              m == e[1].consumed
              u == SubSeq(d, m + 1, Len(d))
  <2>1. Units(f)[1] = SubSeq(d, m + b + 1, Len(d))
    <3>1. Units(f)[1] = Unconsumed(f[1]) /\ f[1] = x
      BY <1>1, <1>7, <1>9
    <3>2. x.data = d /\ x.consumed = m + b
      BY <1>4
    <3>. HIDE DEF d, m
    <3>. QED BY <3>1, <3>2 DEF Unconsumed
  <2>2. d \in Seq(Byte) /\ m \in Nat /\ Len(d) \in Nat /\ m + b <= Len(d)
    BY <1>3
  <2>3. Unconsumed(e[1]) = u
    BY DEF Unconsumed
  <2>. HIDE DEF d, m
  <2>4. /\ u \in Seq(Byte) /\ Len(u) = Len(d) - m
        /\ \A i \in 1 .. Len(d) - m : u[i] = d[m + i]
    <3>1. \A i \in m + 1 .. Len(d) : d[i] \in Byte
      BY <2>2, ElementOfSeq
    <3>. QED BY <2>2, <3>1, SubSeqProperties
  <2>. HIDE DEF u
  <2>5. /\ SubSeq(u, b + 1, Len(u)) \in Seq(Byte)
        /\ Len(SubSeq(u, b + 1, Len(u))) = Len(d) - m - b
        /\ \A i \in 1 .. Len(d) - m - b : SubSeq(u, b + 1, Len(u))[i] = u[b + i]
    <3>1. \A i \in b + 1 .. Len(u) : u[i] \in Byte
      BY <2>2, <2>4, ElementOfSeq
    <3>2. Len(u) \in Nat /\ b <= Len(u) /\ Len(u) - b = Len(d) - m - b
      BY <2>2, <2>4
    <3>3. /\ SubSeq(u, b + 1, Len(u)) \in Seq(Byte)
          /\ Len(SubSeq(u, b + 1, Len(u))) = IF b + 1 <= Len(u) THEN Len(u) - (b + 1) + 1 ELSE 0
          /\ \A i \in 1 .. Len(u) - (b + 1) + 1 :
               SubSeq(u, b + 1, Len(u))[i] = u[b + 1 + i - 1]
      BY <3>1, <3>2, SubSeqProperties
    <3>4. Len(u) - (b + 1) + 1 = Len(d) - m - b
      BY <2>2, <3>2
    <3>5. (IF b + 1 <= Len(u) THEN Len(u) - (b + 1) + 1 ELSE 0) = Len(d) - m - b
      <4>1. PICK p \in Nat : p = Len(u)
        BY <3>2
      <4>2. b \in Nat /\ b <= p
        BY <2>2, <3>2, <4>1
      <4>3. (IF b + 1 <= p THEN p - (b + 1) + 1 ELSE 0) = p - b
        BY ONLY <4>2, p \in Nat
      <4>. QED BY ONLY <3>2, <4>1, <4>3
    <3>6. \A i \in 1 .. Len(d) - m - b : b + 1 + i - 1 = b + i
      BY <2>2
    <3>. QED BY <3>3, <3>4, <3>5, <3>6
  <2>6. /\ SubSeq(d, m + b + 1, Len(d)) \in Seq(Byte)
        /\ Len(SubSeq(d, m + b + 1, Len(d))) = Len(d) - m - b
        /\ \A i \in 1 .. Len(d) - m - b : SubSeq(d, m + b + 1, Len(d))[i] = d[m + b + i]
    <3>1. \A i \in m + b + 1 .. Len(d) : d[i] \in Byte
      BY <2>2, ElementOfSeq
    <3>. QED BY <2>2, <3>1, SubSeqProperties
  <2>7. ASSUME NEW i \in 1 .. Len(d) - m - b
        PROVE  SubSeq(u, b + 1, Len(u))[i] = SubSeq(d, m + b + 1, Len(d))[i]
    <3>1. b + i \in 1 .. Len(d) - m /\ m + (b + i) = m + b + i
      BY <2>2
    <3>. QED BY <2>4, <2>5, <2>6, <3>1
  <2>8. SubSeq(u, b + 1, Len(u)) = SubSeq(d, m + b + 1, Len(d))
    BY <2>5, <2>6, <2>7, SeqEqual
  <2>. QED BY <2>1, <2>3, <2>8
<1>12. SubSeq(Units(f), 2, Len(f)) = SubSeq(Units(e), 2, Len(e))
  <2>1. \A i \in 2 .. Len(e) : Units(f)[i] = Units(e)[i]
    <3>1. ASSUME NEW i \in 2 .. Len(e) PROVE Units(f)[i] = Units(e)[i]
      <4>1. i \in 1 .. Len(e) /\ i # 1
        BY <1>1
      <4>2. f[i] = e[i]
        BY <1>7, <4>1
      <4>3. Units(f)[i] = Unconsumed(f[i]) /\ Units(e)[i] = Unconsumed(e[i])
        BY <1>7, <1>9, <1>10, <4>1
      <4>. QED BY <4>2, <4>3
    <3>. QED BY <3>1
  <2>2. /\ \A i \in 2 .. Len(e) : Units(e)[i] \in Seq(Byte)
        /\ \A i \in 2 .. Len(e) : Units(f)[i] \in Seq(Byte)
    BY <1>1, <1>7, <1>9, <1>10, ElementOfSeq
  <2>. DEFINE p == SubSeq(Units(f), 2, Len(e))
              q == SubSeq(Units(e), 2, Len(e))
  <2>3. /\ p \in Seq(Seq(Byte)) /\ q \in Seq(Seq(Byte)) /\ Len(p) = Len(q)
        /\ Len(p) = (IF 2 <= Len(e) THEN Len(e) - 2 + 1 ELSE 0)
        /\ \A i \in 1 .. Len(e) - 2 + 1 : p[i] = Units(f)[2 + i - 1]
        /\ \A i \in 1 .. Len(e) - 2 + 1 : q[i] = Units(e)[2 + i - 1]
    <3>1. /\ p \in Seq(Seq(Byte))
          /\ Len(p) = (IF 2 <= Len(e) THEN Len(e) - 2 + 1 ELSE 0)
          /\ \A i \in 1 .. Len(e) - 2 + 1 : p[i] = Units(f)[2 + i - 1]
      <4>1. \A i \in 2 .. Len(e) : Units(f)[i] \in Seq(Byte)
        BY <2>2
      <4>2. 2 \in Int /\ Len(e) \in Int
        BY <1>1
      <4>. QED BY ONLY <4>1, <4>2, SubSeqProperties DEF p
    <3>2. /\ q \in Seq(Seq(Byte))
          /\ Len(q) = (IF 2 <= Len(e) THEN Len(e) - 2 + 1 ELSE 0)
          /\ \A i \in 1 .. Len(e) - 2 + 1 : q[i] = Units(e)[2 + i - 1]
      <4>1. \A i \in 2 .. Len(e) : Units(e)[i] \in Seq(Byte)
        BY <2>2
      <4>2. 2 \in Int /\ Len(e) \in Int
        BY <1>1
      <4>. QED BY ONLY <4>1, <4>2, SubSeqProperties DEF q
    <3>. HIDE DEF p, q
    <3>. QED BY <3>1, <3>2
  <2>. HIDE DEF p, q
  <2>4. ASSUME NEW i \in 1 .. Len(p) PROVE p[i] = q[i]
    <3>0. PICK n \in Nat : n = Len(e)
      BY <1>1
    <3>2. Len(p) = IF 2 <= n THEN n - 2 + 1 ELSE 0
      BY <2>3, <3>0
    <3>3. i \in 1 .. n - 2 + 1 /\ 2 + i - 1 \in 2 .. n
      BY <3>2
    <3>1. i \in 1 .. Len(e) - 2 + 1 /\ 2 + i - 1 \in 2 .. Len(e)
      BY <3>0, <3>3
    <3>. QED BY <2>1, <2>3, <3>1
  <2>5. p = q
    BY <2>3, <2>4, SeqEqual
  <2>. QED BY <1>7, <2>5 DEF p, q
<1>. QED BY <1>7, <1>8, <1>11, <1>12

-----------------------------------------------------------------------------
(* What the loop is at, and what comes after it.                            *)
Here == Unconsumed(Element)
Later == FlattenSeq(SubSeq(Units(elements), running.next + 1, Len(elements)))

(* What TypeOK says, one variable at a time.                                *)
LEMMA Types ==
  ASSUME TypeOK, Elements
  PROVE  /\ elements \in Seq(ElementStates)
         /\ Len(elements) \in Nat /\ DOMAIN elements = 1 .. Len(elements)
         /\ \A i \in 1 .. Len(elements) :
              /\ elements[i].data \in Seq(Byte) /\ elements[i].consumed \in Nat
              /\ Len(elements[i].data) \in Nat
              /\ Len(elements[i].data) <= MaxBytes
              /\ elements[i].consumed <= Len(elements[i].data)
         /\ Units(elements) \in Seq(Seq(Byte)) /\ Len(Units(elements)) = Len(elements)
         /\ \A i \in 1 .. Len(elements) : Units(elements)[i] = Unconsumed(elements[i])
         /\ Content = FlattenSeq(Units(elements))
         /\ Content \in Seq(Byte) /\ Len(Content) \in Nat
         /\ before \in Seq(Byte) /\ Len(before) \in Nat
         /\ totalBytes \in Nat /\ queued \in Nat /\ queued <= MaxBytes
<1>1. elements \in Seq(ElementStates) /\ before \in Seq(Byte)
  BY DEF TypeOK, ElementStates, Byte
<1>2. totalBytes \in Nat /\ queued \in Nat /\ queued <= MaxBytes
  BY SomeBytes DEF TypeOK
<1>3. Len(elements) \in Nat /\ DOMAIN elements = 1 .. Len(elements) /\ Len(before) \in Nat
  BY <1>1, LenProperties
<1>4. ASSUME NEW i \in 1 .. Len(elements)
      PROVE  /\ elements[i].data \in Seq(Byte) /\ elements[i].consumed \in Nat
             /\ Len(elements[i].data) \in Nat
             /\ Len(elements[i].data) <= MaxBytes
             /\ elements[i].consumed <= Len(elements[i].data)
  <2>1. elements[i] \in ElementStates
    BY <1>1, ElementOfSeq
  <2>2. elements[i].data \in Seq(Byte) /\ elements[i].consumed \in Nat
    BY <2>1, SomeBytes DEF ElementStates
  <2>. QED BY <1>3, <2>2, LenProperties DEF Elements
<1>5. /\ Units(elements) \in Seq(Seq(Byte)) /\ Len(Units(elements)) = Len(elements)
      /\ \A i \in 1 .. Len(elements) : Units(elements)[i] = Unconsumed(elements[i])
  BY <1>1, <1>4, UnitsType
<1>6. Content = FlattenSeq(Units(elements))
  BY DEF Content, Units
<1>7. Content \in Seq(Byte)
  BY <1>5, <1>6, FlattenType
<1>8. Len(Content) \in Nat
  BY <1>7, LenProperties
<1>. QED BY <1>1, <1>2, <1>3, <1>4, <1>5, <1>6, <1>7, <1>8

(* From the first element on, everything is ahead.                          *)
LEMMA AllAhead ==
  ASSUME NEW s \in Seq(Seq(Byte)), NEW n, n = Len(s)
  PROVE  FlattenSeq(SubSeq(s, 1, n)) = FlattenSeq(s)
BY SubSeqFull

(* While bytes are wanted the loop is at an element, and what is ahead is   *)
(* what that has left and what the others have.                             *)
LEMMA AtAnElement ==
  ASSUME QueueInv, running.busy, running.left > 0
  PROVE  /\ running.next \in 1 .. Len(elements)
         /\ Here \in Seq(Byte) /\ Later \in Seq(Byte)
         /\ Len(Here) = Len(Element.data) - Element.consumed
         /\ Here = SubSeq(Element.data, Element.consumed + 1, Len(Element.data))
         /\ Ahead = Here \o Later
<1>0. TypeOK /\ Elements /\ InCall
  BY DEF QueueInv
<1>1. /\ elements \in Seq(ElementStates) /\ Len(elements) \in Nat
      /\ \A i \in 1 .. Len(elements) : elements[i].consumed <= Len(elements[i].data)
      /\ Units(elements) \in Seq(Seq(Byte)) /\ Len(Units(elements)) = Len(elements)
      /\ before \in Seq(Byte) /\ Len(before) \in Nat
  BY <1>0, Types
<1>2. running.left \in Nat
  BY <1>0, SomeBytes DEF TypeOK
<1>3. running.next \in 1 .. Len(elements) + 1
  BY <1>0 DEF InCall
<1>4. running.next # Len(elements) + 1
  <2>1. SUFFICES ASSUME running.next = Len(elements) + 1 PROVE FALSE
    OBVIOUS
  <2>2. PICK n \in Requests : CallFor(n)
    BY <1>0 DEF InCall
  <2>. DEFINE w == Smaller(n, Len(before))
              k == w - running.left
  <2>3. running.left <= w /\ Ahead = SubSeq(before, k + 1, Len(before))
    BY <2>2 DEF CallFor
  <2>4. w \in Nat /\ w <= Len(before)
    BY <1>1, DataQueueAssumption DEF Smaller
  <2>5. Ahead = << >>
    <3>1. SubSeq(Units(elements), running.next, Len(elements)) = << >>
      BY <1>1, <2>1, SubSeqEmpty
    <3>2. << >> \in Seq(Seq(Byte))
      BY EmptySeq
    <3>. QED BY <3>1, <3>2, FlattenType DEF Ahead
  <2>. HIDE DEF w
  <2>6. k \in Nat /\ k + 1 <= Len(before)
    BY <1>1, <1>2, <2>3, <2>4
  <2>7. Len(SubSeq(before, k + 1, Len(before))) = Len(before) - (k + 1) + 1
    <3>. HIDE DEF k
    <3>1. \A i \in k + 1 .. Len(before) : before[i] \in Byte
      BY <1>1, <2>6, ElementOfSeq
    <3>2. k + 1 \in Int /\ Len(before) \in Int
      BY <1>1, <2>6
    <3>. QED BY <2>6, <3>1, <3>2, SubSeqProperties
  <2>. HIDE DEF k
  <2>8. Len(<< >>) = 0
    OBVIOUS
  <2>9. Len(before) - (k + 1) + 1 = 0
    BY <2>3, <2>5, <2>7, <2>8
  <2>. QED BY <1>1, <2>6, <2>9
<1>5. running.next \in 1 .. Len(elements)
  BY <1>1, <1>3, <1>4
<1>6. /\ Units(elements)[running.next] = Here /\ Here \in Seq(Byte)
      /\ Len(Here) = Len(Element.data) - Element.consumed
  BY <1>1, <1>5, UnitsType DEF Here, Element
<1>7. Ahead = Here \o Later
  BY <1>1, <1>5, <1>6, FlattenFrom DEF Ahead, Later
<1>8. Later \in Seq(Byte)
  <2>. DEFINE m == running.next + 1
  <2>1. m \in Int /\ Len(elements) \in Int
    BY <1>1, <1>5
  <2>2. \A i \in m .. Len(elements) : Units(elements)[i] \in Seq(Byte)
    BY <1>1, <1>5, ElementOfSeq
  <2>. HIDE DEF m
  <2>3. SubSeq(Units(elements), m, Len(elements)) \in Seq(Seq(Byte))
    BY <2>1, <2>2, SubSeqProperties
  <2>. QED BY <2>3, FlattenType DEF Later, m
<1>. QED BY <1>5, <1>6, <1>7, <1>8 DEF Here, Unconsumed

(* What taking b bytes of the element does, in either of the two ways, when *)
(* the loop goes on at element m.                                           *)
Taking(b, m) ==
  /\ running.busy /\ running.left > 0
  /\ b \in 0 .. Len(Here) /\ b <= running.left
  /\ running' = [returnData |-> running.returnData, removeData |-> running.removeData,
                 left |-> running.left - b, next |-> m,
                 buffer |-> IF running.returnData THEN running.buffer \o SubSeq(Here, 1, b)
                                                  ELSE running.buffer,
                 busy |-> TRUE]
  /\ running'.left > 0 => b = Len(Here)
  /\ IF running.removeData
     THEN /\ totalBytes' = totalBytes - b
          /\ m = running.next
          /\ FlattenSeq(Units(elements')) = SubSeq(Here, b + 1, Len(Here)) \o Later
     ELSE /\ UNCHANGED <<elements, totalBytes>>
          /\ m = running.next \/ m = running.next + 1
          /\ running'.left > 0 => m = running.next + 1
  /\ elements' \in Seq(ElementStates) /\ Elements'
  /\ UNCHANGED <<returned, queued, before>>

(* It keeps what the call relies on.                                        *)
LEMMA TakingKeeps ==
  ASSUME QueueInv, NEW b, NEW m, Taking(b, m)
  PROVE  QueueInv'
<1>0. TypeOK /\ Elements /\ Counted /\ InCall /\ running.busy /\ running.left > 0
  BY DEF QueueInv, Taking
<1>1. /\ Len(elements) \in Nat
      /\ Units(elements) \in Seq(Seq(Byte)) /\ Len(Units(elements)) = Len(elements)
      /\ Content = FlattenSeq(Units(elements))
      /\ before \in Seq(Byte) /\ Len(before) \in Nat
      /\ totalBytes \in Nat /\ queued \in Nat
  BY <1>0, Types
<1>2. /\ running.next \in 1 .. Len(elements)
      /\ Here \in Seq(Byte) /\ Later \in Seq(Byte)
      /\ Ahead = Here \o Later
  BY <1>0, AtAnElement
<1>3. Len(Here) \in Nat /\ Len(Later) \in Nat /\ b \in 0 .. Len(Here) /\ b \in Nat
  BY <1>2, LenProperties DEF Taking
<1>4. running.left \in Nat
  BY <1>0, SomeBytes DEF TypeOK
<1>5. /\ Units(elements') \in Seq(Seq(Byte)) /\ Len(Units(elements')) = Len(elements')
      /\ Content' = FlattenSeq(Units(elements'))
      /\ Len(elements') \in Nat
  <2>1. elements' \in Seq(ElementStates) /\ Elements'
    BY DEF Taking
  <2>2. Len(elements') \in Nat /\ DOMAIN elements' = 1 .. Len(elements')
    BY <2>1, LenProperties
  <2>3. \A i \in 1 .. Len(elements') : elements'[i].consumed <= Len(elements'[i].data)
    BY <2>1, <2>2 DEF Elements
  <2>. QED BY <2>1, <2>2, <2>3, UnitsType DEF Content, Units
<1>6. /\ running'.busy /\ running'.left = running.left - b
      /\ running'.returnData = running.returnData
      /\ running'.removeData = running.removeData
      /\ UNCHANGED <<returned, queued, before>>
      /\ b <= running.left
      /\ running'.next = m
      /\ running'.buffer = IF running.returnData THEN running.buffer \o SubSeq(Here, 1, b)
                                                 ELSE running.buffer
  BY DEF Taking
<1>7. PICK n \in Requests : CallFor(n)
  BY <1>0 DEF InCall
<1>. DEFINE w == Smaller(n, Len(before))
            k == w - running.left
<1>8. /\ running.left <= w
      /\ running.buffer = IF running.returnData THEN SubSeq(before, 1, k) ELSE << >>
      /\ Ahead = SubSeq(before, k + 1, Len(before))
  BY <1>0, <1>7 DEF CallFor
<1>9. w \in Nat /\ w <= Len(before)
  BY <1>1, DataQueueAssumption DEF Smaller
<1>10. k \in 0 .. Len(before) /\ w - running'.left = k + b /\ running'.left <= w
  <2>. DEFINE o == running'.left
  <2>1. PICK q \in Nat : q = Len(before)
    BY <1>1
  <2>2. w \in Nat /\ w <= q /\ running.left <= w /\ b <= running.left
        /\ running.left \in Nat /\ b \in Nat /\ o = running.left - b
    BY <1>1, <1>3, <1>4, <1>6, <1>8, <1>9, <2>1
  <2>. HIDE DEF w, o
  <2>3. PICK t \in Nat : t = running.left
    BY <2>2
  <2>4. w - t \in 0 .. q /\ w - o = (w - t) + b /\ o <= w
    BY ONLY <2>2, <2>3, q \in Nat, t \in Nat
  <2>. QED BY <2>1, <2>3, <2>4 DEF o
<1>. HIDE DEF k
<1>11. /\ k + b \in 0 .. Len(before)
       /\ SubSeq(before, 1, k) \o SubSeq(Here, 1, b) = SubSeq(before, 1, k + b)
       /\ SubSeq(before, k + b + 1, Len(before)) = SubSeq(Here, b + 1, Len(Here)) \o Later
       /\ Len(before) - k = Len(Here) + Len(Later)
  <2>1. SubSeq(before, k + 1, Len(before)) = Joined(Here, Later)
    BY <1>2, <1>8 DEF Joined
  <2>2. /\ k + b \in 0 .. Len(before)
        /\ Joined(SubSeq(before, 1, k), SubSeq(Here, 1, b)) = SubSeq(before, 1, k + b)
        /\ SubSeq(before, k + b + 1, Len(before)) = Joined(SubSeq(Here, b + 1, Len(Here)), Later)
        /\ Len(before) - k = Len(Here) + Len(Later)
    <3>1. before \in Seq(Byte) /\ Here \in Seq(Byte) /\ Later \in Seq(Byte)
      BY <1>1, <1>2
    <3>2. k \in 0 .. Len(before) /\ b \in 0 .. Len(Here)
      BY <1>3, <1>10
    <3>. QED BY ONLY <2>1, <3>1, <3>2, Split, SMTT(30)
  <2>. QED BY <2>2 DEF Joined
<1>12. running'.buffer = IF running'.returnData THEN SubSeq(before, 1, k + b) ELSE << >>
  BY <1>6, <1>8, <1>11
<1>13. /\ SubSeq(Here, b + 1, Len(Here)) \in Seq(Byte)
       /\ Len(SubSeq(Here, b + 1, Len(Here))) = Len(Here) - b
  BY <1>2, <1>3, UnconsumedType
<1>20. ASSUME totalBytes' \in Nat, totalBytes' <= totalBytes PROVE TypeOK'
  <2>1. SubSeq(before, 1, k + b) \in Seq(Byte)
    <3>1. \A i \in 1 .. k + b : before[i] \in Byte
      BY <1>1, <1>11, ElementOfSeq
    <3>2. 1 \in Int /\ k + b \in Int
      BY <1>11
    <3>. QED BY <3>1, <3>2, SubSeqProperties
  <2>2. running'.buffer \in Seq(Byte)
    BY <1>12, <2>1, EmptySeq
  <2>3. m \in Nat
    <3>1. m = running.next \/ m = running.next + 1
      BY DEF Taking
    <3>. QED BY <1>1, <1>2, <3>1
  <2>4. running'.left \in 0 .. MaxBytes /\ totalBytes' \in 0 .. MaxBytes
    <3>1. running.left \in 0 .. MaxBytes /\ totalBytes \in 0 .. MaxBytes
      BY <1>0 DEF TypeOK
    <3>2. running'.left \in Nat /\ running'.left <= running.left
      BY <1>3, <1>4, <1>6
    <3>. QED BY <1>20, <3>1, <3>2, SomeBytes
  <2>5. running.returnData \in BOOLEAN /\ running.removeData \in BOOLEAN
    BY <1>0 DEF TypeOK
  <2>6. running' = [returnData |-> running.returnData, removeData |-> running.removeData,
                    left |-> running'.left, next |-> m, buffer |-> running'.buffer,
                    busy |-> TRUE]
    BY DEF Taking
  <2>7. running' \in [returnData : BOOLEAN, removeData : BOOLEAN, left : 0 .. MaxBytes,
                      next : Nat, buffer : Seq(Byte), busy : BOOLEAN]
    <3>1. \A r, d \in BOOLEAN, l \in 0 .. MaxBytes, x \in Seq(Byte) :
            [returnData |-> r, removeData |-> d, left |-> l, next |-> m, buffer |-> x,
             busy |-> TRUE]
              \in [returnData : BOOLEAN, removeData : BOOLEAN, left : 0 .. MaxBytes,
                   next : Nat, buffer : Seq(Byte), busy : BOOLEAN]
      BY <2>3
    <3>2. [returnData |-> running.returnData, removeData |-> running.removeData,
           left |-> running'.left, next |-> m, buffer |-> running'.buffer, busy |-> TRUE]
            \in [returnData : BOOLEAN, removeData : BOOLEAN, left : 0 .. MaxBytes,
                 next : Nat, buffer : Seq(Byte), busy : BOOLEAN]
      BY ONLY <2>2, <2>4, <2>5, <3>1
    <3>. QED BY ONLY <2>6, <3>2
  <2>8. elements' \in Seq(ElementStates)
    BY DEF Taking
  <2>9. returned \in Seq(Byte) /\ before \in Seq(Byte) /\ queued \in 0 .. MaxBytes
    BY <1>0 DEF TypeOK, Byte
  <2>. QED BY <1>6, <2>4, <2>7, <2>8, <2>9 DEF TypeOK, ElementStates, Byte
<1>21. Elements' /\ Waiting'
  BY <1>6 DEF Taking, Waiting
<1>14. CASE running.removeData
  <2>1. /\ totalBytes' = totalBytes - b /\ running'.next = running.next
        /\ Content' = SubSeq(Here, b + 1, Len(Here)) \o Later
    BY <1>5, <1>6, <1>14 DEF Taking
  <2>2. running.next = 1
    BY <1>0, <1>14 DEF InCall
  <2>3. Content = Here \o Later
    <3>1. Ahead = FlattenSeq(Units(elements))
      BY <1>1, <2>2, AllAhead DEF Ahead
    <3>. QED BY <1>1, <1>2, <3>1
  <2>4. Len(Content) = Len(Here) + Len(Later)
    BY <1>2, <2>3, ConcatProperties
  <2>5. Len(Content') = Len(Here) - b + Len(Later)
    BY <1>2, <1>13, <2>1, ConcatProperties
  <2>6. Counted'
    <3>1. totalBytes = Len(Content) /\ totalBytes <= queued /\ queued' = queued
      BY <1>0, <1>6 DEF Counted
    <3>2. totalBytes' = Len(Content') /\ totalBytes' <= queued'
      BY <1>1, <1>3, <2>1, <2>4, <2>5, <3>1
    <3>. QED BY <3>2 DEF Counted
  <2>7. Ahead' = SubSeq(before, k + b + 1, Len(before))
    <3>1. Ahead' = FlattenSeq(SubSeq(Units(elements'), 1, Len(elements')))
      BY <2>1, <2>2 DEF Ahead
    <3>2. FlattenSeq(SubSeq(Units(elements'), 1, Len(elements'))) = FlattenSeq(Units(elements'))
      BY <1>5, AllAhead
    <3>. QED BY <1>5, <1>11, <2>1, <3>1, <3>2
  <2>8. CallFor(n)'
    BY <1>6, <1>10, <1>12, <2>7 DEF CallFor
  <2>9. InCall'
    BY <1>5, <1>6, <1>7, <1>14, <2>1, <2>2, <2>8 DEF InCall
  <2>10. TypeOK'
    <3>1. totalBytes = Len(Content)
      BY <1>0 DEF Counted
    <3>2. totalBytes' \in Nat /\ totalBytes' <= totalBytes
      BY <1>1, <1>3, <2>1, <2>4, <3>1
    <3>. QED BY <1>20, <3>2
  <2>. QED BY <1>21, <2>6, <2>9, <2>10 DEF QueueInv
<1>15. CASE ~running.removeData
  <2>1. /\ elements' = elements /\ totalBytes' = totalBytes
        /\ running'.left > 0 => running'.next = running.next + 1 /\ b = Len(Here)
    BY <1>6, <1>15 DEF Taking
  <2>2. Content' = Content
    BY <1>1, <1>5, <2>1
  <2>3. Counted'
    BY <1>0, <1>6, <2>1, <2>2 DEF Counted
  <2>4. running'.left > 0 => Ahead' = SubSeq(before, k + b + 1, Len(before))
    <3>1. SUFFICES ASSUME running'.left > 0
                   PROVE  Ahead' = SubSeq(before, k + b + 1, Len(before))
      OBVIOUS
    <3>2. Ahead' = Later
      BY <2>1, <3>1 DEF Ahead, Later
    <3>3. SubSeq(Here, b + 1, Len(Here)) = << >>
      BY <1>3, <2>1, <3>1, SubSeqEmpty
    <3>4. << >> \o Later = Later
      BY <1>2, ConcatEmptySeq
    <3>. QED BY <1>11, <3>2, <3>3, <3>4
  <2>5. CallFor(n)'
    BY <1>6, <1>10, <1>12, <1>15, <2>4 DEF CallFor
  <2>6. running'.next \in 1 .. Len(elements') + 1
    <3>1. running'.next = running.next \/ running'.next = running.next + 1
      BY <1>6, <1>15 DEF Taking
    <3>. QED BY <1>1, <1>2, <2>1, <3>1
  <2>7. (running.returnData \/ running.removeData) /\ before = Content
    BY <1>0, <1>15 DEF InCall
  <2>8. before' = Content'
    BY <1>6, <2>2, <2>7
  <2>9. InCall'
    BY <1>6, <1>7, <1>15, <2>5, <2>6, <2>7, <2>8 DEF InCall
  <2>10. TypeOK'
    BY <1>1, <1>20, <2>1
  <2>. QED BY <1>21, <2>3, <2>9, <2>10 DEF QueueInv
<1>. QED BY <1>14, <1>15

(* An element all of whose bytes are taken is erased.                       *)
LEMMA ErasedElement ==
  ASSUME QueueInv, running.busy, running.left > 0, running.removeData,
         elements' = RemoveAt(elements, running.next)
  PROVE  /\ elements' \in Seq(ElementStates) /\ Elements'
         /\ FlattenSeq(Units(elements')) = Later
<1>0. TypeOK /\ Elements /\ InCall
  BY DEF QueueInv
<1>1. /\ elements \in Seq(ElementStates) /\ Len(elements) \in Nat
      /\ \A i \in 1 .. Len(elements) :
           /\ Len(elements[i].data) <= MaxBytes
           /\ elements[i].consumed <= Len(elements[i].data)
  BY <1>0, Types
<1>2. running.next = 1 /\ 1 \in 1 .. Len(elements)
  BY <1>0, AtAnElement DEF InCall
<1>3. elements # << >>
  BY <1>1, <1>2, EmptySeq
<1>4. /\ elements' \in Seq(ElementStates)
      /\ \A i \in 1 .. Len(elements') :
           elements'[i] = elements[i + 1] /\ i + 1 \in 1 .. Len(elements)
      /\ Units(elements') = SubSeq(Units(elements), 2, Len(elements))
  <2>1. /\ RemoveAt(elements, 1) = Tail(elements)
        /\ Tail(elements) \in Seq(ElementStates)
        /\ \A i \in 1 .. Len(Tail(elements)) :
             Tail(elements)[i] = elements[i + 1] /\ i + 1 \in 1 .. Len(elements)
        /\ Units(Tail(elements)) = SubSeq(Units(elements), 2, Len(elements))
    <3>1. \A i \in 1 .. Len(elements) : elements[i].consumed <= Len(elements[i].data)
      BY <1>1
    <3>2. elements \in Seq(ElementStates)
      BY <1>1
    <3>. QED BY ONLY <1>3, <3>1, <3>2, UnitsTail, SMTT(30)
  <2>2. elements' = Tail(elements)
    BY <1>2, <2>1
  <2>. QED BY ONLY <2>1, <2>2
<1>5. DOMAIN elements' = 1 .. Len(elements')
  BY <1>4, LenProperties
<1>6. Elements'
  BY <1>1, <1>4, <1>5 DEF Elements
<1>7. Later = FlattenSeq(SubSeq(Units(elements), 2, Len(elements)))
  BY <1>2 DEF Later
<1>. QED BY <1>4, <1>6, <1>7

(* Otherwise its counter is advanced.                                       *)
LEMMA AdvancedElement ==
  ASSUME QueueInv, running.busy, running.left > 0, running.removeData,
         NEW b \in 0 .. Len(Here),
         elements' = [elements EXCEPT ![running.next].consumed = @ + b]
  PROVE  /\ elements' \in Seq(ElementStates) /\ Elements'
         /\ FlattenSeq(Units(elements')) = SubSeq(Here, b + 1, Len(Here)) \o Later
<1>0. TypeOK /\ Elements /\ InCall
  BY DEF QueueInv
<1>1. /\ elements \in Seq(ElementStates) /\ Len(elements) \in Nat
      /\ \A i \in 1 .. Len(elements) :
           /\ elements[i].consumed \in Nat /\ Len(elements[i].data) \in Nat
           /\ Len(elements[i].data) <= MaxBytes
           /\ elements[i].consumed <= Len(elements[i].data)
  BY <1>0, Types
<1>2. /\ running.next = 1 /\ 1 \in 1 .. Len(elements)
      /\ Len(Here) = Len(elements[1].data) - elements[1].consumed
  BY <1>0, AtAnElement DEF InCall, Element
<1>3. elements # << >>
  BY <1>1, <1>2, EmptySeq
<1>4. b \in Nat /\ elements[1].consumed + b <= Len(elements[1].data)
      /\ Len(elements[1].data) <= MaxBytes
  BY <1>1, <1>2
<1>5. elements' = [elements EXCEPT ![1].consumed = @ + b]
  BY <1>2
<1>. DEFINE f == elements'
<1>6. /\ f \in Seq(ElementStates) /\ Len(f) = Len(elements)
      /\ \A i \in 1 .. Len(f) :
           f[i].data = elements[i].data /\ f[i].consumed <= Len(f[i].data)
      /\ Units(f)[1] = SubSeq(Unconsumed(elements[1]), b + 1, Len(Unconsumed(elements[1])))
      /\ SubSeq(Units(f), 2, Len(f)) = SubSeq(Units(elements), 2, Len(elements))
  <2>1. f = Advanced(elements, b)
    BY <1>5 DEF Advanced
  <2>. HIDE DEF f
  <2>2. \A i \in 1 .. Len(elements) : elements[i].consumed <= Len(elements[i].data)
    BY <1>1
  <2>3. elements \in Seq(ElementStates)
    BY <1>1
  <2>. QED BY ONLY <1>3, <1>4, <2>1, <2>2, <2>3, UnitsConsumed, SMTT(30)
<1>7. DOMAIN f = 1 .. Len(f)
  BY <1>6, LenProperties
<1>8. Elements'
  BY <1>1, <1>6, <1>7 DEF Elements
<1>9. Here = Unconsumed(elements[1]) /\ Later = FlattenSeq(SubSeq(Units(elements), 2, Len(elements)))
  BY <1>2 DEF Here, Element, Later
<1>10. Units(f) \in Seq(Seq(Byte)) /\ Len(Units(f)) = Len(f)
  BY <1>6, UnitsType
<1>11. FlattenSeq(Units(f)) = Units(f)[1] \o FlattenSeq(SubSeq(Units(f), 2, Len(f)))
  <2>. HIDE DEF f
  <2>1. 1 \in 1 .. Len(Units(f))
    BY <1>2, <1>6, <1>10
  <2>2. FlattenSeq(SubSeq(Units(f), 1, Len(Units(f))))
          = Units(f)[1] \o FlattenSeq(SubSeq(Units(f), 1 + 1, Len(Units(f))))
    BY <1>10, <2>1, FlattenFrom
  <2>3. FlattenSeq(SubSeq(Units(f), 1, Len(Units(f)))) = FlattenSeq(Units(f))
    BY <1>10, AllAhead
  <2>4. 1 + 1 = 2
    OBVIOUS
  <2>. QED BY <1>10, <2>2, <2>3, <2>4
<1>. QED BY <1>6, <1>8, <1>9, <1>11

(* What is copied out of an element is the first part of what it has left.  *)
LEMMA FirstPart ==
  ASSUME NEW d \in Seq(Byte), NEW m \in 0 .. Len(d), NEW b \in 0 .. Len(d) - m
  PROVE  SubSeq(d, m + 1, m + b) = SubSeq(SubSeq(d, m + 1, Len(d)), 1, b)
<1>. DEFINE u == SubSeq(d, m + 1, Len(d))
            p == SubSeq(d, m + 1, m + b)
            q == SubSeq(u, 1, b)
<1>1. Len(d) \in Nat /\ m \in Nat /\ b \in Nat /\ m + b <= Len(d)
  BY LenProperties
<1>2. /\ u \in Seq(Byte) /\ Len(u) = Len(d) - m
      /\ \A i \in 1 .. Len(d) - m : u[i] = d[m + i]
  <2>1. \A i \in m + 1 .. Len(d) : d[i] \in Byte
    BY <1>1, ElementOfSeq
  <2>. QED BY <1>1, <2>1, SubSeqProperties
<1>3. /\ p \in Seq(Byte) /\ Len(p) = b
      /\ \A i \in 1 .. b : p[i] = d[m + i]
  <2>1. \A i \in m + 1 .. m + b : d[i] \in Byte
    BY <1>1, ElementOfSeq
  <2>. QED BY <1>1, <2>1, SubSeqProperties
<1>. HIDE DEF u, p
<1>4. /\ q \in Seq(Byte) /\ Len(q) = b
      /\ \A i \in 1 .. b : q[i] = u[i]
  <2>1. \A i \in 1 .. b : u[i] \in Byte
    BY <1>1, <1>2, ElementOfSeq
  <2>. QED BY <1>1, <2>1, SubSeqProperties
<1>. HIDE DEF q
<1>5. ASSUME NEW i \in 1 .. Len(p) PROVE p[i] = q[i]
  <2>1. i \in 1 .. b /\ i \in 1 .. Len(d) - m
    BY <1>1, <1>3
  <2>2. p[i] = d[m + i]
    BY <1>3, <2>1
  <2>3. q[i] = u[i]
    BY <1>4, <2>1
  <2>4. u[i] = d[m + i]
    BY <1>2, <2>1
  <2>. QED BY <2>2, <2>3, <2>4
<1>6. p = q
  BY <1>3, <1>4, <1>5, SeqEqual
<1>. QED BY <1>6 DEF p, q, u

(* The two ways of taking bytes.                                            *)
LEMMA TakeElementTakes ==
  ASSUME QueueInv, TakeElement
  PROVE  Taking(running.left, running.next)
<1>0. /\ running.busy /\ running.left > 0 /\ WholeElement
      /\ running' = [running EXCEPT !.buffer = IF running.returnData THEN Element.data ELSE @,
                                    !.left = 0]
      /\ IF running.removeData
         THEN /\ elements' = RemoveAt(elements, running.next)
              /\ totalBytes' = totalBytes - running.left
         ELSE UNCHANGED <<elements, totalBytes>>
      /\ UNCHANGED <<returned, queued, before>>
  BY DEF TakeElement
<1>1. TypeOK /\ Elements
  BY DEF QueueInv
<1>2. /\ Here \in Seq(Byte) /\ Later \in Seq(Byte)
      /\ Here = SubSeq(Element.data, Element.consumed + 1, Len(Element.data))
      /\ running.next \in 1 .. Len(elements)
  BY <1>0, AtAnElement
<1>3. Element.data \in Seq(Byte)
  BY <1>1, <1>2, Types DEF Element
<1>4. Here = Element.data /\ Len(Here) = running.left /\ running.buffer = << >>
  <2>1. Element.consumed + 1 = 1 /\ Len(Element.data) = running.left /\ running.buffer = << >>
    BY <1>0 DEF WholeElement
  <2>2. SubSeq(Element.data, 1, Len(Element.data)) = Element.data
    BY <1>3, SubSeqFull
  <2>. QED BY <1>2, <2>1, <2>2
<1>5. running.left \in Nat /\ running.left - running.left = 0
  BY <1>1, SomeBytes DEF TypeOK
<1>6. SubSeq(Here, 1, running.left) = Here /\ << >> \o Here = Here
  BY <1>2, <1>4, SubSeqFull, ConcatEmptySeq
<1>7. SubSeq(Here, running.left + 1, Len(Here)) \o Later = Later
  <2>1. SubSeq(Here, running.left + 1, Len(Here)) = << >>
    BY <1>4, <1>5, SubSeqEmpty
  <2>. QED BY <1>2, <2>1, ConcatEmptySeq
<1>8. running = [returnData |-> running.returnData, removeData |-> running.removeData,
                 left |-> running.left, next |-> running.next, buffer |-> running.buffer,
                 busy |-> running.busy]
  BY <1>1 DEF TypeOK
<1>9. running' = [returnData |-> running.returnData, removeData |-> running.removeData,
                  left |-> running.left - running.left, next |-> running.next,
                  buffer |-> IF running.returnData
                             THEN running.buffer \o SubSeq(Here, 1, running.left)
                             ELSE running.buffer,
                  busy |-> TRUE]
  <2>1. running.buffer \o SubSeq(Here, 1, running.left) = Element.data
    BY <1>4, <1>6
  <2>2. running' = [returnData |-> running.returnData, removeData |-> running.removeData,
                    left |-> 0, next |-> running.next,
                    buffer |-> IF running.returnData THEN Element.data ELSE running.buffer,
                    busy |-> running.busy]
    BY <1>0, <1>8
  <2>3. running.busy = TRUE
    BY <1>0, <1>1 DEF TypeOK
  <2>. QED BY <1>5, <2>1, <2>2, <2>3
<1>10. running'.left = 0
  BY <1>0, <1>8
<1>11. running.left \in 0 .. Len(Here) /\ running.left <= running.left /\ ~(running'.left > 0)
  BY <1>4, <1>5, <1>10
<1>12. elements' \in Seq(ElementStates) /\ Elements'
  <2>1. CASE running.removeData
    BY <1>0, <2>1, ErasedElement
  <2>2. CASE ~running.removeData
    BY <1>0, <1>1, <2>2 DEF TypeOK, Elements, ElementStates, Byte
  <2>. QED BY <2>1, <2>2
<1>13. CASE running.removeData
  <2>1. FlattenSeq(Units(elements'))
          = SubSeq(Here, running.left + 1, Len(Here)) \o Later
    BY <1>0, <1>7, <1>13, ErasedElement
  <2>. QED BY <1>0, <1>9, <1>11, <1>12, <1>13, <2>1 DEF Taking
<1>14. CASE ~running.removeData
  BY <1>0, <1>9, <1>11, <1>12, <1>14 DEF Taking
<1>. QED BY <1>13, <1>14

(* Where the loop goes on.                                                  *)
NextAt == IF ~running.removeData /\ UsedUp(BytesHere) THEN running.next + 1 ELSE running.next

(* Copying bytes out of an element takes them and nothing else.             *)
LEMMA TakeBytesTakes ==
  ASSUME QueueInv, TakeBytes
  PROVE  Taking(BytesHere, NextAt)
<1>. DEFINE b == BytesHere
<1>0. /\ running.busy /\ running.left > 0
      /\ running' = [running EXCEPT
           !.buffer = IF running.returnData THEN @ \o Bytes(b) ELSE @,
           !.left = @ - b,
           !.next = NextAt]
      /\ IF running.removeData THEN Consume(b) ELSE UNCHANGED <<elements, totalBytes>>
      /\ UNCHANGED <<returned, queued, before>>
  BY DEF TakeBytes, NextAt
<1>1. TypeOK /\ Elements
  BY DEF QueueInv
<1>2. /\ Here \in Seq(Byte) /\ Later \in Seq(Byte)
      /\ Here = SubSeq(Element.data, Element.consumed + 1, Len(Element.data))
      /\ Len(Here) = Len(Element.data) - Element.consumed
      /\ running.next \in 1 .. Len(elements)
  BY <1>0, AtAnElement
<1>3. /\ Element.data \in Seq(Byte) /\ Element.consumed \in 0 .. Len(Element.data)
      /\ Len(Element.data) \in Nat /\ Element.consumed \in Nat /\ Len(elements) \in Nat
  <2>1. /\ Element.data \in Seq(Byte) /\ Len(Element.data) \in Nat
        /\ Element.consumed \in Nat /\ Element.consumed <= Len(Element.data)
        /\ Len(elements) \in Nat
    BY <1>1, <1>2, Types DEF Element
  <2>. QED BY <2>1
<1>4. running.left \in Nat
  BY <1>1, SomeBytes DEF TypeOK
<1>5. b = Smaller(running.left, Len(Here))
  BY <1>2 DEF BytesHere
<1>6. b \in 0 .. Len(Here) /\ b <= running.left /\ b \in Nat /\ Len(Here) \in Nat
      /\ (b = running.left \/ b = Len(Here))
  <2>1. PICK l \in Nat : l = Len(Here)
    BY <1>2, LenProperties
  <2>2. PICK r \in Nat : r = running.left
    BY <1>4
  <2>3. b = IF r < l THEN r ELSE l
    BY <1>5, <2>1, <2>2 DEF Smaller
  <2>4. b \in 0 .. l /\ b <= r /\ b \in Nat /\ (b = r \/ b = l)
    <3>. HIDE DEF b
    <3>. QED BY ONLY <2>3, l \in Nat, r \in Nat
  <2>. QED BY <2>1, <2>2, <2>4
<1>. HIDE DEF b
<1>7. Bytes(b) = SubSeq(Here, 1, b)
  <2>1. b \in 0 .. Len(Element.data) - Element.consumed
    BY <1>2, <1>6
  <2>. QED BY <1>2, <1>3, <2>1, FirstPart DEF Bytes
<1>8. UsedUp(b) <=> b = Len(Here)
  <2>1. PICK l \in Nat : l = Len(Here)
    BY <1>2, LenProperties
  <2>2. PICK c \in Nat : c = Element.consumed
    BY <1>3
  <2>3. PICK d \in Nat : d = Len(Element.data)
    BY <1>3
  <2>4. l = d - c /\ b \in 0 .. l
    BY <1>2, <1>6, <2>1, <2>2, <2>3
  <2>5. c + b >= d <=> b = l
    BY ONLY <2>4, l \in Nat, c \in Nat, d \in Nat
  <2>. QED BY <2>1, <2>2, <2>3, <2>5 DEF UsedUp
<1>9. running = [returnData |-> running.returnData, removeData |-> running.removeData,
                 left |-> running.left, next |-> running.next, buffer |-> running.buffer,
                 busy |-> running.busy]
  BY <1>1 DEF TypeOK
<1>10. running' = [returnData |-> running.returnData, removeData |-> running.removeData,
                   left |-> running.left - b, next |-> NextAt,
                   buffer |-> IF running.returnData THEN running.buffer \o SubSeq(Here, 1, b)
                                                    ELSE running.buffer,
                   busy |-> TRUE]
  <2>1. running.busy = TRUE
    BY <1>0, <1>1 DEF TypeOK
  <2>. HIDE DEF NextAt
  <2>. QED BY <1>0, <1>7, <1>9, <2>1
<1>11. running'.left > 0 => b = Len(Here)
  <2>1. running'.left = running.left - b
    BY <1>10
  <2>. QED BY <1>4, <1>6, <2>1
<1>12. CASE running.removeData
  <2>1. NextAt = running.next
    BY <1>12 DEF NextAt
  <2>2. CASE b = Len(Here)
    <3>1. elements' = RemoveAt(elements, running.next) /\ totalBytes' = totalBytes - b
      BY <1>0, <1>8, <1>12, <2>2 DEF Consume
    <3>2. /\ elements' \in Seq(ElementStates) /\ Elements'
          /\ FlattenSeq(Units(elements')) = Later
      BY <1>0, <1>12, <3>1, ErasedElement
    <3>3. SubSeq(Here, b + 1, Len(Here)) \o Later = Later
      <4>1. SubSeq(Here, b + 1, Len(Here)) = << >>
        BY <1>6, <2>2, SubSeqEmpty
      <4>. QED BY <1>2, <4>1, ConcatEmptySeq
    <3>. QED BY <1>0, <1>6, <1>10, <1>11, <1>12, <2>1, <3>1, <3>2, <3>3 DEF Taking, b
  <2>3. CASE b # Len(Here)
    <3>1. /\ elements' = [elements EXCEPT ![running.next].consumed = @ + b]
          /\ totalBytes' = totalBytes - b
      BY <1>0, <1>8, <1>12, <2>3 DEF Consume
    <3>2. /\ elements' \in Seq(ElementStates) /\ Elements'
          /\ FlattenSeq(Units(elements')) = SubSeq(Here, b + 1, Len(Here)) \o Later
      BY <1>0, <1>6, <1>12, <3>1, AdvancedElement
    <3>. QED BY <1>0, <1>6, <1>10, <1>11, <1>12, <2>1, <3>1, <3>2 DEF Taking, b
  <2>. QED BY <2>2, <2>3
<1>13. CASE ~running.removeData
  <2>1. NextAt = IF b = Len(Here) THEN running.next + 1 ELSE running.next
    BY <1>8, <1>13 DEF NextAt, b
  <2>2. elements' \in Seq(ElementStates) /\ Elements' /\ UNCHANGED <<elements, totalBytes>>
    BY <1>0, <1>1, <1>13 DEF TypeOK, Elements, ElementStates, Byte
  <2>3. /\ NextAt = running.next \/ NextAt = running.next + 1
        /\ running'.left > 0 => NextAt = running.next + 1
    BY <1>11, <2>1
  <2>. QED BY <1>0, <1>6, <1>10, <1>11, <1>13, <2>2, <2>3 DEF Taking, b
<1>. QED BY <1>12, <1>13

(* What a new buffer adds to the queue.                                     *)
LEMMA EnqueueAdds ==
  ASSUME QueueInv, Enqueue
  PROVE  /\ QueueInv'
         /\ \E n \in BufferSizes : \E d \in [1 .. n -> Byte] :
              before' = before \o d /\ returned' = << >>
<1>0. TypeOK /\ Elements /\ Counted /\ Waiting
  BY DEF QueueInv
<1>1. PICK n \in BufferSizes :
        /\ ~running.busy
        /\ queued + n <= MaxBytes
        /\ elements' = Append(elements, [data |-> [i \in 1 .. n |-> queued + i], consumed |-> 0])
        /\ totalBytes' = totalBytes + n
        /\ queued' = queued + n
        /\ returned' = << >>
        /\ before' = Content'
        /\ UNCHANGED running
  BY DEF Enqueue
<1>. DEFINE d == [i \in 1 .. n |-> queued + i]
<1>2. /\ elements \in Seq(ElementStates) /\ Len(elements) \in Nat
      /\ DOMAIN elements = 1 .. Len(elements)
      /\ \A i \in 1 .. Len(elements) :
           /\ Len(elements[i].data) <= MaxBytes
           /\ elements[i].consumed <= Len(elements[i].data)
      /\ Units(elements) \in Seq(Seq(Byte))
      /\ Content = FlattenSeq(Units(elements)) /\ Content \in Seq(Byte)
      /\ Len(Content) \in Nat
      /\ totalBytes \in Nat /\ queued \in Nat /\ queued <= MaxBytes
  BY <1>0, Types
<1>3. n \in Nat /\ n <= MaxBytes
  BY <1>1, <1>2, SomeBytes, DataQueueAssumption
<1>4. d \in [1 .. n -> Byte]
  <2>1. \A i \in 1 .. n : queued + i \in Byte
    BY <1>1, <1>2, <1>3, SomeBytes DEF Byte
  <2>. QED BY <2>1
<1>5. d \in Seq(Byte) /\ Len(d) = n
  BY <1>3, <1>4, SeqDef
<1>6. elements' = Append(elements, [data |-> d, consumed |-> 0])
  BY <1>1
<1>. HIDE DEF d
<1>7. Units(elements') = Append(Units(elements), d)
  BY <1>2, <1>5, <1>6, UnitsAppend
<1>8. Content' = Content \o d
  <2>1. Content' = FlattenSeq(Units(elements'))
    BY DEF Content, Units
  <2>. QED BY <1>2, <1>5, <1>7, <2>1, FlattenAppend
<1>9. /\ Content' \in Seq(Byte) /\ Len(Content') = Len(Content) + n
  <2>1. Content \in Seq(Byte) /\ d \in Seq(Byte)
    BY <1>2, <1>5
  <2>2. Content \o d \in Seq(Byte) /\ Len(Content \o d) = Len(Content) + Len(d)
    BY ONLY <2>1, ConcatProperties
  <2>. QED BY <1>5, <1>8, <2>2
<1>10. Counted'
  <2>1. totalBytes = Len(Content) /\ totalBytes <= queued
    BY <1>0 DEF Counted
  <2>2. totalBytes' = Len(Content') /\ totalBytes' <= queued'
    BY <1>1, <1>2, <1>3, <1>9, <2>1
  <2>. QED BY <2>2 DEF Counted
<1>11. running = Idle /\ before = Content
  BY <1>0, <1>1 DEF Waiting
<1>12. Waiting' /\ InCall'
  BY <1>1, <1>11 DEF Waiting, InCall, Idle
<1>13. /\ elements' \in Seq(ElementStates) /\ Elements'
  <2>. DEFINE x == [data |-> d, consumed |-> 0]
  <2>1. x \in ElementStates /\ x.data = d /\ x.consumed = 0
    BY <1>5, SomeBytes DEF ElementStates
  <2>2. elements' = Append(elements, x)
    BY <1>6
  <2>. HIDE DEF x
  <2>3. /\ elements' \in Seq(ElementStates) /\ Len(elements') = Len(elements) + 1
        /\ \A i \in 1 .. Len(elements) : elements'[i] = elements[i]
        /\ elements'[Len(elements) + 1] = x
    BY <1>2, <2>1, <2>2, AppendProperties
  <2>4. DOMAIN elements' = 1 .. Len(elements) + 1
    BY <2>3, LenProperties
  <2>5. ASSUME NEW i \in DOMAIN elements'
        PROVE  /\ Len(elements'[i].data) <= MaxBytes
               /\ elements'[i].consumed <= Len(elements'[i].data)
    <3>1. i \in 1 .. Len(elements) \/ i = Len(elements) + 1
      BY <1>2, <2>4
    <3>2. CASE i \in 1 .. Len(elements)
      BY <1>2, <2>3, <3>2
    <3>3. CASE i = Len(elements) + 1
      BY <1>3, <1>5, <2>1, <2>3, <3>3
    <3>. QED BY <3>1, <3>2, <3>3
  <2>. QED BY <2>3, <2>5 DEF Elements
<1>14. TypeOK'
  <2>1. queued' \in 0 .. MaxBytes /\ totalBytes' \in 0 .. MaxBytes
    <3>1. totalBytes' <= queued'
      BY <1>10 DEF Counted
    <3>. QED BY <1>1, <1>2, <1>3, <3>1, SomeBytes
  <2>2. before' \in Seq(Byte) /\ returned' \in Seq(Byte)
    BY <1>1, <1>9, EmptySeq
  <2>3. running' = running
    BY <1>1
  <2>. QED BY <1>0, <1>13, <2>1, <2>2, <2>3 DEF TypeOK, Byte, ElementStates
<1>15. QueueInv'
  BY <1>10, <1>12, <1>13, <1>14 DEF QueueInv
<1>16. before' = before \o d
  BY <1>1, <1>8, <1>11
<1>. QED BY <1>1, <1>4, <1>15, <1>16

(* A call begins with nothing taken and everything ahead.                   *)
LEMMA BeginKeeps ==
  ASSUME QueueInv, NEW n \in Requests, NEW r \in BOOLEAN, NEW m \in BOOLEAN, r \/ m,
         Begin(n, r, m)
  PROVE  QueueInv'
<1>0. TypeOK /\ Elements /\ Counted /\ Waiting
  BY DEF QueueInv
<1>. DEFINE l == Limited(n)
<1>1. /\ ~running.busy
      /\ running' = [returnData |-> r, removeData |-> m, left |-> l, next |-> 1,
                     buffer |-> << >>, busy |-> TRUE]
      /\ UNCHANGED <<elements, totalBytes, returned, queued, before>>
  BY DEF Begin
<1>2. /\ Len(elements) \in Nat
      /\ Units(elements) \in Seq(Seq(Byte)) /\ Len(Units(elements)) = Len(elements)
      /\ Content = FlattenSeq(Units(elements))
      /\ before \in Seq(Byte) /\ Len(before) \in Nat
      /\ totalBytes \in Nat
  BY <1>0, Types
<1>3. before = Content /\ totalBytes = Len(before) /\ totalBytes \in 0 .. MaxBytes
  BY <1>0, <1>1 DEF Waiting, Counted, TypeOK
<1>4. l = Smaller(n, Len(before)) /\ l \in 0 .. MaxBytes
  BY <1>2, <1>3, DataQueueAssumption, SomeBytes DEF Limited, Smaller
<1>. HIDE DEF l
<1>5. /\ running'.busy /\ running'.returnData = r /\ running'.removeData = m
      /\ running'.left = l /\ running'.next = 1 /\ running'.buffer = << >>
  BY <1>1
<1>6. TypeOK'
  <2>1. running' \in [returnData : BOOLEAN, removeData : BOOLEAN, left : 0 .. MaxBytes,
                      next : Nat, buffer : Seq(1 .. MaxBytes), busy : BOOLEAN]
    <3>1. << >> \in Seq(1 .. MaxBytes)
      BY EmptySeq
    <3>. QED BY <1>1, <1>4, <3>1
  <2>. QED BY <1>0, <1>1, <2>1 DEF TypeOK
<1>7. Elements' /\ Waiting' /\ Content' = Content
  BY <1>0, <1>1, <1>5 DEF Elements, Waiting, Content
<1>8. Counted'
  BY <1>0, <1>1, <1>7 DEF Counted
<1>9. Ahead' = before
  <2>1. Ahead' = FlattenSeq(SubSeq(Units(elements), 1, Len(elements)))
    BY <1>1, <1>5 DEF Ahead
  <2>. QED BY <1>2, <1>3, <2>1, AllAhead
<1>10. CallFor(n)'
  <2>1. l - l = 0 /\ l <= l
    BY <1>4, SomeBytes
  <2>2. SubSeq(before, 1, 0) = << >> /\ SubSeq(before, 0 + 1, Len(before)) = before
    BY <1>2, SubSeqEmpty, SubSeqFull
  <2>3. before' = before
    BY <1>1
  <2>. QED BY <1>4, <1>5, <1>9, <2>1, <2>2, <2>3 DEF CallFor
<1>11. InCall'
  <2>1. 1 \in 1 .. Len(elements') + 1
    BY <1>1, <1>2
  <2>. QED BY <1>1, <1>3, <1>5, <1>7, <1>10, <2>1 DEF InCall
<1>. QED BY <1>6, <1>7, <1>8, <1>11 DEF QueueInv

(* A call that returns has taken all it asked for, or all there was.        *)
LEMMA FinishKeeps ==
  ASSUME QueueInv, Finish
  PROVE  QueueInv'
<1>0. TypeOK /\ Elements /\ Counted
  BY DEF QueueInv
<1>1. /\ returned' = running.buffer /\ before' = Content /\ running' = Idle
      /\ UNCHANGED <<elements, totalBytes, queued>>
  BY DEF Finish
<1>2. Content \in Seq(Byte) /\ Content' = Content
  BY <1>0, <1>1, Types DEF Content
<1>3. TypeOK'
  <2>1. running.buffer \in Seq(1 .. MaxBytes)
    BY <1>0 DEF TypeOK
  <2>2. Idle \in [returnData : BOOLEAN, removeData : BOOLEAN, left : 0 .. MaxBytes,
                  next : Nat, buffer : Seq(1 .. MaxBytes), busy : BOOLEAN]
    BY EmptySeq, SomeBytes DEF Idle
  <2>. QED BY <1>0, <1>1, <1>2, <2>1, <2>2 DEF TypeOK, Byte
<1>4. Elements' /\ Counted' /\ Waiting'
  BY <1>0, <1>1, <1>2 DEF Elements, Counted, Waiting
<1>5. InCall'
  BY <1>1 DEF InCall, Idle
<1>. QED BY <1>3, <1>4, <1>5 DEF QueueInv

(* An empty queue.                                                          *)
LEMMA InitialQueue == Init => QueueInv
<1>1. SUFFICES ASSUME Init PROVE QueueInv
  OBVIOUS
<1>2. /\ elements = << >> /\ totalBytes = 0 /\ running = Idle /\ returned = << >>
      /\ queued = 0 /\ before = << >>
  BY <1>1 DEF Init
<1>3. Idle \in [returnData : BOOLEAN, removeData : BOOLEAN, left : 0 .. MaxBytes,
                next : Nat, buffer : Seq(1 .. MaxBytes), busy : BOOLEAN]
  BY EmptySeq, SomeBytes DEF Idle
<1>4. TypeOK
  BY <1>2, <1>3, EmptySeq, SomeBytes DEF TypeOK
<1>5. Elements
  BY <1>2 DEF Elements
<1>6. Content = << >>
  <2>1. Units(elements) = << >>
    <3>1. Units(elements) \in Seq(Seq(Byte)) /\ Len(Units(elements)) = Len(elements)
      BY <1>4, <1>5, Types
    <3>. QED BY <1>2, <3>1, EmptySeq
  <2>2. Content = FlattenSeq(Units(elements))
    BY <1>4, <1>5, Types
  <2>3. << >> \in Seq(Seq(Byte))
    BY EmptySeq
  <2>. QED BY <2>1, <2>2, <2>3, FlattenType
<1>7. Counted /\ Waiting /\ InCall
  BY <1>2, <1>6 DEF Counted, Waiting, InCall, Idle
<1>. QED BY <1>4, <1>5, <1>7 DEF QueueInv

(* The invariant.                                                           *)
LEMMA QueueInvariance == Spec => []QueueInv
<1>1. QueueInv /\ [Next]_vars => QueueInv'
  <2>1. SUFFICES ASSUME QueueInv, [Next]_vars PROVE QueueInv'
    OBVIOUS
  <2>2. CASE Enqueue
    BY <2>1, <2>2, EnqueueAdds
  <2>3. ASSUME NEW n \in Requests, Dequeue(n) \/ Peek(n) \/ Drop(n) PROVE QueueInv'
    BY <2>1, <2>3, BeginKeeps DEF Dequeue, Peek, Drop
  <2>4. CASE TakeElement
    BY <2>1, <2>4, TakeElementTakes, TakingKeeps
  <2>5. CASE TakeBytes
    BY <2>1, <2>5, TakeBytesTakes, TakingKeeps
  <2>6. CASE Finish
    BY <2>1, <2>6, FinishKeeps
  <2>7. CASE UNCHANGED vars
    BY <2>1, <2>7 DEF vars, QueueInv, TypeOK, Elements, Counted, Waiting, InCall, CallFor,
       Ahead, Content, Units, Unconsumed
  <2>. QED BY <2>1, <2>2, <2>3, <2>4, <2>5, <2>6, <2>7 DEF Next
<1>. QED BY <1>1, InitialQueue, PTL DEF Spec

(* At every pass of the loop the total is the number of bytes not consumed, *)
(* and the loop is at an element as long as bytes are wanted.               *)
THEOREM LoopIsSafe == Spec => []Consistent
<1>1. QueueInv => Consistent
  <2>1. SUFFICES ASSUME QueueInv PROVE Consistent
    OBVIOUS
  <2>2. TypeOK /\ Elements /\ TotalIsContent
    BY <2>1 DEF QueueInv, Counted, TotalIsContent
  <2>3. LoopStaysInside
    <3>1. SUFFICES ASSUME running.busy, running.left > 0
                   PROVE  running.next \in DOMAIN elements
      BY DEF LoopStaysInside
    <3>2. running.next \in 1 .. Len(elements) /\ DOMAIN elements = 1 .. Len(elements)
      BY <2>1, <2>2, <3>1, AtAnElement, Types
    <3>. QED BY <3>2
  <2>. QED BY <2>2, <2>3 DEF Consistent
<1>. QED BY <1>1, QueueInvariance, PTL

(* The queue is a first-in first-out queue of bytes: Finish is the          *)
(* operation of ByteQueue that the flags of the call say, Enqueue is        *)
(* Enqueue, and the passes of the loop do not show.                         *)
THEOREM QueueOfBytes == Spec => ImplementsByteQueue
<1>1. Init => Queue!Init
  BY DEF Init, Queue!Init
<1>2. ASSUME QueueInv, [Next]_vars
      PROVE  [Queue!Next]_<<before, returned>>
  <2>1. CASE Enqueue
    <3>0. PICK n \in BufferSizes :
            \E d \in [1 .. n -> Byte] : before' = before \o d /\ returned' = << >>
      BY <1>2, <2>1, EnqueueAdds
    <3>1. PICK d \in [1 .. n -> Byte] : before' = before \o d /\ returned' = << >>
      BY <3>0
    <3>2. d \in UNION {[1 .. i -> 1 .. MaxBytes] : i \in BufferSizes}
      BY DEF Byte
    <3>. QED BY <3>1, <3>2 DEF Queue!Next, Queue!Enqueue
  <2>2. ASSUME NEW n \in Requests, Dequeue(n) \/ Peek(n) \/ Drop(n)
        PROVE  UNCHANGED <<before, returned>>
    BY <2>2 DEF Dequeue, Peek, Drop, Begin
  <2>3. CASE TakeElement \/ TakeBytes
    BY <2>3 DEF TakeElement, TakeBytes
  <2>4. CASE Finish
    <3>0. TypeOK /\ Elements /\ InCall
      BY <1>2 DEF QueueInv
    <3>1. /\ running.busy /\ running.left = 0
          /\ returned' = running.buffer /\ before' = Content
      BY <2>4 DEF Finish
    <3>2. PICK n \in Requests : CallFor(n)
      BY <3>0, <3>1 DEF InCall
    <3>3. /\ Len(elements) \in Nat
          /\ Units(elements) \in Seq(Seq(Byte)) /\ Len(Units(elements)) = Len(elements)
          /\ Content = FlattenSeq(Units(elements))
          /\ before \in Seq(Byte) /\ Len(before) \in Nat
      BY <3>0, Types
    <3>4. Smaller(n, Len(before)) \in Nat
      BY <3>3, DataQueueAssumption DEF Smaller
    <3>5. Smaller(n, Len(before)) - running.left = Queue!Available(n)
      <4>1. Smaller(n, Len(before)) = Queue!Available(n)
        BY DEF Smaller, Queue!Available
      <4>. QED BY <3>1, <3>4, <4>1
    <3>6. /\ running.buffer = IF running.returnData
                              THEN SubSeq(before, 1, Queue!Available(n)) ELSE << >>
          /\ running.removeData =>
               Ahead = SubSeq(before, Queue!Available(n) + 1, Len(before))
      BY <3>2, <3>5 DEF CallFor
    <3>7. running.removeData => before' = Queue!Rest(n)
      <4>1. SUFFICES ASSUME running.removeData PROVE before' = Queue!Rest(n)
        OBVIOUS
      <4>2. running.next = 1
        BY <3>0, <3>1, <4>1 DEF InCall
      <4>3. Ahead = Content
        BY <3>3, <4>2, AllAhead DEF Ahead
      <4>. QED BY <3>1, <3>6, <4>1, <4>3 DEF Queue!Rest
    <3>8. ~running.removeData => before' = before
      BY <3>0, <3>1 DEF InCall
    <3>9. returned' = IF running.returnData THEN Queue!Front(n) ELSE << >>
      BY <3>1, <3>6 DEF Queue!Front
    <3>10. running.returnData \/ running.removeData
      BY <3>0, <3>1 DEF InCall
    <3>11. Queue!Dequeue(n) \/ Queue!Peek(n) \/ Queue!Drop(n)
      BY <3>7, <3>8, <3>9, <3>10 DEF Queue!Dequeue, Queue!Peek, Queue!Drop
    <3>. QED BY <3>11 DEF Queue!Next
  <2>5. CASE UNCHANGED vars
    BY <2>5 DEF vars
  <2>. QED BY <1>2, <2>1, <2>2, <2>3, <2>4, <2>5 DEF Next
<1>. QED BY <1>1, <1>2, QueueInvariance, PTL DEF Spec, ImplementsByteQueue, Queue!Spec
=============================================================================
