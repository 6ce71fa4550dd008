----------------------------- MODULE StdioProofs -----------------------------
(* Proofs about main's loop and its two buffers: any script, any size of    *)
(* the buffers and of a line, any number of children.                       *)
EXTENDS Stdio, SequenceTheorems, FiniteSetTheorems, WellFoundedInduction, TLAPS

Items == Nat \X Nat
Kid == [id : Items, cmd : Commands, ahead : Nat, out : Seq(Items)]

StdioType ==
    /\ script \in Seq(Cells) /\ seekable \in BOOLEAN /\ tty \in BOOLEAN
    /\ offset \in 0 .. Len(script) /\ unread \in Seq(Cells) /\ eof \in BOOLEAN
    /\ pc \in {"prompt", "fgets", "check", "discard", "run", "wait", "done"}
    /\ line \in Seq(Cells) /\ ran \in Seq(Seq(Cells)) /\ next \in Nat \ {0}
    /\ out \in Seq(Items) /\ shown \in Seq(Items)
    /\ kids \subseteq Kid /\ rewound \in BOOLEAN
-----------------------------------------------------------------------------
(* What is printed.                                                        *)

Count(s, i) == Cardinality({n \in DOMAIN s : s[n] = i})

\* Has the shell come to the j-th command of the l-th line, or past it?
Past(i) == /\ i[1] \in 1 .. Len(ran) /\ i[2] \in 1 .. Len(ran[i[1]])
           /\ i[1] < Len(ran) \/ i[2] < next
Printed(i) == Past(i) /\ ran[i[1]][i[2]] \in Printing \union Background
Forked(l, j) == l < Len(ran) \/ j < next \/ (pc = "wait" /\ j = next)

\* The commands behind item i that have copied it so far.
Copied(i) == {j \in 1 .. Len(ran[i[1]]) :
                /\ j > i[2] /\ ran[i[1]][j] \in Failing \ {"bad >"}
                /\ Forked(i[1], j) /\ \A k \in kids : k.id # <<i[1], j>>}

\* Where main is between two lines there is no command left of the last one, and
\* behind the prompt nothing unwritten.
PlaceInv ==
    /\ pc \in {"run", "wait"} => Len(ran) > 0
    /\ pc = "wait" => /\ next =< Len(Last(ran))
                      /\ command \notin Printing \union Background
    /\ pc \in {"prompt", "fgets", "check", "discard"} /\ Len(ran) > 0 => next > Len(Last(ran))
    /\ pc \in {"fgets", "check", "discard"} => out = <<>>

KidOf(k) ==
    /\ k.id[1] \in 1 .. Len(ran) /\ k.id[2] \in 1 .. Len(ran[k.id[1]])
    /\ k.cmd = ran[k.id[1]][k.id[2]] /\ Forked(k.id[1], k.id[2])
KidsInv ==
    /\ \A k \in kids : KidOf(k)
    /\ \A k, m \in kids : k.id = m.id => k = m

\* Output that a child has a copy of is from its own line, in front of it.
Behind(k, i) == i[1] = k.id[1] /\ i[2] < k.id[2]
CopyOf(k, i) ==
    /\ Count(k.out, i) \in {0, 1}
    /\ Count(k.out, i) = 1 => Behind(k, i) /\ ~ (tty /\ EndsInNewline(i))
    /\ ~ tty /\ Behind(k, i) => Count(k.out, i) = 1

OutOf(i) ==
    /\ Count(out, i) \in {0, 1}
    /\ Count(out, i) = 1 => i[1] = Len(ran) /\ ~ (tty /\ EndsInNewline(i))
    /\ ~ tty /\ i[1] = Len(ran) /\ pc \in {"run", "wait"} => Count(out, i) = 1

\* Written and unwritten, an item is there once, and once more for each copy.
TimesOf(i) ==
    LET n == Count(shown, i) + Count(out, i) IN
    IF ~ tty THEN n = 1 + Cardinality(Copied(i))
    ELSE IF EndsInNewline(i) THEN n = 1
    ELSE n \in 1 .. 1 + Cardinality(Copied(i))

Nowhere(i) == /\ Count(shown, i) = 0 /\ Count(out, i) = 0
              /\ \A k \in kids : Count(k.out, i) = 0
ItemInv(i) == IF Printed(i) THEN OutOf(i) /\ TimesOf(i) /\ \A k \in kids : CopyOf(k, i)
              ELSE Nowhere(i)

PrintInv == pc # "done" => PlaceInv /\ KidsInv /\ \A i \in Items : ItemInv(i)
-----------------------------------------------------------------------------
(* What is read and run.                                                   *)

pos == offset - Len(unread)

\* Where a line may begin.
Base(b) == b = 0 \/ b \in NLs \/ b = Len(script)
NoNL(b, e) == \A j \in b + 1 .. e : script[j] # NL

\* The lines that have run are the good ones up to q.
RunUpTo(q) ==
    /\ Len(ran) = GoodUpTo(q)
    /\ \A n \in 1 .. Len(ran) :
         \E i \in GoodEnds : i =< q /\ GoodUpTo(i) = n /\ ran[n] = do_lex(trim_inplace(LineAt(i)))

\* stdin has read ahead what follows in the script.
AheadInv ==
    /\ Len(unread) =< offset
    /\ \A n \in 1 .. Len(unread) : unread[n] = script[pos + n]
    /\ eof => Len(unread) = 0 /\ offset = Len(script)

\* line is what follows in the script behind b.
LineFrom(b) ==
    /\ b \in 0 .. Len(script) /\ Base(b) /\ pos = b + Len(line)
    /\ \A n \in 1 .. Len(line) : line[n] = script[b + n]
    /\ RunUpTo(b)

LinesInv ==
    /\ AheadInv
    /\ pc \in {"prompt", "run", "wait"} => Base(pos) /\ RunUpTo(pos)
    /\ pc = "fgets" => \E b \in 0 .. pos :
         LineFrom(b) /\ NoNL(b, pos) /\ Len(line) < MAX_LINE - 1
    /\ pc = "check" => \E b \in 0 .. pos - 1 :
         /\ LineFrom(b) /\ NoNL(b, pos - 1) /\ Len(line) =< MAX_LINE - 1
         /\ script[pos] = NL \/ Len(line) = MAX_LINE - 1 \/ pos = Len(script)
    /\ pc = "discard" => \E b \in 0 .. pos :
         /\ Base(b) /\ NoNL(b, pos) /\ RunUpTo(b)
         /\ pos - b >= MAX_LINE - 1 \/ pos = Len(script)
    /\ pc = "done" => \E q \in 0 .. Len(script) :
         RunUpTo(q) /\ (q = Len(script) \/ Contains(Last(ran), "exit"))
ReadInv == ~ rewound => LinesInv
-----------------------------------------------------------------------------
(* Counting what a sequence holds.                                         *)

LEMMA CountEmpty == \A i : Count(<<>>, i) = 0
  <1> TAKE i
  <1>1. \A s : s = <<>> => {n \in DOMAIN s : s[n] = i} = {}
    OBVIOUS
  <1> QED
    BY <1>1, FS_EmptySet DEF Count

LEMMA CountFinite ==
  ASSUME NEW S, NEW s \in Seq(S), NEW i
  PROVE  IsFiniteSet({n \in DOMAIN s : s[n] = i}) /\ Count(s, i) \in Nat
  <1>1. DOMAIN s = 1 .. Len(s) /\ Len(s) \in Nat
    BY LenProperties
  <1>2. IsFiniteSet(1 .. Len(s))
    BY <1>1, FS_Interval
  <1>3. IsFiniteSet({n \in DOMAIN s : s[n] = i})
    BY <1>1, <1>2, FS_Subset
  <1> QED
    BY <1>3, FS_CardinalityType DEF Count

LEMMA CountConcat ==
  ASSUME NEW S, NEW s \in Seq(S), NEW t \in Seq(S), NEW i
  PROVE  Count(s \o t, i) = Count(s, i) + Count(t, i)
  <1>1. PICK u : u = s \o t
    OBVIOUS
  <1>2. /\ Len(s) \in Nat /\ Len(t) \in Nat /\ Len(u) = Len(s) + Len(t) /\ u \in Seq(S)
        /\ \A n \in 1 .. Len(s) : u[n] = s[n]
        /\ \A n \in Len(s) + 1 .. Len(s) + Len(t) : u[n] = t[n - Len(s)]
    BY <1>1, ConcatProperties, LenProperties
  <1>3. DOMAIN s = 1 .. Len(s) /\ DOMAIN t = 1 .. Len(t) /\ DOMAIN u = 1 .. Len(u)
    BY <1>2, LenProperties
  <1> DEFINE A == {n \in DOMAIN s : s[n] = i}
             B == {n \in DOMAIN t : t[n] = i}
             C == {n \in Len(s) + 1 .. Len(u) : u[n] = i}
             D == {n \in DOMAIN u : u[n] = i}
             f == [n \in B |-> Len(s) + n]
  <1>4. IsFiniteSet(A) /\ IsFiniteSet(B)
    BY CountFinite
  <1>5. \A n \in 1 .. Len(t) : Len(s) + n \in Len(s) + 1 .. Len(u) /\ u[Len(s) + n] = t[n]
    <2> SUFFICES ASSUME NEW n \in 1 .. Len(t)
                 PROVE  Len(s) + n \in Len(s) + 1 .. Len(u) /\ u[Len(s) + n] = t[n]
      OBVIOUS
    <2>1. Len(s) + n \in Len(s) + 1 .. Len(s) + Len(t) /\ (Len(s) + n) - Len(s) = n
      BY <1>2
    <2> QED
      BY <1>2, <2>1
  <1>6. f \in Bijection(B, C)
    <2>1. f \in [B -> C]
      BY <1>3, <1>5
    <2>2. \A m, n \in B : f[m] = f[n] => m = n
      BY <1>2, <1>3
    <2>3. ASSUME NEW c \in C PROVE \E n \in B : f[n] = c
      <3>1. c - Len(s) \in 1 .. Len(t) /\ t[c - Len(s)] = i /\ Len(s) + (c - Len(s)) = c
        BY <1>2
      <3> QED
        BY <1>3, <3>1
    <2> HIDE DEF f, B, C
    <2> QED
      BY <2>1, <2>2, <2>3 DEF Bijection, Injection, Surjection, IsInjective
  <1>7. IsFiniteSet(C) /\ Cardinality(C) = Cardinality(B)
    <2> HIDE DEF f, B, C
    <2> QED
      BY <1>4, <1>6, FS_Bijection DEF ExistsBijection
  <1>8. D = A \union C /\ A \intersect C = {}
    <2>1. 1 .. Len(u) = (1 .. Len(s)) \union (Len(s) + 1 .. Len(u))
      BY <1>2
    <2>2. (1 .. Len(s)) \intersect (Len(s) + 1 .. Len(u)) = {}
      BY <1>2
    <2> QED
      BY <1>2, <1>3, <2>1, <2>2
  <1>9. Cardinality(D) = Cardinality(A) + Cardinality(B)
    <2> HIDE DEF A, B, C, D, f
    <2>1. Cardinality(A \union C) = Cardinality(A) + Cardinality(C) - Cardinality(A \intersect C)
      BY <1>4, <1>7, FS_Union
    <2>2. Cardinality(A \intersect C) = 0
      BY <1>8, FS_EmptySet
    <2>3. Cardinality(A) \in Nat /\ Cardinality(C) \in Nat
      BY <1>4, <1>7, FS_CardinalityType
    <2> QED
      BY <1>7, <1>8, <2>1, <2>2, <2>3
  <1> QED
    BY <1>1, <1>9 DEF Count

LEMMA CountAppend ==
  ASSUME NEW S, NEW s \in Seq(S), NEW e \in S, NEW i
  PROVE  Count(Append(s, e), i) = Count(s, i) + (IF e = i THEN 1 ELSE 0)
  <1>3. PICK t : t = <<e>>
    OBVIOUS
  <1>1. Append(s, e) = s \o t /\ t \in Seq(S)
    BY <1>3, AppendIsConcat
  <1>2. Count(Append(s, e), i) = Count(s, i) + Count(t, i)
    BY <1>1, CountConcat
  <1>4. DOMAIN t = {1} /\ t[1] = e
    BY <1>3
  <1>5. {n \in DOMAIN t : t[n] = i} = IF e = i THEN {1} ELSE {}
    BY <1>4
  <1>6. Count(t, i) = IF e = i THEN 1 ELSE 0
    BY <1>5, FS_EmptySet, FS_Singleton DEF Count
  <1> QED
    BY <1>2, <1>6
-----------------------------------------------------------------------------
(* Types.                                                                  *)

LEMMA LeastBy ==
  ASSUME NEW R, IsWellFoundedOn(R, Nat), \A x, y \in Nat : y < x => <<y, x>> \in R,
         NEW S, S \subseteq Nat, S # {}
  PROVE  \E x \in S : \A y \in S : x =< y
  <1>1. PICK x \in S : \A y \in S : ~ (<<y, x>> \in R)
    BY WFMin
  <1>2. \A y \in S : ~ (y < x)
    BY <1>1
  <1> QED
    BY <1>2

\* Every set of naturals that is not empty has a least element.
LEMMA LeastIn ==
  ASSUME NEW S, S \subseteq Nat, S # {}
  PROVE  \E x \in S : \A y \in S : x =< y
  <1>1. \A x, y \in Nat : y < x => <<y, x>> \in OpToRel(<, Nat)
    BY DEF OpToRel
  <1> QED
    BY <1>1, NatLessThanWellFounded, LeastBy

\* The loop of do_lex: what is kept of the first cells of l.
Kept(l, k, N) ==
    k = [i \in 0 .. N |->
           IF i = 0 THEN <<>>
           ELSE IF l[i] \in Blanks THEN k[i - 1] ELSE Append(k[i - 1], l[i])]

LEMMA KeptExists ==
  ASSUME NEW S, NEW l \in Seq(S), NEW N \in 0 .. Len(l)
  PROVE  \E k \in [0 .. N -> Seq(S)] : Kept(l, k, N)
  <1> DEFINE Bad == {m \in 0 .. Len(l) : ~ \E k \in [0 .. m -> Seq(S)] : Kept(l, k, m)}
  <1> SUFFICES ASSUME Bad # {} PROVE FALSE
    OBVIOUS
  <1>1. Len(l) \in Nat /\ \A i \in 1 .. Len(l) : l[i] \in S
    BY LenProperties, ElementOfSeq
  <1>2. Bad \subseteq Nat
    OBVIOUS
  <1>3. PICK m \in Bad : \A j \in Bad : m =< j
    <2> HIDE DEF Bad
    <2> QED
      BY <1>2, LeastIn
  <1>4. CASE m = 0
    <2> DEFINE k == [i \in 0 .. 0 |-> <<>>]
    <2>1. k \in [0 .. 0 -> Seq(S)]
      BY EmptySeq
    <2>2. Kept(l, k, 0)
      <3>1. \A i \in 0 .. 0 : i = 0
        OBVIOUS
      <3> QED
        BY <3>1 DEF Kept
    <2> QED
      BY <1>3, <1>4, <2>1, <2>2
  <1>5. CASE m # 0
    <2>1. m \in 1 .. Len(l) /\ m - 1 \in 0 .. Len(l) /\ ~ (m =< m - 1)
      BY <1>1, <1>3, <1>5
    <2>2. PICK k \in [0 .. m - 1 -> Seq(S)] : Kept(l, k, m - 1)
      BY <1>3, <2>1
    <2> DEFINE e == IF l[m] \in Blanks THEN k[m - 1] ELSE Append(k[m - 1], l[m])
               h == [i \in 0 .. m |-> IF i = m THEN e ELSE k[i]]
    <2>3. e \in Seq(S)
      <3>1. k[m - 1] \in Seq(S) /\ l[m] \in S
        BY <1>1, <2>1
      <3> QED
        BY <3>1, AppendProperties
    <2>4. h \in [0 .. m -> Seq(S)]
      <3> HIDE DEF e
      <3> QED
        BY <2>1, <2>3
    <2>5. ASSUME NEW i \in 0 .. m
          PROVE  h[i] = IF i = 0 THEN <<>>
                        ELSE IF l[i] \in Blanks THEN h[i - 1] ELSE Append(h[i - 1], l[i])
      <3>1. CASE i = m
        <4>1. h[m] = e /\ h[m - 1] = k[m - 1]
          <5> HIDE DEF e
          <5> QED
            BY <2>1
        <4> HIDE DEF h
        <4> QED
          BY <1>5, <3>1, <4>1
      <3>2. CASE i # m
        <4>1. i \in 0 .. m - 1 /\ h[i] = k[i] /\ (i # 0 => h[i - 1] = k[i - 1])
          <5> HIDE DEF e
          <5> QED
            BY <2>1, <3>2
        <4>2. k[i] = IF i = 0 THEN <<>>
                     ELSE IF l[i] \in Blanks THEN k[i - 1] ELSE Append(k[i - 1], l[i])
          BY <2>2, <4>1 DEF Kept
        <4> QED
          BY <4>1, <4>2
      <3> QED
        BY <3>1, <3>2
    <2>6. h = [i \in 0 .. m |-> h[i]]
      OBVIOUS
    <2> HIDE DEF h, e
    <2>7. Kept(l, h, m)
      BY <2>5, <2>6 DEF Kept
    <2> QED
      BY <1>3, <2>4, <2>7
  <1> QED
    BY <1>4, <1>5

LEMMA KeptOnce ==
  ASSUME NEW S, NEW l \in Seq(S), NEW j, NEW k, Kept(l, j, Len(l)), Kept(l, k, Len(l))
  PROVE  j[Len(l)] = k[Len(l)]
  <1> DEFINE Bad == {m \in 0 .. Len(l) : j[m] # k[m]}
  <1>1. Len(l) \in Nat
    BY LenProperties
  <1>2. Bad = {}
    <2> SUFFICES ASSUME Bad # {} PROVE FALSE
      OBVIOUS
    <2>1. Bad \subseteq Nat
      OBVIOUS
    <2>2. PICK m \in Bad : \A i \in Bad : m =< i
      <3> HIDE DEF Bad
      <3> QED
        BY <2>1, LeastIn
    <2>3. j[m] = (IF m = 0 THEN <<>>
                  ELSE IF l[m] \in Blanks THEN j[m - 1] ELSE Append(j[m - 1], l[m]))
      BY DEF Kept
    <2>4. k[m] = (IF m = 0 THEN <<>>
                  ELSE IF l[m] \in Blanks THEN k[m - 1] ELSE Append(k[m - 1], l[m]))
      BY DEF Kept
    <2>5. m # 0 => m - 1 \in 0 .. Len(l) /\ ~ (m =< m - 1)
      BY <1>1
    <2>6. m # 0 => j[m - 1] = k[m - 1]
      BY <2>2, <2>5
    <2>7. j[m] = k[m]
      <3>1. CASE m = 0
        BY <2>3, <2>4, <3>1
      <3>2. CASE m # 0
        BY <2>3, <2>4, <2>6, <3>2
      <3> QED
        BY <3>1, <3>2
    <2> QED
      BY <2>2, <2>7
  <1>3. Len(l) \in 0 .. Len(l)
    BY <1>1
  <1> QED
    BY <1>2, <1>3

LEMMA LexType ==
  ASSUME NEW S, NEW l \in Seq(S)
  PROVE  do_lex(l) \in Seq(S)
  <1> DEFINE k == CHOOSE k : Kept(l, k, Len(l))
  <1>1. Len(l) \in Nat /\ Len(l) \in 0 .. Len(l)
    BY LenProperties
  <1>2. PICK j \in [0 .. Len(l) -> Seq(S)] : Kept(l, j, Len(l))
    BY <1>1, KeptExists
  <1>3. Kept(l, k, Len(l))
    BY <1>2
  <1>4. do_lex(l) = k[Len(l)]
    BY DEF do_lex, Kept
  <1> HIDE DEF k
  <1>5. k[Len(l)] = j[Len(l)]
    BY <1>2, <1>3, KeptOnce
  <1> QED
    BY <1>1, <1>4, <1>5

\* The first and the last cell that trim_inplace keeps.
LEMMA TrimIs ==
  ASSUME NEW S, NEW l \in Seq(S), NEW K, K = {i \in DOMAIN l : l[i] \notin Blanks}, K # {}
  PROVE  /\ Min(K) \in K /\ Max(K) \in K /\ \A i \in K : Min(K) =< i /\ i =< Max(K)
         /\ trim_inplace(l) = SubSeq(l, Min(K), Max(K))
  <1>1. Len(l) \in Nat /\ DOMAIN l = 1 .. Len(l) /\ K \subseteq 1 .. Len(l)
    BY LenProperties
  <1>2. \E x \in K : \A y \in K : x =< y
    BY <1>1, LeastIn
  <1>3. Min(K) \in K /\ \A i \in K : Min(K) =< i
    BY <1>2 DEF Min
  <1>4. \E x \in K : \A y \in K : x >= y
    <2> DEFINE D == {Len(l) - i : i \in K}
    <2>1. D \subseteq Nat /\ D # {}
      BY <1>1
    <2>2. PICK d \in D : \A y \in D : d =< y
      <3> HIDE DEF D
      <3> QED
        BY <2>1, LeastIn
    <2>3. PICK x \in K : d = Len(l) - x
      BY <2>2
    <2>4. ASSUME NEW y \in K PROVE x >= y
      <3>1. Len(l) - y \in D
        OBVIOUS
      <3>2. d =< Len(l) - y
        BY <2>2, <3>1
      <3> QED
        BY <1>1, <2>3, <3>2
    <2> QED
      BY <2>4
  <1>5. Max(K) \in K /\ \A i \in K : Max(K) >= i
    BY <1>4 DEF Max
  <1>6. \A i \in K : i =< Max(K)
    BY <1>1, <1>5
  <1>7. trim_inplace(l) = SubSeq(l, Min(K), Max(K))
    BY DEF trim_inplace
  <1> QED
    BY <1>3, <1>5, <1>6, <1>7

LEMMA TrimType ==
  ASSUME NEW S, NEW l \in Seq(S)
  PROVE  trim_inplace(l) \in Seq(S)
  <1> DEFINE K == {i \in DOMAIN l : l[i] \notin Blanks}
  <1>1. CASE K = {}
    BY <1>1, EmptySeq DEF trim_inplace
  <1>2. CASE K # {}
    <2>1. PICK k : k = K
      OBVIOUS
    <2>2. DOMAIN l = 1 .. Len(l) /\ k # {} /\ k = {i \in DOMAIN l : l[i] \notin Blanks}
      BY <1>2, <2>1, LenProperties
    <2> HIDE DEF K
    <2>4. Min(k) \in k /\ Max(k) \in k /\ trim_inplace(l) = SubSeq(l, Min(k), Max(k))
      BY <2>2, TrimIs, Zenon
    <2>5. Min(k) \in 1 .. Len(l) /\ Max(k) \in 1 .. Len(l)
      BY <2>2, <2>4
    <2>3. \A j \in Min(k) .. Max(k) : l[j] \in S
      BY <2>5, ElementOfSeq, LenProperties
    <2> QED
      BY <2>3, <2>4, <2>5, LenProperties, SubSeqProperties
  <1> QED
    BY <1>1, <1>2

LEMMA InitType == Init => StdioType
  <1> SUFFICES ASSUME Init PROVE StdioType
    OBVIOUS
  <1>1. script \in Seq(Cells)
    BY StdioAssumption DEF Init
  <1>2. Len(script) \in Nat
    BY <1>1, LenProperties
  <1>3. <<>> \in Seq(Cells) /\ <<>> \in Seq(Seq(Cells)) /\ <<>> \in Seq(Items)
    BY EmptySeq
  <1>4. unread \in Seq(Cells) /\ line \in Seq(Cells)
    BY <1>3 DEF Init
  <1>5. ran \in Seq(Seq(Cells)) /\ out \in Seq(Items) /\ shown \in Seq(Items)
    BY <1>3 DEF Init
  <1>6. seekable \in BOOLEAN /\ tty \in BOOLEAN /\ eof \in BOOLEAN /\ rewound \in BOOLEAN
    BY DEF Init
  <1>7. offset \in 0 .. Len(script) /\ pc = "prompt" /\ next = 1 /\ kids = {}
    <2>1. offset = 0
      BY DEF Init
    <2> QED
      BY <1>2, <2>1 DEF Init
  <1> QED
    BY <1>1, <1>4, <1>5, <1>6, <1>7 DEF StdioType

LEMMA PrintfType ==
  ASSUME StdioType, printf
  PROVE  out' \in Seq(Items) /\ shown' \in Seq(Items)
  <1>1. Item \in Items
    <2>1. Len(ran) \in Nat /\ next \in Nat
      BY LenProperties DEF StdioType
    <2> QED
      BY <2>1 DEF Item, Items
  <1>2. out \in Seq(Items) /\ shown \in Seq(Items)
    BY DEF StdioType
  <1>3. CASE tty /\ EndsInNewline(Item)
    <2>1. shown \o out \in Seq(Items)
      BY <1>2, ConcatProperties
    <2>2. Append(shown \o out, Item) \in Seq(Items)
      BY <1>1, <2>1, AppendProperties
    <2> QED
      BY <1>3, <2>2, EmptySeq DEF printf
  <1>4. CASE ~ (tty /\ EndsInNewline(Item))
    <2>1. Append(out, Item) \in Seq(Items)
      BY <1>1, <1>2, AppendProperties
    <2> QED
      BY <1>2, <1>4, <2>1 DEF printf
  <1> QED
    BY <1>3, <1>4

LEMMA NextType == StdioType /\ [Next]_vars => StdioType'
  <1> SUFFICES ASSUME StdioType, [Next]_vars PROVE StdioType'
    OBVIOUS
  <1> USE DEF StdioType
  <1>1. CASE Prompt
    <2>1. shown \o out \in Seq(Items) /\ <<>> \in Seq(Items) /\ <<>> \in Seq(Cells)
      BY ConcatProperties, EmptySeq
    <2> QED
      BY <1>1, <2>1 DEF Prompt, Goes, input, in
  <1>2. CASE Fill
    <2>1. PICK n \in IF seekable \/ Len(script) - offset = 0
                     THEN {IF Len(script) - offset < BufSize THEN Len(script) - offset ELSE BufSize}
                     ELSE 1 .. Len(script) - offset :
             /\ unread' = SubSeq(script, offset + 1, offset + n)
             /\ offset' = offset + n /\ eof' = (n = 0)
      BY <1>2 DEF Fill
    <2>2. Len(script) \in Nat /\ offset \in Nat /\ offset =< Len(script)
      BY LenProperties
    <2>3. n \in 0 .. Len(script) - offset
      BY <2>2, StdioAssumption
    <2>4. offset + 1 \in Int /\ offset + n \in Int /\ \A j \in offset + 1 .. offset + n : j \in 1 .. Len(script)
      BY <2>2, <2>3
    <2>5. \A j \in offset + 1 .. offset + n : script[j] \in Cells
      BY <2>4, ElementOfSeq
    <2>6. SubSeq(script, offset + 1, offset + n) \in Seq(Cells)
      BY <2>4, <2>5, SubSeqProperties
    <2>7. offset' \in 0 .. Len(script) /\ eof' \in BOOLEAN /\ unread' \in Seq(Cells)
      BY <2>1, <2>2, <2>3, <2>6
    <2> QED
      BY <1>2, <2>7 DEF Fill, input
  <1>3. ASSUME Uses PROVE unread' \in Seq(Cells) /\ Head(unread) \in Cells
    BY <1>3, HeadTailProperties DEF Uses
  <1>4. CASE fgets
    <2>1. Append(line, Head(unread)) \in Seq(Cells) /\ unread' \in Seq(Cells)
      BY <1>3, <1>4, AppendProperties DEF fgets
    <2>2. pc' \in {"check", "fgets"}
      BY <1>4 DEF fgets
    <2> QED
      BY <1>4, <2>1, <2>2 DEF fgets, Quiet, input
  <1>5. CASE fgets_at_end
    <2>1. pc' \in {"done", "check"}
      BY <1>5 DEF fgets_at_end, Goes
    <2> QED
      BY <1>5, <2>1 DEF fgets_at_end, Quiet, input
  <1>6. CASE discard_rest_of_line
    <2>1. pc' \in {"prompt", "discard"} /\ unread' \in Seq(Cells)
      BY <1>3, <1>6 DEF discard_rest_of_line
    <2> QED
      BY <1>6, <2>1 DEF discard_rest_of_line, Quiet, input
  <1>7. CASE Check
    <2>1. do_lex(trim_inplace(line)) \in Seq(Cells)
      BY TrimType, LexType
    <2>2. Append(ran, do_lex(trim_inplace(line))) \in Seq(Seq(Cells))
      BY <2>1, AppendProperties
    <2>3. \/ pc' \in {"discard", "prompt"} /\ UNCHANGED <<ran, next>>
          \/ pc' = "run" /\ ran' = Append(ran, do_lex(trim_inplace(line))) /\ next' = 1
      BY <1>7 DEF Check
    <2>4. UNCHANGED <<script, seekable, tty, offset, unread, eof, line, out, shown, kids, rewound>>
      BY <1>7 DEF Check, input, in
    <2>5. ran' \in Seq(Seq(Cells)) /\ next' \in Nat \ {0}
      <3>1. CASE UNCHANGED <<ran, next>>
        BY <3>1
      <3>2. CASE ran' = Append(ran, do_lex(trim_inplace(line))) /\ next' = 1
        <4>1. ran' \in Seq(Seq(Cells))
          BY <2>2, <3>2
        <4> QED
          BY <3>2, <4>1
      <3> QED
        BY <2>3, <3>1, <3>2
    <2>6. pc' \in {"prompt", "fgets", "check", "discard", "run", "wait", "done"}
      BY <2>3
    <2> QED
      BY <2>4, <2>5, <2>6
  <1>8. CASE Builtin
    <2>1. out' \in Seq(Items) /\ shown' \in Seq(Items)
      BY <1>8, PrintfType DEF Builtin
    <2>2. /\ UNCHANGED <<script, seekable, tty, offset, unread, eof, pc, line, ran, kids, rewound>>
          /\ next' = next + 1
      BY <1>8 DEF Builtin, input, in
    <2> QED
      BY <2>1, <2>2
  <1>9. CASE killmb
    <2>1. Item \in Items
      <3>1. Len(ran) \in Nat
        BY LenProperties
      <3> QED
        BY <3>1 DEF Item, Items
    <2>2. shown \o Append(out, Item) \in Seq(Items) /\ <<>> \in Seq(Items)
      BY <2>1, AppendProperties, ConcatProperties, EmptySeq
    <2> QED
      BY <1>9, <2>2 DEF killmb, input, in
  <1>10. CASE run_cmd
    <2>1. out' \in Seq(Items) /\ shown' \in Seq(Items)
      BY <1>10, PrintfType DEF run_cmd
    <2>2. Item \in Items /\ Len(unread) \in Nat
      <3>1. Len(ran) \in Nat /\ Len(unread) \in Nat
        BY LenProperties
      <3> QED
        BY <3>1 DEF Item, Items
    <2>3. command \in Commands
      BY <1>10 DEF run_cmd, Commands
    <2>4. [id |-> Item, cmd |-> command, ahead |-> Len(unread), out |-> out] \in Kid
      BY <2>2, <2>3 DEF Kid
    <2>5. kids' \subseteq Kid
      BY <1>10, <2>4 DEF run_cmd
    <2>6. pc' \in {pc, "wait"} /\ next' \in Nat \ {0}
      BY <1>10 DEF run_cmd
    <2> QED
      BY <1>10, <2>1, <2>5, <2>6 DEF run_cmd, input, in
  <1>11. CASE Waited
    BY <1>11 DEF Waited, Goes, input, in
  <1>12. CASE LineEnds
    BY <1>12 DEF LineEnds, Goes, input, in
  <1>13. ASSUME NEW k \in kids, Execs(k) PROVE StdioType'
    BY <1>13 DEF Execs, input, in
  <1>14. ASSUME NEW k \in kids, Exits(k) PROVE StdioType'
    <2>1. k \in Kid
      OBVIOUS
    <2>2. shown \o k.out \in Seq(Items)
      BY <2>1, ConcatProperties DEF Kid
    <2>3. shown' \in Seq(Items)
      BY <1>14, <2>2 DEF Exits
    <2>4. Len(script) \in Nat /\ offset \in Nat /\ offset =< Len(script)
      BY LenProperties
    <2>5. offset' \in 0 .. Len(script) /\ rewound' \in BOOLEAN
      <3>1. CASE offset' = offset - k.ahead /\ rewound' = TRUE /\ k.ahead \in 1 .. offset
        BY <2>4, <3>1
      <3>2. CASE UNCHANGED <<offset, rewound>>
        BY <3>2
      <3> QED
        BY <1>14, <3>1, <3>2 DEF Exits
    <2> QED
      BY <1>14, <2>3, <2>5 DEF Exits, input
  <1>15. CASE UNCHANGED vars
    BY <1>15 DEF vars, input, in
  <1> QED
    BY <1>1, <1>2, <1>4, <1>5, <1>6, <1>7, <1>8, <1>9, <1>10, <1>11, <1>12, <1>13, <1>14, <1>15
       DEF Next
-----------------------------------------------------------------------------
(* Printing, step by step.                                                 *)

LEMMA LinesAre ==
  ASSUME StdioType
  PROVE  /\ Len(ran) \in Nat /\ Item \in Items
         /\ \A l \in 1 .. Len(ran) : /\ ran[l] \in Seq(Cells) /\ Len(ran[l]) \in Nat
                                     /\ DOMAIN ran[l] = 1 .. Len(ran[l])
  <1>1. Len(ran) \in Nat /\ \A l \in 1 .. Len(ran) : ran[l] \in Seq(Cells)
    BY LenProperties, ElementOfSeq DEF StdioType
  <1>2. Item \in Items
    BY <1>1 DEF Item, Items, StdioType
  <1> QED
    BY <1>1, <1>2, LenProperties

LEMMA CopiedFinite ==
  ASSUME StdioType, NEW i, Past(i)
  PROVE  IsFiniteSet(Copied(i)) /\ Cardinality(Copied(i)) \in Nat
  <1>1. Len(ran[i[1]]) \in Nat
    BY LinesAre DEF Past
  <1>2. IsFiniteSet(1 .. Len(ran[i[1]])) /\ Copied(i) \subseteq 1 .. Len(ran[i[1]])
    <2>1. IsFiniteSet(1 .. Len(ran[i[1]]))
      BY <1>1, FS_Interval
    <2> QED
      BY <2>1 DEF Copied
  <1>3. IsFiniteSet(Copied(i))
    BY <1>2, FS_Subset
  <1> QED
    BY <1>3, FS_CardinalityType

LEMMA CountsAre ==
  ASSUME StdioType, NEW i
  PROVE  /\ Count(out, i) \in Nat /\ Count(shown, i) \in Nat
         /\ \A k \in kids : Count(k.out, i) \in Nat
  <1>1. out \in Seq(Items) /\ shown \in Seq(Items) /\ \A k \in kids : k.out \in Seq(Items)
    BY DEF StdioType, Kid
  <1> QED
    BY <1>1, CountFinite

LEMMA InitPrint == Init => PrintInv
  <1> SUFFICES ASSUME Init PROVE PrintInv
    OBVIOUS
  <1>1. ran = <<>> /\ out = <<>> /\ shown = <<>> /\ kids = {} /\ pc = "prompt"
    BY DEF Init
  <1>2. Len(ran) = 0
    BY <1>1
  <1>3. PlaceInv /\ KidsInv
    BY <1>1, <1>2 DEF PlaceInv, KidsInv
  <1>4. ASSUME NEW i \in Items PROVE ItemInv(i)
    <2>1. ~ Printed(i)
      BY <1>2 DEF Printed, Past
    <2>2. Nowhere(i)
      BY <1>1, CountEmpty DEF Nowhere
    <2> QED
      BY <2>1, <2>2 DEF ItemInv
  <1> QED
    BY <1>3, <1>4 DEF PrintInv

\* A step that runs no command and prints nothing.
LEMMA RestPrint ==
  ASSUME StdioType, PrintInv, pc # "done", UNCHANGED <<ran, next, kids, out, shown, tty>>,
         pc' = "wait" <=> pc = "wait", pc' \in {"run", "wait"} => pc \in {"run", "wait"},
         PlaceInv'
  PROVE  PrintInv'
  <1>1. PlaceInv /\ KidsInv /\ \A i \in Items : ItemInv(i)
    BY DEF PrintInv
  <1>2. \A l, j : Forked(l, j)' <=> Forked(l, j)
    BY DEF Forked
  <1>3. KidsInv'
    BY <1>1, <1>2 DEF KidsInv, KidOf
  <1>4. ASSUME NEW i \in Items PROVE ItemInv(i)'
    <2>1. Printed(i)' <=> Printed(i)
      BY DEF Printed, Past
    <2>2. Copied(i)' = Copied(i)
      BY <1>2 DEF Copied
    <2>3. ItemInv(i)
      BY <1>1
    <2>4. CASE Printed(i)
      <3>1. OutOf(i) /\ TimesOf(i) /\ \A k \in kids : CopyOf(k, i)
        BY <2>3, <2>4 DEF ItemInv
      <3>2. OutOf(i)'
        BY <3>1 DEF OutOf, EndsInNewline
      <3>3. TimesOf(i)'
        BY <2>2, <3>1 DEF TimesOf, EndsInNewline
      <3>4. \A k \in kids' : CopyOf(k, i)'
        BY <3>1 DEF CopyOf, EndsInNewline, Behind
      <3> QED
        BY <2>1, <2>4, <3>2, <3>3, <3>4 DEF ItemInv
    <2>5. CASE ~ Printed(i)
      BY <2>1, <2>3, <2>5 DEF ItemInv, Nowhere
    <2> QED
      BY <2>4, <2>5
  <1> QED
    BY <1>3, <1>4 DEF PrintInv

LEMMA PromptPrint ==
  ASSUME StdioType, PrintInv, Prompt PROVE PrintInv'
  <1>1. /\ pc = "prompt" /\ pc' = "fgets" /\ shown' = shown \o out /\ out' = <<>>
        /\ UNCHANGED <<ran, next, kids, tty>>
    BY DEF Prompt, Goes, input
  <1>2. PlaceInv /\ KidsInv /\ \A i \in Items : ItemInv(i)
    BY <1>1 DEF PrintInv
  <1>3. PlaceInv'
    BY <1>1, <1>2 DEF PlaceInv
  <1>4. \A l, j : Forked(l, j)' <=> Forked(l, j)
    BY <1>1 DEF Forked
  <1>5. KidsInv'
    BY <1>1, <1>2, <1>4 DEF KidsInv, KidOf
  <1>6. ASSUME NEW i \in Items PROVE ItemInv(i)'
    <2>1. Printed(i)' <=> Printed(i)
      BY <1>1 DEF Printed, Past
    <2>2. Copied(i)' = Copied(i)
      BY <1>1, <1>4 DEF Copied
    <2>3. ItemInv(i)
      BY <1>2
    <2>4. Count(shown', i) = Count(shown, i) + Count(out, i) /\ Count(out', i) = 0
      BY <1>1, CountConcat, CountEmpty DEF StdioType
    <2>5. Count(shown, i) \in Nat /\ Count(out, i) \in Nat
      BY CountsAre
    <2>6. CASE Printed(i)
      <3>1. OutOf(i) /\ TimesOf(i) /\ \A k \in kids : CopyOf(k, i)
        BY <2>3, <2>6 DEF ItemInv
      <3>2. OutOf(i)'
        BY <1>1, <2>4 DEF OutOf
      <3>3. TimesOf(i)'
        <4>1. Count(shown', i) + Count(out', i) = Count(shown, i) + Count(out, i)
          BY <2>4, <2>5
        <4>2. tty' = tty /\ EndsInNewline(i)' = EndsInNewline(i)
          BY <1>1 DEF EndsInNewline
        <4> QED
          BY <2>2, <3>1, <4>1, <4>2 DEF TimesOf
      <3>4. \A k \in kids' : CopyOf(k, i)'
        BY <1>1, <3>1 DEF CopyOf, EndsInNewline, Behind
      <3> QED
        BY <2>1, <2>6, <3>2, <3>3, <3>4 DEF ItemInv
    <2>7. CASE ~ Printed(i)
      <3>1. Nowhere(i)
        BY <2>3, <2>7 DEF ItemInv
      <3>2. Nowhere(i)'
        BY <1>1, <2>4, <3>1 DEF Nowhere
      <3> QED
        BY <2>1, <2>7, <3>2 DEF ItemInv
    <2> QED
      BY <2>6, <2>7
  <1> QED
    BY <1>3, <1>5, <1>6 DEF PrintInv

\* A line begins: all of the one before is behind it.
LEMMA StartPrint ==
  ASSUME StdioType, PrintInv, pc = "check", pc' = "run", NEW l \in Seq(Cells),
         ran' = Append(ran, l), next' = 1, UNCHANGED <<kids, out, shown, tty>>
  PROVE  PrintInv'
  <1>1. PlaceInv /\ KidsInv /\ \A i \in Items : ItemInv(i)
    BY DEF PrintInv
  <1>2. ran \in Seq(Seq(Cells)) /\ Len(ran) \in Nat /\ next \in Nat
    BY LenProperties DEF StdioType
  <1>3. Len(ran') = Len(ran) + 1 /\ \A n \in 1 .. Len(ran) : ran'[n] = ran[n]
    BY <1>2, AppendProperties
  <1>4. out = <<>> /\ (Len(ran) > 0 => next > Len(ran[Len(ran)]))
    BY <1>1 DEF PlaceInv, Last
  <1>5. \A n \in 1 .. Len(ran) : Len(ran[n]) \in Nat
    BY LinesAre
  <1>6. \A n \in 1 .. Len(ran), j \in Nat : j =< Len(ran[n]) => Forked(n, j) /\ (n < Len(ran) \/ j < next)
    BY <1>2, <1>4, <1>5 DEF Forked
  <1>7. \A n \in 1 .. Len(ran), j \in Nat : Forked(n, j)'
    BY <1>2, <1>3 DEF Forked
  <1>8. PlaceInv'
    BY <1>2, <1>3 DEF PlaceInv
  <1>9. KidsInv'
    <2>1. ASSUME NEW k \in kids PROVE KidOf(k)'
      <3>1. KidOf(k)
        BY <1>1 DEF KidsInv
      <3>2. k.id[1] \in 1 .. Len(ran) /\ k.id[2] \in 1 .. Len(ran[k.id[1]]) /\ k.id[2] \in Nat
        BY <3>1, <1>5 DEF KidOf
      <3>3. k.id[1] \in 1 .. Len(ran')
        BY <1>2, <1>3, <3>2
      <3>4. Forked(k.id[1], k.id[2])' /\ ran'[k.id[1]] = ran[k.id[1]]
        BY <1>3, <1>7, <3>2
      <3> QED
        BY <3>1, <3>2, <3>3, <3>4 DEF KidOf
    <2> QED
      BY <1>1, <2>1 DEF KidsInv
  <1>10. ASSUME NEW i \in Items PROVE ItemInv(i)'
    <2>1. ItemInv(i) /\ i[1] \in Nat /\ i[2] \in Nat
      BY <1>1 DEF Items
    <2>2. CASE Printed(i)
      <3>1. OutOf(i) /\ TimesOf(i) /\ \A k \in kids : CopyOf(k, i)
        BY <2>1, <2>2 DEF ItemInv
      <3>2. i[1] \in 1 .. Len(ran) /\ i[2] \in 1 .. Len(ran[i[1]])
        BY <2>2 DEF Printed, Past
      <3>3. i[1] < Len(ran') /\ i[1] \in 1 .. Len(ran') /\ ran'[i[1]] = ran[i[1]]
        BY <1>2, <1>3, <3>2
      <3>4. Printed(i)'
        BY <2>2, <3>2, <3>3 DEF Printed, Past
      <3>5. \A j \in 1 .. Len(ran[i[1]]) : Forked(i[1], j) /\ Forked(i[1], j)'
        BY <1>5, <1>6, <1>7, <3>2
      <3>6. Copied(i)' = Copied(i)
        BY <3>3, <3>5 DEF Copied
      <3>7. EndsInNewline(i)' = EndsInNewline(i)
        BY <3>3 DEF EndsInNewline
      <3>8. OutOf(i)'
        BY <1>4, <3>3, CountEmpty DEF OutOf
      <3>9. TimesOf(i)'
        BY <3>1, <3>6, <3>7 DEF TimesOf
      <3>10. \A k \in kids' : CopyOf(k, i)'
        BY <3>1, <3>7 DEF CopyOf, Behind
      <3> QED
        BY <3>4, <3>8, <3>9, <3>10 DEF ItemInv
    <2>3. CASE ~ Printed(i)
      <3>1. Nowhere(i)
        BY <2>1, <2>3 DEF ItemInv
      <3>2. ASSUME Printed(i)' PROVE FALSE
        <4>1. /\ i[1] \in 1 .. Len(ran') /\ i[2] \in 1 .. Len(ran'[i[1]])
              /\ i[1] < Len(ran') \/ i[2] < 1
              /\ ran'[i[1]][i[2]] \in Printing \union Background
          BY <3>2 DEF Printed, Past
        <4>2. i[1] \in 1 .. Len(ran)
          BY <1>2, <1>3, <2>1, <4>1
        <4>3. ran'[i[1]] = ran[i[1]] /\ i[2] \in 1 .. Len(ran[i[1]]) /\ i[2] =< Len(ran[i[1]])
          BY <1>3, <1>5, <4>1, <4>2
        <4>4. i[1] < Len(ran) \/ i[2] < next
          BY <1>6, <2>1, <4>2, <4>3
        <4> QED
          BY <2>3, <4>1, <4>2, <4>3, <4>4 DEF Printed, Past
      <3>3. Nowhere(i)'
        BY <3>1 DEF Nowhere
      <3> QED
        BY <3>2, <3>3 DEF ItemInv
    <2> QED
      BY <2>2, <2>3
  <1> QED
    BY <1>8, <1>9, <1>10 DEF PrintInv

\* What printf does with the counts.
LEMMA PrintfCounts ==
  ASSUME StdioType, printf, NEW i \in Items
  PROVE  /\ Count(shown', i) + Count(out', i)
              = Count(shown, i) + Count(out, i) + (IF Item = i THEN 1 ELSE 0)
         /\ Count(shown', i) \in Nat /\ Count(out', i) \in Nat
         /\ IF tty /\ EndsInNewline(Item) THEN Count(out', i) = 0
            ELSE Count(out', i) = Count(out, i) + (IF Item = i THEN 1 ELSE 0)
  <1>1. Item \in Items /\ out \in Seq(Items) /\ shown \in Seq(Items)
    BY LinesAre DEF StdioType
  <1>2. Count(shown, i) \in Nat /\ Count(out, i) \in Nat
    BY CountsAre
  <1>3. CASE tty /\ EndsInNewline(Item)
    <2>1. PICK s : s = shown \o out
      OBVIOUS
    <2>2. s \in Seq(Items)
      BY <1>1, <2>1, ConcatProperties
    <2>3. Count(s, i) = Count(shown, i) + Count(out, i)
      BY <1>1, <2>1, CountConcat
    <2>4. Count(Append(s, Item), i) = Count(s, i) + (IF Item = i THEN 1 ELSE 0)
      BY <1>1, <2>2, CountAppend
    <2>5. shown' = Append(s, Item) /\ out' = <<>>
      BY <1>3, <2>1 DEF printf
    <2>6. Count(out', i) = 0
      BY <2>5, CountEmpty
    <2> QED
      BY <1>2, <1>3, <2>3, <2>4, <2>5, <2>6
  <1>4. CASE ~ (tty /\ EndsInNewline(Item))
    <2>1. Count(Append(out, Item), i) = Count(out, i) + (IF Item = i THEN 1 ELSE 0)
      BY <1>1, CountAppend
    <2>2. out' = Append(out, Item) /\ shown' = shown
      BY <1>4 DEF printf
    <2> QED
      BY <1>2, <1>4, <2>1, <2>2
  <1> QED
    BY <1>3, <1>4

\* A command that prints: its item is there once, and nothing has copied it yet.
LEMMA ItemPrinted ==
  ASSUME StdioType, PrintInv, More, command \in Printing \union Background, printf,
         next' = next + 1, UNCHANGED <<ran, tty, pc>>, kids \subseteq kids',
         \A k \in kids' \ kids : k.id = Item /\ k.out = out,
         command \in Failing => \E k \in kids' : k.id = Item
  PROVE  \A i \in Items : ItemInv(i)'
  <1>1. PlaceInv /\ KidsInv /\ (\A i \in Items : ItemInv(i)) /\ pc = "run"
    BY DEF PrintInv, More
  <1>2. PICK L \in Nat \ {0} : L = Len(ran)
    BY <1>1, LinesAre DEF PlaceInv
  <1>3. /\ Item = <<L, next>> /\ Item \in Items /\ next \in Nat
        /\ next \in 1 .. Len(ran[L]) /\ Len(ran[L]) \in Nat
        /\ command = ran[L][next]
    <2>1. next =< Len(ran[L])
      BY <1>2 DEF More, Last
    <2>2. Item = <<L, next>> /\ Item \in Items /\ next \in Nat \ {0} /\ Len(ran[L]) \in Nat
      BY <1>2, LinesAre DEF Item, StdioType
    <2> QED
      BY <1>2, <2>1, <2>2 DEF Last, command
  <1>4. \A i \in Items : i[1] \in Nat /\ i[2] \in Nat /\ i = <<i[1], i[2]>>
    BY DEF Items
  <1>5. \A i \in Items : i = Item <=> i[1] = L /\ i[2] = next
    BY <1>3, <1>4
  <1>6. \A i \in Items : Printed(i)' <=> Printed(i) \/ i = Item
    <2> SUFFICES ASSUME NEW i \in Items PROVE Printed(i)' <=> Printed(i) \/ i = Item
      OBVIOUS
    <2>1. CASE i = Item
      <3>1. i[1] = L /\ i[2] = next
        BY <1>5, <2>1
      <3>2. Printed(i)'
        BY <1>2, <1>3, <3>1 DEF Printed, Past
      <3> QED
        BY <2>1, <3>2
    <2>2. CASE i # Item
      <3>1. \/ i[1] # L
            \/ i[2] # next
        BY <1>5, <2>2
      <3>2. i[1] \in 1 .. L => (i[1] < L \/ i[2] < next + 1 <=> i[1] < L \/ i[2] < next)
        BY <1>2, <1>3, <1>4, <3>1
      <3> QED
        BY <1>2, <2>2, <3>2 DEF Printed, Past
    <2> QED
      BY <2>1, <2>2
  <1>7. ~ Printed(Item)
    BY <1>2, <1>3 DEF Printed, Past
  <1>8. \A n \in 1 .. L, j \in Nat : <<n, j>> # Item => (Forked(n, j)' <=> Forked(n, j))
    BY <1>1, <1>2, <1>3 DEF Forked
  <1>9. ASSUME NEW i \in Items, Printed(i) PROVE Copied(i)' = Copied(i)
    <2>1. i[1] \in 1 .. L /\ Len(ran[i[1]]) \in Nat
      BY <1>2, <1>9, LinesAre DEF Printed, Past
    <2>2. ASSUME NEW j \in 1 .. Len(ran[i[1]])
          PROVE  (ran[i[1]][j] \in Failing /\ Forked(i[1], j)' /\ \A k \in kids' : k.id # <<i[1], j>>)
                   <=> (ran[i[1]][j] \in Failing /\ Forked(i[1], j) /\ \A k \in kids : k.id # <<i[1], j>>)
      <3>1. CASE <<i[1], j>> = Item
        <4>1. i[1] = L /\ j = next
          BY <1>3, <3>1
        <4>2. ~ Forked(i[1], j)
          BY <1>1, <1>2, <1>3, <4>1 DEF Forked
        <4>3. ran[i[1]][j] \in Failing => \E k \in kids' : k.id = <<i[1], j>>
          BY <1>3, <4>1
        <4> QED
          BY <4>2, <4>3
      <3>2. CASE <<i[1], j>> # Item
        <4>1. Forked(i[1], j)' <=> Forked(i[1], j)
          BY <1>8, <2>1, <3>2
        <4>2. (\A k \in kids' : k.id # <<i[1], j>>) <=> (\A k \in kids : k.id # <<i[1], j>>)
          BY <3>2
        <4> QED
          BY <4>1, <4>2
      <3> QED
        BY <3>1, <3>2
    <2>3. ran'[i[1]] = ran[i[1]]
      OBVIOUS
    <2> QED
      BY <2>2, <2>3 DEF Copied
  <1>10. ASSUME NEW i \in Items, i = Item PROVE Copied(i)' = {}
    <2>1. i[1] = L /\ i[2] = next
      BY <1>3, <1>10
    <2>2. ASSUME NEW j \in 1 .. Len(ran[L]), j > next PROVE ~ Forked(L, j)'
      BY <1>1, <1>2, <1>3, <2>2 DEF Forked
    <2> QED
      BY <2>1, <2>2 DEF Copied
  <1>11. ASSUME NEW k \in kids, NEW i \in Items, i = Item PROVE ~ Behind(k, i)
    <2>1. KidOf(k)
      BY <1>1 DEF KidsInv
    <2>2. k.id[2] \in Nat /\ (k.id[1] = L => k.id[2] < next)
      BY <1>1, <1>2, <2>1, LinesAre DEF KidOf, Forked
    <2> QED
      BY <1>3, <1>5, <1>11, <2>2 DEF Behind
  <1>12. ASSUME NEW i \in Items, i = Item PROVE ItemInv(i)'
    <2>1. Nowhere(i)
      BY <1>1, <1>7, <1>12 DEF ItemInv
    <2>2. /\ Count(shown', i) + Count(out', i) = 1
          /\ Count(shown', i) \in Nat /\ Count(out', i) \in Nat
          /\ IF tty /\ EndsInNewline(Item) THEN Count(out', i) = 0 ELSE Count(out', i) = 1
      BY <1>12, <2>1, PrintfCounts DEF Nowhere
    <2>3. EndsInNewline(i)' <=> EndsInNewline(Item)
      BY <1>12 DEF EndsInNewline
    <2>4. i[1] = Len(ran')
      BY <1>2, <1>5, <1>12
    <2>5. OutOf(i)'
      BY <2>2, <2>3, <2>4 DEF OutOf
    <2>6. Cardinality(Copied(i)') = 0
      BY <1>10, <1>12, FS_EmptySet
    <2>7. TimesOf(i)'
      BY <2>2, <2>6 DEF TimesOf
    <2>8. ASSUME NEW k \in kids' PROVE CopyOf(k, i)'
      <3>1. Count(k.out, i) = 0
        BY <2>1, <2>8 DEF Nowhere
      <3>2. ~ Behind(k, i)
        <4>1. CASE k \in kids
          BY <1>11, <1>12, <4>1
        <4>2. CASE k \notin kids
          BY <1>3, <1>12, <2>8, <4>2 DEF Behind
        <4> QED
          BY <4>1, <4>2
      <3> QED
        BY <3>1, <3>2 DEF CopyOf, Behind
    <2> QED
      BY <1>6, <1>12, <2>5, <2>7, <2>8 DEF ItemInv
  <1>13. ASSUME NEW i \in Items, i # Item, Printed(i) PROVE ItemInv(i)'
    <2>1. OutOf(i) /\ TimesOf(i) /\ \A k \in kids : CopyOf(k, i)
      BY <1>1, <1>13 DEF ItemInv
    <2>2. /\ Count(shown', i) + Count(out', i) = Count(shown, i) + Count(out, i)
          /\ Count(shown', i) \in Nat /\ Count(out', i) \in Nat
          /\ Count(shown, i) \in Nat /\ Count(out, i) \in Nat
          /\ IF tty /\ EndsInNewline(Item) THEN Count(out', i) = 0
             ELSE Count(out', i) = Count(out, i)
      BY <1>13, PrintfCounts, CountsAre
    <2>3. EndsInNewline(i)' <=> EndsInNewline(i)
      BY DEF EndsInNewline
    <2>4. OutOf(i)'
      BY <1>1, <2>1, <2>2, <2>3 DEF OutOf
    <2>5. TimesOf(i)'
      BY <1>9, <1>13, <2>1, <2>2, <2>3 DEF TimesOf
    <2>6. ASSUME NEW k \in kids' PROVE CopyOf(k, i)'
      <3>1. CASE k \in kids
        BY <2>1, <2>3, <3>1 DEF CopyOf, Behind
      <3>2. CASE k \notin kids
        <4>1. k.id = <<L, next>> /\ k.out = out
          BY <1>3, <2>6, <3>2
        <4>2. i[1] = L => i[2] < next
          BY <1>2, <1>13 DEF Printed, Past
        <4>3. Count(k.out, i) \in {0, 1} /\ (Count(k.out, i) = 1 => i[1] = L /\ ~ (tty /\ EndsInNewline(i)))
          BY <1>2, <2>1, <4>1 DEF OutOf
        <4>4. ~ tty /\ i[1] = L => Count(k.out, i) = 1
          BY <1>1, <1>2, <2>1, <4>1 DEF OutOf
        <4> QED
          BY <2>3, <4>1, <4>2, <4>3, <4>4 DEF CopyOf, Behind
      <3> QED
        BY <3>1, <3>2
    <2> QED
      BY <1>6, <1>13, <2>4, <2>5, <2>6 DEF ItemInv
  <1>14. ASSUME NEW i \in Items, i # Item, ~ Printed(i) PROVE ItemInv(i)'
    <2>1. Nowhere(i)
      BY <1>1, <1>14 DEF ItemInv
    <2>2. /\ Count(shown', i) + Count(out', i) = 0
          /\ Count(shown', i) \in Nat /\ Count(out', i) \in Nat
      BY <1>14, <2>1, PrintfCounts DEF Nowhere
    <2>3. \A k \in kids' : Count(k.out, i) = 0
      BY <2>1 DEF Nowhere
    <2>4. Nowhere(i)'
      BY <2>2, <2>3 DEF Nowhere
    <2> QED
      BY <1>6, <1>14, <2>4 DEF ItemInv
  <1> QED
    BY <1>12, <1>13, <1>14

\* The kids stay right when commands are passed.
LEMMA KidsKept ==
  ASSUME StdioType, KidsInv, kids' \subseteq kids, UNCHANGED ran,
         \A l, j \in Nat : Forked(l, j) => Forked(l, j)'
  PROVE  KidsInv'
  <1>1. ASSUME NEW k \in kids PROVE KidOf(k)'
    <2>1. KidOf(k)
      BY DEF KidsInv
    <2>2. k.id[1] \in Nat /\ k.id[2] \in Nat
      BY DEF StdioType, Kid, Items
    <2> QED
      BY <2>1, <2>2 DEF KidOf
  <1> QED
    BY <1>1 DEF KidsInv

LEMMA BuiltinPrint ==
  ASSUME StdioType, PrintInv, Builtin PROVE PrintInv'
  <1>1. /\ More /\ command \in {"print", "print part"} /\ printf /\ next' = next + 1
        /\ UNCHANGED <<ran, tty, pc, kids>>
    BY DEF Builtin, input
  <1>2. PlaceInv /\ KidsInv /\ pc = "run"
    BY <1>1 DEF PrintInv, More
  <1>3. command \in Printing \union Background /\ command \notin Failing
    BY <1>1 DEF Printing, Failing
  <1>4. \A i \in Items : ItemInv(i)'
    BY <1>1, <1>3, ItemPrinted
  <1>5. \A l, j \in Nat : Forked(l, j) => Forked(l, j)'
    <2>1. next \in Nat /\ next' = next + 1 /\ ran' = ran /\ pc = "run"
      BY <1>1, <1>2 DEF StdioType
    <2> QED
      BY <2>1 DEF Forked
  <1>6. KidsInv'
    BY <1>1, <1>2, <1>5, KidsKept
  <1>7. PlaceInv'
    BY <1>1, <1>2 DEF PlaceInv
  <1> QED
    BY <1>4, <1>6, <1>7 DEF PrintInv

\* A child is forked for the next command: no other has its id.
LEMMA KidsForked ==
  ASSUME StdioType, PlaceInv, KidsInv, More, UNCHANGED ran,
         kids' = kids \union {[id |-> Item, cmd |-> command, ahead |-> Len(unread), out |-> out]},
         (pc' = "wait" /\ next' = next) \/ (pc' = "run" /\ next' = next + 1)
  PROVE  KidsInv'
  <1>1. PICK L \in Nat \ {0} : L = Len(ran)
    BY LinesAre DEF PlaceInv, More
  <1>2. /\ Item = <<L, next>> /\ next \in 1 .. Len(ran[L]) /\ next \in Nat
        /\ Len(ran[L]) \in Nat /\ command = ran[L][next] /\ pc = "run"
    <2>1. next =< Len(ran[L])
      BY <1>1 DEF More, Last
    <2>2. Item = <<L, next>> /\ next \in Nat \ {0} /\ Len(ran[L]) \in Nat
      BY <1>1, LinesAre DEF Item, StdioType
    <2> QED
      BY <1>1, <2>1, <2>2 DEF Last, command, More
  <1>7. PICK n \in Nat : n = next
    BY <1>2
  <1>3. PICK m : m = [id |-> Item, cmd |-> command, ahead |-> Len(unread), out |-> out]
    OBVIOUS
  <1>4. m.id = <<L, n>> /\ m.cmd = ran[L][n] /\ kids' = kids \union {m}
    BY <1>2, <1>3, <1>7
  <1>5. KidOf(m)'
    <2>1. Forked(L, n)'
      BY <1>2, <1>7 DEF Forked
    <2>2. m.id[1] = L /\ m.id[2] = n
      BY <1>4
    <2> QED
      BY <1>1, <1>2, <1>4, <1>7, <2>1, <2>2 DEF KidOf
  <1>6. ASSUME NEW k \in kids PROVE KidOf(k)' /\ k.id # m.id
    <2>1. KidOf(k) /\ k.id[1] \in Nat /\ k.id[2] \in Nat
      BY DEF KidsInv, StdioType, Kid, Items
    <2>2. Forked(k.id[1], k.id[2])' /\ ~ (k.id[1] = L /\ k.id[2] = next)
      BY <1>1, <1>2, <2>1 DEF KidOf, Forked
    <2>3. k.id # <<L, next>>
      BY <2>2
    <2> QED
      BY <1>4, <1>7, <2>1, <2>2, <2>3 DEF KidOf
  <1> QED
    BY <1>4, <1>5, <1>6 DEF KidsInv

\* A child whose parent waits for it: what was unwritten is in its copy.
LEMMA ForkedPrint ==
  ASSUME StdioType, PrintInv, More, command \in (Failing \union Working) \ Background,
         kids' = kids \union {[id |-> Item, cmd |-> command, ahead |-> Len(unread), out |-> out]},
         pc' = "wait", UNCHANGED <<ran, tty, next, out, shown>>
  PROVE  PrintInv'
  <1>1. PlaceInv /\ KidsInv /\ (\A i \in Items : ItemInv(i)) /\ pc = "run"
    BY DEF PrintInv, More
  <1>2. KidsInv'
    BY <1>1, KidsForked
  <1>3. command \notin Printing \union Background
    BY DEF Failing, Working, Printing
  <1>4. PlaceInv'
    <2>1. (command \notin Printing \union Background)'
      BY <1>3 DEF command
    <2> QED
      BY <1>1, <2>1 DEF PlaceInv, More
  <1>5. PICK L \in Nat \ {0} : L = Len(ran)
    BY <1>1, LinesAre DEF PlaceInv
  <1>6. Item = <<L, next>> /\ next \in Nat
    BY <1>5 DEF Item, StdioType
  <1>7. PICK m : m = [id |-> Item, cmd |-> command, ahead |-> Len(unread), out |-> out]
    OBVIOUS
  <1>8. m.id = <<L, next>> /\ m.out = out /\ kids' = kids \union {m}
    BY <1>6, <1>7
  <1>9. ASSUME NEW i \in Items PROVE ItemInv(i)'
    <2>1. Printed(i)' <=> Printed(i)
      BY DEF Printed, Past
    <2>2. ItemInv(i) /\ (EndsInNewline(i)' <=> EndsInNewline(i))
      BY <1>1 DEF EndsInNewline
    <2>3. CASE Printed(i)
      <3>1. OutOf(i) /\ TimesOf(i) /\ \A k \in kids : CopyOf(k, i)
        BY <2>2, <2>3 DEF ItemInv
      <3>2. i[1] \in 1 .. L /\ Len(ran[i[1]]) \in Nat
        BY <1>5, <2>3, LinesAre DEF Printed, Past
      <3>3. ASSUME NEW j \in 1 .. Len(ran[i[1]])
            PROVE  (Forked(i[1], j)' /\ \A k \in kids' : k.id # <<i[1], j>>)
                     <=> (Forked(i[1], j) /\ \A k \in kids : k.id # <<i[1], j>>)
        <4>1. CASE i[1] = L /\ j = next
          <5>1. ~ Forked(i[1], j)
            BY <1>1, <1>5, <1>6, <4>1 DEF Forked
          <5>2. m \in kids' /\ m.id = <<i[1], j>>
            BY <1>8, <4>1
          <5> QED
            BY <5>1, <5>2
        <4>2. CASE ~ (i[1] = L /\ j = next)
          <5>1. Forked(i[1], j)' <=> Forked(i[1], j)
            BY <1>1, <1>5, <1>6, <3>2, <4>2 DEF Forked
          <5>2. <<i[1], j>> # m.id
            BY <1>8, <4>2
          <5> QED
            BY <1>8, <5>1, <5>2
        <4> QED
          BY <4>1, <4>2
      <3>4. Copied(i)' = Copied(i)
        BY <3>3 DEF Copied
      <3>5. OutOf(i)'
        BY <1>1, <2>2, <3>1 DEF OutOf
      <3>6. TimesOf(i)'
        BY <2>2, <3>1, <3>4 DEF TimesOf
      <3>7. CopyOf(m, i)'
        <4>1. i[1] = L => i[2] < next
          BY <1>5, <2>3 DEF Printed, Past
        <4>2. m.id[1] = L /\ m.id[2] = next
          BY <1>8
        <4>3. Behind(m, i) <=> i[1] = L
          BY <4>1, <4>2 DEF Behind
        <4>4. Count(m.out, i) = Count(out, i)
          BY <1>8
        <4>5. /\ Count(out, i) \in {0, 1}
              /\ Count(out, i) = 1 => i[1] = L /\ ~ (tty /\ EndsInNewline(i))
              /\ ~ tty /\ i[1] = L => Count(out, i) = 1
          BY <1>1, <1>5, <3>1 DEF OutOf
        <4>6. CopyOf(m, i)
          BY <4>3, <4>4, <4>5 DEF CopyOf
        <4> QED
          BY <2>2, <4>6 DEF CopyOf, Behind
      <3>8. \A k \in kids : CopyOf(k, i)'
        BY <2>2, <3>1 DEF CopyOf, Behind
      <3> QED
        BY <1>8, <2>1, <2>3, <3>5, <3>6, <3>7, <3>8 DEF ItemInv
    <2>4. CASE ~ Printed(i)
      <3>1. Nowhere(i)
        BY <2>2, <2>4 DEF ItemInv
      <3>2. Nowhere(i)'
        BY <1>8, <3>1 DEF Nowhere
      <3> QED
        BY <2>1, <2>4, <3>2 DEF ItemInv
    <2> QED
      BY <2>3, <2>4
  <1> QED
    BY <1>2, <1>4, <1>9 DEF PrintInv

LEMMA RunCmdPrint ==
  ASSUME StdioType, PrintInv, run_cmd PROVE PrintInv'
  <1>1. /\ More /\ command \in Failing \union Working
        /\ kids' = kids \union {[id |-> Item, cmd |-> command, ahead |-> Len(unread), out |-> out]}
        /\ UNCHANGED <<ran, tty>>
    BY DEF run_cmd, input
  <1>2. CASE command \in Background
    <2>1. printf /\ next' = next + 1 /\ UNCHANGED pc
      BY <1>2 DEF run_cmd
    <2>2. PlaceInv /\ KidsInv /\ pc = "run"
      BY <1>1 DEF PrintInv, More
    <2>3. PICK m : m = [id |-> Item, cmd |-> command, ahead |-> Len(unread), out |-> out]
      OBVIOUS
    <2>4. m.id = Item /\ m.out = out /\ kids' = kids \union {m}
      BY <1>1, <2>3
    <2>5. \A i \in Items : ItemInv(i)'
      <3>1. command \in Printing \union Background
        BY <1>2
      <3>2. \A k \in kids' \ kids : k.id = Item /\ k.out = out
        BY <2>4
      <3>3. command \in Failing => \E k \in kids' : k.id = Item
        BY <2>4
      <3>4. kids \subseteq kids' /\ UNCHANGED <<ran, tty, pc>>
        BY <1>1, <2>1
      <3> QED
        BY <1>1, <2>1, <3>1, <3>2, <3>3, <3>4, ItemPrinted
    <2>6. KidsInv'
      BY <1>1, <2>1, <2>2, KidsForked
    <2>7. PlaceInv'
      BY <1>1, <2>1, <2>2 DEF PlaceInv
    <2> QED
      BY <2>5, <2>6, <2>7 DEF PrintInv
  <1>3. CASE command \notin Background
    <2>1. pc' = "wait" /\ UNCHANGED <<out, shown, next>>
      BY <1>3 DEF run_cmd
    <2> QED
      BY <1>1, <1>3, <2>1, ForkedPrint
  <1> QED
    BY <1>2, <1>3

LEMMA WaitedPrint ==
  ASSUME StdioType, PrintInv, Waited PROVE PrintInv'
  <1>1. /\ pc = "wait" /\ pc' = "run" /\ next' = next + 1 /\ next \in Nat
        /\ UNCHANGED <<ran, kids, out, shown, tty>>
    BY DEF Waited, Goes, input, StdioType
  <1>2. PlaceInv /\ KidsInv /\ \A i \in Items : ItemInv(i)
    BY <1>1 DEF PrintInv
  <1>3. PlaceInv'
    BY <1>1, <1>2 DEF PlaceInv
  <1>4. \A l, j \in Nat : Forked(l, j)' <=> Forked(l, j)
    <2> SUFFICES ASSUME NEW l \in Nat, NEW j \in Nat PROVE Forked(l, j)' <=> Forked(l, j)
      OBVIOUS
    <2>1. j < next + 1 <=> j < next \/ j = next
      BY <1>1
    <2> QED
      BY <1>1, <2>1 DEF Forked
  <1>5. KidsInv'
    BY <1>1, <1>2, <1>4, KidsKept
  <1>6. ASSUME NEW i \in Items PROVE ItemInv(i)'
    <2>1. ItemInv(i) /\ (EndsInNewline(i)' <=> EndsInNewline(i)) /\ i[1] \in Nat /\ i[2] \in Nat
      BY <1>1, <1>2 DEF EndsInNewline, Items
    <2>2. Printed(i)' <=> Printed(i)
      <3>1. CASE i[1] = Len(ran) /\ i[2] = next
        <4>1. ran[i[1]][i[2]] \notin Printing \union Background
          BY <1>1, <1>2, <3>1 DEF PlaceInv, command, Last
        <4> QED
          BY <1>1, <4>1 DEF Printed
      <3>2. CASE ~ (i[1] = Len(ran) /\ i[2] = next)
        <4>1. Len(ran) \in Nat
          BY LinesAre
        <4>2. i[1] =< Len(ran) => (i[1] < Len(ran) \/ i[2] < next + 1 <=> i[1] < Len(ran) \/ i[2] < next)
          BY <1>1, <2>1, <3>2, <4>1
        <4>3. i[1] \in 1 .. Len(ran) => i[1] =< Len(ran)
          BY <4>1
        <4> QED
          BY <1>1, <4>2, <4>3 DEF Printed, Past
      <3> QED
        BY <3>1, <3>2
    <2>3. CASE Printed(i)
      <3>1. OutOf(i) /\ TimesOf(i) /\ \A k \in kids : CopyOf(k, i)
        BY <2>1, <2>3 DEF ItemInv
      <3>2. Len(ran[i[1]]) \in Nat
        BY <2>3, LinesAre DEF Printed, Past
      <3>3. \A j \in 1 .. Len(ran[i[1]]) : Forked(i[1], j)' <=> Forked(i[1], j)
        BY <1>4, <2>1, <3>2
      <3>4. Copied(i)' = Copied(i)
        BY <1>1, <3>3 DEF Copied
      <3>5. OutOf(i)'
        BY <1>1, <2>1, <3>1 DEF OutOf
      <3>6. TimesOf(i)'
        BY <1>1, <2>1, <3>1, <3>4 DEF TimesOf
      <3>7. \A k \in kids' : CopyOf(k, i)'
        BY <1>1, <2>1, <3>1 DEF CopyOf, Behind
      <3> QED
        BY <2>2, <2>3, <3>5, <3>6, <3>7 DEF ItemInv
    <2>4. CASE ~ Printed(i)
      BY <1>1, <2>1, <2>2, <2>4 DEF ItemInv, Nowhere
    <2> QED
      BY <2>3, <2>4
  <1> QED
    BY <1>3, <1>5, <1>6 DEF PrintInv

LEMMA PairIs == \A d \in Nat \X Nat : d = <<d[1], d[2]>> /\ d[2] \in Nat
  OBVIOUS

LEMMA PairsEqual == \A a, b, c, d : <<a, b>> = <<c, d>> <=> c = a /\ d = b
  OBVIOUS

\* Child k ends and writes w.
Ending(k, w) ==
    /\ kids' = kids \ {k} /\ UNCHANGED <<ran, tty, next, out, pc>>
    /\ \A i : Count(shown', i) = Count(shown, i) + Count(w, i)
    /\ \/ k.cmd \in Failing \ {"bad >"} /\ w = k.out
       \/ k.cmd \notin Failing \ {"bad >"} /\ \A i : Count(w, i) = 0

\* A child ends: what of its line is copied by then, and what it writes.
LEMMA EndsPrint ==
  ASSUME StdioType, PrintInv, pc # "done", NEW k \in kids, NEW w \in Seq(Items), Ending(k, w)
  PROVE  PrintInv'
  <1>1. PlaceInv /\ KidsInv /\ \A i \in Items : ItemInv(i)
    BY DEF PrintInv
  <1>2. PlaceInv'
    <2>1. command' = command
      BY DEF command, Ending
    <2> QED
      BY <1>1, <2>1 DEF PlaceInv, Ending
  <1>3. \A l, j : Forked(l, j)' <=> Forked(l, j)
    BY DEF Forked, Ending
  <1>4. KidsInv'
    BY <1>1, <1>3, KidsKept DEF Ending
  <1>5. /\ k.id[1] \in 1 .. Len(ran) /\ k.id[2] \in 1 .. Len(ran[k.id[1]])
        /\ k.id = <<k.id[1], k.id[2]>> /\ k.id[2] \in Nat
        /\ k.cmd = ran[k.id[1]][k.id[2]] /\ Forked(k.id[1], k.id[2])
        /\ \A m \in kids : m.id = k.id => m = k
    <2>1. KidOf(k) /\ \A m \in kids : m.id = k.id => m = k
      BY <1>1 DEF KidsInv
    <2>2. k.id \in Nat \X Nat
      BY DEF StdioType, Kid, Items
    <2>3. k.id = <<k.id[1], k.id[2]>> /\ k.id[2] \in Nat
      <3> QED
        BY <2>2, PairIs
    <2> QED
      BY <2>1, <2>3 DEF KidOf
  <1>6. ASSUME NEW i \in Items PROVE ItemInv(i)'
    <2>1. ItemInv(i) /\ tty' = tty /\ (EndsInNewline(i)' <=> EndsInNewline(i)) /\ i[1] \in Nat /\ i[2] \in Nat
      BY <1>1 DEF EndsInNewline, Items, Ending
    <2>2. Printed(i)' <=> Printed(i)
      BY DEF Printed, Past, Ending
    <2>3. /\ Count(shown', i) = Count(shown, i) + Count(w, i)
          /\ Count(out', i) = Count(out, i)
          /\ Count(shown, i) \in Nat /\ Count(out, i) \in Nat /\ Count(w, i) \in Nat
      <3>1. Count(out', i) = Count(out, i)
        BY DEF Ending
      <3>3. Count(w, i) \in Nat
        BY CountFinite
      <3>4. Count(shown, i) \in Nat /\ Count(out, i) \in Nat
        BY CountsAre
      <3> QED
        BY <3>1, <3>3, <3>4 DEF Ending
    <2>4. CASE Printed(i)
      <3>1. OutOf(i) /\ TimesOf(i) /\ \A m \in kids : CopyOf(m, i)
        BY <2>1, <2>4 DEF ItemInv
      <3>2. OutOf(i)' /\ \A m \in kids' : CopyOf(m, i)'
        <4>1. OutOf(i)'
          <5>1. UNCHANGED <<ran, tty, pc>> /\ (EndsInNewline(i)' <=> EndsInNewline(i))
            BY <2>1 DEF Ending
          <5>2. Count(out', i) = Count(out, i) /\ OutOf(i)
            BY <2>3, <3>1
          <5> QED
            BY <5>1, <5>2 DEF OutOf
        <4>2. ASSUME NEW m \in kids PROVE CopyOf(m, i)'
          BY <2>1, <3>1 DEF CopyOf, Behind
        <4> QED
          BY <4>1, <4>2 DEF Ending
      <3>3. IsFiniteSet(Copied(i)) /\ Cardinality(Copied(i)) \in Nat
        BY <2>4, CopiedFinite DEF Printed
      <3>4. ASSUME NEW j \in 1 .. Len(ran[i[1]])
            PROVE  (\A m \in kids' : m.id # <<i[1], j>>)
                     <=> (\A m \in kids : m.id # <<i[1], j>>) \/ (i[1] = k.id[1] /\ j = k.id[2])
        <4>1. k.id = <<i[1], j>> <=> i[1] = k.id[1] /\ j = k.id[2]
          <5>2. <<k.id[1], k.id[2]>> = <<i[1], j>> <=> i[1] = k.id[1] /\ j = k.id[2]
            BY PairsEqual
          <5> QED
            BY <1>5, <5>2
        <4> QED
          BY <1>5, <4>1 DEF Ending
      <3>5. CASE Behind(k, i) /\ k.cmd \in Failing \ {"bad >"}
        <4>1. i[1] = k.id[1] /\ i[2] < k.id[2] /\ w = k.out
          BY <3>5 DEF Behind, Ending
        <4>2. k.id[2] \notin Copied(i)
          BY <1>5, <4>1 DEF Copied, Ending
        <4>3. Copied(i)' = Copied(i) \union {k.id[2]}
          BY <1>3, <1>5, <3>4, <3>5, <4>1 DEF Copied, Ending
        <4>4. Cardinality(Copied(i)') = Cardinality(Copied(i)) + 1
          <5>1. PICK c : c = k.id[2]
            OBVIOUS
          <5> QED
            BY <3>3, <4>2, <4>3, <5>1, FS_AddElement
        <4>5. CopyOf(k, i)
          BY <3>1
        <4>7. /\ Count(w, i) \in {0, 1}
              /\ Count(w, i) = 1 => ~ (tty /\ EndsInNewline(i))
              /\ ~ tty => Count(w, i) = 1
          BY <3>5, <4>1, <4>5 DEF CopyOf, Ending
        <4>8. Count(shown', i) + Count(out', i) = Count(shown, i) + Count(out, i) + Count(w, i)
          BY <2>3
        <4>6. TimesOf(i)'
          <5>1. CASE ~ tty
            BY <2>1, <2>3, <3>1, <3>3, <4>4, <4>7, <4>8, <5>1 DEF TimesOf
          <5>2. CASE tty /\ EndsInNewline(i)
            BY <2>1, <2>3, <3>1, <4>7, <4>8, <5>2 DEF TimesOf
          <5>3. CASE tty /\ ~ EndsInNewline(i)
            BY <2>1, <2>3, <3>1, <3>3, <4>4, <4>7, <4>8, <5>3 DEF TimesOf
          <5> QED
            BY <5>1, <5>2, <5>3
        <4> QED
          BY <2>2, <2>4, <3>2, <4>6 DEF ItemInv
      <3>6. CASE ~ (Behind(k, i) /\ k.cmd \in Failing \ {"bad >"})
        <4>1. Count(w, i) = 0
          <5>1. CopyOf(k, i)
            BY <3>1
          <5> QED
            BY <2>3, <3>6, <5>1 DEF CopyOf, Ending
        <4>2. ASSUME NEW j \in 1 .. Len(ran[i[1]]), j > i[2], ran[i[1]][j] \in Failing \ {"bad >"}
              PROVE  ~ (i[1] = k.id[1] /\ j = k.id[2])
          BY <1>5, <3>6, <4>2 DEF Behind, Ending
        <4>3. Copied(i)' = Copied(i)
          BY <1>3, <3>4, <4>2 DEF Copied, Ending
        <4>5. Count(shown', i) + Count(out', i) = Count(shown, i) + Count(out, i)
          BY <2>3, <4>1
        <4>4. TimesOf(i)'
          BY <2>1, <3>1, <4>3, <4>5 DEF TimesOf
        <4> QED
          BY <2>2, <2>4, <3>2, <4>4 DEF ItemInv
      <3> QED
        BY <3>5, <3>6 DEF Ending
    <2>5. CASE ~ Printed(i)
      <3>1. Nowhere(i)
        BY <2>1, <2>5 DEF ItemInv
      <3>3. Count(w, i) = 0
        <4>1. Count(k.out, i) = 0
          BY <3>1 DEF Nowhere
        <4> QED
          BY <4>1 DEF Ending
      <3>2. Nowhere(i)'
        <4>1. Count(shown', i) = 0 /\ Count(out', i) = 0
          BY <2>3, <3>1, <3>3 DEF Nowhere
        <4>2. \A m \in kids' : Count(m.out, i) = 0
          BY <3>1 DEF Nowhere, Ending
        <4> QED
          BY <4>1, <4>2 DEF Nowhere
      <3> QED
        BY <2>2, <2>5, <3>2 DEF ItemInv
    <2> QED
      BY <2>4, <2>5
  <1> QED
    BY <1>2, <1>4, <1>6 DEF PrintInv

LEMMA KidPrint ==
  ASSUME StdioType, PrintInv, NEW k \in kids, Execs(k) \/ Exits(k) PROVE PrintInv'
  <1>1. kids' = kids \ {k} /\ UNCHANGED <<ran, tty, next, out, pc>>
    BY DEF Execs, Exits, input
  <1>2. CASE pc = "done"
    BY <1>1, <1>2 DEF PrintInv
  <1>3. CASE pc # "done"
    <2>1. PICK e : e = <<>>
      OBVIOUS
    <2>2. e \in Seq(Items) /\ shown \in Seq(Items)
      BY <2>1, EmptySeq DEF StdioType
    <2>3. CASE Execs(k) \/ k.cmd = "bad >"
      <3>1. k.cmd \notin Failing \ {"bad >"} /\ shown' = shown
        BY <2>3 DEF Execs, Exits, Working, Failing
      <3>2. \A i : Count(shown', i) = Count(shown, i) + Count(e, i)
        <4> SUFFICES ASSUME NEW i PROVE Count(shown', i) = Count(shown, i) + Count(e, i)
          OBVIOUS
        <4>1. Count(shown, i) \in Nat /\ Count(e, i) = 0
          BY <2>1, CountsAre, CountEmpty
        <4>2. Count(shown', i) = Count(shown, i)
          BY <3>1
        <4> QED
          BY <4>1, <4>2
      <3>3. k.cmd \notin Failing \ {"bad >"} /\ \A i : Count(e, i) = 0
        BY <2>1, <3>1, CountEmpty
      <3> HIDE DEF Failing
      <3> QED
        BY <1>1, <1>3, <2>2, <3>2, <3>3, EndsPrint DEF Ending
    <2>4. CASE ~ (Execs(k) \/ k.cmd = "bad >")
      <3>1. k.cmd \in Failing \ {"bad >"} /\ shown' = shown \o k.out
        BY <2>4 DEF Exits
      <3>2. k.out \in Seq(Items)
        BY DEF StdioType, Kid
      <3>3. \A i : Count(shown', i) = Count(shown, i) + Count(k.out, i)
        BY <2>2, <3>1, <3>2, CountConcat
      <3> QED
        BY <1>1, <1>3, <3>1, <3>2, <3>3, EndsPrint DEF Ending
    <2> QED
      BY <2>3, <2>4
  <1> QED
    BY <1>2, <1>3

\* Reading prints nothing and runs nothing.
LEMMA ReadsPrint ==
  ASSUME StdioType, PrintInv, Reading \/ pc = "check", UNCHANGED <<ran, next, kids, out, shown, tty>>,
         pc' \in {"prompt", "fgets", "check", "discard", "done"}
  PROVE  PrintInv'
  <1>1. CASE pc' = "done"
    BY <1>1 DEF PrintInv
  <1>2. CASE pc' # "done"
    <2>1. PlaceInv /\ pc \in {"fgets", "check", "discard"}
      BY DEF PrintInv, Reading
    <2>2. PlaceInv'
      BY <2>1 DEF PlaceInv
    <2> QED
      BY <1>2, <2>1, <2>2, RestPrint
  <1> QED
    BY <1>1, <1>2

LEMMA CheckPrint ==
  ASSUME StdioType, PrintInv, Check PROVE PrintInv'
  <1>1. pc = "check" /\ UNCHANGED <<kids, out, shown, tty>>
    BY DEF Check, input
  <1>2. do_lex(trim_inplace(line)) \in Seq(Cells)
    BY TrimType, LexType DEF StdioType
  <1>3. \/ pc' \in {"discard", "prompt"} /\ UNCHANGED <<ran, next>>
        \/ pc' = "run" /\ ran' = Append(ran, do_lex(trim_inplace(line))) /\ next' = 1
    BY DEF Check
  <1>4. CASE pc' = "run" /\ ran' = Append(ran, do_lex(trim_inplace(line))) /\ next' = 1
    BY <1>1, <1>2, <1>4, StartPrint
  <1>5. CASE pc' \in {"discard", "prompt"} /\ UNCHANGED <<ran, next>>
    BY <1>1, <1>5, ReadsPrint
  <1> QED
    BY <1>3, <1>4, <1>5

LEMMA NextPrint == StdioType /\ PrintInv /\ [Next]_vars => PrintInv'
  <1> SUFFICES ASSUME StdioType, PrintInv, [Next]_vars PROVE PrintInv'
    OBVIOUS
  <1>1. CASE Prompt
    BY <1>1, PromptPrint
  <1>2. CASE Fill
    <2>1. Reading /\ pc' = pc /\ UNCHANGED <<ran, next, kids, out, shown, tty>>
      BY <1>2 DEF Fill, input
    <2>2. pc' \in {"fgets", "discard"}
      BY <2>1 DEF Reading
    <2> QED
      BY <2>1, <2>2, ReadsPrint
  <1>3. CASE fgets \/ fgets_at_end \/ discard_rest_of_line
    <2>1. Reading /\ UNCHANGED <<ran, next, kids, out, shown, tty>>
      BY <1>3 DEF fgets, fgets_at_end, discard_rest_of_line, Goes, Reading, Quiet, input
    <2>2. pc' \in {"prompt", "fgets", "check", "discard", "done"}
      BY <1>3 DEF fgets, fgets_at_end, discard_rest_of_line, Goes
    <2> QED
      BY <2>1, <2>2, ReadsPrint
  <1>4. CASE Check
    BY <1>4, CheckPrint
  <1>5. CASE Builtin
    BY <1>5, BuiltinPrint
  <1>6. CASE killmb
    BY <1>6 DEF killmb, PrintInv
  <1>7. CASE run_cmd
    BY <1>7, RunCmdPrint
  <1>8. CASE Waited
    BY <1>8, WaitedPrint
  <1>9. CASE LineEnds
    <2>1. /\ pc = "run" /\ pc' = "prompt" /\ next > Len(Last(ran))
          /\ UNCHANGED <<ran, next, kids, out, shown, tty>>
      BY <1>9 DEF LineEnds, Goes, input
    <2>2. PlaceInv'
      BY <2>1 DEF PlaceInv
    <2> QED
      BY <2>1, <2>2, RestPrint
  <1>10. ASSUME NEW k \in kids, Execs(k) \/ Exits(k) PROVE PrintInv'
    BY <1>10, KidPrint
  <1>11. CASE UNCHANGED vars
    <2>1. UNCHANGED <<pc, ran, next, kids, out, shown, tty>>
      BY <1>11 DEF vars, input
    <2>2. CASE pc = "done"
      BY <2>1, <2>2 DEF PrintInv
    <2>3. CASE pc # "done"
      <3>1. PlaceInv'
        BY <2>1, <2>3 DEF PrintInv, PlaceInv, command
      <3> QED
        BY <2>1, <2>3, <3>1, RestPrint
    <2> QED
      BY <2>2, <2>3
  <1> QED
    BY <1>1, <1>2, <1>3, <1>4, <1>5, <1>6, <1>7, <1>8, <1>9, <1>10, <1>11 DEF Next

LEMMA PrintedFromInv == StdioType /\ PrintInv => PrintedOnce
  <1> SUFFICES ASSUME StdioType, PrintInv, pc = "fgets",
                      NEW l \in DOMAIN ran, NEW i \in PrintedBy(l)
               PROVE  IF ~ tty THEN Times(i) = 1 + Cardinality(Copying(i))
                      ELSE IF EndsInNewline(i) THEN Times(i) = 1
                      ELSE Times(i) \in 1 .. 1 + Cardinality(Copying(i))
    BY DEF PrintedOnce
  <1>1. PlaceInv /\ \A m \in Items : ItemInv(m)
    BY DEF PrintInv
  <1>2. DOMAIN ran = 1 .. Len(ran) /\ Len(ran) \in Nat /\ next \in Nat
    BY LenProperties DEF StdioType
  <1>3. out = <<>> /\ next > Len(ran[Len(ran)])
    BY <1>1, <1>2 DEF PlaceInv, Last
  <1>4. Len(ran[l]) \in Nat /\ DOMAIN ran[l] = 1 .. Len(ran[l])
    BY <1>2, LinesAre
  <1>5. PICK j \in 1 .. Len(ran[l]) : i = <<l, j>> /\ ran[l][j] \in Printing \union Background
    BY <1>4 DEF PrintedBy
  <1>6. \A n \in 1 .. Len(ran[l]) : l < Len(ran) \/ n < next
    BY <1>2, <1>3, <1>4
  <1>7. i \in Items /\ i[1] = l /\ i[2] = j
    BY <1>2, <1>4, <1>5 DEF Items
  <1>8. Printed(i)
    BY <1>2, <1>5, <1>6, <1>7 DEF Printed, Past
  <1>9. TimesOf(i)
    BY <1>1, <1>7, <1>8 DEF ItemInv
  <1>10. Copied(i) = Copying(i)
    <2>1. ASSUME NEW n \in 1 .. Len(ran[l])
          PROVE  <<l, n>> \notin {k.id : k \in kids} <=> \A k \in kids : k.id # <<l, n>>
      OBVIOUS
    <2> QED
      BY <1>4, <1>6, <1>7, <2>1 DEF Copied, Copying, Forked
  <1>11. Count(out, i) = 0 /\ Count(shown, i) = Times(i) /\ Count(shown, i) \in Nat
    BY <1>3, CountEmpty, CountsAre DEF Count, Times
  <1>12. Count(shown, i) + Count(out, i) = Times(i)
    BY <1>11
  <1> QED
    BY <1>9, <1>10, <1>12 DEF TimesOf

\* Whatever the script and whatever the children do and when, what a line prints is
\* out when the next is read, once, and once more for each command behind it whose
\* exec failed while it was unwritten (the fflush of main, the exit(123) of run_cmd).
THEOREM PrintedCorrect == Spec => []PrintedOnce
  <1>1. Init => StdioType /\ PrintInv
    BY InitType, InitPrint
  <1>2. StdioType /\ PrintInv /\ [Next]_vars => (StdioType /\ PrintInv)'
    BY NextType, NextPrint
  <1> QED
    BY <1>1, <1>2, PrintedFromInv, PTL DEF Spec
-----------------------------------------------------------------------------
(* Reading and running, step by step.                                      *)

LEMMA ScriptIs ==
  ASSUME StdioType
  PROVE  /\ Len(script) \in Nat /\ DOMAIN script = 1 .. Len(script)
         /\ \A n \in 1 .. Len(script) : script[n] \in Cells
         /\ NLs \subseteq 1 .. Len(script) /\ GoodEnds \subseteq NLs
         /\ IsFiniteSet(GoodEnds) /\ Cardinality(GoodEnds) \in Nat
  <1>1. Len(script) \in Nat /\ DOMAIN script = 1 .. Len(script)
    BY LenProperties DEF StdioType
  <1>2. \A n \in 1 .. Len(script) : script[n] \in Cells
    BY ElementOfSeq DEF StdioType
  <1>3. NLs \subseteq 1 .. Len(script) /\ GoodEnds \subseteq NLs
    BY <1>1 DEF NLs, GoodEnds
  <1>4. IsFiniteSet(1 .. Len(script)) /\ GoodEnds \in SUBSET (1 .. Len(script))
    <2>1. IsFiniteSet(1 .. Len(script))
      BY <1>1, FS_Interval
    <2> QED
      BY <1>3, <2>1
  <1>5. IsFiniteSet(GoodEnds)
    BY <1>4, FS_Subset
  <1>6. Cardinality(GoodEnds) \in Nat
    BY <1>5, FS_CardinalityType
  <1> QED
    BY <1>1, <1>2, <1>3, <1>5, <1>6

LEMMA UpToIs ==
  ASSUME StdioType, NEW q
  PROVE  /\ IsFiniteSet({j \in GoodEnds : j =< q}) /\ GoodUpTo(q) \in Nat
         /\ GoodUpTo(q) =< Cardinality(GoodEnds)
  <1>1. IsFiniteSet(GoodEnds) /\ {j \in GoodEnds : j =< q} \in SUBSET GoodEnds
    BY ScriptIs
  <1>2. /\ IsFiniteSet({j \in GoodEnds : j =< q})
        /\ Cardinality({j \in GoodEnds : j =< q}) =< Cardinality(GoodEnds)
    BY <1>1, FS_Subset
  <1>3. Cardinality({j \in GoodEnds : j =< q}) \in Nat
    BY <1>2, FS_CardinalityType
  <1> QED
    BY <1>2, <1>3 DEF GoodUpTo

\* No good line ends in between.
LEMMA UpToStays ==
  ASSUME StdioType, NEW b \in Nat, NEW q \in Nat, b =< q,
         \A j \in b + 1 .. q : j \notin GoodEnds
  PROVE  GoodUpTo(b) = GoodUpTo(q)
  <1>1. GoodEnds \subseteq Nat
    BY ScriptIs
  <1>3. \A j \in GoodEnds : j =< b <=> j =< q
    <2> SUFFICES ASSUME NEW j \in GoodEnds PROVE j =< b <=> j =< q
      OBVIOUS
    <2>1. j \in Nat /\ j \notin b + 1 .. q
      BY <1>1
    <2> QED
      BY <2>1
  <1>2. {j \in GoodEnds : j =< b} = {j \in GoodEnds : j =< q}
    BY <1>3
  <1> QED
    BY <1>2 DEF GoodUpTo

LEMMA UpToGrows ==
  ASSUME StdioType, NEW b \in Nat, NEW q \in GoodEnds, b < q,
         \A j \in b + 1 .. q - 1 : j \notin GoodEnds
  PROVE  GoodUpTo(q) = GoodUpTo(b) + 1
  <1> DEFINE B == {j \in GoodEnds : j =< b}
             Q == {j \in GoodEnds : j =< q}
  <1>1. GoodEnds \subseteq Nat
    BY ScriptIs
  <1>2. Q = B \union {q} /\ q \notin B
    <2>1. q \in Nat /\ q =< q /\ ~ (q =< b)
      BY <1>1
    <2>2. \A j \in GoodEnds : j =< q <=> j =< b \/ j = q
      <3> SUFFICES ASSUME NEW j \in GoodEnds PROVE j =< q <=> j =< b \/ j = q
        OBVIOUS
      <3>1. j \in Nat /\ j \notin b + 1 .. q - 1
        BY <1>1
      <3> QED
        BY <2>1, <3>1
    <2> QED
      BY <2>1, <2>2
  <1>3. IsFiniteSet(B)
    BY UpToIs
  <1>4. Cardinality(Q) = Cardinality(B) + 1
    <2> HIDE DEF B, Q
    <2> QED
      BY <1>2, <1>3, FS_AddElement
  <1> QED
    BY <1>4 DEF GoodUpTo

LEMMA UpToDiffer ==
  ASSUME StdioType, NEW i \in GoodEnds, NEW j \in GoodEnds, i < j
  PROVE  GoodUpTo(i) < GoodUpTo(j)
  <1> DEFINE A == {n \in GoodEnds : n =< i}
             B == {n \in GoodEnds : n =< j}
  <1>1. GoodEnds \subseteq Nat
    BY ScriptIs
  <1>2. A \in SUBSET B /\ j \in B /\ j \notin A
    <2>1. i \in Nat /\ j \in Nat /\ j =< j /\ ~ (j =< i)
      BY <1>1
    <2>2. \A n \in GoodEnds : n =< i => n =< j
      BY <1>1, <2>1
    <2> QED
      BY <2>1, <2>2
  <1>3. IsFiniteSet(B)
    BY UpToIs
  <1>4. Cardinality(A) =< Cardinality(B) /\ Cardinality(A) # Cardinality(B)
    <2> HIDE DEF A, B
    <2> QED
      BY <1>2, <1>3, FS_Subset
  <1>5. GoodUpTo(i) =< GoodUpTo(j) /\ GoodUpTo(i) # GoodUpTo(j)
    BY <1>4 DEF GoodUpTo
  <1>6. GoodUpTo(i) \in Nat /\ GoodUpTo(j) \in Nat
    BY UpToIs
  <1> QED
    BY <1>5, <1>6

LEMMA UpToOnce ==
  ASSUME StdioType, NEW i \in GoodEnds, NEW j \in GoodEnds, GoodUpTo(i) = GoodUpTo(j)
  PROVE  i = j
  <1>1. i \in Nat /\ j \in Nat
    BY ScriptIs
  <1>2. GoodUpTo(i) \in Nat /\ GoodUpTo(j) \in Nat
    BY UpToIs
  <1>3. ~ (i < j) /\ ~ (j < i)
    BY <1>2, UpToDiffer
  <1> QED
    BY <1>1, <1>3

\* The line that ends at p begins behind the last place where one may.
LEMMA LineBegins ==
  ASSUME StdioType, NEW b \in 0 .. Len(script), Base(b), NEW p \in 1 .. Len(script), b < p,
         NoNL(b, p - 1)
  PROVE  LineAt(p) = SubSeq(script, 1 + b, p)
  <1> DEFINE S == {0} \union {j \in NLs : j < p}
  <1>1. Len(script) \in Nat /\ NLs \subseteq 1 .. Len(script)
    BY ScriptIs
  <1>2. b \in S
    BY <1>1 DEF Base
  <1>3. \A j \in S : j \in Nat /\ j =< b
    <2> SUFFICES ASSUME NEW j \in S, ~ (j =< b) PROVE FALSE
      BY <1>1
    <2>1. j \in NLs /\ j < p /\ j \in b + 1 .. p - 1
      BY <1>1
    <2> QED
      BY <2>1 DEF NLs, NoNL
  <1>4. Max(S) = b
    <2>1. \A x \in S : (\A y \in S : x >= y) <=> x = b
      BY <1>2, <1>3
    <2> HIDE DEF S
    <2> QED
      BY <1>2, <2>1 DEF Max
  <1> QED
    BY <1>4 DEF LineAt

\* What has been read from b to p is the script from there.
LEMMA LineReads ==
  ASSUME StdioType, NEW b \in 0 .. Len(script), NEW p \in 0 .. Len(script), p = b + Len(line),
         \A n \in 1 .. Len(line) : line[n] = script[b + n]
  PROVE  line = SubSeq(script, 1 + b, p)
  <1>1. Len(script) \in Nat /\ \A n \in 1 .. Len(script) : script[n] \in Cells
    BY ScriptIs
  <1>2. line \in Seq(Cells) /\ Len(line) \in Nat
    BY LenProperties DEF StdioType
  <1>3. PICK s : s = SubSeq(script, 1 + b, p)
    OBVIOUS
  <1>4. \A n \in 1 + b .. p : script[n] \in Cells
    BY <1>1
  <1>5. 1 + b \in Int /\ p \in Int
    BY <1>1
  <1>6. /\ s \in Seq(Cells) /\ Len(s) = IF 1 + b =< p THEN p - (1 + b) + 1 ELSE 0
        /\ \A n \in 1 .. p - (1 + b) + 1 : s[n] = script[(1 + b) + n - 1]
    <2>1. PICK m \in Int : m = 1 + b
      BY <1>5
    <2>2. /\ SubSeq(script, m, p) \in Seq(Cells)
          /\ Len(SubSeq(script, m, p)) = IF m =< p THEN p - m + 1 ELSE 0
          /\ \A n \in 1 .. p - m + 1 : SubSeq(script, m, p)[n] = script[m + n - 1]
      BY <1>4, <1>5, <2>1, SubSeqProperties
    <2>3. s = SubSeq(script, m, p)
      BY <1>3, <2>1
    <2> QED
      BY <2>1, <2>2, <2>3
  <1>7. Len(s) = Len(line)
    BY <1>1, <1>2, <1>6
  <1>8. \A n \in 1 .. Len(line) : s[n] = line[n]
    <2> SUFFICES ASSUME NEW n \in 1 .. Len(line) PROVE s[n] = line[n]
      OBVIOUS
    <2>1. n \in 1 .. p - (1 + b) + 1 /\ (1 + b) + n - 1 = b + n
      BY <1>1, <1>2
    <2> QED
      BY <1>6, <2>1
  <1>9. s = line
    BY <1>2, <1>6, <1>7, <1>8, SeqEqual
  <1> QED
    BY <1>3, <1>9

\* Trimming keeps all that is not a blank.
LEMMA TrimKeeps ==
  ASSUME NEW S, NEW l \in Seq(S), NEW c \in S, c \notin Blanks
  PROVE  Contains(trim_inplace(l), c) <=> Contains(l, c)
  <1>1. PICK K : K = {i \in DOMAIN l : l[i] \notin Blanks}
    OBVIOUS
  <1>2. Len(l) \in Nat /\ DOMAIN l = 1 .. Len(l) /\ \A i \in 1 .. Len(l) : l[i] \in S
    BY LenProperties, ElementOfSeq
  <1>3. Contains(l, c) <=> \E i \in 1 .. Len(l) : l[i] = c
    BY DEF Contains
  <1>4. CASE K = {}
    <2>1. trim_inplace(l) = <<>> /\ Len(<<>>) = 0
      BY <1>1, <1>4 DEF trim_inplace
    <2>2. ~ Contains(trim_inplace(l), c)
      BY <2>1 DEF Contains
    <2>3. ~ \E i \in 1 .. Len(l) : l[i] = c
      BY <1>1, <1>2, <1>4
    <2> QED
      BY <1>3, <2>2, <2>3
  <1>5. CASE K # {}
    <2>1. PICK t : t = trim_inplace(l)
      OBVIOUS
    <2>2. PICK lo, hi : lo = Min(K) /\ hi = Max(K)
      OBVIOUS
    <2>3. /\ lo \in 1 .. Len(l) /\ hi \in 1 .. Len(l) /\ lo =< hi
          /\ \A i \in K : lo =< i /\ i =< hi
          /\ t = SubSeq(l, lo, hi)
      BY <1>1, <1>2, <1>5, <2>1, <2>2, TrimIs
    <2>4. \A j \in lo .. hi : l[j] \in S
      BY <1>2, <2>3
    <2>5. Len(t) = hi - lo + 1 /\ \A n \in 1 .. hi - lo + 1 : t[n] = l[lo + n - 1]
      BY <1>2, <2>3, <2>4, SubSeqProperties
    <2>6. ASSUME NEW i \in 1 .. Len(l), l[i] = c PROVE \E n \in 1 .. Len(t) : t[n] = c
      <3>1. lo =< i /\ i =< hi
        BY <1>1, <1>2, <2>3, <2>6
      <3>2. PICK n : n = i - lo + 1
        OBVIOUS
      <3>3. n \in 1 .. hi - lo + 1 /\ lo + n - 1 = i
        BY <1>2, <2>3, <3>1, <3>2
      <3>4. t[n] = l[i]
        BY <2>5, <3>3
      <3> QED
        BY <2>5, <2>6, <3>3, <3>4
    <2>7. ASSUME NEW n \in 1 .. Len(t), t[n] = c PROVE \E i \in 1 .. Len(l) : l[i] = c
      <3>1. n \in 1 .. hi - lo + 1 /\ lo + n - 1 \in 1 .. Len(l)
        BY <1>2, <2>3, <2>5
      <3> QED
        BY <2>5, <2>7, <3>1
    <2>8. Contains(t, c) <=> \E n \in 1 .. Len(t) : t[n] = c
      BY DEF Contains
    <2> QED
      BY <1>3, <2>1, <2>6, <2>7, <2>8
  <1> QED
    BY <1>4, <1>5

LEMMA Unmoved ==
  ASSUME UNCHANGED script
  PROVE  /\ NLs' = NLs /\ GoodEnds' = GoodEnds
         /\ \A i : LineAt(i)' = LineAt(i) /\ GoodUpTo(i)' = GoodUpTo(i)
         /\ \A b : Base(b)' <=> Base(b)
         /\ \A b, e : NoNL(b, e)' <=> NoNL(b, e)
  <1>1. NLs' = NLs
    BY DEF NLs
  <1>2. \A i : LineAt(i)' = LineAt(i)
    BY <1>1 DEF LineAt
  <1>3. GoodEnds' = GoodEnds
    BY <1>1, <1>2 DEF GoodEnds
  <1>4. \A i : GoodUpTo(i)' = GoodUpTo(i)
    BY <1>3 DEF GoodUpTo
  <1>5. \A b : Base(b)' <=> Base(b)
    BY <1>1 DEF Base
  <1>6. \A b, e : NoNL(b, e)' <=> NoNL(b, e)
    BY DEF NoNL
  <1> QED
    BY <1>1, <1>2, <1>3, <1>4, <1>5, <1>6

LEMMA SameRun ==
  ASSUME UNCHANGED <<script, ran>>, NEW q
  PROVE  RunUpTo(q)' <=> RunUpTo(q)
  <1>1. GoodEnds' = GoodEnds /\ \A i : LineAt(i)' = LineAt(i) /\ GoodUpTo(i)' = GoodUpTo(i)
    BY Unmoved
  <1> QED
    BY <1>1 DEF RunUpTo

LEMMA PosIs ==
  ASSUME StdioType, AheadInv
  PROVE  /\ pos \in 0 .. Len(script) /\ pos \in Nat /\ Len(unread) \in Nat
         /\ pos + Len(unread) = offset /\ Len(script) \in Nat /\ Len(line) \in Nat
  <1>1. Len(unread) \in Nat /\ Len(script) \in Nat /\ Len(line) \in Nat
    BY LenProperties DEF StdioType
  <1> QED
    BY <1>1 DEF StdioType, AheadInv, pos

\* Lines that do not run make no difference.
LEMMA RunsFurther ==
  ASSUME StdioType, NEW b \in Nat, NEW q \in Nat, b =< q, RunUpTo(b),
         \A j \in b + 1 .. q : j \notin GoodEnds
  PROVE  RunUpTo(q)
  <1>1. GoodUpTo(b) = GoodUpTo(q) /\ GoodEnds \subseteq Nat
    BY UpToStays, ScriptIs
  <1>2. \A i \in GoodEnds : i =< b => i =< q
    BY <1>1
  <1> QED
    BY <1>1, <1>2 DEF RunUpTo

\* The line that ends at q runs.
LEMMA RunsOne ==
  ASSUME StdioType, NEW b \in Nat, NEW q \in GoodEnds, b < q, RunUpTo(b),
         \A j \in b + 1 .. q - 1 : j \notin GoodEnds, UNCHANGED script,
         NEW l \in Seq(Cells), l = do_lex(trim_inplace(LineAt(q))), ran' = Append(ran, l)
  PROVE  RunUpTo(q)'
  <1>1. GoodUpTo(q) = GoodUpTo(b) + 1 /\ GoodUpTo(q) \in Nat /\ GoodEnds \subseteq Nat
    <2>1. GoodUpTo(q) = GoodUpTo(b) + 1
      BY UpToGrows
    <2>2. GoodUpTo(q) \in Nat
      BY UpToIs
    <2> QED
      BY <2>1, <2>2, ScriptIs
  <1>2. ran \in Seq(Seq(Cells)) /\ Len(ran) \in Nat /\ Len(ran) = GoodUpTo(b)
    BY LenProperties DEF StdioType, RunUpTo
  <1>3. /\ Len(ran') = Len(ran) + 1 /\ ran'[Len(ran) + 1] = l
        /\ \A n \in 1 .. Len(ran) : ran'[n] = ran[n]
    BY <1>2, AppendProperties
  <1>4. GoodEnds' = GoodEnds /\ \A i : LineAt(i)' = LineAt(i) /\ GoodUpTo(i)' = GoodUpTo(i)
    BY Unmoved
  <1>5. ASSUME NEW n \in 1 .. Len(ran')
        PROVE  \E i \in GoodEnds : i =< q /\ GoodUpTo(i) = n /\ ran'[n] = do_lex(trim_inplace(LineAt(i)))
    <2>1. CASE n = Len(ran) + 1
      <3>1. q =< q /\ GoodUpTo(q) = n
        BY <1>1, <1>2, <2>1
      <3>2. ran'[n] = do_lex(trim_inplace(LineAt(q)))
        BY <1>3, <2>1
      <3> QED
        BY <3>1, <3>2
    <2>2. CASE n # Len(ran) + 1
      <3>1. n \in 1 .. Len(ran)
        BY <1>2, <1>3, <2>2
      <3>2. PICK i \in GoodEnds : i =< b /\ GoodUpTo(i) = n /\ ran[n] = do_lex(trim_inplace(LineAt(i)))
        BY <3>1 DEF RunUpTo
      <3>3. i =< q
        BY <1>1, <3>2
      <3>4. ran'[n] = ran[n]
        BY <1>3, <3>1
      <3> QED
        BY <3>2, <3>3, <3>4
    <2> QED
      BY <2>1, <2>2
  <1>6. Len(ran') = GoodUpTo(q)
    BY <1>1, <1>2, <1>3
  <1> QED
    BY <1>4, <1>5, <1>6 DEF RunUpTo

\* No good line ends where there is no newline.
LEMMA NoneWithin ==
  ASSUME NEW b, NEW e, NoNL(b, e)
  PROVE  \A j \in b + 1 .. e : j \notin GoodEnds
  BY DEF NoNL, GoodEnds, NLs

\* A cell of what was read ahead is used.
LEMMA UsesAhead ==
  ASSUME StdioType, AheadInv, Uses, UNCHANGED <<script, offset, eof>>
  PROVE  /\ AheadInv' /\ pos' = pos + 1 /\ pos + 1 \in 1 .. Len(script)
         /\ Head(unread) = script[pos + 1] /\ Head(unread) \in Cells
  <1>1. unread \in Seq(Cells) /\ unread # <<>> /\ unread' = Tail(unread)
    BY DEF StdioType, Uses
  <1>2. Len(unread) \in Nat \ {0}
    BY <1>1, EmptySeq
  <1>3. /\ Len(unread') = Len(unread) - 1 /\ Head(unread) \in Cells
        /\ \A n \in 1 .. Len(unread') : unread'[n] = unread[n + 1]
    BY <1>1, HeadTailProperties
  <1>4. Head(unread) = unread[1]
    BY <1>1
  <1>5. pos \in Nat /\ pos + Len(unread) = offset /\ offset =< Len(script) /\ Len(script) \in Nat
    BY PosIs DEF StdioType
  <1>6. pos' = pos + 1
    BY <1>2, <1>3, <1>5 DEF pos
  <1>7. Head(unread) = script[pos + 1] /\ pos + 1 \in 1 .. Len(script)
    BY <1>2, <1>4, <1>5 DEF AheadInv
  <1>8. Len(unread') =< offset'
    BY <1>2, <1>3, <1>5
  <1>9. ASSUME NEW n \in 1 .. Len(unread') PROVE unread'[n] = script'[pos' + n]
    <2>1. n + 1 \in 1 .. Len(unread) /\ (pos + 1) + n = pos + (n + 1)
      BY <1>2, <1>3, <1>5
    <2>2. unread[n + 1] = script[pos + (n + 1)]
      BY <2>1 DEF AheadInv
    <2> QED
      BY <1>3, <1>6, <2>1, <2>2
  <1>10. ~ eof
    BY <1>2 DEF AheadInv
  <1>11. AheadInv'
    BY <1>8, <1>9, <1>10 DEF AheadInv
  <1> QED
    BY <1>3, <1>6, <1>7, <1>11

LEMMA InitRead == Init => ReadInv
  <1> SUFFICES ASSUME Init PROVE LinesInv
    BY DEF ReadInv
  <1>1. StdioType
    BY InitType
  <1>2. offset = 0 /\ Len(unread) = 0 /\ eof = FALSE /\ pc = "prompt" /\ Len(ran) = 0
    BY DEF Init
  <1>3. AheadInv
    BY <1>2 DEF AheadInv
  <1>4. pos = 0
    BY <1>2 DEF pos
  <1>5. GoodUpTo(0) = 0
    <2>1. {j \in GoodEnds : j =< 0} = {}
      BY <1>1, ScriptIs
    <2> QED
      BY <2>1, FS_EmptySet DEF GoodUpTo
  <1>6. RunUpTo(0) /\ Base(0)
    BY <1>2, <1>5 DEF RunUpTo, Base
  <1> QED
    BY <1>2, <1>3, <1>4, <1>6 DEF LinesInv

\* A step that reads nothing.
LEMMA RestRead ==
  ASSUME StdioType, LinesInv, UNCHANGED <<script, offset, unread, eof, ran>>,
         \/ pc' = pc /\ line' = line
         \/ pc \in {"prompt", "run", "wait"} /\ pc' \in {"prompt", "run", "wait"}
  PROVE  LinesInv'
  <1>1. AheadInv'
    BY DEF LinesInv, AheadInv, pos
  <1>2. pos' = pos
    BY DEF pos
  <1>3. /\ \A b : Base(b)' <=> Base(b)
        /\ \A b, e : NoNL(b, e)' <=> NoNL(b, e)
    BY Unmoved
  <1>4. \A q : RunUpTo(q)' <=> RunUpTo(q)
    BY SameRun
  <1>5. CASE pc' = pc /\ line' = line
    <2>1. \A b : LineFrom(b)' <=> LineFrom(b)
      BY <1>2, <1>3, <1>4, <1>5 DEF LineFrom
    <2> QED
      BY <1>1, <1>2, <1>3, <1>4, <1>5, <2>1 DEF LinesInv
  <1>6. CASE pc \in {"prompt", "run", "wait"} /\ pc' \in {"prompt", "run", "wait"}
    <2>1. Base(pos) /\ RunUpTo(pos)
      BY <1>6 DEF LinesInv
    <2>2. (Base(pos) /\ RunUpTo(pos))'
      <3>1. PICK p : p = pos
        OBVIOUS
      <3>2. Base(p)' /\ RunUpTo(p)'
        BY <1>3, <1>4, <2>1, <3>1
      <3> QED
        BY <1>2, <3>1, <3>2
    <2> QED
      BY <1>1, <1>6, <2>2 DEF LinesInv
  <1> QED
    BY <1>5, <1>6

LEMMA PromptRead ==
  ASSUME StdioType, LinesInv, Prompt PROVE LinesInv'
  <1>1. pc = "prompt" /\ pc' = "fgets" /\ line' = <<>> /\ UNCHANGED <<script, offset, unread, eof, ran>>
    BY DEF Prompt, Goes, input, in
  <1>2. AheadInv /\ AheadInv' /\ pos' = pos
    BY <1>1 DEF LinesInv, AheadInv, pos
  <1>3. PICK b \in Nat : b = pos /\ b \in 0 .. Len(script)
    BY <1>2, PosIs
  <1>4. Base(b) /\ RunUpTo(b)
    BY <1>1, <1>3 DEF LinesInv
  <1>5. Base(b)' /\ RunUpTo(b)' /\ NoNL(b, b)'
    <2>1. Base(b)' /\ RunUpTo(b)'
      BY <1>1, <1>4, Unmoved, SameRun
    <2> QED
      BY <1>3, <2>1 DEF NoNL
  <1>6. Len(line') = 0
    BY <1>1
  <1>7. LineFrom(b)'
    BY <1>1, <1>2, <1>3, <1>5, <1>6 DEF LineFrom
  <1>8. 0 < MAX_LINE - 1
    BY StdioAssumption
  <1>9. b \in 0 .. b /\ b = pos'
    BY <1>2, <1>3
  <1>10. \E c \in 0 .. pos' : LineFrom(c)' /\ NoNL(c, pos)' /\ Len(line') < MAX_LINE - 1
    <2>1. NoNL(b, pos)'
      BY <1>5, <1>9
    <2> QED
      BY <1>6, <1>7, <1>8, <1>9, <2>1
  <1> QED
    BY <1>1, <1>2, <1>10 DEF LinesInv

LEMMA FillRead ==
  ASSUME StdioType, LinesInv, Fill PROVE LinesInv'
  <1>1. AheadInv /\ unread = <<>> /\ Reading /\ UNCHANGED <<script, pc, line, ran>>
    BY DEF Fill, LinesInv, input
  <1>2. Len(script) \in Nat /\ offset \in 0 .. Len(script) /\ Len(unread) = 0
    BY <1>1, PosIs DEF StdioType
  <1>3. PICK n \in 0 .. Len(script) - offset :
          /\ unread' = SubSeq(script, offset + 1, offset + n)
          /\ offset' = offset + n /\ eof' = (n = 0) /\ (n = 0 => offset = Len(script))
    <2>1. BufSize \in Nat \ {0}
      BY StdioAssumption
    <2> QED
      BY <1>2, <2>1 DEF Fill
  <1>4. /\ Len(unread') = n
        /\ \A m \in 1 .. n : unread'[m] = script[offset + m]
    <2>1. PICK f \in Int : f = offset + 1
      BY <1>2
    <2>2. PICK t \in Int : t = offset + n
      BY <1>2
    <2>3. \A m \in f .. t : script[m] \in Cells
      BY <1>2, <2>1, <2>2, ScriptIs
    <2>4. /\ Len(SubSeq(script, f, t)) = IF f =< t THEN t - f + 1 ELSE 0
          /\ \A m \in 1 .. t - f + 1 : SubSeq(script, f, t)[m] = script[f + m - 1]
      BY <2>3, SubSeqProperties
    <2>5. unread' = SubSeq(script, f, t)
      BY <1>3, <2>1, <2>2
    <2>6. PICK u : u = unread'
      OBVIOUS
    <2>7. Len(u) = n /\ \A m \in 1 .. n : u[m] = script[f + m - 1]
      BY <1>2, <2>1, <2>2, <2>4, <2>5, <2>6
    <2>8. \A m \in 1 .. n : f + m - 1 = offset + m
      BY <1>2, <2>1
    <2> QED
      BY <2>6, <2>7, <2>8
  <1>5. pos = offset /\ pos' = offset
    BY <1>2, <1>3, <1>4 DEF pos
  <1>6. AheadInv'
    <2>4. Len(unread') = n /\ offset' = offset + n /\ eof' = (n = 0) /\ (n = 0 => offset = Len(script))
      BY <1>3, <1>4
    <2>1. Len(unread') =< offset'
      BY <1>2, <2>4
    <2>2. \A m \in 1 .. Len(unread') : unread'[m] = script'[pos' + m]
      BY <1>1, <1>4, <1>5
    <2>3. eof' => Len(unread') = 0 /\ offset' = Len(script')
      <3> SUFFICES ASSUME eof' PROVE Len(unread') = 0 /\ offset' = Len(script')
        OBVIOUS
      <3>1. n = 0
        BY <2>4
      <3>2. offset' = offset /\ offset = Len(script) /\ script' = script
        BY <1>1, <1>2, <2>4, <3>1
      <3>3. offset' = Len(script')
        BY <3>2
      <3> QED
        BY <2>4, <3>1, <3>3
    <2> QED
      BY <2>1, <2>2, <2>3 DEF AheadInv
  <1>7. /\ \A b : Base(b)' <=> Base(b)
        /\ \A b, e : NoNL(b, e)' <=> NoNL(b, e)
        /\ \A q : RunUpTo(q)' <=> RunUpTo(q)
    BY <1>1, Unmoved, SameRun
  <1>8. \A b : LineFrom(b)' <=> LineFrom(b)
    BY <1>1, <1>5, <1>7 DEF LineFrom
  <1> QED
    BY <1>1, <1>5, <1>6, <1>7, <1>8 DEF LinesInv, Reading

LEMMA FgetsRead ==
  ASSUME StdioType, LinesInv, fgets PROVE LinesInv'
  <1>1. /\ pc = "fgets" /\ Uses /\ UNCHANGED <<script, offset, eof, ran>>
        /\ line' = Append(line, Head(unread))
        /\ pc' = IF Head(unread) = NL \/ Len(line') = MAX_LINE - 1 THEN "check" ELSE "fgets"
    BY DEF fgets, Quiet, input
  <1>2. AheadInv /\ pos \in Nat /\ line \in Seq(Cells) /\ Len(line) \in Nat /\ Len(script) \in Nat
    BY PosIs DEF LinesInv, StdioType
  <1>3. /\ AheadInv' /\ pos' = pos + 1 /\ pos + 1 \in 1 .. Len(script)
        /\ Head(unread) = script[pos + 1] /\ Head(unread) \in Cells
    BY <1>1, <1>2, UsesAhead
  <1>4. PICK b \in 0 .. pos : LineFrom(b) /\ NoNL(b, pos) /\ Len(line) < MAX_LINE - 1
    BY <1>1 DEF LinesInv
  <1>5. /\ Len(line') = Len(line) + 1 /\ line'[Len(line) + 1] = script[pos + 1]
        /\ \A n \in 1 .. Len(line) : line'[n] = line[n]
    BY <1>1, <1>2, <1>3, AppendProperties
  <1>6. LineFrom(b)'
    <2>1. Base(b)' /\ RunUpTo(b)'
      BY <1>1, <1>4, Unmoved, SameRun DEF LineFrom
    <2>2. b \in 0 .. Len(script) /\ pos + 1 = b + (Len(line) + 1)
      BY <1>2, <1>4 DEF LineFrom
    <2>3. ASSUME NEW n \in 1 .. Len(line') PROVE line'[n] = script[b + n]
      <3>1. CASE n = Len(line) + 1
        <4>1. b + n = pos + 1
          BY <1>2, <2>2, <3>1
        <4> QED
          BY <1>5, <3>1, <4>1
      <3>2. CASE n # Len(line) + 1
        <4>1. n \in 1 .. Len(line)
          BY <1>2, <1>5, <3>2
        <4> QED
          BY <1>4, <1>5, <4>1 DEF LineFrom
      <3> QED
        BY <3>1, <3>2
    <2> QED
      BY <1>1, <1>3, <1>5, <2>1, <2>2, <2>3 DEF LineFrom
  <1>7. b \in 0 .. pos' - 1 /\ b \in 0 .. pos' /\ pos' - 1 = pos
    BY <1>2, <1>3
  <1>8. MAX_LINE \in Nat
    BY StdioAssumption
  <1>9. CASE pc' = "check"
    <2>1. NoNL(b, pos - 1)'
      BY <1>1, <1>4, <1>7 DEF NoNL
    <2>2. Len(line') =< MAX_LINE - 1
      BY <1>2, <1>4, <1>5, <1>8
    <2>3. script'[pos'] = NL \/ Len(line') = MAX_LINE - 1
      BY <1>1, <1>3, <1>9
    <2> QED
      BY <1>3, <1>6, <1>7, <1>9, <2>1, <2>2, <2>3 DEF LinesInv
  <1>10. CASE pc' # "check"
    <2>1. pc' = "fgets" /\ script[pos + 1] # NL /\ Len(line') # MAX_LINE - 1
      BY <1>1, <1>3, <1>10
    <2>2. NoNL(b, pos)'
      <3>1. \A j \in b + 1 .. pos + 1 : j \in b + 1 .. pos \/ j = pos + 1
        BY <1>2
      <3> QED
        BY <1>1, <1>3, <1>4, <2>1, <3>1 DEF NoNL
    <2>3. Len(line') < MAX_LINE - 1
      BY <1>2, <1>4, <1>5, <1>8, <2>1
    <2> QED
      BY <1>3, <1>6, <1>7, <2>1, <2>2, <2>3 DEF LinesInv
  <1> QED
    BY <1>9, <1>10

LEMMA FgetsEndRead ==
  ASSUME StdioType, LinesInv, fgets_at_end PROVE LinesInv'
  <1>1. /\ pc = "fgets" /\ eof /\ unread = <<>>
        /\ UNCHANGED <<script, offset, unread, eof, ran, line>>
        /\ pc' = IF line = <<>> THEN "done" ELSE "check"
    BY DEF fgets_at_end, Goes, Quiet, input
  <1>2. AheadInv /\ pos \in Nat /\ line \in Seq(Cells) /\ Len(line) \in Nat /\ Len(script) \in Nat
    BY PosIs DEF LinesInv, StdioType
  <1>3. AheadInv' /\ pos' = pos
    BY <1>1, <1>2 DEF AheadInv, pos
  <1>4. PICK b \in 0 .. pos : LineFrom(b) /\ NoNL(b, pos) /\ Len(line) < MAX_LINE - 1
    BY <1>1 DEF LinesInv
  <1>5. pos = Len(script)
    BY <1>1, <1>2, PosIs DEF AheadInv
  <1>6. CASE line = <<>>
    <2>1. Len(line) = 0
      BY <1>6
    <2>2. b = Len(script) /\ RunUpTo(b)
      BY <1>2, <1>4, <1>5, <2>1 DEF LineFrom
    <2>3. RunUpTo(b)' /\ b \in 0 .. Len(script') /\ b = Len(script')
      BY <1>1, <1>2, <2>2, SameRun
    <2>4. pc' = "done"
      BY <1>1, <1>6
    <2> QED
      BY <1>3, <2>3, <2>4 DEF LinesInv
  <1>7. CASE line # <<>>
    <2>1. Len(line) \in Nat \ {0}
      BY <1>2, <1>7, EmptySeq
    <2>2. b \in 0 .. pos' - 1
      BY <1>2, <1>3, <1>4, <2>1 DEF LineFrom
    <2>3. LineFrom(b)'
      <3>1. Base(b)' /\ RunUpTo(b)'
        BY <1>1, <1>4, Unmoved, SameRun DEF LineFrom
      <3> QED
        BY <1>1, <1>3, <1>4, <3>1 DEF LineFrom
    <2>4. NoNL(b, pos - 1)'
      <3>1. \A j \in b + 1 .. pos - 1 : j \in b + 1 .. pos
        BY <1>2
      <3> QED
        BY <1>1, <1>3, <1>4, <3>1 DEF NoNL
    <2>5. Len(line') =< MAX_LINE - 1 /\ pos' = Len(script')
      <3>1. MAX_LINE \in Nat
        BY StdioAssumption
      <3> QED
        BY <1>1, <1>2, <1>3, <1>4, <1>5, <3>1
    <2>6. pc' = "check"
      BY <1>1, <1>7
    <2> QED
      BY <1>3, <2>2, <2>3, <2>4, <2>5, <2>6 DEF LinesInv
  <1> QED
    BY <1>6, <1>7

LEMMA DiscardRead ==
  ASSUME StdioType, LinesInv, discard_rest_of_line PROVE LinesInv'
  <1>1. pc = "discard" /\ UNCHANGED <<script, offset, eof, ran, line>>
    BY DEF discard_rest_of_line, Quiet, input
  <1>2. AheadInv /\ pos \in Nat /\ Len(script) \in Nat
    BY PosIs DEF LinesInv
  <1>3. PICK b \in 0 .. pos : /\ Base(b) /\ NoNL(b, pos) /\ RunUpTo(b)
                              /\ pos - b >= MAX_LINE - 1 \/ pos = Len(script)
    BY <1>1 DEF LinesInv
  <1>4. \A q : Base(q)' <=> Base(q)
    BY <1>1, Unmoved
  <1>5. \A q : RunUpTo(q)' <=> RunUpTo(q)
    BY <1>1, SameRun
  <1>6. MAX_LINE \in Nat
    BY StdioAssumption
  <1>7. CASE Uses /\ pc' = IF Head(unread) = NL THEN "prompt" ELSE "discard"
    <2>1. /\ AheadInv' /\ pos' = pos + 1 /\ pos + 1 \in 1 .. Len(script)
          /\ Head(unread) = script[pos + 1]
      BY <1>1, <1>2, <1>7, UsesAhead
    <2>2. pos - b >= MAX_LINE - 1
      BY <1>2, <1>3, <2>1
    <2>3. \A j \in b + 1 .. pos + 1 : j \in b + 1 .. pos \/ j = pos + 1
      BY <1>2
    <2>4. CASE script[pos + 1] = NL
      <3>1. pos + 1 \notin GoodEnds
        <4>1. PICK p \in 1 .. Len(script) : p = pos + 1
          BY <2>1
        <4>2. NoNL(b, p - 1) /\ b < p /\ b \in 0 .. Len(script)
          BY <1>2, <1>3, <2>1, <4>1
        <4>3. LineAt(p) = SubSeq(script, 1 + b, p)
          BY <1>3, <4>2, LineBegins
        <4>4. Len(SubSeq(script, 1 + b, p)) = p - b
          <5>1. \A m \in 1 + b .. p : script[m] \in Cells
            BY <1>2, <4>2, ScriptIs
          <5>2. PICK m \in Int : m = 1 + b
            BY <4>2
          <5>3. Len(SubSeq(script, m, p)) = IF m =< p THEN p - m + 1 ELSE 0
            BY <5>1, <5>2, SubSeqProperties
          <5> QED
            BY <4>2, <5>2, <5>3
        <4>5. ~ (p - b < MAX_LINE)
          BY <1>2, <1>6, <2>2, <4>1
        <4> QED
          BY <4>1, <4>3, <4>4, <4>5 DEF GoodEnds, GoodLine
      <3>2. \A j \in b + 1 .. pos + 1 : j \notin GoodEnds
        BY <1>3, <2>3, <3>1, NoneWithin
      <3>3. b \in Nat /\ pos + 1 \in Nat /\ b =< pos + 1
        BY <1>2
      <3>4. RunUpTo(pos + 1)
        BY <1>3, <3>2, <3>3, RunsFurther
      <3>5. Base(pos + 1)
        BY <1>2, <2>1, <2>4, ScriptIs DEF Base, NLs
      <3>6. (Base(pos) /\ RunUpTo(pos))'
        <4>1. PICK p : p = pos + 1
          OBVIOUS
        <4>2. Base(p)' /\ RunUpTo(p)'
          BY <1>4, <1>5, <3>4, <3>5, <4>1
        <4> QED
          BY <2>1, <4>1, <4>2
      <3>7. pc' = "prompt"
        BY <1>7, <2>1, <2>4
      <3> QED
        BY <2>1, <3>6, <3>7 DEF LinesInv
    <2>5. CASE script[pos + 1] # NL
      <3>1. NoNL(b, pos)'
        BY <1>1, <1>3, <2>1, <2>3, <2>5 DEF NoNL
      <3>2. Base(b)' /\ RunUpTo(b)' /\ b \in 0 .. pos' /\ pos' - b >= MAX_LINE - 1
        BY <1>2, <1>3, <1>4, <1>5, <1>6, <2>1, <2>2
      <3>3. pc' = "discard"
        BY <1>7, <2>1, <2>5
      <3> QED
        BY <2>1, <3>1, <3>2, <3>3 DEF LinesInv
    <2> QED
      BY <2>4, <2>5
  <1>8. CASE eof /\ unread = <<>> /\ pc' = "prompt" /\ UNCHANGED unread
    <2>1. AheadInv' /\ pos' = pos
      BY <1>1, <1>2, <1>8 DEF AheadInv, pos
    <2>2. pos = Len(script)
      BY <1>2, <1>8, PosIs DEF AheadInv
    <2>3. RunUpTo(pos)
      <3>1. \A j \in b + 1 .. pos : j \notin GoodEnds
        BY <1>3, NoneWithin
      <3>2. b \in Nat /\ b =< pos
        BY <1>2
      <3> QED
        BY <1>2, <1>3, <3>1, <3>2, RunsFurther
    <2>4. (Base(pos) /\ RunUpTo(pos))'
      <3>1. PICK p : p = pos
        OBVIOUS
      <3>2. Base(p)' /\ RunUpTo(p)'
        BY <1>4, <1>5, <2>2, <2>3, <3>1 DEF Base
      <3> QED
        BY <2>1, <3>1, <3>2
    <2> QED
      BY <1>8, <2>1, <2>4 DEF LinesInv
  <1> QED
    BY <1>7, <1>8 DEF discard_rest_of_line

LEMMA WrongIsCell == "wrong" \in Cells /\ "wrong" \notin Blanks
  BY DEF Cells, Blanks, NL

LEMMA CheckRead ==
  ASSUME StdioType, LinesInv, Check PROVE LinesInv'
  <1>1. pc = "check" /\ UNCHANGED <<script, offset, unread, eof, line>>
    BY DEF Check, input, in
  <1>2. /\ AheadInv /\ pos \in Nat /\ pos \in 0 .. Len(script) /\ line \in Seq(Cells)
        /\ Len(line) \in Nat /\ Len(script) \in Nat
    BY PosIs DEF LinesInv, StdioType
  <1>3. AheadInv' /\ pos' = pos
    BY <1>1, <1>2 DEF AheadInv, pos
  <1>4. PICK b \in 0 .. pos - 1 :
          /\ LineFrom(b) /\ NoNL(b, pos - 1) /\ Len(line) =< MAX_LINE - 1
          /\ script[pos] = NL \/ Len(line) = MAX_LINE - 1 \/ pos = Len(script)
    BY <1>1 DEF LinesInv
  <1>5. /\ b \in 0 .. Len(script) /\ Base(b) /\ pos = b + Len(line) /\ RunUpTo(b)
        /\ \A n \in 1 .. Len(line) : line[n] = script[b + n]
    BY <1>4 DEF LineFrom
  <1>6. b < pos /\ pos \in 1 .. Len(script) /\ Len(line) \in 1 .. Len(line)
    BY <1>2, <1>4, <1>5
  <1>7. \A q : Base(q)' <=> Base(q)
    BY <1>1, Unmoved
  <1>8. MAX_LINE \in Nat
    BY StdioAssumption
  <1>9. CASE ~ Contains(line, NL)
    <2>1. pc' = "discard" /\ UNCHANGED <<ran, next>>
      BY <1>9 DEF Check
    <2>2. script[pos] # NL
      <3>1. line[Len(line)] # NL
        BY <1>6, <1>9 DEF Contains
      <3> QED
        BY <1>5, <1>6, <3>1
    <2>3. NoNL(b, pos)'
      <3>1. \A j \in b + 1 .. pos : j \in b + 1 .. pos - 1 \/ j = pos
        BY <1>2
      <3> QED
        BY <1>1, <1>3, <1>4, <2>2, <3>1 DEF NoNL
    <2>4. b \in 0 .. pos' /\ (pos' - b >= MAX_LINE - 1 \/ pos' = Len(script'))
      BY <1>1, <1>2, <1>3, <1>4, <1>5, <1>8, <2>2
    <2>5. Base(b)' /\ RunUpTo(b)'
      BY <1>1, <1>5, <1>7, <2>1, SameRun
    <2> QED
      BY <1>3, <2>1, <2>3, <2>4, <2>5 DEF LinesInv
  <1>10. CASE Contains(line, NL)
    <2>1. PICK p \in 1 .. Len(script) : p = pos
      BY <1>6
    <2>2. p \in NLs
      <3>1. PICK n \in 1 .. Len(line) : line[n] = NL
        BY <1>10 DEF Contains
      <3>2. script[b + n] = NL /\ b + n \in b + 1 .. p
        BY <1>2, <1>5, <2>1, <3>1
      <3>3. b + n \notin b + 1 .. p - 1
        BY <1>4, <2>1, <3>2 DEF NoNL
      <3>4. b + n = p
        BY <1>2, <2>1, <3>2, <3>3
      <3> QED
        BY <1>2, <3>2, <3>4, ScriptIs DEF NLs
    <2>3. LineAt(p) = line
      <3>1. LineAt(p) = SubSeq(script, 1 + b, p)
        BY <1>4, <1>5, <1>6, <2>1, LineBegins
      <3>2. p \in 0 .. Len(script)
        BY <1>2
      <3>3. line = SubSeq(script, 1 + b, p)
        BY <1>5, <2>1, <3>2, LineReads
      <3> QED
        BY <3>1, <3>3
    <2>4. PICK l : l = trim_inplace(line)
      OBVIOUS
    <2>5. do_lex(l) \in Seq(Cells)
      BY <1>2, <2>4, TrimType, LexType
    <2>6. Contains(l, "wrong") <=> Contains(line, "wrong")
      BY <1>2, <2>4, WrongIsCell, TrimKeeps
    <2>7. p \in GoodEnds <=> l # <<>> /\ ~ Contains(l, "wrong")
      <3>1. Len(line) < MAX_LINE
        BY <1>2, <1>4, <1>8
      <3>2. GoodLine(line) <=> l # <<>> /\ ~ Contains(line, "wrong")
        BY <2>4, <3>1 DEF GoodLine
      <3> QED
        BY <2>2, <2>3, <2>6, <3>2 DEF GoodEnds
    <2>8. \A j \in b + 1 .. p - 1 : j \notin GoodEnds
      BY <1>4, <2>1, NoneWithin
    <2>9. b \in Nat /\ p \in Nat /\ b < p /\ b =< p
      BY <1>2, <1>5, <1>6, <2>1
    <2>10. Base(p)'
      BY <1>7, <2>2 DEF Base
    <2>11. CASE l = <<>> \/ Contains(l, "wrong")
      <3>1. pc' = "prompt" /\ UNCHANGED <<ran, next>>
        BY <1>10, <2>4, <2>11 DEF Check
      <3>2. \A j \in b + 1 .. p : j \notin GoodEnds
        <4>1. p \notin GoodEnds
          BY <2>7, <2>11
        <4>2. \A j \in b + 1 .. p : j \in b + 1 .. p - 1 \/ j = p
          BY <2>9
        <4> QED
          BY <2>8, <4>1, <4>2
      <3>3. RunUpTo(p)
        BY <1>5, <2>9, <3>2, RunsFurther
      <3>4. RunUpTo(p)'
        BY <1>1, <3>1, <3>3, SameRun
      <3> QED
        BY <1>3, <2>1, <2>10, <3>1, <3>4 DEF LinesInv
    <2>12. CASE ~ (l = <<>> \/ Contains(l, "wrong"))
      <3>1. pc' = "run" /\ ran' = Append(ran, do_lex(l))
        BY <1>10, <2>4, <2>12 DEF Check
      <3>2. p \in GoodEnds
        BY <2>7, <2>12
      <3>3. do_lex(l) = do_lex(trim_inplace(LineAt(p)))
        BY <2>3, <2>4
      <3>4. RunUpTo(p)'
        BY <1>1, <1>5, <2>5, <2>8, <2>9, <3>1, <3>2, <3>3, RunsOne
      <3> QED
        BY <1>3, <2>1, <2>10, <3>1, <3>4 DEF LinesInv
    <2> QED
      BY <2>11, <2>12
  <1> QED
    BY <1>9, <1>10

LEMMA KillRead ==
  ASSUME StdioType, LinesInv, killmb PROVE LinesInv'
  <1>1. /\ More /\ command = "exit" /\ pc' = "done"
        /\ UNCHANGED <<script, offset, unread, eof, ran>>
    BY DEF killmb, input, in
  <1>2. AheadInv /\ pos \in 0 .. Len(script)
    BY PosIs DEF LinesInv
  <1>3. AheadInv'
    BY <1>1, <1>2 DEF AheadInv, pos
  <1>4. PICK q \in 0 .. Len(script) : q = pos
    BY <1>2
  <1>5. RunUpTo(q)
    BY <1>1, <1>4 DEF LinesInv, More
  <1>6. RunUpTo(q)' /\ q \in 0 .. Len(script')
    BY <1>1, <1>5, SameRun
  <1>7. Contains(Last(ran'), "exit")
    <2>1. next =< Len(Last(ran)) /\ Last(ran)[next] = "exit" /\ next \in Nat \ {0}
      BY <1>1 DEF More, command, StdioType
    <2>2. PICK n \in Nat \ {0} : n = next
      BY <2>1
    <2>3. PICK l : l = Last(ran)
      OBVIOUS
    <2>4. n =< Len(l) /\ l[n] = "exit"
      BY <2>1, <2>2, <2>3
    <2>5. Contains(l, "exit")
      BY <2>2, <2>4 DEF Contains
    <2>6. Last(ran') = l
      BY <1>1, <2>3
    <2> QED
      BY <2>5, <2>6
  <1> QED
    BY <1>1, <1>3, <1>6, <1>7 DEF LinesInv

LEMMA NextRead == StdioType /\ ReadInv /\ [Next]_vars => ReadInv'
  <1> SUFFICES ASSUME StdioType, ReadInv, [Next]_vars, ~ rewound' PROVE LinesInv'
    BY DEF ReadInv
  <1>1. ASSUME UNCHANGED rewound PROVE LinesInv
    BY <1>1 DEF ReadInv
  <1>2. CASE Prompt
    BY <1>1, <1>2, PromptRead DEF Prompt
  <1>3. CASE Fill
    BY <1>1, <1>3, FillRead DEF Fill
  <1>4. CASE fgets
    BY <1>1, <1>4, FgetsRead DEF fgets, Quiet
  <1>5. CASE fgets_at_end
    BY <1>1, <1>5, FgetsEndRead DEF fgets_at_end, Quiet
  <1>6. CASE discard_rest_of_line
    BY <1>1, <1>6, DiscardRead DEF discard_rest_of_line, Quiet
  <1>7. CASE Check
    BY <1>1, <1>7, CheckRead DEF Check
  <1>8. CASE killmb
    BY <1>1, <1>8, KillRead DEF killmb
  <1>9. CASE Builtin \/ run_cmd \/ Waited \/ LineEnds
    <2>1. /\ UNCHANGED <<script, offset, unread, eof, ran, rewound>>
          /\ pc \in {"run", "wait"} /\ pc' \in {"prompt", "run", "wait"}
      BY <1>9 DEF Builtin, run_cmd, Waited, LineEnds, More, Goes, input, in
    <2> QED
      BY <1>1, <2>1, RestRead
  <1>10. ASSUME NEW k \in kids, Execs(k) PROVE LinesInv'
    <2>1. UNCHANGED <<script, offset, unread, eof, ran, rewound, pc, line>>
      BY <1>10 DEF Execs, input, in
    <2> QED
      BY <1>1, <2>1, RestRead
  <1>11. ASSUME NEW k \in kids, Exits(k) PROVE LinesInv'
    <2>1. UNCHANGED <<script, offset, unread, eof, ran, rewound, pc, line>>
      BY <1>11 DEF Exits, input
    <2> QED
      BY <1>1, <2>1, RestRead
  <1>12. CASE UNCHANGED vars
    <2>1. UNCHANGED <<script, offset, unread, eof, ran, rewound, pc, line>>
      BY <1>12 DEF vars, input, in
    <2> QED
      BY <1>1, <2>1, RestRead
  <1> QED
    BY <1>2, <1>3, <1>4, <1>5, <1>6, <1>7, <1>8, <1>9, <1>10, <1>11, <1>12 DEF Next

\* What has run up to a place of the script is a prefix of what is to run.
LEMMA RunIsPrefix ==
  ASSUME StdioType, NEW q \in 0 .. Len(script), RunUpTo(q)
  PROVE  IsPrefix(ran, LinesToRun) /\ (q = Len(script) => ran = LinesToRun)
  <1> DEFINE C == Cardinality(GoodEnds)
             R == LinesToRun
  <1>1. C \in Nat /\ GoodEnds \subseteq Nat
    BY ScriptIs
  <1>2. ran \in Seq(Seq(Cells)) /\ Len(ran) \in Nat /\ Len(ran) =< C
    BY LenProperties, UpToIs DEF StdioType, RunUpTo
  <1>3. \A n \in 1 .. C : R[n] = do_lex(trim_inplace(LineAt(CHOOSE i \in GoodEnds : GoodUpTo(i) = n)))
    BY DEF LinesToRun
  <1>4. DOMAIN R = 1 .. C /\ Len(R) = C
    BY <1>1 DEF LinesToRun
  <1>5. ASSUME NEW n \in 1 .. Len(ran) PROVE ran[n] = R[n]
    <2>1. PICK i \in GoodEnds : GoodUpTo(i) = n /\ ran[n] = do_lex(trim_inplace(LineAt(i)))
      BY DEF RunUpTo
    <2>2. (CHOOSE j \in GoodEnds : GoodUpTo(j) = n) = i
      BY <2>1, UpToOnce
    <2>3. n \in 1 .. C
      BY <1>1, <1>2
    <2> QED
      BY <1>3, <2>1, <2>2, <2>3
  <1>6. IsPrefix(ran, R)
    <2>1. PICK N \in Nat : N = Len(ran)
      BY <1>2
    <2>2. SubSeq(ran, 1, N) = [n \in 1 .. N |-> ran[n]]
      BY <1>2, <2>1
    <2> QED
      BY <1>2, <1>4, <1>5 DEF IsPrefix
  <1>7. ASSUME q = Len(script) PROVE ran = R
    <2>1. GoodUpTo(q) = C
      <3>1. {j \in GoodEnds : j =< q} = GoodEnds
        BY <1>7, ScriptIs
      <3> QED
        BY <3>1 DEF GoodUpTo
    <2>2. Len(ran) = C
      BY <2>1 DEF RunUpTo
    <2>3. ran = [n \in 1 .. Len(ran) |-> ran[n]]
      BY <1>2, LenProperties
    <2>4. R = [n \in 1 .. C |-> R[n]]
      BY <1>4 DEF LinesToRun
    <2> HIDE DEF R
    <2> QED
      BY <1>5, <2>2, <2>3, <2>4
  <1> QED
    BY <1>6, <1>7

LEMMA LinesFromInv == StdioType /\ ReadInv => LinesRunOnce
  <1> SUFFICES ASSUME StdioType, LinesInv
               PROVE  /\ IsPrefix(ran, LinesToRun)
                      /\ pc = "done" => ran = LinesToRun \/ Contains(Last(ran), "exit")
    BY DEF ReadInv, LinesRunOnce
  <1>1. pos \in 0 .. Len(script) /\ Len(script) \in Nat
    BY PosIs DEF LinesInv
  <1>2. \E q \in 0 .. Len(script) :
          RunUpTo(q) /\ (pc = "done" => q = Len(script) \/ Contains(Last(ran), "exit"))
    <2>1. CASE pc \in {"prompt", "run", "wait"}
      BY <1>1, <2>1 DEF LinesInv
    <2>2. CASE pc \in {"fgets", "check", "discard"}
      <3>1. PICK b \in 0 .. pos : RunUpTo(b)
        <4>1. \A b \in 0 .. pos - 1 : b \in 0 .. pos
          BY <1>1
        <4> QED
          BY <2>2, <4>1 DEF LinesInv, LineFrom
      <3>2. b \in 0 .. Len(script)
        BY <1>1
      <3> QED
        BY <2>2, <3>1, <3>2
    <2>3. CASE pc = "done"
      BY <2>3 DEF LinesInv
    <2> QED
      BY <2>1, <2>2, <2>3 DEF StdioType
  <1> QED
    BY <1>2, RunIsPrefix

\* Whatever the script, the sizes and the children: as long as no child has moved the
\* offset back, main runs the good lines of its input once each and in order (fgets,
\* discard_rest_of_line and the checks of main).
THEOREM LinesCorrect == Spec => []LinesRunOnce
  <1>1. Init => StdioType /\ ReadInv
    BY InitType, InitRead
  <1>2. StdioType /\ ReadInv /\ [Next]_vars => (StdioType /\ ReadInv)'
    BY NextType, NextRead
  <1> QED
    BY <1>1, <1>2, LinesFromInv, PTL DEF Spec
=============================================================================
