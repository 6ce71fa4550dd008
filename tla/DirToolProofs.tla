---------------------------- MODULE DirToolProofs ----------------------------
(* Proofs about the directory tool: any file system at the start, any       *)
(* command line, any order of the steps of nftw and of another program.     *)
EXTENDS DirTool, SequenceTheorems, FiniteSetTheorems, WellFoundedInduction, NaturalsInduction, TLAPS
-----------------------------------------------------------------------------
(* Paths.                                                                  *)

LEMMA PrefixDef ==
  ASSUME NEW S, NEW d \in Seq(S), NEW p \in Seq(S)
  PROVE  IsPrefix(d, p) <=> Len(d) =< Len(p) /\ \A i \in 1 .. Len(d) : d[i] = p[i]
  <1>1. Len(d) \in Nat /\ Len(p) \in Nat
    BY LenProperties
  <1>2. ASSUME Len(d) =< Len(p)
        PROVE  SubSeq(d, 1, Len(d)) = SubSeq(p, 1, Len(d)) <=> \A i \in 1 .. Len(d) : d[i] = p[i]
    <2>1. \A i \in 1 .. Len(d) : d[i] \in S /\ p[i] \in S
      BY <1>1, <1>2, ElementOfSeq
    <2>2. SubSeq(d, 1, Len(d)) = d
      BY SubSeqFull
    <2>3. 1 \in Int /\ Len(d) \in Int
      BY <1>1
    <2>4. /\ SubSeq(p, 1, Len(d)) \in Seq(S)
          /\ Len(SubSeq(p, 1, Len(d))) = IF 1 =< Len(d) THEN Len(d) - 1 + 1 ELSE 0
          /\ \A i \in 1 .. Len(d) - 1 + 1 : SubSeq(p, 1, Len(d))[i] = p[1 + i - 1]
      BY <2>1, <2>3, SubSeqProperties
    <2> DEFINE t == SubSeq(p, 1, Len(d))
    <2>5. t \in Seq(S) /\ Len(t) = Len(d) /\ \A i \in 1 .. Len(d) : t[i] = p[i]
      BY <1>1, <2>4
    <2> HIDE DEF t
    <2>6. d = t <=> \A i \in 1 .. Len(d) : d[i] = t[i]
      BY <2>5, SeqEqual
    <2> QED
      BY <2>2, <2>5, <2>6 DEF t
  <1> QED
    BY <1>1, <1>2 DEF IsPrefix

LEMMA BelowSelf ==
  ASSUME NEW S, NEW p \in Seq(S) PROVE Below(p, p)
  BY PrefixDef, LenProperties DEF Below

LEMMA BelowBelow ==
  ASSUME NEW S, NEW p \in Seq(S), NEW q \in Seq(S), NEW d \in Seq(S), Below(p, q), Below(q, d)
  PROVE  Below(p, d) /\ Len(d) =< Len(q) /\ Len(q) =< Len(p)
  <1>1. Len(d) =< Len(q) /\ \A i \in 1 .. Len(d) : d[i] = q[i]
    BY PrefixDef DEF Below
  <1>2. Len(q) =< Len(p) /\ \A i \in 1 .. Len(q) : q[i] = p[i]
    BY PrefixDef DEF Below
  <1>3. {Len(p), Len(q), Len(d)} \subseteq Nat
    BY LenProperties
  <1>4. Len(d) =< Len(p) /\ \A i \in 1 .. Len(d) : d[i] = p[i]
    BY <1>1, <1>2, <1>3
  <1> QED
    BY <1>1, <1>2, <1>4, PrefixDef DEF Below

\* The start of a path, up to the n-th name.
LEMMA StartOf ==
  ASSUME NEW S, NEW p \in Seq(S), NEW n \in 0 .. Len(p)
  PROVE  /\ SubSeq(p, 1, n) \in Seq(S) /\ Len(SubSeq(p, 1, n)) = n
         /\ \A i \in 1 .. n : SubSeq(p, 1, n)[i] = p[i]
         /\ Below(p, SubSeq(p, 1, n))
  <1>1. Len(p) \in Nat /\ n \in Nat /\ n =< Len(p)
    BY LenProperties
  <1>2. \A i \in 1 .. n : p[i] \in S
    BY <1>1, ElementOfSeq
  <1>3. 1 \in Int /\ n \in Int
    BY <1>1
  <1>4. /\ SubSeq(p, 1, n) \in Seq(S)
        /\ Len(SubSeq(p, 1, n)) = IF 1 =< n THEN n - 1 + 1 ELSE 0
        /\ \A i \in 1 .. n - 1 + 1 : SubSeq(p, 1, n)[i] = p[1 + i - 1]
    BY <1>2, <1>3, SubSeqProperties
  <1> DEFINE t == SubSeq(p, 1, n)
  <1>5. t \in Seq(S) /\ Len(t) = n /\ \A i \in 1 .. n : t[i] = p[i]
    BY <1>1, <1>4
  <1> HIDE DEF t
  <1>6. Below(p, t)
    BY <1>1, <1>5, PrefixDef DEF Below
  <1> QED
    BY <1>5, <1>6 DEF t

LEMMA BelowStarts ==
  ASSUME NEW S, NEW p \in Seq(S), NEW d \in Seq(S), Below(p, d)
  PROVE  SubSeq(p, 1, Len(d)) = d /\ Len(d) \in 0 .. Len(p)
  <1>1. Len(d) \in 0 .. Len(p) /\ \A i \in 1 .. Len(d) : d[i] = p[i]
    BY PrefixDef, LenProperties DEF Below
  <1> DEFINE t == SubSeq(p, 1, Len(d))
  <1>2. t \in Seq(S) /\ Len(t) = Len(d) /\ \A i \in 1 .. Len(d) : t[i] = p[i]
    BY <1>1, StartOf
  <1> HIDE DEF t
  <1>3. t = d
    BY <1>1, <1>2, SeqEqual
  <1> QED
    BY <1>1, <1>3 DEF t
-----------------------------------------------------------------------------
(* The text of a path, and what path_is_under_home makes of it.            *)

\* A set of naturals has a least element.
LEMMA LeastBy ==
  ASSUME NEW R, IsWellFoundedOn(R, Nat), \A x, y \in Nat : y < x => <<y, x>> \in R,
         NEW S, S \subseteq Nat, S # {}
  PROVE \E x \in S : \A y \in S : x =< y
  <1>1. PICK x \in S : \A y \in S : ~ (<<y, x>> \in R)
    BY WFMin
  <1>2. \A y \in S : ~ (y < x)
    BY <1>1
  <1> QED
    BY <1>2

LEMMA LeastIn ==
  ASSUME NEW S, S \subseteq Nat, S # {}
  PROVE \E x \in S : \A y \in S : x =< y
  <1>1. \A x, y \in Nat : y < x => <<y, x>> \in OpToRel(<, Nat)
    BY DEF OpToRel
  <1> QED
    BY <1>1, NatLessThanWellFounded, LeastBy

\* What g has at i is the first i sequences of ss in a row.
Joins(ss, g) == \A i \in DOMAIN g : g[i] = IF i = 1 THEN ss[i] ELSE g[i - 1] \o ss[i]

LEMMA JoinsExist ==
  ASSUME NEW S, NEW ss \in Seq(Seq(S)), NEW n \in 1 .. Len(ss)
  PROVE \E g \in [1 .. n -> Seq(S)] : Joins(ss, g)
  <1> DEFINE Bad == {m \in 1 .. n : ~ \E g \in [1 .. m -> Seq(S)] : Joins(ss, g)}
  <1>1. Len(ss) \in Nat /\ \A i \in 1 .. Len(ss) : ss[i] \in Seq(S)
    BY LenProperties, ElementOfSeq
  <1> SUFFICES ASSUME Bad # {} PROVE FALSE
    <2>1. n \in 1 .. n
      BY <1>1
    <2> QED
      BY <2>1
  <1>a. Bad \subseteq Nat
    OBVIOUS
  <1>2. PICK m \in Bad : \A k \in Bad : m =< k
    <2> HIDE DEF Bad
    <2> QED
      BY <1>a, LeastIn
  <1>3. CASE m = 1
    <2> DEFINE g == [i \in 1 .. 1 |-> ss[1]]
    <2>1. g \in [1 .. 1 -> Seq(S)] /\ Joins(ss, g)
      BY <1>1 DEF Joins
    <2> QED
      BY <1>3, <2>1
  <1>4. CASE m # 1
    <2>1. m \in 1 .. n /\ m - 1 \in 1 .. n /\ m - 1 \notin Bad
      <3>1. m \in Nat /\ n \in Nat /\ m >= 1 /\ m =< n
        BY <1>1
      <3>2. m - 1 \notin Bad
        BY <1>2, <3>1
      <3> QED
        BY <1>4, <3>1, <3>2
    <2>2. PICK g \in [1 .. m - 1 -> Seq(S)] : Joins(ss, g)
      BY <2>1
    <2> DEFINE h == [i \in 1 .. m |-> IF i = m THEN g[m - 1] \o ss[m] ELSE g[i]]
    <2>3. g[m - 1] \o ss[m] \in Seq(S)
      BY <1>1, <2>1, ConcatProperties
    <2>4. h \in [1 .. m -> Seq(S)]
      BY <1>1, <2>1, <2>3
    <2>5. \A i \in 1 .. m : h[i] = IF i = 1 THEN ss[i] ELSE h[i - 1] \o ss[i]
      <3> SUFFICES ASSUME NEW i \in 1 .. m PROVE h[i] = IF i = 1 THEN ss[i] ELSE h[i - 1] \o ss[i]
        OBVIOUS
      <3>1. CASE i = m
        <4>1. m \in 1 .. m /\ m - 1 \in 1 .. m /\ m - 1 # m
          BY <2>1
        <4>2. h[m] = g[m - 1] \o ss[m] /\ h[m - 1] = g[m - 1]
          BY <4>1
        <4> QED
          BY <1>4, <3>1, <4>2
      <3>2. CASE i # m
        <4>1. i \in 1 .. m - 1 /\ h[i] = g[i] /\ (i # 1 => h[i - 1] = g[i - 1])
          BY <2>1, <3>2
        <4> QED
          BY <2>2, <4>1 DEF Joins
      <3> QED
        BY <3>1, <3>2
    <2> HIDE DEF h
    <2> QED
      BY <2>4, <2>5 DEF Joins
  <1> QED
    BY <1>3, <1>4

LEMMA FlattenJoins ==
  ASSUME NEW S, NEW ss \in Seq(Seq(S)), ss # <<>>
  PROVE \E g \in [1 .. Len(ss) -> Seq(S)] : Joins(ss, g) /\ FlattenSeq(ss) = g[Len(ss)]
  <1>1. Len(ss) \in Nat /\ Len(ss) # 0
    BY EmptySeq, LenProperties
  <1>2. PICK g \in [1 .. Len(ss) -> Seq(S)] : Joins(ss, g)
    BY <1>1, JoinsExist, SMTT(30)
  <1>3. g = [i \in 1 .. Len(ss) |-> IF i = 1 THEN ss[i] ELSE g[i - 1] \o ss[i]]
    BY <1>2 DEF Joins
  <1> DEFINE F == CHOOSE f : f = [i \in 1 .. Len(ss) |-> IF i = 1 THEN ss[i] ELSE f[i - 1] \o ss[i]]
  <1>4. F = [i \in 1 .. Len(ss) |-> IF i = 1 THEN ss[i] ELSE F[i - 1] \o ss[i]]
    BY <1>3
  <1>5. FlattenSeq(ss) = F[Len(ss)]
    BY <1>1 DEF FlattenSeq
  <1> HIDE DEF F
  <1> DEFINE Bad == {m \in 1 .. Len(ss) : F[m] # g[m]}
  <1>6. Bad = {}
    <2> SUFFICES ASSUME Bad # {} PROVE FALSE
      OBVIOUS
    <2>a. Bad \subseteq Nat
      OBVIOUS
    <2>1. PICK m \in Bad : \A k \in Bad : m =< k
      <3> HIDE DEF Bad
      <3> QED
        BY <2>a, LeastIn
    <2>2. m # 1 => m - 1 \in 1 .. Len(ss) /\ m - 1 \notin Bad
      BY <1>1, <2>1
    <2>3. F[m] = IF m = 1 THEN ss[m] ELSE F[m - 1] \o ss[m]
      BY <1>4
    <2>4. g[m] = IF m = 1 THEN ss[m] ELSE g[m - 1] \o ss[m]
      BY <1>3
    <2> QED
      BY <2>1, <2>2, <2>3, <2>4
  <1> QED
    BY <1>1, <1>2, <1>5, <1>6, SMTT(30)

Pieces(p) == [i \in DOMAIN p |-> <<"/">> \o p[i]]

\* Where the names stand in the text of a path: off[i] characters are the first i names.
Layout(p, t, off, n) ==
    /\ off \in [0 .. n -> Nat] /\ off[0] = 0 /\ Len(t) = off[n]
    /\ \A i \in 1 .. n :
         /\ off[i] = off[i - 1] + 1 + Len(p[i]) /\ off[i] =< off[n]
         /\ t[off[i - 1] + 1] = "/"
         /\ \A j \in 1 .. Len(p[i]) : t[off[i - 1] + 1 + j] = p[i][j]

LEMMA Between ==
  ASSUME NEW a0 \in Nat, NEW b0 \in Nat, NEW c0 \in Nat, NEW d0 \in Nat,
         b0 = a0 + 1 + c0, b0 =< d0
  PROVE  a0 + 1 \in 1 .. d0 /\ \A j \in 1 .. c0 : a0 + 1 + j \in 1 .. d0
  OBVIOUS

LEMMA LayoutGrows ==
  ASSUME NEW C, "/" \in C, NEW p \in Seq(Seq(C)), NEW n \in Nat, n + 1 =< Len(p),
         NEW t \in Seq(C), NEW off, Layout(p, t, off, n)
  PROVE  \E off2 : Layout(p, t \o (<<"/">> \o p[n + 1]), off2, n + 1)
  <1> DEFINE m == n + 1
             piece == <<"/">> \o p[m]
             t2 == t \o piece
             off2 == [i \in 0 .. m |-> IF i = m THEN off[n] + 1 + Len(p[m]) ELSE off[i]]
  <1>0. m \in Nat /\ m - 1 = n /\ n < m /\ m \in 1 .. Len(p) /\ \A i \in 1 .. m : i \in 1 .. n \/ i = m
    BY LenProperties
  <1>1. /\ p[m] \in Seq(C) /\ Len(p[m]) \in Nat /\ Len(t) \in Nat
        /\ \A i \in 1 .. n : Len(p[i]) \in Nat
    BY <1>0, LenProperties, ElementOfSeq
  <1>2. /\ off \in [0 .. n -> Nat] /\ off[0] = 0 /\ Len(t) = off[n] /\ off[n] \in Nat
    BY DEF Layout
  <1>3. off2 \in [0 .. m -> Nat] /\ off2[m] = off[n] + 1 + Len(p[m])
    BY <1>0, <1>1, <1>2
  <1>4. \A i \in 0 .. n : off2[i] = off[i]
    BY <1>0
  <1> HIDE DEF m, off2
  <1>5. piece \in Seq(C) /\ Len(piece) = 1 + Len(p[m])
        /\ \A i \in 1 .. 1 + Len(p[m]) : piece[i] = IF i =< 1 THEN <<"/">>[i] ELSE p[m][i - 1]
    <2>1. <<"/">> \in Seq(C) /\ Len(<<"/">>) = 1
      OBVIOUS
    <2> QED
      BY <1>1, <2>1, ConcatProperties
  <1> HIDE DEF piece
  <1>6. piece[1] = "/"
    <2>1. 1 \in 1 .. 1 + Len(p[m]) /\ <<"/">>[1] = "/"
      BY <1>1
    <2> QED
      BY <1>5, <2>1
  <1>7. ASSUME NEW j \in 1 .. Len(p[m]) PROVE piece[1 + j] = p[m][j]
    <2>1. 1 + j \in 1 .. 1 + Len(p[m]) /\ ~ (1 + j =< 1) /\ 1 + j - 1 = j
      BY <1>1
    <2> QED
      BY <1>5, <2>1
  <1>8. /\ t2 \in Seq(C) /\ Len(t2) = Len(t) + Len(piece)
        /\ \A i \in 1 .. Len(t) + Len(piece) : t2[i] = IF i =< Len(t) THEN t[i] ELSE piece[i - Len(t)]
    <2>1. piece \in Seq(C)
      BY <1>5
    <2> QED
      BY <2>1, ConcatProperties
  <1>9. \A i \in 1 .. Len(t) + Len(piece) : t2[i] = IF i =< Len(t) THEN t[i] ELSE piece[i - Len(t)]
    BY <1>8
  <1> HIDE DEF t2
  <1>10. off2[0] = 0 /\ Len(t2) = off2[m]
    <2>1. 0 \in 0 .. n
      OBVIOUS
    <2> QED
      BY <1>1, <1>2, <1>3, <1>4, <1>5, <1>8, <2>1, SMTT(30)
  <1>11. ASSUME NEW i \in 1 .. n
         PROVE /\ off2[i] = off2[i - 1] + 1 + Len(p[i]) /\ off2[i] =< off2[m]
               /\ t2[off2[i - 1] + 1] = "/"
               /\ \A j \in 1 .. Len(p[i]) : t2[off2[i - 1] + 1 + j] = p[i][j]
    <2>1. i \in 0 .. n /\ i - 1 \in 0 .. n
      OBVIOUS
    <2>2. /\ off2[i] = off[i] /\ off2[i - 1] = off[i - 1]
          /\ off[i] \in Nat /\ off[i - 1] \in Nat /\ Len(p[i]) \in Nat
      BY <1>1, <1>2, <1>4, <2>1
    <2>3. /\ t[off[i - 1] + 1] = "/"
          /\ \A j \in 1 .. Len(p[i]) : t[off[i - 1] + 1 + j] = p[i][j]
      BY DEF Layout
    <2>a. off[i] = off[i - 1] + 1 + Len(p[i]) /\ off[i] =< off[n] /\ off[n] \in Nat
      BY SMTT(30) DEF Layout
    <2>4. ASSUME NEW k \in 1 .. off[n] PROVE t2[k] = t[k]
      <3>1. k \in 1 .. Len(t) + Len(piece) /\ k =< Len(t)
        BY <1>1, <1>2, <1>5, SMTT(30)
      <3> QED
        BY <1>9, <3>1
    <2>b. off[i - 1] \in Nat /\ off[i] \in Nat /\ off[n] \in Nat /\ Len(p[i]) \in Nat
      BY <2>2, <2>a
    <2>5. off[i - 1] + 1 \in 1 .. off[n]
      BY <2>a, <2>b, Between
    <2>6. \A j \in 1 .. Len(p[i]) : off[i - 1] + 1 + j \in 1 .. off[n]
      BY <2>a, <2>b, Between
    <2>7. off2[i] =< off2[m]
      <3>1. off2[i] =< off[n] /\ off[n] \in Nat /\ Len(p[m]) \in Nat
        BY <1>1, <2>2, <2>a
      <3>2. off2[i] \in Nat
        BY <2>2, <2>b
      <3>3. off2[i] =< off[n] + 1 + Len(p[m])
        BY <3>1, <3>2, SMTT(30)
      <3> QED
        BY <1>3, <3>3
    <2>8. t2[off2[i - 1] + 1] = "/"
      BY <2>2, <2>3, <2>4, <2>5
    <2>9. \A j \in 1 .. Len(p[i]) : t2[off2[i - 1] + 1 + j] = p[i][j]
      BY <2>2, <2>3, <2>4, <2>6
    <2> QED
      BY <2>2, <2>a, <2>7, <2>8, <2>9
  <1>12. /\ off2[m] = off2[m - 1] + 1 + Len(p[m]) /\ off2[m] =< off2[m]
         /\ t2[off2[m - 1] + 1] = "/"
         /\ \A j \in 1 .. Len(p[m]) : t2[off2[m - 1] + 1 + j] = p[m][j]
    <2>1. n \in 0 .. n
      OBVIOUS
    <2>2. off2[m - 1] = Len(t) /\ off2[m - 1] = off[n]
      BY <1>0, <1>2, <1>4, <2>1
    <2>3. ASSUME NEW k \in 1 .. Len(piece) PROVE t2[Len(t) + k] = piece[k]
      <3>1. /\ Len(t) + k \in 1 .. Len(t) + Len(piece) /\ ~ (Len(t) + k =< Len(t))
            /\ Len(t) + k - Len(t) = k
        BY <1>1, <1>5
      <3> QED
        BY <1>9, <3>1
    <2>4. 1 \in 1 .. Len(piece) /\ \A j \in 1 .. Len(p[m]) : 1 + j \in 1 .. Len(piece)
      BY <1>1, <1>5, SMTT(30)
    <2>5. \A j \in 1 .. Len(p[m]) : Len(t) + 1 + j = Len(t) + (1 + j)
      BY <1>1
    <2>6. t2[off2[m - 1] + 1] = "/"
      BY <1>6, <2>2, <2>3, <2>4
    <2>7. \A j \in 1 .. Len(p[m]) : t2[off2[m - 1] + 1 + j] = p[m][j]
      BY <1>7, <2>2, <2>3, <2>4, <2>5, SMTT(30)
    <2>8. off2[m] \in Nat
      BY <1>0, <1>3
    <2> QED
      BY <1>3, <2>2, <2>6, <2>7, <2>8
  <1>13. Layout(p, t2, off2, m)
    <2>1. \A i \in 1 .. m : i \in 1 .. n \/ i = m
      BY <1>0
    <2> QED
      BY <1>3, <1>10, <1>11, <1>12, <2>1 DEF Layout
  <1> QED
    BY <1>13 DEF t2, piece, m

LEMMA TextLayout ==
  ASSUME NEW C, "/" \in C, NEW p \in Seq(Seq(C)), p # <<>>
  PROVE  Text(p) \in Seq(C) /\ \E off : Layout(p, Text(p), off, Len(p))
  <1>1. Len(p) \in Nat /\ Len(p) # 0 /\ DOMAIN p = 1 .. Len(p)
        /\ \A i \in 1 .. Len(p) : p[i] \in Seq(C)
    BY EmptySeq, LenProperties, ElementOfSeq
  <1>2. \A i \in 1 .. Len(p) : <<"/">> \o p[i] \in Seq(C)
    <2>1. <<"/">> \in Seq(C)
      OBVIOUS
    <2> QED
      BY <1>1, <2>1, ConcatProperties
  <1>3. Pieces(p) \in Seq(Seq(C)) /\ Len(Pieces(p)) = Len(p)
        /\ \A i \in 1 .. Len(p) : Pieces(p)[i] = <<"/">> \o p[i]
    BY <1>1, <1>2 DEF Pieces
  <1>4. Pieces(p) # <<>>
    BY <1>1, <1>3, EmptySeq
  <1>5. PICK g \in [1 .. Len(p) -> Seq(C)] :
            Joins(Pieces(p), g) /\ FlattenSeq(Pieces(p)) = g[Len(p)]
    BY <1>3, <1>4, FlattenJoins
  <1>6. Text(p) = g[Len(p)]
    BY <1>5 DEF Text, Pieces
  <1> DEFINE Bad == {m \in 1 .. Len(p) : ~ \E off : Layout(p, g[m], off, m)}
  <1>7. Bad = {}
    <2> SUFFICES ASSUME Bad # {} PROVE FALSE
      OBVIOUS
    <2>1. Bad \subseteq Nat
      OBVIOUS
    <2>2. PICK m \in Bad : \A k \in Bad : m =< k
      <3> HIDE DEF Bad
      <3> QED
        BY <2>1, LeastIn
    <2> DEFINE n == m - 1
    <2>3. n \in Nat /\ n + 1 = m /\ m =< Len(p) /\ m \in 1 .. Len(p)
      BY <1>1
    <2> DEFINE t == IF n = 0 THEN <<>> ELSE g[n]
    <2>4. t \in Seq(C) /\ \E off : Layout(p, t, off, n)
      <3>1. CASE n = 0
        <4> DEFINE off == [i \in 0 .. 0 |-> 0]
        <4>1. off \in [0 .. 0 -> Nat] /\ off[0] = 0
          OBVIOUS
        <4>2. <<>> \in Seq(C) /\ Len(<<>>) = 0
          BY EmptySeq
        <4> HIDE DEF off
        <4>3. Layout(p, <<>>, off, 0)
          BY <4>1, <4>2 DEF Layout
        <4> QED
          BY <3>1, <4>2, <4>3
      <3>2. CASE n # 0
        <4>1. n \in 1 .. Len(p) /\ n \notin Bad
          <5>1. n < m /\ n \in 1 .. Len(p)
            BY <1>1, <2>3, <3>2
          <5>2. \A k \in Bad : m =< k
            BY <2>2
          <5> HIDE DEF Bad
          <5> QED
            BY <2>3, <5>1, <5>2
        <4> QED
          BY <3>2, <4>1
      <3> QED
        BY <3>1, <3>2
    <2>5. g[m] = t \o (<<"/">> \o p[m])
      <3>1. g[m] = IF m = 1 THEN Pieces(p)[m] ELSE g[m - 1] \o Pieces(p)[m]
        BY <1>5, <2>3 DEF Joins
      <3>2. Pieces(p)[m] = <<"/">> \o p[m] /\ Pieces(p)[m] \in Seq(C)
        BY <1>2, <1>3, <2>3
      <3>3. CASE m = 1
        <4>1. t = <<>>
          BY <3>3
        <4> QED
          BY <3>1, <3>2, <3>3, <4>1, ConcatEmptySeq
      <3>4. CASE m # 1
        <4>1. n # 0
          BY <2>3, <3>4
        <4> QED
          BY <3>1, <3>2, <3>4, <4>1
      <3> QED
        BY <3>3, <3>4
    <2> HIDE DEF t
    <2>6. \E off : Layout(p, t \o (<<"/">> \o p[n + 1]), off, n + 1)
      BY <2>3, <2>4, LayoutGrows
    <2>7. \E off : Layout(p, g[m], off, m)
      BY <2>3, <2>5, <2>6
    <2> QED
      BY <2>7
  <1>8. Len(p) \in 1 .. Len(p)
    BY <1>1
  <1>9. \E off : Layout(p, g[Len(p)], off, Len(p))
    BY <1>7, <1>8
  <1> QED
    BY <1>5, <1>6, <1>8, <1>9

LEMMA PathNames ==
  ASSUME NEW p \in Paths
  PROVE  /\ p \in Seq(Seq(DOMAIN Code)) /\ Len(p) \in Nat /\ DOMAIN p = 1 .. Len(p)
         /\ \A i \in 1 .. Len(p) :
              /\ p[i] \in Seq(DOMAIN Code) /\ Len(p[i]) \in Nat /\ Len(p[i]) >= 1
              /\ \A j \in 1 .. Len(p[i]) : p[i][j] # "/"
  <1>1. Names \subseteq Seq(DOMAIN Code)
    BY DEF Names
  <1>2. p \in Seq(Seq(DOMAIN Code))
    BY <1>1, SeqMonotonic DEF Paths
  <1>3. Len(p) \in Nat /\ DOMAIN p = 1 .. Len(p)
    BY <1>2, LenProperties
  <1>4. ASSUME NEW i \in 1 .. Len(p)
        PROVE  /\ p[i] \in Seq(DOMAIN Code) /\ Len(p[i]) \in Nat /\ Len(p[i]) >= 1
               /\ \A j \in 1 .. Len(p[i]) : p[i][j] # "/"
    <2>1. p[i] \in Names
      BY ElementOfSeq DEF Paths
    <2>2. /\ p[i] \in Seq(DOMAIN Code) /\ p[i] # <<>>
          /\ \A j \in DOMAIN p[i] : p[i][j] # "/"
      BY <2>1 DEF Names
    <2>3. Len(p[i]) \in Nat \ {0} /\ DOMAIN p[i] = 1 .. Len(p[i])
      BY <2>2, EmptySeq, LenProperties
    <2> QED
      BY <2>2, <2>3
  <1> QED
    BY <1>2, <1>3, <1>4

Begins(t, h) == /\ Len(h) =< Len(t) /\ \A k \in 1 .. Len(h) : h[k] = t[k]
                /\ Len(t) = Len(h) \/ t[Len(h) + 1] = "/"

\* A name stands behind its "/" from place o to place e of a text.
NameAt(name, t, o, e) ==
    /\ o \in Nat /\ e \in Nat /\ Len(t) \in Nat /\ Len(name) \in Nat
    /\ e = o + 1 + Len(name) /\ e =< Len(t)
    /\ t[o + 1] = "/" /\ \A j \in 1 .. Len(name) : t[o + 1 + j] = name[j]

LEMMA NameFits ==
  ASSUME NEW name, NEW t, NEW o, NEW e, NameAt(name, t, o, e)
  PROVE  t[o + 1] = "/" /\ o + 1 =< Len(t)
  <1>1. /\ o \in Nat /\ e \in Nat /\ Len(t) \in Nat /\ Len(name) \in Nat
        /\ e = o + 1 + Len(name) /\ e =< Len(t)
    BY DEF NameAt
  <1> QED
    BY <1>1 DEF NameAt

LEMMA LayoutAt ==
  ASSUME NEW p \in Paths, NEW t, NEW off, Layout(p, t, off, Len(p)), NEW i \in 1 .. Len(p)
  PROVE  NameAt(p[i], t, off[i - 1], off[i]) /\ Len(t) = off[Len(p)]
  <1>1. Len(p) \in Nat /\ Len(p[i]) \in Nat
    BY PathNames
  <1>2. i - 1 \in 0 .. Len(p) /\ i \in 0 .. Len(p) /\ Len(p) \in 0 .. Len(p)
    BY <1>1
  <1>3. off \in [0 .. Len(p) -> Nat] /\ Len(t) = off[Len(p)]
    BY DEF Layout
  <1>4. off[i - 1] \in Nat /\ off[i] \in Nat /\ off[Len(p)] \in Nat
    BY <1>2, <1>3
  <1>5. /\ off[i] = off[i - 1] + 1 + Len(p[i]) /\ off[i] =< off[Len(p)]
        /\ t[off[i - 1] + 1] = "/"
        /\ \A j \in 1 .. Len(p[i]) : t[off[i - 1] + 1 + j] = p[i][j]
    BY DEF Layout
  <1> QED
    BY <1>1, <1>3, <1>4, <1>5 DEF NameAt

\* If the first names stand in the same places in two texts, and one text begins with
\* the other up to the end of a name, the next names are the same as well.
LEMMA NextName ==
  ASSUME NEW p \in Paths, NEW home \in Paths, NEW T, NEW H, NEW offp, NEW offh,
         Layout(p, T, offp, Len(p)), Layout(home, H, offh, Len(home)), Begins(T, H),
         NEW i \in 1 .. Len(home), i - 1 =< Len(p), offh[i - 1] = offp[i - 1]
  PROVE  i =< Len(p) /\ offh[i] = offp[i] /\ home[i] = p[i]
  <1> DEFINE n == Len(p)
             m == Len(home)
             o == offp[i - 1]
             a0 == Len(home[i])
             b0 == Len(p[i])
             hi == offh[i]
             lt == Len(T)
             lh == Len(H)
  <1>1. n \in Nat /\ m \in Nat /\ i \in Nat /\ i >= 1 /\ i =< m /\ i - 1 =< n
    BY PathNames
  <1>2. /\ home[i] \in Seq(DOMAIN Code) /\ a0 >= 1
        /\ \A j \in 1 .. a0 : home[i][j] # "/"
    BY PathNames
  <1>3. NameAt(home[i], H, o, hi) /\ lh = offh[m]
    BY LayoutAt
  <1>4. /\ o \in Nat /\ hi \in Nat /\ lh \in Nat /\ a0 \in Nat
        /\ hi = o + 1 + a0 /\ hi =< lh
        /\ H[o + 1] = "/" /\ \A j \in 1 .. a0 : H[o + 1 + j] = home[i][j]
    BY <1>3 DEF NameAt
  <1>5. lt \in Nat /\ lt = offp[n] /\ lh =< lt
    <2>1. n \in 0 .. n
      BY <1>1
    <2> QED
      BY <2>1 DEF Layout, Begins
  <1>6. /\ \A k \in 1 .. lh : H[k] = T[k]
        /\ lt = lh \/ T[lh + 1] = "/"
    BY DEF Begins
  <1>7. i =< n
    <2>1. i - 1 # n
      <3> HIDE DEF n, hi, lt, lh, a0
      <3>1. o < lt
        <4> HIDE DEF o
        <4> QED
          BY <1>2, <1>4, <1>5, SMTT(30)
      <3> QED
        BY <1>5, <3>1
    <2> HIDE DEF n
    <2> QED
      BY <1>1, <2>1
  <1>8. i \in 1 .. n
    BY <1>1, <1>7
  <1>9. /\ p[i] \in Seq(DOMAIN Code) /\ b0 >= 1
        /\ \A j \in 1 .. b0 : p[i][j] # "/"
    BY <1>8, PathNames
  <1>10. NameAt(p[i], T, o, offp[i])
    BY <1>8, LayoutAt
  <1>11. /\ b0 \in Nat /\ offp[i] \in Nat /\ offp[i] = o + 1 + b0 /\ offp[i] =< lt
         /\ \A j \in 1 .. b0 : T[o + 1 + j] = p[i][j]
    BY <1>10 DEF NameAt
  <1>12. ASSUME i # m PROVE H[hi + 1] = "/" /\ hi + 1 =< lh
    <2>1. i + 1 \in 1 .. m /\ i + 1 - 1 = i
      BY <1>1, <1>12
    <2>2. NameAt(home[i + 1], H, offh[i + 1 - 1], offh[i + 1])
      BY <2>1, LayoutAt
    <2>3. NameAt(home[i + 1], H, hi, offh[i + 1])
      BY <2>1, <2>2
    <2> QED
      BY <2>3, NameFits
  <1>13. ASSUME i # n PROVE T[offp[i] + 1] = "/"
    <2>1. i + 1 \in 1 .. n /\ i + 1 - 1 = i
      BY <1>1, <1>7, <1>13
    <2>2. NameAt(p[i + 1], T, offp[i + 1 - 1], offp[i + 1])
      BY <2>1, LayoutAt
    <2> QED
      BY <2>1, <2>2, NameFits
  <1> HIDE DEF n, m, o, a0, b0, hi, lt, lh
  <1>14. ~ (a0 < b0)
    <2> SUFFICES ASSUME a0 < b0 PROVE FALSE
      OBVIOUS
    <2>1. a0 + 1 \in 1 .. b0 /\ o + 1 + (a0 + 1) = hi + 1 /\ hi + 1 =< lt
      BY <1>4, <1>5, <1>11
    <2>2. T[hi + 1] = p[i][a0 + 1] /\ p[i][a0 + 1] # "/"
      BY <1>9, <1>11, <2>1
    <2>3. CASE i = m
      <3>1. hi = lh
        BY <1>3, <2>3 DEF hi
      <3>2. lt # lh
        BY <1>4, <1>5, <2>1, <3>1
      <3> QED
        BY <1>6, <2>2, <3>1, <3>2
    <2>4. CASE i # m
      <3>1. hi + 1 \in 1 .. lh
        BY <1>4, <1>12, <2>4
      <3> QED
        BY <1>6, <1>12, <2>2, <2>4, <3>1
    <2> QED
      BY <2>3, <2>4
  <1>15. ~ (b0 < a0)
    <2> SUFFICES ASSUME b0 < a0 PROVE FALSE
      OBVIOUS
    <2>1. b0 + 1 \in 1 .. a0 /\ o + 1 + (b0 + 1) = offp[i] + 1 /\ offp[i] + 1 =< lh
      BY <1>4, <1>11
    <2>2. H[offp[i] + 1] = home[i][b0 + 1] /\ home[i][b0 + 1] # "/"
      BY <1>2, <1>4, <2>1
    <2>3. offp[i] + 1 \in 1 .. lh /\ offp[i] # lt
      BY <1>4, <1>5, <1>11, <2>1
    <2>4. i # n
      BY <1>5, <2>3
    <2> QED
      BY <1>6, <1>13, <2>2, <2>3, <2>4
  <1>16. a0 = b0
    BY <1>4, <1>11, <1>14, <1>15
  <1>17. ASSUME NEW j \in 1 .. a0 PROVE home[i][j] = p[i][j]
    <2>1. o + 1 + j \in 1 .. lh /\ j \in 1 .. b0
      BY <1>4, <1>16
    <2> QED
      BY <1>4, <1>6, <1>11, <2>1
  <1>18. home[i] = p[i]
    BY <1>2, <1>9, <1>16, <1>17, SeqEqual DEF a0, b0
  <1>19. hi = offp[i]
    BY <1>4, <1>11, <1>16
  <1> QED
    BY <1>7, <1>18, <1>19 DEF n, hi

\* path_is_under_home takes no path that only begins with the characters of HOME.
LEMMA UnderHome ==
  ASSUME NEW p \in Paths, NEW home \in Paths, path_is_under_home(p, home)
  PROVE  Below(p, home)
  <1> DEFINE H == Text(home)
             T == Text(p)
             C == DOMAIN Code
  <1>1. /\ p \in Seq(Seq(C)) /\ home \in Seq(Seq(C)) /\ "/" \in C
        /\ Len(p) \in Nat /\ Len(home) \in Nat
    BY PathNames, DirAssumption
  <1>2. CASE home = <<>>
    <2>1. Len(home) = 0
      BY <1>2, EmptySeq
    <2> QED
      <3>1. Len(home) =< Len(p) /\ \A i \in 1 .. Len(home) : home[i] = p[i]
        BY <1>1, <2>1
      <3> HIDE DEF C
      <3>2. IsPrefix(home, p)
        BY <1>1, <3>1, PrefixDef
      <3> QED
        BY <3>2 DEF Below
  <1>3. CASE home # <<>>
    <2>1. H \in Seq(C) /\ \E off : Layout(home, H, off, Len(home))
      BY <1>1, <1>3, TextLayout
    <2>2. PICK offh : Layout(home, H, offh, Len(home))
      BY <2>1
    <2>3. Len(home) >= 1
      BY <1>1, <1>3, EmptySeq
    <2>4. Len(H) \in Nat /\ H[Len(H)] # "/" /\ Len(H) >= 2
      <3>1. Len(home) \in 1 .. Len(home) /\ Len(home) - 1 \in 0 .. Len(home)
        BY <1>1, <2>3
      <3> DEFINE a0 == Len(home[Len(home)])
                 o == offh[Len(home) - 1]
      <3>2. a0 \in Nat /\ a0 >= 1 /\ \A j \in 1 .. a0 : home[Len(home)][j] # "/"
        BY <3>1, PathNames
      <3>3. /\ o \in Nat /\ Len(H) = o + 1 + a0
            /\ \A j \in 1 .. a0 : H[o + 1 + j] = home[Len(home)][j]
        BY <2>2, <3>1 DEF Layout
      <3> HIDE DEF a0, o
      <3>4. a0 \in 1 .. a0
        BY <3>2
      <3>5. Len(H) \in Nat /\ Len(H) >= 2
        BY <3>2, <3>3
      <3>6. H[Len(H)] = home[Len(home)][a0]
        BY <3>3, <3>4
      <3> QED
        BY <3>2, <3>4, <3>5, <3>6
    <2>5. p # <<>>
      <3> SUFFICES ASSUME p = <<>> PROVE FALSE
        OBVIOUS
      <3>1. T = <<"/">> /\ Len(T) = 1
        BY DEF Text
      <3>2. Len(H) =< Len(T)
        BY DEF path_is_under_home, IsPrefix
      <3> HIDE DEF H, T
      <3> QED
        BY <2>4, <3>1, <3>2
    <2>6. T \in Seq(C) /\ \E off : Layout(p, T, off, Len(p))
      BY <1>1, <2>5, TextLayout
    <2>7. PICK offp : Layout(p, T, offp, Len(p))
      BY <2>6
    <2>8. Begins(T, H)
      <3>1. IsPrefix(H, T) /\ (Len(T) = Len(H) \/ T[Len(H) + 1] = "/")
        BY <2>4 DEF path_is_under_home
      <3> HIDE DEF H, T
      <3> QED
        BY <2>1, <2>6, <3>1, PrefixDef DEF Begins
    <2> HIDE DEF H, T
    <2> DEFINE Good(i) == i =< Len(p) /\ offh[i] = offp[i] /\ \A j \in 1 .. i : home[j] = p[j]
               Bad == {i \in 0 .. Len(home) : ~ Good(i)}
    <2>9. Bad = {}
      <3> SUFFICES ASSUME Bad # {} PROVE FALSE
        OBVIOUS
      <3>1. Bad \subseteq Nat
        OBVIOUS
      <3>2. PICK i \in Bad : \A k \in Bad : i =< k
        <4> HIDE DEF Bad
        <4> QED
          BY <3>1, LeastIn
      <3>3. i \in 0 .. Len(home) /\ ~ Good(i) /\ i \in Nat
        OBVIOUS
      <3>4. Good(0)
        BY <1>1, <2>2, <2>7 DEF Layout
      <3>a. i # 0
        BY <3>3, <3>4
      <3>5. i \in 1 .. Len(home) /\ i - 1 \in 0 .. Len(home) /\ i - 1 < i
        <4> HIDE DEF Bad, Good
        <4> QED
          BY <1>1, <3>3, <3>a
      <3>6. i - 1 \notin Bad
        <4> HIDE DEF Bad
        <4> QED
          BY <3>2, <3>5
      <3>7. Good(i - 1)
        BY <3>5, <3>6
      <3>b. i - 1 =< Len(p) /\ offh[i - 1] = offp[i - 1]
        BY <3>7
      <3>8. i =< Len(p) /\ offh[i] = offp[i] /\ home[i] = p[i]
        <4> HIDE DEF Bad, Good
        <4> QED
          BY <2>2, <2>7, <2>8, <3>5, <3>b, NextName
      <3>9. \A j \in 1 .. i : j \in 1 .. i - 1 \/ j = i
        BY <3>5
      <3> QED
        BY <3>3, <3>7, <3>8, <3>9
    <2>10. Good(Len(home))
      <3>1. Len(home) \in 0 .. Len(home)
        BY <1>1
      <3> QED
        BY <2>9, <3>1
    <2> QED
      BY <1>1, <2>10, PrefixDef DEF Below
  <1> QED
    BY <1>2, <1>3
-----------------------------------------------------------------------------
(* Where the copy of a path goes.                                          *)

LEMMA UpwardOf ==
  ASSUME NEW p \in Paths, NEW q
  PROVE  q \in Upward(p) <=> q \in Paths /\ Len(q) >= 1 /\ Below(p, q)
  <1>1. Len(p) \in Nat
    BY PathNames
  <1>2. ASSUME q \in Upward(p) PROVE q \in Paths /\ Len(q) >= 1 /\ Below(p, q)
    <2>1. PICK n \in 1 .. Len(p) : q = SubSeq(p, 1, n)
      BY <1>2 DEF Upward
    <2>2. n \in 0 .. Len(p) /\ n >= 1
      BY <1>1
    <2> QED
      BY <2>1, <2>2, StartOf DEF Paths
  <1>3. ASSUME q \in Paths, Len(q) >= 1, Below(p, q) PROVE q \in Upward(p)
    <2>1. SubSeq(p, 1, Len(q)) = q /\ Len(q) \in 0 .. Len(p)
      BY <1>3, BelowStarts DEF Paths
    <2>2. Len(q) \in 1 .. Len(p)
      BY <1>1, <1>3, <2>1
    <2>3. q = SubSeq(p, 1, Len(q))
      BY <2>1
    <2> QED
      BY <2>2, <2>3 DEF Upward
  <1> QED
    BY <1>2, <1>3

TheDir == Append(dest, base)    \* what -copyd makes: destination_dir/<base>

LEMMA DstPath ==
  ASSUME source \in Paths, source # <<>>, dest \in Paths
  PROVE  /\ base \in Names /\ TheDir \in Paths /\ Len(TheDir) = Len(dest) + 1 /\ Below(TheDir, dest)
         /\ \A p \in Paths : Rel(p) \in Paths
  <1>1. Len(source) \in Nat /\ Len(source) # 0 /\ Len(dest) \in Nat
    BY PathNames, EmptySeq DEF Paths
  <1>2. base \in Names
    BY <1>1, ElementOfSeq DEF base, Paths
  <1>3. /\ TheDir \in Paths /\ Len(TheDir) = Len(dest) + 1
        /\ \A i \in 1 .. Len(dest) : TheDir[i] = dest[i]
    BY <1>2, AppendProperties DEF Paths, TheDir
  <1>4. Below(TheDir, dest)
    <2> HIDE DEF TheDir
    <2>1. Len(dest) =< Len(TheDir)
      BY <1>1, <1>3
    <2> QED
      BY <1>3, <2>1, PrefixDef DEF Below, Paths
  <1>5. ASSUME NEW p \in Paths PROVE Rel(p) \in Paths
    <2>1. Len(p) \in Nat
      BY PathNames
    <2>2. \A i \in Len(source) + 1 .. Len(p) : p[i] \in Names
      BY <1>1, <2>1, ElementOfSeq DEF Paths
    <2>3. Len(source) + 1 \in Int /\ Len(p) \in Int
      BY <1>1, <2>1
    <2> QED
      BY <2>2, <2>3, SubSeqProperties DEF Rel, Paths
  <1> QED
    BY <1>2, <1>3, <1>4, <1>5

\* The places of the first m names of r.
WayUp(links, d, r, w, m) ==
    w = [n \in 0 .. m |-> IF n = 0 THEN d ELSE Append(Follow(links, w[n - 1]), r[n])]

LEMMA WayExists ==
  ASSUME NEW links, NEW d, NEW r, NEW N \in Nat
  PROVE  \E w : WayUp(links, d, r, w, N)
  <1> DEFINE Bad == {m \in 0 .. N : ~ \E w : WayUp(links, d, r, w, m)}
  <1> SUFFICES ASSUME Bad # {} PROVE FALSE
    <2>1. N \in 0 .. N
      OBVIOUS
    <2> QED
      BY <2>1
  <1>1. Bad \subseteq Nat
    OBVIOUS
  <1>2. PICK m \in Bad : \A j \in Bad : m =< j
    <2> HIDE DEF Bad
    <2> QED
      BY <1>1, LeastIn
  <1>3. CASE m = 0
    <2> DEFINE w == [n \in 0 .. 0 |-> d]
    <2>1. WayUp(links, d, r, w, 0)
      <3>1. \A n \in 0 .. 0 : n = 0
        OBVIOUS
      <3> QED
        BY <3>1 DEF WayUp
    <2> QED
      BY <1>2, <1>3, <2>1
  <1>4. CASE m # 0
    <2>1. m \in 1 .. N /\ m - 1 \in 0 .. N /\ ~ (m =< m - 1)
      BY <1>2, <1>4
    <2>2. PICK v : WayUp(links, d, r, v, m - 1)
      BY <1>2, <2>1
    <2> DEFINE e == Append(Follow(links, v[m - 1]), r[m])
               w == [n \in 0 .. m |-> IF n = m THEN e ELSE v[n]]
    <2>3. ASSUME NEW n \in 0 .. m
          PROVE  w[n] = IF n = 0 THEN d ELSE Append(Follow(links, w[n - 1]), r[n])
      <3>1. CASE n = m
        <4>1. w[m] = e /\ w[m - 1] = v[m - 1]
          <5> HIDE DEF e
          <5> QED
            BY <2>1
        <4> HIDE DEF w
        <4> QED
          BY <1>4, <3>1, <4>1
      <3>2. CASE n # m
        <4>1. n \in 0 .. m - 1 /\ w[n] = v[n] /\ (n # 0 => w[n - 1] = v[n - 1])
          <5> HIDE DEF e
          <5> QED
            BY <2>1, <3>2
        <4>2. v[n] = IF n = 0 THEN d ELSE Append(Follow(links, v[n - 1]), r[n])
          BY <2>2, <4>1 DEF WayUp
        <4> HIDE DEF w
        <4> QED
          BY <4>1, <4>2
      <3> QED
        BY <3>1, <3>2
    <2>4. w = [n \in 0 .. m |-> w[n]]
      OBVIOUS
    <2> HIDE DEF w, e
    <2>5. WayUp(links, d, r, w, m)
      BY <2>3, <2>4 DEF WayUp
    <2> QED
      BY <1>2, <2>5
  <1> QED
    BY <1>3, <1>4

\* A set of paths that a way begins in and never leaves.
LEMMA WayWithin ==
  ASSUME NEW links, NEW d, NEW r \in Seq(Names), NEW T,
         Len(r) >= 1, Append(Follow(links, d), r[1]) \in T,
         \A q \in T : \A n \in Names : Append(Follow(links, q), n) \in T
  PROVE  \A n \in 1 .. Len(r) : Way(links, d, r)[n] \in T
  <1>1. Len(r) \in Nat /\ \A n \in 1 .. Len(r) : r[n] \in Names
    BY LenProperties, ElementOfSeq
  <1>2. PICK w : w = Way(links, d, r)
    OBVIOUS
  <1>3. WayUp(links, d, r, w, Len(r))
    <2>1. \E v : WayUp(links, d, r, v, Len(r))
      BY <1>1, WayExists
    <2> QED
      BY <1>2, <2>1 DEF Way, WayUp
  <1>4. /\ w[0] = d
        /\ \A n \in 1 .. Len(r) : w[n] = Append(Follow(links, w[n - 1]), r[n])
    <2>1. \A n \in 0 .. Len(r) : w[n] = IF n = 0 THEN d ELSE Append(Follow(links, w[n - 1]), r[n])
      BY <1>3 DEF WayUp
    <2>2. \A n \in 1 .. Len(r) : n \in 0 .. Len(r) /\ n # 0
      BY <1>1
    <2>3. 0 \in 0 .. Len(r)
      BY <1>1
    <2> QED
      BY <2>1, <2>2, <2>3
  <1> DEFINE Bad == {n \in 1 .. Len(r) : w[n] \notin T}
  <1>5. Bad = {}
    <2> SUFFICES ASSUME Bad # {} PROVE FALSE
      OBVIOUS
    <2>1. Bad \subseteq Nat
      BY <1>1
    <2>2. PICK n \in Bad : \A j \in Bad : n =< j
      <3> HIDE DEF Bad
      <3> QED
        BY <2>1, LeastIn
    <2>3. n \in 1 .. Len(r) /\ w[n] = Append(Follow(links, w[n - 1]), r[n]) /\ r[n] \in Names
      BY <1>1, <1>4, <2>2
    <2>4. CASE n = 1
      <3>1. w[n - 1] = d
        BY <1>4, <2>4
      <3> QED
        BY <2>2, <2>3, <2>4, <3>1
    <2>5. CASE n # 1
      <3>1. n - 1 \in 1 .. Len(r) /\ ~ (n =< n - 1)
        BY <1>1, <2>3, <2>5
      <3>2. w[n - 1] \in T
        BY <2>2, <3>1
      <3> QED
        BY <2>2, <2>3, <3>2
    <2> QED
      BY <2>4, <2>5
  <1> QED
    BY <1>2, <1>5

InHome(p) == Len(p) > Len(Home) /\ SubSeq(p, 1, Len(Home)) = Home

LEMMA LongerInHome ==
  ASSUME NEW p \in Paths, Below(p, Home), Len(p) > Len(Home)
  PROVE  InHome(p)
  BY BelowStarts, DirAssumption DEF Paths, InHome
-----------------------------------------------------------------------------
(* The invariant: what the walks and the checks of main keep.              *)

Moves == {"copyd", "dmove"}
Frames == [dir : Paths, must : SUBSET Paths, seen : SUBSET Paths]

\* The walks stay below source_dir.
StackInv ==
    /\ stack \in Seq(Frames)
    /\ \A i \in DOMAIN stack :
         Below(stack[i].dir, source) /\ \A p \in stack[i].must : Below(p, source)
    /\ stack # <<>> => stack[1].dir = source

\* The behaviour has one of the starts; everything the walks have is below source_dir.
WalkInv ==
    /\ \E s \in Starts : before = s.fs /\ args = s.args
    /\ DOMAIN fs \subseteq Paths /\ fs \in [DOMAIN fs -> Nodes]
    /\ StackInv
    /\ copying \in Paths /\ (copying # <<>> => Below(copying, source))
    /\ entry \in [path : Paths, kind : Kinds \union {"none"}]
    /\ entry # None => Below(entry.path, source)
    /\ copy_failures \in Nat /\ warns \in Nat

\* What main has checked by the time it walks; the walk begins with its root.
CheckedInv ==
    /\ phase \in {"args", "refused"} => fs = before
    /\ phase \in {"copy", "stuck", "delete"} => opt \in Moves
    /\ phase = "delete" => opt = "dmove"
    /\ phase \in {"start", "walk", "print"} => opt \in Reports \union {"remd"}
    /\ phase \notin {"args", "refused"} =>
         /\ source \in DOMAIN before /\ Below(source, Home)
         /\ opt \in Moves => /\ source # Home /\ before[source].kind \in Dirs
                             /\ dest \in DOMAIN before /\ Below(dest, Home)
                             /\ before[dest].kind \in Dirs
    /\ phase = "walk" /\ stack = <<>> /\ entry # None => entry.path = source

\* A copy leaves no path away, no directory anything else, and the links; source_dir is
\* what it was as long as it is there.  The other walks find nothing that has changed, but
\* what another program made.
KeptInv ==
    /\ phase = "copy" =>
         /\ \A p \in DOMAIN before :
              Exists(p) /\ (before[p].kind \in Dirs => fs[p].kind = before[p].kind)
         /\ \A l \in DOMAIN fs : fs[l].kind = "link" => l \in DOMAIN before /\ fs[l] = before[l]
    /\ copying # <<>> => /\ phase = "copy" /\ Exists(copying) /\ IsReg(fs[copying])
                         /\ Exists(Lands(copying)) /\ IsReg(fs[Lands(copying)])
    /\ phase = "delete" /\ Exists(source) => fs[source].kind = before[source].kind
    /\ opt \notin Moves =>
         /\ \A p \in DOMAIN fs : p \in Extra \/ (p \in DOMAIN before /\ fs[p] = before[p])
         /\ entry # None => \/ entry.path \in Extra
                            \/ /\ entry.path \in DOMAIN before
                               /\ before[entry.path].kind = entry.kind

DirInv == WalkInv /\ CheckedInv /\ KeptInv /\ GoneOrReported /\ ChangesOnlyNamed

LEMMA Given ==
  ASSUME WalkInv
  PROVE  /\ source \in Paths /\ dest \in Paths /\ Home \in Paths
         /\ DOMAIN before \subseteq Paths /\ before \in [DOMAIN before -> Nodes]
         /\ \A p \in DOMAIN before : \A q \in Upward(p) \ {p} :
               q \in DOMAIN before /\ before[q].kind \in Dirs
         /\ Home \in DOMAIN before => before[Home].kind \in Dirs
         /\ exts \in Seq(Seq(DOMAIN Code)) /\ (opt = "remd" => exts # <<>>)
  BY DirAssumption DEF WalkInv, source, dest, exts, opt

LEMMA MovesSource ==
  ASSUME WalkInv, CheckedInv, opt \in Moves, phase \notin {"args", "refused"}
  PROVE  source # <<>> /\ Len(source) > Len(Home)
  <1>1. Below(source, Home) /\ source # Home /\ source \in Paths /\ Home \in Paths
    BY Given DEF CheckedInv
  <1>2. {Len(source), Len(Home)} \subseteq Nat
    BY <1>1, PathNames
  <1>3. Len(Home) =< Len(source) /\ \A i \in 1 .. Len(Home) : Home[i] = source[i]
    BY <1>1, PrefixDef DEF Below, Paths
  <1>4. Len(Home) # Len(source)
    BY <1>1, <1>3, SeqEqual DEF Paths
  <1>5. Len(source) > Len(Home)
    BY <1>2, <1>3, <1>4
  <1> QED
    BY <1>1, <1>2, <1>5, EmptySeq DEF Paths

LEMMA EntriesBelow ==
  ASSUME NEW d \in Paths, source \in Paths, Below(d, source), DOMAIN fs \subseteq Paths
  PROVE  \A p \in Entries(d) : p \in Paths /\ Below(p, source)
  BY BelowBelow DEF Entries, Paths

LEMMA VisitBelow ==
  ASSUME WalkInv, NEW p, Visit(p)
  PROVE  p \in Paths /\ Below(p, source) /\ stack # <<>>
  <1>1. stack # <<>> /\ stack \in Seq(Frames) /\ p \in Top.must \union Entries(Top.dir)
    BY DEF Visit, WalkInv, StackInv
  <1>2. Len(stack) \in DOMAIN stack /\ Top \in Frames
    BY <1>1, EmptySeq, LenProperties, ElementOfSeq DEF Top
  <1>3. Top.dir \in Paths /\ Top.must \subseteq Paths
    BY <1>2 DEF Frames
  <1>4. Below(Top.dir, source) /\ \A q \in Top.must : Below(q, source)
    BY <1>2 DEF WalkInv, StackInv, Top
  <1>5. \A q \in Entries(Top.dir) : q \in Paths /\ Below(q, source)
    BY <1>3, <1>4, EntriesBelow, Given DEF WalkInv
  <1> QED
    BY <1>1, <1>3, <1>4, <1>5

\* A directory is opened: source_dir, or one below it.
LEMMA PushKept ==
  ASSUME source \in Paths, DOMAIN fs \subseteq Paths, NEW d \in Paths, Below(d, source),
         NEW st \in Seq(Frames), stack' = Append(st, Frame(d)), UNCHANGED args,
         \A i \in DOMAIN st : Below(st[i].dir, source) /\ \A p \in st[i].must : Below(p, source),
         IF st = <<>> THEN d = source ELSE st[1].dir = source
  PROVE  StackInv'
  <1>1. \A p \in Entries(d) : p \in Paths /\ Below(p, source)
    BY EntriesBelow
  <1>2. Frame(d) \in Frames /\ Frame(d).dir = d /\ Frame(d).must = Entries(d)
    BY <1>1 DEF Frame, Frames
  <1>3. /\ stack' \in Seq(Frames) /\ Len(stack') = Len(st) + 1
        /\ \A i \in 1 .. Len(st) : stack'[i] = st[i]
        /\ stack'[Len(st) + 1] = Frame(d)
    BY <1>2, AppendProperties
  <1>4. Len(st) \in Nat /\ DOMAIN st = 1 .. Len(st) /\ DOMAIN stack' = 1 .. Len(st) + 1
    BY <1>3, LenProperties
  <1>5. source' = source
    BY DEF source
  <1>6. \A i \in DOMAIN stack' :
          Below(stack'[i].dir, source) /\ \A p \in stack'[i].must : Below(p, source)
    <2> SUFFICES ASSUME NEW i \in DOMAIN stack'
                 PROVE  Below(stack'[i].dir, source) /\ \A p \in stack'[i].must : Below(p, source)
      OBVIOUS
    <2>1. i \in DOMAIN st \/ i = Len(st) + 1
      BY <1>4
    <2> QED
      BY <1>1, <1>2, <1>3, <1>4, <2>1
  <1>7. stack'[1].dir = source
    <2>1. CASE st = <<>>
      BY <1>2, <1>3, <2>1, EmptySeq
    <2>2. CASE st # <<>>
      <3>1. 1 \in 1 .. Len(st)
        BY <2>2, EmptySeq
      <3> QED
        BY <1>3, <2>2, <3>1
    <2> QED
      BY <2>1, <2>2
  <1> QED
    BY <1>3, <1>5, <1>6, <1>7 DEF StackInv, Below

\* An entry is passed.
LEMMA MarkKept ==
  ASSUME StackInv, stack # <<>>, NEW p \in Paths
  PROVE  /\ Mark(p) \in Seq(Frames) /\ Mark(p) # <<>> /\ Len(Mark(p)) = Len(stack)
         /\ DOMAIN Mark(p) = DOMAIN stack
         /\ \A i \in DOMAIN stack : /\ Mark(p)[i].dir = stack[i].dir
                                    /\ Mark(p)[i].must = IF i = Len(stack)
                                                         THEN stack[i].must \ {p}
                                                         ELSE stack[i].must
         /\ \A i \in DOMAIN stack :
              Below(Mark(p)[i].dir, source) /\ \A q \in Mark(p)[i].must : Below(q, source)
         /\ Mark(p)[1].dir = source
  <1>1. stack \in Seq(Frames) /\ Len(stack) \in 1 .. Len(stack) /\ DOMAIN stack = 1 .. Len(stack)
        /\ 1 \in DOMAIN stack
    BY EmptySeq, LenProperties DEF StackInv
  <1>2. Top \in Frames
    BY <1>1, ElementOfSeq DEF Top
  <1> DEFINE v == Visited(p)
  <1>3. v \in Frames /\ v.dir = Top.dir /\ v.must = Top.must \ {p}
    BY <1>2 DEF Visited, Frames
  <1> HIDE DEF v
  <1>4. /\ Mark(p) \in Seq(Frames) /\ Len(Mark(p)) = Len(stack)
        /\ \A j \in 1 .. Len(stack) : Mark(p)[j] = IF j = Len(stack) THEN v ELSE stack[j]
    BY <1>1, <1>3, ExceptSeq DEF Mark, v
  <1>5. DOMAIN Mark(p) = DOMAIN stack /\ Mark(p) # <<>>
    BY <1>1, <1>4, LenProperties, EmptySeq
  <1>6. \A i \in DOMAIN stack : /\ Mark(p)[i].dir = stack[i].dir
                                /\ Mark(p)[i].must = IF i = Len(stack)
                                                     THEN stack[i].must \ {p} ELSE stack[i].must
    BY <1>1, <1>3, <1>4 DEF Top
  <1> QED
    BY <1>1, <1>4, <1>5, <1>6 DEF StackInv

LEMMA PassedKept ==
  ASSUME StackInv, stack # <<>>, NEW p \in Paths, Passed(p), UNCHANGED args
  PROVE  StackInv'
  BY MarkKept DEF Passed, StackInv, source, Below

LEMMA PopKept ==
  ASSUME StackInv, Pop, UNCHANGED args
  PROVE  StackInv'
  <1>1. /\ stack \in Seq(Frames) /\ stack # <<>> /\ DOMAIN stack = 1 .. Len(stack)
        /\ Len(stack) \in Nat /\ Len(stack) # 0 /\ stack' = SubSeq(stack, 1, Len(stack) - 1)
    BY EmptySeq, LenProperties DEF StackInv, Pop
  <1>2. Len(stack) - 1 \in 0 .. Len(stack)
    BY <1>1
  <1>3. /\ stack' \in Seq(Frames) /\ Len(stack') = Len(stack) - 1
        /\ \A i \in 1 .. Len(stack) - 1 : stack'[i] = stack[i]
    BY <1>1, <1>2, StartOf
  <1>4. DOMAIN stack' = 1 .. Len(stack) - 1
    BY <1>3, LenProperties
  <1>5. \A i \in DOMAIN stack' : i \in DOMAIN stack /\ stack'[i] = stack[i]
    BY <1>1, <1>3, <1>4
  <1>6. stack' # <<>> => 1 \in DOMAIN stack'
    <2>1. stack' # <<>> => Len(stack') \in Nat \ {0}
      BY <1>3, EmptySeq
    <2> QED
      BY <1>3, <1>4, <2>1
  <1> QED
    BY <1>1, <1>3, <1>5, <1>6 DEF StackInv, source, Below
-----------------------------------------------------------------------------
(* What a step may do to the file system.                                  *)

\* What Linked says, and destination_dir/<base>.
AtStart == {l \in DOMAIN before : before[l].kind = "link"}
Roots == {TheDir} \union {before[l].data.of : l \in AtStart}
Closed(S) ==
    TheDir \in S /\ \A l \in AtStart : (\E d \in S : Below(l, d)) => before[l].data.of \in S
Reach(p) == \A S \in SUBSET Roots : Closed(S) => \E d \in S : Below(p, d)

LEMMA LinkedIs == \A p : Linked(p) <=> ~ Below(p, TheDir) /\ Reach(p)
  BY DEF Linked, AtStart, Roots, Closed, Reach, TheDir

LEMMA ReachDir == ASSUME TheDir \in Paths PROVE Reach(TheDir)
  BY BelowSelf DEF Reach, Closed, Paths

\* A link leads on, and so does a name below what is reached.
LEMMA ReachMore ==
  ASSUME TheDir \in Paths, before \in [DOMAIN before -> Nodes], NEW links,
         \A l \in DOMAIN links : l \in AtStart /\ links[l] = before[l].data.of,
         NEW q \in Paths, Reach(q)
  PROVE  /\ Follow(links, q) \in Paths /\ Reach(Follow(links, q))
         /\ \A n \in Names : /\ Append(Follow(links, q), n) \in Paths
                             /\ Reach(Append(Follow(links, q), n))
  <1> DEFINE t == Follow(links, q)
  <1>1. \A l \in AtStart : before[l].data.of \in Paths
    BY DEF AtStart, Nodes
  <1>2. t \in Paths /\ (q \in DOMAIN links => q \in AtStart /\ t = before[q].data.of)
                    /\ (q \notin DOMAIN links => t = q)
    BY <1>1 DEF Follow
  <1>3. \A S \in SUBSET Roots : \A d \in S : d \in Paths
    BY <1>1 DEF Roots
  <1> HIDE DEF t
  <1>4. Reach(t)
    <2>1. ASSUME NEW S \in SUBSET Roots, Closed(S) PROVE \E d \in S : Below(t, d)
      <3>1. PICK d \in S : Below(q, d)
        BY <2>1 DEF Reach
      <3>2. CASE q \in DOMAIN links
        <4>1. t \in S
          BY <1>2, <2>1, <3>1, <3>2 DEF Closed
        <4>2. Below(t, t)
          BY <1>2, BelowSelf DEF Paths
        <4> QED
          BY <4>1, <4>2
      <3>3. CASE q \notin DOMAIN links
        BY <1>2, <3>1, <3>3
      <3> QED
        BY <3>2, <3>3
    <2> QED
      BY <2>1 DEF Reach
  <1>5. ASSUME NEW n \in Names
        PROVE  Append(t, n) \in Paths /\ Reach(Append(t, n))
    <2> DEFINE u == Append(t, n)
    <2>1. u \in Paths /\ Len(u) = Len(t) + 1 /\ \A i \in 1 .. Len(t) : u[i] = t[i]
      BY <1>2, AppendProperties DEF Paths
    <2>2. Len(t) \in Nat
      BY <1>2, PathNames
    <2> HIDE DEF u
    <2>3. Len(t) =< Len(u)
      BY <2>1, <2>2
    <2>4. Below(u, t)
      BY <1>2, <2>1, <2>3, PrefixDef DEF Below, Paths
    <2>5. ASSUME NEW S \in SUBSET Roots, Closed(S) PROVE \E d \in S : Below(u, d)
      <3>1. PICK d \in S : Below(t, d)
        BY <1>4, <2>5 DEF Reach
      <3>2. Below(u, d)
        BY <1>2, <1>3, <2>1, <2>4, <3>1, BelowBelow DEF Paths
      <3> QED
        BY <3>2
    <2>6. Reach(u)
      BY <2>5 DEF Reach
    <2> QED
      BY <2>1, <2>6 DEF u
  <1> QED
    BY <1>2, <1>4, <1>5 DEF t

\* The nodes a command may change.
MayChange(p) ==
    \/ opt \in Moves /\ Linked(p)
    \/ /\ InHome(p)
       /\ \/ opt \in Moves /\ Below(p, TheDir)
          \/ opt = "dmove" /\ phase \in {"delete", "done", "died"} /\ Below(p, source)
          \/ opt = "remd" /\ p \in DOMAIN before /\ Below(p, source) /\ Reg(p) /\ HasExt(p, exts[1])

LEMMA ChangedStep ==
  ASSUME KeptInv, ChangesOnlyNamed, UNCHANGED <<args, before>>, gone \subseteq gone',
         opt = "dmove" /\ phase \in {"delete", "done", "died"} => phase' \in {"delete", "done", "died"},
         \A p \in DOMAIN before \union DOMAIN fs' :
            \/ p \in DOMAIN fs /\ p \in DOMAIN fs' /\ fs'[p] = fs[p]
            \/ p \notin DOMAIN fs /\ p \notin DOMAIN fs'
            \/ p \in gone' \union Extra
            \/ MayChange(p)'
  PROVE  ChangesOnlyNamed'
  <1>1. UNCHANGED <<opt, source, dest, base, exts, TheDir>>
    BY DEF opt, source, dest, base, exts, TheDir
  <1>0. \A p : Linked(p)' <=> Linked(p)
    BY <1>1 DEF Linked, Below
  <1> SUFFICES ASSUME NEW p \in DOMAIN before \union DOMAIN fs', p \notin gone' \union Extra,
                      ~ (opt \in Moves /\ Linked(p))
               PROVE \/ p \in DOMAIN before /\ p \in DOMAIN fs' /\ fs'[p] = before[p]
                     \/ /\ InHome(p)
                        /\ \/ opt \in Moves /\ Below(p, TheDir)
                           \/ opt = "dmove" /\ phase' \in {"delete", "done", "died"} /\ Below(p, source)
                           \/ opt = "remd" /\ Below(p, source) /\ Reg(p)' /\ HasExt(p, exts[1])
    BY <1>0, <1>1 DEF ChangesOnlyNamed, Exists, InHome, Moves, TheDir, Below, HasExt
  <1>2. CASE MayChange(p)'
    BY <1>0, <1>1, <1>2 DEF MayChange, InHome, Below, HasExt
  <1>3. CASE \/ p \in DOMAIN fs /\ p \in DOMAIN fs' /\ fs'[p] = fs[p]
             \/ p \notin DOMAIN fs /\ p \notin DOMAIN fs'
    <2>1. p \in DOMAIN before \union DOMAIN fs
      BY <1>3
    <2>2. CASE p \in DOMAIN before /\ p \in DOMAIN fs /\ fs[p] = before[p]
      BY <1>3, <2>2
    <2>3. CASE /\ InHome(p)
               /\ \/ opt \in Moves /\ Below(p, TheDir)
                  \/ opt = "dmove" /\ phase \in {"delete", "done", "died"} /\ Below(p, source)
                  \/ opt = "remd" /\ Below(p, source) /\ Reg(p) /\ HasExt(p, exts[1])
      <3>1. opt = "remd" /\ p \notin DOMAIN before => p \in Extra
        BY <2>1 DEF KeptInv, Moves
      <3>2. p \in DOMAIN before => Reg(p)' = Reg(p)
        BY DEF Reg, Kind
      <3> QED
        BY <2>3, <3>1, <3>2
    <2> QED
      BY <2>1, <2>2, <2>3 DEF ChangesOnlyNamed, Exists, InHome, Moves, TheDir
  <1> QED
    BY <1>2, <1>3

\* A copy changes what is in its own directory and where links lead from there; it
\* makes no node one of another kind, and no link.
Written ==
    /\ DOMAIN fs \subseteq DOMAIN fs' /\ DOMAIN fs' \subseteq Paths /\ fs' \in [DOMAIN fs' -> Nodes]
    /\ \A p \in DOMAIN fs' : (p \in DOMAIN fs /\ fs'[p] = fs[p]) \/ (Reach(p) /\ fs'[p].kind # "link")
    /\ \A p \in DOMAIN fs : fs'[p].kind = fs[p].kind

LEMMA WrittenLinks == ASSUME Written PROVE Links' = Links
  <1>1. \A p : p \in DOMAIN fs' /\ fs'[p].kind = "link" <=>
               p \in DOMAIN fs /\ fs[p].kind = "link"
    BY DEF Written
  <1>2. \A p \in DOMAIN fs : fs[p].kind = "link" => fs'[p].data.of = fs[p].data.of
    BY DEF Written
  <1>3. {q \in DOMAIN fs' : fs'[q].kind = "link"} = {q \in DOMAIN fs : fs[q].kind = "link"}
    BY <1>1
  <1> QED
    BY <1>2, <1>3 DEF Links

LEMMA LandsSame ==
  ASSUME UNCHANGED args, Links' = Links
  PROVE  \A p : Lands(p)' = Lands(p)
  <1>1. UNCHANGED <<dest, base, source>>
    BY DEF dest, base, source
  <1>2. \A p : Rel(p)' = Rel(p)
    BY <1>1 DEF Rel
  <1>3. \A p : DstWay(p)' = DstWay(p)
    BY <1>1, <1>2 DEF DstWay
  <1> QED
    BY <1>2, <1>3 DEF Lands

LEMMA LandsAs ==
  ASSUME UNCHANGED args, Links' = Links
  PROVE  Lands(copying)' = Lands(copying')
  <1>1. UNCHANGED <<dest, base, source>>
    BY DEF dest, base, source
  <1>2. Rel(copying)' = Rel(copying')
    BY <1>1 DEF Rel
  <1>3. DstWay(copying)' = DstWay(copying')
    BY <1>1, <1>2 DEF DstWay
  <1> QED
    BY <1>2, <1>3 DEF Lands

\* An entry that is passed over may count a failure.
LEMMA SkipsFacts ==
  ASSUME WalkInv, NEW p, SkipCounts(p)
  PROVE  /\ copy_failures' \in Nat
         /\ copy_failures' = copy_failures \/ copy_failures' = copy_failures + 1
  BY DEF SkipCounts, WalkInv

LEMMA CopyFacts ==
  ASSUME WalkInv, CheckedInv, phase \notin {"args", "refused"}, opt \in Moves
  PROVE  /\ source \in Paths /\ dest \in Paths /\ source # <<>>
         /\ TheDir \in Paths /\ Len(TheDir) = Len(dest) + 1 /\ Below(TheDir, dest)
         /\ \A p \in Paths : Below(p, TheDir) => InHome(p)
         /\ \A p \in Paths : Below(p, source) => InHome(p)
  <1>1. source \in Paths /\ dest \in Paths /\ source # <<>> /\ Len(source) > Len(Home)
        /\ Below(source, Home) /\ Below(dest, Home)
    BY Given, MovesSource DEF CheckedInv
  <1>3. TheDir \in Paths /\ Len(TheDir) = Len(dest) + 1 /\ Below(TheDir, dest)
    BY <1>1, DstPath
  <1>4. {Len(Home), Len(dest), Len(source)} \subseteq Nat
    BY <1>1, PathNames, DirAssumption
  <1>5. Home \in Paths
    BY DirAssumption
  <1>6. ASSUME NEW p \in Paths, Below(p, TheDir) PROVE InHome(p)
    <2>1. Below(p, dest) /\ Len(TheDir) =< Len(p) /\ Len(dest) =< Len(TheDir)
      BY <1>1, <1>3, <1>6, BelowBelow DEF Paths
    <2>2. Below(p, Home) /\ Len(Home) =< Len(dest)
      BY <1>1, <1>5, <2>1, BelowBelow DEF Paths
    <2>3. Len(p) \in Nat
      BY PathNames
    <2>4. Len(p) > Len(Home)
      BY <1>3, <1>4, <2>1, <2>2, <2>3
    <2> QED
      BY <2>2, <2>4, LongerInHome
  <1>7. ASSUME NEW p \in Paths, Below(p, source) PROVE InHome(p)
    <2>1. Below(p, Home) /\ Len(source) =< Len(p)
      BY <1>1, <1>5, <1>7, BelowBelow DEF Paths
    <2>2. Len(p) \in Nat
      BY PathNames
    <2>3. Len(p) > Len(Home)
      BY <1>1, <1>4, <2>1, <2>2
    <2> QED
      BY <2>1, <2>3, LongerInHome
  <1> QED
    BY <1>1, <1>3, <1>6, <1>7

\* The places of a copy, and where it lands.
LEMMA WayFacts ==
  ASSUME WalkInv, CheckedInv, KeptInv, phase = "copy", NEW p \in Paths
  PROVE  /\ Len(Rel(p)) \in Nat
         /\ \A n \in 1 .. Len(Rel(p)) + 1 : DstWay(p)[n] \in Paths /\ Reach(DstWay(p)[n])
         /\ Lands(p) \in Paths /\ Reach(Lands(p))
         /\ Lands(p) \in DOMAIN fs => fs[Lands(p)].kind # "link"
  <1>1. /\ source \in Paths /\ dest \in Paths /\ source # <<>> /\ TheDir \in Paths
        /\ opt \in Moves
    BY CopyFacts DEF CheckedInv
  <1>2. base \in Names /\ Rel(p) \in Paths
    BY <1>1, DstPath
  <1>3. PICK r : r = <<base>> \o Rel(p)
    OBVIOUS
  <1>4. r \in Seq(Names) /\ Len(r) = Len(Rel(p)) + 1 /\ r[1] = base /\ Len(Rel(p)) \in Nat
    <2>1. <<base>> \in Seq(Names) /\ Len(<<base>>) = 1 /\ <<base>>[1] = base
      BY <1>2
    <2>2. Rel(p) \in Seq(Names) /\ Len(Rel(p)) \in Nat
      BY <1>2, PathNames DEF Paths
    <2> DEFINE k == Rel(p)
    <2> HIDE DEF k
    <2>3. k \in Seq(Names) /\ Len(k) \in Nat /\ r = <<base>> \o k
      BY <1>3, <2>2 DEF k
    <2>4. 1 \in 1 .. Len(<<base>>) + Len(k)
      BY <2>1, <2>3
    <2> QED
      BY <2>1, <2>3, <2>4, ConcatProperties DEF k
  <1>5. PICK links : links = Links
    OBVIOUS
  <1>6. before \in [DOMAIN before -> Nodes]
    BY Given
  <1>7. /\ DOMAIN links = {q \in DOMAIN fs : fs[q].kind = "link"}
        /\ \A l \in DOMAIN links : links[l] = fs[l].data.of
    BY <1>5 DEF Links
  <1>8. \A l \in DOMAIN links : l \in AtStart /\ links[l] = before[l].data.of
    BY <1>7 DEF KeptInv, AtStart
  <1>9. Follow(links, dest) = dest
    <2>1. dest \in DOMAIN before /\ before[dest].kind \in Dirs
      BY <1>1 DEF CheckedInv
    <2>2. dest \notin AtStart
      BY <2>1 DEF AtStart, Dirs
    <2> QED
      BY <1>8, <2>2 DEF Follow
  <1> DEFINE T == {q \in Paths : Reach(q)}
  <1>10. \A n \in 1 .. Len(r) : Way(links, dest, r)[n] \in T
    <2>1. Append(Follow(links, dest), r[1]) \in T
      BY <1>1, <1>4, <1>9, ReachDir DEF TheDir
    <2>2. \A q \in T : \A n \in Names : Append(Follow(links, q), n) \in T
      BY <1>1, <1>6, <1>8, ReachMore
    <2>3. Len(r) >= 1
      BY <1>4
    <2> HIDE DEF T
    <2> QED
      BY <1>4, <2>1, <2>2, <2>3, WayWithin
  <1>11. DstWay(p) = Way(links, dest, r)
    BY <1>3, <1>5 DEF DstWay
  <1>12. PICK u : u = DstWay(p)[Len(Rel(p)) + 1]
    OBVIOUS
  <1>13. u \in Paths /\ Reach(u) /\ Lands(p) = Follow(links, u)
    <2>1. Len(r) \in 1 .. Len(r)
      BY <1>4
    <2> QED
      BY <1>4, <1>5, <1>10, <1>11, <1>12, <2>1 DEF Lands
  <1>14. Follow(links, u) \in Paths /\ Reach(Follow(links, u))
    BY <1>1, <1>6, <1>8, <1>13, ReachMore
  <1>15. ASSUME Follow(links, u) \in DOMAIN fs, fs[Follow(links, u)].kind = "link" PROVE FALSE
    <2>1. Follow(links, u) \in DOMAIN links
      BY <1>7, <1>15
    <2>2. u \in DOMAIN links /\ Follow(links, u) = before[u].data.of
      BY <1>8, <2>1 DEF Follow
    <2>3. PICK s \in Starts : before = s.fs
      BY DEF WalkInv
    <2>4. u \in DOMAIN s.fs /\ s.fs[u].kind = "link"
      BY <1>8, <2>2, <2>3 DEF AtStart
    <2>5. PICK t : t = Follow(links, u)
      OBVIOUS
    <2>6. t \in Paths /\ Len(t) # 0 /\ \A q \in Upward(t) : q \in DOMAIN before => before[q].kind # "link"
      <3>1. t # <<>> /\ \A q \in Upward(t) : q \in DOMAIN before => before[q].kind # "link"
        BY <2>2, <2>3, <2>4, <2>5, DirAssumption
      <3> QED
        BY <1>14, <2>5, <3>1, EmptySeq DEF Paths
    <2>7. t \in Upward(t)
      <3>1. Below(t, t) /\ Len(t) \in Nat
        BY <2>6, BelowSelf, PathNames DEF Paths
      <3>2. Len(t) >= 1
        BY <2>6, <3>1
      <3> QED
        BY <2>6, <3>1, <3>2, UpwardOf
    <2> QED
      BY <1>8, <2>1, <2>5, <2>6, <2>7 DEF AtStart
  <1> QED
    BY <1>4, <1>10, <1>11, <1>13, <1>14, <1>15

LEMMA WrittenKept ==
  ASSUME WalkInv, CheckedInv, KeptInv, ChangesOnlyNamed, phase = "copy", Written,
         UNCHANGED <<args, before, entry, gone>>, phase' \in {"copy", "stuck"}
  PROVE  /\ ChangesOnlyNamed'
         /\ \A p \in DOMAIN before : p \in DOMAIN fs' /\
               (before[p].kind \in Dirs => fs'[p].kind = before[p].kind)
         /\ \A l \in DOMAIN fs' : fs'[l].kind = "link" => l \in DOMAIN before /\ fs'[l] = before[l]
  <1>1. opt \in Moves
    BY DEF CheckedInv
  <1>2. \A p \in Paths : Below(p, TheDir) => InHome(p)
    BY <1>1, CopyFacts
  <1>3. \A p \in DOMAIN before : p \in DOMAIN fs /\
               (before[p].kind \in Dirs => fs[p].kind = before[p].kind)
    BY DEF KeptInv, Exists
  <1>4. \A p \in DOMAIN before : p \in DOMAIN fs' /\
               (before[p].kind \in Dirs => fs'[p].kind = before[p].kind)
    BY <1>3 DEF Written
  <1>5. ASSUME NEW p \in DOMAIN before \union DOMAIN fs'
        PROVE  (p \in DOMAIN fs /\ p \in DOMAIN fs' /\ fs'[p] = fs[p]) \/ MayChange(p)'
    <2>1. p \in DOMAIN fs'
      BY <1>4
    <2>2. CASE Reach(p)
      <3>1. UNCHANGED <<opt, TheDir, dest, base>>
        BY DEF opt, TheDir, dest, base, source
      <3>2. Below(p, TheDir) => InHome(p)
        BY <1>2, <2>1 DEF Written
      <3>3. Linked(p)' <=> Linked(p)
        BY <3>1 DEF Linked, Below
      <3>4. Below(p, TheDir) \/ Linked(p)
        BY <2>2, LinkedIs
      <3>5. MayChange(p)' <=> \/ opt \in Moves /\ Linked(p)'
                              \/ /\ InHome(p)'
                                 /\ \/ opt \in Moves /\ Below(p, TheDir')
                                    \/ opt' = "dmove" /\ phase' \in {"delete", "done", "died"} /\ Below(p, source')
                                    \/ opt' = "remd" /\ p \in DOMAIN before' /\ Below(p, source') /\ Reg(p)' /\ HasExt(p, exts'[1])
        BY <3>1 DEF MayChange, Below, HasExt
      <3> QED
        BY <1>1, <3>1, <3>2, <3>3, <3>4, <3>5 DEF InHome
    <2> QED
      BY <2>1, <2>2 DEF Written
  <1>6. ChangesOnlyNamed'
    BY <1>5, ChangedStep
  <1>7. \A l \in DOMAIN fs' : fs'[l].kind = "link" => l \in DOMAIN before /\ fs'[l] = before[l]
    BY DEF Written, KeptInv
  <1> QED
    BY <1>4, <1>6, <1>7

\* The directories made for a copy are made where there was nothing.
LEMMA MkdirsWrites ==
  ASSUME WalkInv, CheckedInv, KeptInv, phase = "copy",
         NEW x \in Paths, NEW n \in 0 .. Len(Rel(x)) + 1,
         NEW made, made = mkdirs_for_path(DstWay(x), n)
  PROVE  /\ DOMAIN fs \subseteq DOMAIN made /\ DOMAIN made \subseteq Paths
         /\ made \in [DOMAIN made -> Nodes]
         /\ \A p \in DOMAIN made : p \notin DOMAIN fs => Reach(p) /\ made[p].kind = "dir"
         /\ \A p \in DOMAIN fs : made[p] = fs[p]
  <1>1. /\ Len(Rel(x)) \in Nat
        /\ \A i \in 1 .. Len(Rel(x)) + 1 : DstWay(x)[i] \in Paths /\ Reach(DstWay(x)[i])
    BY WayFacts
  <1>2. \A i \in 1 .. n : i \in 1 .. Len(Rel(x)) + 1
    BY <1>1
  <1>6. Dir \in Nodes /\ Dir.kind = "dir"
    <2>1. <<>> \in Paths
      BY EmptySeq DEF Paths
    <2> QED
      BY <2>1 DEF Dir, Data, Nodes, Kinds, Dirs
  <1>7. /\ DOMAIN made = DOMAIN fs \union {DstWay(x)[i] : i \in 1 .. n}
        /\ \A q \in DOMAIN made : made[q] = IF q \in DOMAIN fs THEN fs[q] ELSE Dir
    BY DEF mkdirs_for_path, Exists
  <1>8. made \in [DOMAIN made -> Nodes]
    <2>1. \A q \in DOMAIN made : made[q] \in Nodes
      BY <1>6, <1>7 DEF WalkInv
    <2>2. made = [q \in DOMAIN made |-> made[q]]
      BY DEF mkdirs_for_path
    <2> QED
      BY <2>1, <2>2
  <1>9. \A q \in DOMAIN made : q \in DOMAIN fs \/ (q \in Paths /\ Reach(q))
    BY <1>1, <1>2, <1>7
  <1> QED
    BY <1>6, <1>7, <1>8, <1>9 DEF WalkInv

LEMMA SameWritten == ASSUME WalkInv, UNCHANGED fs PROVE Written
  BY DEF WalkInv, Written

LEMMA MakeDirWrites ==
  ASSUME WalkInv, CheckedInv, KeptInv, phase = "copy", NEW d \in Paths, MakeDir(d)
  PROVE  /\ Written /\ copy_failures' \in Nat
         /\ copy_failures' = copy_failures \/ copy_failures' = copy_failures + 1
         /\ \A p \in DOMAIN fs : fs'[p] = fs[p]
  <1>1. Len(Rel(d)) \in Nat
    BY WayFacts
  <1>3. copy_failures' = copy_failures \/ copy_failures' = copy_failures + 1
    BY DEF MakeDir, Counted
  <1>a. copy_failures' \in Nat
    BY <1>3 DEF WalkInv
  <1>4. CASE UNCHANGED fs
    BY <1>3, <1>a, <1>4, SameWritten
  <1>5. ASSUME NEW n \in 0 .. Len(Rel(d)) + 1, fs' = mkdirs_for_path(DstWay(d), n)
        PROVE  Written /\ \A p \in DOMAIN fs : fs'[p] = fs[p]
    BY <1>5, MkdirsWrites DEF Written
  <1>6. UNCHANGED fs \/ \E n \in 0 .. Len(Rel(d)) + 1 : fs' = mkdirs_for_path(DstWay(d), n)
    <2>1. Len(Rel(d)) + 1 \in 0 .. Len(Rel(d)) + 1
          /\ \A n \in 0 .. (Len(Rel(d)) + 1) - 1 : n \in 0 .. Len(Rel(d)) + 1
      BY <1>1
    <2> QED
      BY <2>1 DEF MakeDir
  <1> QED
    BY <1>3, <1>a, <1>4, <1>5, <1>6

LEMMA CopyOpenWrites ==
  ASSUME WalkInv, CheckedInv, KeptInv, NEW p \in DOMAIN fs, CopyOpen(p) \/ CopyBlocks(p)
  PROVE  /\ Written /\ copy_failures' \in Nat
         /\ copying' # <<>> => /\ copying' = p /\ Lands(p) \in DOMAIN fs'
                               /\ IsReg(fs'[Lands(p)])
         /\ \A q \in DOMAIN fs : q # Lands(p) => fs'[q] = fs[q]
         /\ CopyOpen(p) => \/ copying' = p /\ copy_failures' = copy_failures
                           \/ /\ copying' = <<>> /\ copy_failures' = copy_failures + 1
                              /\ \A q \in DOMAIN fs : fs'[q] = fs[q]
  <1>0. PICK t : t = Lands(p)
    OBVIOUS
  <1>1. phase = "copy" /\ copying = <<>>
    BY DEF CopyOpen, CopyBlocks, CopyRunning, Visit
  <1>2. p \in Paths
    BY DEF WalkInv
  <1>3. Len(Rel(p)) \in Nat /\ t \in Paths /\ Reach(t) /\ (t \in DOMAIN fs => fs[t].kind # "link")
    BY <1>0, <1>1, <1>2, WayFacts
  <1>4. copy_failures' \in Nat
    BY DEF CopyOpen, CopyBlocks, Counted, WalkInv
  <1>5. ASSUME NEW n \in 0 .. Len(Rel(p)) + 1, NEW made, made = mkdirs_for_path(DstWay(p), n)
        PROVE  /\ DOMAIN fs \subseteq DOMAIN made /\ DOMAIN made \subseteq Paths
               /\ made \in [DOMAIN made -> Nodes]
               /\ \A q \in DOMAIN made : q \notin DOMAIN fs => Reach(q) /\ made[q].kind = "dir"
               /\ \A q \in DOMAIN fs : made[q] = fs[q]
    BY <1>1, <1>2, <1>5, MkdirsWrites
  <1>6. ASSUME NEW n \in 0 .. Len(Rel(p)) + 1, fs' = mkdirs_for_path(DstWay(p), n)
        PROVE  Written /\ \A q \in DOMAIN fs : fs'[q] = fs[q]
    BY <1>5, <1>6 DEF Written
  <1>a. Len(Rel(p)) \in 0 .. Len(Rel(p)) + 1 /\ \A n \in 0 .. Len(Rel(p)) : n \in 0 .. Len(Rel(p)) + 1
    BY <1>3
  <1>7. CASE /\ UNCHANGED copying
             /\ UNCHANGED fs \/ \E n \in 0 .. Len(Rel(p)) : fs' = mkdirs_for_path(DstWay(p), n)
             /\ \/ copy_failures' = copy_failures + 1
                \/ CopyBlocks(p) /\ ~ CopyOpen(p)
    <2>1. Written /\ \A q \in DOMAIN fs : fs'[q] = fs[q]
      BY <1>6, <1>7, <1>a, SameWritten
    <2> QED
      BY <1>1, <1>4, <1>7, <2>1
  <1>8. ASSUME NEW made, made = Parents(p),
               fs' = [q \in DOMAIN made \union {t} |-> IF q = t THEN Emptied(t) ELSE made[q]],
               copying' = p, copy_failures' = copy_failures, ~ OpenFails(p), ~ WaitsForReader(p)
        PROVE  /\ Written /\ t \in DOMAIN fs' /\ IsReg(fs'[t])
               /\ \A q \in DOMAIN fs : q # t => fs'[q] = fs[q]
    <2>1. /\ DOMAIN fs \subseteq DOMAIN made /\ DOMAIN made \subseteq Paths
          /\ made \in [DOMAIN made -> Nodes]
          /\ \A q \in DOMAIN made : q \notin DOMAIN fs => Reach(q) /\ made[q].kind = "dir"
          /\ \A q \in DOMAIN fs : made[q] = fs[q]
      BY <1>5, <1>8, <1>a DEF Parents
    <2>2. t \in DOMAIN fs => fs[t].kind \in {"file", "unread"}
      <3>1. t \in DOMAIN fs => made[t].kind \notin {"dir", "locked"} /\ fs[t].kind # "fifo"
        BY <1>0, <1>8, <2>1 DEF OpenFails, WaitsForReader, Exists
      <3>2. t \in DOMAIN fs => fs[t].kind \in Kinds
        BY DEF WalkInv, Nodes
      <3> QED
        BY <1>3, <2>1, <3>1, <3>2 DEF Kinds, Dirs
    <2>3. Empty \in [of : Paths, whole : BOOLEAN]
      <3>1. <<>> \in Paths
        BY EmptySeq DEF Paths
      <3> QED
        BY <3>1 DEF Empty, Data
    <2>4. PICK e : e = Emptied(t)
      OBVIOUS
    <2>5. /\ e \in Nodes /\ e.kind \in {"file", "unread"}
          /\ t \in DOMAIN fs => e.kind = fs[t].kind
      <3>1. CASE t \in DOMAIN fs
        <4>1. e = [fs[t] EXCEPT !.data = Empty] /\ fs[t] \in Nodes
          BY <2>4, <3>1 DEF Emptied, Exists, WalkInv
        <4> QED
          BY <2>2, <2>3, <3>1, <4>1 DEF Nodes
      <3>2. CASE t \notin DOMAIN fs
        <4>1. e = [kind |-> "file", data |-> Empty]
          BY <2>4, <3>2 DEF Emptied, Exists, File
        <4> QED
          BY <2>3, <3>2, <4>1 DEF Nodes, Kinds
      <3> QED
        BY <3>1, <3>2
    <2>6. /\ DOMAIN fs' = DOMAIN made \union {t} /\ fs' \in [DOMAIN fs' -> Nodes]
          /\ \A q \in DOMAIN fs' : fs'[q] = IF q = t THEN e ELSE made[q]
      BY <1>8, <2>1, <2>4, <2>5
    <2>7. Written
      <3>1. DOMAIN fs \subseteq DOMAIN fs' /\ DOMAIN fs' \subseteq Paths
        BY <1>3, <2>1, <2>6
      <3>2. ASSUME NEW q \in DOMAIN fs'
            PROVE  (q \in DOMAIN fs /\ fs'[q] = fs[q]) \/ (Reach(q) /\ fs'[q].kind # "link")
        <4>1. CASE q = t
          BY <1>3, <2>5, <2>6, <4>1
        <4>2. CASE q # t
          <5>1. q \in DOMAIN made /\ fs'[q] = made[q]
            BY <2>6, <4>2
          <5> QED
            BY <2>1, <5>1
        <4> QED
          BY <4>1, <4>2
      <3>3. ASSUME NEW q \in DOMAIN fs PROVE fs'[q].kind = fs[q].kind
        BY <2>1, <2>5, <2>6
      <3> QED
        BY <2>6, <3>1, <3>2, <3>3 DEF Written
    <2>8. t \in DOMAIN fs' /\ IsReg(fs'[t])
      BY <2>5, <2>6 DEF IsReg
    <2>9. \A q \in DOMAIN fs : q # t => fs'[q] = fs[q]
      BY <2>1, <2>6
    <2> QED
      BY <2>7, <2>8, <2>9
  <1>9. CASE CopyBlocks(p) /\ ~ CopyOpen(p)
    <2>1. fs' = mkdirs_for_path(DstWay(p), Len(Rel(p))) /\ UNCHANGED copying
      BY <1>9 DEF CopyBlocks, Parents
    <2>2. Len(Rel(p)) \in 0 .. Len(Rel(p))
      BY <1>3
    <2> QED
      BY <1>7, <1>9, <2>1, <2>2
  <1>10. CASE CopyOpen(p)
    <2>1. \/ NoParents(p) /\ Counted /\ UNCHANGED <<fs, copying>>
          \/ /\ Counted /\ UNCHANGED copying
             /\ \E i \in 0 .. Len(Rel(p)) : fs' = mkdirs_for_path(DstWay(p), i)
          \/ fs' = Parents(p) /\ Counted /\ UNCHANGED copying
          \/ /\ ~ OpenFails(p) /\ ~ WaitsForReader(p) /\ copying' = p /\ UNCHANGED copy_failures
             /\ \E made : /\ made = Parents(p)
                          /\ fs' = [q \in DOMAIN made \union {t} |->
                                      IF q = t THEN Emptied(t) ELSE made[q]]
      BY <1>0, <1>10, Zenon DEF CopyOpen
    <2>2. Len(Rel(p)) \in 0 .. Len(Rel(p))
      BY <1>3
    <2>3. CASE ~ OpenFails(p) /\ ~ WaitsForReader(p) /\ copying' = p /\ UNCHANGED copy_failures
               /\ \E made : /\ made = Parents(p)
                            /\ fs' = [q \in DOMAIN made \union {t} |->
                                        IF q = t THEN Emptied(t) ELSE made[q]]
      <3>1. /\ Written /\ t \in DOMAIN fs' /\ IsReg(fs'[t])
            /\ \A q \in DOMAIN fs : q # t => fs'[q] = fs[q]
        BY <1>8, <2>3
      <3> QED
        BY <1>0, <1>4, <2>3, <3>1
    <2>4. CASE Counted /\ UNCHANGED copying
               /\ (UNCHANGED fs \/ \E i \in 0 .. Len(Rel(p)) : fs' = mkdirs_for_path(DstWay(p), i))
      BY <1>7, <2>4 DEF Counted
    <2>5. fs' = Parents(p) => \E i \in 0 .. Len(Rel(p)) : fs' = mkdirs_for_path(DstWay(p), i)
      BY <2>2 DEF Parents
    <2> QED
      BY <2>1, <2>3, <2>4, <2>5
  <1> QED
    BY <1>9, <1>10

LEMMA CopyDataWrites ==
  ASSUME WalkInv, CheckedInv, KeptInv, CopyData
  PROVE  /\ Written /\ copy_failures' \in Nat
         /\ \A q \in DOMAIN fs : q # Lands(copying) => fs'[q] = fs[q]
         /\ \/ /\ copy_failures' = copy_failures
               /\ fs'[Lands(copying)].data = fs[copying].data
            \/ copy_failures' = copy_failures + 1
  <1> DEFINE dst == Lands(copying)
  <1>1. phase = "copy" /\ copying # <<>>
    BY DEF CheckedInv, CopyData, CopyDataWith, CopyRunning
  <1>2. copying \in Paths /\ copying \in DOMAIN fs /\ dst \in DOMAIN fs /\ IsReg(fs[dst])
    BY <1>1 DEF WalkInv, KeptInv, Exists
  <1>a. Reach(dst)
    BY <1>1, <1>2, WayFacts
  <1>3. PICK v \in [of : Paths, whole : BOOLEAN] :
            /\ fs' = [fs EXCEPT ![dst].data = v]
            /\ v = fs[copying].data \/ copy_failures' = copy_failures + 1
    <2>1. fs[copying].data \in [of : Paths, whole : BOOLEAN]
      BY <1>2 DEF WalkInv, Nodes
    <2>2. Data(copying, FALSE) \in [of : Paths, whole : BOOLEAN]
      BY <1>2 DEF Data
    <2> QED
      BY <2>1, <2>2 DEF CopyData, CopyDataWith
  <1>b. copy_failures' = copy_failures \/ copy_failures' = copy_failures + 1
    BY Zenon DEF CopyData, CopyDataWith
  <1>4. copy_failures' \in Nat
    BY <1>b DEF WalkInv
  <1> HIDE DEF dst
  <1>5. fs \in [DOMAIN fs -> Nodes] /\ DOMAIN fs \subseteq Paths
    BY DEF WalkInv
  <1>6. /\ DOMAIN fs' = DOMAIN fs
        /\ \A q \in DOMAIN fs : q # dst => fs'[q] = fs[q]
        /\ fs'[dst] = [fs[dst] EXCEPT !.data = v]
    BY <1>2, <1>3, <1>5
  <1>7. /\ fs[dst] \in Nodes /\ fs'[dst] \in Nodes /\ fs'[dst].kind = fs[dst].kind
        /\ fs'[dst].data = v
    BY <1>2, <1>5, <1>6 DEF Nodes
  <1>8. fs' \in [DOMAIN fs' -> Nodes]
    BY <1>3, <1>5, <1>6, <1>7
  <1>9. Written
    BY <1>2, <1>5, <1>6, <1>7, <1>8, <1>a DEF Written, IsReg
  <1> QED
    BY <1>3, <1>4, <1>6, <1>7, <1>9, <1>b DEF dst
-----------------------------------------------------------------------------
(* Each step of -copyd and -dmove keeps the invariant.                     *)

LEMMA InitDir == Init => DirInv
  <1> SUFFICES ASSUME Init PROVE DirInv
    OBVIOUS
  <1>1. PICK s \in Starts : before = s.fs /\ args = s.args
    BY DEF Init, MoveInit
  <1>2. fs = before /\ DOMAIN fs \subseteq Paths /\ fs \in [DOMAIN fs -> Nodes]
    BY <1>1, DirAssumption DEF Init, MoveInit
  <1>3. <<>> \in Paths /\ <<>> \in Seq(Frames) /\ DOMAIN <<>> = {}
    BY EmptySeq DEF Paths
  <1>4. StackInv
    BY <1>3 DEF Init, MoveInit, StackInv
  <1>5. None \in [path : Paths, kind : Kinds \union {"none"}]
    BY <1>3 DEF None
  <1>6. WalkInv
    BY <1>1, <1>2, <1>3, <1>4, <1>5 DEF Init, MoveInit, WalkInv
  <1>7. CheckedInv
    BY DEF Init, MoveInit, CheckedInv
  <1>8. KeptInv
    BY <1>2 DEF Init, MoveInit, KeptInv
  <1>9. GoneOrReported
    BY DEF Init, MoveInit, GoneOrReported
  <1>10. ChangesOnlyNamed
    BY <1>2 DEF ChangesOnlyNamed, Exists
  <1> QED
    BY <1>6, <1>7, <1>8, <1>9, <1>10 DEF DirInv

\* A step that leaves the file system alone.
LEMMA FsSame ==
  ASSUME WalkInv, UNCHANGED <<fs, args, before, copying, entry>>, StackInv',
         copy_failures' \in Nat, warns' \in Nat
  PROVE  WalkInv'
  BY DEF WalkInv, source, Below

LEMMA NamedSame ==
  ASSUME KeptInv, ChangesOnlyNamed, UNCHANGED <<fs, args, before, gone>>,
         opt = "dmove" /\ phase \in {"delete", "done", "died"} => phase' \in {"delete", "done", "died"}
  PROVE  ChangesOnlyNamed'
  BY ChangedStep

LEMMA CheckDirsKept ==
  ASSUME DirInv, CheckDirs, UNCHANGED report PROVE DirInv'
  <1> USE DEF DirInv
  <1>1. /\ phase = "args" /\ opt \in Moves /\ fs = before
        /\ UNCHANGED <<fs, args, before, stack, copying, copy_failures, warns, entry, gone>>
        /\ phase' = IF Fits(source) /\ Fits(dest) THEN "copy" ELSE "refused"
    BY DEF CheckDirs, CheckedInv, Moves, report
  <1>2. UNCHANGED <<opt, source, dest>>
    BY <1>1 DEF opt, source, dest
  <1>3. WalkInv'
    <2>1. StackInv'
      BY <1>1, <1>2 DEF WalkInv, StackInv, Below
    <2> QED
      BY <1>1, <2>1, FsSame DEF WalkInv
  <1>4. CheckedInv'
    <2>1. ASSUME phase' = "copy"
          PROVE  /\ source \in DOMAIN before /\ Below(source, Home) /\ source # Home
                 /\ before[source].kind \in Dirs /\ dest \in DOMAIN before /\ Below(dest, Home)
                 /\ before[dest].kind \in Dirs
      BY <1>1, <2>1, Given, UnderHome DEF Fits, Exists, IsDir, Dirs
    <2> QED
      BY <1>1, <1>2, <2>1 DEF CheckedInv, Below, Moves
  <1>5. KeptInv'
    BY <1>1, <1>2 DEF KeptInv, Exists
  <1>6. GoneOrReported'
    BY <1>1 DEF GoneOrReported
  <1>7. ChangesOnlyNamed'
    BY <1>1, NamedSame
  <1> QED
    BY <1>3, <1>4, <1>5, <1>6, <1>7

\* The steps of the copy that only write.
LEMMA CopyKept ==
  ASSUME DirInv, phase = "copy", Written, StackInv', copy_failures' \in Nat,
         UNCHANGED <<args, warns, before>>, UNCHANGED report,
         phase' \in {"copy", "stuck"}, copying' \in Paths,
         copying' # <<>> => /\ phase' = "copy" /\ Below(copying', source)
                            /\ copying' \in DOMAIN fs' /\ IsReg(fs'[copying'])
                            /\ Lands(copying') \in DOMAIN fs' /\ IsReg(fs'[Lands(copying')])
  PROVE  DirInv'
  <1> USE DEF DirInv
  <1>1. UNCHANGED <<opt, source, dest, base, entry, gone>> /\ opt \in Moves
    BY DEF opt, source, dest, base, report, CheckedInv
  <1>2. WalkInv'
    BY <1>1 DEF WalkInv, Written, Below
  <1>3. CheckedInv'
    BY <1>1 DEF CheckedInv, Below
  <1>4. /\ ChangesOnlyNamed'
        /\ \A p \in DOMAIN before : p \in DOMAIN fs' /\
              (before[p].kind \in Dirs => fs'[p].kind = before[p].kind)
        /\ \A l \in DOMAIN fs' : fs'[l].kind = "link" => l \in DOMAIN before /\ fs'[l] = before[l]
    BY <1>1, WrittenKept
  <1>5. KeptInv'
    <2>1. Lands(copying)' = Lands(copying')
      BY WrittenLinks, LandsAs
    <2>2. copying' # <<>> => /\ phase' = "copy" /\ copying' \in DOMAIN fs' /\ IsReg(fs'[copying'])
                             /\ Lands(copying)' \in DOMAIN fs' /\ IsReg(fs'[Lands(copying)'])
      BY <2>1
    <2>3. phase' # "delete" /\ opt' \in Moves
      BY <1>1
    <2> QED
      BY <1>1, <1>4, <2>2, <2>3 DEF KeptInv, Exists
  <1>6. GoneOrReported'
    BY DEF GoneOrReported
  <1> QED
    BY <1>2, <1>3, <1>4, <1>5, <1>6

LEMMA CopyRootKept ==
  ASSUME DirInv, CopyRoot, UNCHANGED report PROVE DirInv'
  <1> USE DEF DirInv
  <1>1. /\ phase = "copy" /\ stack = <<>> /\ copying = <<>> /\ UNCHANGED copying
        /\ UNCHANGED <<args, phase, warns, before>> /\ MakeDir(source) /\ Push(source)
    BY DEF CopyRoot, CopyRunning
  <1>2. source \in Paths /\ Below(source, source)
    BY Given, BelowSelf DEF Paths
  <1>3. Written /\ copy_failures' \in Nat
    BY <1>1, <1>2, MakeDirWrites
  <1>4. StackInv'
    <2>1. stack' = Append(stack, Frame(source)) /\ stack \in Seq(Frames) /\ DOMAIN fs \subseteq Paths
      BY <1>1 DEF Push, WalkInv, StackInv
    <2> QED
      BY <1>1, <1>2, <2>1, PushKept DEF WalkInv, StackInv
  <1> QED
    BY <1>1, <1>3, <1>4, CopyKept DEF WalkInv

LEMMA CopyDirKept ==
  ASSUME DirInv, NEW p \in DOMAIN fs, CopyDir(p), UNCHANGED report PROVE DirInv'
  <1> USE DEF DirInv
  <1>1. /\ phase = "copy" /\ copying = <<>> /\ Visit(p) /\ UNCHANGED copying
        /\ UNCHANGED <<args, phase, warns, before>> /\ MakeDir(p) /\ Entered(p)
    BY DEF CopyDir, CopyRunning, Visit
  <1>2. p \in Paths /\ Below(p, source) /\ stack # <<>>
    BY <1>1, VisitBelow
  <1>3. Written /\ copy_failures' \in Nat
    BY <1>1, <1>2, MakeDirWrites
  <1>4. StackInv'
    <2>1. source \in Paths /\ DOMAIN fs \subseteq Paths /\ StackInv
      BY Given DEF WalkInv
    <2>2. /\ Mark(p) \in Seq(Frames) /\ Mark(p) # <<>> /\ Mark(p)[1].dir = source
          /\ \A i \in DOMAIN Mark(p) :
               Below(Mark(p)[i].dir, source) /\ \A q \in Mark(p)[i].must : Below(q, source)
      BY <1>2, <2>1, MarkKept
    <2>3. stack' = Append(Mark(p), Frame(p))
      BY <1>1 DEF Entered
    <2> QED
      BY <1>1, <1>2, <2>1, <2>2, <2>3, PushKept
  <1> QED
    BY <1>1, <1>3, <1>4, CopyKept DEF WalkInv

LEMMA CopySkipsKept ==
  ASSUME DirInv, NEW p \in DOMAIN fs, CopySkips(p), UNCHANGED report PROVE DirInv'
  <1> USE DEF DirInv
  <1>1. /\ phase = "copy" /\ copying = <<>> /\ Visit(p) /\ UNCHANGED <<fs, copying>>
        /\ UNCHANGED <<args, phase, warns, before>> /\ Passed(p) /\ SkipCounts(p)
    BY DEF CopySkips, CopyRunning, Visit
  <1>2. p \in Paths /\ stack # <<>>
    BY <1>1, VisitBelow
  <1>a. copy_failures' \in Nat
    BY <1>1, SkipsFacts
  <1>3. StackInv'
    BY <1>1, <1>2, PassedKept DEF WalkInv
  <1> QED
    BY <1>1, <1>3, <1>a, SameWritten, CopyKept DEF WalkInv

LEMMA CopyOpenKept ==
  ASSUME DirInv, NEW p \in DOMAIN fs, CopyOpen(p) \/ CopyBlocks(p), UNCHANGED report
  PROVE  DirInv'
  <1> USE DEF DirInv
  <1>1. /\ phase = "copy" /\ copying = <<>> /\ Visit(p)
        /\ UNCHANGED <<args, warns, before>> /\ Passed(p)
        /\ copying' = copying \/ (phase' = "copy" /\ copying' = p)
        /\ phase' \in {"copy", "stuck"}
    BY DEF CopyOpen, CopyBlocks, CopyRunning, Visit
  <1>2. p \in Paths /\ Below(p, source) /\ stack # <<>>
    BY <1>1, VisitBelow
  <1>3. StackInv'
    BY <1>1, <1>2, PassedKept DEF WalkInv
  <1>4. /\ Written /\ copy_failures' \in Nat
        /\ copying' # <<>> => /\ copying' = p /\ Lands(p) \in DOMAIN fs'
                              /\ IsReg(fs'[Lands(p)])
    BY CopyOpenWrites
  <1>5. copying' \in Paths /\ (copying' # <<>> =>
            /\ phase' = "copy" /\ Below(copying', source)
            /\ copying' \in DOMAIN fs' /\ IsReg(fs'[copying'])
            /\ Lands(copying') \in DOMAIN fs' /\ IsReg(fs'[Lands(copying')]))
    <2>1. copying' = <<>> \/ copying' = p
      BY <1>1
    <2>2. copying' \in Paths
      BY <1>1, <1>2 DEF WalkInv
    <2>3. p \in DOMAIN fs' /\ IsReg(fs'[p])
      <3>1. IsReg(fs[p])
        BY DEF CopyOpen, CopyBlocks
      <3> QED
        BY <1>4, <3>1 DEF Written, IsReg
    <2> QED
      BY <1>1, <1>2, <1>4, <2>1, <2>2, <2>3
  <1> QED
    BY <1>1, <1>3, <1>4, <1>5, CopyKept

LEMMA CopyDataKept ==
  ASSUME DirInv, CopyData, UNCHANGED report PROVE DirInv'
  <1> USE DEF DirInv
  <1>1. /\ phase = "copy" /\ copying' = <<>> /\ UNCHANGED <<args, phase, warns, before, stack>>
    BY DEF CopyData, CopyDataWith, CopyRunning
  <1>2. StackInv'
    BY <1>1 DEF WalkInv, StackInv, source, Below
  <1>3. Written /\ copy_failures' \in Nat
    BY CopyDataWrites
  <1>4. copying' \in Paths
    BY <1>1, EmptySeq DEF Paths
  <1> QED
    BY <1>1, <1>2, <1>3, <1>4, CopyKept

\* The copy is over: -dmove goes on with the deletion.
LEMMA CopyEnds ==
  ASSUME DirInv, phase = "copy", phase' = AfterCopy, copying = <<>>, StackInv',
         copy_failures' \in Nat,
         UNCHANGED <<fs, args, copying, warns, before>>, UNCHANGED report
  PROVE  DirInv'
  <1> USE DEF DirInv
  <1>1. UNCHANGED <<opt, source, dest, base, entry, gone>> /\ opt \in Moves
    BY DEF opt, source, dest, base, report, CheckedInv
  <1>2. phase' = IF opt = "dmove" THEN "delete" ELSE "done"
    BY DEF AfterCopy
  <1>3. WalkInv'
    BY <1>1, FsSame DEF WalkInv
  <1>4. CheckedInv'
    BY <1>1, <1>2 DEF CheckedInv, Below, Moves
  <1>5. KeptInv'
    <2>1. source \in DOMAIN before /\ before[source].kind \in Dirs
      BY <1>1 DEF CheckedInv
    <2>2. fs[source].kind = before[source].kind
      BY <2>1 DEF KeptInv
    <2> QED
      BY <1>1, <1>2, <2>2 DEF KeptInv, Exists
  <1>6. GoneOrReported'
    BY <1>1, <1>2 DEF GoneOrReported, Moves
  <1>7. ChangesOnlyNamed'
    BY <1>1, <1>2, NamedSame
  <1> QED
    BY <1>3, <1>4, <1>5, <1>6, <1>7

LEMMA CopyNothingKept ==
  ASSUME DirInv, CopyNothing, UNCHANGED report PROVE DirInv'
  <1>1. StackInv'
    BY DEF CopyNothing, DirInv, WalkInv, StackInv, source, Below
  <1>2. copy_failures' \in Nat
    BY SkipsFacts DEF CopyNothing, DirInv
  <1> QED
    BY <1>1, <1>2, CopyEnds DEF CopyNothing

LEMMA CopyPopsKept ==
  ASSUME DirInv, CopyPops, UNCHANGED report PROVE DirInv'
  <1>1. StackInv' /\ copying = <<>>
    BY PopKept DEF CopyPops, Pop, DirInv, WalkInv
  <1>2. CASE stack' = <<>>
    BY <1>1, <1>2, CopyEnds DEF CopyPops, DirInv, WalkInv
  <1>3. CASE stack' # <<>>
    <2>1. copy_failures' \in Nat /\ Written /\ copying' \in Paths /\ copying' = <<>>
      BY <1>1, SameWritten DEF CopyPops, DirInv, WalkInv
    <2> QED
      BY <1>1, <1>3, <2>1, CopyKept DEF CopyPops
  <1> QED
    BY <1>2, <1>3

\* A node is removed.
LEMMA WithoutFacts ==
  ASSUME WalkInv, NEW p, fs' = Without(p)
  PROVE  /\ DOMAIN fs' = DOMAIN fs \ {p} /\ \A q \in DOMAIN fs' : fs'[q] = fs[q]
         /\ DOMAIN fs' \subseteq Paths /\ fs' \in [DOMAIN fs' -> Nodes]
  BY DEF Without, WalkInv

\* The steps of the deletion: they remove nothing but what is in source_dir.
LEMMA DeleteKept ==
  ASSUME DirInv, phase = "delete", phase' \in {"delete", "done"}, StackInv',
         UNCHANGED <<args, copying, copy_failures, before>>, UNCHANGED report,
         warns' \in Nat, UNCHANGED fs \/ \E p \in DOMAIN fs : Below(p, source) /\ fs' = Without(p),
         phase' = "done" /\ before[source].kind # "locked" => source \notin DOMAIN fs' \/ warns' > 0
  PROVE  DirInv'
  <1> USE DEF DirInv
  <1>1. UNCHANGED <<opt, source, dest, base, entry, gone>> /\ opt = "dmove" /\ opt \in Moves
    BY DEF opt, source, dest, base, report, CheckedInv, Moves
  <1>2. /\ DOMAIN fs' \subseteq DOMAIN fs /\ \A q \in DOMAIN fs' : fs'[q] = fs[q]
        /\ DOMAIN fs' \subseteq Paths /\ fs' \in [DOMAIN fs' -> Nodes]
        /\ \A q \in DOMAIN fs : q \in DOMAIN fs' \/ Below(q, source)
    <2>1. CASE UNCHANGED fs
      BY <2>1 DEF WalkInv
    <2>2. CASE \E p \in DOMAIN fs : Below(p, source) /\ fs' = Without(p)
      <3>1. PICK p \in DOMAIN fs : Below(p, source) /\ fs' = Without(p)
        BY <2>2
      <3> QED
        BY <3>1, WithoutFacts
    <2> QED
      BY <2>1, <2>2
  <1>3. WalkInv'
    BY <1>1, <1>2 DEF WalkInv, Below
  <1>4. CheckedInv'
    BY <1>1 DEF CheckedInv, Below
  <1>5. KeptInv'
    BY <1>1, <1>2 DEF KeptInv, Exists
  <1>6. GoneOrReported'
    BY <1>1 DEF GoneOrReported, Exists
  <1>7. \A p \in Paths : Below(p, source) => InHome(p)
    BY <1>1, CopyFacts
  <1>8. ASSUME NEW p \in DOMAIN before \union DOMAIN fs'
        PROVE  \/ p \in DOMAIN fs /\ p \in DOMAIN fs' /\ fs'[p] = fs[p]
               \/ p \notin DOMAIN fs /\ p \notin DOMAIN fs'
               \/ MayChange(p)'
    <2>1. ASSUME p \in DOMAIN fs, p \notin DOMAIN fs' PROVE MayChange(p)'
      <3>1. Below(p, source) /\ InHome(p)
        BY <1>2, <1>7, <2>1 DEF WalkInv
      <3> QED
        BY <1>1, <3>1 DEF MayChange, InHome, Below
    <2> QED
      BY <1>2, <2>1
  <1>9. ChangesOnlyNamed'
    BY <1>1, <1>8, ChangedStep
  <1> QED
    BY <1>3, <1>4, <1>5, <1>6, <1>9

LEMMA DeleteRootKept ==
  ASSUME DirInv, DeleteRoot, UNCHANGED report PROVE DirInv'
  <1> USE DEF DirInv
  <1>1. /\ phase = "delete" /\ stack = <<>>
        /\ UNCHANGED <<args, copying, copy_failures, before, fs, warns>>
    BY DEF DeleteRoot, DeleteRunning
  <1>2. warns' \in Nat
    BY <1>1 DEF WalkInv
  <1>3. CASE Skips(source)
    <2>1. phase' = "done" /\ UNCHANGED stack
      BY <1>3 DEF DeleteRoot
    <2>2. StackInv'
      BY <1>1, <2>1 DEF WalkInv, StackInv, source, Below
    <2>3. before[source].kind # "locked" => source \notin DOMAIN fs'
      BY <1>1, <1>3 DEF Skips, KeptInv, Exists
    <2> QED
      BY <1>1, <1>2, <2>1, <2>2, <2>3, DeleteKept
  <1>4. CASE ~ Skips(source)
    <2>1. phase' = "delete" /\ stack' = Append(stack, Frame(source)) /\ stack \in Seq(Frames)
      BY <1>1, <1>4 DEF DeleteRoot, Push, WalkInv, StackInv
    <2>2. source \in Paths /\ Below(source, source)
      BY Given, BelowSelf DEF Paths
    <2>3. StackInv'
      BY <1>1, <2>1, <2>2, PushKept DEF WalkInv, StackInv
    <2> QED
      BY <1>1, <1>2, <2>1, <2>3, DeleteKept
  <1> QED
    BY <1>3, <1>4

LEMMA DeleteDirKept ==
  ASSUME DirInv, NEW p \in DOMAIN fs, DeleteDir(p), UNCHANGED report PROVE DirInv'
  <1> USE DEF DirInv
  <1>1. /\ phase = "delete" /\ phase' = "delete" /\ Visit(p) /\ Entered(p)
        /\ UNCHANGED <<args, copying, copy_failures, before, fs, warns>>
    BY DEF DeleteDir, DeleteRunning
  <1>2. p \in Paths /\ Below(p, source) /\ stack # <<>>
    BY <1>1, VisitBelow
  <1>3. StackInv'
    <2>1. source \in Paths /\ DOMAIN fs \subseteq Paths /\ StackInv
      BY Given DEF WalkInv
    <2>2. /\ Mark(p) \in Seq(Frames) /\ Mark(p) # <<>> /\ Mark(p)[1].dir = source
          /\ \A i \in DOMAIN Mark(p) :
               Below(Mark(p)[i].dir, source) /\ \A q \in Mark(p)[i].must : Below(q, source)
      BY <1>2, <2>1, MarkKept
    <2>3. stack' = Append(Mark(p), Frame(p))
      BY <1>1 DEF Entered
    <2> QED
      BY <1>1, <1>2, <2>1, <2>2, <2>3, PushKept
  <1> QED
    BY <1>1, <1>3, DeleteKept DEF WalkInv

LEMMA DeleteSkipsKept ==
  ASSUME DirInv, NEW p \in DOMAIN fs, DeleteSkips(p), UNCHANGED report PROVE DirInv'
  <1> USE DEF DirInv
  <1>1. /\ phase = "delete" /\ phase' = "delete" /\ Visit(p) /\ Passed(p)
        /\ UNCHANGED <<args, copying, copy_failures, before, fs, warns>>
    BY DEF DeleteSkips, DeleteRunning
  <1>2. p \in Paths /\ stack # <<>>
    BY <1>1, VisitBelow
  <1>3. StackInv'
    BY <1>1, <1>2, PassedKept DEF WalkInv
  <1> QED
    BY <1>1, <1>3, DeleteKept DEF WalkInv

LEMMA UnlinkKept ==
  ASSUME DirInv, Unlink, UNCHANGED report PROVE DirInv'
  <1> USE DEF DirInv
  <1>1. PICK p \in DOMAIN fs :
          /\ phase = "delete" /\ phase' = "delete" /\ Visit(p) /\ Passed(p)
          /\ UNCHANGED <<args, copying, copy_failures, before>>
          /\ \/ fs' = Without(p) /\ UNCHANGED warns
             \/ warns' = warns + 1 /\ UNCHANGED fs
    BY DEF Unlink, DeleteRunning
  <1>2. p \in Paths /\ Below(p, source) /\ stack # <<>>
    BY <1>1, VisitBelow
  <1>3. StackInv'
    BY <1>1, <1>2, PassedKept DEF WalkInv
  <1>4. warns' \in Nat
    BY <1>1 DEF WalkInv
  <1>5. UNCHANGED fs \/ \E q \in DOMAIN fs : Below(q, source) /\ fs' = Without(q)
    BY <1>1, <1>2
  <1> QED
    BY <1>1, <1>3, <1>4, <1>5, DeleteKept

\* Only the frame of source_dir itself leaves nothing behind.
LEMMA LastFrame ==
  ASSUME StackInv, Pop
  PROVE  /\ Top \in Frames /\ Below(Top.dir, source)
         /\ stack' = <<>> => Top.dir = source
  <1>1. /\ stack \in Seq(Frames) /\ stack # <<>> /\ DOMAIN stack = 1 .. Len(stack)
        /\ Len(stack) \in Nat /\ Len(stack) # 0 /\ stack' = SubSeq(stack, 1, Len(stack) - 1)
    BY EmptySeq, LenProperties DEF StackInv, Pop
  <1>2. Len(stack) \in DOMAIN stack /\ Len(stack) - 1 \in 0 .. Len(stack)
    BY <1>1
  <1>3. Len(stack') = Len(stack) - 1
    BY <1>1, <1>2, StartOf
  <1>4. stack' = <<>> => Len(stack) = 1
    <2>1. stack' = <<>> => Len(stack') = 0
      OBVIOUS
    <2> QED
      BY <1>1, <1>3, <2>1
  <1> QED
    BY <1>1, <1>2, <1>4, ElementOfSeq DEF Top, StackInv

LEMMA RmdirKept ==
  ASSUME DirInv, Rmdir, UNCHANGED report PROVE DirInv'
  <1> USE DEF DirInv
  <1>1. /\ phase = "delete" /\ Pop /\ phase' = IF stack' = <<>> THEN "done" ELSE "delete"
        /\ UNCHANGED <<args, copying, copy_failures, before>>
        /\ \/ fs' = Without(Top.dir) /\ UNCHANGED warns
           \/ warns' = warns + 1 /\ UNCHANGED fs
    BY DEF Rmdir, RmdirWith, DeleteRunning
  <1>2. /\ Top.dir \in Paths /\ Below(Top.dir, source)
        /\ stack' = <<>> => Top.dir = source
    BY <1>1, LastFrame DEF WalkInv, Frames
  <1>3. StackInv'
    BY <1>1, PopKept DEF WalkInv
  <1>4. warns' \in Nat /\ warns \in Nat
    BY <1>1 DEF WalkInv
  <1>5. CASE fs' = Without(Top.dir) /\ UNCHANGED warns
    <2>1. Top.dir \notin DOMAIN fs'
      BY <1>5 DEF Without
    <2>2. UNCHANGED fs \/ \E p \in DOMAIN fs : Below(p, source) /\ fs' = Without(p)
      <3>1. CASE Top.dir \in DOMAIN fs
        BY <1>2, <1>5, <3>1
      <3>2. CASE Top.dir \notin DOMAIN fs
        <4>1. fs' = fs
          BY <1>5, <3>2 DEF Without, WalkInv
        <4> QED
          BY <4>1
      <3> QED
        BY <3>1, <3>2
    <2> QED
      BY <1>1, <1>2, <1>3, <1>4, <2>1, <2>2, DeleteKept
  <1>6. CASE warns' = warns + 1 /\ UNCHANGED fs
    BY <1>1, <1>3, <1>4, <1>6, DeleteKept
  <1> QED
    BY <1>1, <1>5, <1>6

\* nftw fails.
LEMMA WalkFailsKept ==
  ASSUME DirInv, WalkFails, UNCHANGED report PROVE DirInv'
  <1> USE DEF DirInv
  <1>1. /\ phase \in {"copy", "delete", "walk"} /\ phase' = "died" /\ copying = <<>>
        /\ UNCHANGED <<fs, args, stack, copying, copy_failures, warns, before, entry, gone>>
    BY DEF WalkFails, report
  <1>2. UNCHANGED <<opt, source, dest>>
    BY <1>1 DEF opt, source, dest
  <1>3. WalkInv'
    <2>1. StackInv'
      BY <1>1, <1>2 DEF WalkInv, StackInv, Below
    <2> QED
      BY <1>1, <2>1, FsSame DEF WalkInv
  <1>4. CheckedInv'
    BY <1>1, <1>2 DEF CheckedInv, Below
  <1>5. KeptInv'
    BY <1>1, <1>2 DEF KeptInv
  <1>6. GoneOrReported'
    BY <1>1 DEF GoneOrReported
  <1>7. ChangesOnlyNamed'
    BY <1>1, NamedSame
  <1> QED
    BY <1>3, <1>4, <1>5, <1>6, <1>7

LEMMA MoveKept ==
  ASSUME DirInv, MoveNext, UNCHANGED report PROVE DirInv'
  <1>1. CASE CheckDirs
    BY <1>1, CheckDirsKept
  <1>2. CASE Copy
    BY <1>2, CopyRootKept, CopyNothingKept, CopyDataKept, CopyPopsKept, CopyDirKept,
       CopySkipsKept, CopyOpenKept DEF Copy
  <1>4. CASE WalkFails
    BY <1>4, WalkFailsKept
  <1>3. CASE Delete
    BY <1>3, DeleteRootKept, UnlinkKept, RmdirKept, DeleteDirKept, DeleteSkipsKept DEF Delete
  <1> QED
    BY <1>1, <1>2, <1>3, <1>4 DEF MoveNext
-----------------------------------------------------------------------------
(* Each step of the other walks keeps the invariant.                       *)

\* A name that ends with the extension has it as its end.
LEMMA SuffixEnds ==
  ASSUME NEW S, NEW x \in Seq(S), NEW n \in Seq(S), x # <<>>, IsSuffix(x, n)
  PROVE  \E k \in DOMAIN n : SubSeq(n, k, Len(n)) = x
  <1> DEFINE rx == Reverse(x)
             rn == Reverse(n)
             lx == Len(x)
             ln == Len(n)
             k == ln - lx + 1
             t == SubSeq(n, k, ln)
  <1>1. /\ lx \in Nat /\ lx # 0 /\ ln \in Nat /\ DOMAIN n = 1 .. ln
        /\ \A i \in 1 .. lx : x[i] \in S
        /\ \A i \in 1 .. ln : n[i] \in S
    BY EmptySeq, LenProperties, ElementOfSeq
  <1>2. rx \in Seq(S) /\ Len(rx) = lx /\ \A i \in 1 .. lx : rx[i] = x[lx - i + 1]
    BY <1>1, IsASeq DEF Reverse
  <1>3. rn \in Seq(S) /\ Len(rn) = ln /\ \A i \in 1 .. ln : rn[i] = n[ln - i + 1]
    BY <1>1, IsASeq DEF Reverse
  <1>4. IsPrefix(rx, rn)
    BY DEF IsSuffix
  <1> HIDE DEF rx, rn, lx, ln
  <1>5. lx =< ln /\ \A i \in 1 .. lx : rx[i] = rn[i]
    <2>1. rx \in Seq(S) /\ rn \in Seq(S)
      BY <1>2, <1>3
    <2>2. Len(rx) =< Len(rn) /\ \A i \in 1 .. Len(rx) : rx[i] = rn[i]
      BY <1>4, <2>1, PrefixDef
    <2> QED
      BY <1>2, <1>3, <2>2
  <1>6. k \in 1 .. ln /\ ln - k + 1 = lx
    BY <1>1, <1>5
  <1>7. ASSUME NEW j \in 1 .. lx PROVE x[j] = n[k + j - 1]
    <2> DEFINE i == lx - j + 1
    <2>1. /\ i \in 1 .. lx /\ i \in 1 .. ln /\ lx - i + 1 = j /\ ln - i + 1 = k + j - 1
      BY <1>1, <1>5
    <2> HIDE DEF i, k
    <2>2. x[j] = rx[i] /\ n[k + j - 1] = rn[i]
      BY <1>2, <1>3, <2>1
    <2> QED
      BY <1>5, <2>1, <2>2
  <1>8. t \in Seq(S) /\ Len(t) = lx /\ \A j \in 1 .. lx : t[j] = n[k + j - 1]
    <2>1. k \in Int /\ ln \in Int /\ k =< ln /\ \A j \in k .. ln : n[j] \in S
      BY <1>1, <1>6
    <2> HIDE DEF k
    <2>2. /\ t \in Seq(S) /\ Len(t) = IF k =< ln THEN ln - k + 1 ELSE 0
          /\ \A j \in 1 .. ln - k + 1 : t[j] = n[k + j - 1]
      BY <2>1, SubSeqProperties
    <2> QED
      BY <1>6, <2>1, <2>2
  <1> HIDE DEF t, k
  <1>9. t = x
    BY <1>7, <1>8, SeqEqual DEF lx
  <1> QED
    BY <1>1, <1>6, <1>9 DEF t, ln

\* What cb takes for a file to remove is one.
LEMMA RemovesNamed ==
  ASSUME DirInv, phase = "walk", Removes(entry)
  PROVE  /\ entry.path \in Paths /\ Below(entry.path, source)
         /\ entry.path \notin Extra =>
              /\ opt = "remd" /\ entry.path \in DOMAIN before /\ InHome(entry.path)
              /\ Reg(entry.path) /\ HasExt(entry.path, exts[1])
  <1> USE DEF DirInv
  <1> DEFINE p == entry.path
             n == p[Len(p)]
  <1>1. opt = "remd" /\ opt \notin Moves /\ IsReg(entry) /\ ends_with_ext(n, exts[1])
    BY DEF Removes, Moves, base_name_view
  <1>2. entry # None /\ p \in Paths /\ Below(p, source)
    BY <1>1 DEF WalkInv, IsReg, None
  <1>3. p \in Extra \/ (p \in DOMAIN before /\ before[p].kind = entry.kind)
    BY <1>1, <1>2 DEF KeptInv
  <1>4. ASSUME p \notin Extra
        PROVE  p \in DOMAIN before /\ InHome(p) /\ Reg(p) /\ HasExt(p, exts[1])
    <2>1. p \in DOMAIN before /\ before[p].kind \in {"file", "unread"}
      BY <1>1, <1>3, <1>4 DEF IsReg
    <2>2. source \in Paths /\ Home \in Paths /\ (Home \in DOMAIN before => before[Home].kind \in Dirs)
          /\ exts \in Seq(Seq(DOMAIN Code)) /\ exts # <<>>
      BY <1>1, Given
    <2>3. Below(p, Home)
      <3>1. Below(source, Home)
        BY DEF CheckedInv
      <3> QED
        BY <1>2, <2>2, <3>1, BelowBelow DEF Paths
    <2>4. p # Home
      BY <2>1, <2>2 DEF Dirs
    <2>5. Len(Home) =< Len(p) /\ \A i \in 1 .. Len(Home) : Home[i] = p[i]
      BY <1>2, <2>2, <2>3, PrefixDef DEF Below, Paths
    <2>6. Len(p) \in Nat /\ Len(Home) \in Nat
      BY <1>2, <2>2, PathNames
    <2>7. Len(p) # Len(Home)
      BY <1>2, <2>2, <2>4, <2>5, SeqEqual DEF Paths
    <2>8. Len(p) > Len(Home)
      BY <2>5, <2>6, <2>7
    <2>9. InHome(p)
      BY <1>2, <2>3, <2>8, LongerInHome
    <2>10. Len(p) \in 1 .. Len(p)
      BY <2>6, <2>8
    <2>11. n \in Seq(DOMAIN Code)
      BY <1>2, <2>10, PathNames
    <2>12. exts[1] \in Seq(DOMAIN Code)
      <3>1. 1 \in 1 .. Len(exts)
        BY <2>2, EmptySeq, LenProperties
      <3> QED
        BY <2>2, <3>1, ElementOfSeq
    <2>13. exts[1] # <<>> /\ IsSuffix(exts[1], n)
      BY <1>1 DEF ends_with_ext
    <2>14. \E k \in DOMAIN n : SubSeq(n, k, Len(n)) = exts[1]
      BY <2>11, <2>12, <2>13, SuffixEnds
    <2>15. HasExt(p, exts[1])
      BY <2>13, <2>14 DEF HasExt
    <2>16. Reg(p)
      BY <2>1 DEF Reg, Kind
    <2> QED
      BY <2>1, <2>9, <2>15, <2>16
  <1> QED
    BY <1>1, <1>2, <1>4

\* The steps of a report: the file system stays as it is.
LEMMA WalkKept ==
  ASSUME DirInv, opt \in Reports \union {"remd"}, phase \in {"start", "walk", "print"},
         phase' \in {"walk", "print", "died", "done"}, StackInv', warns' \in Nat,
         UNCHANGED <<fs, args, copying, copy_failures, before, gone>>,
         entry' \in [path : Paths, kind : Kinds \union {"none"}],
         entry' # None =>
           /\ Below(entry'.path, source)
           /\ \/ entry'.path \in Extra
              \/ entry'.path \in DOMAIN before /\ before[entry'.path].kind = entry'.kind,
         phase' = "walk" /\ stack' = <<>> /\ entry' # None => entry'.path = source
  PROVE  DirInv'
  <1> USE DEF DirInv
  <1>1. UNCHANGED <<opt, source, dest, base>> /\ opt \notin Moves
    BY DEF opt, source, dest, base, Moves, Reports
  <1>2. WalkInv'
    BY <1>1 DEF WalkInv, Below
  <1>3. CheckedInv'
    BY <1>1 DEF CheckedInv, Below
  <1>4. KeptInv'
    BY <1>1 DEF KeptInv, Exists
  <1>5. GoneOrReported'
    BY <1>1 DEF GoneOrReported, Moves
  <1>6. ChangesOnlyNamed'
    BY NamedSame
  <1> QED
    BY <1>2, <1>3, <1>4, <1>5, <1>6

\* What lstat says is what was there at the start, or of the other program's entry.
LEMMA StatFacts ==
  ASSUME DirInv, opt \notin Moves, NEW p \in DOMAIN fs, Below(p, source)
  PROVE  /\ Stat(p) \in [path : Paths, kind : Kinds \union {"none"}]
         /\ Below(Stat(p).path, source)
         /\ \/ Stat(p).path \in Extra
            \/ Stat(p).path \in DOMAIN before /\ before[Stat(p).path].kind = Stat(p).kind
  <1>1. p \in Paths /\ fs[p] \in Nodes
    BY DEF DirInv, WalkInv
  <1>2. Stat(p) \in [path : Paths, kind : Kinds \union {"none"}]
    BY <1>1 DEF Stat, Nodes
  <1>3. p \in Extra \/ (p \in DOMAIN before /\ before[p].kind = fs[p].kind)
    BY DEF DirInv, KeptInv
  <1> QED
    BY <1>2, <1>3 DEF Stat

LEMMA Walking ==
  ASSUME DirInv, phase \in {"start", "walk", "print"}
  PROVE  /\ opt \in Reports \union {"remd"} /\ opt \notin Moves /\ StackInv /\ warns \in Nat
         /\ entry \in [path : Paths, kind : Kinds \union {"none"}]
         /\ entry # None =>
              /\ Below(entry.path, source)
              /\ \/ entry.path \in Extra
                 \/ entry.path \in DOMAIN before /\ before[entry.path].kind = entry.kind
         /\ None \in [path : Paths, kind : Kinds \union {"none"}]
         /\ source \in Paths /\ Below(source, source)
  <1>1. opt \in Reports \union {"remd"} /\ opt \notin Moves
    BY DEF DirInv, CheckedInv, Reports, Moves
  <1>2. None \in [path : Paths, kind : Kinds \union {"none"}]
    BY EmptySeq DEF None, Paths
  <1>3. source \in Paths /\ Below(source, source)
    BY Given, BelowSelf DEF DirInv, Paths
  <1> QED
    BY <1>1, <1>2, <1>3 DEF DirInv, WalkInv, KeptInv

LEMMA CheckRootKept ==
  ASSUME DirInv, CheckRoot PROVE DirInv'
  <1> USE DEF DirInv
  <1>1. /\ phase = "args" /\ opt \in Reports \union {"remd"} /\ opt \notin Moves /\ fs = before
        /\ UNCHANGED <<fs, args, before, stack, copying, copy_failures, warns, entry, gone>>
        /\ phase' \in {"start", "refused"}
        /\ phase' = "start" => Exists(source) /\ path_is_under_home(source, Home)
    BY DEF CheckRoot, CheckedInv, Moves, Reports, report
  <1>2. UNCHANGED <<opt, source, dest>>
    BY <1>1 DEF opt, source, dest
  <1>3. WalkInv'
    <2>1. StackInv'
      BY <1>1, <1>2 DEF WalkInv, StackInv, Below
    <2> QED
      BY <1>1, <2>1, FsSame DEF WalkInv
  <1>4. CheckedInv'
    <2>1. phase' = "start" => source \in DOMAIN before /\ Below(source, Home)
      BY <1>1, Given, UnderHome DEF Exists
    <2> QED
      BY <1>1, <1>2, <2>1 DEF CheckedInv, Below, Moves
  <1>5. KeptInv'
    BY <1>1, <1>2 DEF KeptInv, Exists
  <1>6. GoneOrReported'
    BY <1>1 DEF GoneOrReported
  <1>7. ChangesOnlyNamed'
    BY <1>1, NamedSame
  <1> QED
    BY <1>3, <1>4, <1>5, <1>6, <1>7

LEMMA WalkRootKept ==
  ASSUME DirInv, WalkRoot PROVE DirInv'
  <1>1. /\ phase = "start" /\ phase' \in {"walk", "died"}
        /\ UNCHANGED <<fs, args, copying, copy_failures, before, gone, stack, warns>>
        /\ entry' = entry \/ (source \in DOMAIN fs /\ entry' = Stat(source))
    BY DEF WalkRoot, Same, Exists
  <1>2. StackInv'
    BY <1>1, Walking DEF StackInv, source, Below
  <1>3. /\ entry' \in [path : Paths, kind : Kinds \union {"none"}]
        /\ entry' # None =>
             /\ Below(entry'.path, source)
             /\ \/ entry'.path \in Extra
                \/ entry'.path \in DOMAIN before /\ before[entry'.path].kind = entry'.kind
    BY <1>1, Walking, StatFacts
  <1>4. phase' = "walk" => entry'.path = source
    BY DEF WalkRoot, Stat
  <1> QED
    BY <1>1, <1>2, <1>3, <1>4, Walking, WalkKept

LEMMA StatEntryKept ==
  ASSUME DirInv, NEW p, StatEntry(p) PROVE DirInv'
  <1>1. /\ phase = "walk" /\ phase' = "walk" /\ Visit(p) /\ Passed(p)
        /\ UNCHANGED <<fs, args, copying, copy_failures, before, gone, warns>>
        /\ entry' = None \/ (p \in DOMAIN fs /\ entry' = Stat(p))
    BY DEF StatEntry, Same, Exists
  <1>2. p \in Paths /\ Below(p, source) /\ stack # <<>>
    BY <1>1, VisitBelow DEF DirInv
  <1>3. StackInv'
    BY <1>1, <1>2, PassedKept, Walking
  <1>4. /\ entry' \in [path : Paths, kind : Kinds \union {"none"}]
        /\ entry' # None =>
             /\ Below(entry'.path, source)
             /\ \/ entry'.path \in Extra
                \/ entry'.path \in DOMAIN before /\ before[entry'.path].kind = entry'.kind
    BY <1>1, <1>2, Walking, StatFacts
  <1>5. stack' # <<>>
    BY <1>1, <1>2, Walking, MarkKept DEF Passed
  <1> QED
    BY <1>1, <1>3, <1>4, <1>5, Walking, WalkKept

LEMMA PassFileKept ==
  ASSUME DirInv, PassFile PROVE DirInv'
  <1>1. /\ phase = "walk" /\ phase' \in {"walk", "print"} /\ entry' = None
        /\ UNCHANGED <<fs, args, copying, copy_failures, before, gone, stack, warns>>
    BY DEF PassFile, Same, Back
  <1>2. StackInv'
    BY <1>1, Walking DEF StackInv, source, Below
  <1> QED
    BY <1>1, <1>2, Walking, WalkKept

LEMMA PassDirKept ==
  ASSUME DirInv, PassDir PROVE DirInv'
  <1>1. /\ phase = "walk" /\ phase' \in {"walk", "print", "died"} /\ entry' = None
        /\ entry.kind \in {"dir", "locked"}
        /\ UNCHANGED <<fs, args, copying, copy_failures, before, gone, warns>>
        /\ UNCHANGED stack \/ stack' = Append(stack, Frame(entry.path))
    BY DEF PassDir, Same, Back, Push
  <1>2. entry # None /\ entry.path \in Paths /\ Below(entry.path, source)
    BY <1>1, Walking DEF None
  <1>3. CASE UNCHANGED stack
    <2>1. StackInv'
      BY <1>1, <1>3, Walking DEF StackInv, source, Below
    <2> QED
      BY <1>1, <2>1, Walking, WalkKept
  <1>4. CASE stack' = Append(stack, Frame(entry.path))
    <2>1. stack = <<>> => entry.path = source
      BY <1>1, <1>2 DEF DirInv, CheckedInv
    <2>2. StackInv'
      BY <1>1, <1>2, <1>4, <2>1, Walking, PushKept DEF StackInv, DirInv, WalkInv
    <2> QED
      BY <1>1, <2>2, Walking, WalkKept
  <1> QED
    BY <1>1, <1>3, <1>4

LEMMA WalkPopsKept ==
  ASSUME DirInv, WalkPops PROVE DirInv'
  <1>1. /\ phase = "walk" /\ phase' \in {"walk", "print"} /\ entry' = None /\ Pop
        /\ UNCHANGED <<fs, args, copying, copy_failures, before, gone, warns>>
    BY DEF WalkPops, Same, Back
  <1>2. StackInv'
    BY <1>1, Walking, PopKept
  <1> QED
    BY <1>1, <1>2, Walking, WalkKept

LEMMA PrintsKept ==
  ASSUME DirInv, Prints PROVE DirInv'
  <1>1. /\ phase = "print" /\ phase' = "done"
        /\ UNCHANGED <<fs, args, stack, copying, copy_failures, before, gone, warns, entry>>
    BY DEF Prints
  <1>2. StackInv'
    BY <1>1, Walking DEF StackInv, source, Below
  <1> QED
    BY <1>1, <1>2, Walking, WalkKept

LEMMA RemoveKept ==
  ASSUME DirInv, M_REMD PROVE DirInv'
  <1> USE DEF DirInv
  <1>0. PICK p : p = entry.path
    OBVIOUS
  <1>1. /\ phase = "walk" /\ phase' \in {"walk", "print"} /\ entry' = None /\ Removes(entry)
        /\ UNCHANGED <<args, copying, copy_failures, before, gone, stack>>
        /\ UNCHANGED fs \/ fs' = Without(p)
        /\ warns' = warns \/ warns' = warns + 1
    BY <1>0 DEF M_REMD, Same, Back
  <1>2. StackInv' /\ warns' \in Nat
    BY <1>1, Walking DEF StackInv, source, Below
  <1>3. CASE UNCHANGED fs
    BY <1>1, <1>2, <1>3, Walking, WalkKept
  <1>4. CASE fs' = Without(p)
    <2>1. UNCHANGED <<opt, source, dest, base, exts>> /\ opt \notin Moves
      BY <1>1, Walking DEF opt, source, dest, base, exts
    <2>2. /\ DOMAIN fs' = DOMAIN fs \ {p} /\ \A q \in DOMAIN fs' : fs'[q] = fs[q]
          /\ DOMAIN fs' \subseteq Paths /\ fs' \in [DOMAIN fs' -> Nodes]
      BY <1>4, WithoutFacts
    <2>3. WalkInv'
      BY <1>1, <1>2, <2>1, <2>2, Walking DEF WalkInv, Below
    <2>4. CheckedInv'
      BY <1>1, <2>1 DEF CheckedInv, Below
    <2>5. KeptInv'
      BY <1>1, <2>1, <2>2 DEF KeptInv
    <2>6. GoneOrReported'
      BY <1>1 DEF GoneOrReported
    <2>7. p \in Extra \/ MayChange(p)'
      <3>1. /\ Below(p, source)
            /\ p \notin Extra => /\ opt = "remd" /\ p \in DOMAIN before /\ InHome(p)
                                 /\ Reg(p) /\ HasExt(p, exts[1])
        BY <1>0, <1>1, RemovesNamed
      <3>2. p \in DOMAIN before => (Reg(p)' <=> Reg(p))
        BY <1>1 DEF Reg, Kind
      <3> QED
        BY <1>1, <2>1, <3>1, <3>2 DEF MayChange, InHome, Below, HasExt
    <2>8. ChangesOnlyNamed'
      BY <1>1, <2>2, <2>7, ChangedStep
    <2> QED
      BY <2>3, <2>4, <2>5, <2>6, <2>8
  <1> QED
    BY <1>1, <1>3, <1>4
-----------------------------------------------------------------------------
(* Another program.                                                        *)

LEMMA OtherCreatesKept ==
  ASSUME DirInv, NEW p \in Extra, OtherCreates(p) PROVE DirInv'
  <1> USE DEF DirInv
  <1>1. /\ phase \notin {"args", "done", "refused", "died"} /\ p \notin DOMAIN fs
        /\ p \notin DOMAIN before
        /\ UNCHANGED <<args, phase, stack, copying, copy_failures, warns, before, entry, gone>>
        /\ fs' = [q \in DOMAIN fs \union {p} |-> IF q = p THEN File(Data(p, TRUE)) ELSE fs[q]]
    BY DEF OtherCreates, Running, Theirs, Exists
  <1>2. UNCHANGED <<opt, source, dest, base>>
    BY <1>1 DEF opt, source, dest, base
  <1>3. p \in Paths /\ File(Data(p, TRUE)) \in Nodes
    BY DirAssumption DEF File, Data, Nodes, Kinds
  <1>4. /\ DOMAIN fs' = DOMAIN fs \union {p} /\ \A q \in DOMAIN fs : fs'[q] = fs[q]
        /\ DOMAIN fs' \subseteq Paths /\ fs' \in [DOMAIN fs' -> Nodes]
    <2>1. DOMAIN fs \subseteq Paths /\ fs \in [DOMAIN fs -> Nodes]
      BY DEF WalkInv
    <2> QED
      BY <1>1, <1>3, <2>1
  <1>5. WalkInv'
    BY <1>1, <1>2, <1>4 DEF WalkInv, StackInv, Below
  <1>6. CheckedInv'
    BY <1>1, <1>2 DEF CheckedInv, Below
  <1>a. fs'[p].kind = "file"
    BY <1>1, <1>4 DEF File
  <1>b. Lands(copying)' = Lands(copying)
    <2>1. {q \in DOMAIN fs' : fs'[q].kind = "link"} = {q \in DOMAIN fs : fs[q].kind = "link"}
      BY <1>1, <1>4, <1>a
    <2>2. Links' = Links
      BY <1>4, <2>1 DEF Links
    <2> QED
      BY <1>1, <2>2, LandsAs
  <1>7. KeptInv'
    <2>1. phase = "delete" => source \in DOMAIN before
      BY DEF CheckedInv
    <2>2. copying # <<>> => /\ phase' = "copy" /\ copying' \in DOMAIN fs' /\ IsReg(fs'[copying'])
                            /\ Lands(copying)' \in DOMAIN fs' /\ IsReg(fs'[Lands(copying)'])
      BY <1>1, <1>4, <1>b DEF KeptInv, Exists
    <2> QED
      BY <1>1, <1>2, <1>4, <1>a, <2>1, <2>2 DEF KeptInv, Exists
  <1>8. GoneOrReported'
    BY <1>1 DEF GoneOrReported
  <1>9. ChangesOnlyNamed'
    BY <1>1, <1>4, ChangedStep
  <1> QED
    BY <1>5, <1>6, <1>7, <1>8, <1>9

LEMMA OtherDeletesKept ==
  ASSUME DirInv, NEW p, OtherDeletes(p) PROVE DirInv'
  <1> USE DEF DirInv
  <1>1. /\ phase \notin {"args", "done", "refused", "died"} /\ opt \notin Moves
        /\ UNCHANGED <<args, phase, stack, copying, copy_failures, warns, before, entry>>
        /\ fs' = Without(p) /\ gone' = {p} /\ gone \subseteq gone'
    BY DEF OtherDeletes, Running, Theirs, Touched, Moves
  <1>2. UNCHANGED <<opt, source, dest, base>>
    BY <1>1 DEF opt, source, dest, base
  <1>3. /\ DOMAIN fs' = DOMAIN fs \ {p} /\ \A q \in DOMAIN fs' : fs'[q] = fs[q]
        /\ DOMAIN fs' \subseteq Paths /\ fs' \in [DOMAIN fs' -> Nodes]
    BY <1>1, WithoutFacts
  <1>4. WalkInv'
    BY <1>1, <1>2, <1>3 DEF WalkInv, StackInv, Below
  <1>5. CheckedInv'
    BY <1>1, <1>2 DEF CheckedInv, Below
  <1>6. KeptInv'
    BY <1>1, <1>2, <1>3 DEF KeptInv, CheckedInv, Moves
  <1>7. GoneOrReported'
    BY <1>1 DEF GoneOrReported
  <1>8. ChangesOnlyNamed'
    BY <1>1, <1>3, ChangedStep
  <1> QED
    BY <1>4, <1>5, <1>6, <1>7, <1>8
-----------------------------------------------------------------------------
LEMMA StepDir ==
  ASSUME DirInv, [Next]_vars PROVE DirInv'
  <1>1. CASE MoveNext /\ UNCHANGED report
    BY <1>1, MoveKept
  <1>2. CASE Walk
    BY <1>2, CheckRootKept, WalkRootKept, PassFileKept, PassDirKept, WalkPopsKept, RemoveKept,
       PrintsKept, StatEntryKept DEF Walk
  <1>3. CASE Other
    BY <1>3, OtherCreatesKept, OtherDeletesKept DEF Other
  <1>4. CASE UNCHANGED vars
    <2>1. UNCHANGED <<fs, args, phase, stack, copying, copy_failures, warns, before, entry, gone>>
      BY <1>4 DEF vars, moving, report
    <2>2. UNCHANGED <<opt, source, dest, base, exts>>
      BY <2>1 DEF opt, source, dest, base, exts
    <2>3. WalkInv'
      BY <2>1, <2>2 DEF DirInv, WalkInv, StackInv, Below
    <2>4. CheckedInv'
      BY <2>1, <2>2 DEF DirInv, CheckedInv, Below
    <2>5. KeptInv'
      <3>1. Lands(copying)' = Lands(copying)
        BY <2>1, LandsAs DEF Links
      <3> QED
        BY <2>1, <2>2, <3>1 DEF DirInv, KeptInv, Exists
    <2>6. GoneOrReported'
      BY <2>1, <2>2 DEF DirInv, GoneOrReported, Exists
    <2>7. ChangesOnlyNamed'
      BY <2>1, NamedSame DEF DirInv
    <2> QED
      BY <2>3, <2>4, <2>5, <2>6, <2>7 DEF DirInv
  <1> QED
    BY <1>1, <1>2, <1>3, <1>4 DEF Next

\* The walks stay in the source, main's checks hold while they go on, and what they
\* find is what was there (nftw, path_is_under_home, mkdirs_for_path).
THEOREM DirCorrect == Spec => []DirInv
  <1>1. Init => DirInv
    BY InitDir
  <1>2. DirInv /\ [Next]_vars => DirInv'
    BY StepDir
  <1> QED
    BY <1>1, <1>2, PTL DEF Spec

\* When -dmove says "source removed", the source is gone or a failure was reported
\* (delete_one_path, FTW_DEPTH).
THEOREM GoneCorrect == Spec => []GoneOrReported
  <1>1. DirInv => GoneOrReported
    BY DEF DirInv
  <1> QED
    BY <1>1, DirCorrect, PTL

\* Whatever the options and however many calls fail, no node changes but those the
\* command names; these are below HOME, but for what links below destination_dir/<base>
\* lead to (path_is_under_home, mkdirs_for_path, open of the copy).
THEOREM NamedCorrect == Spec => []ChangesOnlyNamed
  <1>1. DirInv => ChangesOnlyNamed
    BY DEF DirInv
  <1> QED
    BY <1>1, DirCorrect, PTL

-----------------------------------------------------------------------------
(* What -copyd has copied when it is done.                                 *)

\* The walk has still to come to p.
Pending(p) ==
    /\ phase = "copy"
    /\ \/ stack = <<>> /\ copying = <<>>
       \/ copying = p
       \/ \E i \in DOMAIN stack : \E q \in stack[i].must : Below(p, q)

Copying == opt = "copyd" /\ phase \in {"copy", "done"}

\* A failure counted for every file that is neither copied nor still to come.
CountedInv ==
    \E Bad \in SUBSET Files :
        /\ IsFiniteSet(Bad) /\ Cardinality(Bad) =< copy_failures
        /\ \A p \in Files : Hidden(p) \/ CopiedWell(p) \/ p \in Bad \/ Pending(p)

\* Where no file is copied over another, those to copy stay as they were.
CopyInv ==
    /\ phase = "args" => stack = <<>>
    /\ Copying /\ Apart => /\ \A p \in Files : Exists(p) /\ fs[p] = before[p]
                           /\ CountedInv

\* The regular files below source_dir, now.
Sources == {p \in DOMAIN fs : Below(p, source) /\ IsReg(fs[p])}

LEMMA ApartIs ==
  Apart <=> \A p \in Sources : Lands(p) \notin Files /\ \A q \in Sources : q # p => Lands(q) # Lands(p)
  BY DEF Apart, Sources

\* The files only become more: what is apart was apart.
LEMMA ApartBack ==
  ASSUME UNCHANGED <<args, before>>, Links' = Links, Apart',
         \A p \in DOMAIN fs : p \in DOMAIN fs' /\ fs'[p].kind = fs[p].kind
  PROVE  Apart
  <1>1. source' = source /\ Files' = Files
    BY DEF source, Files, Below
  <1>2. Sources \subseteq Sources'
    BY <1>1 DEF Sources, IsReg, Below
  <1>3. \A p : Lands(p)' = Lands(p)
    BY LandsSame
  <1>4. \A p \in Sources' : Lands(p) \notin Files /\ \A q \in Sources' : q # p => Lands(q) # Lands(p)
    <2>1. \A p \in Sources' : /\ Lands(p)' \notin Files'
                              /\ \A q \in Sources' : q # p => Lands(q)' # Lands(p)'
      BY DEF Apart, Sources
    <2> QED
      BY <1>1, <1>3, <2>1
  <1> QED
    BY <1>2, <1>4, ApartIs

LEMMA WellSame ==
  ASSUME UNCHANGED <<args, before>>, Links' = Links, NEW p, CopiedWell(p),
         \A q \in DOMAIN fs : q \in DOMAIN fs' /\ fs'[q] = fs[q]
  PROVE  CopiedWell(p)'
  <1>1. Lands(p)' = Lands(p)
    BY LandsSame
  <1> QED
    BY <1>1 DEF CopiedWell, Exists

\* A directory that cannot be read hides what is below it.
LEMMA HiddenAt ==
  ASSUME source \in Paths, NEW p \in Paths, NEW q \in Paths, Below(p, q), Below(q, source),
         q \in DOMAIN before, before[q].kind = "locked"
  PROVE  Hidden(p)
  <1>1. SubSeq(p, 1, Len(q)) = q /\ Len(q) \in 0 .. Len(p) /\ Len(source) \in 0 .. Len(q)
    BY BelowStarts DEF Paths
  <1>2. Len(q) \in Len(source) .. Len(p)
    BY <1>1, PathNames
  <1> QED
    BY <1>1, <1>2 DEF Hidden

\* A path below a directory is below one of its entries.
LEMMA EntryAbove ==
  ASSUME NEW p \in Paths, Upward(p) \subseteq DOMAIN fs, NEW d \in Paths, Below(p, d), p # d
  PROVE  \E q \in Entries(d) : Below(p, q)
  <1>1. p \in Paths /\ Len(p) \in Nat /\ Len(d) \in Nat
    BY PathNames
  <1>2. Len(d) =< Len(p) /\ \A i \in 1 .. Len(d) : d[i] = p[i]
    BY <1>1, PrefixDef DEF Below, Paths
  <1>3. Len(d) # Len(p)
    BY <1>1, <1>2, SeqEqual DEF Paths
  <1>4. Len(d) + 1 \in 0 .. Len(p) /\ Len(d) + 1 \in 1 .. Len(p)
    BY <1>1, <1>2, <1>3
  <1> DEFINE q == SubSeq(p, 1, Len(d) + 1)
  <1>5. /\ q \in Paths /\ Len(q) = Len(d) + 1 /\ Below(p, q)
        /\ \A i \in 1 .. Len(d) + 1 : q[i] = p[i]
    BY <1>1, <1>4, StartOf DEF Paths
  <1> HIDE DEF q
  <1>6. Below(q, d)
    <2>1. Len(d) =< Len(q) /\ \A i \in 1 .. Len(d) : d[i] = q[i]
      BY <1>1, <1>2, <1>5
    <2> QED
      BY <1>5, <2>1, PrefixDef DEF Below, Paths
  <1>7. q \in Upward(p)
    BY <1>1, <1>5, UpwardOf
  <1> QED
    BY <1>5, <1>6, <1>7 DEF Entries

\* A step of the copy that changes no node but the copy of x.
LEMMA CountedStep ==
  ASSUME WalkInv, CopyInv, Copying, Apart, UNCHANGED <<args, before>>,
         NEW x \in Paths, Written,
         \A q \in DOMAIN fs : fs'[q] = fs[q] \/ (x \in Sources /\ q = Lands(x)),
         copy_failures' = copy_failures \/ copy_failures' = copy_failures + 1,
         x \in Files /\ CopiedWell(x) =>
             CopiedWell(x)' \/ Pending(x)' \/ copy_failures' = copy_failures + 1,
         \A p \in Files : ~ Hidden(p) /\ Pending(p) =>
             Pending(p)' \/ CopiedWell(p)' \/ (p = x /\ copy_failures' = copy_failures + 1)
  PROVE  CountedInv'
  <1>1. UNCHANGED <<source, dest, base>> /\ Files' = Files
    BY DEF source, dest, base, Files, Below
  <1>a. CountedInv /\ \A p \in Files : Exists(p) /\ fs[p] = before[p]
    BY DEF CopyInv
  <1>2. PICK Bad \in SUBSET Files :
          /\ IsFiniteSet(Bad) /\ Cardinality(Bad) =< copy_failures
          /\ \A p \in Files : Hidden(p) \/ CopiedWell(p) \/ p \in Bad \/ Pending(p)
    BY <1>a DEF CountedInv
  <1>3. Cardinality(Bad) \in Nat /\ copy_failures \in Nat
    BY <1>2, FS_CardinalityType DEF WalkInv
  <1>5. ASSUME NEW p \in Files, p # x, CopiedWell(p) PROVE CopiedWell(p)'
    <2>1. p \in Sources
      BY <1>a DEF Files, Sources, Exists
    <2>2. Lands(p)' = Lands(p)
      BY WrittenLinks, LandsSame
    <2>3. Lands(p) \in DOMAIN fs /\ ~ (x \in Sources /\ Lands(p) = Lands(x))
      BY <1>5, <2>1, ApartIs DEF CopiedWell, Exists
    <2>4. Lands(p) \in DOMAIN fs' /\ fs'[Lands(p)] = fs[Lands(p)]
      BY <2>3 DEF Written
    <2> QED
      BY <1>5, <2>2, <2>4 DEF CopiedWell, Exists
  <1>6. \A p \in Files : Hidden(p)' = Hidden(p)
    BY <1>1 DEF Hidden
  <1>7. ASSUME NEW p \in Files
        PROVE  \/ Hidden(p) \/ p \in Bad \/ CopiedWell(p)' \/ Pending(p)'
               \/ p = x /\ copy_failures' = copy_failures + 1
    BY <1>2, <1>5, <1>7
  <1>8. CASE copy_failures' = copy_failures
    <2>1. \A p \in Files : Hidden(p) \/ p \in Bad \/ CopiedWell(p)' \/ Pending(p)'
      BY <1>3, <1>7, <1>8
    <2> QED
      BY <1>1, <1>2, <1>6, <1>8, <2>1 DEF CountedInv
  <1>9. CASE copy_failures' = copy_failures + 1
    <2> DEFINE B == (Bad \union {x}) \intersect Files
    <2>1. /\ IsFiniteSet(Bad \union {x}) /\ Cardinality(Bad \union {x}) =< copy_failures + 1
      <3>1. /\ IsFiniteSet(Bad \union {x})
            /\ Cardinality(Bad \union {x}) = IF x \in Bad THEN Cardinality(Bad)
                                             ELSE Cardinality(Bad) + 1
        BY <1>2, FS_AddElement
      <3> HIDE DEF B
      <3> QED
        BY <1>2, <1>3, <3>1
    <2>2. /\ IsFiniteSet(B) /\ Cardinality(B) =< Cardinality(Bad \union {x})
      BY <2>1, FS_Subset
    <2>3. Cardinality(B) \in Nat /\ Cardinality(Bad \union {x}) \in Nat
      BY <2>1, <2>2, FS_CardinalityType
    <2>4. Cardinality(B) =< copy_failures'
      BY <1>3, <1>9, <2>1, <2>2, <2>3
    <2>5. \A p \in Files : Hidden(p) \/ p \in B \/ CopiedWell(p)' \/ Pending(p)'
      BY <1>7
    <2> HIDE DEF B
    <2>6. B \in SUBSET Files
      BY DEF B
    <2> QED
      BY <1>1, <1>6, <2>2, <2>4, <2>5, <2>6 DEF CountedInv
  <1> QED
    BY <1>8, <1>9

LEMMA CopyInvStep ==
  ASSUME CopyInv, Copying, Apart, phase' \in {"copy", "done"}, UNCHANGED <<args, before>>,
         NEW x, Written, CountedInv',
         \A q \in DOMAIN fs : fs'[q] = fs[q] \/ (x \in Sources /\ q = Lands(x))
  PROVE  CopyInv'
  <1>1. Files' = Files
    BY DEF source, Files, Below
  <1>2. ASSUME NEW p \in Files PROVE p \in DOMAIN fs' /\ fs'[p] = before[p]
    <2>1. p \in DOMAIN fs /\ fs[p] = before[p]
      BY DEF CopyInv, Exists
    <2>2. ~ (x \in Sources /\ p = Lands(x))
      BY ApartIs
    <2> QED
      BY <2>1, <2>2 DEF Written
  <1> QED
    BY <1>1, <1>2 DEF CopyInv, Exists

\* The files to copy are as they were, and so are the directories on the way to them.
LEMMA FilesFacts ==
  ASSUME DirInv, CopyInv, Apart, opt = "copyd", phase = "copy"
  PROVE  /\ source \in Paths /\ source # <<>> /\ dest \in Paths
         /\ \A q \in DOMAIN before : Exists(q)
         /\ \A p \in Files :
              /\ p \in Paths /\ Below(p, source) /\ p \in DOMAIN before /\ p # <<>>
              /\ Exists(p) /\ fs[p] = before[p] /\ fs[p].kind \in {"file", "unread"}
         /\ \A p \in Files : \A q \in Paths :
              ~ Hidden(p) /\ Below(p, q) /\ Below(q, source) /\ q # p =>
                  Exists(q) /\ fs[q].kind = "dir"
  <1> USE DEF DirInv
  <1>1. /\ source \in Paths /\ source # <<>> /\ dest \in Paths
        /\ \A q \in DOMAIN before : Exists(q)
        /\ \A q \in DOMAIN before : before[q].kind \in Dirs => fs[q].kind = before[q].kind
    BY Given, CopyFacts DEF Moves, KeptInv
  <1>3. ASSUME NEW p \in Files
        PROVE  /\ p \in Paths /\ Below(p, source) /\ p \in DOMAIN before /\ p # <<>>
               /\ Exists(p) /\ fs[p] = before[p] /\ fs[p].kind \in {"file", "unread"}
    <2>1. p \in Paths /\ Below(p, source) /\ p \in DOMAIN before
      BY Given DEF Files
    <2>2. Len(source) =< Len(p)
      BY <1>1, <2>1, PrefixDef DEF Below, Paths
    <2>3. Len(source) \in Nat \ {0} /\ Len(p) \in Nat
      BY <1>1, <2>1, PathNames, EmptySeq DEF Paths
    <2>4. Len(p) # 0
      BY <2>2, <2>3
    <2>5. p # <<>>
      BY <2>4
    <2>6. Exists(p) /\ fs[p] = before[p]
      BY DEF CopyInv, Copying
    <2> QED
      BY <2>1, <2>5, <2>6 DEF Files, IsReg
  <1>4. ASSUME NEW p \in Files, NEW q \in Paths, ~ Hidden(p), Below(p, q), Below(q, source), q # p
        PROVE  Exists(q) /\ fs[q].kind = "dir"
    <2>1. p \in Paths /\ p \in DOMAIN before
      BY <1>3
    <2>2. Len(source) =< Len(q)
      BY <1>1, <1>4, PrefixDef DEF Below, Paths
    <2>3. Len(source) \in Nat \ {0} /\ Len(q) \in Nat
      BY <1>1, PathNames, EmptySeq DEF Paths
    <2>4. q \in Upward(p)
      BY <1>4, <2>1, <2>2, <2>3, UpwardOf
    <2>5. q \in DOMAIN before /\ before[q].kind \in Dirs
      BY <1>4, <2>1, <2>4, Given
    <2>6. before[q].kind # "locked"
      BY <1>1, <1>4, <2>1, <2>5, HiddenAt
    <2> QED
      BY <1>1, <2>5, <2>6 DEF Dirs
  <1> QED
    BY <1>1, <1>3, <1>4

\* An entry is passed: what was still to come is below it, or still to come.
LEMMA PendingPassed ==
  ASSUME StackInv, stack # <<>>, copying = <<>>, NEW x \in Paths, NEW p, p # <<>>, Pending(p)
  PROVE  \/ Below(p, x)
         \/ \E i \in DOMAIN Mark(x) : \E q \in Mark(x)[i].must : Below(p, q)
  <1>1. PICK i \in DOMAIN stack : \E q \in stack[i].must : Below(p, q)
    BY DEF Pending
  <1>2. PICK q \in stack[i].must : Below(p, q)
    BY <1>1
  <1>3. i \in DOMAIN Mark(x) /\ (Mark(x)[i].must = stack[i].must \ {x} \/ Mark(x)[i].must = stack[i].must)
    BY MarkKept
  <1>4. CASE q = x
    BY <1>2, <1>4
  <1>5. CASE q # x
    BY <1>2, <1>3, <1>5
  <1> QED
    BY <1>4, <1>5

\* Every directory that is opened has all that is to come below it among its entries.
LEMMA PendingEntered ==
  ASSUME DirInv, CopyInv, Apart, opt = "copyd", phase = "copy", phase' = "copy",
         NEW d \in DOMAIN fs, Below(d, source), fs[d].kind = "dir",
         NEW st \in Seq(Frames), stack' = Append(st, Frame(d)), NEW p \in Files,
         Below(p, d) \/ \E i \in DOMAIN st : \E q \in st[i].must : Below(p, q)
  PROVE  Pending(p)'
  <1>1. d \in Paths /\ WalkInv /\ \A q \in DOMAIN before : Exists(q)
    BY FilesFacts DEF DirInv, WalkInv
  <1>2. \A q \in Entries(d) : q \in Paths
    BY <1>1 DEF WalkInv, Entries
  <1>3. Frame(d) \in Frames
    BY <1>1, <1>2 DEF Frame, Frames
  <1>4. /\ stack' \in Seq(Frames) /\ Len(stack') = Len(st) + 1
        /\ \A i \in 1 .. Len(st) : stack'[i] = st[i]
        /\ stack'[Len(st) + 1] = Frame(d)
    BY <1>3, AppendProperties
  <1>5. Len(st) \in Nat /\ DOMAIN st = 1 .. Len(st) /\ DOMAIN stack' = 1 .. Len(st) + 1
    BY <1>4, LenProperties
  <1>6. \E i \in DOMAIN stack' : \E q \in stack'[i].must : Below(p, q)
    <2>1. CASE Below(p, d)
      <3>1. p \in DOMAIN before /\ p # d /\ p \in Paths
        BY FilesFacts
      <3>a. Upward(p) \subseteq DOMAIN fs
        BY <1>1, <3>1, Given DEF Exists
      <3>2. \E q \in Entries(d) : Below(p, q)
        BY <1>1, <2>1, <3>1, <3>a, EntryAbove
      <3>3. Len(st) + 1 \in DOMAIN stack' /\ stack'[Len(st) + 1].must = Entries(d)
        BY <1>4, <1>5 DEF Frame
      <3> QED
        BY <3>2, <3>3
    <2>2. CASE \E i \in DOMAIN st : \E q \in st[i].must : Below(p, q)
      <3>1. \A i \in DOMAIN st : i \in DOMAIN stack' /\ stack'[i] = st[i]
        BY <1>4, <1>5
      <3> QED
        BY <2>2, <3>1
    <2> QED
      BY <2>1, <2>2
  <1> QED
    BY <1>6 DEF Pending, Below

LEMMA CopyRootCounts ==
  ASSUME DirInv, CopyInv, Apart, opt = "copyd", CopyRoot PROVE CopyInv'
  <1> USE DEF DirInv
  <1>1. /\ phase = "copy" /\ phase' = "copy" /\ stack = <<>> /\ copying = <<>> /\ copying' = <<>>
        /\ UNCHANGED <<args, before>> /\ MakeDir(source) /\ stack' = Append(stack, Frame(source))
        /\ ~ Skips(source)
    BY DEF CopyRoot, CopyRunning, Push
  <1>2. source \in Paths /\ source # <<>> /\ Below(source, source)
    BY <1>1, FilesFacts, BelowSelf DEF Paths
  <1>3. /\ Written
        /\ copy_failures' = copy_failures \/ copy_failures' = copy_failures + 1
        /\ \A q \in DOMAIN fs : fs'[q] = fs[q]
    BY <1>1, <1>2, MakeDirWrites
  <1>4. source \in DOMAIN fs /\ fs[source].kind = "dir"
    <2>1. source \in DOMAIN before /\ before[source].kind \in Dirs
      BY <1>1 DEF CheckedInv, Moves
    <2> QED
      BY <1>1, <2>1 DEF KeptInv, Skips, Exists, Dirs
  <1>5. stack \in Seq(Frames)
    BY DEF WalkInv, StackInv
  <1>6. \A p \in Files : Pending(p)'
    BY <1>1, <1>2, <1>4, <1>5, FilesFacts, PendingEntered
  <1>7. CountedInv'
    <2>1. PICK x : x = source
      OBVIOUS
    <2>2. CopiedWell(x) => CopiedWell(x)'
      BY <1>1, <1>3, WrittenLinks, WellSame DEF Written
    <2> QED
      BY <1>1, <1>2, <1>3, <1>6, <2>1, <2>2, CountedStep DEF Copying
  <1> QED
    BY <1>1, <1>3, <1>7, CopyInvStep DEF Copying

LEMMA CopyDirCounts ==
  ASSUME DirInv, CopyInv, Apart, opt = "copyd", NEW x \in DOMAIN fs, CopyDir(x) PROVE CopyInv'
  <1> USE DEF DirInv
  <1>1. /\ phase = "copy" /\ phase' = "copy" /\ copying = <<>> /\ copying' = <<>> /\ Visit(x)
        /\ UNCHANGED <<args, before>> /\ MakeDir(x) /\ stack' = Append(Mark(x), Frame(x))
        /\ fs[x].kind = "dir"
    BY DEF CopyDir, CopyRunning, Visit, Entered
  <1>2. x \in Paths /\ Below(x, source) /\ stack # <<>> /\ source # <<>> /\ StackInv
    BY <1>1, VisitBelow, FilesFacts DEF WalkInv
  <1>3. /\ Written
        /\ copy_failures' = copy_failures \/ copy_failures' = copy_failures + 1
        /\ \A q \in DOMAIN fs : fs'[q] = fs[q]
    BY <1>1, <1>2, MakeDirWrites
  <1>4. Mark(x) \in Seq(Frames)
    BY <1>2, MarkKept
  <1>5. ASSUME NEW p \in Files, Pending(p) PROVE Pending(p)'
    <2>1. p # <<>>
      BY <1>1, FilesFacts
    <2>2. Below(p, x) \/ \E i \in DOMAIN Mark(x) : \E q \in Mark(x)[i].must : Below(p, q)
      BY <1>1, <1>2, <1>5, <2>1, PendingPassed
    <2> QED
      BY <1>1, <1>2, <1>4, <2>2, PendingEntered
  <1>6. CopiedWell(x) => CopiedWell(x)'
    BY <1>1, <1>3, WrittenLinks, WellSame DEF Written
  <1>7. CountedInv'
    BY <1>1, <1>2, <1>3, <1>5, <1>6, CountedStep DEF Copying
  <1> QED
    BY <1>1, <1>3, <1>7, CopyInvStep DEF Copying

\* What the walk passes by was no file of the start, nor a directory above one.
LEMMA CopySkipsCounts ==
  ASSUME DirInv, CopyInv, Apart, opt = "copyd", NEW x \in DOMAIN fs, CopySkips(x) PROVE CopyInv'
  <1> USE DEF DirInv
  <1>1. /\ phase = "copy" /\ phase' = "copy" /\ copying = <<>> /\ copying' = <<>> /\ Visit(x)
        /\ UNCHANGED <<args, before, fs>> /\ stack' = Mark(x)
        /\ copy_failures' = copy_failures \/ copy_failures' = copy_failures + 1
        /\ Skips(x) \/ fs[x].kind \in {"link", "fifo"}
    BY SkipsFacts DEF CopySkips, CopyRunning, Visit, Passed
  <1>2. x \in Paths /\ Below(x, source) /\ stack # <<>> /\ source # <<>> /\ StackInv
    BY <1>1, VisitBelow, FilesFacts DEF WalkInv
  <1>3. ASSUME NEW p \in Files, ~ Hidden(p), Pending(p) PROVE Pending(p)'
    <2>1. p # <<>> /\ Exists(p) /\ fs[p].kind \in {"file", "unread"}
      BY <1>1, FilesFacts
    <2>2. ~ Below(p, x)
      <3> SUFFICES ASSUME Below(p, x) PROVE FALSE
        OBVIOUS
      <3>1. CASE x = p
        BY <1>1, <2>1, <3>1 DEF Skips
      <3>2. CASE x # p
        <4>1. Exists(x) /\ fs[x].kind = "dir"
          BY <1>1, <1>2, <1>3, <3>2, FilesFacts
        <4> QED
          BY <1>1, <4>1 DEF Skips
      <3> QED
        BY <3>1, <3>2
    <2>3. \E i \in DOMAIN stack' : \E q \in stack'[i].must : Below(p, q)
      BY <1>1, <1>2, <1>3, <2>1, <2>2, PendingPassed
    <2> QED
      BY <1>1, <2>3 DEF Pending, Below
  <1>5. Written
    BY <1>1, SameWritten
  <1>4. CopiedWell(x) => CopiedWell(x)'
    BY <1>1, <1>5, WrittenLinks, WellSame
  <1>6. CountedInv'
    BY <1>1, <1>2, <1>3, <1>4, <1>5, CountedStep DEF Copying
  <1> QED
    BY <1>1, <1>5, <1>6, CopyInvStep DEF Copying

LEMMA CopyOpenCounts ==
  ASSUME DirInv, CopyInv, Apart, opt = "copyd", NEW x \in DOMAIN fs, CopyOpen(x) PROVE CopyInv'
  <1> USE DEF DirInv
  <1>1. /\ phase = "copy" /\ phase' = "copy" /\ copying = <<>> /\ Visit(x)
        /\ UNCHANGED <<args, before>> /\ stack' = Mark(x)
        /\ fs[x].kind \in {"file", "unread"}
    BY DEF CopyOpen, CopyRunning, Visit, Passed, IsReg
  <1>2. x \in Paths /\ Below(x, source) /\ stack # <<>> /\ source # <<>> /\ StackInv
    BY <1>1, VisitBelow, FilesFacts DEF WalkInv
  <1>3. /\ Written
        /\ \A q \in DOMAIN fs : q # Lands(x) => fs'[q] = fs[q]
        /\ \/ copying' = x /\ copy_failures' = copy_failures
           \/ copying' = <<>> /\ copy_failures' = copy_failures + 1
    BY CopyOpenWrites
  <1>a. x \in Sources
    BY <1>1, <1>2 DEF Sources, IsReg
  <1>4. ASSUME NEW p \in Files, ~ Hidden(p), Pending(p)
        PROVE  Pending(p)' \/ (p = x /\ copy_failures' = copy_failures + 1)
    <2>1. p # <<>>
      BY <1>1, FilesFacts
    <2>2. CASE \E i \in DOMAIN stack' : \E q \in stack'[i].must : Below(p, q)
      BY <1>1, <2>2 DEF Pending, Below
    <2>3. CASE Below(p, x)
      <3>1. x = p
        <4> SUFFICES ASSUME x # p PROVE FALSE
          OBVIOUS
        <4>1. fs[x].kind = "dir"
          BY <1>1, <1>2, <1>4, <2>3, FilesFacts
        <4> QED
          BY <1>1, <4>1
      <3> QED
        BY <1>1, <1>3, <3>1 DEF Pending
    <2> QED
      BY <1>1, <1>2, <1>4, <2>1, <2>2, <2>3, PendingPassed
  <1>5. Pending(x)' \/ copy_failures' = copy_failures + 1
    BY <1>1, <1>3 DEF Pending
  <1>6. CountedInv'
    BY <1>1, <1>2, <1>3, <1>4, <1>5, <1>a, CountedStep DEF Copying
  <1> QED
    BY <1>1, <1>3, <1>6, <1>a, CopyInvStep DEF Copying

LEMMA CopyDataCounts ==
  ASSUME DirInv, CopyInv, Apart, opt = "copyd", CopyData PROVE CopyInv'
  <1> USE DEF DirInv
  <1>0. PICK x : x = copying
    OBVIOUS
  <1> DEFINE dst == Lands(x)
  <1>1. /\ phase = "copy" /\ phase' = "copy" /\ x # <<>> /\ copying' = <<>>
        /\ UNCHANGED <<args, before, stack>>
    BY <1>0 DEF CopyData, CopyDataWith, CopyRunning
  <1>2. x \in Paths /\ Below(x, source) /\ source # <<>>
    BY <1>0, <1>1, FilesFacts DEF WalkInv
  <1>3. /\ Written
        /\ \A q \in DOMAIN fs : q # dst => fs'[q] = fs[q]
        /\ \/ copy_failures' = copy_failures /\ fs'[dst].data = fs[x].data
           \/ copy_failures' = copy_failures + 1
    BY <1>0, CopyDataWrites
  <1>4. dst' = dst
    BY <1>1, <1>3, WrittenLinks, LandsSame
  <1>a. x \in Sources /\ dst \in DOMAIN fs /\ IsReg(fs[dst])
    BY <1>0, <1>1, <1>2 DEF KeptInv, Sources, Exists
  <1>b. dst \in DOMAIN fs' /\ IsReg(fs'[dst])
    BY <1>3, <1>a DEF Written, IsReg
  <1> HIDE DEF dst
  <1>5. ASSUME x \in Files PROVE CopiedWell(x)' \/ copy_failures' = copy_failures + 1
    <2>1. fs[x] = before[x]
      BY <1>1, <1>5, FilesFacts
    <2> QED
      BY <1>1, <1>3, <1>4, <1>b, <2>1 DEF CopiedWell, Exists, dst
  <1>6. ASSUME NEW p \in Files, Pending(p)
        PROVE  Pending(p)' \/ CopiedWell(p)' \/ (p = x /\ copy_failures' = copy_failures + 1)
    <2>1. CASE p = x
      BY <1>5, <2>1
    <2>2. CASE \E i \in DOMAIN stack : \E q \in stack[i].must : Below(p, q)
      BY <1>1, <2>2 DEF Pending, Below
    <2> QED
      BY <1>0, <1>1, <1>6, <2>1, <2>2 DEF Pending
  <1>7. CountedInv'
    BY <1>1, <1>2, <1>3, <1>5, <1>6, <1>a, CountedStep DEF dst, Copying
  <1> QED
    BY <1>1, <1>3, <1>7, <1>a, CopyInvStep DEF Copying, dst

LEMMA CopyPopsCounts ==
  ASSUME DirInv, CopyInv, Apart, opt = "copyd", CopyPops PROVE CopyInv'
  <1> USE DEF DirInv
  <1>1. /\ phase = "copy" /\ phase' = IF stack' = <<>> THEN "done" ELSE "copy"
        /\ copying = <<>> /\ copying' = <<>> /\ stack # <<>> /\ Top.must = {}
        /\ stack' = SubSeq(stack, 1, Len(stack) - 1)
        /\ UNCHANGED <<args, before, fs, copy_failures>>
    BY DEF CopyPops, Pop, AfterCopy
  <1>2. source \in Paths /\ Below(source, source) /\ source # <<>>
    BY <1>1, FilesFacts, BelowSelf DEF Paths
  <1>3. /\ stack \in Seq(Frames) /\ Len(stack) \in Nat /\ Len(stack) # 0
        /\ DOMAIN stack = 1 .. Len(stack)
    BY <1>1, EmptySeq, LenProperties DEF WalkInv, StackInv
  <1>4. /\ stack' \in Seq(Frames) /\ Len(stack') = Len(stack) - 1
        /\ \A i \in 1 .. Len(stack) - 1 : stack'[i] = stack[i]
    <2>1. Len(stack) - 1 \in 0 .. Len(stack)
      BY <1>3
    <2> QED
      BY <1>1, <1>3, <2>1, StartOf
  <1>5. DOMAIN stack' = 1 .. Len(stack) - 1
    BY <1>4, LenProperties
  <1>6. ASSUME NEW p \in Files, Pending(p) PROVE Pending(p)'
    <2>1. p # <<>>
      BY <1>1, FilesFacts
    <2>2. PICK i \in DOMAIN stack : \E q \in stack[i].must : Below(p, q)
      BY <1>1, <1>6, <2>1 DEF Pending
    <2>3. i # Len(stack)
      BY <1>1, <2>2 DEF Top
    <2>4. i \in DOMAIN stack' /\ stack'[i] = stack[i]
      BY <1>3, <1>4, <1>5, <2>3
    <2>5. stack' # <<>>
      BY <2>4
    <2> QED
      BY <1>1, <2>2, <2>4, <2>5 DEF Pending, Below
  <1>a. PICK x : x = source
    OBVIOUS
  <1>8. Written
    BY <1>1, SameWritten
  <1>7. CopiedWell(x) => CopiedWell(x)'
    BY <1>1, <1>8, WrittenLinks, WellSame
  <1>9. CountedInv'
    BY <1>1, <1>2, <1>6, <1>7, <1>8, <1>a, CountedStep DEF Copying
  <1> QED
    BY <1>1, <1>8, <1>9, CopyInvStep DEF Copying

\* source_dir that cannot be opened hides everything.
LEMMA CopyNothingCounts ==
  ASSUME DirInv, CopyInv, Apart, opt = "copyd", CopyNothing PROVE CopyInv'
  <1> USE DEF DirInv
  <1>1. /\ phase = "copy" /\ phase' = "done" /\ copying' = <<>> /\ Skips(source)
        /\ UNCHANGED <<args, before, fs>> /\ copy_failures' \in Nat
    BY SkipsFacts DEF CopyNothing, AfterCopy
  <1>2. source \in Paths /\ source # <<>>
    BY <1>1, FilesFacts
  <1>3. ASSUME NEW p \in Files PROVE Hidden(p)
    <2>1. p \in Paths /\ Below(p, source) /\ fs[p].kind \in {"file", "unread"} /\ Exists(p)
      BY <1>1, FilesFacts
    <2>2. p # source
      BY <1>1, <2>1 DEF Skips
    <2>3. ~ (Exists(source) /\ fs[source].kind = "dir")
      BY <1>1 DEF Skips
    <2>4. Below(source, source)
      BY <1>2, BelowSelf DEF Paths
    <2> QED
      BY <1>1, <1>2, <2>1, <2>2, <2>3, <2>4, FilesFacts
  <1>4. Written
    BY <1>1, SameWritten
  <1>5. CountedInv'
    <2>1. Files' = Files /\ \A p \in Files : Hidden(p)'
      BY <1>1, <1>3 DEF Files, Hidden, source, Below
    <2> DEFINE B == {}
    <2>3. B \in SUBSET Files /\ IsFiniteSet(B) /\ Cardinality(B) =< copy_failures'
      BY <1>1, FS_EmptySet
    <2> HIDE DEF B
    <2> QED
      BY <2>1, <2>3 DEF CountedInv
  <1> QED
    BY <1>1, <1>4, <1>5, CopyInvStep DEF Copying

\* The walk begins, and all is still to come.
LEMMA CheckDirsCounts ==
  ASSUME DirInv, CopyInv, CheckDirs PROVE CopyInv'
  <1> USE DEF DirInv
  <1>1. /\ phase = "args" /\ phase' \in {"copy", "refused"} /\ fs = before
        /\ stack' = <<>> /\ copying' = <<>>
        /\ UNCHANGED <<args, before, fs, copy_failures>>
    BY DEF CheckDirs, CheckedInv, CopyInv, KeptInv
  <1>2. CASE phase' = "copy"
    <2>1. Files' = Files /\ \A p \in Files : Pending(p)'
      BY <1>1, <1>2 DEF Files, Pending, source, Below
    <2>2. copy_failures' \in Nat
      BY <1>1 DEF WalkInv
    <2> DEFINE B == {}
    <2>3. B \in SUBSET Files /\ IsFiniteSet(B) /\ Cardinality(B) =< copy_failures'
      BY <2>2, FS_EmptySet
    <2> HIDE DEF B
    <2>4. CountedInv'
      BY <2>1, <2>3 DEF CountedInv
    <2>5. \A p \in Files' : p \in DOMAIN fs' /\ fs'[p] = before'[p]
      BY <1>1, <2>1 DEF Files
    <2> QED
      BY <1>1, <1>2, <2>4, <2>5 DEF CopyInv, Exists
  <1>3. CASE phase' = "refused"
    BY <1>3 DEF CopyInv, Copying
  <1> QED
    BY <1>1, <1>2, <1>3

\* Another program makes a file where there was none.
LEMMA OtherCreatesCounts ==
  ASSUME DirInv, CopyInv, NEW p \in Extra, OtherCreates(p) PROVE CopyInv'
  <1> USE DEF DirInv
  <1>1. /\ phase \notin {"args", "done", "refused", "died"} /\ p \notin DOMAIN fs
        /\ p \notin DOMAIN before
        /\ UNCHANGED <<args, phase, stack, copying, copy_failures, before>>
        /\ DOMAIN fs' = DOMAIN fs \union {p} /\ \A q \in DOMAIN fs : fs'[q] = fs[q]
        /\ fs'[p].kind = "file"
    BY DEF OtherCreates, Running, Theirs, Exists, File
  <1>a. Links' = Links
    <2>1. {q \in DOMAIN fs' : fs'[q].kind = "link"} = {q \in DOMAIN fs : fs[q].kind = "link"}
      BY <1>1
    <2> QED
      BY <1>1, <2>1 DEF Links
  <1>2. UNCHANGED <<opt, source, dest, base, TheDir>>
    BY <1>1 DEF opt, source, dest, base, TheDir
  <1>3. /\ Files' = Files
        /\ \A q \in Files : Hidden(q)' = Hidden(q) /\ Pending(q)' = Pending(q)
        /\ \A q \in Files : CopiedWell(q) => CopiedWell(q)'
    <2>1. \A q \in Files : CopiedWell(q) => CopiedWell(q)'
      BY <1>1, <1>a, WellSame
    <2> QED
      BY <1>1, <1>2, <2>1 DEF Files, Hidden, Pending, Below
  <1>4. CountedInv => CountedInv'
    BY <1>1, <1>3 DEF CountedInv
  <1>5. Apart' => Apart
    BY <1>1, <1>a, ApartBack
  <1> QED
    BY <1>1, <1>2, <1>3, <1>4, <1>5 DEF CopyInv, Copying, Exists

\* The steps -copyd has no part in.
LEMMA NotCopying ==
  ASSUME CopyInv, phase' # "args", opt # "copyd", UNCHANGED args PROVE CopyInv'
  BY DEF CopyInv, Copying, opt

\* Every step of the copy.
LEMMA CopyWrites ==
  ASSUME DirInv, Copy
  PROVE  Written /\ UNCHANGED <<args, before>> /\ phase' # "args"
  <1> USE DEF DirInv
  <1>1. UNCHANGED <<args, before>> /\ phase = "copy" /\ phase' # "args"
    BY DEF Copy, CopyRoot, CopyNothing, CopyData, CopyDataWith, CopyPops, CopyDir,
       CopySkips, CopyOpen, CopyBlocks, CopyRunning, AfterCopy
  <1>2. CASE CopyRoot
    BY <1>1, <1>2, MakeDirWrites, Given DEF CopyRoot
  <1>3. CASE CopyNothing \/ CopyPops
    BY <1>1, <1>3, SameWritten DEF CopyNothing, CopyPops
  <1>4. CASE CopyData
    BY <1>1, <1>4, CopyDataWrites
  <1>5. ASSUME NEW p \in DOMAIN fs, CopyDir(p) \/ CopySkips(p) \/ CopyOpen(p) \/ CopyBlocks(p)
        PROVE  Written
    <2>1. CASE CopyDir(p)
      <3>1. p \in Paths
        BY DEF WalkInv
      <3> QED
        BY <1>1, <2>1, <3>1, MakeDirWrites DEF CopyDir
    <2>2. CASE CopySkips(p)
      BY <2>2, SameWritten DEF CopySkips
    <2> QED
      BY <1>5, <2>1, <2>2, CopyOpenWrites
  <1> QED
    BY <1>1, <1>2, <1>3, <1>4, <1>5 DEF Copy

LEMMA StepCopy ==
  ASSUME DirInv, CopyInv, [Next]_vars PROVE CopyInv'
  <1>1. CASE CheckDirs
    BY <1>1, CheckDirsCounts
  <1>2. CASE Copy
    <2>0. Written /\ UNCHANGED <<args, before>> /\ phase' # "args"
      BY <1>2, CopyWrites
    <2>1. CASE opt = "copyd" /\ Apart
      <3>1. ASSUME NEW p \in DOMAIN fs, CopyBlocks(p) PROVE CopyInv'
        <4>1. phase' = "stuck"
          BY <3>1 DEF CopyBlocks
        <4> QED
          BY <4>1 DEF CopyInv, Copying
      <3> QED
        BY <1>2, <2>1, <3>1, CopyRootCounts, CopyNothingCounts, CopyDataCounts, CopyPopsCounts,
           CopyDirCounts, CopySkipsCounts, CopyOpenCounts DEF Copy
    <2>2. CASE opt # "copyd"
      BY <2>0, <2>2, NotCopying
    <2>3. CASE ~ Apart
      <3>1. ~ Apart'
        BY <2>0, <2>3, WrittenLinks, ApartBack DEF Written
      <3> QED
        BY <2>0, <3>1 DEF CopyInv
    <2> QED
      BY <2>1, <2>2, <2>3
  <1>7. CASE WalkFails
    BY <1>7 DEF WalkFails, CopyInv, Copying
  <1>3. CASE Delete
    <2>1. phase = "delete" /\ phase' # "args" /\ UNCHANGED args
      BY <1>3 DEF Delete, DeleteRoot, Unlink, Rmdir, RmdirWith, DeleteDir, DeleteSkips, DeleteRunning
    <2>2. opt = "dmove"
      BY <2>1 DEF DirInv, CheckedInv
    <2> QED
      BY <2>1, <2>2, NotCopying
  <1>4. CASE Walk
    <2>1. /\ UNCHANGED args /\ phase' # "args"
          /\ phase \in {"start", "walk", "print"} \/ opt \in Reports \union {"remd"}
      BY <1>4, Zenon DEF Walk, CheckRoot, WalkRoot, PassFile, PassDir, WalkPops, M_REMD, Prints,
         StatEntry, Same, Back
    <2>2. opt # "copyd"
      BY <2>1, Walking DEF Reports
    <2> QED
      BY <2>1, <2>2, NotCopying
  <1>5. CASE Other
    <2>1. ASSUME NEW p, OtherDeletes(p) PROVE CopyInv'
      <3>1. opt # "copyd" /\ UNCHANGED args /\ phase' # "args"
        BY <2>1 DEF OtherDeletes, Theirs, Running
      <3> QED
        BY <3>1, NotCopying
    <2> QED
      BY <1>5, <2>1, OtherCreatesCounts DEF Other
  <1>6. CASE UNCHANGED vars
    <2>1. UNCHANGED <<fs, args, phase, stack, copying, copy_failures, before>>
      BY <1>6 DEF vars, moving
    <2>2. UNCHANGED <<opt, source, dest, base, TheDir>>
      BY <2>1 DEF opt, source, dest, base, TheDir
    <2>3. Links' = Links
      BY <2>1 DEF Links
    <2>4. /\ Files' = Files
          /\ \A q \in Files : Hidden(q)' = Hidden(q) /\ Pending(q)' = Pending(q)
          /\ \A q \in Files : CopiedWell(q) => CopiedWell(q)'
      <3>1. \A q \in Files : CopiedWell(q) => CopiedWell(q)'
        BY <2>1, <2>3, WellSame
      <3> QED
        BY <2>1, <2>2, <3>1 DEF Files, Hidden, Pending, Below
    <2>5. CountedInv => CountedInv'
      BY <2>1, <2>4 DEF CountedInv
    <2>6. Apart' => Apart
      BY <2>1, <2>3, ApartBack
    <2> QED
      BY <2>1, <2>2, <2>4, <2>5, <2>6 DEF CopyInv, Copying, Exists
  <1> QED
    BY <1>1, <1>2, <1>3, <1>4, <1>5, <1>6, <1>7 DEF Next, MoveNext

LEMMA CountedEnough ==
  ASSUME DirInv, CopyInv PROVE CopiedOrCounted
  <1> SUFFICES ASSUME phase = "done", opt = "copyd", Apart
               PROVE  Cardinality({p \in Files : ~ Hidden(p) /\ ~ CopiedWell(p)}) =< copy_failures
    BY DEF CopiedOrCounted
  <1>1. PICK Bad \in SUBSET Files :
          /\ IsFiniteSet(Bad) /\ Cardinality(Bad) =< copy_failures
          /\ \A p \in Files : Hidden(p) \/ CopiedWell(p) \/ p \in Bad \/ Pending(p)
    BY DEF CopyInv, Copying, CountedInv
  <1> DEFINE Lost == {p \in Files : ~ Hidden(p) /\ ~ CopiedWell(p)}
  <1>2. Lost \in SUBSET Bad
    BY <1>1 DEF Pending
  <1> HIDE DEF Lost
  <1>3. IsFiniteSet(Lost) /\ Cardinality(Lost) =< Cardinality(Bad)
    BY <1>1, <1>2, FS_Subset
  <1>4. Cardinality(Lost) \in Nat /\ Cardinality(Bad) \in Nat /\ copy_failures \in Nat
    BY <1>1, <1>3, FS_CardinalityType DEF DirInv, WalkInv
  <1>5. Cardinality(Lost) =< copy_failures
    BY <1>1, <1>3, <1>4
  <1> QED
    BY <1>5 DEF Lost

\* For all the files in directories that can be read that -copyd has not brought over
\* it has counted as many failures, or more (cb, copy_file_bytes), unless a file was
\* copied over another one of the source or of the copy.
THEOREM CopiedCorrect == Spec => []CopiedOrCounted
  <1>1. Init => CopyInv
    BY DEF Init, MoveInit, CopyInv, Copying
  <1>2. DirInv /\ CopyInv /\ [Next]_vars => CopyInv'
    BY StepCopy
  <1>3. DirInv /\ CopyInv => CopiedOrCounted
    BY CountedEnough
  <1> QED
    BY <1>1, <1>2, <1>3, DirCorrect, PTL DEF Spec
-----------------------------------------------------------------------------
(* The sum of the sizes of a set of files, one by one in any order.        *)

Pick(s) == CHOOSE x \in s : TRUE
SumAt(g, s) == IF s = {} THEN 0 ELSE g[s \ {Pick(s)}] + Size[Pick(s)]
Sums(g, U) == g \in [SUBSET U -> Nat] /\ \A s \in SUBSET U : g[s] = SumAt(g, s)
UpTo(U, n) == {s \in SUBSET U : Cardinality(s) =< n}

LEMMA PickOne ==
  ASSUME NEW U, IsFiniteSet(U), NEW s \in SUBSET U, s # {}
  PROVE  /\ Pick(s) \in s /\ IsFiniteSet(s) /\ Cardinality(s) \in Nat \ {0}
         /\ s \ {Pick(s)} \in SUBSET U /\ Cardinality(s \ {Pick(s)}) = Cardinality(s) - 1
  <1>1. Pick(s) \in s
    BY DEF Pick
  <1>2. IsFiniteSet(s) /\ Cardinality(s) \in Nat /\ Cardinality(s) # 0
    BY FS_Subset, FS_CardinalityType, FS_EmptySet
  <1>3. Cardinality(s \ {Pick(s)}) = Cardinality(s) - 1
    BY <1>1, <1>2, FS_RemoveElement
  <1> QED
    BY <1>1, <1>2, <1>3

LEMMA SumsUpTo ==
  ASSUME NEW U, IsFiniteSet(U), \A p \in U : Size[p] \in Nat, NEW n \in Nat
  PROVE  \E g \in [UpTo(U, n) -> Nat] : \A s \in UpTo(U, n) : g[s] = SumAt(g, s)
  <1> DEFINE Has(m) == \E g \in [UpTo(U, m) -> Nat] : \A s \in UpTo(U, m) : g[s] = SumAt(g, s)
             Bad == {m \in Nat : ~ Has(m)}
  <1>1. ASSUME Bad # {} PROVE FALSE
    <2>1. PICK m \in Bad : \A k \in Bad : m =< k
      <3>1. Bad \subseteq Nat
        OBVIOUS
      <3> HIDE DEF Bad
      <3> QED
        BY <1>1, <3>1, LeastIn
    <2>2. m \in Nat /\ ~ Has(m)
      OBVIOUS
    <2>3. CASE m = 0
      <3> DEFINE g == [s \in UpTo(U, 0) |-> 0]
      <3>1. \A s \in UpTo(U, 0) : s = {}
        BY FS_Subset, FS_EmptySet, FS_CardinalityType DEF UpTo
      <3>2. \A s \in UpTo(U, 0) : g[s] = SumAt(g, s)
        BY <3>1 DEF SumAt
      <3>3. g \in [UpTo(U, 0) -> Nat]
        OBVIOUS
      <3> QED
        BY <2>2, <2>3, <3>2, <3>3
    <2>4. CASE m # 0
      <3>1. m - 1 \in Nat /\ Has(m - 1)
        <4>1. m - 1 \in Nat /\ m - 1 < m
          BY <2>2, <2>4
        <4>2. m - 1 \notin Bad
          <5> HIDE DEF Bad
          <5> QED
            BY <2>1, <2>2, <4>1
        <4> QED
          BY <4>1, <4>2
      <3>2. PICK g \in [UpTo(U, m - 1) -> Nat] :
               \A s \in UpTo(U, m - 1) : g[s] = SumAt(g, s)
        BY <3>1
      <3> DEFINE h == [s \in UpTo(U, m) |-> IF s \in UpTo(U, m - 1) THEN g[s] ELSE SumAt(g, s)]
      <3>3. ASSUME NEW s \in UpTo(U, m), s # {}
            PROVE  /\ s \ {Pick(s)} \in UpTo(U, m - 1) /\ s \ {Pick(s)} \in UpTo(U, m)
                   /\ Pick(s) \in U
        <4>1. s \in SUBSET U /\ Cardinality(s) =< m
          BY DEF UpTo
        <4>2. /\ Pick(s) \in s /\ Cardinality(s) \in Nat \ {0} /\ s \ {Pick(s)} \in SUBSET U
              /\ Cardinality(s \ {Pick(s)}) = Cardinality(s) - 1
          BY <3>3, <4>1, PickOne
        <4>3. Cardinality(s \ {Pick(s)}) =< m - 1 /\ Cardinality(s \ {Pick(s)}) =< m
          BY <2>2, <4>1, <4>2
        <4> QED
          BY <4>1, <4>2, <4>3 DEF UpTo
      <3>4. ASSUME NEW s \in UpTo(U, m) PROVE SumAt(g, s) = SumAt(h, s) /\ SumAt(g, s) \in Nat
        <4>1. CASE s = {}
          BY <4>1 DEF SumAt
        <4>2. CASE s # {}
          <5>1. h[s \ {Pick(s)}] = g[s \ {Pick(s)}] /\ g[s \ {Pick(s)}] \in Nat
            BY <3>3, <4>2
          <5>2. Size[Pick(s)] \in Nat
            BY <3>3, <4>2
          <5> HIDE DEF h
          <5> QED
            BY <4>2, <5>1, <5>2 DEF SumAt
        <4> QED
          BY <4>1, <4>2
      <3>5. h \in [UpTo(U, m) -> Nat]
        BY <3>4
      <3>6. \A s \in UpTo(U, m) : h[s] = SumAt(h, s)
        <4>1. ASSUME NEW s \in UpTo(U, m) PROVE h[s] = SumAt(g, s)
          BY <3>2
        <4> HIDE DEF h
        <4> QED
          BY <3>4, <4>1
      <3> QED
        BY <2>2, <3>5, <3>6
    <2> QED
      BY <2>3, <2>4
  <1> QED
    BY <1>1

LEMMA SumsExist ==
  ASSUME NEW U, IsFiniteSet(U), \A p \in U : Size[p] \in Nat
  PROVE  \E g : Sums(g, U)
  <1> DEFINE n == Cardinality(U)
  <1>1. n \in Nat
    BY FS_CardinalityType
  <1>2. UpTo(U, n) = SUBSET U
    BY FS_Subset DEF UpTo
  <1> HIDE DEF n
  <1>3. PICK g \in [UpTo(U, n) -> Nat] : \A s \in UpTo(U, n) : g[s] = SumAt(g, s)
    BY <1>1, SumsUpTo
  <1> QED
    BY <1>2, <1>3 DEF Sums

\* Two sums of one set are the same.
LEMMA SumsAgree ==
  ASSUME NEW U, IsFiniteSet(U), NEW S \in SUBSET U, \A p \in U : Size[p] \in Nat,
         NEW g, NEW h, Sums(g, U), \A s \in SUBSET S : h[s] = SumAt(h, s)
  PROVE  h[S] = g[S]
  <1> DEFINE Bad == {Cardinality(s) : s \in {t \in SUBSET S : h[t] # g[t]}}
  <1>1. ASSUME Bad # {} PROVE FALSE
    <2>0. \A s \in SUBSET S : s \in SUBSET U /\ Cardinality(s) \in Nat
      BY FS_Subset, FS_CardinalityType
    <2>1. PICK m \in Bad : \A k \in Bad : m =< k
      <3>1. Bad \subseteq Nat
        BY <2>0
      <3> HIDE DEF Bad
      <3> QED
        BY <1>1, <3>1, LeastIn
    <2>2. PICK s \in SUBSET S : h[s] # g[s] /\ Cardinality(s) = m
      OBVIOUS
    <2>3. h[s] = SumAt(h, s) /\ g[s] = SumAt(g, s)
      BY <2>0 DEF Sums
    <2>4. s # {}
      BY <2>2, <2>3 DEF SumAt
    <2>5. /\ s \ {Pick(s)} \in SUBSET S /\ Cardinality(s) \in Nat \ {0}
          /\ Cardinality(s \ {Pick(s)}) = Cardinality(s) - 1
      BY <2>0, <2>4, PickOne
    <2>6. ~ (m =< Cardinality(s \ {Pick(s)}))
      BY <2>2, <2>5
    <2>7. h[s \ {Pick(s)}] = g[s \ {Pick(s)}]
      BY <2>1, <2>5, <2>6
    <2> QED
      BY <2>2, <2>3, <2>4, <2>7 DEF SumAt
  <1> QED
    BY <1>1

LEMMA BytesOf ==
  ASSUME NEW U, IsFiniteSet(U), NEW S \in SUBSET U, \A p \in U : Size[p] \in Nat,
         NEW g, Sums(g, U)
  PROVE  Bytes(S) = g[S]
  <1> DEFINE It(f) == [s \in SUBSET S |->
                         IF s = {} THEN 0
                         ELSE f[s \ {CHOOSE x \in s : TRUE}] + Size[CHOOSE x \in s : TRUE]]
             it == CHOOSE f : f = It(f)
             r == [s \in SUBSET S |-> g[s]]
  <1>1. Bytes(S) = it[S]
    BY DEF Bytes, FoldSet, MapThenFoldSet
  <1>2. r = It(r)
    <2>1. ASSUME NEW s \in SUBSET S, s # {} PROVE s \ {Pick(s)} \in SUBSET S
      OBVIOUS
    <2>2. \A s \in SUBSET S : g[s] = SumAt(g, s)
      BY DEF Sums
    <2> QED
      BY <2>1, <2>2 DEF SumAt, Pick
  <1>3. it = It(it)
    BY <1>2
  <1> HIDE DEF it
  <1>4. \A s \in SUBSET S : it[s] = SumAt(it, s)
    BY <1>3 DEF SumAt, Pick
  <1> QED
    BY <1>1, <1>4, SumsAgree

\* Any file may be the last to be added.
LEMMA SumLess ==
  ASSUME NEW U, IsFiniteSet(U), \A p \in U : Size[p] \in Nat, NEW g, Sums(g, U),
         NEW S \in SUBSET U, NEW y \in S
  PROVE  g[S] = g[S \ {y}] + Size[y]
  <1> DEFINE Wrong(s) == \E p \in s : g[s] # g[s \ {p}] + Size[p]
             Bad == {Cardinality(s) : s \in {t \in SUBSET U : Wrong(t)}}
  <1>1. ASSUME Bad # {} PROVE FALSE
    <2>0. \A s \in SUBSET U : Cardinality(s) \in Nat /\ g[s] \in Nat /\ g[s] = SumAt(g, s)
      BY FS_Subset, FS_CardinalityType DEF Sums
    <2>1. PICK m \in Bad : \A k \in Bad : m =< k
      <3>1. Bad \subseteq Nat
        BY <2>0
      <3> HIDE DEF Bad
      <3> QED
        BY <1>1, <3>1, LeastIn
    <2>2. PICK s \in SUBSET U : Wrong(s) /\ Cardinality(s) = m
      OBVIOUS
    <2>3. PICK p \in s : g[s] # g[s \ {p}] + Size[p]
      BY <2>2
    <2> DEFINE x == Pick(s)
    <2>4. /\ x \in s /\ Cardinality(s) \in Nat \ {0} /\ IsFiniteSet(s)
          /\ Cardinality(s \ {x}) = Cardinality(s) - 1
      BY <2>3, PickOne
    <2>5. g[s] = g[s \ {x}] + Size[x]
      BY <2>0, <2>3 DEF SumAt
    <2> HIDE DEF x
    <2>6. x # p
      BY <2>3, <2>5
    <2>7. Cardinality(s \ {p}) = Cardinality(s) - 1
      BY <2>4, FS_RemoveElement
    <2>8. ~ Wrong(s \ {x}) /\ ~ Wrong(s \ {p})
      <3>1. ~ (m =< Cardinality(s \ {x})) /\ ~ (m =< Cardinality(s \ {p}))
        BY <2>2, <2>4, <2>7
      <3>2. Cardinality(s \ {x}) \notin Bad /\ Cardinality(s \ {p}) \notin Bad
        <4> HIDE DEF Bad
        <4> QED
          BY <2>1, <3>1
      <3>3. s \ {x} \in SUBSET U /\ s \ {p} \in SUBSET U
        OBVIOUS
      <3> HIDE DEF Wrong
      <3> QED
        BY <3>2, <3>3
    <2>9. /\ g[s \ {x}] = g[(s \ {x}) \ {p}] + Size[p]
          /\ g[s \ {p}] = g[(s \ {p}) \ {x}] + Size[x]
      BY <2>4, <2>6, <2>8
    <2>10. (s \ {x}) \ {p} = (s \ {p}) \ {x} /\ (s \ {p}) \ {x} \in SUBSET U
      OBVIOUS
    <2>11. /\ g[(s \ {p}) \ {x}] \in Nat /\ Size[p] \in Nat /\ Size[x] \in Nat
      BY <2>0, <2>4, <2>10
    <2> DEFINE z == g[(s \ {p}) \ {x}]
    <2>12. g[s \ {x}] = z + Size[p] /\ g[s \ {p}] = z + Size[x] /\ z \in Nat
      BY <2>9, <2>10, <2>11
    <2> HIDE DEF z
    <2>13. g[s] = g[s \ {p}] + Size[p]
      BY <2>5, <2>11, <2>12
    <2> QED
      BY <2>3, <2>13
  <1> QED
    BY <1>1

LEMMA BytesNat ==
  ASSUME NEW S, IsFiniteSet(S), \A q \in S : Size[q] \in Nat
  PROVE  Bytes({}) = 0 /\ Bytes(S) \in Nat
  <1>1. PICK g : Sums(g, S)
    BY SumsExist
  <1>2. {} \in SUBSET S /\ S \in SUBSET S
    OBVIOUS
  <1>3. Bytes({}) = g[{}] /\ Bytes(S) = g[S]
    BY <1>1, <1>2, BytesOf
  <1>4. g[S] \in Nat
    BY <1>1, <1>2 DEF Sums
  <1>5. g[{}] = SumAt(g, {})
    BY <1>1, <1>2 DEF Sums
  <1> QED
    BY <1>3, <1>4, <1>5 DEF SumAt

\* What one file more adds to the sum.
LEMMA BytesAdd ==
  ASSUME NEW S, IsFiniteSet(S), NEW p, p \notin S, \A q \in S \union {p} : Size[q] \in Nat
  PROVE  Bytes(S \union {p}) = Bytes(S) + Size[p]
  <1> DEFINE U == S \union {p}
  <1>1. IsFiniteSet(U)
    BY FS_AddElement
  <1>2. PICK g : Sums(g, U)
    BY <1>1, SumsExist
  <1>3. S \in SUBSET U /\ U \in SUBSET U
    OBVIOUS
  <1>4. Bytes(S) = g[S] /\ Bytes(U) = g[U]
    <2> HIDE DEF U
    <2> QED
      BY <1>1, <1>2, <1>3, BytesOf DEF U
  <1>5. U \ {p} = S /\ p \in U
    OBVIOUS
  <1>6. g[U] = g[S] + Size[p]
    BY <1>1, <1>2, <1>3, <1>5, SumLess
  <1> QED
    BY <1>4, <1>6

\* A set of more files has no fewer bytes.
LEMMA BytesMore ==
  ASSUME NEW T, IsFiniteSet(T), \A q \in T : Size[q] \in Nat, NEW S \in SUBSET T
  PROVE  Bytes(S) =< Bytes(T) /\ Bytes(S) \in Nat /\ Bytes(T) \in Nat
  <1> DEFINE Bad == {Cardinality(T \ s) : s \in {t \in SUBSET T : ~ (Bytes(t) =< Bytes(T))}}
  <1>0. \A s \in SUBSET T : IsFiniteSet(s) /\ IsFiniteSet(T \ s) /\ Cardinality(T \ s) \in Nat
    BY FS_Subset, FS_Difference, FS_CardinalityType
  <1>1. \A s \in SUBSET T : Bytes(s) \in Nat
    BY <1>0, BytesNat
  <1>2. ASSUME Bad # {} PROVE FALSE
    <2>1. PICK m \in Bad : \A k \in Bad : m =< k
      <3>1. Bad \subseteq Nat
        BY <1>0
      <3> HIDE DEF Bad
      <3> QED
        BY <1>2, <3>1, LeastIn
    <2>2. PICK s \in SUBSET T : ~ (Bytes(s) =< Bytes(T)) /\ Cardinality(T \ s) = m
      OBVIOUS
    <2>3. s # T
      BY <1>1, <2>2
    <2>4. PICK p \in T : p \notin s
      BY <2>3
    <2> DEFINE t == s \union {p}
    <2>5. t \in SUBSET T /\ T \ t = (T \ s) \ {p} /\ p \in T \ s
      BY <2>4
    <2>a. Cardinality((T \ s) \ {p}) = m - 1 /\ m \in Nat
      BY <1>0, <2>2, <2>5, FS_RemoveElement
    <2>7. Bytes(t) = Bytes(s) + Size[p] /\ Size[p] \in Nat
      BY <1>0, <2>4, BytesAdd
    <2> HIDE DEF t
    <2>b. Cardinality(T \ t) = Cardinality((T \ s) \ {p})
      BY <2>5, Zenon
    <2>6. ~ (m =< Cardinality(T \ t))
      BY <2>a, <2>b
    <2>8. Bytes(t) =< Bytes(T)
      BY <2>1, <2>5, <2>6
    <2>9. Bytes(t) \in Nat /\ Bytes(s) \in Nat /\ Bytes(T) \in Nat
      BY <1>1, <2>5
    <2> QED
      BY <2>2, <2>7, <2>8, <2>9
  <1> QED
    BY <1>1, <1>2
-----------------------------------------------------------------------------
(* The paths a walk has before it, and those it has met.                   *)

LEMMA TailAt ==
  ASSUME NEW S, NEW n, NEW k \in Nat, NEW m \in Nat, k =< m, \A j \in k .. m : n[j] \in S
  PROVE  /\ Len(SubSeq(n, k, m)) = m - k + 1
         /\ \A j \in 1 .. m - k + 1 : SubSeq(n, k, m)[j] = n[k + j - 1]
  <1>1. Len(SubSeq(n, k, m)) = m - k + 1
    BY SubSeqProperties
  <1>2. \A j \in 1 .. m - k + 1 : SubSeq(n, k, m)[j] = n[k + j - 1]
    BY SubSeqProperties
  <1> QED
    BY <1>1, <1>2

LEMMA TailOf ==
  ASSUME NEW S, NEW n \in Seq(S), NEW k \in DOMAIN n
  PROVE  /\ Len(SubSeq(n, k, Len(n))) = Len(n) - k + 1
         /\ \A j \in 1 .. Len(n) - k + 1 : SubSeq(n, k, Len(n))[j] = n[k + j - 1]
  <1> DEFINE m == Len(n)
  <1>1. k \in Nat /\ m \in Nat /\ k =< m /\ \A j \in k .. m : n[j] \in S
    BY LenProperties, ElementOfSeq
  <1> HIDE DEF m
  <1>2. /\ Len(SubSeq(n, k, m)) = m - k + 1
        /\ \A j \in 1 .. m - k + 1 : SubSeq(n, k, m)[j] = n[k + j - 1]
    BY <1>1, TailAt
  <1> QED
    BY <1>2 DEF m

LEMMA EndsSame ==
  ASSUME NEW S, NEW x \in Seq(S), NEW n \in Seq(S), NEW lx \in Nat, lx = Len(x),
         NEW ln \in Nat, ln = Len(n), NEW k \in Nat, k >= 1, lx = ln - k + 1,
         \A j \in 1 .. lx : x[j] = n[k + j - 1]
  PROVE  IsSuffix(x, n)
  <1> DEFINE rx == Reverse(x)
             rn == Reverse(n)
  <1>1. (\A i \in 1 .. lx : x[i] \in S) /\ \A i \in 1 .. ln : n[i] \in S
    BY ElementOfSeq
  <1>2. rx \in Seq(S) /\ Len(rx) = lx /\ \A i \in 1 .. lx : rx[i] = x[lx - i + 1]
    BY <1>1, IsASeq DEF Reverse
  <1>3. rn \in Seq(S) /\ Len(rn) = ln /\ \A i \in 1 .. ln : rn[i] = n[ln - i + 1]
    BY <1>1, IsASeq DEF Reverse
  <1> HIDE DEF rx, rn
  <1>4. lx =< ln /\ \A i \in 1 .. lx : rx[i] = rn[i]
    <2>1. lx =< ln
      OBVIOUS
    <2>2. ASSUME NEW i \in 1 .. lx PROVE rx[i] = rn[i]
      <3> DEFINE j == lx - i + 1
      <3>1. j \in 1 .. lx /\ i \in 1 .. ln /\ k + j - 1 = ln - i + 1
        BY <2>1
      <3>2. rx[i] = x[j]
        BY <1>2
      <3>3. rn[i] = n[ln - i + 1]
        BY <1>3, <3>1
      <3> HIDE DEF j
      <3>4. x[j] = n[k + j - 1]
        BY <3>1
      <3> QED
        BY <3>1, <3>2, <3>3, <3>4
    <2> QED
      BY <2>1, <2>2
  <1>5. IsPrefix(rx, rn)
    BY <1>2, <1>3, <1>4, PrefixDef
  <1> QED
    BY <1>5 DEF IsSuffix, rx, rn

\* A name that has the extension as its end ends with it.
LEMMA EndsSuffix ==
  ASSUME NEW S, NEW x \in Seq(S), NEW n \in Seq(S), x # <<>>,
         NEW k \in DOMAIN n, SubSeq(n, k, Len(n)) = x
  PROVE  IsSuffix(x, n)
  <1> DEFINE lx == Len(x)
             ln == Len(n)
  <1>1. /\ lx \in Nat /\ ln \in Nat /\ k \in Nat /\ k >= 1 /\ k =< ln
        /\ \A j \in k .. ln : n[j] \in S
    BY LenProperties, ElementOfSeq
  <1>2. Len(x) = ln - k + 1 /\ \A j \in 1 .. ln - k + 1 : x[j] = n[k + j - 1]
    BY TailOf, Zenon
  <1>4. lx = ln - k + 1 /\ \A j \in 1 .. lx : x[j] = n[k + j - 1]
    BY <1>2
  <1> HIDE DEF lx, ln
  <1> QED
    BY <1>1, <1>4, EndsSame DEF lx, ln

LEMMA EndsIsHas ==
  ASSUME NEW p \in Paths, p # <<>>, NEW x \in Seq(DOMAIN Code)
  PROVE  ends_with_ext(base_name_view(p), x) <=> HasExt(p, x)
  <1> DEFINE n == p[Len(p)]
  <1>1. n \in Seq(DOMAIN Code)
    <2>1. Len(p) \in 1 .. Len(p)
      BY EmptySeq, LenProperties DEF Paths
    <2> QED
      BY <2>1, PathNames
  <1>2. ends_with_ext(base_name_view(p), x) <=> x # <<>> /\ IsSuffix(x, n)
    BY DEF ends_with_ext, base_name_view
  <1>3. HasExt(p, x) <=> x # <<>> /\ \E k \in DOMAIN n : SubSeq(n, k, Len(n)) = x
    BY DEF HasExt
  <1> HIDE DEF n
  <1>4. x # <<>> /\ IsSuffix(x, n) => \E k \in DOMAIN n : SubSeq(n, k, Len(n)) = x
    BY <1>1, SuffixEnds
  <1>5. ASSUME x # <<>>, NEW k \in DOMAIN n, SubSeq(n, k, Len(n)) = x PROVE IsSuffix(x, n)
    BY <1>1, <1>5, EndsSuffix
  <1> QED
    BY <1>2, <1>3, <1>4, <1>5

\* Level 1 is the root's own entries.
LEMMA LevelOne ==
  ASSUME source \in Paths, NEW p \in Paths, p # <<>>, Below(p, source)
  PROVE  level(p) = 1 <=> Parent(p) = source
  <1>1. SubSeq(p, 1, Len(source)) = source /\ Len(source) \in 0 .. Len(p)
    BY BelowStarts DEF Paths
  <1>2. Len(p) \in Nat \ {0} /\ Len(source) \in Nat
    BY EmptySeq, LenProperties DEF Paths
  <1>3. Parent(p) = SubSeq(p, 1, Len(p) - 1)
    BY DEF Parent, Front
  <1>4. Len(SubSeq(p, 1, Len(p) - 1)) = Len(p) - 1
    <2>1. Len(p) - 1 \in 0 .. Len(p)
      BY <1>2
    <2> QED
      BY <2>1, StartOf DEF Paths
  <1>5. level(p) = 1 <=> Len(source) = Len(p) - 1
    BY <1>2 DEF level
  <1> QED
    BY <1>1, <1>3, <1>4, <1>5

\* An entry of d, now or earlier.
EntryOf(q, d) == Len(q) = Len(d) + 1 /\ Below(q, d)

LEMMA SameEntry ==
  ASSUME NEW p \in Paths, NEW q \in Paths, NEW r \in Paths,
         Below(p, q), Below(p, r), Len(q) = Len(r)
  PROVE  q = r
  BY BelowStarts DEF Paths

\* A path below an entry is below the directory, and not the directory.
LEMMA EntryBelow ==
  ASSUME NEW p \in Paths, NEW q \in Paths, NEW d \in Paths, Below(p, q), EntryOf(q, d)
  PROVE  Below(p, d) /\ p # d /\ ~ Below(d, q)
  <1>1. Below(p, d) /\ Len(q) =< Len(p)
    BY BelowBelow DEF Paths, EntryOf
  <1>2. Len(p) \in Nat /\ Len(q) \in Nat /\ Len(d) \in Nat /\ Len(q) = Len(d) + 1
    BY PathNames DEF EntryOf
  <1>3. Below(d, q) => Len(q) =< Len(d)
    BY PrefixDef DEF Below, Paths
  <1> QED
    BY <1>1, <1>2, <1>3

LEMMA MarkSeen ==
  ASSUME StackInv, stack # <<>>, NEW p \in Paths
  PROVE  /\ \A i \in DOMAIN stack :
              Mark(p)[i].seen = IF i = Len(stack) THEN stack[i].seen \union {p} ELSE stack[i].seen
         /\ Len(stack) \in DOMAIN stack /\ Mark(p)[Len(stack)].seen = Top.seen \union {p}
  <1>1. stack \in Seq(Frames) /\ Len(stack) \in 1 .. Len(stack) /\ DOMAIN stack = 1 .. Len(stack)
    BY EmptySeq, LenProperties DEF StackInv
  <1>2. Top \in Frames
    BY <1>1, ElementOfSeq DEF Top
  <1> DEFINE v == Visited(p)
  <1>3. v \in Frames /\ v.seen = Top.seen \union {p}
    BY <1>2 DEF Visited, Frames
  <1> HIDE DEF v
  <1>4. \A j \in 1 .. Len(stack) : Mark(p)[j] = IF j = Len(stack) THEN v ELSE stack[j]
    BY <1>1, <1>3, ExceptSeq DEF Mark, v
  <1> QED
    BY <1>1, <1>3, <1>4 DEF Top
-----------------------------------------------------------------------------
(* What a report has collected of its walk.                                *)

\* nftw will come to p, if p stays.
Coming(p) ==
    \/ phase = "start"
    \/ entry # None /\ Below(p, entry.path)
    \/ \E i \in DOMAIN stack : \E q \in stack[i].must : Below(p, q)

\* nftw may come to p: what it has passed is never ahead again.
Ahead(p) ==
    \/ phase = "start"
    \/ entry # None /\ Below(p, entry.path)
    \/ \E i \in DOMAIN stack : /\ Below(p, stack[i].dir) /\ p # stack[i].dir
                               /\ \A q \in stack[i].seen : ~ Below(p, q)

\* The open directories lie one in another, each in an entry the one above has passed.
FramesInv ==
    /\ \A i \in DOMAIN stack :
         /\ ~ Hidden(stack[i].dir)
         /\ \A q \in stack[i].must \union stack[i].seen : EntryOf(q, stack[i].dir)
         /\ \A j \in DOMAIN stack : i < j => \E q \in stack[i].seen : Below(stack[j].dir, q)
    /\ entry # None /\ stack # <<>> => entry.path \in Top.seen
    /\ phase \notin {"walk", "died"} => stack = <<>> /\ entry = None

\* The file system is the one of the start but for one entry of another program and
\* what -remd removes; lstat said of the entry what it was.
FilesInv ==
    /\ \A p \in DOMAIN fs : IF p \in DOMAIN before THEN fs[p] = before[p]
                            ELSE p \in Extra /\ fs[p].kind = "file"
    /\ gone \subseteq DOMAIN before \ DOMAIN fs
    /\ gone = {} \/ \E p \in gone : gone = {p}
    /\ \A p \in DOMAIN before \ DOMAIN fs : p \in gone \/ (opt = "remd" /\ Reg(p))
    /\ \A p \in DOMAIN before \intersect DOMAIN fs : Upward(p) \subseteq DOMAIN fs
    /\ entry # None => /\ entry.path \in DOMAIN before \union DOMAIN fs
                       /\ entry.kind = Kind(entry.path)

Gathered ==
    [items : SUBSET Paths, lines : Seq(Paths), counts : [1 .. 3 -> Nat], dir_count : Nat,
     total_bytes : Nat, removed_files : Nat]

\* cb has been called for M, each of them once, and for everything that is no longer
\* to come.
PassedBy(M) ==
    /\ M \in SUBSET Paths /\ IsFiniteSet(M)
    /\ \A p \in M : Below(p, source) /\ ~ Hidden(p) /\ ~ Ahead(p)
    /\ \A p \in DOMAIN before \intersect DOMAIN fs :
         Below(p, source) /\ ~ Hidden(p) => p \in M \/ Coming(p)
    /\ opt # "remd" => M \subseteq DOMAIN before \union DOMAIN fs

\* What cb has made of M.
Collected(M, g) ==
    /\ opt = "flist" => g.items = {p \in M : Level1(p)}
    /\ opt = "lfsize" => g.items = {p \in M : Reg(p)}
    /\ opt = "nonwr" => /\ {p \in M : Reg(p) /\ p \in Readonly} \subseteq g.items
                        /\ g.items \subseteq {p \in M : Nonwr(p)}
    /\ opt = "srchf" => IsInjective(g.lines) /\ ToSet(g.lines) = {p \in M : Named(p)}
    /\ opt = "tcount" => \A i \in DOMAIN exts :
         g.counts[i] = Cardinality({p \in M : Level1(p) /\ HasExt(p, exts[i])})
    /\ opt = "dircnt" => g.dir_count = Cardinality({p \in M : IsDir0(p)})
    /\ opt = "sumfilesize" => g.total_bytes = Bytes({p \in M : Reg(p)})

Matches(p) == Reg(p) /\ HasExt(p, exts[1])

\* -remd has removed and counted R, and warned of W.
Removed(M) ==
    /\ \E R \in SUBSET M :
         /\ G.removed_files = Cardinality(R)
         /\ R \intersect DOMAIN before = (DOMAIN before \ DOMAIN fs) \ gone
         /\ R \ DOMAIN before \subseteq {p \in Extra : HasExt(p, exts[1])}
    /\ \E W \in SUBSET M :
         /\ Cardinality(W) =< warns
         /\ \A p \in M \intersect DOMAIN before \intersect DOMAIN fs : Matches(p) => p \in W

Met(M) == PassedBy(M) /\ Collected(M, G) /\ (opt = "remd" => Removed(M))

ReportInv ==
    opt \notin Moves =>
        /\ FramesInv /\ FilesInv /\ G \in Gathered
        /\ phase \in {"args", "start"} => G = G0
        /\ phase \in {"start", "walk", "print", "done"} => \E M : Met(M)
        /\ phase = "done" => out \in Output

LEMMA FrameTypes ==
  ASSUME StackInv, NEW i \in DOMAIN stack
  PROVE  /\ stack[i].dir \in Paths /\ stack[i].must \subseteq Paths /\ stack[i].seen \subseteq Paths
         /\ Below(stack[i].dir, source)
  <1>1. stack \in Seq(Frames) /\ DOMAIN stack = 1 .. Len(stack)
    BY LenProperties DEF StackInv
  <1>2. stack[i] \in Frames
    BY <1>1, ElementOfSeq
  <1> QED
    BY <1>2 DEF Frames, StackInv

\* Nothing that can be read below a readable directory is hidden.
LEMMA HiddenUp ==
  ASSUME source \in Paths, NEW p \in Paths, NEW d \in Paths, EntryOf(p, d), Hidden(p),
         p \in DOMAIN before => before[p].kind # "locked"
  PROVE  Hidden(d)
  <1>1. PICK n \in Len(source) .. Len(p) :
            SubSeq(p, 1, n) \in DOMAIN before /\ before[SubSeq(p, 1, n)].kind = "locked"
    BY DEF Hidden
  <1>2. Len(source) \in Nat /\ Len(p) = Len(d) + 1 /\ Len(d) \in Nat /\ Len(p) \in Nat /\ Below(p, d)
    BY PathNames DEF EntryOf
  <1>3. SubSeq(p, 1, Len(p)) = p
    BY BelowSelf, BelowStarts DEF Paths
  <1>4. n # Len(p)
    BY <1>1, <1>3
  <1>5. n \in Len(source) .. Len(d) /\ n \in 0 .. Len(d)
    BY <1>1, <1>2, <1>4
  <1> DEFINE q == SubSeq(d, 1, n)
  <1>6. q \in Paths /\ Len(q) = n /\ Below(d, q)
    BY <1>5, StartOf DEF Paths
  <1> HIDE DEF q
  <1>7. Below(p, q)
    BY <1>2, <1>6, BelowBelow DEF Paths
  <1>8. SubSeq(p, 1, n) = q
    BY <1>6, <1>7, BelowStarts DEF Paths
  <1> QED
    BY <1>1, <1>5, <1>8 DEF Hidden, q

\* The entry whose callback is due.
LEMMA EntryFacts ==
  ASSUME DirInv, FramesInv, FilesInv, opt \notin Moves, phase = "walk", entry # None
  PROVE  /\ entry.path \in Paths /\ Below(entry.path, source)
         /\ entry.path \in DOMAIN before \union DOMAIN fs /\ entry.kind = Kind(entry.path)
         /\ entry.kind # "locked" => ~ Hidden(entry.path)
         /\ entry.kind = "locked" => entry.path \in DOMAIN before /\ before[entry.path].kind = "locked"
         /\ entry.kind \notin Dirs =>
              entry.path # <<>> /\ \A p \in DOMAIN before : Below(p, entry.path) => p = entry.path
  <1> USE DEF DirInv
  <1> DEFINE x == entry.path
  <1>1. /\ x \in Paths /\ Below(x, source) /\ x \in DOMAIN before \union DOMAIN fs
        /\ entry.kind = Kind(x)
        /\ source \in Paths /\ Home \in Paths
    BY Given DEF WalkInv, FilesInv
  <1> HIDE DEF x
  <1>2. x \notin DOMAIN before => entry.kind = "file"
    BY <1>1 DEF FilesInv, Kind
  <1>3. x \in DOMAIN before => entry.kind = before[x].kind
    BY <1>1 DEF Kind
  <1>4. ASSUME entry.kind # "locked" PROVE ~ Hidden(x)
    <2> SUFFICES ASSUME Hidden(x) PROVE FALSE
      OBVIOUS
    <2>1. CASE stack = <<>>
      <3>1. x = source
        BY <2>1 DEF CheckedInv, x
      <3>2. PICK n \in Len(source) .. Len(x) :
               SubSeq(x, 1, n) \in DOMAIN before /\ before[SubSeq(x, 1, n)].kind = "locked"
        BY DEF Hidden
      <3>3. n = Len(x) /\ SubSeq(x, 1, Len(x)) = x
        BY <1>1, <3>1, PathNames, BelowSelf, BelowStarts DEF Paths
      <3> QED
        BY <1>3, <1>4, <3>2, <3>3
    <2>2. CASE stack # <<>>
      <3>1. Len(stack) \in DOMAIN stack
        BY <2>2, MarkSeen, <1>1 DEF WalkInv
      <3>2. x \in Top.seen /\ EntryOf(x, Top.dir) /\ ~ Hidden(Top.dir)
        BY <2>2, <3>1 DEF FramesInv, Top, x
      <3>3. Top.dir \in Paths
        BY <3>1, FrameTypes DEF WalkInv, Top
      <3> QED
        BY <1>1, <1>3, <1>4, <3>2, <3>3, HiddenUp
    <2> QED
      BY <2>1, <2>2
  <1>5. ASSUME entry.kind \notin Dirs
        PROVE x # <<>> /\ \A p \in DOMAIN before : Below(p, x) => p = x
    <2>1. x # <<>>
      <3> SUFFICES ASSUME x = <<>> PROVE FALSE
        OBVIOUS
      <3>1. source \in DOMAIN before /\ Below(source, Home)
        BY DEF CheckedInv
      <3>2. Len(x) = 0 /\ {Len(source), Len(Home)} \subseteq Nat
        BY <1>1, PathNames
      <3>3. Len(source) =< Len(x) /\ Len(Home) =< Len(source)
        BY <1>1, <3>1, PrefixDef DEF Below, Paths
      <3>4. Len(source) = 0 /\ Len(Home) = 0
        BY <3>2, <3>3
      <3>5. source = x /\ Home = x
        BY <1>1, <3>4, EmptySeq DEF Paths
      <3>6. before[x].kind \in Dirs
        BY <3>1, <3>5, Given
      <3> QED
        BY <1>3, <1>5, <3>1, <3>5, <3>6
    <2>2. ASSUME NEW p \in DOMAIN before, Below(p, x) PROVE p = x
      <3> SUFFICES ASSUME p # x PROVE FALSE
        OBVIOUS
      <3>1. p \in Paths
        BY Given
      <3>2. Len(x) >= 1
        BY <1>1, <2>1, EmptySeq, LenProperties DEF Paths
      <3>3. x \in Upward(p) \ {p}
        BY <1>1, <2>2, <3>1, <3>2, UpwardOf
      <3>4. x \in DOMAIN before /\ before[x].kind \in Dirs
        BY <3>3, Given
      <3> QED
        BY <1>3, <1>5, <3>4
    <2> QED
      BY <2>1, <2>2
  <1>6. entry.kind = "locked" => x \in DOMAIN before /\ before[x].kind = "locked"
    BY <1>2, <1>3
  <1> QED
    BY <1>1, <1>4, <1>5, <1>6 DEF x

\* The walk's steps that change no file.
LEMMA FilesSame ==
  ASSUME FilesInv, UNCHANGED <<fs, args, before, gone>>,
         entry' = None \/ entry' = entry \/ \E p \in DOMAIN fs : entry' = Stat(p)
  PROVE  FilesInv'
  <1>1. UNCHANGED opt /\ \A p : Reg(p)' = Reg(p) /\ Kind(p)' = Kind(p) /\ Upward(p)' = Upward(p)
    BY DEF opt, Reg, Kind, Upward
  <1>2. entry' # None => /\ entry'.path \in DOMAIN before \union DOMAIN fs
                         /\ entry'.kind = Kind(entry'.path)
    <2>1. CASE entry' = entry
      BY <2>1 DEF FilesInv
    <2>2. ASSUME NEW p \in DOMAIN fs, entry' = Stat(p)
          PROVE  p \in DOMAIN before \union DOMAIN fs /\ entry'.path = p /\ entry'.kind = Kind(p)
      BY <2>2 DEF Stat, Kind, FilesInv
    <2> QED
      BY <2>1, <2>2
  <1>3. PICK e : e = entry'
    OBVIOUS
  <1>4. e # None => e.path \in DOMAIN before \union DOMAIN fs /\ e.kind = Kind(e.path)'
    BY <1>1, <1>2, <1>3
  <1> QED
    BY <1>1, <1>3, <1>4 DEF FilesInv

\* Each open directory has passed an entry the one being passed is below.
LEMMA EntrySeen ==
  ASSUME StackInv, FramesInv, entry # None, entry.path \in Paths, NEW i \in DOMAIN stack
  PROVE  \E q \in stack[i].seen : Below(entry.path, q)
  <1>1. /\ stack # <<>> /\ Len(stack) \in DOMAIN stack /\ DOMAIN stack = 1 .. Len(stack)
        /\ Len(stack) \in Nat
    <2>1. stack \in Seq(Frames) /\ stack # <<>>
      BY EmptySeq DEF StackInv
    <2>2. Len(stack) \in Nat \ {0} /\ DOMAIN stack = 1 .. Len(stack)
      BY <2>1, EmptySeq, LenProperties
    <2> QED
      BY <2>1, <2>2
  <1>2. /\ entry.path \in Top.seen /\ Top.dir \in Paths /\ EntryOf(entry.path, Top.dir)
        /\ Below(entry.path, entry.path)
    BY <1>1, FrameTypes, BelowSelf DEF FramesInv, Top, Paths
  <1>3. CASE i = Len(stack)
    BY <1>2, <1>3 DEF Top
  <1>4. CASE i # Len(stack)
    <2>1. i < Len(stack)
      BY <1>1, <1>4
    <2>2. PICK q \in stack[i].seen : Below(Top.dir, q)
      BY <1>1, <2>1 DEF FramesInv, Top
    <2>3. q \in Paths
      BY FrameTypes
    <2>4. Below(entry.path, q)
      BY <1>2, <2>2, <2>3, BelowBelow DEF EntryOf, Paths
    <2> QED
      BY <2>4
  <1> QED
    BY <1>3, <1>4

LEMMA FramesStay ==
  ASSUME FramesInv, UNCHANGED <<args, before, stack>>, entry' = None \/ entry' = entry,
         phase' \notin {"walk", "died"} => stack = <<>> /\ entry' = None
  PROVE  FramesInv'
  BY DEF FramesInv, Hidden, source, EntryOf, Below, Top

LEMMA FramesPassed ==
  ASSUME DirInv, FramesInv, phase = "walk", phase' = "walk", UNCHANGED <<args, before>>,
         NEW x, Visit(x), stack' = Mark(x), entry' = None \/ (entry' # None /\ entry'.path = x)
  PROVE  FramesInv' /\ x \in Paths /\ EntryOf(x, Top.dir) /\ x \notin Top.seen /\ stack # <<>>
  <1>1. /\ StackInv /\ stack # <<>> /\ x \in Paths
        /\ x \in Top.must \union Entries(Top.dir) /\ x \notin Top.seen
    BY VisitBelow DEF DirInv, WalkInv, Visit
  <1>2. /\ DOMAIN stack' = DOMAIN stack /\ Len(stack') = Len(stack) /\ Len(stack) \in DOMAIN stack
        /\ \A i \in DOMAIN stack :
             /\ stack'[i].dir = stack[i].dir /\ stack'[i].must \subseteq stack[i].must
             /\ stack[i].seen \subseteq stack'[i].seen
             /\ stack'[i].seen = IF i = Len(stack) THEN stack[i].seen \union {x} ELSE stack[i].seen
    BY <1>1, MarkKept, MarkSeen
  <1>3. EntryOf(x, Top.dir)
    BY <1>1, <1>2 DEF FramesInv, Top, Entries, EntryOf
  <1>4. \A p : Hidden(p)' = Hidden(p)
    BY DEF Hidden, source
  <1>5. ASSUME NEW i \in DOMAIN stack'
        PROVE  /\ ~ Hidden(stack'[i].dir)
               /\ \A q \in stack'[i].must \union stack'[i].seen : EntryOf(q, stack'[i].dir)
               /\ \A j \in DOMAIN stack' : i < j => \E q \in stack'[i].seen : Below(stack'[j].dir, q)
    <2>1. i \in DOMAIN stack
      BY <1>2
    <2>2. ~ Hidden(stack'[i].dir)
      BY <1>2, <2>1 DEF FramesInv
    <2>a. \A q \in stack[i].must \union stack[i].seen : EntryOf(q, stack'[i].dir)
      BY <1>2, <2>1 DEF FramesInv
    <2>b. i = Len(stack) => EntryOf(x, stack'[i].dir)
      BY <1>2, <1>3, <2>1 DEF Top
    <2>c. /\ stack'[i].must \subseteq stack[i].must
          /\ stack'[i].seen \subseteq stack[i].seen \union (IF i = Len(stack) THEN {x} ELSE {})
      BY <1>2, <2>1
    <2>3. \A q \in stack'[i].must \union stack'[i].seen : EntryOf(q, stack'[i].dir)
      <3> SUFFICES ASSUME NEW q \in stack'[i].must \union stack'[i].seen
                   PROVE  EntryOf(q, stack'[i].dir)
        OBVIOUS
      <3>1. q \in stack[i].must \union stack[i].seen \/ (i = Len(stack) /\ q = x)
        BY <2>c
      <3> QED
        BY <3>1, <2>a, <2>b
    <2>4. \A j \in DOMAIN stack' : i < j => \E q \in stack'[i].seen : Below(stack'[j].dir, q)
      BY <1>2, <2>1 DEF FramesInv
    <2> QED
      BY <2>2, <2>3, <2>4
  <1>6. entry' # None /\ stack' # <<>> => entry'.path \in stack'[Len(stack')].seen
    BY <1>2
  <1>7. FramesInv'
    BY <1>4, <1>5, <1>6 DEF FramesInv, EntryOf, Below, Top
  <1> QED
    BY <1>1, <1>3, <1>7

LEMMA PushedFrames ==
  ASSUME StackInv, DOMAIN fs \subseteq Paths, NEW x \in Paths, stack' = Append(stack, Frame(x))
  PROVE  /\ stack' # <<>> /\ Len(stack') = Len(stack) + 1 /\ Len(stack) \in Nat
         /\ DOMAIN stack = 1 .. Len(stack) /\ DOMAIN stack' = 1 .. Len(stack) + 1
         /\ \A i \in DOMAIN stack : i \in DOMAIN stack' /\ stack'[i] = stack[i]
         /\ Len(stack) + 1 \in DOMAIN stack' /\ stack'[Len(stack) + 1] = Frame(x)
         /\ Frame(x).dir = x /\ Frame(x).must = Entries(x) /\ Frame(x).seen = {}
         /\ \A i \in DOMAIN stack' : i \in DOMAIN stack \/ i = Len(stack) + 1
  <1>1. \A q \in Entries(x) : q \in Paths
    BY DEF Entries
  <1>2. Frame(x) \in Frames /\ Frame(x).dir = x /\ Frame(x).must = Entries(x) /\ Frame(x).seen = {}
    BY <1>1 DEF Frame, Frames
  <1>3. /\ stack' \in Seq(Frames) /\ Len(stack') = Len(stack) + 1
        /\ \A i \in 1 .. Len(stack) : stack'[i] = stack[i]
        /\ stack'[Len(stack) + 1] = Frame(x)
    BY <1>2, AppendProperties DEF StackInv
  <1>4. Len(stack) \in Nat /\ DOMAIN stack = 1 .. Len(stack) /\ DOMAIN stack' = 1 .. Len(stack) + 1
    BY <1>3, LenProperties DEF StackInv
  <1>5. stack' # <<>>
    BY <1>3, <1>4, EmptySeq
  <1> QED
    BY <1>2, <1>3, <1>4, <1>5

LEMMA FramesPushed ==
  ASSUME DirInv, FramesInv, phase = "walk", phase' = "walk", UNCHANGED <<args, before>>,
         entry # None, ~ Hidden(entry.path), entry.path \in Paths, entry' = None,
         stack' = Append(stack, Frame(entry.path))
  PROVE  FramesInv'
  <1> DEFINE x == entry.path
             n == Len(stack) + 1
  <1>1. /\ stack' # <<>> /\ Len(stack) \in Nat /\ DOMAIN stack = 1 .. Len(stack)
        /\ \A i \in DOMAIN stack : i \in DOMAIN stack' /\ stack'[i] = stack[i]
        /\ n \in DOMAIN stack' /\ stack'[n].dir = x /\ stack'[n].must = Entries(x)
        /\ stack'[n].seen = {}
        /\ \A i \in DOMAIN stack' : i \in DOMAIN stack \/ i = n
    BY PushedFrames DEF DirInv, WalkInv
  <1>2. \A i \in DOMAIN stack : \E q \in stack[i].seen : Below(x, q)
    BY EntrySeen DEF DirInv, WalkInv
  <1>3. \A p : Hidden(p)' = Hidden(p)
    BY DEF Hidden, source
  <1>4. ~ Hidden(x)
    OBVIOUS
  <1> HIDE DEF x, n
  <1>5. ASSUME NEW i \in DOMAIN stack'
        PROVE  /\ ~ Hidden(stack'[i].dir)
               /\ \A q \in stack'[i].must \union stack'[i].seen : EntryOf(q, stack'[i].dir)
               /\ \A j \in DOMAIN stack' : i < j => \E q \in stack'[i].seen : Below(stack'[j].dir, q)
    <2>1. CASE i \in DOMAIN stack
      BY <1>1, <1>2, <2>1 DEF FramesInv
    <2>2. CASE i = n
      <3>1. ~ Hidden(stack'[i].dir)
        BY <1>1, <1>4, <2>2
      <3>2. \A q \in stack'[i].must \union stack'[i].seen : EntryOf(q, stack'[i].dir)
        BY <1>1, <2>2 DEF Entries, EntryOf
      <3>3. \A j \in DOMAIN stack' : ~ (i < j)
        BY <1>1, <2>2 DEF n
      <3> QED
        BY <3>1, <3>2, <3>3
    <2> QED
      BY <1>1, <2>1, <2>2
  <1> QED
    BY <1>3, <1>5 DEF FramesInv, EntryOf, Below

LEMMA PoppedFrames ==
  ASSUME StackInv, Pop
  PROVE  /\ Len(stack) \in DOMAIN stack /\ stack[Len(stack)].must = {}
         /\ Len(stack) \in Nat /\ DOMAIN stack = 1 .. Len(stack)
         /\ DOMAIN stack' = 1 .. Len(stack) - 1
         /\ \A i \in DOMAIN stack' : i \in DOMAIN stack /\ stack'[i] = stack[i]
  <1>1. /\ stack \in Seq(Frames) /\ stack # <<>> /\ DOMAIN stack = 1 .. Len(stack)
        /\ Len(stack) \in Nat /\ Len(stack) # 0 /\ stack' = SubSeq(stack, 1, Len(stack) - 1)
        /\ stack[Len(stack)].must = {}
    BY EmptySeq, LenProperties DEF StackInv, Pop, Top
  <1>2. Len(stack) - 1 \in 0 .. Len(stack)
    BY <1>1
  <1>3. /\ stack' \in Seq(Frames) /\ Len(stack') = Len(stack) - 1
        /\ \A i \in 1 .. Len(stack) - 1 : stack'[i] = stack[i]
    BY <1>1, <1>2, StartOf
  <1>4. DOMAIN stack' = 1 .. Len(stack) - 1
    BY <1>3, LenProperties
  <1>5. Len(stack) \in DOMAIN stack
    BY <1>1
  <1> QED
    BY <1>1, <1>3, <1>4, <1>5

LEMMA FramesPopped ==
  ASSUME DirInv, FramesInv, Pop, UNCHANGED <<args, before>>, entry' = None, phase' = Back(stack')
  PROVE  FramesInv'
  <1>1. \A i \in DOMAIN stack' : i \in DOMAIN stack /\ stack'[i] = stack[i]
    BY PoppedFrames DEF DirInv, WalkInv
  <1>2. \A p : Hidden(p)' = Hidden(p)
    BY DEF Hidden, source
  <1>3. phase' \notin {"walk", "died"} => stack' = <<>>
    BY DEF Back
  <1> QED
    BY <1>1, <1>2, <1>3 DEF FramesInv, EntryOf, Below

LEMMA FilesRemoved ==
  ASSUME DirInv, FramesInv, FilesInv, opt = "remd", phase = "walk", Removes(entry),
         fs' = Without(entry.path), entry' = None, UNCHANGED <<args, before, gone>>
  PROVE  FilesInv'
  <1> DEFINE x == entry.path
  <1>1. /\ entry # None /\ entry.kind \in {"file", "unread"} /\ entry.kind \notin Dirs
        /\ opt \notin Moves
    BY DEF Removes, IsReg, None, Dirs, Moves
  <1>2. /\ x \in Paths /\ entry.kind = Kind(x) /\ \A p \in DOMAIN before : Below(p, x) => p = x
    BY <1>1, EntryFacts
  <1>3. DOMAIN fs' = DOMAIN fs \ {x} /\ \A q \in DOMAIN fs' : fs'[q] = fs[q]
    BY WithoutFacts DEF DirInv, WalkInv
  <1> HIDE DEF x
  <1>4. opt' = opt /\ \A p \in DOMAIN before : Reg(p)' = Reg(p) /\ Upward(p)' = Upward(p)
    BY DEF opt, Reg, Kind, Upward
  <1>5. \A p \in DOMAIN fs' : IF p \in DOMAIN before THEN fs'[p] = before[p]
                              ELSE p \in Extra /\ fs'[p].kind = "file"
    BY <1>3 DEF FilesInv
  <1>6. gone \subseteq DOMAIN before \ DOMAIN fs' /\ (gone = {} \/ \E p \in gone : gone = {p})
    BY <1>3 DEF FilesInv
  <1>7. ASSUME NEW p \in DOMAIN before \ DOMAIN fs' PROVE p \in gone \/ Reg(p)
    <2>1. CASE p = x
      BY <1>1, <1>2, <2>1 DEF Reg
    <2>2. CASE p # x
      BY <1>3, <2>2 DEF FilesInv
    <2> QED
      BY <2>1, <2>2
  <1>8. ASSUME NEW p \in DOMAIN before \intersect DOMAIN fs' PROVE Upward(p) \subseteq DOMAIN fs'
    <2>1. p \in Paths /\ p # x /\ Upward(p) \subseteq DOMAIN fs
      BY <1>3, Given DEF DirInv, FilesInv
    <2>2. x \notin Upward(p)
      BY <1>2, <2>1, UpwardOf
    <2> QED
      BY <1>3, <2>1, <2>2
  <1> QED
    BY <1>4, <1>5, <1>6, <1>7, <1>8 DEF FilesInv

LEMMA FilesCreated ==
  ASSUME DirInv, FilesInv, NEW x \in Extra, OtherCreates(x)
  PROVE  /\ FilesInv' /\ DOMAIN fs' = DOMAIN fs \union {x} /\ x \notin DOMAIN before
         /\ \A q \in DOMAIN fs : fs'[q] = fs[q]
  <1>1. /\ phase # "died" /\ x \notin DOMAIN fs /\ x \notin DOMAIN before
        /\ UNCHANGED <<args, phase, before, entry, gone>>
        /\ DOMAIN fs' = DOMAIN fs \union {x} /\ \A q \in DOMAIN fs : fs'[q] = fs[q]
        /\ fs'[x].kind = "file"
    BY DEF OtherCreates, Running, Theirs, Exists, File
  <1>2. /\ opt' = opt
        /\ \A p \in DOMAIN before \union DOMAIN fs : Reg(p)' = Reg(p) /\ Kind(p)' = Kind(p)
        /\ \A p : Upward(p)' = Upward(p)
    BY <1>1 DEF opt, Reg, Kind, Upward
  <1>3. \A p \in DOMAIN fs' : IF p \in DOMAIN before THEN fs'[p] = before[p]
                              ELSE p \in Extra /\ fs'[p].kind = "file"
    BY <1>1 DEF FilesInv
  <1>4. gone \subseteq DOMAIN before \ DOMAIN fs'
    BY <1>1 DEF FilesInv
  <1>5. \A p \in DOMAIN before \ DOMAIN fs' : p \in gone \/ (opt = "remd" /\ Reg(p))
    BY <1>1 DEF FilesInv
  <1>6. \A p \in DOMAIN before \intersect DOMAIN fs' : Upward(p) \subseteq DOMAIN fs'
    BY <1>1 DEF FilesInv
  <1>7. entry # None => entry.path \in DOMAIN before \union DOMAIN fs /\ entry.kind = Kind(entry.path)
    BY DEF FilesInv
  <1>8. FilesInv'
    BY <1>1, <1>2, <1>3, <1>4, <1>5, <1>6, <1>7 DEF FilesInv
  <1> QED
    BY <1>1, <1>8

LEMMA FilesDeleted ==
  ASSUME DirInv, FilesInv, NEW x, OtherDeletes(x)
  PROVE  /\ FilesInv' /\ x \in DOMAIN before /\ x \in DOMAIN fs /\ gone = {} /\ gone' = {x}
         /\ DOMAIN fs' = DOMAIN fs \ {x} /\ \A q \in DOMAIN fs' : fs'[q] = fs[q]
  <1>1. /\ phase # "died" /\ x \in DOMAIN fs /\ gone = {} /\ x \notin Extra /\ Entries(x) = {}
        /\ UNCHANGED <<args, phase, before, entry>> /\ gone' = {x}
        /\ DOMAIN fs' = DOMAIN fs \ {x} /\ \A q \in DOMAIN fs' : fs'[q] = fs[q]
    <2>1. fs' = Without(x)
      BY DEF OtherDeletes
    <2>2. DOMAIN fs' = DOMAIN fs \ {x} /\ \A q \in DOMAIN fs' : fs'[q] = fs[q]
      BY <2>1, WithoutFacts DEF DirInv, WalkInv
    <2> QED
      BY <2>2 DEF OtherDeletes, Running, Theirs, Exists, Touched
  <1>2. x \in DOMAIN before
    BY <1>1 DEF FilesInv
  <1>3. /\ opt' = opt /\ \A p \in DOMAIN before : Reg(p)' = Reg(p) /\ Kind(p)' = Kind(p)
        /\ \A p \in DOMAIN fs' : Kind(p)' = Kind(p)
        /\ \A p : Upward(p)' = Upward(p)
    BY <1>1 DEF opt, Reg, Kind, Upward
  <1>4. \A p \in DOMAIN fs' : IF p \in DOMAIN before THEN fs'[p] = before[p]
                              ELSE p \in Extra /\ fs'[p].kind = "file"
    BY <1>1 DEF FilesInv
  <1>5. \A p \in DOMAIN before \ DOMAIN fs' : p \in gone' \/ (opt = "remd" /\ Reg(p))
    BY <1>1 DEF FilesInv
  <1>6. ASSUME NEW p \in DOMAIN before \intersect DOMAIN fs' PROVE Upward(p) \subseteq DOMAIN fs'
    <2>1. p \in Paths /\ p # x /\ Upward(p) \subseteq DOMAIN fs /\ x \in Paths
      BY <1>1, Given DEF DirInv, FilesInv, WalkInv
    <2>2. x \notin Upward(p)
      BY <1>1, <2>1, UpwardOf, EntryAbove
    <2> QED
      BY <1>1, <2>1, <2>2
  <1>7. entry # None => /\ entry.path \in DOMAIN before \union DOMAIN fs'
                        /\ entry.kind = Kind(entry.path)
    BY <1>1, <1>2 DEF FilesInv
  <1>8. FilesInv'
    BY <1>1, <1>2, <1>3, <1>4, <1>5, <1>6, <1>7 DEF FilesInv
  <1> QED
    BY <1>1, <1>2, <1>8

-----------------------------------------------------------------------------
\* What is ahead becomes less; what is to come is met, or comes later.

LEMMA AheadPassed ==
  ASSUME DirInv, FramesInv, phase = "walk", phase' = "walk", entry = None,
         UNCHANGED <<args, before>>,
         NEW x, Visit(x), stack' = Mark(x), entry' = None \/ (entry' # None /\ entry'.path = x),
         NEW p \in Paths
  PROVE  /\ Ahead(p)' => Ahead(p)
         /\ Coming(p) => Coming(p)' \/ (Below(p, x) /\ entry' = None)
  <1>1. x \in Paths /\ EntryOf(x, Top.dir) /\ x \notin Top.seen /\ stack # <<>> /\ StackInv
    BY FramesPassed DEF DirInv, WalkInv
  <1>2. /\ DOMAIN stack' = DOMAIN stack /\ Len(stack) \in DOMAIN stack
        /\ \A i \in DOMAIN stack :
             /\ stack'[i].dir = stack[i].dir /\ stack[i].must \ {x} \subseteq stack'[i].must
             /\ stack[i].seen \subseteq stack'[i].seen
    BY <1>1, MarkKept, MarkSeen
  <1>3. ASSUME Ahead(p)' PROVE Ahead(p)
    <2>1. CASE entry' # None /\ Below(p, x)
      <3>1. Top.dir \in Paths /\ Top.seen \subseteq Paths
        BY <1>1, <1>2, FrameTypes DEF Top
      <3>2. Below(p, Top.dir) /\ p # Top.dir
        BY <1>1, <2>1, <3>1, EntryBelow
      <3>3. ASSUME NEW q \in Top.seen, Below(p, q) PROVE FALSE
        <4>1. EntryOf(q, Top.dir)
          BY <1>2 DEF FramesInv, Top
        <4> QED
          BY <1>1, <2>1, <3>1, <3>3, <4>1, SameEntry DEF EntryOf
      <3> QED
        BY <1>2, <3>2, <3>3 DEF Ahead, Top
    <2>2. CASE \E i \in DOMAIN stack' : /\ Below(p, stack'[i].dir) /\ p # stack'[i].dir
                                        /\ \A q \in stack'[i].seen : ~ Below(p, q)
      BY <1>2, <2>2 DEF Ahead
    <2> QED
      BY <1>3, <2>1, <2>2 DEF Ahead, Below
  <1>4. ASSUME Coming(p), ~ (Below(p, x) /\ entry' = None) PROVE Coming(p)'
    <2>1. PICK i \in DOMAIN stack : \E q \in stack[i].must : Below(p, q)
      BY <1>4 DEF Coming
    <2>2. PICK q \in stack[i].must : Below(p, q)
      BY <2>1
    <2>3. CASE q = x
      BY <1>4, <2>2, <2>3 DEF Coming, Below
    <2>4. CASE q # x
      BY <1>2, <2>2, <2>4 DEF Coming, Below
    <2> QED
      BY <2>3, <2>4
  <1> QED
    BY <1>3, <1>4

LEMMA AheadStays ==
  ASSUME DirInv, FramesInv, phase = "walk", phase' # "start", entry # None, entry' = None,
         entry.path \in Paths, UNCHANGED <<args, before, stack>>,
         NEW x, x = entry.path, NEW p \in Paths
  PROVE  /\ Ahead(p)' => Ahead(p)
         /\ ~ Ahead(x)'
         /\ Coming(p) => Coming(p)' \/ Below(p, x)
  <1>1. Ahead(p)' => Ahead(p)
    BY DEF Ahead, Below
  <1>2. \A i \in DOMAIN stack : \E q \in stack[i].seen : Below(x, q)
    BY EntrySeen DEF DirInv, WalkInv
  <1>3. ~ Ahead(x)'
    <2>1. ~ \E i \in DOMAIN stack : \A q \in stack[i].seen : ~ Below(x, q)
      BY <1>2
    <2> QED
      BY <2>1 DEF Ahead, Below
  <1>4. Coming(p) => Coming(p)' \/ Below(p, x)
    BY DEF Coming, Below
  <1> QED
    BY <1>1, <1>3, <1>4

LEMMA AheadPushed ==
  ASSUME DirInv, FramesInv, phase = "walk", phase' = "walk", entry # None, entry' = None,
         entry.path \in Paths, UNCHANGED <<args, before>>,
         stack' = Append(stack, Frame(entry.path)), NEW p \in Paths
  PROVE  /\ Ahead(p)' => Ahead(p)
         /\ Coming(p) /\ Upward(p) \subseteq DOMAIN fs => Coming(p)' \/ p = entry.path
  <1> DEFINE x == entry.path
             n == Len(stack) + 1
  <1>1. /\ \A i \in DOMAIN stack : i \in DOMAIN stack' /\ stack'[i] = stack[i]
        /\ n \in DOMAIN stack' /\ stack'[n].dir = x /\ stack'[n].must = Entries(x)
        /\ stack'[n].seen = {}
        /\ \A i \in DOMAIN stack' : i \in DOMAIN stack \/ i = n
    BY PushedFrames DEF DirInv, WalkInv
  <1> HIDE DEF n
  <1>2. ASSUME Ahead(p)' PROVE Ahead(p)
    <2>1. PICK i \in DOMAIN stack' : /\ Below(p, stack'[i].dir) /\ p # stack'[i].dir
                                     /\ \A q \in stack'[i].seen : ~ Below(p, q)
      BY <1>2 DEF Ahead, Below
    <2>2. CASE i \in DOMAIN stack
      BY <1>1, <2>1, <2>2 DEF Ahead
    <2>3. CASE i = n
      BY <1>1, <2>1, <2>3 DEF Ahead
    <2> QED
      BY <1>1, <2>2, <2>3
  <1>3. ASSUME Coming(p), Upward(p) \subseteq DOMAIN fs, p # x PROVE Coming(p)'
    <2>1. CASE Below(p, x)
      <3>1. \E q \in Entries(x) : Below(p, q)
        BY <1>3, <2>1, EntryAbove
      <3> QED
        BY <1>1, <3>1 DEF Coming, Below
    <2>2. CASE \E i \in DOMAIN stack : \E q \in stack[i].must : Below(p, q)
      BY <1>1, <2>2 DEF Coming, Below
    <2> QED
      BY <1>3, <2>1, <2>2 DEF Coming
  <1> QED
    BY <1>2, <1>3

\* A directory that is opened is no longer ahead itself.
LEMMA PushedMet ==
  ASSUME DirInv, FramesInv, phase = "walk", phase' = "walk", entry # None, entry' = None,
         entry.path \in Paths, NEW x, x = entry.path, stack' = Append(stack, Frame(x))
  PROVE  ~ Ahead(x)'
  <1> DEFINE n == Len(stack) + 1
  <1>1. /\ \A i \in DOMAIN stack : i \in DOMAIN stack' /\ stack'[i] = stack[i]
        /\ n \in DOMAIN stack' /\ stack'[n].dir = x
        /\ \A i \in DOMAIN stack' : i \in DOMAIN stack \/ i = n
    BY PushedFrames DEF DirInv, WalkInv
  <1> HIDE DEF n
  <1>2. \A i \in DOMAIN stack : \E q \in stack[i].seen : Below(x, q)
    BY EntrySeen DEF DirInv, WalkInv
  <1>3. ASSUME NEW i \in DOMAIN stack'
        PROVE  x = stack'[i].dir \/ \E q \in stack'[i].seen : Below(x, q)
    BY <1>1, <1>2
  <1>4. ~ \E i \in DOMAIN stack' : /\ x # stack'[i].dir
                                   /\ \A q \in stack'[i].seen : ~ Below(x, q)
    BY <1>3
  <1> QED
    BY <1>4 DEF Ahead, Below

LEMMA AheadPopped ==
  ASSUME DirInv, FramesInv, phase = "walk", phase' # "start", entry = None, entry' = None, Pop,
         UNCHANGED <<args, before>>, NEW p
  PROVE  (Ahead(p)' => Ahead(p)) /\ (Coming(p) => Coming(p)')
  <1>1. /\ Len(stack) \in Nat /\ stack[Len(stack)].must = {}
        /\ DOMAIN stack = 1 .. Len(stack) /\ DOMAIN stack' = 1 .. Len(stack) - 1
        /\ \A i \in DOMAIN stack' : i \in DOMAIN stack /\ stack'[i] = stack[i]
    BY PoppedFrames DEF DirInv, WalkInv
  <1>2. Ahead(p)' => Ahead(p)
    BY <1>1 DEF Ahead, Below
  <1>3. ASSUME Coming(p) PROVE Coming(p)'
    <2>1. PICK i \in DOMAIN stack : \E q \in stack[i].must : Below(p, q)
      BY <1>3 DEF Coming
    <2>2. i # Len(stack)
      BY <1>1, <2>1
    <2>3. i \in DOMAIN stack' /\ stack'[i] = stack[i]
      BY <1>1, <2>2
    <2> QED
      BY <2>1, <2>3 DEF Coming, Below
  <1> QED
    BY <1>2, <1>3
-----------------------------------------------------------------------------
(* What is collected of what has been passed.                              *)

LEMMA PassedStep ==
  ASSUME NEW M, PassedBy(M), UNCHANGED <<args, before>>,
         NEW N, \/ N = M
                \/ \E x \in Paths : /\ N = M \union {x} /\ Below(x, source) /\ ~ Hidden(x)
                                    /\ ~ Ahead(x)'
                                    /\ opt # "remd" => x \in DOMAIN before \union DOMAIN fs',
         DOMAIN before \intersect DOMAIN fs' \subseteq DOMAIN fs,
         opt # "remd" => DOMAIN fs \subseteq DOMAIN before \union DOMAIN fs',
         \A p \in Paths : Ahead(p)' => Ahead(p),
         \A p \in DOMAIN before \intersect DOMAIN fs' :
             Below(p, source) /\ ~ Hidden(p) /\ Coming(p) => p \in N \/ Coming(p)'
  PROVE  PassedBy(N)'
  <1>1. opt' = opt /\ source' = source /\ \A p : Hidden(p)' = Hidden(p)
    BY DEF opt, source, Hidden
  <1>2. N \in SUBSET Paths /\ IsFiniteSet(N)
    BY FS_AddElement DEF PassedBy
  <1>3. \A p \in N : Below(p, source) /\ ~ Hidden(p) /\ ~ Ahead(p)'
    BY DEF PassedBy
  <1>4. \A p \in DOMAIN before \intersect DOMAIN fs' :
             Below(p, source) /\ ~ Hidden(p) => p \in N \/ Coming(p)'
    BY DEF PassedBy
  <1>5. opt # "remd" => N \subseteq DOMAIN before \union DOMAIN fs'
    BY DEF PassedBy
  <1> QED
    BY <1>1, <1>2, <1>3, <1>4, <1>5 DEF PassedBy, Below

LEMMA CollectedSame ==
  ASSUME NEW M, Collected(M, G), UNCHANGED <<args, before, G>>, gone \subseteq gone',
         opt # "remd" => \A p \in M : Kind(p)' = Kind(p)
  PROVE  Collected(M, G)'
  <1>1. CASE opt = "remd"
    BY <1>1 DEF Collected, opt
  <1>2. CASE opt # "remd"
    <2>1. /\ opt' = opt /\ exts' = exts
          /\ \A p \in M : /\ Reg(p)' = Reg(p) /\ Level1(p)' = Level1(p) /\ Named(p)' = Named(p)
                          /\ IsDir0(p)' = IsDir0(p) /\ (Nonwr(p) => Nonwr(p)')
      BY <1>2 DEF opt, exts, Reg, Level1, Named, IsDir0, Nonwr, source, target
    <2>2. /\ {p \in M : Reg(p)}' = {p \in M : Reg(p)}
          /\ {p \in M : Level1(p)}' = {p \in M : Level1(p)}
          /\ {p \in M : Named(p)}' = {p \in M : Named(p)}
          /\ {p \in M : IsDir0(p)}' = {p \in M : IsDir0(p)}
      BY <2>1
    <2>3. {p \in M : Reg(p) /\ p \in Readonly}' = {p \in M : Reg(p) /\ p \in Readonly}
      BY <2>1
    <2>4. {p \in M : Nonwr(p)} \subseteq {p \in M : Nonwr(p)}'
      BY <2>1
    <2>5. \A i \in DOMAIN exts : {p \in M : Level1(p) /\ HasExt(p, exts[i])}'
                                   = {p \in M : Level1(p) /\ HasExt(p, exts[i])}
      BY <2>1 DEF HasExt
    <2> QED
      BY <2>1, <2>2, <2>3, <2>4, <2>5 DEF Collected
  <1> QED
    BY <1>1, <1>2

\* The sizes that are added are numbers.
LEMMA SizeKnown ==
  ASSUME DirInv, FilesInv, NEW p \in DOMAIN before \union DOMAIN fs, Reg(p)
  PROVE  Size[p] \in Nat
  <1>1. PICK s \in Starts : before = s.fs
    BY DEF DirInv, WalkInv
  <1>2. CASE p \in DOMAIN before
    BY <1>1, <1>2, DirAssumption DEF Reg, Kind
  <1>3. CASE p \notin DOMAIN before
    BY <1>3, DirAssumption DEF FilesInv
  <1> QED
    BY <1>2, <1>3

\* One more of a set that is counted or listed.
LEMMA OneMore ==
  ASSUME NEW M, IsFiniteSet(M), NEW x, x \notin M, NEW T \in SUBSET M
  PROVE  /\ IsFiniteSet(T) /\ Cardinality(T) \in Nat /\ x \notin T
         /\ Cardinality(T \union {x}) = Cardinality(T) + 1
  <1>1. IsFiniteSet(T)
    BY FS_Subset
  <1> QED
    BY <1>1, FS_AddElement, FS_CardinalityType

\* One more at the end of a sequence that has each element once.
LEMMA AppendOnce ==
  ASSUME NEW S, NEW l \in Seq(S), NEW x \in S, x \notin ToSet(l), IsInjective(l)
  PROVE  IsInjective(Append(l, x)) /\ ToSet(Append(l, x)) = ToSet(l) \union {x}
  <1> DEFINE m == Append(l, x)
             n == Len(l)
  <1>1. /\ n \in Nat /\ DOMAIN l = 1 .. n /\ m \in Seq(S) /\ Len(m) = n + 1
        /\ \A i \in 1 .. n : m[i] = l[i]
        /\ m[n + 1] = x
    BY LenProperties, AppendProperties
  <1>2. DOMAIN m = 1 .. n + 1
    BY <1>1, LenProperties
  <1> HIDE DEF m, n
  <1>3. ToSet(m) = ToSet(l) \union {x}
    <2>1. \A i \in DOMAIN m : m[i] = x \/ m[i] \in ToSet(l)
      BY <1>1, <1>2 DEF ToSet
    <2>2. x \in ToSet(m)
      BY <1>1, <1>2 DEF ToSet
    <2>3. ToSet(l) \subseteq ToSet(m)
      BY <1>1, <1>2 DEF ToSet
    <2> QED
      BY <2>1, <2>2, <2>3 DEF ToSet
  <1>4. \A i \in 1 .. n : l[i] # x
    BY <1>1 DEF ToSet
  <1>5. ASSUME NEW i \in DOMAIN m, NEW j \in DOMAIN m, m[i] = m[j] PROVE i = j
    <2>1. CASE i \in 1 .. n /\ j \in 1 .. n
      BY <1>1, <1>5, <2>1 DEF IsInjective
    <2>2. CASE i = n + 1 \/ j = n + 1
      BY <1>1, <1>2, <1>4, <1>5, <2>2
    <2> QED
      BY <1>1, <1>2, <2>1, <2>2
  <1> QED
    BY <1>3, <1>5 DEF IsInjective, m

\* One field of what is collected changes, or none.
LEMMA GatherItems ==
  ASSUME G \in Gathered, NEW x \in Paths, NEW c \in BOOLEAN, NEW g,
         g = IF c THEN [G EXCEPT !.items = @ \union {x}] ELSE G
  PROVE  g \in Gathered /\ g.items = IF c THEN G.items \union {x} ELSE G.items
  <1>1. CASE c
    BY <1>1 DEF Gathered
  <1>2. CASE ~ c
    BY <1>2
  <1> QED
    BY <1>1, <1>2

LEMMA GatherLines ==
  ASSUME G \in Gathered, NEW x \in Paths, NEW g, g = [G EXCEPT !.lines = Append(@, x)]
  PROVE  g \in Gathered /\ g.lines = Append(G.lines, x) /\ G.lines \in Seq(Paths)
  <1>1. G.lines \in Seq(Paths)
    BY DEF Gathered
  <1>2. Append(G.lines, x) \in Seq(Paths)
    BY <1>1, AppendProperties
  <1> QED
    BY <1>1, <1>2 DEF Gathered

LEMMA GatherCounts ==
  ASSUME G \in Gathered, NEW c \in [1 .. 3 -> Nat], NEW g, g = [G EXCEPT !.counts = c]
  PROVE  g \in Gathered /\ g.counts = c
  BY DEF Gathered

LEMMA GatherDirs ==
  ASSUME G \in Gathered, NEW n \in Nat, NEW c \in BOOLEAN, NEW g,
         g = IF c THEN [G EXCEPT !.dir_count = n] ELSE G
  PROVE  g \in Gathered /\ g.dir_count = IF c THEN n ELSE G.dir_count
  <1>1. CASE c
    BY <1>1 DEF Gathered
  <1>2. CASE ~ c
    BY <1>2
  <1> QED
    BY <1>1, <1>2

LEMMA GatherBytes ==
  ASSUME G \in Gathered, NEW n, NEW c \in BOOLEAN, c => n \in Nat, NEW g,
         g = IF c THEN [G EXCEPT !.total_bytes = n] ELSE G
  PROVE  g \in Gathered /\ g.total_bytes = IF c THEN n ELSE G.total_bytes
  <1>1. CASE c
    BY <1>1 DEF Gathered
  <1>2. CASE ~ c
    BY <1>2
  <1> QED
    BY <1>1, <1>2

LEMMA CollectedMore ==
  ASSUME DirInv, FramesInv, FilesInv, opt \notin Moves, opt # "remd", phase = "walk",
         entry # None, G \in Gathered, NEW M \in SUBSET Paths, IsFiniteSet(M),
         \A p \in M : p \in DOMAIN before \union DOMAIN fs,
         NEW x, x = entry.path, x \notin M, Collected(M, G)
  PROVE  Collected(M \union {x}, cb(G, entry)) /\ cb(G, entry) \in Gathered
  <1> DEFINE N == M \union {x}
             g == cb(G, entry)
  <1>1. /\ x \in Paths /\ Below(x, source) /\ x \in DOMAIN before \union DOMAIN fs
        /\ entry.kind = Kind(x) /\ (IsReg(entry) <=> Reg(x)) /\ (Reg(x) => x # <<>>)
        /\ source \in Paths
    BY EntryFacts, Given DEF IsReg, Reg, Dirs, DirInv
  <1>2. Level1(x) <=> IsReg(entry) /\ level(entry.path) = 1
    BY <1>1, LevelOne DEF Level1
  <1>a. CASE opt = "flist"
    <2>1. g = M_FLIST(G, entry)
      BY <1>a DEF cb
    <2>2. g = IF Level1(x) THEN [G EXCEPT !.items = @ \union {x}] ELSE G
      BY <1>2, <2>1 DEF M_FLIST
    <2>b. Level1(x) \in BOOLEAN
      BY DEF Level1
    <2> HIDE DEF g
    <2>3. g \in Gathered /\ g.items = IF Level1(x) THEN G.items \union {x} ELSE G.items
      BY <1>1, <2>2, <2>b, GatherItems, ZenonT(30)
    <2>4. g.items = {p \in N : Level1(p)}
      BY <1>a, <2>3 DEF Collected
    <2> QED
      BY <1>a, <2>3, <2>4 DEF Collected, g
  <1>b. CASE opt = "lfsize"
    <2>1. g = M_LFSIZE(G, entry)
      BY <1>b DEF cb
    <2>2. g = IF Reg(x) THEN [G EXCEPT !.items = @ \union {x}] ELSE G
      BY <1>1, <2>1 DEF M_LFSIZE
    <2>b. Reg(x) \in BOOLEAN
      BY DEF Reg
    <2> HIDE DEF g
    <2>3. g \in Gathered /\ g.items = IF Reg(x) THEN G.items \union {x} ELSE G.items
      BY <1>1, <2>2, <2>b, GatherItems, ZenonT(30)
    <2>4. g.items = {p \in N : Reg(p)}
      BY <1>b, <2>3 DEF Collected
    <2> QED
      BY <1>b, <2>3, <2>4 DEF Collected, g
  <1>c. CASE opt = "nonwr"
    <2>1. g = M_NONWR(G, entry)
      BY <1>c DEF cb
    <2>2. ~ Exists(x) => x \in gone \/ ~ Reg(x)
      BY <1>1, <1>c DEF FilesInv, Exists
    <2> DEFINE listed == Reg(x) /\ (~ Exists(x) \/ x \in Readonly)
    <2>3. g = IF listed THEN [G EXCEPT !.items = @ \union {x}] ELSE G
      BY <1>1, <2>1 DEF M_NONWR
    <2>5. (Reg(x) /\ x \in Readonly => listed) /\ (listed => Nonwr(x))
      BY <2>2 DEF Nonwr
    <2>a. listed \in BOOLEAN
      OBVIOUS
    <2> HIDE DEF listed, g
    <2>4. g \in Gathered /\ g.items = IF listed THEN G.items \union {x} ELSE G.items
      BY <1>1, <2>3, <2>a, GatherItems, ZenonT(30)
    <2>6. /\ {p \in N : Reg(p) /\ p \in Readonly} \subseteq g.items
          /\ g.items \subseteq {p \in N : Nonwr(p)}
      BY <1>c, <2>4, <2>5 DEF Collected
    <2> QED
      BY <1>c, <2>4, <2>6 DEF Collected, g
  <1>d. CASE opt = "srchf"
    <2>1. g = M_SRCHF(G, entry)
      BY <1>d DEF cb
    <2>2. CASE ~ Named(x)
      <3>1. g = G
        BY <1>1, <2>1, <2>2 DEF M_SRCHF, Named, base_name_view
      <3>2. {p \in N : Named(p)} = {p \in M : Named(p)}
        BY <2>2
      <3> QED
        BY <1>d, <3>1, <3>2 DEF Collected
    <2>3. CASE Named(x)
      <3>1. g = [G EXCEPT !.lines = Append(@, x)]
        BY <1>1, <2>1, <2>3 DEF M_SRCHF, Named, base_name_view
      <3> HIDE DEF g
      <3>2. g \in Gathered /\ g.lines = Append(G.lines, x) /\ G.lines \in Seq(Paths)
        BY <1>1, <3>1, GatherLines, ZenonT(30)
      <3>3. ToSet(G.lines) = {p \in M : Named(p)} /\ IsInjective(G.lines)
        BY <1>d DEF Collected
      <3>4. x \notin ToSet(G.lines)
        BY <3>3
      <3>5. ToSet(g.lines) = ToSet(G.lines) \union {x} /\ IsInjective(g.lines)
        BY <1>1, <3>2, <3>3, <3>4, AppendOnce
      <3>8. {p \in N : Named(p)} = {p \in M : Named(p)} \union {x}
        BY <2>3
      <3> QED
        BY <1>d, <3>2, <3>3, <3>5, <3>8 DEF Collected, g
    <2> QED
      BY <2>2, <2>3
  <1>e. CASE opt = "tcount"
    <2>1. g = M_TCOUNT(G, entry)
      BY <1>e DEF cb
    <2>2. exts \in Seq(Seq(DOMAIN Code)) /\ Len(exts) =< 3
      BY DirAssumption DEF exts, DirInv, WalkInv
    <2>3. /\ DOMAIN exts = 1 .. Len(exts) /\ Len(exts) \in Nat
          /\ \A i \in DOMAIN exts : exts[i] \in Seq(DOMAIN Code) /\ i \in 1 .. 3 /\ i =< Len(exts)
      <3>1. DOMAIN exts = 1 .. Len(exts) /\ Len(exts) \in Nat
        BY <2>2, LenProperties
      <3>2. \A i \in DOMAIN exts : exts[i] \in Seq(DOMAIN Code)
        BY <2>2, <3>1, ElementOfSeq
      <3>3. ASSUME NEW i \in DOMAIN exts PROVE i \in 1 .. 3 /\ i =< Len(exts)
        <4>1. i \in 1 .. Len(exts)
          BY <3>1
        <4> QED
          BY <2>2, <3>1, <4>1
      <3> QED
        BY <3>1, <3>2, <3>3
    <2>4. CASE ~ Level1(x)
      <3>1. g = G
        BY <1>2, <2>1, <2>4 DEF M_TCOUNT
      <3>2. \A i \in DOMAIN exts : {p \in N : Level1(p) /\ HasExt(p, exts[i])}
                                       = {p \in M : Level1(p) /\ HasExt(p, exts[i])}
        BY <2>4
      <3> QED
        BY <1>e, <3>1, <3>2 DEF Collected
    <2>5. CASE Level1(x)
      <3> DEFINE c == [i \in 1 .. 3 |->
                         IF i =< Len(exts) /\ ends_with_ext(base_name_view(entry.path), exts[i])
                         THEN G.counts[i] + 1 ELSE G.counts[i]]
      <3>1. g = [G EXCEPT !.counts = c]
        BY <1>2, <2>1, <2>5 DEF M_TCOUNT
      <3>2. G.counts \in [1 .. 3 -> Nat]
        BY DEF Gathered
      <3>3. c \in [1 .. 3 -> Nat]
        BY <3>2
      <3> HIDE DEF c, g
      <3>4. g \in Gathered /\ g.counts = c
        BY <3>1, <3>3, GatherCounts, ZenonT(30)
      <3>5. ASSUME NEW i \in DOMAIN exts
            PROVE c[i] = Cardinality({p \in N : Level1(p) /\ HasExt(p, exts[i])})
        <4> DEFINE S == {p \in M : Level1(p) /\ HasExt(p, exts[i])}
                   T == {p \in N : Level1(p) /\ HasExt(p, exts[i])}
        <4>1. ends_with_ext(base_name_view(x), exts[i]) <=> HasExt(x, exts[i])
          BY <1>1, <2>3, <2>5, EndsIsHas DEF Level1
        <4>2. G.counts[i] = Cardinality(S)
          BY <1>e DEF Collected
        <4>6. S \subseteq M
          OBVIOUS
        <4>3. Cardinality(S \union {x}) = Cardinality(S) + 1
          <5> HIDE DEF S
          <5>1. IsFiniteSet(S) /\ x \notin S
            BY <4>6, FS_Subset
          <5> QED
            BY <5>1, FS_AddElement
        <4>4. IF HasExt(x, exts[i]) THEN T = S \union {x} ELSE T = S
          BY <2>5
        <4>5. c[i] = IF HasExt(x, exts[i]) THEN G.counts[i] + 1 ELSE G.counts[i]
          BY <1>1, <2>3, <4>1 DEF c
        <4> HIDE DEF S, T
        <4> QED
          BY <4>2, <4>3, <4>4, <4>5 DEF T
      <3> QED
        BY <1>e, <3>4, <3>5 DEF Collected, g
    <2> QED
      BY <2>4, <2>5
  <1>f. CASE opt = "dircnt"
    <2>1. g = M_DIRCNT(G, entry)
      BY <1>f DEF cb
    <2> DEFINE S == {p \in M : IsDir0(p)}
    <2>2. G.dir_count = Cardinality(S) /\ G.dir_count \in Nat
      BY <1>f DEF Collected, Gathered
    <2>3. Cardinality(S \union {x}) = Cardinality(S) + 1
      BY OneMore
    <2>4. {p \in N : IsDir0(p)} = IF IsDir0(x) THEN S \union {x} ELSE S
      OBVIOUS
    <2>a. g = IF IsDir0(x) THEN [G EXCEPT !.dir_count = G.dir_count + 1] ELSE G
      BY <1>1, <2>1 DEF M_DIRCNT, IsDir0
    <2>b. G.dir_count + 1 \in Nat
      BY <2>2
    <2> HIDE DEF g
    <2>5. g \in Gathered /\ g.dir_count = IF IsDir0(x) THEN G.dir_count + 1 ELSE G.dir_count
      BY <2>a, <2>b, GatherDirs, Zenon DEF IsDir0
    <2> HIDE DEF S
    <2>6. g.dir_count = Cardinality({p \in N : IsDir0(p)})
      BY <2>2, <2>3, <2>4, <2>5
    <2> QED
      BY <1>f, <2>5, <2>6 DEF Collected, g
  <1>g. CASE opt = "sumfilesize"
    <2>1. g = M_SUMFILESIZE(G, entry)
      BY <1>g DEF cb
    <2> DEFINE S == {p \in M : Reg(p)}
    <2>2. G.total_bytes = Bytes(S) /\ G.total_bytes \in Nat
      BY <1>g DEF Collected, Gathered
    <2>c. S \in SUBSET M
      OBVIOUS
    <2>3. IsFiniteSet(S) /\ x \notin S
      BY <2>c, FS_Subset
    <2>4. \A p \in N : Reg(p) => Size[p] \in Nat
      BY <1>1, SizeKnown
    <2>5. Reg(x) => Bytes(S \union {x}) = Bytes(S) + Size[x]
      BY <2>3, <2>4, BytesAdd
    <2>6. {p \in N : Reg(p)} = IF Reg(x) THEN S \union {x} ELSE S
      OBVIOUS
    <2>a. g = IF Reg(x) THEN [G EXCEPT !.total_bytes = G.total_bytes + Size[x]] ELSE G
      BY <1>1, <2>1 DEF M_SUMFILESIZE
    <2>b. Reg(x) => G.total_bytes + Size[x] \in Nat
      BY <2>2, <2>4
    <2> HIDE DEF g
    <2>7. g \in Gathered /\ g.total_bytes = IF Reg(x) THEN G.total_bytes + Size[x] ELSE G.total_bytes
      BY <2>a, <2>b, GatherBytes, Zenon DEF Reg
    <2> HIDE DEF S
    <2>8. g.total_bytes = Bytes({p \in N : Reg(p)})
      BY <2>2, <2>5, <2>6, <2>7
    <2> QED
      BY <1>g, <2>7, <2>8 DEF Collected, g
  <1>h. CASE opt \notin Reports
    <2>1. g = G
      BY <1>h DEF cb, Reports
    <2> QED
      BY <1>h, <2>1 DEF Collected, Reports
  <1> QED
    BY <1>a, <1>b, <1>c, <1>d, <1>e, <1>f, <1>g, <1>h DEF Reports

\* What -remd has removed and what it has warned of stay counted.
LEMMA RemovedStep ==
  ASSUME NEW M, Removed(M), UNCHANGED <<args, before, G, warns>>, NEW N, M \subseteq N,
         (DOMAIN before \ DOMAIN fs') \ gone' = (DOMAIN before \ DOMAIN fs) \ gone,
         DOMAIN before \intersect DOMAIN fs' \subseteq DOMAIN fs,
         \A p \in N \ M : p \in DOMAIN before \intersect DOMAIN fs' => ~ Matches(p)
  PROVE  Removed(N)'
  <1>1. exts' = exts /\ \A p \in DOMAIN before : Matches(p)' = Matches(p)
    BY DEF exts, Matches, Reg, Kind, HasExt
  <1>2. PICK R \in SUBSET M :
           /\ G.removed_files = Cardinality(R)
           /\ R \intersect DOMAIN before = (DOMAIN before \ DOMAIN fs) \ gone
           /\ R \ DOMAIN before \subseteq {p \in Extra : HasExt(p, exts[1])}
    BY DEF Removed
  <1>3. PICK W \in SUBSET M :
           /\ Cardinality(W) =< warns
           /\ \A p \in M \intersect DOMAIN before \intersect DOMAIN fs : Matches(p) => p \in W
    BY DEF Removed
  <1>4. \A p \in N \intersect DOMAIN before \intersect DOMAIN fs' : Matches(p) => p \in W
    BY <1>3
  <1>5. R \in SUBSET N /\ W \in SUBSET N
    OBVIOUS
  <1>6. \E S \in SUBSET N :
           /\ G'.removed_files = Cardinality(S)
           /\ S \intersect DOMAIN before' = (DOMAIN before' \ DOMAIN fs') \ gone'
           /\ S \ DOMAIN before' \subseteq {p \in Extra : HasExt(p, exts'[1])}
    BY <1>1, <1>2, <1>5
  <1>7. \E S \in SUBSET N :
           /\ Cardinality(S) =< warns'
           /\ \A p \in N \intersect DOMAIN before' \intersect DOMAIN fs' : Matches(p)' => p \in S
    BY <1>1, <1>3, <1>4, <1>5
  <1> QED
    BY <1>6, <1>7 DEF Removed, HasExt

\* -remd removes one more, or warns of it.
LEMMA RemovedMore ==
  ASSUME NEW M, IsFiniteSet(M), Removed(M), UNCHANGED <<args, before, gone>>, NEW x, x \notin M,
         warns \in Nat, DOMAIN fs \subseteq DOMAIN before \union Extra,
         gone \intersect DOMAIN fs = {}, HasExt(x, exts[1]),
         \/ /\ x \in DOMAIN fs /\ DOMAIN fs' = DOMAIN fs \ {x} /\ warns' = warns
            /\ G'.removed_files = G.removed_files + 1
         \/ fs' = fs /\ G' = G /\ warns' = warns + 1
  PROVE  Removed(M \union {x})'
  <1> DEFINE N == M \union {x}
  <1>1. exts' = exts /\ \A p \in DOMAIN before : Matches(p)' = Matches(p)
    BY DEF exts, Matches, Reg, Kind, HasExt
  <1>2. PICK R \in SUBSET M :
           /\ G.removed_files = Cardinality(R)
           /\ R \intersect DOMAIN before = (DOMAIN before \ DOMAIN fs) \ gone
           /\ R \ DOMAIN before \subseteq {p \in Extra : HasExt(p, exts[1])}
    BY DEF Removed
  <1>3. PICK W \in SUBSET M :
           /\ Cardinality(W) =< warns
           /\ \A p \in M \intersect DOMAIN before \intersect DOMAIN fs : Matches(p) => p \in W
    BY DEF Removed
  <1>4. Cardinality(R \union {x}) = Cardinality(R) + 1
    BY OneMore
  <1>8. Cardinality(W \union {x}) = Cardinality(W) + 1 /\ Cardinality(W) \in Nat
    BY OneMore
  <1>5. R \union {x} \in SUBSET N /\ W \union {x} \in SUBSET N /\ R \in SUBSET N /\ W \in SUBSET N
    OBVIOUS
  <1>6. \E S \in SUBSET N :
           /\ G'.removed_files = Cardinality(S)
           /\ S \intersect DOMAIN before' = (DOMAIN before' \ DOMAIN fs') \ gone'
           /\ S \ DOMAIN before' \subseteq {p \in Extra : HasExt(p, exts'[1])}
    <2>1. CASE x \in DOMAIN fs /\ DOMAIN fs' = DOMAIN fs \ {x} /\ G'.removed_files = G.removed_files + 1
      <3>1. (R \union {x}) \intersect DOMAIN before' = (DOMAIN before' \ DOMAIN fs') \ gone'
        BY <1>2, <2>1
      <3>2. (R \union {x}) \ DOMAIN before' \subseteq {p \in Extra : HasExt(p, exts'[1])}
        BY <1>1, <1>2, <2>1
      <3> QED
        BY <1>2, <1>4, <1>5, <2>1, <3>1, <3>2
    <2>2. CASE fs' = fs /\ G' = G
      BY <1>1, <1>2, <1>5, <2>2
    <2> QED
      BY <2>1, <2>2
  <1>7. \E S \in SUBSET N :
           /\ Cardinality(S) =< warns'
           /\ \A p \in N \intersect DOMAIN before' \intersect DOMAIN fs' : Matches(p)' => p \in S
    <2>1. CASE DOMAIN fs' = DOMAIN fs \ {x} /\ warns' = warns
      BY <1>1, <1>3, <1>5, <2>1
    <2>2. CASE fs' = fs /\ warns' = warns + 1
      <3>1. Cardinality(W \union {x}) =< warns'
        BY <1>3, <1>8, <2>2
      <3>2. \A p \in N \intersect DOMAIN before' \intersect DOMAIN fs' :
               Matches(p)' => p \in W \union {x}
        BY <1>1, <1>3, <2>2
      <3> QED
        BY <1>5, <3>1, <3>2
    <2> QED
      BY <2>1, <2>2
  <1> QED
    BY <1>6, <1>7 DEF Removed, HasExt
-----------------------------------------------------------------------------
(* Every step of a report keeps its account.                               *)

LEMMA MetSame ==
  ASSUME NEW M, Met(M), UNCHANGED <<args, before, G, warns>>, gone \subseteq gone',
         DOMAIN before \intersect DOMAIN fs' \subseteq DOMAIN fs,
         opt # "remd" => DOMAIN fs \subseteq DOMAIN before \union DOMAIN fs',
         (DOMAIN before \ DOMAIN fs') \ gone' = (DOMAIN before \ DOMAIN fs) \ gone,
         \A p \in DOMAIN before \union DOMAIN fs : Kind(p)' = Kind(p),
         \A p \in Paths : Ahead(p)' => Ahead(p),
         \A p \in DOMAIN before \intersect DOMAIN fs' :
             Below(p, source) /\ ~ Hidden(p) /\ Coming(p) => p \in M \/ Coming(p)'
  PROVE  Met(M)'
  <1>1. PassedBy(M)'
    BY PassedStep DEF Met
  <1>2. Collected(M, G)'
    <2>1. opt # "remd" => \A p \in M : Kind(p)' = Kind(p)
      BY DEF Met, PassedBy
    <2> QED
      BY <2>1, CollectedSame DEF Met
  <1>3. opt = "remd" => Removed(M)'
    BY RemovedStep DEF Met
  <1>4. opt' = opt
    BY DEF opt
  <1> QED
    BY <1>1, <1>2, <1>3, <1>4 DEF Met

\* What the callback is due for has not been passed yet.
LEMMA NotYet ==
  ASSUME NEW M, Met(M), entry # None, entry.path \in Paths
  PROVE  entry.path \notin M
  <1>1. Below(entry.path, entry.path)
    BY BelowSelf DEF Paths
  <1> QED
    BY <1>1 DEF Met, PassedBy, Ahead

LEMMA FirstExt ==
  ASSUME DirInv, opt = "remd"
  PROVE  exts[1] \in Seq(DOMAIN Code)
  <1>1. exts \in Seq(Seq(DOMAIN Code)) /\ exts # <<>>
    BY Given DEF DirInv
  <1>2. 1 \in DOMAIN exts
    BY <1>1, EmptySeq, LenProperties
  <1> QED
    BY <1>1, <1>2, ElementOfSeq

LEMMA MetMore ==
  ASSUME DirInv, FramesInv, FilesInv, opt \notin Moves, phase = "walk", entry # None,
         ~ Removes(entry), G \in Gathered, NEW M, Met(M), NEW x, x = entry.path,
         UNCHANGED <<fs, args, before, gone, warns>>, G' = cb(G, entry),
         entry.kind # "locked", ~ Ahead(x)', \A p \in Paths : Ahead(p)' => Ahead(p),
         \A p \in DOMAIN before \intersect DOMAIN fs' :
             Below(p, source) /\ ~ Hidden(p) /\ Coming(p) => p \in M \union {x} \/ Coming(p)'
  PROVE  Met(M \union {x})' /\ G' \in Gathered
  <1> DEFINE N == M \union {x}
  <1>1. /\ x \in Paths /\ Below(x, source) /\ x \in DOMAIN before \union DOMAIN fs
        /\ entry.kind = Kind(x) /\ (IsReg(entry) <=> Reg(x)) /\ (Reg(x) => x # <<>>)
        /\ ~ Hidden(x)
    BY EntryFacts DEF IsReg, Reg, Dirs
  <1>2. x \notin M
    BY <1>1, NotYet
  <1>3. PassedBy(M) /\ Collected(M, G) /\ (opt = "remd" => Removed(M))
    BY DEF Met
  <1>4. PassedBy(N)'
    <2>1. \E y \in Paths : /\ N = M \union {y} /\ Below(y, source) /\ ~ Hidden(y)
                           /\ ~ Ahead(y)'
                           /\ opt # "remd" => y \in DOMAIN before \union DOMAIN fs'
      BY <1>1
    <2> HIDE DEF N
    <2> QED
      BY <1>3, <2>1, PassedStep DEF N
  <1>5. opt' = opt /\ exts' = exts
    BY DEF opt, exts
  <1>6. CASE opt = "remd"
    <2>1. G' = G
      BY <1>6 DEF cb
    <2>2. Collected(N, G)'
      BY <1>5, <1>6 DEF Collected
    <2>3. ~ Matches(x)
      BY <1>1, <1>6, FirstExt, EndsIsHas DEF Matches, Removes
    <2>4. Removed(N)'
      BY <1>3, <1>6, <2>1, <2>3, RemovedStep
    <2> QED
      BY <1>4, <2>1, <2>2, <2>4 DEF Met
  <1>7. CASE opt # "remd"
    <2>1. Collected(N, cb(G, entry)) /\ cb(G, entry) \in Gathered
      BY <1>2, <1>3, <1>7, CollectedMore DEF PassedBy
    <2>2. \A p : Kind(p)' = Kind(p)
      BY DEF Kind
    <2>3. Collected(N, G)'
      <3>1. /\ opt' = opt /\ exts' = exts
            /\ \A p : /\ Reg(p)' = Reg(p) /\ Level1(p)' = Level1(p) /\ Named(p)' = Named(p)
                      /\ IsDir0(p)' = IsDir0(p) /\ Nonwr(p)' = Nonwr(p)
        BY <2>2 DEF opt, exts, Reg, Level1, Named, IsDir0, Nonwr, source, target
      <3>2. /\ {p \in N : Reg(p)}' = {p \in N : Reg(p)}
            /\ {p \in N : Level1(p)}' = {p \in N : Level1(p)}
            /\ {p \in N : Named(p)}' = {p \in N : Named(p)}
            /\ {p \in N : IsDir0(p)}' = {p \in N : IsDir0(p)}
            /\ {p \in N : Nonwr(p)}' = {p \in N : Nonwr(p)}
            /\ {p \in N : Reg(p) /\ p \in Readonly}' = {p \in N : Reg(p) /\ p \in Readonly}
        BY <3>1
      <3>3. \A i \in DOMAIN exts : {p \in N : Level1(p) /\ HasExt(p, exts[i])}'
                                     = {p \in N : Level1(p) /\ HasExt(p, exts[i])}
        BY <3>1 DEF HasExt
      <3>4. G' = cb(G, entry)
        OBVIOUS
      <3> HIDE DEF N
      <3> QED
        BY <2>1, <3>1, <3>2, <3>3, <3>4 DEF Collected
    <2> QED
      BY <1>4, <1>5, <1>7, <2>1, <2>3 DEF Met
  <1> QED
    BY <1>6, <1>7

LEMMA CheckRootReport ==
  ASSUME DirInv, ReportInv, opt \notin Moves, CheckRoot
  PROVE  ReportInv'
  <1>1. /\ phase = "args" /\ phase' \in {"start", "refused"} /\ fs = before
        /\ UNCHANGED <<fs, args, stack, warns, before, entry, G, out, gone>> /\ warns \in Nat
        /\ opt' = opt /\ exts' = exts
    BY DEF CheckRoot, report, DirInv, CheckedInv, WalkInv, opt, exts
  <1>2. FramesInv /\ FilesInv /\ G = G0 /\ gone = {} /\ entry = None /\ stack = <<>> /\ G \in Gathered
    BY <1>1 DEF ReportInv, FilesInv, FramesInv
  <1>3. FramesInv'
    BY <1>1, <1>2, FramesStay
  <1>4. FilesInv'
    BY <1>1, <1>2, FilesSame
  <1>5. phase' = "start" => Met({})'
    <2> SUFFICES ASSUME phase' = "start" PROVE Met({})'
      OBVIOUS
    <2>1. PassedBy({})'
      BY FS_EmptySet DEF PassedBy, Coming
    <2>2. Collected({}, G)'
      <3>1. /\ G'.items = {} /\ G'.lines = <<>> /\ G'.counts = <<0, 0, 0>> /\ G'.dir_count = 0
            /\ G'.total_bytes = 0
        BY <1>1, <1>2 DEF G0
      <3>2. \A i \in DOMAIN exts : i \in 1 .. 3
        <4>1. exts \in Seq(Seq(DOMAIN Code)) /\ Len(exts) =< 3
          BY DirAssumption DEF exts, DirInv, WalkInv
        <4>2. DOMAIN exts = 1 .. Len(exts) /\ Len(exts) \in Nat
          BY <4>1, LenProperties
        <4>3. \A i : i \in 1 .. Len(exts) => i \in 1 .. 3
          <5> HIDE DEF exts
          <5> QED
            BY <4>1, <4>2
        <4> QED
          BY <4>2, <4>3
      <3>3. \A i \in DOMAIN exts : G'.counts[i] = 0
        BY <3>1, <3>2
      <3>4. IsInjective(<<>>) /\ ToSet(<<>>) = {} /\ Cardinality({}) = 0
        BY FS_EmptySet DEF IsInjective, ToSet
      <3>5. Bytes({}) = 0
        BY BytesNat, FS_EmptySet
      <3>6. /\ {p \in {} : Reg(p)}' = {} /\ {p \in {} : Level1(p)}' = {}
            /\ {p \in {} : Named(p)}' = {} /\ {p \in {} : IsDir0(p)}' = {}
            /\ {p \in {} : Reg(p) /\ p \in Readonly}' = {}
            /\ \A i : {p \in {} : Level1(p) /\ HasExt(p, exts[i])}' = {}
        OBVIOUS
      <3> QED
        BY <1>1, <3>1, <3>3, <3>4, <3>5, <3>6 DEF Collected
    <2>3. Removed({})'
      <3>1. G'.removed_files = 0 /\ Cardinality({}) = 0 /\ warns' \in Nat
        BY <1>1, <1>2, FS_EmptySet DEF G0
      <3>2. DOMAIN before' \ DOMAIN fs' = {}
        BY <1>1
      <3> QED
        BY <3>1, <3>2 DEF Removed
    <2> QED
      BY <2>1, <2>2, <2>3 DEF Met
  <1> QED
    BY <1>1, <1>2, <1>3, <1>4, <1>5 DEF ReportInv

\* Nothing has been removed before the walk begins.
LEMMA StartMet ==
  ASSUME FilesInv, G = G0, NEW M, Met(M)
  PROVE  DOMAIN before \ DOMAIN fs \subseteq gone
  <1>1. CASE opt # "remd"
    BY <1>1 DEF FilesInv
  <1>2. CASE opt = "remd"
    <2>1. PICK R \in SUBSET M :
             /\ G.removed_files = Cardinality(R)
             /\ R \intersect DOMAIN before = (DOMAIN before \ DOMAIN fs) \ gone
      BY <1>2 DEF Met, Removed
    <2>2. IsFiniteSet(R) /\ Cardinality(R) = 0
      BY <2>1, FS_Subset DEF Met, PassedBy, G0
    <2>3. R = {}
      BY <2>2, FS_EmptySet
    <2> QED
      BY <2>1, <2>3
  <1> QED
    BY <1>1, <1>2

LEMMA WalkRootReport ==
  ASSUME DirInv, ReportInv, opt \notin Moves, WalkRoot
  PROVE  ReportInv'
  <1>1. /\ phase = "start" /\ UNCHANGED <<fs, args, stack, warns, before, G, out, gone>>
        /\ opt' = opt /\ source' = source /\ source \in DOMAIN before
    BY DEF WalkRoot, Same, opt, source, DirInv, CheckedInv
  <1>2. FramesInv /\ FilesInv /\ G = G0 /\ entry = None /\ stack = <<>> /\ G \in Gathered
    BY <1>1 DEF ReportInv, FramesInv
  <1>3. PICK M : Met(M)
    BY <1>1 DEF ReportInv
  <1>4. CASE Exists(source)
    <2>1. phase' = "walk" /\ entry' = Stat(source) /\ source \in DOMAIN fs
      BY <1>4 DEF WalkRoot, Exists
    <2>2. entry' # None /\ entry'.path = source
      <3>1. fs[source].kind \in Kinds
        BY <2>1 DEF DirInv, WalkInv, Nodes
      <3> QED
        BY <2>1, <3>1 DEF Stat, None, Kinds, Dirs
    <2>3. FramesInv'
      BY <1>1, <1>2, <2>1 DEF FramesInv
    <2>4. FilesInv'
      BY <1>1, <1>2, <2>1, FilesSame
    <2>5. \A p : Kind(p)' = Kind(p) /\ Ahead(p)
      BY <1>1 DEF Kind, Ahead
    <2>6. \A p : Below(p, source) => Coming(p)'
      BY <2>2 DEF Coming, Below
    <2>7. Met(M)'
      BY <1>1, <1>3, <2>5, <2>6, MetSame
    <2> QED
      BY <1>1, <1>2, <2>1, <2>3, <2>4, <2>7 DEF ReportInv
  <1>5. CASE ~ Exists(source)
    <2>1. phase' = "died" /\ entry' = entry /\ source \notin DOMAIN fs
      BY <1>5 DEF WalkRoot, Exists
    <2>3. FramesInv'
      BY <1>1, <1>2, <2>1, FramesStay
    <2>4. FilesInv'
      BY <1>1, <1>2, <2>1, FilesSame
    <2> QED
      BY <1>1, <1>2, <2>1, <2>3, <2>4 DEF ReportInv
  <1> QED
    BY <1>4, <1>5

LEMMA StatEntryReport ==
  ASSUME DirInv, ReportInv, opt \notin Moves, NEW x, StatEntry(x)
  PROVE  ReportInv'
  <1>1. /\ phase = "walk" /\ phase' = "walk" /\ entry = None /\ Visit(x) /\ stack' = Mark(x)
        /\ entry' = (IF Exists(x) THEN Stat(x) ELSE None)
        /\ UNCHANGED <<fs, args, warns, before, G, out, gone>> /\ opt' = opt
    BY DEF StatEntry, Passed, Same, opt
  <1>2. FramesInv /\ FilesInv /\ G \in Gathered
    BY DEF ReportInv
  <1>3. PICK M : Met(M)
    BY <1>1 DEF ReportInv
  <1>4. entry' = None \/ (entry' # None /\ entry'.path = x)
    <2>1. Exists(x) => Stat(x).path = x /\ Stat(x).kind \in Kinds
      BY DEF DirInv, WalkInv, Exists, Stat, Nodes
    <2> QED
      BY <1>1, <2>1
  <1>5. FramesInv' /\ x \in Paths /\ EntryOf(x, Top.dir) /\ stack # <<>>
    BY <1>1, <1>2, <1>4, FramesPassed
  <1>6. FilesInv'
    <2>1. entry' = None \/ \E p \in DOMAIN fs : entry' = Stat(p)
      BY <1>1 DEF Exists
    <2> QED
      BY <1>1, <1>2, <2>1, FilesSame
  <1>7. \A p \in Paths : /\ Ahead(p)' => Ahead(p)
                         /\ Coming(p) => Coming(p)' \/ (Below(p, x) /\ entry' = None)
    BY <1>1, <1>2, <1>4, AheadPassed
  <1>8. Exists(x) => entry' # None
    <2>1. Exists(x) => Stat(x).kind \in Kinds
      BY DEF DirInv, WalkInv, Exists, Stat, Nodes
    <2> QED
      BY <1>1, <2>1 DEF None, Kinds, Dirs
  <1>9. ASSUME NEW p \in DOMAIN before \intersect DOMAIN fs', Coming(p)
        PROVE  Coming(p)'
    <2>1. p \in Paths /\ Upward(p) \subseteq DOMAIN fs
      BY <1>1, <1>2 DEF FilesInv, DirInv, WalkInv
    <2>2. Len(x) >= 1
      <3>1. Len(stack) \in DOMAIN stack
        BY <1>5, EmptySeq, LenProperties DEF DirInv, WalkInv, StackInv
      <3>2. Top.dir \in Paths
        BY <3>1, FrameTypes DEF DirInv, WalkInv, Top
      <3> QED
        BY <1>5, <3>2, PathNames DEF EntryOf
    <2>3. Below(p, x) => Exists(x)
      BY <1>5, <2>1, <2>2, UpwardOf DEF Exists
    <2> QED
      BY <1>7, <1>8, <1>9, <2>1, <2>3
  <1>10. \A p : Kind(p)' = Kind(p)
    BY <1>1 DEF Kind
  <1>11. Met(M)'
    BY <1>1, <1>3, <1>7, <1>9, <1>10, MetSame
  <1> QED
    BY <1>1, <1>2, <1>5, <1>6, <1>11 DEF ReportInv

LEMMA PassFileReport ==
  ASSUME DirInv, ReportInv, opt \notin Moves, PassFile
  PROVE  ReportInv'
  <1> DEFINE x == entry.path
  <1>1. /\ phase = "walk" /\ entry # None /\ entry.kind \notin {"dir", "locked"}
        /\ ~ Removes(entry) /\ G' = cb(G, entry) /\ entry' = None /\ phase' = Back(stack)
        /\ UNCHANGED <<fs, args, stack, warns, before, out, gone>> /\ opt' = opt
    BY DEF PassFile, Same, opt
  <1>2. FramesInv /\ FilesInv /\ G \in Gathered
    BY DEF ReportInv
  <1>3. PICK M : Met(M)
    BY <1>1 DEF ReportInv
  <1>4. x \in Paths /\ \A p \in DOMAIN before : Below(p, x) => p = x
    BY <1>1, <1>2, EntryFacts DEF Dirs
  <1>5. phase' \in {"walk", "print"} /\ (phase' = "print" => stack = <<>>)
    BY <1>1 DEF Back
  <1>6. FramesInv'
    BY <1>1, <1>2, <1>5, FramesStay
  <1>7. FilesInv'
    BY <1>1, <1>2, <1>5, FilesSame
  <1> HIDE DEF x
  <1>8. x = entry.path
    BY DEF x
  <1>9. PICK y : y = x
    OBVIOUS
  <1>10. ~ Ahead(y)' /\ \A p \in Paths : /\ Ahead(p)' => Ahead(p)
                                         /\ Coming(p) => Coming(p)' \/ Below(p, y)
    BY <1>1, <1>2, <1>4, <1>5, <1>8, <1>9, AheadStays
  <1>11. \A p \in DOMAIN before \intersect DOMAIN fs' : Coming(p) => p \in M \union {y} \/ Coming(p)'
    BY <1>4, <1>9, <1>10, Given DEF DirInv
  <1>12. Met(M \union {y})' /\ G' \in Gathered
    BY <1>1, <1>2, <1>3, <1>8, <1>9, <1>10, <1>11, MetMore
  <1> QED
    BY <1>1, <1>2, <1>5, <1>6, <1>7, <1>12 DEF ReportInv

LEMMA PassDirReport ==
  ASSUME DirInv, ReportInv, opt \notin Moves, PassDir
  PROVE  ReportInv'
  <1>1. /\ phase = "walk" /\ entry.kind \in Dirs /\ entry # None /\ entry' = None
        /\ UNCHANGED <<fs, args, warns, before, out, gone>> /\ opt' = opt
    BY DEF PassDir, Same, opt, Dirs, None
  <1>2. FramesInv /\ FilesInv /\ G \in Gathered
    BY DEF ReportInv
  <1>3. PICK M : Met(M)
    BY <1>1 DEF ReportInv
  <1>4. PICK x : x = entry.path
    OBVIOUS
  <1>5. /\ x \in Paths /\ Below(x, source) /\ x \in DOMAIN before \union DOMAIN fs
        /\ entry.kind = Kind(x) /\ ~ Removes(entry)
        /\ entry.kind # "locked" => ~ Hidden(x)
        /\ entry.kind = "locked" => x \in DOMAIN before /\ before[x].kind = "locked"
    BY <1>1, <1>2, <1>4, EntryFacts DEF Removes, IsReg, Dirs
  <1>6. \A p : Kind(p)' = Kind(p)
    BY <1>1 DEF Kind
  <1>7. CASE ~ Exists(x)
    <2>1. phase' = "died" /\ UNCHANGED <<stack, G>>
      BY <1>4, <1>7 DEF PassDir
    <2>3. FramesInv' /\ FilesInv'
      BY <1>1, <1>2, <2>1, FramesStay, FilesSame
    <2> QED
      BY <1>1, <1>2, <2>1, <2>3 DEF ReportInv
  <1>8. CASE Exists(x) /\ entry.kind = "locked"
    <2>1. phase' = Back(stack) /\ UNCHANGED <<stack, G>>
      BY <1>4, <1>8 DEF PassDir
    <2>2. phase' \in {"walk", "print"} /\ (phase' = "print" => stack = <<>>)
      BY <2>1 DEF Back
    <2>3. FramesInv' /\ FilesInv'
      BY <1>1, <1>2, <2>1, <2>2, FramesStay, FilesSame
    <2>4. \A p \in Paths : /\ Ahead(p)' => Ahead(p)
                           /\ Coming(p) => Coming(p)' \/ Below(p, x)
      BY <1>1, <1>2, <1>4, <1>5, <2>1, <2>2, AheadStays
    <2>5. \A p \in Paths : Below(p, x) => Hidden(p)
      BY <1>5, <1>8, HiddenAt, Given DEF DirInv
    <2>6. \A p \in DOMAIN before \intersect DOMAIN fs' :
             Below(p, source) /\ ~ Hidden(p) /\ Coming(p) => p \in M \/ Coming(p)'
      BY <2>4, <2>5, Given DEF DirInv
    <2>7. Met(M)'
      BY <1>1, <1>3, <1>6, <2>1, <2>4, <2>6, MetSame
    <2> QED
      BY <1>1, <1>2, <2>1, <2>2, <2>3, <2>7 DEF ReportInv
  <1>9. CASE Exists(x) /\ entry.kind # "locked"
    <2>1. phase' = phase /\ G' = cb(G, entry) /\ stack' = Append(stack, Frame(x))
      BY <1>4, <1>9 DEF PassDir, Push
    <2>2. FramesInv'
      BY <1>1, <1>2, <1>4, <1>5, <1>9, <2>1, FramesPushed
    <2>3. FilesInv'
      BY <1>1, <1>2, <2>1, FilesSame
    <2>4. \A p \in Paths : /\ Ahead(p)' => Ahead(p)
                           /\ Coming(p) /\ Upward(p) \subseteq DOMAIN fs => Coming(p)' \/ p = x
      BY <1>1, <1>2, <1>4, <1>5, <2>1, AheadPushed
    <2>5. ~ Ahead(x)'
      BY <1>1, <1>2, <1>4, <1>5, <2>1, PushedMet
    <2>6. \A p \in DOMAIN before \intersect DOMAIN fs' : Coming(p) => p \in M \union {x} \/ Coming(p)'
      BY <1>1, <1>2, <2>4, Given DEF FilesInv, DirInv
    <2>7. Met(M \union {x})' /\ G' \in Gathered
      BY <1>1, <1>2, <1>3, <1>4, <1>5, <1>9, <2>1, <2>4, <2>5, <2>6, MetMore
    <2> QED
      BY <1>1, <1>2, <2>1, <2>2, <2>3, <2>7 DEF ReportInv
  <1> QED
    BY <1>7, <1>8, <1>9

LEMMA WalkPopsReport ==
  ASSUME DirInv, ReportInv, opt \notin Moves, WalkPops
  PROVE  ReportInv'
  <1>1. /\ phase = "walk" /\ entry = None /\ entry' = None /\ Pop /\ phase' = Back(stack')
        /\ UNCHANGED <<fs, args, warns, before, G, out, gone>> /\ opt' = opt
    BY DEF WalkPops, Same, opt
  <1>2. FramesInv /\ FilesInv /\ G \in Gathered
    BY DEF ReportInv
  <1>3. PICK M : Met(M)
    BY <1>1 DEF ReportInv
  <1>4. phase' \in {"walk", "print"} /\ FramesInv'
    BY <1>1, <1>2, FramesPopped DEF Back
  <1>5. FilesInv'
    BY <1>1, <1>2, <1>4, FilesSame
  <1>6. \A p : (Ahead(p)' => Ahead(p)) /\ (Coming(p) => Coming(p)')
    BY <1>1, <1>2, <1>4, AheadPopped
  <1>7. \A p : Kind(p)' = Kind(p)
    BY <1>1 DEF Kind
  <1>8. Met(M)'
    BY <1>1, <1>3, <1>6, <1>7, MetSame
  <1> QED
    BY <1>1, <1>2, <1>4, <1>5, <1>8 DEF ReportInv

LEMMA RemoveReport ==
  ASSUME DirInv, ReportInv, opt \notin Moves, M_REMD
  PROVE  ReportInv'
  <1>1. /\ phase = "walk" /\ opt = "remd" /\ Removes(entry) /\ entry # None
        /\ entry.kind \notin Dirs /\ entry' = None /\ phase' = Back(stack)
        /\ UNCHANGED <<args, stack, before, out, gone>> /\ opt' = opt
    BY DEF M_REMD, Removes, IsReg, None, Dirs, Same, opt
  <1>2. FramesInv /\ FilesInv /\ G \in Gathered
    BY DEF ReportInv
  <1>3. PICK M : Met(M)
    BY <1>1 DEF ReportInv
  <1>4. PICK x : x = entry.path
    OBVIOUS
  <1>5. /\ x \in Paths /\ Below(x, source) /\ ~ Hidden(x) /\ HasExt(x, exts[1])
        /\ \A p \in DOMAIN before : Below(p, x) => p = x
    BY <1>1, <1>2, <1>4, EntryFacts, FirstExt, EndsIsHas DEF Removes, Dirs
  <1>6. phase' \in {"walk", "print"} /\ (phase' = "print" => stack = <<>>)
    BY <1>1 DEF Back
  <1>7. FramesInv'
    BY <1>1, <1>2, <1>6, FramesStay
  <1>8. \/ /\ x \in DOMAIN fs /\ fs' = Without(x) /\ warns' = warns
           /\ G' = [G EXCEPT !.removed_files = G.removed_files + 1]
        \/ fs' = fs /\ G' = G /\ warns' = warns + 1
    BY <1>4 DEF M_REMD, Exists
  <1>9. FilesInv'
    <2>1. CASE fs' = fs
      BY <1>1, <1>2, <1>6, <2>1, FilesSame
    <2>2. CASE fs' = Without(x)
      BY <1>1, <1>2, <1>4, <1>6, <2>2, FilesRemoved
    <2> QED
      BY <1>8, <2>1, <2>2
  <1>10. \/ /\ x \in DOMAIN fs /\ DOMAIN fs' = DOMAIN fs \ {x} /\ warns' = warns
            /\ G'.removed_files = G.removed_files + 1
         \/ fs' = fs /\ G' = G /\ warns' = warns + 1
    BY <1>2, <1>8 DEF Without, Gathered
  <1>11. G' \in Gathered
    BY <1>2, <1>8 DEF Gathered
  <1>12. ~ Ahead(x)' /\ \A p \in Paths : /\ Ahead(p)' => Ahead(p)
                                         /\ Coming(p) => Coming(p)' \/ Below(p, x)
    BY <1>1, <1>2, <1>4, <1>5, <1>6, AheadStays
  <1>13. x \notin M /\ IsFiniteSet(M) /\ Removed(M) /\ PassedBy(M) /\ warns \in Nat
    BY <1>1, <1>3, <1>4, <1>5, NotYet DEF Met, PassedBy, DirInv, WalkInv
  <1> DEFINE N == M \union {x}
  <1>14. PassedBy(N)'
    <2>1. \A p \in DOMAIN before \intersect DOMAIN fs' : Coming(p) => p \in N \/ Coming(p)'
      BY <1>5, <1>12, Given DEF DirInv
    <2>2. DOMAIN fs' \subseteq DOMAIN fs
      BY <1>10
    <2> HIDE DEF N
    <2>3. N = M \union {x}
      BY DEF N
    <2>4. \E y \in Paths : /\ N = M \union {y} /\ Below(y, source) /\ ~ Hidden(y)
                           /\ ~ Ahead(y)'
                           /\ opt # "remd" => y \in DOMAIN before \union DOMAIN fs'
      BY <1>1, <1>5, <1>12, <2>3
    <2> QED
      BY <1>1, <1>12, <1>13, <2>1, <2>2, <2>4, PassedStep
  <1>15. Removed(N)'
    <2>1. DOMAIN fs \subseteq DOMAIN before \union Extra /\ gone \intersect DOMAIN fs = {}
      BY <1>2 DEF FilesInv
    <2> QED
      BY <1>1, <1>5, <1>10, <1>13, <2>1, RemovedMore
  <1>16. Collected(N, G)'
    BY <1>1 DEF Collected
  <1>17. Met(N)'
    BY <1>14, <1>15, <1>16 DEF Met
  <1> QED
    BY <1>1, <1>6, <1>7, <1>9, <1>11, <1>17 DEF ReportInv

LEMMA OutputSame == ASSUME UNCHANGED <<args, G>> PROVE Output' = Output
  <1>1. opt' = opt /\ exts' = exts
    BY DEF opt, exts
  <1>2. /\ print_flist' = print_flist /\ print_lfsize' = print_lfsize
        /\ print_nonwr' = print_nonwr
    BY DEF print_flist, print_lfsize, print_nonwr
  <1>3. /\ print_tcount' = print_tcount /\ print_srchf' = print_srchf
        /\ print_dircnt' = print_dircnt /\ print_sumfilesize' = print_sumfilesize
        /\ print_remd' = print_remd
    BY <1>1 DEF print_tcount, print_srchf, print_dircnt, print_sumfilesize, print_remd
  <1> QED
    BY <1>1, <1>2, <1>3 DEF Output

LEMMA PrintsReport ==
  ASSUME DirInv, ReportInv, opt \notin Moves, Prints
  PROVE  ReportInv'
  <1>1. /\ phase = "print" /\ phase' = "done" /\ out' \in Output
        /\ UNCHANGED <<fs, args, stack, warns, before, entry, G, gone>> /\ opt' = opt
    BY DEF Prints, opt
  <1>2. FramesInv /\ FilesInv /\ G \in Gathered /\ stack = <<>> /\ entry = None
    BY <1>1 DEF ReportInv, FramesInv
  <1>3. PICK M : Met(M)
    BY <1>1 DEF ReportInv
  <1>4. FramesInv' /\ FilesInv'
    BY <1>1, <1>2, FramesStay, FilesSame
  <1>5. \A p : Kind(p)' = Kind(p) /\ Ahead(p)' = Ahead(p) /\ Coming(p)' = Coming(p)
    BY <1>1 DEF Kind, Ahead, Coming, Below
  <1>6. Met(M)'
    BY <1>1, <1>3, <1>5, MetSame
  <1>7. out' \in Output'
    BY <1>1, OutputSame
  <1> QED
    BY <1>1, <1>2, <1>4, <1>6, <1>7 DEF ReportInv

\* Another program's steps, which the walk may not have seen.
LEMMA OtherReport ==
  ASSUME DirInv, ReportInv, opt \notin Moves, FilesInv',
         UNCHANGED <<args, phase, stack, warns, before, entry, G, out>>,
         phase \notin {"args", "done"}, gone \subseteq gone',
         DOMAIN before \intersect DOMAIN fs' \subseteq DOMAIN fs,
         DOMAIN fs \subseteq DOMAIN before \union DOMAIN fs',
         (DOMAIN before \ DOMAIN fs') \ gone' = (DOMAIN before \ DOMAIN fs) \ gone,
         \A p \in DOMAIN fs \ DOMAIN before : fs'[p] = fs[p]
  PROVE  ReportInv'
  <1>1. FramesInv /\ G \in Gathered /\ opt' = opt
    BY DEF ReportInv, opt
  <1>2. FramesInv'
    BY <1>1, FramesStay DEF FramesInv
  <1>3. ASSUME NEW M, Met(M) PROVE Met(M)'
    <2>1. \A p \in DOMAIN before \union DOMAIN fs : Kind(p)' = Kind(p)
      BY DEF Kind
    <2>2. \A p : Ahead(p)' = Ahead(p) /\ Coming(p)' = Coming(p)
      BY DEF Ahead, Coming, Below
    <2> QED
      BY <1>3, <2>1, <2>2, MetSame
  <1>4. phase' \in {"start", "walk", "print", "done"} => \E M : Met(M)'
    <2> SUFFICES ASSUME phase' \in {"start", "walk", "print", "done"} PROVE \E M : Met(M)'
      OBVIOUS
    <2>1. PICK M : Met(M)
      BY DEF ReportInv
    <2> QED
      BY <1>3, <2>1
  <1>5. phase' \in {"args", "start"} => G' = G0
    BY DEF ReportInv
  <1> QED
    BY <1>1, <1>2, <1>4, <1>5 DEF ReportInv

LEMMA OtherCreatesReport ==
  ASSUME DirInv, ReportInv, opt \notin Moves, NEW x \in Extra, OtherCreates(x)
  PROVE  ReportInv'
  <1>1. /\ FilesInv' /\ DOMAIN fs' = DOMAIN fs \union {x} /\ x \notin DOMAIN before
        /\ \A q \in DOMAIN fs : fs'[q] = fs[q]
    BY FilesCreated DEF ReportInv
  <1>2. /\ UNCHANGED <<args, phase, stack, warns, before, entry, G, out, gone>>
        /\ phase \notin {"args", "done"}
    BY DEF OtherCreates, Theirs, Running
  <1> QED
    BY <1>1, <1>2, OtherReport

LEMMA OtherDeletesReport ==
  ASSUME DirInv, ReportInv, opt \notin Moves, NEW x, OtherDeletes(x)
  PROVE  ReportInv'
  <1>1. /\ FilesInv' /\ x \in DOMAIN before /\ x \in DOMAIN fs /\ gone = {} /\ gone' = {x}
        /\ DOMAIN fs' = DOMAIN fs \ {x} /\ \A q \in DOMAIN fs' : fs'[q] = fs[q]
    BY FilesDeleted DEF ReportInv
  <1>2. /\ UNCHANGED <<args, phase, stack, warns, before, entry, G, out>>
        /\ phase \notin {"args", "done"}
    BY DEF OtherDeletes, Theirs, Running
  <1>3. (DOMAIN before \ DOMAIN fs') \ gone' = (DOMAIN before \ DOMAIN fs) \ gone
    BY <1>1
  <1> QED
    BY <1>1, <1>2, <1>3, OtherReport

\* nftw itself fails: what it leaves is not printed.
LEMMA WalkFailsReport ==
  ASSUME DirInv, ReportInv, opt \notin Moves, WalkFails, UNCHANGED report
  PROVE  ReportInv'
  <1>1. /\ phase = "walk" /\ phase' = "died" /\ opt' = opt
        /\ UNCHANGED <<fs, args, stack, before, entry, G, gone>>
    BY DEF WalkFails, report, opt, DirInv, CheckedInv
  <1>2. FramesInv /\ FilesInv /\ G \in Gathered
    BY DEF ReportInv
  <1>3. FramesInv' /\ FilesInv'
    BY <1>1, <1>2, FramesStay, FilesSame
  <1> QED
    BY <1>1, <1>2, <1>3 DEF ReportInv

LEMMA MoveArgs ==
  ASSUME DirInv, MoveNext PROVE args' = args /\ (opt \in Moves \/ WalkFails)
  <1>1. CASE CheckDirs
    BY <1>1 DEF CheckDirs, Moves
  <1>2. CASE Copy
    BY <1>2 DEF Copy, CopyRoot, CopyNothing, CopyData, CopyDataWith, CopyPops, CopyDir,
       CopySkips, CopyOpen, CopyBlocks, CopyRunning, AfterCopy, DirInv, CheckedInv
  <1>3. CASE Delete
    BY <1>3 DEF Delete, DeleteRoot, Unlink, Rmdir, RmdirWith, DeleteDir, DeleteSkips, DeleteRunning,
       DirInv, CheckedInv
  <1>4. CASE WalkFails
    BY <1>4 DEF WalkFails
  <1> QED
    BY <1>1, <1>2, <1>3, <1>4 DEF MoveNext

LEMMA StepArgs ==
  ASSUME DirInv, [Next]_vars PROVE args' = args
  <1>1. CASE Walk
    BY <1>1, Zenon DEF Walk, CheckRoot, WalkRoot, PassFile, PassDir, WalkPops, M_REMD, Prints,
       StatEntry, Same
  <1>2. CASE Other
    BY <1>2 DEF Other, OtherCreates, OtherDeletes, Theirs
  <1>3. CASE UNCHANGED vars
    BY <1>3 DEF vars, moving
  <1> QED
    BY <1>1, <1>2, <1>3, MoveArgs DEF Next

LEMMA InitReport == Init => ReportInv
  <1> SUFFICES ASSUME Init, opt \notin Moves PROVE ReportInv
    BY DEF ReportInv
  <1>1. /\ fs = before /\ phase = "args" /\ stack = <<>> /\ entry = None /\ G = G0 /\ gone = {}
        /\ DirInv
    BY InitDir DEF Init, MoveInit
  <1>2. FramesInv
    BY <1>1 DEF FramesInv
  <1>3. FilesInv
    <2>1. ASSUME NEW p \in DOMAIN before PROVE Upward(p) \subseteq DOMAIN before
      BY Given, <1>1 DEF DirInv
    <2> QED
      BY <1>1, <2>1 DEF FilesInv
  <1>4. G0 \in Gathered
    <2>1. <<0, 0, 0>> \in [1 .. 3 -> Nat]
      <3>1. DOMAIN <<0, 0, 0>> = 1 .. 3 /\ \A i \in 1 .. 3 : <<0, 0, 0>>[i] = 0
        OBVIOUS
      <3> QED
        BY <3>1
    <2>2. <<>> \in Seq(Paths)
      BY EmptySeq
    <2> QED
      BY <2>1, <2>2 DEF G0, Gathered
  <1> QED
    BY <1>1, <1>2, <1>3, <1>4 DEF ReportInv

LEMMA StepReport ==
  ASSUME DirInv, ReportInv, [Next]_vars
  PROVE  ReportInv'
  <1>1. CASE opt \in Moves
    <2>1. args' = args
      BY StepArgs
    <2> QED
      BY <1>1, <2>1 DEF ReportInv, opt
  <1>2. CASE opt \notin Moves
    <2>1. CASE MoveNext /\ UNCHANGED report
      BY <1>2, <2>1, MoveArgs, WalkFailsReport
    <2>2. CASE Walk
      BY <1>2, <2>2, CheckRootReport, WalkRootReport, PassFileReport, PassDirReport,
         WalkPopsReport, RemoveReport, PrintsReport, StatEntryReport DEF Walk
    <2>3. CASE Other
      BY <1>2, <2>3, OtherCreatesReport, OtherDeletesReport DEF Other
    <2>4. CASE UNCHANGED vars
      <3>1. UNCHANGED <<fs, args, phase, stack, warns, before, entry, G, out, gone>> /\ opt' = opt
        BY <2>4 DEF vars, moving, report, opt
      <3>2. FramesInv /\ FilesInv
        BY <1>2 DEF ReportInv
      <3>3. FramesInv' /\ FilesInv'
        BY <3>1, <3>2, FramesStay, FilesSame DEF FramesInv, FilesInv
      <3>4. ASSUME NEW M, Met(M) PROVE Met(M)'
        <4>1. \A p : Kind(p)' = Kind(p) /\ Ahead(p)' = Ahead(p) /\ Coming(p)' = Coming(p)
          BY <3>1 DEF Kind, Ahead, Coming, Below
        <4> QED
          BY <3>1, <3>4, <4>1, MetSame
      <3>5. (\E M : Met(M)) => \E M : Met(M)'
        BY <3>4
      <3>6. out \in Output => out' \in Output'
        BY <3>1, OutputSame
      <3> QED
        BY <1>2, <3>1, <3>3, <3>5, <3>6 DEF ReportInv
    <2> QED
      BY <2>1, <2>2, <2>3, <2>4 DEF Next
  <1> QED
    BY <1>1, <1>2
-----------------------------------------------------------------------------
(* A walk that ends without a report.                                      *)

DiedInv ==
    /\ faults \in Nat /\ faults =< Faults
    /\ phase = "died" => gone # {} \/ faults < Faults

LEMMA FaultsStep == ASSUME [Next]_vars PROVE UNCHANGED faults \/ Fault
  <1>1. CASE CheckDirs \/ WalkFails
    BY <1>1 DEF CheckDirs, WalkFails
  <1>2. CASE CopyRoot \/ CopyNothing \/ CopyData \/ CopyPops
    BY <1>2, Zenon DEF CopyRoot, MakeDir, CopyNothing, CopyData, CopyDataWith, CopyPops
  <1>3. ASSUME NEW p, CopyDir(p) \/ CopySkips(p) \/ CopyOpen(p) \/ CopyBlocks(p)
        PROVE  UNCHANGED faults \/ Fault
    BY <1>3, Zenon DEF CopyDir, MakeDir, CopySkips, CopyOpen, CopyBlocks
  <1>4. CASE DeleteRoot \/ Unlink \/ Rmdir
    BY <1>4, Zenon DEF DeleteRoot, Unlink, Rmdir, RmdirWith
  <1>5. ASSUME NEW p, DeleteDir(p) \/ DeleteSkips(p) PROVE UNCHANGED faults
    BY <1>5 DEF DeleteDir, DeleteSkips
  <1>6. CASE Walk
    BY <1>6, Zenon DEF Walk, CheckRoot, WalkRoot, PassFile, PassDir, WalkPops, M_REMD, Prints,
       StatEntry
  <1>7. CASE Other
    BY <1>7 DEF Other, OtherCreates, OtherDeletes, Theirs
  <1>8. CASE UNCHANGED vars
    BY <1>8 DEF vars, moving
  <1> QED
    BY <1>1, <1>2, <1>3, <1>4, <1>5, <1>6, <1>7, <1>8, Zenon DEF Next, MoveNext, Copy, Delete

LEMMA DiedStep ==
  ASSUME [Next]_vars, phase # "died", phase' = "died"
  PROVE  WalkFails \/ WalkRoot \/ PassDir
  <1>1. ~ CheckDirs
    BY DEF CheckDirs
  <1>2. ~ (CopyRoot \/ CopyNothing \/ CopyData \/ CopyPops)
    BY DEF CopyRoot, CopyNothing, CopyData, CopyDataWith, CopyPops, CopyRunning, AfterCopy
  <1>3. ASSUME NEW p PROVE ~ (CopyDir(p) \/ CopySkips(p) \/ CopyOpen(p) \/ CopyBlocks(p))
    BY DEF CopyDir, CopySkips, CopyOpen, CopyBlocks, CopyRunning
  <1>4. ~ (DeleteRoot \/ Unlink \/ Rmdir)
    BY DEF DeleteRoot, Unlink, Rmdir, RmdirWith, DeleteRunning
  <1>5. ASSUME NEW p PROVE ~ (DeleteDir(p) \/ DeleteSkips(p))
    BY DEF DeleteDir, DeleteSkips, DeleteRunning
  <1>6. Walk => WalkRoot \/ PassDir
    BY DEF Walk, CheckRoot, PassFile, WalkPops, M_REMD, Prints, StatEntry, Back
  <1>7. ~ Other /\ ~ UNCHANGED vars
    BY DEF Other, OtherCreates, OtherDeletes, Theirs, vars, moving
  <1> QED
    BY <1>1, <1>2, <1>3, <1>4, <1>5, <1>6, <1>7, Zenon DEF Next, MoveNext, Copy, Delete

\* A root or a directory that is not there any more has been deleted by the other program.
LEMMA RootGone ==
  ASSUME DirInv, ReportInv, WalkRoot, phase' = "died" PROVE gone # {}
  <1>1. /\ phase = "start" /\ source \in DOMAIN before /\ opt \notin Moves
        /\ source \notin DOMAIN fs
    BY DEF WalkRoot, DirInv, CheckedInv, Exists, Moves, Reports
  <1>2. FilesInv /\ G = G0
    BY <1>1 DEF ReportInv
  <1>3. PICK M : Met(M)
    BY <1>1 DEF ReportInv
  <1> QED
    BY <1>1, <1>2, <1>3, StartMet

LEMMA DirGone ==
  ASSUME DirInv, ReportInv, PassDir, phase' = "died" PROVE gone # {}
  <1>1. /\ phase = "walk" /\ opt \notin Moves /\ entry.kind \in Dirs /\ entry # None
        /\ entry.path \notin DOMAIN fs
    BY DEF PassDir, DirInv, CheckedInv, Exists, Moves, Reports, Back, Dirs, None
  <1>2. FilesInv
    BY <1>1 DEF ReportInv
  <1>3. entry.path \in DOMAIN before /\ entry.kind = Kind(entry.path)
    BY <1>1, <1>2 DEF FilesInv
  <1> QED
    BY <1>1, <1>2, <1>3 DEF FilesInv, Reg, Dirs

LEMMA InitDied == Init => DiedInv
  BY DirAssumption DEF Init, MoveInit, DiedInv

LEMMA StepDied ==
  ASSUME DirInv, ReportInv, DiedInv, [Next]_vars PROVE DiedInv'
  <1>1. {faults, Faults} \subseteq Nat /\ faults =< Faults
    BY DirAssumption DEF DiedInv
  <1>2. faults' = faults \/ (faults > 0 /\ faults' = faults - 1)
    BY FaultsStep DEF Fault
  <1>3. faults' \in Nat /\ faults' =< Faults /\ (faults < Faults => faults' < Faults)
    BY <1>1, <1>2
  <1>4. gone' = gone \/ gone' # {}
    <2>1. CASE MoveNext /\ UNCHANGED report
      BY <2>1 DEF report
    <2>2. CASE Walk
      BY <2>2, Zenon DEF Walk, CheckRoot, WalkRoot, PassFile, PassDir, WalkPops, M_REMD, Prints,
         StatEntry, Same, report
    <2>3. CASE Other
      BY <2>3 DEF Other, OtherCreates, OtherDeletes
    <2>4. CASE UNCHANGED vars
      BY <2>4 DEF vars, report
    <2> QED
      BY <2>1, <2>2, <2>3, <2>4 DEF Next
  <1>5. ASSUME phase' = "died" PROVE gone' # {} \/ faults' < Faults
    <2>1. CASE phase = "died"
      BY <1>3, <1>4, <2>1 DEF DiedInv
    <2>2. CASE WalkFails
      <3>1. faults > 0 /\ faults' = faults - 1
        BY <2>2 DEF WalkFails, Fault
      <3> QED
        BY <1>1, <3>1
    <2>3. CASE WalkRoot \/ PassDir
      BY <1>4, <1>5, <2>3, RootGone, DirGone
    <2> QED
      BY <1>5, <2>1, <2>2, <2>3, DiedStep
  <1> QED
    BY <1>3, <1>5 DEF DiedInv
-----------------------------------------------------------------------------
(* At the end everything has been passed.                                  *)

Lasting == {p \in DOMAIN before \intersect DOMAIN fs : Below(p, source) /\ ~ Hidden(p)}
Ever == {p \in DOMAIN before \union DOMAIN fs : Below(p, source) /\ ~ Hidden(p)}

LEMMA FilesFinite ==
  ASSUME DirInv, FilesInv
  PROVE  /\ IsFiniteSet(DOMAIN before) /\ IsFiniteSet(DOMAIN fs)
         /\ IsFiniteSet(Ever) /\ IsFiniteSet(Extra)
  <1>1. IsFiniteSet(DOMAIN before) /\ IsFiniteSet(Extra)
    BY DirAssumption DEF DirInv, WalkInv
  <1>2. IsFiniteSet(DOMAIN before \union Extra) /\ DOMAIN fs \subseteq DOMAIN before \union Extra
    BY <1>1, FS_Union DEF FilesInv
  <1>3. IsFiniteSet(DOMAIN fs)
    BY <1>2, FS_Subset
  <1>4. IsFiniteSet(DOMAIN before \union DOMAIN fs) /\ Ever \subseteq DOMAIN before \union DOMAIN fs
    BY <1>1, <1>3, FS_Union DEF Ever
  <1>5. IsFiniteSet(Ever)
    BY <1>4, FS_Subset
  <1> QED
    BY <1>1, <1>3, <1>5

LEMMA DoneFacts ==
  ASSUME DirInv, ReportInv, opt \notin Moves, phase = "done"
  PROVE  /\ out \in Output /\ FilesInv /\ G \in Gathered
         /\ \E M : /\ Lasting \subseteq M /\ IsFiniteSet(M) /\ (opt # "remd" => M \subseteq Ever)
                   /\ Collected(M, G) /\ (opt = "remd" => Removed(M))
  <1>1. /\ out \in Output /\ FilesInv /\ FramesInv /\ stack = <<>> /\ entry = None
        /\ G \in Gathered
    BY DEF ReportInv, FramesInv
  <1>2. PICK M : Met(M)
    BY DEF ReportInv
  <1>3. \A p : ~ Coming(p)
    <2>1. DOMAIN stack = {}
      BY <1>1
    <2> QED
      BY <1>1, <2>1 DEF Coming
  <1>4. Lasting \subseteq M /\ IsFiniteSet(M) /\ (opt # "remd" => M \subseteq Ever)
    BY <1>2, <1>3 DEF Met, PassedBy, Lasting, Ever
  <1> QED
    BY <1>1, <1>2, <1>4 DEF Met

\* A sequence of a finite set has each of its elements once.
LEMMA SeqsList ==
  ASSUME NEW S, IsFiniteSet(S), NEW s \in SetToSeqs(S)
  PROVE  ToSet(s) = S /\ IsInjective(s)
  <1> DEFINE D == 1 .. Cardinality(S)
  <1>1. Cardinality(S) \in Nat
    BY FS_CardinalityType
  <1>2. s \in [D -> S] /\ IsInjective(s)
    BY DEF SetToSeqs, IsInjective
  <1>3. IsFiniteSet(D) /\ Cardinality(D) = Cardinality(S)
    BY <1>1, FS_Interval
  <1> HIDE DEF D
  <1>4. s \in Injection(D, S)
    BY <1>2 DEF Injection
  <1>5. s \in Surjection(D, S)
    BY <1>3, <1>4, FS_Injection
  <1>6. \A t \in S : \E i \in D : s[i] = t
    BY <1>5 DEF Surjection
  <1> QED
    BY <1>2, <1>6 DEF ToSet

\* How many, between those that were there all along and those that ever were.
LEMMA Spans ==
  ASSUME NEW T, IsFiniteSet(T), NEW S \in SUBSET T, NEW U \in SUBSET S
  PROVE  Cardinality(S) \in Cardinality(U) .. Cardinality(T)
  <1>1. IsFiniteSet(S) /\ IsFiniteSet(U)
    BY FS_Subset
  <1>2. Cardinality(U) =< Cardinality(S) /\ Cardinality(S) =< Cardinality(T)
    BY <1>1, FS_Subset
  <1>3. {Cardinality(S), Cardinality(T), Cardinality(U)} \subseteq Nat
    BY <1>1, FS_CardinalityType
  <1> QED
    BY <1>2, <1>3

\* -remd's number and its warnings.
LEMMA RemovedEnough ==
  ASSUME DirInv, FilesInv, opt = "remd", NEW M, Lasting \subseteq M, IsFiniteSet(M), Removed(M)
  PROVE  LET n == Cardinality(DOMAIN before \ DOMAIN fs) - Cardinality(gone) IN
         /\ G.removed_files \in n .. n + Cardinality({p \in Extra : HasExt(p, exts[1])})
         /\ Cardinality({p \in Lasting : Matches(p)}) =< warns
  <1> DEFINE away == DOMAIN before \ DOMAIN fs
             X == {p \in Extra : HasExt(p, exts[1])}
  <1>1. PICK R \in SUBSET M :
           /\ G.removed_files = Cardinality(R)
           /\ R \intersect DOMAIN before = away \ gone
           /\ R \ DOMAIN before \subseteq X
    BY DEF Removed
  <1>2. PICK W \in SUBSET M :
           /\ Cardinality(W) =< warns
           /\ \A p \in M \intersect DOMAIN before \intersect DOMAIN fs : Matches(p) => p \in W
    BY DEF Removed
  <1>3. IsFiniteSet(away) /\ IsFiniteSet(gone) /\ IsFiniteSet(X) /\ gone \subseteq away
    <2>1. gone \subseteq away
      BY DEF FilesInv
    <2>2. IsFiniteSet(away) /\ IsFiniteSet(X)
      BY FilesFinite, FS_Subset
    <2> QED
      BY <2>1, <2>2, FS_Subset
  <1> HIDE DEF away, X
  <1> DEFINE old == away \ gone
  <1>4. IsFiniteSet(old) /\ Cardinality(away) = Cardinality(gone) + Cardinality(old)
    <2>1. IsFiniteSet(old)
      BY <1>3, FS_Subset
    <2>2. away = gone \union old /\ gone \intersect old = {}
      BY <1>3
    <2> HIDE DEF old
    <2>3. Cardinality(gone \intersect old) = 0
      BY <2>2, FS_EmptySet
    <2>4. Cardinality(gone \union old)
            = Cardinality(gone) + Cardinality(old) - Cardinality(gone \intersect old)
      BY <1>3, <2>1, FS_Union
    <2>5. {Cardinality(gone), Cardinality(old)} \subseteq Nat
      BY <1>3, <2>1, FS_CardinalityType
    <2> QED
      BY <2>1, <2>2, <2>3, <2>4, <2>5
  <1> DEFINE new == R \ DOMAIN before
  <1>5. /\ R = old \union new /\ old \intersect new = {} /\ IsFiniteSet(new)
        /\ Cardinality(new) =< Cardinality(X)
    BY <1>1, <1>3, FS_Subset
  <1> HIDE DEF new, old
  <1>6. Cardinality(R) = Cardinality(old) + Cardinality(new)
    <2>1. Cardinality(old \intersect new) = 0
      BY <1>5, FS_EmptySet
    <2>2. Cardinality(old \union new)
            = Cardinality(old) + Cardinality(new) - Cardinality(old \intersect new)
      BY <1>4, <1>5, FS_Union
    <2>3. {Cardinality(old), Cardinality(new)} \subseteq Nat
      BY <1>4, <1>5, FS_CardinalityType
    <2> QED
      BY <1>5, <2>1, <2>2, <2>3
  <1>7. {Cardinality(old), Cardinality(new), Cardinality(X), Cardinality(gone)} \subseteq Nat
    BY <1>3, <1>4, <1>5, FS_CardinalityType
  <1>8. LET n == Cardinality(away) - Cardinality(gone) IN
        G.removed_files \in n .. n + Cardinality(X)
    BY <1>1, <1>4, <1>5, <1>6, <1>7
  <1>9. Cardinality({p \in Lasting : Matches(p)}) =< warns
    <2> DEFINE S == {p \in Lasting : Matches(p)}
    <2>1. S \subseteq W /\ IsFiniteSet(W)
      BY <1>2, FS_Subset DEF Lasting
    <2>2. IsFiniteSet(S) /\ Cardinality(S) =< Cardinality(W)
      BY <2>1, FS_Subset
    <2>3. Cardinality(S) \in Nat /\ Cardinality(W) \in Nat /\ warns \in Nat
      BY <2>1, <2>2, FS_CardinalityType DEF DirInv, WalkInv
    <2> HIDE DEF S
    <2>4. Cardinality(S) =< warns
      BY <1>2, <2>2, <2>3
    <2> QED
      BY <2>4 DEF S
  <1> QED
    BY <1>8, <1>9 DEF away, X

LEMMA ReportEnough == DirInv /\ ReportInv /\ DiedInv => ReportSpansWalk
  <1> SUFFICES ASSUME DirInv, ReportInv, DiedInv PROVE ReportSpansWalk
    OBVIOUS
  <1>1. phase = "died" => gone # {} \/ faults < Faults
    BY DEF DiedInv
  <1>2. CASE phase # "done" \/ opt \notin Reports \union {"remd"}
    BY <1>1, <1>2, Zenon DEF ReportSpansWalk, Reports
  <1>3. CASE phase = "done" /\ opt \in Reports \union {"remd"}
    <2>1. opt \notin Moves
      BY <1>3 DEF Moves, Reports
    <2>2. out \in Output /\ FilesInv /\ G \in Gathered
      BY <1>3, <2>1, DoneFacts
    <2>3. PICK M : /\ Lasting \subseteq M /\ IsFiniteSet(M) /\ (opt # "remd" => M \subseteq Ever)
                   /\ Collected(M, G) /\ (opt = "remd" => Removed(M))
      BY <1>3, <2>1, DoneFacts
    <2>4. IsFiniteSet(Ever)
      BY <2>2, FilesFinite
    <2>a. CASE opt = "flist"
      <3>1. G.items = {p \in M : Level1(p)} /\ out \in print_flist
        BY <2>a, <2>2, <2>3 DEF Collected, Output
      <3>2. out \in SetToSeqs(G.items) /\ Sorted(out, cmp_flist)
        BY <3>1 DEF print_flist, qsort, Sorted
      <3>3. IsFiniteSet(G.items)
        BY <2>3, <3>1, FS_Subset
      <3>4. ToSet(out) = G.items /\ IsInjective(out)
        BY <3>2, <3>3, SeqsList
      <3>5. Sure(Level1) \subseteq ToSet(out) /\ ToSet(out) \subseteq Maybe(Level1)
        BY <2>a, <2>3, <3>1, <3>4 DEF Sure, Maybe, Lasting, Ever
      <3>6. Lists(Level1, cmp_flist)
        BY <3>2, <3>4, <3>5 DEF Lists, Sure, Maybe, Sorted
      <3> QED
        BY <1>1, <2>a, <3>6 DEF ReportSpansWalk
    <2>b. CASE opt = "srchf"
      <3>1. /\ IsInjective(G.lines) /\ ToSet(G.lines) = {p \in M : Named(p)} /\ out = G.lines
        BY <2>b, <2>2, <2>3 DEF Collected, Output, print_srchf
      <3>2. Sure(Named) \subseteq ToSet(out) /\ ToSet(out) \subseteq Maybe(Named)
        BY <2>b, <2>3, <3>1 DEF Sure, Maybe, Lasting, Ever
      <3>3. Lists(Named, AnyOrder)
        BY <3>1, <3>2 DEF Lists, Sure, Maybe, Sorted, AnyOrder
      <3> QED
        BY <1>1, <2>b, <3>3 DEF ReportSpansWalk
    <2>c. CASE opt = "lfsize"
      <3>1. G.items = {p \in M : Reg(p)} /\ out \in print_lfsize
        BY <2>c, <2>2, <2>3 DEF Collected, Output
      <3>2. out \in SetToSeqs(G.items) /\ Sorted(out, cmp_lfsize)
        BY <3>1 DEF print_lfsize, qsort, Sorted
      <3>3. IsFiniteSet(G.items)
        BY <2>3, <3>1, FS_Subset
      <3>4. ToSet(out) = G.items /\ IsInjective(out)
        BY <3>2, <3>3, SeqsList
      <3>5. Sure(Reg) \subseteq ToSet(out) /\ ToSet(out) \subseteq Maybe(Reg)
        BY <2>c, <2>3, <3>1, <3>4 DEF Sure, Maybe, Lasting, Ever
      <3>6. Lists(Reg, cmp_lfsize)
        BY <3>2, <3>4, <3>5 DEF Lists, Sure, Maybe, Sorted
      <3> QED
        BY <1>1, <2>c, <3>6 DEF ReportSpansWalk
    <2>d. CASE opt = "nonwr"
      <3>1. /\ {p \in M : Reg(p) /\ p \in Readonly} \subseteq G.items
            /\ G.items \subseteq {p \in M : Nonwr(p)} /\ out \in print_nonwr
        BY <2>d, <2>2, <2>3 DEF Collected, Output
      <3>2. out \in SetToSeqs(G.items) /\ Sorted(out, cmp_path_alpha)
        BY <3>1 DEF print_nonwr, qsort, Sorted
      <3>3. IsFiniteSet(G.items)
        BY <2>3, <3>1, FS_Subset
      <3>4. ToSet(out) = G.items /\ IsInjective(out)
        BY <3>2, <3>3, SeqsList
      <3>5. \A p \in DOMAIN fs : p \notin gone
        BY <2>2 DEF FilesInv
      <3>6. Sure(Nonwr) \subseteq ToSet(out) /\ ToSet(out) \subseteq Maybe(Nonwr)
        BY <2>d, <2>3, <3>1, <3>4, <3>5 DEF Sure, Maybe, Lasting, Ever, Nonwr
      <3>7. Lists(Nonwr, cmp_path_alpha)
        BY <3>2, <3>4, <3>6 DEF Lists, Sure, Maybe, Sorted
      <3> QED
        BY <1>1, <2>d, <3>7 DEF ReportSpansWalk
    <2>e. CASE opt = "tcount"
      <3>1. out = [i \in DOMAIN exts |-> G.counts[i]]
        BY <2>e, <2>2 DEF Output, print_tcount
      <3>2. ASSUME NEW i \in DOMAIN exts
            PROVE  LET P(p) == Level1(p) /\ HasExt(p, exts[i]) IN Counts(P, out[i])
        <4> DEFINE S == {p \in M : Level1(p) /\ HasExt(p, exts[i])}
                   T == {p \in Ever : Level1(p) /\ HasExt(p, exts[i])}
                   U == {p \in Lasting : Level1(p) /\ HasExt(p, exts[i])}
        <4>1. out[i] = Cardinality(S)
          BY <2>e, <2>3, <3>1 DEF Collected
        <4>2. S \subseteq T /\ U \subseteq S /\ IsFiniteSet(T)
          BY <2>e, <2>3, <2>4, FS_Subset
        <4>3. /\ T = {p \in DOMAIN before \union DOMAIN fs :
                         Below(p, source) /\ ~ Hidden(p) /\ Level1(p) /\ HasExt(p, exts[i])}
              /\ U = {p \in DOMAIN before \intersect DOMAIN fs :
                         Below(p, source) /\ ~ Hidden(p) /\ Level1(p) /\ HasExt(p, exts[i])}
          BY DEF Ever, Lasting
        <4> HIDE DEF S, T, U
        <4>4. out[i] \in Cardinality(U) .. Cardinality(T)
          BY <4>1, <4>2, Spans
        <4> QED
          BY <4>3, <4>4 DEF Counts, Sure, Maybe
      <3> QED
        BY <1>1, <2>e, <3>2 DEF ReportSpansWalk
    <2>f. CASE opt = "dircnt"
      <3> DEFINE S == {p \in M : IsDir0(p)}
      <3>1. out[1] = Cardinality(S)
        BY <2>f, <2>2, <2>3 DEF Collected, Output, print_dircnt
      <3>2. S \subseteq Maybe(IsDir0) /\ Sure(IsDir0) \subseteq S
        BY <2>f, <2>3 DEF Sure, Maybe, Lasting, Ever
      <3>3. IsFiniteSet(Maybe(IsDir0))
        <4>1. Maybe(IsDir0) \subseteq Ever
          BY DEF Maybe, Ever
        <4> QED
          BY <2>4, <4>1, FS_Subset
      <3> HIDE DEF S
      <3>4. out[1] \in Cardinality(Sure(IsDir0)) .. Cardinality(Maybe(IsDir0))
        BY <3>1, <3>2, <3>3, Spans
      <3>5. Counts(IsDir0, out[1])
        BY <3>4 DEF Counts, Sure, Maybe
      <3> QED
        BY <1>1, <2>f, <3>5 DEF ReportSpansWalk
    <2>g. CASE opt = "sumfilesize"
      <3> DEFINE S == {p \in M : Reg(p)}
      <3>1. out[1] = Bytes(S)
        BY <2>g, <2>2, <2>3 DEF Collected, Output, print_sumfilesize
      <3> DEFINE T == {p \in Ever : Reg(p)}
                 U == {p \in Lasting : Reg(p)}
      <3>2. S \subseteq T /\ U \subseteq S /\ IsFiniteSet(T)
        BY <2>g, <2>3, <2>4, FS_Subset
      <3>3. \A p \in T : Size[p] \in Nat
        BY <2>2, SizeKnown DEF Ever
      <3>4. T = Maybe(Reg) /\ U = Sure(Reg)
        BY DEF Maybe, Sure, Ever, Lasting
      <3> HIDE DEF S, T, U
      <3>5. IsFiniteSet(S)
        BY <3>2, FS_Subset
      <3>6. /\ Bytes(U) =< Bytes(S) /\ Bytes(S) =< Bytes(T)
            /\ {Bytes(U), Bytes(S), Bytes(T)} \subseteq Nat
        BY <3>2, <3>3, <3>5, BytesMore
      <3>7. out[1] \in Bytes(U) .. Bytes(T)
        BY <3>1, <3>6
      <3>8. out[1] \in Bytes(Sure(Reg)) .. Bytes(Maybe(Reg))
        BY <3>4, <3>7 DEF Sure, Maybe
      <3> QED
        BY <1>1, <2>g, <3>8 DEF ReportSpansWalk
    <2>h. CASE opt = "remd"
      <3> DEFINE n == Cardinality(DOMAIN before \ DOMAIN fs) - Cardinality(gone)
      <3>1. out[1] = G.removed_files
        BY <2>h, <2>2 DEF Output, print_remd
      <3>2. /\ out[1] \in n .. n + Cardinality({p \in Extra : HasExt(p, exts[1])})
            /\ Cardinality({p \in Lasting : Matches(p)}) =< warns
        BY <2>h, <2>2, <2>3, <3>1, RemovedEnough
      <3>3. {p \in Lasting : Matches(p)}
              = {p \in DOMAIN before \intersect DOMAIN fs :
                   Below(p, source) /\ ~ Hidden(p) /\ Reg(p) /\ HasExt(p, exts[1])}
        BY DEF Lasting, Matches
      <3>4. LET P(p) == Reg(p) /\ HasExt(p, exts[1]) IN Cardinality(Sure(P)) =< warns
        BY <3>2, <3>3 DEF Sure
      <3> QED
        BY <1>1, <2>h, <3>2, <3>4 DEF ReportSpansWalk
    <2> QED
      BY <1>3, <2>a, <2>b, <2>c, <2>d, <2>e, <2>f, <2>g, <2>h DEF Reports
  <1> QED
    BY <1>2, <1>3

\* What a report says was so at some time of its walk, whatever another program adds
\* or deletes meanwhile: nothing is passed twice, nothing that stays is left out, and
\* -remd counts what it removes (nftw, the cb branches, qsort's comparisons).
THEOREM ReportsCorrect == Spec => []ReportSpansWalk
  <1>1. Init => DirInv /\ ReportInv /\ DiedInv
    BY InitDir, InitReport, InitDied
  <1>2. DirInv /\ ReportInv /\ DiedInv /\ [Next]_vars => (DirInv /\ ReportInv /\ DiedInv)'
    BY StepDir, StepReport, StepDied
  <1>3. DirInv /\ ReportInv /\ DiedInv => ReportSpansWalk
    BY ReportEnough
  <1> QED
    BY <1>1, <1>2, <1>3, PTL DEF Spec
=============================================================================
