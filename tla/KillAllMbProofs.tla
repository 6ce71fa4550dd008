--------------------------- MODULE KillAllMbProofs ---------------------------
(* Proofs about the text operators and killallmb: any number of shells,     *)
(* files, characters, lines typed and terminals.                                *)
EXTENDS KillAllMb, SequenceTheorems, FiniteSetTheorems, WellFoundedInduction, TLAPS

-----------------------------------------------------------------------------
(* Sequences: what appending does to prefixes and to what stands where.    *)

LEMMA PrefixOfConcat ==
  ASSUME NEW S, NEW c \in Seq(S), NEW d \in Seq(S)
  PROVE  IsPrefix(c, c \o d)
  <1>1. Len(c) =< Len(c \o d)
    BY ConcatProperties
  <1>2. SubSeq(c \o d, 1, Len(c)) = SubSeq(c, 1, Len(c))
    <2>1. CASE Len(c) = 0
      BY <2>1, SubSeqEmpty
    <2>2. CASE Len(c) # 0
      <3>1. 1 \in 1 .. Len(c) /\ Len(c) \in 1 .. Len(c)
        BY <2>2
      <3> QED
        BY <3>1, SubSeqOfConcat1
    <2> QED
      BY <2>1, <2>2
  <1> QED
    BY <1>1, <1>2 DEF IsPrefix

LEMMA SplitAt ==
  ASSUME NEW S, NEW b \in Seq(S), NEW n \in 0 .. Len(b)
  PROVE  /\ SubSeq(b, 1, n) \in Seq(S) /\ SubSeq(b, n + 1, Len(b)) \in Seq(S)
         /\ SubSeq(b, 1, n) \o SubSeq(b, n + 1, Len(b)) = b
  <1>1. \A i \in 1 .. Len(b) : b[i] \in S
    BY ElementOfSeq
  <1>2. SubSeq(b, 1, n) \in Seq(S) /\ SubSeq(b, n + 1, Len(b)) \in Seq(S)
    <2>1. 1 \in Int /\ n \in Int /\ n + 1 \in Int /\ Len(b) \in Int
      BY LenProperties
    <2>2. \A i \in 1 .. n : b[i] \in S
      BY <1>1
    <2>3. \A i \in n + 1 .. Len(b) : b[i] \in S
      BY <1>1
    <2>4. SubSeq(b, 1, n) \in Seq(S)
      BY <2>1, <2>2, SubSeqProperties
    <2>5. SubSeq(b, n + 1, Len(b)) \in Seq(S)
      BY <2>1, <2>3, SubSeqProperties
    <2> QED
      BY <2>4, <2>5
  <1>3. SubSeq(b, 1, n) \o SubSeq(b, n + 1, Len(b)) = SubSeq(b, 1, Len(b))
    <2>1. 1 \in 1 .. Len(b) + 1 /\ n \in 1 - 1 .. Len(b) /\ Len(b) \in n .. Len(b)
      BY LenProperties
    <2> QED
      BY <2>1, ConcatAdjacentSubSeq
  <1> QED
    BY <1>2, <1>3, SubSeqFull

\* What stands somewhere still stands there when something is appended.
LEMMA StandsStays ==
  ASSUME NEW S, NEW b \in Seq(S), NEW c \in Seq(S), NEW d \in Seq(S), NEW i \in Nat,
         Stands(b, c, i)
  PROVE  Stands(b, c \o d, i)
  <1>1. PICK g \in [DOMAIN b -> i + 1 .. Len(c)] :
            /\ \A j, k \in DOMAIN b : j < k => g[j] < g[k]
            /\ \A j \in DOMAIN b : c[g[j]] = b[j]
    BY DEF Stands
  <1>2. \A k \in i + 1 .. Len(c) : k \in i + 1 .. Len(c \o d) /\ (c \o d)[k] = c[k]
    BY ConcatProperties
  <1>3. g \in [DOMAIN b -> i + 1 .. Len(c \o d)]
    BY <1>2
  <1>4. \A j \in DOMAIN b : (c \o d)[g[j]] = b[j]
    BY <1>1, <1>2
  <1> QED
    BY <1>1, <1>3, <1>4 DEF Stands

\* What is appended stands at the end, behind what stood there before.
LEMMA StandsLonger ==
  ASSUME NEW S, NEW b \in Seq(S), NEW c \in Seq(S), NEW e \in Seq(S), NEW i \in 0 .. Len(c),
         Stands(b, c, i)
  PROVE  Stands(b \o e, c \o e, i)
  <1>1. PICK g \in [DOMAIN b -> i + 1 .. Len(c)] :
            /\ \A j, k \in DOMAIN b : j < k => g[j] < g[k]
            /\ \A j \in DOMAIN b : c[g[j]] = b[j]
    BY DEF Stands
  <1> DEFINE h == [j \in DOMAIN (b \o e) |-> IF j =< Len(b) THEN g[j] ELSE Len(c) + (j - Len(b))]
  <1>2. /\ DOMAIN b = 1 .. Len(b) /\ DOMAIN (b \o e) = 1 .. Len(b) + Len(e)
        /\ Len(c \o e) = Len(c) + Len(e) /\ {Len(b), Len(c), Len(e), i} \subseteq Nat
    BY ConcatProperties, LenProperties
  <1>3. \A j \in DOMAIN (b \o e) :
           /\ j =< Len(b) => j \in DOMAIN b /\ h[j] = g[j] /\ h[j] \in i + 1 .. Len(c)
           /\ j > Len(b) => h[j] = Len(c) + (j - Len(b)) /\ h[j] > Len(c)
                            /\ h[j] =< Len(c) + Len(e)
    BY <1>2
  <1>4. h \in [DOMAIN (b \o e) -> i + 1 .. Len(c \o e)]
    <2>1. \A j \in DOMAIN (b \o e) : h[j] \in i + 1 .. Len(c \o e)
      BY <1>2, <1>3
    <2> QED
      BY <2>1
  <1>5. \A j, k \in DOMAIN (b \o e) : j < k => h[j] < h[k]
    BY <1>1, <1>2, <1>3
  <1>6. ASSUME NEW j \in DOMAIN (b \o e) PROVE (c \o e)[h[j]] = (b \o e)[j]
    <2>1. CASE j =< Len(b)
      <3>1. (b \o e)[j] = b[j] /\ b[j] = c[h[j]]
        BY <1>1, <1>2, <1>3, <2>1, ConcatProperties
      <3>2. (c \o e)[h[j]] = c[h[j]]
        BY <1>2, <1>3, <2>1, ConcatProperties
      <3> QED
        BY <3>1, <3>2
    <2>2. CASE j > Len(b)
      <3>1. (b \o e)[j] = e[j - Len(b)]
        BY <1>2, <2>2, ConcatProperties
      <3>2. (c \o e)[h[j]] = e[h[j] - Len(c)] /\ h[j] - Len(c) = j - Len(b)
        BY <1>2, <1>3, <2>2, ConcatProperties
      <3> QED
        BY <3>1, <3>2
    <2> QED
      BY <1>2, <2>1, <2>2
  <1> HIDE DEF h
  <1> QED
    BY <1>4, <1>5, <1>6 DEF Stands

\* A text that is appended stands behind what was there.
LEMMA StandsAppended ==
  ASSUME NEW S, NEW c \in Seq(S), NEW e \in Seq(S), NEW i \in 0 .. Len(c)
  PROVE  Stands(e, c \o e, i)
  <1> DEFINE nil == SubSeq(e, 1, 0)
  <1>1. nil = <<>> /\ nil \in Seq(S)
    BY SubSeqEmpty, EmptySeq
  <1>2. DOMAIN nil = {}
    BY <1>1
  <1>3. \E g : g \in [DOMAIN nil -> i + 1 .. Len(c)]
    <2>1. [j \in {} |-> i + 1] \in [{} -> i + 1 .. Len(c)]
      OBVIOUS
    <2> QED
      BY <1>2, <2>1
  <1>4. Stands(nil, c, i)
    BY <1>2, <1>3 DEF Stands
  <1>5. nil \o e = e
    BY <1>1, ConcatEmptySeq
  <1> QED
    BY <1>1, <1>4, <1>5, StandsLonger
LEMMA PrefixIs ==
  ASSUME NEW S, NEW c \in Seq(S), NEW d \in Seq(S), IsPrefix(c, d), NEW n \in 0 .. Len(c)
  PROVE  SubSeq(c, 1, n) = SubSeq(d, 1, n)
  <1>1. /\ Len(c) \in Nat /\ Len(d) \in Nat /\ n \in Nat /\ n =< Len(c) /\ Len(c) =< Len(d)
        /\ SubSeq(c, 1, Len(c)) = SubSeq(d, 1, Len(c))
    BY LenProperties DEF IsPrefix
  <1>2. \A i \in 1 .. Len(c) : c[i] \in S /\ d[i] \in S
    BY <1>1, ElementOfSeq
  <1>3. PICK t : t = SubSeq(d, 1, Len(c))
    OBVIOUS
  <1>4. c = t
    BY <1>1, <1>3, SubSeqFull
  <1>5. \A i \in 1 .. Len(c) : t[i] = d[i]
    <2>1. 1 \in Int /\ Len(c) \in Int
      BY <1>1
    <2>2. \A i \in 1 .. Len(c) : d[i] \in S
      BY <1>2
    <2>3. \A i \in 1 .. Len(c) - 1 + 1 : SubSeq(d, 1, Len(c))[i] = d[1 + i - 1]
      BY <2>1, <2>2, SubSeqProperties
    <2> QED
      BY <1>1, <1>3, <2>3
  <1>6. \A i \in 1 .. n : c[i] = d[i] /\ c[i] \in S /\ d[i] \in S
    BY <1>1, <1>2, <1>4, <1>5
  <1>7. 1 \in Int /\ n \in Int
    BY <1>1
  <1>8. PICK x : x = SubSeq(c, 1, n)
    OBVIOUS
  <1>9. PICK y : y = SubSeq(d, 1, n)
    OBVIOUS
  <1>10. /\ x \in Seq(S) /\ Len(x) = (IF 1 =< n THEN n - 1 + 1 ELSE 0)
         /\ \A i \in 1 .. n - 1 + 1 : x[i] = c[1 + i - 1]
    <2>1. \A i \in 1 .. n : c[i] \in S
      BY <1>6
    <2> QED
      BY <1>7, <1>8, <2>1, SubSeqProperties
  <1>11. /\ y \in Seq(S) /\ Len(y) = (IF 1 =< n THEN n - 1 + 1 ELSE 0)
         /\ \A i \in 1 .. n - 1 + 1 : y[i] = d[1 + i - 1]
    <2>1. \A i \in 1 .. n : d[i] \in S
      BY <1>6
    <2> QED
      BY <1>7, <1>9, <2>1, SubSeqProperties
  <1>12. Len(x) = n /\ Len(y) = n
    BY <1>1, <1>10, <1>11
  <1>13. \A i \in 1 .. n : x[i] = y[i]
    BY <1>1, <1>6, <1>10, <1>11
  <1>14. x = y
    BY <1>10, <1>11, <1>12, <1>13, SeqEqual
  <1> QED
    BY <1>8, <1>9, <1>14

LEMMA PrefixTrans ==
  ASSUME NEW S, NEW b \in Seq(S), NEW c \in Seq(S), NEW d \in Seq(S),
         IsPrefix(b, c), IsPrefix(c, d)
  PROVE  IsPrefix(b, d)
  <1>1. /\ Len(b) \in Nat /\ Len(c) \in Nat /\ Len(d) \in Nat
        /\ Len(b) =< Len(c) /\ Len(c) =< Len(d)
        /\ SubSeq(b, 1, Len(b)) = SubSeq(c, 1, Len(b))
    BY LenProperties DEF IsPrefix
  <1>2. Len(b) \in 0 .. Len(c)
    BY <1>1
  <1>3. SubSeq(c, 1, Len(b)) = SubSeq(d, 1, Len(b))
    BY <1>2, PrefixIs
  <1> QED
    BY <1>1, <1>3 DEF IsPrefix

LEMMA PrefixSelf ==
  ASSUME NEW S, NEW c \in Seq(S) PROVE IsPrefix(c, c)
  BY LenProperties DEF IsPrefix

LEMMA FurtherType ==
  ASSUME NEW S, NEW b \in Seq(S), NEW c \in Seq(S), NEW n \in Len(b) + 1 .. Len(c)
  PROVE  b \o SubSeq(c, Len(b) + 1, n) \in Seq(S)
  <1>1. /\ Len(b) \in Nat /\ Len(c) \in Nat /\ Len(b) + 1 \in Int /\ n \in Int
        /\ \A i \in Len(b) + 1 .. n : c[i] \in S
    BY LenProperties, ElementOfSeq
  <1>2. SubSeq(c, Len(b) + 1, n) \in Seq(S)
    BY <1>1, SubSeqProperties
  <1> QED
    BY <1>2, ConcatProperties

\* What has been read of c so far, and a further read of it.
LEMMA FurtherRead ==
  ASSUME NEW S, NEW b \in Seq(S), NEW c \in Seq(S), IsPrefix(b, c),
         NEW n \in Len(b) + 1 .. Len(c), NEW d, d = b \o SubSeq(c, Len(b) + 1, n)
  PROVE  d \in Seq(S) /\ IsPrefix(d, c) /\ Len(d) = n
  <1>1. /\ Len(b) \in Nat /\ Len(c) \in Nat /\ n \in Nat /\ Len(b) =< Len(c)
        /\ SubSeq(b, 1, Len(b)) = SubSeq(c, 1, Len(b))
    BY LenProperties DEF IsPrefix
  <1>2. b = SubSeq(c, 1, Len(b))
    BY <1>1, SubSeqFull
  <1>3. d = SubSeq(c, 1, n)
    <2>1. 1 \in 1 .. Len(c) + 1 /\ Len(b) \in 1 - 1 .. Len(c) /\ n \in Len(b) .. Len(c)
      BY <1>1
    <2>2. SubSeq(c, 1, Len(b)) \o SubSeq(c, Len(b) + 1, n) = SubSeq(c, 1, n)
      BY <2>1, ConcatAdjacentSubSeq
    <2> QED
      BY <1>2, <2>2
  <1>4. d \in Seq(S) /\ Len(d) = n
    <2>1. 1 \in Int /\ n \in Int /\ \A i \in 1 .. n : c[i] \in S
      BY <1>1, ElementOfSeq
    <2>2. SubSeq(c, 1, n) \in Seq(S) /\ Len(SubSeq(c, 1, n)) = (IF 1 =< n THEN n - 1 + 1 ELSE 0)
      BY <2>1, SubSeqProperties
    <2> QED
      BY <1>1, <1>3, <2>2
  <1>5. SubSeq(d, 1, Len(d)) = d
    BY <1>4, SubSeqFull
  <1> QED
    BY <1>1, <1>3, <1>4, <1>5 DEF IsPrefix

\* At the end of c, that is c.
LEMMA ReadToEnd ==
  ASSUME NEW S, NEW b \in Seq(S), NEW c \in Seq(S), IsPrefix(b, c), Len(b) >= Len(c)
  PROVE  b = c
  <1>1. /\ Len(b) \in Nat /\ Len(c) \in Nat /\ Len(b) =< Len(c)
        /\ SubSeq(b, 1, Len(b)) = SubSeq(c, 1, Len(b))
    BY LenProperties DEF IsPrefix
  <1>2. Len(b) = Len(c)
    BY <1>1
  <1> QED
    BY <1>1, <1>2, SubSeqFull

LEMMA NothingRead ==
  ASSUME NEW S, NEW c \in Seq(S) PROVE <<>> \in Seq(S) /\ IsPrefix(<<>>, c)
  <1>1. Len(c) \in Nat /\ Len(<<>>) = 0
    BY LenProperties
  <1>2. SubSeq(<<>>, 1, 0) = SubSeq(c, 1, 0)
    BY SubSeqEmpty
  <1> QED
    BY <1>1, <1>2, EmptySeq DEF IsPrefix

-----------------------------------------------------------------------------
(* The text operators.                                                     *)

AppPcs == {"read1", "read2", "app1", "close1", "app2", "close2"}
Pcs == AppPcs \union {"prompt", "cat", "count", "scan", "tty", "kill", "wait", "done"}

\* Which line a shell is at, from where it is in its function, and that ++ has two
\* arguments once it has looked at them.
LineOfPc(s) ==
    /\ pc[s] \in AppPcs => line[s].op = "++" /\ argc(s) = 2
    /\ Returned(s, "++") => argc(s) = 2
    /\ pc[s] = "cat" => line[s].op = "+"
    /\ pc[s] = "count" => line[s].op = "#" /\ argc(s) = 1
    /\ pc[s] \in {"scan", "tty", "kill"} => line[s].op = "killallmb"
    /\ pc[s] = "wait" => line[s].op = "run"

TextType ==
    /\ content \in [Files -> Seq(Chars)]
    /\ line \in [Shells -> [op : STRING, paths : Seq(DOMAIN Names)]]
    /\ pc \in [Shells -> Pcs] /\ rc \in [Shells -> Int]
    /\ buf1 \in [Shells -> Seq(Chars)] /\ buf2 \in [Shells -> Seq(Chars)]
    /\ rest \in [Shells -> Seq(Chars)]
    /\ next \in [Shells -> Nat \ {0}]
    /\ closeFaults \in 0 .. CloseFaults
    /\ \A s \in Shells : LineOfPc(s)

\* Has s got to one of these places of ++, or returned 0?
Past(s, places) == pc[s] \in places \/ Returned(s, "++")

\* fwrite has written a first part of text to f, fclose is to write the other.
HalfWritten(s, text, f, i) ==
    \E n \in 0 .. Len(text) :
        /\ rest[s] = SubSeq(text, n + 1, Len(text))
        /\ Stands(SubSeq(text, 1, n), content[f], i)

\* What ++ has read is what the file starts with.
ReadOf(s) ==
    /\ pc[s] = "prompt" => buf1[s] = <<>> /\ buf2[s] = <<>>
    /\ Past(s, AppPcs) => /\ IsPrefix(buf1[s], content[File(s, 1)])
                          /\ IsPrefix(buf2[s], content[File(s, 2)])

\* And what it has appended stands behind it.
WrittenOf(s) ==
    /\ pc[s] = "close1" => HalfWritten(s, buf2[s], File(s, 1), Len(buf1[s]))
    /\ Past(s, {"app2", "close2"}) => Stands(buf2[s], content[File(s, 1)], Len(buf1[s]))
    /\ pc[s] = "close2" => HalfWritten(s, buf1[s], File(s, 2), Len(buf2[s]))
    /\ Returned(s, "++") => Stands(buf1[s], content[File(s, 2)], Len(buf2[s]))

TextInv ==
    /\ TextType
    /\ \A s \in Shells : ReadOf(s)
    /\ closeFaults = CloseFaults => \A s \in Shells : WrittenOf(s)

\* Every file is what it was with something appended, or nothing.
Grown == \A f \in Files : \E d \in Seq(Chars) : content'[f] = content[f] \o d

LEMMA FilesOf ==
  ASSUME TextType, NEW s \in Shells, argc(s) = 2
  PROVE  File(s, 1) \in Files /\ File(s, 2) \in Files
  <1>1. path(s, 1) \in DOMAIN Names /\ path(s, 2) \in DOMAIN Names
    BY DEF TextType, argc, path
  <1> QED
    BY <1>1, TxtAssumption DEF File

LEMMA FileOf ==
  ASSUME TextType, NEW s \in Shells, NEW i \in 1 .. argc(s) PROVE File(s, i) \in Files
  <1>1. line[s].paths \in Seq(DOMAIN Names) /\ i \in 1 .. Len(line[s].paths)
    BY DEF TextType, argc
  <1>2. path(s, i) \in DOMAIN Names
    BY <1>1, ElementOfSeq DEF path
  <1> QED
    BY <1>2, TxtAssumption DEF File

LEMMA FurtherOf ==
  ASSUME TextType, NEW b \in Seq(Chars), NEW f \in Files, NEW d \in Further(b, f)
  PROVE  d \in Seq(Chars) /\ (IsPrefix(b, content[f]) => IsPrefix(d, content[f]))
  <1>1. content[f] \in Seq(Chars)
    BY DEF TextType
  <1>2. PICK n \in Len(b) + 1 .. Len(content[f]) : d = b \o SubSeq(content[f], Len(b) + 1, n)
    BY DEF Further
  <1>3. d \in Seq(Chars)
    BY <1>1, <1>2, FurtherType
  <1>4. ASSUME IsPrefix(b, content[f]) PROVE IsPrefix(d, content[f])
    BY <1>1, <1>2, <1>4, FurtherRead, ZenonT(60)
  <1> QED
    BY <1>3, <1>4

LEMMA UnchangedGrown ==
  ASSUME TextType, content' = content PROVE Grown
  <1>1. <<>> \in Seq(Chars)
    BY EmptySeq
  <1>2. \A f \in Files : content[f] = content[f] \o <<>>
    BY ConcatEmptySeq DEF TextType
  <1> QED
    BY <1>1, <1>2 DEF Grown

LEMMA AppendGrown ==
  ASSUME TextType, NEW f \in Files, NEW d \in Seq(Chars), Append_(f, d)
  PROVE  Grown /\ content' \in [Files -> Seq(Chars)] /\ content'[f] = content[f] \o d
  <1>1. content' = [content EXCEPT ![f] = content[f] \o d]
    BY DEF Append_
  <1>2. content[f] \o d \in Seq(Chars)
    BY ConcatProperties DEF TextType
  <1>3. \A g \in Files : content[g] = content[g] \o <<>> /\ <<>> \in Seq(Chars)
    BY ConcatEmptySeq, EmptySeq DEF TextType
  <1> QED
    BY <1>1, <1>2, <1>3 DEF TextType, Grown
-----------------------------------------------------------------------------
(* A step of a text operator keeps the types and loses nothing of a file.  *)

\* A shell that goes on elsewhere keeps what is said of its line.
LEMMA LineKept ==
  ASSUME TextType, NEW s \in Shells, UNCHANGED line, NEW to \in Pcs,
         pc' = [pc EXCEPT ![s] = to], \A t \in Shells \ {s} : rc'[t] = rc[t],
         LineOfPc(s)'
  PROVE  pc' \in [Shells -> Pcs] /\ \A t \in Shells : LineOfPc(t)'
  BY DEF TextType, LineOfPc, Returned, argc

LEMMA FailsKept ==
  ASSUME TextType, NEW s \in Shells, NEW from, UNCHANGED line, Fails(s, from)
  PROVE  /\ pc' \in [Shells -> Pcs] /\ rc' \in [Shells -> Int]
         /\ \A t \in Shells : LineOfPc(t)'
  <1>1. pc' = [pc EXCEPT ![s] = "done"] /\ rc' = [rc EXCEPT ![s] = -1]
    BY DEF Fails, Goes
  <1>2. LineOfPc(s)'
    BY <1>1 DEF TextType, LineOfPc, Returned, AppPcs
  <1>3. rc' \in [Shells -> Int] /\ \A t \in Shells \ {s} : rc'[t] = rc[t]
    BY <1>1 DEF TextType
  <1>4. "done" \in Pcs
    BY DEF Pcs
  <1> QED
    BY <1>1, <1>2, <1>3, <1>4, LineKept

LEMMA FwriteKept ==
  ASSUME TextType, NEW s \in Shells, pc[s] \in AppPcs, NEW i \in {1, 2},
         NEW text \in Seq(Chars), NEW from, NEW to \in AppPcs, Fwrite(s, i, text, from, to)
  PROVE  TextType' /\ Grown
  <1>1. PICK n \in 0 .. Len(text) :
          /\ Append_(File(s, i), SubSeq(text, 1, n))
          /\ rest' = [rest EXCEPT ![s] = SubSeq(text, n + 1, Len(text))]
    BY DEF Fwrite
  <1>2. /\ pc' = [pc EXCEPT ![s] = to]
        /\ UNCHANGED <<line, rc, buf1, buf2, next, closeFaults>>
    BY DEF Fwrite, Goes, Calm
  <1>3. SubSeq(text, 1, n) \in Seq(Chars) /\ SubSeq(text, n + 1, Len(text)) \in Seq(Chars)
    BY SplitAt
  <1>4. line[s].op = "++" /\ argc(s) = 2
    BY DEF TextType, LineOfPc
  <1>5. File(s, i) \in Files
    BY <1>4, FilesOf
  <1>6. Grown /\ content' \in [Files -> Seq(Chars)]
    BY <1>1, <1>3, <1>5, AppendGrown
  <1>7. LineOfPc(s)'
    BY <1>2, <1>4 DEF TextType, LineOfPc, Returned, AppPcs, argc
  <1>8. pc' \in [Shells -> Pcs] /\ \A t \in Shells : LineOfPc(t)'
    BY <1>2, <1>7, LineKept DEF Pcs
  <1> QED
    BY <1>1, <1>2, <1>3, <1>6, <1>8 DEF TextType

LEMMA FcloseKept ==
  ASSUME TextType, NEW s \in Shells, pc[s] \in AppPcs, NEW i \in {1, 2},
         NEW from, NEW to \in AppPcs \union {"done"}, Fclose(s, i, from, to)
  PROVE  TextType' /\ Grown
  <1>1. /\ pc' = [pc EXCEPT ![s] = to] /\ rest' = [rest EXCEPT ![s] = <<>>]
        /\ Append_(File(s, i), rest[s])
        /\ UNCHANGED <<line, rc, buf1, buf2, next, closeFaults>>
    BY DEF Fclose, Goes, Calm
  <1>2. line[s].op = "++" /\ argc(s) = 2
    BY DEF TextType, LineOfPc
  <1>3. File(s, i) \in Files /\ rest[s] \in Seq(Chars) /\ <<>> \in Seq(Chars)
    BY <1>2, FilesOf, EmptySeq DEF TextType
  <1>4. Grown /\ content' \in [Files -> Seq(Chars)]
    BY <1>1, <1>3, AppendGrown
  <1>5. LineOfPc(s)'
    BY <1>1, <1>2 DEF TextType, LineOfPc, Returned, AppPcs, argc
  <1>6. pc' \in [Shells -> Pcs] /\ \A t \in Shells : LineOfPc(t)'
    BY <1>1, <1>5, LineKept DEF Pcs
  <1>7. rest' \in [Shells -> Seq(Chars)]
    BY <1>1, <1>3 DEF TextType
  <1> QED
    BY <1>1, <1>4, <1>6, <1>7 DEF TextType

LEMMA TextTypeKept ==
  ASSUME TextType, NEW s \in Shells, Text(s) PROVE TextType' /\ Grown
  <1> USE TxtAssumption DEF TextType
  <1>1. CASE Calls(s)
    <2>1. CASE WellFormed(s)
      <3> DEFINE to == CASE line[s].op = "++" -> "read1" [] line[s].op = "+" -> "cat"
                         [] line[s].op = "#" -> "count"
      <3>1. line[s].op \in {"++", "+", "#"}
        BY <1>1 DEF Calls, TextOps
      <3>2. /\ line[s].op = "++" => to = "read1"
            /\ line[s].op = "+" => to = "cat"
            /\ line[s].op = "#" => to = "count"
        OBVIOUS
      <3>3. to \in Pcs
        BY <3>1, <3>2 DEF Pcs, AppPcs
      <3>4. pc' = [pc EXCEPT ![s] = to] /\ UNCHANGED <<content, line, buffers, rc, next, closeFaults>>
        BY <1>1, <2>1 DEF Calls, Goes
      <3>5. (line[s].op = "++" => argc(s) = 2) /\ (line[s].op = "#" => argc(s) = 1)
        BY <2>1 DEF WellFormed
      <3> HIDE DEF to
      <3>6. LineOfPc(s)'
        BY <3>1, <3>2, <3>4, <3>5 DEF LineOfPc, Returned, AppPcs, argc
      <3>7. pc' \in [Shells -> Pcs] /\ \A t \in Shells : LineOfPc(t)'
        BY <3>3, <3>4, <3>6, LineKept
      <3> QED
        BY <3>4, <3>7, UnchangedGrown DEF buffers
    <2>2. CASE ~ WellFormed(s)
      BY <1>1, <2>2, FailsKept, UnchangedGrown DEF Calls, buffers
    <2> QED
      BY <2>1, <2>2
  <1>2. CASE Read1(s) \/ Read2(s)
    <2>1. argc(s) = 2 /\ line[s].op = "++"
      BY <1>2 DEF Read1, Read2, Goes, LineOfPc, AppPcs
    <2>2. File(s, 1) \in Files /\ File(s, 2) \in Files
      BY <2>1, FilesOf
    <2>3. PICK to \in AppPcs :
             pc' = [pc EXCEPT ![s] = to] /\ UNCHANGED <<content, line, rest, rc, next, closeFaults>>
      <3>1. CASE UNCHANGED pc
        <4>1. pc' = [pc EXCEPT ![s] = pc[s]] /\ pc[s] \in AppPcs
          BY <1>2, <3>1 DEF Read1, Read2, Goes, AppPcs
        <4> QED
          BY <1>2, <4>1 DEF Read1, Read2, Calm
      <3>2. CASE ~ UNCHANGED pc
        BY <1>2, <3>2 DEF Read1, Read2, Goes, Calm, AppPcs
      <3> QED
        BY <3>1, <3>2
    <2>4. LineOfPc(s)'
      BY <2>1, <2>3 DEF LineOfPc, Returned, AppPcs, argc
    <2>5. pc' \in [Shells -> Pcs] /\ \A t \in Shells : LineOfPc(t)'
      BY <2>3, <2>4, LineKept DEF Pcs
    <2>6. \A b \in Further(buf1[s], File(s, 1)) : b \in Seq(Chars)
      BY <2>2, FurtherOf
    <2>7. \A b \in Further(buf2[s], File(s, 2)) : b \in Seq(Chars)
      BY <2>2, FurtherOf
    <2>8. buf1' \in [Shells -> Seq(Chars)] /\ buf2' \in [Shells -> Seq(Chars)]
      BY <1>2, <2>6, <2>7 DEF Read1, Read2
    <2> QED
      BY <2>3, <2>5, <2>8, UnchangedGrown
  <1>3. CASE Append1(s)
    BY <1>3, FwriteKept, FcloseKept DEF Append1, Fwrite, Fclose, Goes, AppPcs
  <1>4. CASE Append2(s)
    BY <1>4, FwriteKept, FcloseKept DEF Append2, Fwrite, Fclose, Goes, AppPcs
  <1>5. CASE Unwritten(s)
    <2>1. PICK to \in {"app2", "done"} : pc' = [pc EXCEPT ![s] = to]
      BY <1>5 DEF Unwritten, Goes
    <2>2. pc[s] \in AppPcs /\ UNCHANGED <<content, line, buf1, buf2, rc, next>>
      BY <1>5 DEF Unwritten, Goes, AppPcs
    <2>3. LineOfPc(s)'
      BY <2>1, <2>2 DEF LineOfPc, Returned, AppPcs, argc
    <2>4. pc' \in [Shells -> Pcs] /\ \A t \in Shells : LineOfPc(t)'
      BY <2>1, <2>2, <2>3, LineKept DEF Pcs, AppPcs
    <2>5. closeFaults' \in 0 .. CloseFaults /\ rest' \in [Shells -> Seq(Chars)]
      BY <1>5, EmptySeq DEF Unwritten
    <2> QED
      BY <2>2, <2>4, <2>5, UnchangedGrown
  <1>6. CASE Cat(s)
    <2>1. UNCHANGED <<content, line, buf2, rest, closeFaults>>
      BY <1>6 DEF Cat, Calm
    <2>2. CASE UNCHANGED <<pc, rc>>
      <3>1. next[s] \in 1 .. argc(s)
        <4>1. argc(s) \in Nat
          BY LenProperties DEF argc
        <4> QED
          BY <1>6, <4>1 DEF Cat
      <3>2. File(s, next[s]) \in Files
        BY <3>1, FileOf
      <3>3. \A b \in Further(buf1[s], File(s, next[s])) : b \in Seq(Chars)
        BY <3>2, FurtherOf
      <3>4. buf1' \in [Shells -> Seq(Chars)]
        <4>1. \/ buf1' = buf1
              \/ \E b \in Further(buf1[s], File(s, next[s])) : buf1' = [buf1 EXCEPT ![s] = b]
              \/ buf1' = [buf1 EXCEPT ![s] = <<>>]
          BY <1>6 DEF Cat
        <4>2. <<>> \in Seq(Chars)
          BY EmptySeq
        <4> QED
          BY <3>3, <4>1, <4>2
      <3>5. next' \in [Shells -> Nat \ {0}]
        BY <1>6 DEF Cat
      <3>6. \A t \in Shells : LineOfPc(t)'
        BY <2>1, <2>2 DEF LineOfPc, Returned, argc
      <3> QED
        BY <2>1, <2>2, <3>4, <3>5, <3>6, UnchangedGrown
    <2>3. CASE Fails(s, "cat") /\ UNCHANGED <<buf1, next>>
      BY <2>1, <2>3, FailsKept, UnchangedGrown
    <2> QED
      BY <1>6, <2>2, <2>3 DEF Cat
  <1>7. CASE Scanf(s)
    <2>1. File(s, 1) \in Files /\ pc[s] = "count"
      <3>1. pc[s] = "count" /\ argc(s) = 1
        BY <1>7 DEF Scanf, LineOfPc
      <3> QED
        BY <3>1, FileOf
    <2>2. content[File(s, 1)][Len(buf1[s]) + 1] \in Chars
      <3>1. content[File(s, 1)] \in Seq(Chars) /\ buf1[s] \in Seq(Chars)
        BY <2>1
      <3>2. Len(buf1[s]) + 1 \in 1 .. Len(content[File(s, 1)])
        BY <1>7, <3>1, LenProperties DEF Scanf, AtEnd
      <3> QED
        BY <3>1, <3>2, ElementOfSeq
    <2>3. Append(buf1[s], content[File(s, 1)][Len(buf1[s]) + 1]) \in Seq(Chars)
      BY <2>2, AppendProperties
    <2>4. buf1' \in [Shells -> Seq(Chars)] /\ UNCHANGED <<content, line, pc, buf2, rest, next, rc, closeFaults>>
      BY <1>7, <2>3 DEF Scanf, Calm
    <2>5. \A t \in Shells : LineOfPc(t)'
      BY <2>4 DEF LineOfPc, Returned, argc
    <2> QED
      BY <2>4, <2>5, UnchangedGrown
  <1>8. CASE CatEnds(s) \/ (Count(s) /\ ~ Scanf(s))
    <2>1. /\ pc[s] \in {"cat", "count"} /\ pc' = [pc EXCEPT ![s] = "done"]
          /\ UNCHANGED <<content, line, buffers, rc, next, closeFaults>>
      BY <1>8 DEF CatEnds, Count, Goes, Calm
    <2>2. LineOfPc(s)'
      BY <2>1 DEF LineOfPc, Returned, AppPcs, argc
    <2>3. pc' \in [Shells -> Pcs] /\ \A t \in Shells : LineOfPc(t)'
      BY <2>1, <2>2, LineKept DEF Pcs
    <2> QED
      BY <2>1, <2>3, UnchangedGrown DEF buffers
  <1>9. CASE Unopened(s)
    BY <1>9, FailsKept, UnchangedGrown DEF Unopened, buffers
  <1> QED
    BY <1>1, <1>2, <1>3, <1>4, <1>5, <1>6, <1>7, <1>8, <1>9 DEF Text
-----------------------------------------------------------------------------
(* What a shell has read and appended stays there while others append.     *)

LEMMA GrownKeeps ==
  ASSUME TextType, Grown, content' \in [Files -> Seq(Chars)], NEW f \in Files
  PROVE  /\ Len(content[f]) =< Len(content'[f]) /\ IsPrefix(content[f], content'[f])
         /\ \A b \in Seq(Chars), i \in Nat : Stands(b, content[f], i) => Stands(b, content'[f], i)
         /\ \A b \in Seq(Chars) : IsPrefix(b, content[f]) => IsPrefix(b, content'[f])
  <1>1. PICK d \in Seq(Chars) : content'[f] = content[f] \o d
    BY DEF Grown
  <1>2. content[f] \in Seq(Chars)
    BY DEF TextType
  <1>3. Len(content'[f]) = Len(content[f]) + Len(d) /\ Len(d) \in Nat
    BY <1>1, <1>2, ConcatProperties
  <1>4. IsPrefix(content[f], content'[f])
    BY <1>1, <1>2, PrefixOfConcat
  <1>5. \A b \in Seq(Chars), i \in Nat : Stands(b, content[f], i) => Stands(b, content'[f], i)
    BY <1>1, <1>2, StandsStays
  <1>6. \A b \in Seq(Chars) : IsPrefix(b, content[f]) => IsPrefix(b, content'[f])
    <2>1. content'[f] \in Seq(Chars)
      OBVIOUS
    <2> QED
      BY <1>2, <1>4, <2>1, PrefixTrans
  <1> QED
    BY <1>2, <1>3, <1>4, <1>5, <1>6

LEMMA OthersKept ==
  ASSUME TextType, TextType', Grown, NEW s \in Shells, UNCHANGED line,
         pc'[s] = pc[s], rc'[s] = rc[s], buf1'[s] = buf1[s], buf2'[s] = buf2[s],
         rest'[s] = rest[s], ReadOf(s)
  PROVE  ReadOf(s)' /\ (WrittenOf(s) => WrittenOf(s)')
  <1>1. content' \in [Files -> Seq(Chars)]
    BY DEF TextType
  <1>2. /\ pc[s] \in AppPcs \/ Returned(s, "++") => argc(s) = 2
        /\ Returned(s, "++")' <=> Returned(s, "++")
        /\ File(s, 1)' = File(s, 1) /\ File(s, 2)' = File(s, 2)
    BY DEF TextType, LineOfPc, Returned, File, path
  <1>3. CASE ~ (pc[s] \in AppPcs \/ Returned(s, "++"))
    <2>1. ReadOf(s)'
      BY <1>2, <1>3 DEF ReadOf, Past
    <2>2. WrittenOf(s)'
      BY <1>2, <1>3 DEF WrittenOf, Past, AppPcs
    <2> QED
      BY <2>1, <2>2
  <1>4. CASE pc[s] \in AppPcs \/ Returned(s, "++")
    <2>1. File(s, 1) \in Files /\ File(s, 2) \in Files
      BY <1>2, <1>4, FilesOf
    <2>2. \A f \in Files : Len(content[f]) \in Nat /\ Len(content'[f]) \in Nat
      BY <1>1 DEF TextType
    <2>3. /\ buf1[s] \in Seq(Chars) /\ buf2[s] \in Seq(Chars)
          /\ Len(buf1[s]) \in Nat /\ Len(buf2[s]) \in Nat
      BY DEF TextType
    <2>4. ReadOf(s)'
      <3>1. IsPrefix(buf1[s], content[File(s, 1)]) /\ IsPrefix(buf2[s], content[File(s, 2)])
        BY <1>4 DEF ReadOf, Past
      <3>2. IsPrefix(buf1[s], content'[File(s, 1)]) /\ IsPrefix(buf2[s], content'[File(s, 2)])
        BY <1>1, <2>1, <2>3, <3>1, GrownKeeps
      <3> QED
        BY <1>2, <3>2 DEF ReadOf, Past
    <2>5. \A n \in 0 .. Len(buf1[s]) : SubSeq(buf1[s], 1, n) \in Seq(Chars)
      BY <2>3, SplitAt
    <2>6. \A n \in 0 .. Len(buf2[s]) : SubSeq(buf2[s], 1, n) \in Seq(Chars)
      BY <2>3, SplitAt
    <2>7. HalfWritten(s, buf2[s], File(s, 1), Len(buf1[s])) =>
            HalfWritten(s, buf2[s], File(s, 1), Len(buf1[s]))'
      BY <1>1, <1>2, <2>1, <2>3, <2>6, GrownKeeps DEF HalfWritten
    <2>8. HalfWritten(s, buf1[s], File(s, 2), Len(buf2[s])) =>
            HalfWritten(s, buf1[s], File(s, 2), Len(buf2[s]))'
      BY <1>1, <1>2, <2>1, <2>3, <2>5, GrownKeeps DEF HalfWritten
    <2>9. Stands(buf2[s], content[File(s, 1)], Len(buf1[s])) =>
            Stands(buf2'[s], content'[File(s, 1)], Len(buf1'[s]))
      BY <1>1, <2>1, <2>3, GrownKeeps
    <2>10. Stands(buf1[s], content[File(s, 2)], Len(buf2[s])) =>
            Stands(buf1'[s], content'[File(s, 2)], Len(buf2'[s]))
      BY <1>1, <2>1, <2>3, GrownKeeps
    <2> QED
      BY <1>2, <2>4, <2>7, <2>8, <2>9, <2>10 DEF WrittenOf, Past
  <1> QED
    BY <1>3, <1>4
-----------------------------------------------------------------------------
(* And its own steps: first half, second half.                             *)

LEMMA FwriteStands ==
  ASSUME TextType, NEW s \in Shells, NEW f \in Files, NEW i, f = File(s, i),
         NEW text \in Seq(Chars), NEW base \in 0 .. Len(content[f]), NEW from, NEW to,
         Fwrite(s, i, text, from, to)
  PROVE  \E n \in 0 .. Len(text) : /\ rest'[s] = SubSeq(text, n + 1, Len(text))
                                   /\ Stands(SubSeq(text, 1, n), content'[f], base)
  <1>1. PICK n \in 0 .. Len(text) :
          /\ Append_(f, SubSeq(text, 1, n))
          /\ rest' = [rest EXCEPT ![s] = SubSeq(text, n + 1, Len(text))]
    BY DEF Fwrite
  <1>2. SubSeq(text, 1, n) \in Seq(Chars)
    BY SplitAt
  <1>3. content'[f] = content[f] \o SubSeq(text, 1, n) /\ content[f] \in Seq(Chars)
    BY <1>1, <1>2, AppendGrown DEF TextType
  <1>4. Stands(SubSeq(text, 1, n), content'[f], base)
    BY <1>2, <1>3, StandsAppended
  <1> QED
    BY <1>1, <1>4 DEF TextType

LEMMA FcloseStands ==
  ASSUME TextType, NEW s \in Shells, NEW f \in Files, NEW i, f = File(s, i),
         NEW text \in Seq(Chars), NEW base \in 0 .. Len(content[f]), NEW from, NEW to,
         HalfWritten(s, text, f, base), Fclose(s, i, from, to)
  PROVE  Stands(text, content'[f], base)
  <1>1. PICK n \in 0 .. Len(text) :
          /\ rest[s] = SubSeq(text, n + 1, Len(text))
          /\ Stands(SubSeq(text, 1, n), content[f], base)
    BY DEF HalfWritten
  <1>2. /\ SubSeq(text, 1, n) \in Seq(Chars) /\ rest[s] \in Seq(Chars)
        /\ SubSeq(text, 1, n) \o rest[s] = text
    BY <1>1, SplitAt, ZenonT(60)
  <1>3. content'[f] = content[f] \o rest[s] /\ content[f] \in Seq(Chars)
    BY <1>2, AppendGrown DEF Fclose, TextType
  <1> QED
    BY <1>1, <1>2, <1>3, StandsLonger

LEMMA OwnKept ==
  ASSUME TextInv, NEW s \in Shells, Text(s)
  PROVE  ReadOf(s)' /\ (closeFaults' = CloseFaults => WrittenOf(s)')
  <1>0. /\ TextType /\ TextType' /\ Grown /\ ReadOf(s) /\ UNCHANGED line
        /\ content' \in [Files -> Seq(Chars)]
    <2>1. UNCHANGED line
      BY DEF Text, Calls, Read1, Read2, Append1, Append2, Fwrite, Fclose, Unwritten, Cat,
             CatEnds, Count, Scanf, Unopened, Calm
    <2>2. TextType' /\ Grown
      BY TextTypeKept DEF TextInv
    <2> QED
      BY <2>1, <2>2 DEF TextInv, TextType
  <1>1. /\ File(s, 1)' = File(s, 1) /\ File(s, 2)' = File(s, 2)
        /\ pc[s] \in AppPcs => File(s, 1) \in Files /\ File(s, 2) \in Files
        /\ buf1[s] \in Seq(Chars) /\ buf2[s] \in Seq(Chars)
        /\ Len(buf1[s]) \in Nat /\ Len(buf2[s]) \in Nat
        /\ \A f \in Files : Len(content[f]) \in Nat /\ Len(content'[f]) \in Nat
    <2>1. File(s, 1)' = File(s, 1) /\ File(s, 2)' = File(s, 2)
      BY <1>0 DEF File, path
    <2>2. pc[s] \in AppPcs => File(s, 1) \in Files /\ File(s, 2) \in Files
      BY <1>0, FilesOf DEF TextType, LineOfPc
    <2>3. buf1[s] \in Seq(Chars) /\ buf2[s] \in Seq(Chars)
      BY <1>0 DEF TextType
    <2>4. \A f \in Files : content[f] \in Seq(Chars) /\ content'[f] \in Seq(Chars)
      BY <1>0 DEF TextType
    <2> QED
      BY <2>1, <2>2, <2>3, <2>4, LenProperties
  \* Elsewhere, or with a failure, nothing is said.
  <1>2. ASSUME pc'[s] \notin AppPcs \union {"prompt"}, ~ Returned(s, "++")'
        PROVE  ReadOf(s)' /\ WrittenOf(s)'
    BY <1>2 DEF ReadOf, WrittenOf, Past, AppPcs
  <1>3. ASSUME NEW from, Fails(s, from)
        PROVE  pc'[s] \notin AppPcs \union {"prompt"} /\ ~ Returned(s, "++")'
    BY <1>0, <1>3 DEF Fails, Goes, Returned, AppPcs, TextType
  <1>4. CASE Calls(s)
    <2>1. CASE WellFormed(s) /\ line[s].op = "++"
      <3>1. pc'[s] = "read1" /\ UNCHANGED <<content, buf1, buf2>> /\ pc[s] = "prompt"
        BY <1>0, <1>4, <2>1 DEF Calls, Goes, TextType, buffers
      <3>2. File(s, 1) \in Files /\ File(s, 2) \in Files
        BY <1>0, <2>1, FilesOf DEF WellFormed
      <3>3. content[File(s, 1)] \in Seq(Chars) /\ content[File(s, 2)] \in Seq(Chars)
        BY <1>0, <3>2 DEF TextType
      <3>4. buf1'[s] = <<>> /\ buf2'[s] = <<>>
        BY <1>0, <3>1 DEF ReadOf
      <3>5. IsPrefix(<<>>, content[File(s, 1)]) /\ IsPrefix(<<>>, content[File(s, 2)])
        BY <3>3, NothingRead
      <3>6. ReadOf(s)'
        BY <1>1, <3>1, <3>4, <3>5 DEF ReadOf
      <3>7. WrittenOf(s)'
        BY <3>1 DEF WrittenOf, Past, Returned
      <3> QED
        BY <3>6, <3>7
    <2>2. CASE WellFormed(s) /\ line[s].op # "++"
      <3>1. pc'[s] \in {"cat", "count"}
        BY <1>0, <1>4, <2>2 DEF Calls, Goes, TextType, TextOps
      <3> QED
        BY <1>2, <3>1 DEF Returned, AppPcs
    <2>3. CASE ~ WellFormed(s)
      BY <1>2, <1>3, <1>4, <2>3 DEF Calls
    <2> QED
      BY <2>1, <2>2, <2>3
  <1>5. CASE Read1(s) \/ Read2(s)
    <2>1. /\ pc[s] \in {"read1", "read2"} /\ pc'[s] \in {"read1", "read2", "app1"}
          /\ content' = content
      BY <1>0, <1>5 DEF Read1, Read2, Goes, TextType
    <2>2. IsPrefix(buf1[s], content[File(s, 1)]) /\ IsPrefix(buf2[s], content[File(s, 2)])
      BY <1>0, <2>1 DEF ReadOf, Past, AppPcs
    <2>3. File(s, 1) \in Files /\ File(s, 2) \in Files
      BY <1>1, <2>1 DEF AppPcs
    <2>4. buf1'[s] = buf1[s] \/ buf1'[s] \in Further(buf1[s], File(s, 1))
      BY <1>0, <1>5 DEF Read1, Read2, TextType
    <2>5. buf2'[s] = buf2[s] \/ buf2'[s] \in Further(buf2[s], File(s, 2))
      BY <1>0, <1>5 DEF Read1, Read2, TextType
    <2>6. IsPrefix(buf1'[s], content[File(s, 1)])
      BY <1>0, <1>1, <2>2, <2>3, <2>4, FurtherOf
    <2>7. IsPrefix(buf2'[s], content[File(s, 2)])
      BY <1>0, <1>1, <2>2, <2>3, <2>5, FurtherOf
    <2>8. ReadOf(s)'
      BY <1>1, <2>1, <2>6, <2>7 DEF ReadOf
    <2>9. WrittenOf(s)'
      BY <2>1 DEF WrittenOf, Past, Returned
    <2> QED
      BY <2>8, <2>9
  \* In the appends the buffers stay and the files grow.
  <1>7. ASSUME Append1(s) \/ Append2(s)
        PROVE  /\ pc[s] \in {"app1", "close1", "app2", "close2"}
               /\ UNCHANGED <<buf1, buf2, rc, closeFaults>>
               /\ Len(buf1[s]) \in 0 .. Len(content[File(s, 1)])
               /\ Len(buf2[s]) \in 0 .. Len(content[File(s, 2)])
               /\ ReadOf(s)'
    <2>1. pc[s] \in {"app1", "close1", "app2", "close2"} /\ UNCHANGED <<buf1, buf2, rc, closeFaults>>
      BY <1>7 DEF Append1, Append2, Fwrite, Fclose, Goes, Calm
    <2>2. /\ IsPrefix(buf1[s], content[File(s, 1)]) /\ IsPrefix(buf2[s], content[File(s, 2)])
          /\ File(s, 1) \in Files /\ File(s, 2) \in Files
      BY <1>0, <1>1, <2>1 DEF ReadOf, Past, AppPcs
    <2>3. /\ Len(buf1[s]) \in 0 .. Len(content[File(s, 1)])
          /\ Len(buf2[s]) \in 0 .. Len(content[File(s, 2)])
      BY <1>1, <2>2 DEF IsPrefix
    <2>4. ReadOf(s)'
      <3>1. pc'[s] # "prompt"
        BY <1>0, <1>7 DEF Append1, Append2, Fwrite, Fclose, Goes, TextType
      <3>2. IsPrefix(buf1[s], content'[File(s, 1)]) /\ IsPrefix(buf2[s], content'[File(s, 2)])
        BY <1>0, <1>1, <2>2, GrownKeeps
      <3> QED
        BY <1>1, <2>1, <3>1, <3>2 DEF ReadOf
    <2> QED
      BY <2>1, <2>3, <2>4
  <1>8. CASE Append1(s)
    <2> SUFFICES ASSUME closeFaults = CloseFaults PROVE WrittenOf(s)'
      BY <1>7, <1>8
    <2>1. WrittenOf(s)
      BY DEF TextInv
    <2>2. CASE Fwrite(s, 1, buf2[s], "app1", "close1")
      <3>1. pc'[s] = "close1"
        BY <1>0, <2>2 DEF Fwrite, Goes, TextType
      <3>2. \E n \in 0 .. Len(buf2[s]) : /\ rest'[s] = SubSeq(buf2[s], n + 1, Len(buf2[s]))
                                        /\ Stands(SubSeq(buf2[s], 1, n), content'[File(s, 1)], Len(buf1[s]))
        BY <1>0, <1>1, <1>7, <1>8, <2>2, FwriteStands DEF AppPcs
      <3>3. HalfWritten(s, buf2[s], File(s, 1), Len(buf1[s]))'
        BY <1>1, <1>7, <1>8, <3>2 DEF HalfWritten
      <3> QED
        BY <3>1, <3>3 DEF WrittenOf, Past, Returned
    <2>3. CASE Fclose(s, 1, "close1", "app2")
      <3>1. pc[s] = "close1" /\ pc'[s] = "app2"
        BY <1>0, <2>3 DEF Fclose, Goes, TextType
      <3>2. HalfWritten(s, buf2[s], File(s, 1), Len(buf1[s]))
        BY <2>1, <3>1 DEF WrittenOf
      <3>3. Stands(buf2[s], content'[File(s, 1)], Len(buf1[s]))
        BY <1>0, <1>1, <1>7, <1>8, <2>3, <3>2, FcloseStands DEF AppPcs
      <3> QED
        BY <1>1, <1>7, <1>8, <3>1, <3>3 DEF WrittenOf, Past, Returned
    <2> QED
      BY <1>8, <2>2, <2>3 DEF Append1
  <1>9. CASE Append2(s)
    <2> SUFFICES ASSUME closeFaults = CloseFaults PROVE WrittenOf(s)'
      BY <1>7, <1>9
    <2>1. WrittenOf(s) /\ pc[s] \in {"app2", "close2"}
      BY <1>9 DEF TextInv, Append2, Fwrite, Fclose, Goes
    <2>2. Stands(buf2[s], content[File(s, 1)], Len(buf1[s]))
      BY <2>1 DEF WrittenOf, Past
    <2>3. Stands(buf2[s], content'[File(s, 1)], Len(buf1[s]))
      BY <1>0, <1>1, <2>1, <2>2, GrownKeeps DEF AppPcs
    <2>4. CASE Fwrite(s, 2, buf1[s], "app2", "close2")
      <3>1. pc'[s] = "close2"
        BY <1>0, <2>4 DEF Fwrite, Goes, TextType
      <3>2. \E n \in 0 .. Len(buf1[s]) : /\ rest'[s] = SubSeq(buf1[s], n + 1, Len(buf1[s]))
                                        /\ Stands(SubSeq(buf1[s], 1, n), content'[File(s, 2)], Len(buf2[s]))
        BY <1>0, <1>1, <1>7, <1>9, <2>4, FwriteStands DEF AppPcs
      <3>3. HalfWritten(s, buf1[s], File(s, 2), Len(buf2[s]))'
        BY <1>1, <1>7, <1>9, <3>2 DEF HalfWritten
      <3> QED
        BY <1>1, <1>7, <1>9, <2>3, <3>1, <3>3 DEF WrittenOf, Past, Returned
    <2>5. CASE Fclose(s, 2, "close2", "done")
      <3>1. pc[s] = "close2" /\ pc'[s] = "done"
        BY <1>0, <2>5 DEF Fclose, Goes, TextType
      <3>2. HalfWritten(s, buf1[s], File(s, 2), Len(buf2[s]))
        BY <2>1, <3>1 DEF WrittenOf
      <3>3. Stands(buf1[s], content'[File(s, 2)], Len(buf2[s]))
        BY <1>0, <1>1, <1>7, <1>9, <2>5, <3>2, FcloseStands DEF AppPcs
      <3> QED
        BY <1>1, <1>7, <1>9, <2>3, <3>1, <3>3 DEF WrittenOf, Past, Returned
    <2> QED
      BY <1>9, <2>4, <2>5 DEF Append2
  <1>10. CASE Unwritten(s)
    <2>1. closeFaults' # CloseFaults
      BY <1>0, <1>10, TxtAssumption DEF Unwritten, TextType
    <2>2. /\ pc[s] \in {"close1", "close2"} /\ UNCHANGED <<content, buf1, buf2>>
      BY <1>10 DEF Unwritten, Goes
    <2>3. ReadOf(s)'
      <3>1. pc'[s] # "prompt"
        BY <1>0, <1>10 DEF Unwritten, Goes, TextType
      <3> QED
        BY <1>0, <1>1, <2>2, <3>1 DEF ReadOf, Past, AppPcs
    <2> QED
      BY <2>1, <2>3
  <1>11. CASE Cat(s)
    <2>1. pc[s] = "cat" /\ line[s].op = "+"
      BY <1>0, <1>11 DEF Cat, TextType, LineOfPc
    <2>2. pc'[s] \notin AppPcs \union {"prompt"}
      BY <1>0, <1>11, <2>1 DEF Cat, Fails, Goes, TextType, AppPcs
    <2> QED
      BY <1>0, <1>2, <2>1, <2>2 DEF Returned
  <1>12. CASE CatEnds(s) \/ Count(s)
    <2>1. line[s].op # "++" /\ pc'[s] \in {"count", "done"}
      BY <1>0, <1>12 DEF CatEnds, Count, Scanf, Goes, TextType, LineOfPc
    <2> QED
      BY <1>0, <1>2, <2>1 DEF Returned, AppPcs
  <1>13. CASE Unopened(s)
    BY <1>2, <1>3, <1>13 DEF Unopened
  <1> QED
    BY <1>4, <1>5, <1>7, <1>8, <1>9, <1>10, <1>11, <1>12, <1>13 DEF Text
-----------------------------------------------------------------------------
LEMMA InitText == Init => TextInv
  <1> SUFFICES ASSUME Init PROVE TextInv
    OBVIOUS
  <1> USE DEF Init, TextInit
  <1>1. \A s \in Shells : pc[s] = "prompt"
    OBVIOUS
  <1>2. TextType
    <2>1. content \in [Files -> Seq(Chars)] /\ closeFaults \in 0 .. CloseFaults
      BY TxtAssumption
    <2>2. line \in [Shells -> [op : STRING, paths : Seq(DOMAIN Names)]]
      BY TxtAssumption
    <2>3. <<>> \in Seq(Chars)
      BY EmptySeq
    <2>4. /\ buf1 = [s \in Shells |-> <<>>] /\ buf2 = [s \in Shells |-> <<>>]
          /\ rest = [s \in Shells |-> <<>>]
      OBVIOUS
    <2>5. /\ buf1 \in [Shells -> Seq(Chars)] /\ buf2 \in [Shells -> Seq(Chars)]
          /\ rest \in [Shells -> Seq(Chars)]
      BY <2>3, <2>4
    <2>6. pc \in [Shells -> Pcs] /\ rc \in [Shells -> Int]
      BY DEF Pcs
    <2>7. \A s \in Shells : LineOfPc(s)
      BY <1>1 DEF LineOfPc, Returned, AppPcs
    <2>8. next \in [Shells -> Nat \ {0}]
      OBVIOUS
    <2> QED
      BY <2>1, <2>2, <2>5, <2>6, <2>7, <2>8 DEF TextType
  <1>3. \A s \in Shells : ReadOf(s) /\ WrittenOf(s)
    BY <1>1 DEF ReadOf, WrittenOf, Past, Returned, AppPcs
  <1> QED
    BY <1>2, <1>3 DEF TextInv

LEMMA TextStep ==
  ASSUME TextInv, NEW s \in Shells, Text(s) PROVE TextInv' /\ Grown
  <1>1. TextType /\ TextType' /\ Grown
    BY TextTypeKept DEF TextInv
  <1>2. UNCHANGED line
    BY DEF Text, Calls, Read1, Read2, Append1, Append2, Fwrite, Fclose, Unwritten, Cat,
           CatEnds, Count, Scanf, Unopened, Calm
  <1>3. ASSUME NEW t \in Shells \ {s}
        PROVE  /\ pc'[t] = pc[t] /\ rc'[t] = rc[t] /\ buf1'[t] = buf1[t]
               /\ buf2'[t] = buf2[t] /\ rest'[t] = rest[t]
    BY <1>1 DEF Text, Calls, Read1, Read2, Append1, Append2, Fwrite, Fclose, Unwritten, Cat,
           CatEnds, Count, Scanf, Unopened, Calm, Goes, Fails, buffers, TextType
  <1>4. \A t \in Shells \ {s} : ReadOf(t)' /\ (WrittenOf(t) => WrittenOf(t)')
    BY <1>1, <1>2, <1>3, OthersKept DEF TextInv
  <1>5. closeFaults' = CloseFaults => closeFaults = CloseFaults
    <2>1. closeFaults' = closeFaults \/ closeFaults' = closeFaults - 1
      BY DEF Text, Calls, Read1, Read2, Append1, Append2, Fwrite, Fclose, Unwritten, Cat,
             CatEnds, Count, Scanf, Unopened, Calm
    <2> QED
      BY <1>1, <2>1, TxtAssumption DEF TextType
  <1>6. ReadOf(s)' /\ (closeFaults' = CloseFaults => WrittenOf(s)')
    BY OwnKept
  <1> QED
    BY <1>1, <1>4, <1>5, <1>6 DEF TextInv

\* killallmb and run_cmd touch no file and no buffer.
LEMMA ElsewhereStep ==
  ASSUME TextInv, NEW s \in Shells, NEW from \in {"prompt", "scan", "tty", "kill", "wait"},
         NEW to \in {"scan", "tty", "kill", "wait", "done"}, Does(s, from, to),
         line[s].op \in {"killallmb", "run"},
         to \in {"scan", "tty", "kill"} => line[s].op = "killallmb",
         to = "wait" => line[s].op = "run"
  PROVE  TextInv' /\ Grown
  <1>1. /\ pc' = [pc EXCEPT ![s] = to]
        /\ UNCHANGED <<content, line, buf1, buf2, rest, rc, next, closeFaults>>
    BY DEF Does, Goes, buffers
  <1>2. TextType /\ to \in Pcs
    BY DEF TextInv, Pcs
  <1>3. LineOfPc(s)'
    BY <1>1, <1>2 DEF LineOfPc, Returned, AppPcs, TextType
  <1>4. TextType'
    BY <1>1, <1>2, <1>3, LineKept DEF TextType
  <1>5. Grown
    BY <1>1, <1>2, UnchangedGrown
  <1>6. ReadOf(s)' /\ WrittenOf(s)'
    BY <1>1, <1>2 DEF ReadOf, WrittenOf, Past, Returned, AppPcs, TextType
  <1>7. \A t \in Shells \ {s} : ReadOf(t)' /\ (WrittenOf(t) => WrittenOf(t)')
    BY <1>1, <1>2, <1>4, <1>5, OthersKept DEF TextInv
  <1> QED
    BY <1>1, <1>4, <1>5, <1>6, <1>7 DEF TextInv
\* Nor when /proc cannot be opened.
LEMMA ProcUnopenedStep ==
  ASSUME TextInv, NEW s \in Shells, ProcUnopened(s)
  PROVE  TextInv' /\ Grown
  <1>1. /\ pc' = [pc EXCEPT ![s] = "done"] /\ rc' = [rc EXCEPT ![s] = -1]
        /\ UNCHANGED <<content, line, buf1, buf2, rest, next, closeFaults>>
    BY DEF ProcUnopened, Fails, Goes, buffers
  <1>2. TextType
    BY DEF TextInv
  <1>3. TextType'
    BY <1>1, <1>2, FailsKept DEF TextType, ProcUnopened
  <1>4. Grown
    BY <1>1, <1>2, UnchangedGrown
  <1>5. ReadOf(s)' /\ WrittenOf(s)'
    BY <1>1, <1>2 DEF ReadOf, WrittenOf, Past, Returned, AppPcs, TextType
  <1>6. \A t \in Shells \ {s} : ReadOf(t)' /\ (WrittenOf(t) => WrittenOf(t)')
    BY <1>1, <1>2, <1>3, <1>4, OthersKept DEF TextInv, TextType
  <1> QED
    BY <1>1, <1>3, <1>4, <1>5, <1>6 DEF TextInv

LEMMA NextText == TextInv /\ [Next]_vars => TextInv' /\ (Next => Grown)
  <1> SUFFICES ASSUME TextInv, [Next]_vars PROVE TextInv' /\ (Next => Grown)
    OBVIOUS
  <1>1. CASE UNCHANGED texts
    <2>1. UNCHANGED <<content, line, pc, buf1, buf2, rest, rc, next, closeFaults>>
      BY <1>1 DEF texts, buffers
    <2>2. TextInv'
      BY <2>1 DEF TextInv, TextType, LineOfPc, ReadOf, WrittenOf, HalfWritten, Past,
                  Returned, File, path, argc
    <2> QED
      BY <2>1, <2>2, UnchangedGrown DEF TextInv
  <1>2. ASSUME NEW s \in Shells, Runs(s) PROVE TextInv' /\ Grown
    <2>1. CASE Text(s)
      BY <2>1, TextStep
    <2>2. LineOfPc(s)
      BY DEF TextInv, TextType
    <2>3. CASE signal_other_minibash_instances(s)
      <3>1. CASE OpenProc(s)
        BY <3>1, ElsewhereStep DEF OpenProc
      <3>0. CASE ProcUnopened(s)
        BY <3>0, ProcUnopenedStep
      <3>2. CASE Test_tty(s)
        <4>1. Does(s, "tty", "kill") \/ Does(s, "tty", "scan")
          BY <3>2 DEF Test_tty
        <4>2. line[s].op = "killallmb"
          BY <2>2, <4>1 DEF Does, Goes, LineOfPc
        <4> QED
          BY <4>1, <4>2, ElsewhereStep
      <3>3. CASE Kill(s)
        <4>1. line[s].op = "killallmb"
          BY <2>2, <3>3 DEF Kill, Does, Goes, LineOfPc
        <4> QED
          BY <3>3, <4>1, ElsewhereStep DEF Kill
      <3>4. CASE Scanned(s)
        <4>1. line[s].op = "killallmb"
          BY <2>2, <3>4 DEF Scanned, Does, Goes, LineOfPc
        <4> QED
          BY <3>4, <4>1, ElsewhereStep DEF Scanned
      <3>5. ASSUME NEW p \in todo[s], Test_exe(s, p) PROVE TextInv' /\ Grown
        <4>1. Does(s, "scan", "tty") \/ Does(s, "scan", "scan")
          BY <3>5 DEF Test_exe
        <4>2. line[s].op = "killallmb"
          BY <2>2, <4>1 DEF Does, Goes, LineOfPc
        <4> QED
          BY <4>1, <4>2, ElsewhereStep
      <3> QED
        BY <2>3, <3>0, <3>1, <3>2, <3>3, <3>4, <3>5 DEF signal_other_minibash_instances
    <2>4. CASE Forks(s)
      BY <2>4, ElsewhereStep DEF Forks
    <2>5. CASE Waited(s)
      <3>1. line[s].op = "run"
        BY <2>2, <2>5 DEF Waited, Does, Goes, LineOfPc
      <3> QED
        BY <2>5, <3>1, ElsewhereStep DEF Waited
    <2> QED
      BY <1>2, <2>1, <2>3, <2>4, <2>5 DEF Runs
  <1> QED
    BY <1>1, <1>2 DEF Next, vars, Dup2, Exec, Exits, Terminated

LEMMA TextInvariant == Spec => []TextInv
  BY InitText, NextText, PTL DEF Spec

\* As long as fclose works, ++ returns 0 only when each file's text stands behind the
\* other's, for texts of any length and any number of shells (exc_txt_app_cmd).
THEOREM OutcomeCorrect == Spec => []OutcomeReported
  <1>1. TextInv => OutcomeReported
    BY DEF TextInv, WrittenOf, Past, OutcomeReported
  <1> QED
    BY TextInvariant, <1>1, PTL
-----------------------------------------------------------------------------
-----------------------------------------------------------------------------
(* What # counts is the number of pieces of at most Width characters.      *)

LEMMA Multiples ==
  ASSUME NEW W \in Nat, NEW q \in Nat, NEW p \in Nat, NEW k \in Nat, 0 < k, k < W
  PROVE  q * W # p * W + k
  <1>1. CASE q =< p
    <2>1. PICK d \in Nat : p = q + d
      BY <1>1
    <2>2. p * W = q * W + d * W /\ d * W \in Nat /\ q * W \in Nat
      BY <2>1
    <2> QED
      BY <2>2
  <1>2. CASE q > p
    <2>1. PICK d \in Nat : q = p + 1 + d
      <3>1. q - p - 1 \in Nat /\ q = p + 1 + (q - p - 1)
        BY <1>2
      <3> QED
        BY <3>1
    <2>2. q * W = p * W + W + d * W /\ d * W \in Nat /\ p * W \in Nat
      BY <2>1
    <2> QED
      BY <2>2
  <1> QED
    BY <1>1, <1>2

LEMMA MultipleOf ==
  ASSUME NEW W \in Nat \ {0}, NEW q \in Nat
  PROVE  q * W \in Nat /\ q =< q * W /\ (q + 1) * W = q * W + W
  <1>1. PICK V \in Nat : W = V + 1
    <2>1. W - 1 \in Nat /\ W = W - 1 + 1
      OBVIOUS
    <2> QED
      BY <2>1
  <1>2. q * W = q * V + q /\ q * V \in Nat /\ (q + 1) * W = q * W + W
    BY <1>1
  <1> QED
    BY <1>2

\* The word that starts at b has no blank up to e.
Unbroken(t, b, e) == \A j \in b .. e : t[j] \notin Blanks

LEMMA PiecesAre ==
  ASSUME NEW t \in Seq(Chars), NEW i \in 1 .. Len(t)
  PROVE  i \in Pieces(t) <=>
           \E b \in WordStarts(t), q \in Nat : i = b + q * Width /\ Unbroken(t, b, i)
  <1>1. DOMAIN t = 1 .. Len(t) /\ Len(t) \in Nat
    BY LenProperties
  <1>2. ASSUME NEW b \in WordStarts(t), NEW q \in Nat, i = b + q * Width PROVE q \in 0 .. Len(t)
    <2>1. b \in Nat
      BY <1>1 DEF WordStarts
    <2>2. q =< q * Width /\ q * Width \in Nat
      BY TxtAssumption, MultipleOf
    <2>3. PICK m \in Nat : m = q * Width
      BY <2>2
    <2> QED
      BY <1>1, <1>2, <2>1, <2>2, <2>3
  <1>3. \A q \in 0 .. Len(t) : q \in Nat
    BY <1>1
  <1> QED
    BY <1>1, <1>2, <1>3 DEF Pieces, Unbroken

\* n pieces have been counted of t, and k characters of the last word since then.
Counted(t, n, k) ==
    /\ n \in Nat /\ n = Cardinality(Pieces(t)) /\ k \in 0 .. Width
    /\ k = 0 => (Len(t) > 0 => t[Len(t)] \in Blanks)
    /\ k > 0 => \E b \in WordStarts(t), q \in Nat :
                    Len(t) = b + q * Width + (k - 1) /\ Unbroken(t, b, Len(t))

LEMMA InsideWord ==
  ASSUME NEW t, NEW n \in Nat, n = Cardinality(Pieces(t)), NEW k \in 1 .. Width,
         NEW b \in WordStarts(t), NEW q \in Nat, Len(t) = b + q * Width + (k - 1),
         Unbroken(t, b, Len(t))
  PROVE  Counted(t, n, k)
  <1>1. k \in 0 .. Width /\ k # 0
    BY TxtAssumption
  <1> QED
    BY <1>1, Zenon DEF Counted

LEMMA NothingCounted == Counted(<<>>, 0, 0)
  <1>1. Len(<<>>) = 0 /\ DOMAIN <<>> = {}
    OBVIOUS
  <1>2. Pieces(<<>>) = {}
    BY <1>1 DEF Pieces
  <1>3. 0 = Cardinality(Pieces(<<>>))
    BY <1>2, FS_EmptySet, Zenon
  <1>5. 0 \in Nat /\ 0 \in 0 .. Width /\ ~ (0 > 0)
    BY TxtAssumption
  <1>4. ~ (Len(<<>>) > 0)
    BY <1>1
  <1> QED
    BY <1>3, <1>4, <1>5, Zenon DEF Counted

LEMMA PiecesFinite ==
  ASSUME NEW t \in Seq(Chars)
  PROVE  IsFiniteSet(Pieces(t)) /\ Pieces(t) \subseteq 1 .. Len(t)
  <1>1. Pieces(t) \subseteq 1 .. Len(t) /\ Len(t) \in Nat
    BY LenProperties DEF Pieces
  <1>2. IsFiniteSet(1 .. Len(t))
    BY <1>1, FS_Interval
  <1> QED
    BY <1>1, <1>2, FS_Subset

\* One more character: where it makes a word start, and where a piece.
LEMMA OneMore ==
  ASSUME NEW t \in Seq(Chars), NEW c \in Chars, NEW u, u = Append(t, c)
  PROVE  /\ u \in Seq(Chars) /\ Len(t) \in Nat /\ Len(u) = Len(t) + 1 /\ u[Len(u)] = c
         /\ \A i \in 1 .. Len(t) : /\ u[i] = t[i]
                                   /\ i \in WordStarts(u) <=> i \in WordStarts(t)
                                   /\ i \in Pieces(u) <=> i \in Pieces(t)
         /\ Len(u) \in WordStarts(u) <=> c \notin Blanks /\ (Len(t) > 0 => t[Len(t)] \in Blanks)
         /\ WordStarts(t) \subseteq 1 .. Len(t) /\ WordStarts(u) \subseteq 1 .. Len(u)
  <1>1. /\ u \in Seq(Chars) /\ Len(t) \in Nat /\ Len(u) = Len(t) + 1 /\ u[Len(u)] = c
        /\ \A i \in 1 .. Len(t) : u[i] = t[i]
    BY AppendProperties, LenProperties
  <1>2. DOMAIN t = 1 .. Len(t) /\ DOMAIN u = 1 .. Len(u)
    BY <1>1, LenProperties
  <1>3. WordStarts(t) \subseteq 1 .. Len(t) /\ WordStarts(u) \subseteq 1 .. Len(u)
    BY <1>2 DEF WordStarts
  <1>4. \A i \in 1 .. Len(t) : i \in WordStarts(u) <=> i \in WordStarts(t)
    <2> SUFFICES ASSUME NEW i \in 1 .. Len(t) PROVE i \in WordStarts(u) <=> i \in WordStarts(t)
      OBVIOUS
    <2>1. i > 1 => i - 1 \in 1 .. Len(t)
      BY <1>1
    <2>2. i \in 1 .. Len(u)
      BY <1>1
    <2> QED
      BY <1>1, <1>2, <2>1, <2>2 DEF WordStarts
  <1>5. ASSUME NEW i \in 1 .. Len(t) PROVE i \in Pieces(u) <=> i \in Pieces(t)
    <2>1. i \in 1 .. Len(u)
      BY <1>1
    <2>2. \A b, q : b \in WordStarts(u) /\ q \in Nat /\ i = b + q * Width => b \in 1 .. Len(t)
      <3> SUFFICES ASSUME NEW b \in WordStarts(u), NEW q \in Nat, i = b + q * Width
                   PROVE  b \in 1 .. Len(t)
        OBVIOUS
      <3>1. b \in Nat /\ b >= 1 /\ q * Width \in Nat
        BY <1>1, <1>3, TxtAssumption, MultipleOf
      <3>2. PICK m \in Nat : m = q * Width
        BY <3>1
      <3> QED
        BY <1>1, <3>1, <3>2
    <2>3. \A b \in 1 .. Len(t) : Unbroken(u, b, i) <=> Unbroken(t, b, i)
      <3>1. \A b \in 1 .. Len(t) : \A j \in b .. i : j \in 1 .. Len(t)
        BY <1>1
      <3> QED
        BY <1>1, <3>1 DEF Unbroken
    <2>4. i \in Pieces(u) <=> \E b \in WordStarts(u), q \in Nat : i = b + q * Width /\ Unbroken(u, b, i)
      BY <1>1, <2>1, PiecesAre
    <2>5. i \in Pieces(t) <=> \E b \in WordStarts(t), q \in Nat : i = b + q * Width /\ Unbroken(t, b, i)
      BY PiecesAre
    <2> QED
      BY <1>3, <1>4, <2>2, <2>3, <2>4, <2>5
  <1>6. Len(u) \in WordStarts(u) <=> c \notin Blanks /\ (Len(t) > 0 => t[Len(t)] \in Blanks)
    <2>1. Len(u) \in 1 .. Len(u) /\ Len(u) - 1 = Len(t) /\ (Len(u) > 1 <=> Len(t) > 0)
      BY <1>1
    <2>2. Len(t) > 0 => u[Len(t)] = t[Len(t)]
      BY <1>1
    <2> QED
      BY <1>1, <1>2, <2>1, <2>2 DEF WordStarts
  <1> QED
    BY <1>1, <1>3, <1>4, <1>5, <1>6

LEMMA PieceAdded ==
  ASSUME NEW t \in Seq(Chars), NEW c \in Chars, NEW u, u = Append(t, c),
         NEW n, n = Cardinality(Pieces(t))
  PROVE  /\ n \in Nat
         /\ Cardinality(Pieces(u)) = IF Len(u) \in Pieces(u) THEN n + 1 ELSE n
  <1>1. /\ u \in Seq(Chars) /\ Len(t) \in Nat /\ Len(u) = Len(t) + 1
        /\ \A i \in 1 .. Len(t) : i \in Pieces(u) <=> i \in Pieces(t)
    BY OneMore
  <1>2. /\ IsFiniteSet(Pieces(t)) /\ Pieces(t) \subseteq 1 .. Len(t)
        /\ Pieces(u) \subseteq 1 .. Len(u)
    BY <1>1, PiecesFinite
  <1>3. \A i : i \in 1 .. Len(u) <=> i \in 1 .. Len(t) \/ i = Len(u)
    BY <1>1
  <1>4. Len(u) \notin 1 .. Len(t)
    BY <1>1
  <1>5. CASE Len(u) \in Pieces(u)
    <2>1. \A i : i \in Pieces(u) <=> i \in Pieces(t) \/ i = Len(u)
      BY <1>1, <1>2, <1>3, <1>5
    <2>2. Pieces(u) = Pieces(t) \union {Len(u)}
      BY <2>1
    <2>3. Len(u) \notin Pieces(t)
      BY <1>2, <1>4
    <2> QED
      BY <1>2, <1>5, <2>2, <2>3, FS_AddElement, FS_CardinalityType
  <1>6. CASE Len(u) \notin Pieces(u)
    <2>1. \A i : i \in Pieces(u) <=> i \in Pieces(t)
      BY <1>1, <1>2, <1>3, <1>6
    <2>2. Pieces(u) = Pieces(t)
      BY <2>1
    <2> QED
      BY <1>2, <1>6, <2>2, FS_CardinalityType
  <1> QED
    BY <1>5, <1>6

\* fscanf's step keeps the count.
LEMMA CountedStep ==
  ASSUME NEW t \in Seq(Chars), NEW c \in Chars, NEW n, NEW k, Counted(t, n, k),
         NEW u, u = Append(t, c)
  PROVE  LET r == fscanf(n, k, c) IN r \in Seq(Nat) /\ Counted(u, r[1], r[2])
  <1>1. /\ u \in Seq(Chars) /\ Len(t) \in Nat /\ Len(u) = Len(t) + 1 /\ u[Len(u)] = c
        /\ \A i \in 1 .. Len(t) : u[i] = t[i] /\ (i \in WordStarts(u) <=> i \in WordStarts(t))
        /\ Len(u) \in WordStarts(u) <=> c \notin Blanks /\ (Len(t) > 0 => t[Len(t)] \in Blanks)
        /\ WordStarts(t) \subseteq 1 .. Len(t) /\ WordStarts(u) \subseteq 1 .. Len(u)
    <2>1. /\ u \in Seq(Chars) /\ Len(t) \in Nat /\ Len(u) = Len(t) + 1 /\ u[Len(u)] = c
      BY OneMore
    <2>2. ASSUME NEW i \in 1 .. Len(t)
          PROVE  u[i] = t[i] /\ (i \in WordStarts(u) <=> i \in WordStarts(t))
      <3>1. u[i] = t[i]
        BY OneMore
      <3>2. i \in WordStarts(u) <=> i \in WordStarts(t)
        BY OneMore
      <3> QED
        BY <3>1, <3>2
    <2>3. Len(u) \in WordStarts(u) <=> c \notin Blanks /\ (Len(t) > 0 => t[Len(t)] \in Blanks)
      BY OneMore
    <2>4. WordStarts(t) \subseteq 1 .. Len(t) /\ WordStarts(u) \subseteq 1 .. Len(u)
      BY OneMore
    <2> QED
      BY <2>1, <2>2, <2>3, <2>4
  <1>2. n \in Nat /\ n = Cardinality(Pieces(t)) /\ k \in 0 .. Width /\ k \in Nat /\ Width \in Nat \ {0}
    BY TxtAssumption DEF Counted
  <1>3. Cardinality(Pieces(u)) = IF Len(u) \in Pieces(u) THEN n + 1 ELSE n
    BY <1>2, PieceAdded
  <1>4. Len(u) \in Pieces(u) <=>
          \E b \in WordStarts(u), q \in Nat : Len(u) = b + q * Width /\ Unbroken(u, b, Len(u))
    <2>1. Len(u) \in 1 .. Len(u)
      BY <1>1
    <2> QED
      BY <1>1, <2>1, PiecesAre
  <1>5. CASE c \in Blanks
    <2>1. fscanf(n, k, c) = <<n, 0>>
      BY <1>5 DEF fscanf
    <2>2. Len(u) \notin Pieces(u)
      <3>1. \A b \in WordStarts(u) : Len(u) \in b .. Len(u)
        BY <1>1
      <3> QED
        BY <1>1, <1>4, <1>5, <3>1 DEF Unbroken
    <2>3. Counted(u, n, 0)
      BY <1>1, <1>2, <1>3, <1>5, <2>2 DEF Counted
    <2>4. <<n, 0>> \in Seq(Nat) /\ <<n, 0>>[1] = n /\ <<n, 0>>[2] = 0
      BY <1>2
    <2> QED
      BY <2>1, <2>3, <2>4
  <1>6. CASE c \notin Blanks /\ k = 0
    <2>1. fscanf(n, k, c) = <<n + 1, 1>>
      BY <1>6 DEF fscanf
    <2>2. Len(u) \in WordStarts(u)
      BY <1>1, <1>6 DEF Counted
    <2>3. Len(u) = Len(u) + 0 * Width /\ Unbroken(u, Len(u), Len(u)) /\ 0 \in Nat
      <3>1. \A j \in Len(u) .. Len(u) : j = Len(u)
        BY <1>1
      <3> QED
        BY <1>1, <1>2, <1>6, <3>1 DEF Unbroken
    <2>4. Len(u) \in Pieces(u)
      BY <1>4, <2>2, <2>3
    <2>5. Len(u) = Len(u) + 0 * Width + (1 - 1)
      BY <1>1, <1>2
    <2>6. Counted(u, n + 1, 1)
      <3>1. 1 \in 1 .. Width /\ n + 1 \in Nat /\ n + 1 = Cardinality(Pieces(u))
        BY <1>2, <1>3, <2>4
      <3> QED
        BY <2>2, <2>3, <2>5, <3>1, InsideWord, Zenon
    <2>7. <<n + 1, 1>> \in Seq(Nat) /\ <<n + 1, 1>>[1] = n + 1 /\ <<n + 1, 1>>[2] = 1
      BY <1>2
    <2> QED
      BY <2>1, <2>6, <2>7
  <1>7. CASE c \notin Blanks /\ k # 0
    <2>1. PICK b \in WordStarts(t), q \in Nat :
             Len(t) = b + q * Width + (k - 1) /\ Unbroken(t, b, Len(t))
      BY <1>2, <1>7 DEF Counted
    <2>2. PICK m \in Nat : m = q * Width /\ (q + 1) * Width = m + Width
      BY <1>2, MultipleOf
    <2>3. b \in Nat /\ b >= 1 /\ b =< Len(t) /\ b \in WordStarts(u) /\ Len(u) = b + m + k
      BY <1>1, <1>2, <2>1, <2>2
    <2>4. Unbroken(u, b, Len(u))
      <3>1. \A j \in b .. Len(u) : (j \in b .. Len(t) /\ j \in 1 .. Len(t)) \/ j = Len(u)
        BY <1>1, <2>3
      <3> QED
        BY <1>1, <1>7, <2>1, <3>1 DEF Unbroken
    <2>5. CASE k = Width
      <3>1. fscanf(n, k, c) = <<n + 1, 1>>
        BY <1>7, <2>5 DEF fscanf
      <3>2. Len(u) = b + (q + 1) * Width /\ q + 1 \in Nat /\ Len(u) = b + (q + 1) * Width + (1 - 1)
        BY <1>2, <2>2, <2>3, <2>5
      <3>3. Len(u) \in Pieces(u)
        BY <1>4, <2>3, <2>4, <3>2
      <3>4. Counted(u, n + 1, 1)
        <4>1. 1 \in 1 .. Width /\ n + 1 \in Nat /\ n + 1 = Cardinality(Pieces(u))
          BY <1>2, <1>3, <3>3
        <4> QED
          BY <2>3, <2>4, <3>2, <4>1, InsideWord, Zenon
      <3>5. <<n + 1, 1>> \in Seq(Nat) /\ <<n + 1, 1>>[1] = n + 1 /\ <<n + 1, 1>>[2] = 1
        BY <1>2
      <3> QED
        BY <3>1, <3>4, <3>5
    <2>6. CASE k # Width
      <3>1. fscanf(n, k, c) = <<n, k + 1>>
        BY <1>7, <2>6 DEF fscanf
      <3>2. Len(u) \notin Pieces(u)
        <4> SUFFICES ASSUME NEW d \in WordStarts(u), NEW p \in Nat,
                            Len(u) = d + p * Width, Unbroken(u, d, Len(u))
                     PROVE  FALSE
          BY <1>4
        <4>1. d \in Nat /\ d >= 1 /\ d =< Len(u)
          BY <1>1
        <4>2. CASE d < b
          <5>1. u[b - 1] \in Blanks
            <6>1. b > 1
              BY <2>3, <4>1, <4>2
            <6> QED
              BY <2>3, <6>1 DEF WordStarts
          <5>2. b - 1 \in d .. Len(u)
            BY <1>1, <2>3, <4>1, <4>2
          <5> QED
            BY <5>1, <5>2 DEF Unbroken
        <4>3. CASE d > b
          <5>1. u[d - 1] \in Blanks
            <6>1. d > 1
              BY <2>3, <4>1, <4>3
            <6> QED
              BY <6>1 DEF WordStarts
          <5>2. d - 1 \in b .. Len(u)
            BY <1>1, <2>3, <4>1, <4>3
          <5> QED
            BY <2>4, <5>1, <5>2 DEF Unbroken
        <4>4. CASE d = b
          <5>1. p * Width # q * Width + k
            BY <1>2, <1>7, <2>6, Multiples
          <5>2. p * Width \in Nat
            BY <1>2, MultipleOf
          <5>3. PICK o \in Nat : o = p * Width
            BY <5>2
          <5> QED
            BY <1>2, <2>2, <2>3, <4>4, <5>1, <5>3
        <4> QED
          BY <2>3, <4>1, <4>2, <4>3, <4>4
      <3>3. k + 1 \in 1 .. Width /\ Len(u) = b + q * Width + ((k + 1) - 1)
        BY <1>2, <2>2, <2>3, <2>6
      <3>4. Counted(u, n, k + 1)
        <4>1. n = Cardinality(Pieces(u))
          BY <1>3, <3>2
        <4> QED
          BY <1>2, <2>3, <2>4, <3>3, <4>1, InsideWord, Zenon
      <3>5. <<n, k + 1>> \in Seq(Nat) /\ <<n, k + 1>>[1] = n /\ <<n, k + 1>>[2] = k + 1
        BY <1>2
      <3> QED
        BY <3>1, <3>4, <3>5
    <2> QED
      BY <2>5, <2>6
  <1> QED
    BY <1>5, <1>6, <1>7
-----------------------------------------------------------------------------
(* What +, ++ and # read is a content of the file.                         *)

ReadType ==
    /\ began \in [Shells -> [Files -> Seq(Chars)]]
    /\ out \in [Shells -> Seq(Seq(Chars) \union Nat)]

\* Every file has only grown since the call.
BeganOf(s) == \A f \in Files : IsPrefix(began[s][f], content[f])

\* + has printed contents of the arguments in front of the next.
PrintOf(s) ==
    /\ pc[s] = "prompt" => next[s] = 1
    /\ line[s].op = "+" =>
         /\ pc[s] = "prompt" => out[s] = <<>>
         /\ next[s] = Len(out[s]) + 1
         /\ \A i \in 1 .. Len(out[s]) :
              i =< argc(s) /\ out[s][i] \in Seq(Chars) /\ Between(s, File(s, i), out[s][i])

\* What has been read of a file, and what # has counted of that.
HasRead(s) ==
    /\ pc[s] = "cat" /\ next[s] =< argc(s) => IsPrefix(buf1[s], content[File(s, next[s])])
    /\ Past(s, AppPcs \ {"read1"}) => Between(s, File(s, 1), buf1[s])
    /\ Past(s, AppPcs \ {"read1", "read2"}) => Between(s, File(s, 2), buf2[s])
    /\ pc[s] = "count" => IsPrefix(buf1[s], content[File(s, 1)])
    /\ Returned(s, "#") => argc(s) = 1 /\ Between(s, File(s, 1), buf1[s])
    /\ pc[s] = "count" \/ Returned(s, "#") => Counted(buf1[s], out[s][1], out[s][2])

ReadInv == ReadType /\ \A s \in Shells : BeganOf(s) /\ PrintOf(s) /\ HasRead(s)

\* While a shell does nothing, or nothing that is said here, its files only grow.
LEMMA BeganKept ==
  ASSUME TextType, TextType', Grown, ReadType, NEW s \in Shells, began'[s] = began[s],
         BeganOf(s)
  PROVE  BeganOf(s)'
  <1> SUFFICES ASSUME NEW f \in Files PROVE IsPrefix(began[s][f], content'[f])
    BY DEF BeganOf
  <1>1. content' \in [Files -> Seq(Chars)] /\ began[s][f] \in Seq(Chars)
    BY DEF TextType, ReadType
  <1>2. IsPrefix(began[s][f], content[f])
    BY DEF BeganOf
  <1> QED
    BY <1>1, <1>2, GrownKeeps

\* A content it had stays one it had.
LEMMA BetweenKept ==
  ASSUME TextType, TextType', Grown, NEW s \in Shells, NEW f \in Files, NEW t \in Seq(Chars),
         began'[s] = began[s], Between(s, f, t)
  PROVE  IsPrefix(began'[s][f], t) /\ IsPrefix(t, content'[f])
  <1>1. content' \in [Files -> Seq(Chars)]
    BY DEF TextType
  <1>2. IsPrefix(t, content'[f])
    BY <1>1, GrownKeeps DEF Between
  <1> QED
    BY <1>2 DEF Between

\* One read to its end is.
LEMMA BetweenAtEnd ==
  ASSUME TextType, ReadType, NEW s \in Shells, BeganOf(s), NEW f \in Files,
         NEW t \in Seq(Chars), IsPrefix(t, content[f]), AtEnd(t, f)
  PROVE  Between(s, f, t)
  <1>1. content[f] \in Seq(Chars)
    BY DEF TextType
  <1>2. t = content[f]
    BY <1>1, ReadToEnd DEF AtEnd
  <1> QED
    BY <1>1, <1>2 DEF Between, BeganOf

\* What was printed stays so while files grow.
LEMMA PrintKept ==
  ASSUME TextType, TextType', Grown, ReadType, NEW s \in Shells, UNCHANGED line,
         began'[s] = began[s], out'[s] = out[s], next'[s] = next[s],
         pc'[s] = "prompt" => pc[s] = "prompt", PrintOf(s)
  PROVE  PrintOf(s)'
  <1>1. line' = line /\ argc(s)' = argc(s) /\ \A i \in Nat : File(s, i)' = File(s, i)
    BY DEF argc, File, path
  <1>2. Len(out[s]) \in Nat /\ \A i \in 1 .. Len(out[s]) : i \in Nat
    BY LenProperties DEF ReadType
  <1>3. ASSUME line[s].op = "+", NEW i \in 1 .. Len(out[s])
        PROVE  /\ i =< argc(s) /\ out[s][i] \in Seq(Chars)
               /\ IsPrefix(began'[s][File(s, i)], out[s][i])
               /\ IsPrefix(out[s][i], content'[File(s, i)])
    <2>1. i =< argc(s) /\ out[s][i] \in Seq(Chars) /\ Between(s, File(s, i), out[s][i])
      BY <1>3 DEF PrintOf
    <2>2. argc(s) \in Nat
      BY LenProperties DEF argc, TextType
    <2>3. File(s, i) \in Files
      BY <1>2, <2>1, <2>2, FileOf
    <2> QED
      BY <2>1, <2>3, BetweenKept
  <1> QED
    BY <1>1, <1>2, <1>3 DEF PrintOf, Between

\* And what was read.
LEMMA HasReadKept ==
  ASSUME TextType, TextType', Grown, NEW s \in Shells, UNCHANGED line,
         began'[s] = began[s], out'[s] = out[s], next'[s] = next[s], pc'[s] = pc[s],
         rc'[s] = rc[s], buf1'[s] = buf1[s], buf2'[s] = buf2[s], HasRead(s)
  PROVE  HasRead(s)'
  <1>1. /\ argc(s)' = argc(s) /\ \A i \in Nat : File(s, i)' = File(s, i)
        /\ Returned(s, "#")' <=> Returned(s, "#")
        /\ \A P : Past(s, P)' <=> Past(s, P)
    BY DEF argc, File, path, Returned, Past
  <1>2. /\ buf1[s] \in Seq(Chars) /\ buf2[s] \in Seq(Chars) /\ next[s] \in Nat \ {0}
        /\ argc(s) \in Nat /\ content' \in [Files -> Seq(Chars)] /\ LineOfPc(s)
    BY LenProperties DEF TextType, argc
  <1>3. ASSUME pc[s] = "cat", next[s] =< argc(s)
        PROVE  IsPrefix(buf1[s], content'[File(s, next[s])])
    <2>1. next[s] \in 1 .. argc(s)
      BY <1>2, <1>3
    <2>2. File(s, next[s]) \in Files
      BY <2>1, FileOf
    <2> QED
      BY <1>2, <1>3, <2>2, GrownKeeps DEF HasRead
  <1>4. ASSUME pc[s] \in AppPcs \/ Returned(s, "++")
        PROVE  File(s, 1) \in Files /\ File(s, 2) \in Files
    BY <1>2, <1>4, FilesOf DEF LineOfPc
  <1>5. ASSUME Past(s, AppPcs \ {"read1"})
        PROVE  IsPrefix(began'[s][File(s, 1)], buf1[s]) /\ IsPrefix(buf1[s], content'[File(s, 1)])
    BY <1>2, <1>4, <1>5, BetweenKept DEF HasRead, Past
  <1>6. ASSUME Past(s, AppPcs \ {"read1", "read2"})
        PROVE  IsPrefix(began'[s][File(s, 2)], buf2[s]) /\ IsPrefix(buf2[s], content'[File(s, 2)])
    BY <1>2, <1>4, <1>6, BetweenKept DEF HasRead, Past
  <1>7. ASSUME pc[s] = "count" \/ Returned(s, "#") PROVE File(s, 1) \in Files
    <2>1. argc(s) = 1
      BY <1>2, <1>7 DEF LineOfPc, HasRead
    <2> QED
      BY <2>1, FileOf
  <1>8. ASSUME pc[s] = "count" PROVE IsPrefix(buf1[s], content'[File(s, 1)])
    BY <1>2, <1>7, <1>8, GrownKeeps DEF HasRead
  <1>9. ASSUME Returned(s, "#")
        PROVE  IsPrefix(began'[s][File(s, 1)], buf1[s]) /\ IsPrefix(buf1[s], content'[File(s, 1)])
    BY <1>2, <1>7, <1>9, BetweenKept DEF HasRead
  <1> QED
    <2>1. 1 \in Nat /\ 2 \in Nat /\ next[s] \in Nat
      BY <1>2
    <2> QED
      BY <1>1, <1>3, <1>5, <1>6, <1>8, <1>9, <2>1 DEF HasRead, Between

\* Elsewhere nothing is said of what was read.
LEMMA NotRead ==
  ASSUME NEW s, pc'[s] \notin AppPcs \union {"cat", "count"},
         ~ Returned(s, "++")', ~ Returned(s, "#")'
  PROVE  HasRead(s)'
  BY DEF HasRead, Past

LEMMA CallsRead ==
  ASSUME TextType, TextType', ReadInv, NEW s \in Shells, ReadOf(s), Calls(s)
  PROVE  ReadType' /\ BeganOf(s)' /\ PrintOf(s)' /\ HasRead(s)'
  <1>1. /\ pc[s] = "prompt" /\ UNCHANGED <<content, line, next, buf1, buf2>>
        /\ began' = [began EXCEPT ![s] = content]
        /\ out' = [out EXCEPT ![s] = IF line[s].op = "#" THEN <<0, 0>> ELSE <<>>]
    BY DEF Calls, Goes, Fails, buffers
  <1>2. content \in [Files -> Seq(Chars)] /\ pc \in [Shells -> Pcs] /\ rc \in [Shells -> Int]
    BY DEF TextType
  <1>3. ReadType' /\ began'[s] = content
    <2>1. <<0, 0>> \in Seq(Seq(Chars) \union Nat) /\ <<>> \in Seq(Seq(Chars) \union Nat)
      BY EmptySeq
    <2> QED
      BY <1>1, <1>2, <2>1 DEF ReadInv, ReadType
  <1>4. BeganOf(s)'
    BY <1>1, <1>2, <1>3, PrefixSelf DEF BeganOf
  <1>5. line[s].op # "#" => out'[s] = <<>> /\ Len(out'[s]) = 0
    BY <1>1 DEF ReadInv, ReadType
  <1>6. next'[s] = 1
    BY <1>1 DEF ReadInv, PrintOf
  <1>7. PrintOf(s)'
    BY <1>1, <1>5, <1>6 DEF PrintOf
  <1>8. buf1'[s] = <<>> /\ buf2'[s] = <<>>
    BY <1>1 DEF ReadOf
  <1>9. HasRead(s)'
    <2>1. CASE ~ WellFormed(s)
      <3>1. pc'[s] = "done" /\ rc'[s] = -1
        BY <1>2, <2>1 DEF Calls, Fails, Goes
      <3> QED
        BY <3>1, NotRead DEF Returned, AppPcs
    <2>2. ASSUME WellFormed(s), line[s].op = "++" PROVE HasRead(s)'
      <3>1. pc'[s] = "read1"
        BY <1>2, <2>2 DEF Calls, Goes
      <3> QED
        BY <3>1 DEF HasRead, Past, Returned
    <2>3. ASSUME WellFormed(s), line[s].op = "+" PROVE HasRead(s)'
      <3>1. pc'[s] = "cat"
        BY <1>2, <2>3 DEF Calls, Goes
      <3>2. next'[s] =< argc(s)' => IsPrefix(buf1'[s], content'[File(s, next[s])'])
        <4> SUFFICES ASSUME next'[s] =< argc(s)' PROVE IsPrefix(buf1'[s], content'[File(s, next[s])'])
          OBVIOUS
        <4>1. argc(s)' = argc(s) /\ File(s, next[s])' = File(s, 1)
          BY <1>1, <1>6 DEF argc, File, path
        <4>2. 1 \in 1 .. argc(s)
          <5>1. argc(s) \in Nat
            BY LenProperties DEF argc, TextType
          <5> QED
            BY <1>6, <4>1, <5>1
        <4>3. content[File(s, 1)] \in Seq(Chars)
          BY <1>2, <4>2, FileOf
        <4> QED
          BY <1>1, <1>8, <4>1, <4>3, NothingRead
      <3> QED
        BY <3>1, <3>2 DEF HasRead, Past, Returned, AppPcs
    <2>4. ASSUME WellFormed(s), line[s].op = "#" PROVE HasRead(s)'
      <3>1. pc'[s] = "count" /\ argc(s) = 1
        BY <1>2, <2>4 DEF Calls, Goes, WellFormed
      <3>2. File(s, 1) \in Files /\ File(s, 1)' = File(s, 1)
        BY <1>1, <3>1, FileOf DEF File, path
      <3>3. IsPrefix(buf1'[s], content'[File(s, 1)'])
        BY <1>1, <1>2, <1>8, <3>2, NothingRead
      <3>4. out'[s] = <<0, 0>>
        BY <1>1, <2>4 DEF ReadInv, ReadType
      <3>5. Counted(buf1'[s], out'[s][1], out'[s][2])
        BY <1>8, <3>4, NothingCounted
      <3>6. HasRead(s)'
        BY <3>1, <3>3, <3>5 DEF HasRead, Past, Returned, AppPcs
      <3> QED
        BY <3>6
    <2>5. line[s].op \in {"++", "+", "#"}
      BY DEF Calls, TextOps
    <2> QED
      BY <2>1, <2>2, <2>3, <2>4, <2>5
  <1> QED
    BY <1>3, <1>4, <1>7, <1>9

LEMMA AppRead ==
  ASSUME TextType, TextType', Grown, ReadInv, NEW s \in Shells, ReadOf(s), UNCHANGED line,
         Read1(s) \/ Read2(s) \/ Append1(s) \/ Append2(s) \/ Unwritten(s)
  PROVE  ReadType' /\ BeganOf(s)' /\ PrintOf(s)' /\ HasRead(s)'
  <1>1. /\ UNCHANGED <<began, out, next>> /\ pc[s] \in AppPcs
        /\ line[s].op = "++" /\ argc(s) = 2
    <2>1. UNCHANGED <<began, out, next>> /\ pc[s] \in AppPcs
      BY DEF Read1, Read2, Append1, Append2, Fwrite, Fclose, Unwritten, Calm, Goes, AppPcs
    <2> QED
      BY <2>1 DEF TextType, LineOfPc
  <1>2. ReadType /\ BeganOf(s) /\ PrintOf(s) /\ HasRead(s)
    BY DEF ReadInv
  <1>3. pc \in [Shells -> Pcs] /\ pc'[s] \in AppPcs \union {"done"}
    BY <1>1 DEF TextType, Read1, Read2, Append1, Append2, Fwrite, Fclose, Unwritten, Goes, AppPcs
  <1>4. ReadType' /\ BeganOf(s)'
    BY <1>1, <1>2, BeganKept DEF ReadType
  <1>5. PrintOf(s)'
    BY <1>1, <1>2, <1>3, PrintKept DEF AppPcs
  <1>6. /\ File(s, 1) \in Files /\ File(s, 2) \in Files
        /\ File(s, 1)' = File(s, 1) /\ File(s, 2)' = File(s, 2)
        /\ buf1[s] \in Seq(Chars) /\ buf2[s] \in Seq(Chars)
    BY <1>1, FilesOf DEF TextType, File, path
  <1>7. ASSUME Past(s, AppPcs \ {"read1"})', pc[s] # "read1"
        PROVE  Between(s, File(s, 1), buf1[s])' /\ buf1'[s] = buf1[s]
    <2>1. Between(s, File(s, 1), buf1[s])
      BY <1>1, <1>2, <1>7 DEF HasRead, Past
    <2>2. buf1'[s] = buf1[s]
      BY <1>7 DEF Read1, Read2, Append1, Append2, Fwrite, Fclose, Unwritten, Calm, Goes
    <2>3. began'[s] = began[s]
      BY <1>1
    <2>4. IsPrefix(began'[s][File(s, 1)], buf1[s]) /\ IsPrefix(buf1[s], content'[File(s, 1)])
      BY <1>6, <2>1, <2>3, BetweenKept
    <2> QED
      BY <1>6, <2>2, <2>4 DEF Between
  <1>8. ASSUME Past(s, AppPcs \ {"read1"})', pc[s] = "read1"
        PROVE  Between(s, File(s, 1), buf1[s])'
    <2>1. Read1(s)
      BY <1>8 DEF Read1, Read2, Append1, Append2, Fwrite, Fclose, Unwritten, Goes
    <2>2. AtEnd(buf1[s], File(s, 1)) /\ UNCHANGED <<buf1, content>>
      BY <1>3, <1>8, <2>1 DEF Read1, Past, Returned
    <2>3. IsPrefix(buf1[s], content[File(s, 1)])
      BY <1>8 DEF ReadOf, Past, AppPcs
    <2>4. Between(s, File(s, 1), buf1[s])
      BY <1>2, <1>6, <2>2, <2>3, BetweenAtEnd
    <2> QED
      BY <1>1, <1>6, <2>2, <2>4 DEF Between
  <1>9. ASSUME Past(s, AppPcs \ {"read1", "read2"})', pc[s] \notin {"read1", "read2"}
        PROVE  Between(s, File(s, 2), buf2[s])'
    <2>1. Between(s, File(s, 2), buf2[s])
      BY <1>1, <1>2, <1>9 DEF HasRead, Past
    <2>2. buf2'[s] = buf2[s]
      BY <1>9 DEF Read1, Read2, Append1, Append2, Fwrite, Fclose, Unwritten, Calm, Goes
    <2>3. began'[s] = began[s]
      BY <1>1
    <2>4. IsPrefix(began'[s][File(s, 2)], buf2[s]) /\ IsPrefix(buf2[s], content'[File(s, 2)])
      BY <1>6, <2>1, <2>3, BetweenKept
    <2> QED
      BY <1>6, <2>2, <2>4 DEF Between
  <1>10. ASSUME Past(s, AppPcs \ {"read1", "read2"})', pc[s] \in {"read1", "read2"}
         PROVE  Between(s, File(s, 2), buf2[s])'
    <2>1. Read1(s) \/ Read2(s)
      BY <1>10 DEF Read1, Read2, Append1, Append2, Fwrite, Fclose, Unwritten, Goes
    <2>2. ~ Read1(s)
      BY <1>3, <1>10 DEF Read1, Goes, Past, Returned
    <2>3. AtEnd(buf2[s], File(s, 2)) /\ UNCHANGED <<buf2, content>>
      BY <1>3, <1>10, <2>1, <2>2 DEF Read2, Past, Returned
    <2>4. IsPrefix(buf2[s], content[File(s, 2)])
      BY <1>10 DEF ReadOf, Past, AppPcs
    <2>5. Between(s, File(s, 2), buf2[s])
      BY <1>2, <1>6, <2>3, <2>4, BetweenAtEnd
    <2> QED
      BY <1>1, <1>6, <2>3, <2>5 DEF Between
  <1>11. pc'[s] \notin {"cat", "count"} /\ ~ Returned(s, "#")'
    BY <1>1, <1>3 DEF Returned, AppPcs
  <1>12. HasRead(s)'
    BY <1>7, <1>8, <1>9, <1>10, <1>11 DEF HasRead
  <1> QED
    BY <1>4, <1>5, <1>12

LEMMA CatRead ==
  ASSUME TextType, TextType', ReadInv, NEW s \in Shells, Cat(s),
         is_txt_file_path(path(s, next[s]))
  PROVE  ReadType' /\ BeganOf(s)' /\ PrintOf(s)' /\ HasRead(s)'
  <1>1. /\ pc[s] = "cat" /\ next[s] =< argc(s) /\ UNCHANGED <<content, line, pc, rc, began>>
    BY DEF Cat, Calm
  <1>2. line[s].op = "+"
    BY <1>1 DEF TextType, LineOfPc
  <1>3. /\ next[s] = Len(out[s]) + 1 /\ out[s] \in Seq(Seq(Chars) \union Nat)
        /\ next[s] \in Nat \ {0} /\ buf1[s] \in Seq(Chars)
    BY <1>2 DEF ReadInv, ReadType, PrintOf, TextType
  <1>4. next[s] \in 1 .. argc(s) /\ Len(out[s]) \in Nat /\ argc(s) \in Nat
    <2>1. argc(s) \in Nat /\ Len(out[s]) \in Nat
      BY <1>3, LenProperties DEF argc, TextType
    <2> QED
      BY <1>1, <1>3, <2>1
  <1>5. PICK f \in Files : f = File(s, next[s])
    BY <1>4, FileOf
  <1>6. content[f] \in Seq(Chars) /\ IsPrefix(buf1[s], content[f])
    BY <1>1, <1>5 DEF TextType, ReadInv, HasRead
  <1>7. BeganOf(s) /\ BeganOf(s)'
    BY <1>1 DEF ReadInv, BeganOf
  <1>8. /\ line' = line /\ argc(s)' = argc(s) /\ pc'[s] = "cat"
        /\ \A i \in Nat : File(s, i)' = File(s, i)
        /\ ~ Returned(s, "#")' /\ ~ Returned(s, "++")'
    BY <1>1 DEF argc, File, path, Returned
  <1>9. CASE UNCHANGED <<out, next>> /\ \E b \in Further(buf1[s], f) : buf1' = [buf1 EXCEPT ![s] = b]
    <2>1. IsPrefix(buf1'[s], content[f])
      <3>1. PICK b \in Further(buf1[s], f) : buf1' = [buf1 EXCEPT ![s] = b]
        BY <1>9
      <3>2. buf1'[s] = b
        BY <3>1 DEF TextType
      <3> QED
        BY <1>3, <1>6, <3>1, <3>2, FurtherOf
    <2>2. ReadType' /\ PrintOf(s)'
      <3>1. ReadType'
        BY <1>1, <1>9 DEF ReadInv, ReadType
      <3>2. PrintOf(s) /\ UNCHANGED <<out, next, line, pc, content, began>>
        BY <1>1, <1>9 DEF ReadInv
      <3> QED
        BY <3>1, <3>2 DEF PrintOf, Between, argc, File, path
    <2>3. IsPrefix(buf1'[s], content'[File(s, next[s])'])
      <3>1. File(s, next[s])' = f
        BY <1>1, <1>5, <1>9 DEF File, path
      <3> QED
        BY <1>1, <2>1, <3>1
    <2>4. HasRead(s)'
      BY <1>8, <2>3 DEF HasRead, Past, AppPcs
    <2> QED
      BY <1>7, <2>2, <2>4
  <1>10. CASE /\ AtEnd(buf1[s], f)
              /\ out' = [out EXCEPT ![s] = Append(out[s], buf1[s])]
              /\ buf1' = [buf1 EXCEPT ![s] = <<>>]
              /\ next' = [next EXCEPT ![s] = next[s] + 1]
    <2>1. Between(s, f, buf1[s])
      BY <1>3, <1>6, <1>7, <1>10, BetweenAtEnd DEF ReadInv
    <2>2. PICK o : o = Append(out[s], buf1[s])
      OBVIOUS
    <2>3. /\ o \in Seq(Seq(Chars) \union Nat) /\ Len(o) = Len(out[s]) + 1
          /\ \A i \in 1 .. Len(out[s]) : o[i] = out[s][i]
          /\ o[Len(out[s]) + 1] = buf1[s]
      <3>1. buf1[s] \in Seq(Chars) \union Nat
        BY <1>3
      <3> QED
        BY <1>3, <2>2, <3>1, AppendProperties
    <2>4. out'[s] = o /\ next'[s] = next[s] + 1 /\ ReadType' /\ buf1'[s] = <<>>
      BY <1>1, <1>3, <1>10, <2>2, <2>3 DEF ReadInv, ReadType, TextType
    <2>5. ASSUME NEW i \in 1 .. Len(o)
          PROVE  i =< argc(s) /\ o[i] \in Seq(Chars) /\ Between(s, File(s, i), o[i])
      <3>1. CASE i = Len(out[s]) + 1
        <4>1. o[i] = buf1[s] /\ i = next[s]
          BY <1>3, <2>3, <3>1
        <4> QED
          BY <1>3, <1>4, <1>5, <2>1, <4>1
      <3>2. CASE i # Len(out[s]) + 1
        <4>1. i \in 1 .. Len(out[s]) /\ o[i] = out[s][i]
          BY <1>4, <2>3, <3>2
        <4> QED
          BY <1>2, <4>1 DEF ReadInv, PrintOf
      <3> QED
        BY <3>1, <3>2
    <2>6. next'[s] = Len(o) + 1 /\ Len(o) \in Nat
      BY <1>3, <1>4, <2>3, <2>4
    <2>7. PrintOf(s)'
      <3>1. \A i \in 1 .. Len(o) :
               /\ i =< argc(s)' /\ o[i] \in Seq(Chars)
               /\ IsPrefix(began'[s][File(s, i)'], o[i])
               /\ IsPrefix(o[i], content'[File(s, i)'])
        <4>1. \A i \in 1 .. Len(o) : i \in Nat
          BY <2>6
        <4> QED
          BY <1>1, <1>8, <2>5, <4>1 DEF Between
      <3> QED
        BY <1>8, <2>4, <2>6, <3>1 DEF PrintOf, Between
    <2>8. HasRead(s)'
      <3>1. ASSUME next'[s] =< argc(s)' PROVE IsPrefix(buf1'[s], content'[File(s, next[s])'])
        <4>1. next[s] + 1 \in 1 .. argc(s) /\ next[s] + 1 \in Nat
          BY <1>3, <1>4, <1>8, <2>4, <3>1
        <4>2. File(s, next[s])' = File(s, next[s] + 1)
          BY <1>1, <2>4 DEF File, path
        <4>3. content[File(s, next[s] + 1)] \in Seq(Chars)
          BY <4>1, FileOf DEF TextType
        <4> QED
          BY <1>1, <2>4, <4>2, <4>3, NothingRead
      <3> QED
        BY <1>8, <3>1 DEF HasRead, Past, AppPcs
    <2> QED
      BY <1>7, <2>4, <2>7, <2>8
  <1> QED
    BY <1>5, <1>9, <1>10 DEF Cat

LEMMA ScanfRead ==
  ASSUME TextType, TextType', ReadInv, NEW s \in Shells, Scanf(s)
  PROVE  ReadType' /\ BeganOf(s)' /\ PrintOf(s)' /\ HasRead(s)'
  <1> DEFINE g == File(s, 1)
             e == content[g][Len(buf1[s]) + 1]
  <1>1. /\ pc[s] = "count" /\ UNCHANGED <<content, line, pc, next, rc, began>>
        /\ buf1' = [buf1 EXCEPT ![s] = Append(buf1[s], e)]
        /\ out' = [out EXCEPT ![s] = fscanf(out[s][1], out[s][2], e)]
        /\ ~ AtEnd(buf1[s], g)
    BY DEF Scanf, Calm
  <1>2. line[s].op = "#" /\ argc(s) = 1
    BY <1>1 DEF TextType, LineOfPc
  <1>3. g \in Files
    BY <1>2, FileOf
  <1>4. PICK f : f = g
    OBVIOUS
  <1>5. PICK c : c = e
    OBVIOUS
  <1> HIDE DEF g, e
  <1>6. /\ content[f] \in Seq(Chars) /\ buf1[s] \in Seq(Chars)
        /\ Len(content[f]) \in Nat /\ Len(buf1[s]) \in Nat
    BY <1>3, <1>4, LenProperties DEF TextType
  <1>7. Len(buf1[s]) + 1 \in 1 .. Len(content[f])
    BY <1>1, <1>4, <1>6 DEF AtEnd
  <1>8. c = content[f][Len(buf1[s]) + 1] /\ c \in Chars
    <2>1. c = content[f][Len(buf1[s]) + 1]
      BY <1>4, <1>5 DEF e
    <2> QED
      BY <1>6, <1>7, <2>1, ElementOfSeq
  <1>9. IsPrefix(buf1[s], content[f]) /\ Counted(buf1[s], out[s][1], out[s][2])
    BY <1>1, <1>4 DEF ReadInv, HasRead, g
  <1>10. PICK r : r = fscanf(out[s][1], out[s][2], c)
    OBVIOUS
  <1>11. PICK u : u = Append(buf1[s], c)
    OBVIOUS
  <1>12. r \in Seq(Nat) /\ Counted(u, r[1], r[2])
    BY <1>6, <1>8, <1>9, <1>10, <1>11, CountedStep
  <1>13. out'[s] = r /\ buf1'[s] = u
    BY <1>1, <1>5, <1>10, <1>11 DEF ReadInv, ReadType, TextType
  <1>14. IsPrefix(u, content[f])
    <2>1. PICK n : n = Len(buf1[s]) + 1
      OBVIOUS
    <2>2. n \in Len(buf1[s]) + 1 .. Len(content[f]) /\ Len(buf1[s]) + 1 = n
      BY <1>6, <1>7, <2>1
    <2>3. PICK d : d = SubSeq(content[f], n, n)
      OBVIOUS
    <2>4. d = <<c>>
      <3>1. /\ n \in Int /\ \A i \in n .. n : content[f][i] \in Chars
        BY <1>6, <1>8, <2>1, <2>2
      <3>2. /\ d \in Seq(Chars) /\ Len(d) = (IF n =< n THEN n - n + 1 ELSE 0)
            /\ \A i \in 1 .. n - n + 1 : d[i] = content[f][n + i - 1]
        BY <2>3, <3>1, SubSeqProperties
      <3>3. Len(d) = 1 /\ d[1] = c
        BY <1>6, <1>8, <2>1, <3>1, <3>2
      <3> QED
        BY <3>2, <3>3
    <2>5. u = buf1[s] \o d
      BY <1>6, <1>8, <1>11, <2>4, AppendIsConcat
    <2>6. u = buf1[s] \o SubSeq(content[f], Len(buf1[s]) + 1, n)
      BY <2>2, <2>3, <2>5, Zenon
    <2> QED
      BY <1>6, <1>9, <2>2, <2>6, FurtherRead, ZenonT(60)
  <1>15. ReadType'
    <2>1. r \in Seq(Seq(Chars) \union Nat)
      BY <1>12
    <2> QED
      BY <1>1, <1>5, <1>10, <2>1 DEF ReadInv, ReadType
  <1>16. BeganOf(s)'
    BY <1>1 DEF ReadInv, BeganOf
  <1>17. PrintOf(s)'
    BY <1>1, <1>2 DEF PrintOf
  <1>18. File(s, 1)' = f
    BY <1>1, <1>4 DEF File, path, g
  <1>19. HasRead(s)'
    BY <1>1, <1>12, <1>13, <1>14, <1>18 DEF HasRead, Past, Returned, AppPcs
  <1> QED
    BY <1>15, <1>16, <1>17, <1>19

LEMMA CountRead ==
  ASSUME TextType, TextType', ReadInv, NEW s \in Shells, Count(s), ~ Scanf(s)
  PROVE  ReadType' /\ BeganOf(s)' /\ PrintOf(s)' /\ HasRead(s)'
  <1>1. /\ pc[s] = "count" /\ pc' = [pc EXCEPT ![s] = "done"] /\ AtEnd(buf1[s], File(s, 1))
        /\ UNCHANGED <<content, line, buf1, buf2, out, next, rc, began>>
    BY DEF Count, Goes, Calm, buffers
  <1>2. line[s].op = "#" /\ argc(s) = 1 /\ pc'[s] = "done"
    BY <1>1 DEF TextType, LineOfPc
  <1>3. /\ File(s, 1) \in Files /\ buf1[s] \in Seq(Chars) /\ BeganOf(s) /\ ReadType
        /\ IsPrefix(buf1[s], content[File(s, 1)]) /\ Counted(buf1[s], out[s][1], out[s][2])
    BY <1>1, <1>2, FileOf DEF TextType, ReadInv, HasRead
  <1>4. Between(s, File(s, 1), buf1[s])
    BY <1>1, <1>3, BetweenAtEnd
  <1>5. ReadType' /\ BeganOf(s)'
    BY <1>1, <1>3 DEF ReadType, BeganOf
  <1>6. PrintOf(s)'
    BY <1>1, <1>2 DEF PrintOf
  <1>7. argc(s)' = 1 /\ Between(s, File(s, 1), buf1[s])'
    BY <1>1, <1>2, <1>4 DEF argc, Between, File, path
  <1>8. HasRead(s)'
    BY <1>1, <1>2, <1>3, <1>7 DEF HasRead, Past, Returned, AppPcs
  <1> QED
    BY <1>5, <1>6, <1>8

LEMMA TextRead ==
  ASSUME TextType, TextType', Grown, ReadInv, NEW s \in Shells, ReadOf(s), Text(s)
  PROVE  ReadType' /\ BeganOf(s)' /\ PrintOf(s)' /\ HasRead(s)'
  <1>1. /\ pc \in [Shells -> Pcs] /\ rc \in [Shells -> Int] /\ LineOfPc(s) /\ UNCHANGED line
    <2>1. UNCHANGED line
      BY DEF Text, Calls, Read1, Read2, Append1, Append2, Fwrite, Fclose, Unwritten, Cat,
             CatEnds, Count, Scanf, Unopened, Calm
    <2> QED
      BY <2>1 DEF TextType
  <1>2. ASSUME UNCHANGED <<began, out, next>>, pc'[s] = "done",
               ~ Returned(s, "++")', ~ Returned(s, "#")'
        PROVE  ReadType' /\ BeganOf(s)' /\ PrintOf(s)' /\ HasRead(s)'
    <2>1. ReadType /\ BeganOf(s) /\ PrintOf(s)
      BY DEF ReadInv
    <2>2. ReadType' /\ BeganOf(s)'
      BY <1>2, <2>1, BeganKept DEF ReadType
    <2>3. PrintOf(s)'
      BY <1>1, <1>2, <2>1, PrintKept
    <2>4. HasRead(s)'
      BY <1>2, NotRead DEF AppPcs
    <2> QED
      BY <2>2, <2>3, <2>4
  <1>3. ASSUME UNCHANGED <<began, out, next>>, NEW from, Fails(s, from)
        PROVE  ReadType' /\ BeganOf(s)' /\ PrintOf(s)' /\ HasRead(s)'
    <2>1. pc'[s] = "done" /\ rc'[s] = -1
      BY <1>1, <1>3 DEF Fails, Goes
    <2> QED
      BY <1>2, <1>3, <2>1 DEF Returned
  <1>4. CASE Calls(s)
    BY <1>4, CallsRead
  <1>5. CASE Read1(s) \/ Read2(s) \/ Append1(s) \/ Append2(s) \/ Unwritten(s)
    BY <1>1, <1>5, AppRead
  <1>6. CASE Cat(s)
    <2>1. CASE is_txt_file_path(path(s, next[s]))
      BY <1>6, <2>1, CatRead
    <2>2. CASE ~ is_txt_file_path(path(s, next[s]))
      BY <1>3, <1>6, <2>2 DEF Cat, Calm
    <2> QED
      BY <2>1, <2>2
  <1>7. CASE CatEnds(s)
    <2>1. line[s].op = "+" /\ pc'[s] = "done" /\ UNCHANGED <<began, out, next>>
      BY <1>1, <1>7 DEF CatEnds, Goes, Calm, LineOfPc
    <2> QED
      BY <1>1, <1>2, <2>1 DEF Returned
  <1>8. CASE Scanf(s)
    BY <1>8, ScanfRead
  <1>9. CASE Count(s) /\ ~ Scanf(s)
    BY <1>9, CountRead
  <1>10. CASE Unopened(s)
    BY <1>3, <1>10 DEF Unopened
  <1> QED
    BY <1>4, <1>5, <1>6, <1>7, <1>8, <1>9, <1>10 DEF Text

\* What the other shells, killallmb and the children do.
LEMMA OthersRead ==
  ASSUME TextType, TextType', Grown, ReadInv, ReadType', NEW s \in Shells, UNCHANGED line,
         began'[s] = began[s], out'[s] = out[s], next'[s] = next[s], pc'[s] = pc[s],
         rc'[s] = rc[s], buf1'[s] = buf1[s], buf2'[s] = buf2[s]
  PROVE  BeganOf(s)' /\ PrintOf(s)' /\ HasRead(s)'
  <1>1. ReadType /\ BeganOf(s) /\ PrintOf(s) /\ HasRead(s)
    BY DEF ReadInv
  <1> QED
    BY <1>1, BeganKept, PrintKept, HasReadKept

\* killallmb and run_cmd print no text and read no file.
LEMMA DoesRead ==
  ASSUME TextType, TextType', Grown, ReadInv, NEW s \in Shells,
         NEW to \in {"scan", "tty", "kill", "wait", "done"}, pc' = [pc EXCEPT ![s] = to],
         UNCHANGED <<line, buf1, buf2, out, next, began>>, line[s].op \in {"killallmb", "run"},
         \A t \in Shells \ {s} : rc'[t] = rc[t]
  PROVE  ReadInv'
  <1>1. pc \in [Shells -> Pcs]
    BY DEF TextType
  <1>2. ReadType'
    BY DEF ReadInv, ReadType
  <1>3. ASSUME NEW t \in Shells PROVE BeganOf(t)' /\ PrintOf(t)' /\ HasRead(t)'
    <2>1. CASE t # s
      BY <1>1, <1>2, <2>1, OthersRead
    <2>2. CASE t = s
      <3>1. ReadType /\ BeganOf(s) /\ PrintOf(s)
        BY DEF ReadInv
      <3>2. pc'[s] = to
        BY <1>1
      <3>3. BeganOf(s)' /\ PrintOf(s)'
        BY <3>1, <3>2, BeganKept, PrintKept
      <3>4. HasRead(s)'
        BY <3>2, NotRead DEF Returned, AppPcs
      <3> QED
        BY <2>2, <3>3, <3>4
    <2> QED
      BY <2>1, <2>2
  <1> QED
    BY <1>2, <1>3 DEF ReadInv

LEMMA InitRead == Init => ReadInv
  <1> SUFFICES ASSUME Init PROVE ReadInv
    OBVIOUS
  <1>1. content \in [Files -> Seq(Chars)]
    BY InitText DEF TextInv, TextType
  <1>2. <<>> \in Seq(Seq(Chars) \union Nat)
    BY EmptySeq
  <1>3. content = Texts /\ began = [s \in Shells |-> Texts] /\ out = [s \in Shells |-> <<>>]
        /\ next = [s \in Shells |-> 1] /\ pc = [s \in Shells |-> "prompt"]
    BY DEF Init, TextInit
  <1>4. ReadType
    BY <1>1, <1>2, <1>3 DEF ReadType
  <1>5. \A s \in Shells : BeganOf(s)
    BY <1>1, <1>3, PrefixSelf DEF BeganOf
  <1>6. ASSUME NEW s \in Shells PROVE PrintOf(s) /\ HasRead(s)
    <2>1. out[s] = <<>> /\ next[s] = 1 /\ pc[s] = "prompt"
      BY <1>3
    <2>2. Len(out[s]) = 0
      BY <2>1
    <2>3. PrintOf(s)
      BY <2>1, <2>2 DEF PrintOf
    <2>4. HasRead(s)
      BY <2>1 DEF HasRead, Past, Returned, AppPcs
    <2> QED
      BY <2>3, <2>4
  <1> QED
    BY <1>4, <1>5, <1>6 DEF ReadInv

LEMMA NextRead == TextInv /\ TextInv' /\ ReadInv /\ [Next]_vars => ReadInv'
  <1> SUFFICES ASSUME TextInv, TextInv', ReadInv, [Next]_vars PROVE ReadInv'
    OBVIOUS
  <1>1. TextType /\ TextType'
    BY DEF TextInv
  <1>2. CASE UNCHANGED texts
    <2>1. UNCHANGED <<content, line, pc, buf1, buf2, out, next, rc, began>>
      BY <1>2 DEF texts, buffers
    <2>2. Grown
      BY <1>1, <2>1, UnchangedGrown
    <2>3. ReadType'
      BY <2>1 DEF ReadInv, ReadType
    <2>4. \A s \in Shells : BeganOf(s)' /\ PrintOf(s)' /\ HasRead(s)'
      BY <1>1, <2>1, <2>2, <2>3, OthersRead
    <2> QED
      BY <2>3, <2>4 DEF ReadInv
  <1>3. ASSUME NEW s \in Shells, Text(s) PROVE ReadInv'
    <2>1. Grown /\ ReadOf(s)
      BY <1>3, TextStep DEF TextInv
    <2>2. ReadType' /\ BeganOf(s)' /\ PrintOf(s)' /\ HasRead(s)'
      BY <1>1, <1>3, <2>1, TextRead
    <2>3. UNCHANGED line
      BY <1>3 DEF Text, Calls, Read1, Read2, Append1, Append2, Fwrite, Fclose, Unwritten, Cat,
             CatEnds, Count, Scanf, Unopened, Calm
    <2>4. ASSUME NEW t \in Shells \ {s}
          PROVE  /\ pc'[t] = pc[t] /\ rc'[t] = rc[t] /\ out'[t] = out[t]
                 /\ next'[t] = next[t] /\ began'[t] = began[t]
                 /\ buf1'[t] = buf1[t] /\ buf2'[t] = buf2[t]
      <3>1. TextType /\ ReadType
        BY <1>1 DEF ReadInv
      <3>2. CASE Calls(s) \/ Read1(s) \/ Read2(s) \/ Unwritten(s) \/ Unopened(s)
        BY <3>1, <3>2 DEF Calls, Read1, Read2, Unwritten, Unopened, Calm, Goes, Fails, buffers,
               TextType, ReadType
      <3>3. CASE Append1(s) \/ Append2(s)
        BY <3>1, <3>3 DEF Append1, Append2, Fwrite, Fclose, Calm, Goes, TextType, ReadType
      <3>4. CASE Cat(s) \/ CatEnds(s) \/ Count(s)
        BY <3>1, <3>4 DEF Cat, CatEnds, Count, Scanf, Calm, Goes, Fails, buffers, TextType, ReadType
      <3> QED
        BY <1>3, <3>2, <3>3, <3>4 DEF Text
    <2>5. \A t \in Shells \ {s} : BeganOf(t)' /\ PrintOf(t)' /\ HasRead(t)'
      BY <1>1, <2>1, <2>2, <2>3, <2>4, OthersRead
    <2> QED
      BY <2>2, <2>5 DEF ReadInv
  <1>4. ASSUME NEW s \in Shells, NEW from \in {"prompt", "scan", "tty", "kill", "wait"},
               NEW to \in {"scan", "tty", "kill", "wait", "done"}, Does(s, from, to),
               line[s].op \in {"killallmb", "run"}
        PROVE  ReadInv'
    <2>1. Grown
      BY <1>1, <1>4, UnchangedGrown DEF Does
    <2>2. pc' = [pc EXCEPT ![s] = to] /\ UNCHANGED <<line, buf1, buf2, out, next, began, rc>>
      BY <1>4 DEF Does, Goes, buffers
    <2> QED
      BY <1>1, <1>4, <2>1, <2>2, DoesRead
  <1>5. ASSUME NEW s \in Shells, Runs(s) PROVE ReadInv'
    <2>1. LineOfPc(s)
      BY <1>1 DEF TextType
    <2>2. CASE Text(s)
      BY <1>3, <2>2
    <2>3. CASE signal_other_minibash_instances(s)
      <3>1. CASE OpenProc(s)
        BY <1>4, <3>1 DEF OpenProc
      <3>0. CASE ProcUnopened(s)
        <4>1. Grown
          BY <3>0, ProcUnopenedStep
        <4>2. /\ pc' = [pc EXCEPT ![s] = "done"] /\ rc' = [rc EXCEPT ![s] = -1]
              /\ UNCHANGED <<line, buf1, buf2, out, next, began>> /\ line[s].op = "killallmb"
          BY <3>0 DEF ProcUnopened, Fails, Goes, buffers
        <4>3. \A t \in Shells \ {s} : rc'[t] = rc[t]
          BY <1>1, <4>2 DEF TextType
        <4> QED
          BY <1>1, <4>1, <4>2, <4>3, DoesRead
      <3>2. ASSUME NEW from \in {"scan", "tty", "kill"}, NEW to \in {"scan", "tty", "kill", "done"},
                   Does(s, from, to)
            PROVE  ReadInv'
        <4>1. line[s].op = "killallmb"
          BY <2>1, <3>2 DEF Does, Goes, LineOfPc
        <4> QED
          BY <1>4, <3>2, <4>1
      <3>3. CASE Test_tty(s)
        <4>1. Does(s, "tty", "kill") \/ Does(s, "tty", "scan")
          BY <3>3 DEF Test_tty
        <4> QED
          BY <3>2, <4>1
      <3>4. CASE Kill(s)
        BY <3>2, <3>4 DEF Kill
      <3>5. CASE Scanned(s)
        BY <3>2, <3>5 DEF Scanned
      <3>6. ASSUME NEW p \in todo[s], Test_exe(s, p) PROVE ReadInv'
        <4>1. Does(s, "scan", "tty") \/ Does(s, "scan", "scan")
          BY <3>6 DEF Test_exe
        <4> QED
          BY <3>2, <4>1
      <3> QED
        BY <2>3, <3>0, <3>1, <3>3, <3>4, <3>5, <3>6 DEF signal_other_minibash_instances
    <2>4. CASE Forks(s)
      BY <1>4, <2>4 DEF Forks
    <2>5. CASE Waited(s)
      <3>1. line[s].op = "run"
        BY <2>1, <2>5 DEF Waited, Does, Goes, LineOfPc
      <3> QED
        BY <1>4, <2>5, <3>1 DEF Waited
    <2> QED
      BY <1>5, <2>2, <2>3, <2>4, <2>5 DEF Runs
  <1> QED
    BY <1>2, <1>5 DEF Next, vars, Dup2, Exec, Exits, Terminated

\* What + printed, what ++ read and what # counted is so of a content of the file
\* between call and return, for texts and words of any length, any Width and any number
\* of shells that append meanwhile (read_file_all, exc_word_count_cmd).
THEOREM ReadsCorrect == Spec => []ReadsAContent
  <1>1. TextInv /\ ReadInv => ReadsAContent
    <2> SUFFICES ASSUME TextInv, ReadInv, NEW s \in Shells
                 PROVE  /\ line[s].op = "+" => \A i \in DOMAIN out[s] : Between(s, File(s, i), out[s][i])
                        /\ Returned(s, "++") => /\ Between(s, File(s, 1), buf1[s])
                                                /\ Between(s, File(s, 2), buf2[s])
                        /\ Returned(s, "#") =>
                             LET f == File(s, 1) IN
                             \E n \in Len(began[s][f]) .. Len(content[f]) :
                                 out[s][1] = Cardinality(Pieces(SubSeq(content[f], 1, n)))
      BY DEF ReadsAContent
    <2>1. PrintOf(s) /\ HasRead(s) /\ out[s] \in Seq(Seq(Chars) \union Nat)
      BY DEF ReadInv, ReadType
    <2>2. DOMAIN out[s] = 1 .. Len(out[s])
      BY <2>1, LenProperties
    <2>3. ASSUME Returned(s, "#")
          PROVE  \E n \in Len(began[s][File(s, 1)]) .. Len(content[File(s, 1)]) :
                     out[s][1] = Cardinality(Pieces(SubSeq(content[File(s, 1)], 1, n)))
      <3>1. /\ argc(s) = 1 /\ Between(s, File(s, 1), buf1[s])
            /\ out[s][1] = Cardinality(Pieces(buf1[s]))
        BY <2>1, <2>3 DEF HasRead, Counted
      <3>2. PICK f \in Files : f = File(s, 1)
        BY <3>1, FileOf DEF TextInv
      <3>3. /\ content[f] \in Seq(Chars) /\ began[s][f] \in Seq(Chars) /\ buf1[s] \in Seq(Chars)
        BY DEF TextInv, TextType, ReadInv, ReadType
      <3>4. /\ IsPrefix(began[s][f], buf1[s]) /\ IsPrefix(buf1[s], content[f])
        BY <3>1, <3>2 DEF Between
      <3>5. SubSeq(buf1[s], 1, Len(buf1[s])) = buf1[s]
        BY <3>3, SubSeqFull
      <3>6. buf1[s] = SubSeq(content[f], 1, Len(buf1[s]))
        BY <3>4, <3>5 DEF IsPrefix
      <3>7. Len(buf1[s]) \in Len(began[s][f]) .. Len(content[f])
        <4>1. Len(buf1[s]) \in Nat /\ Len(began[s][f]) \in Nat /\ Len(content[f]) \in Nat
          BY <3>3, LenProperties
        <4>2. Len(began[s][f]) =< Len(buf1[s]) /\ Len(buf1[s]) =< Len(content[f])
          BY <3>4 DEF IsPrefix
        <4> QED
          BY <4>1, <4>2
      <3>8. out[s][1] = Cardinality(Pieces(SubSeq(content[f], 1, Len(buf1[s]))))
        BY <3>1, <3>6
      <3> QED
        BY <3>2, <3>7, <3>8
    <2>4. Returned(s, "++") => Between(s, File(s, 1), buf1[s]) /\ Between(s, File(s, 2), buf2[s])
      BY <2>1 DEF HasRead, Past
    <2> QED
      BY <2>1, <2>2, <2>3, <2>4 DEF PrintOf
  <1> QED
    BY TextInvariant, InitRead, NextRead, <1>1, PTL DEF Spec
-----------------------------------------------------------------------------
(* killallmb.                                                              *)

ProcType ==
    /\ exe \in [Procs -> {"minibash", "other", "none"}]
    /\ fd0 = [p \in Procs |-> fd0[p]] /\ pending \subseteq Procs
    /\ todo \in [Shells -> SUBSET Procs] /\ who \in [Shells -> Procs \union {Nobody}]
    /\ victims \in [Shells -> SUBSET Procs] /\ foes \in [Shells -> SUBSET Procs]
    /\ spare \in [Shells -> SUBSET Procs]

\* A shell execs nothing; a child comes of a line that has been read.
ProcInv ==
    \A s \in Shells : /\ exe[Shell(s)] # "other"
                      /\ pc[s] = "prompt" => exe[Child(s)] = "none"

Scans(s) == pc[s] \in {"scan", "tty", "kill"}

\* Why killallmb of s spares p: p is a shell on its terminal, or has exec'd.
SparedNow(s, p) ==
    \E q \in Shells : \/ p = Shell(q) /\ fd0[p] = fd0[Shell(s)]
                      \/ p = Child(q) /\ pc[q] # "prompt" /\ exe[p] # "minibash"

SparesInv(s) ==
    /\ pc[s] = "prompt" => victims[s] = {}
    /\ victims[s] \intersect spare[s] = {}
    /\ Scans(s) /\ OnTerminal(Shell(s)) => \A p \in spare[s] : SparedNow(s, p)
    /\ pc[s] \in {"tty", "kill"} => who[s] \in Procs
    /\ pc[s] = "tty" /\ OnTerminal(Shell(s)) /\ who[s] \in spare[s] =>
         \E q \in Shells : who[s] = Shell(q) /\ fd0[who[s]] = fd0[Shell(s)]
    /\ pc[s] = "kill" => who[s] \notin spare[s]

\* A shell killallmb is for: it passes both tests as long as it is there.
Foe(s, p) ==
    OnTerminal(Shell(s)) /\ \E q \in Shells : p = Shell(q) /\ fd0[p] # fd0[Shell(s)]

\* Is p still to be looked at, or being looked at?
Ahead(s, p) == \/ pc[s] # "done" /\ p \in todo[s]
               \/ pc[s] \in {"tty", "kill"} /\ who[s] = p

ReachesInv(s) ==
    line[s].op = "killallmb" /\ (Scans(s) \/ Returned(s, "killallmb")) =>
        \A p \in foes[s] : Foe(s, p) /\ (Gone(p) \/ p \in pending \/ Ahead(s, p))

KillInv == ProcType /\ ProcInv /\ \A s \in Shells : SparesInv(s) /\ ReachesInv(s)

\* What no step does: change a shell's stdin, bring back a shell or a child that has
\* exec'd, forget a signal.
Onwards ==
    \A q \in Shells :
        /\ fd0'[Shell(q)] = fd0[Shell(q)]
        /\ exe[Shell(q)] = "none" => exe'[Shell(q)] = "none"
        /\ pc[q] # "prompt" =>
             pc'[q] # "prompt" /\ (exe[Child(q)] # "minibash" => exe'[Child(q)] # "minibash")
        /\ Shell(q) \in pending => Shell(q) \in pending' \/ exe'[Shell(q)] = "none"

LEMMA ProcsAre ==
  ASSUME NEW s \in Shells
  PROVE  /\ Shell(s) \in Procs /\ Child(s) \in Procs
         /\ \A t \in Shells : Shell(s) # Child(t) /\ (s # t => Child(s) # Child(t) /\ Shell(s) # Shell(t))
  BY DEF Procs, Shell, Child

\* A shell that does not move keeps its invariants.
LEMMA StandsStill ==
  ASSUME KillInv, Onwards, NEW s \in Shells, UNCHANGED line,
         pc'[s] = pc[s], rc'[s] = rc[s], todo'[s] = todo[s], who'[s] = who[s],
         victims'[s] = victims[s], foes'[s] = foes[s], spare'[s] = spare[s]
  PROVE  SparesInv(s)' /\ ReachesInv(s)'
  <1> USE DEF KillInv
  <1>1. OnTerminal(Shell(s))' <=> OnTerminal(Shell(s))
    BY DEF Onwards, OnTerminal
  <1>2. \A p : SparedNow(s, p) =>
           \E q \in Shells : \/ p = Shell(q) /\ fd0'[p] = fd0'[Shell(s)]
                             \/ p = Child(q) /\ pc'[q] # "prompt" /\ exe'[p] # "minibash"
    BY DEF SparedNow, Onwards
  <1>3. SparesInv(s)'
    BY <1>1, <1>2 DEF SparesInv, Scans, SparedNow, Onwards
  <1>4. \A p : Foe(s, p) => /\ \E q \in Shells : p = Shell(q) /\ fd0'[p] # fd0'[Shell(s)]
                            /\ Gone(p) \/ p \in pending => exe'[p] = "none" \/ p \in pending'
    BY DEF Foe, Onwards, Gone
  <1>5. ReachesInv(s)'
    BY <1>1, <1>4 DEF ReachesInv, Returned, Scans, Foe, Ahead, Gone
  <1> QED
    BY <1>3, <1>5
-----------------------------------------------------------------------------
LEMMA InitKill == Init => KillInv
  <1> SUFFICES ASSUME Init PROVE KillInv
    OBVIOUS
  <1>1. /\ pc = [s \in Shells |-> "prompt"]
        /\ exe = [p \in Procs |-> IF p[2] = "shell" THEN "minibash" ELSE "none"]
        /\ pending = {} /\ todo = [s \in Shells |-> {}] /\ who = [s \in Shells |-> Nobody]
        /\ victims = [s \in Shells |-> {}] /\ foes = [s \in Shells |-> {}]
        /\ spare = [s \in Shells |-> {}]
    BY DEF Init, TextInit, ForAll
  <1>2. fd0 = [p \in Procs |-> fd0[p]]
    BY DEF Init
  <1>3. ProcType
    BY <1>1, <1>2 DEF ProcType
  <1>4. ProcInv
    BY <1>1, ProcsAre DEF ProcInv, Shell, Child
  <1>5. \A s \in Shells : SparesInv(s) /\ ReachesInv(s)
    BY <1>1 DEF SparesInv, ReachesInv, Scans, Returned
  <1> QED
    BY <1>3, <1>4, <1>5 DEF KillInv

\* A text operator takes no shell into killallmb or back to its prompt.
LEMMA TextKill ==
  ASSUME KillInv, TextType, TextType', NEW s \in Shells, Text(s), UNCHANGED <<procs, killer>>
  PROVE  KillInv'
  <1>1. UNCHANGED <<exe, fd0, pending, todo, who, victims, foes, spare>>
    BY DEF procs, killer
  <1>2. UNCHANGED line /\ \A t \in Shells \ {s} : pc'[t] = pc[t] /\ rc'[t] = rc[t]
    BY DEF TextType, Text, Calls, Read1, Read2, Append1, Append2, Fwrite, Fclose, Unwritten,
           Cat, CatEnds, Count, Scanf, Unopened, Calm, Goes, Fails
  <1>3. /\ pc'[s] \notin {"prompt", "scan", "tty", "kill"}
        /\ line[s].op # "killallmb"
    <2> USE DEF TextType
    <2>1. CASE Calls(s)
      <3>1. line[s].op \in TextOps /\ pc'[s] \in {"read1", "cat", "count", "done"}
        BY <2>1 DEF Calls, Goes, Fails, TextOps
      <3> QED
        BY <3>1 DEF TextOps
    <2>2. CASE ~ Calls(s)
      <3>1. pc[s] \in AppPcs \union {"cat", "count"}
        BY <2>2 DEF Text, Read1, Read2, Append1, Append2, Fwrite, Fclose, Unwritten,
                    Cat, CatEnds, Count, Scanf, Unopened, Goes, Fails, AppPcs
      <3>2. pc'[s] \in AppPcs \union {"cat", "count", "done"}
        BY <2>2, <3>1 DEF Text, Read1, Read2, Append1, Append2, Fwrite, Fclose, Unwritten,
                    Cat, CatEnds, Count, Scanf, Unopened, Goes, Fails, AppPcs
      <3>3. line[s].op \in {"++", "+", "#"}
        BY <3>1 DEF LineOfPc
      <3> QED
        BY <3>2, <3>3 DEF AppPcs
    <2> QED
      BY <2>1, <2>2
  <1>4. Onwards
    BY <1>1, <1>2, <1>3 DEF Onwards
  <1>5. ProcType' /\ ProcInv'
    BY <1>1, <1>2, <1>3 DEF KillInv, ProcType, ProcInv
  <1>6. \A t \in Shells \ {s} : SparesInv(t)' /\ ReachesInv(t)'
    BY <1>1, <1>2, <1>4, StandsStill
  <1>7. SparesInv(s)' /\ ReachesInv(s)'
    BY <1>1, <1>2, <1>3 DEF KillInv, SparesInv, ReachesInv, Scans
  <1> QED
    BY <1>5, <1>6, <1>7 DEF KillInv

\* What the steps of one shell's killallmb, and its wait, have in common.
LEMMA OneMoves ==
  ASSUME KillInv, TextType, NEW s \in Shells, NEW from, NEW to \in Pcs \ {"prompt"},
         Does(s, from, to) \/ (ProcUnopened(s) /\ to = "done"),
         UNCHANGED <<exe, fd0>>, pending \subseteq pending',
         \A t \in Shells \ {s} : /\ todo'[t] = todo[t] /\ who'[t] = who[t]
                                 /\ victims'[t] = victims[t] /\ foes'[t] = foes[t]
                                 /\ spare'[t] = spare[t],
         ProcType', SparesInv(s)', ReachesInv(s)'
  PROVE  KillInv'
  <1>1. pc' = [pc EXCEPT ![s] = to] /\ UNCHANGED line
    BY DEF Does, Goes, ProcUnopened, Fails
  <1>2. pc'[s] # "prompt" /\ \A t \in Shells \ {s} : pc'[t] = pc[t] /\ rc'[t] = rc[t]
    BY <1>1 DEF TextType, Does, ProcUnopened, Fails
  <1>3. Onwards
    BY <1>2 DEF Onwards
  <1>4. ProcInv'
    BY <1>2 DEF KillInv, ProcInv
  <1>5. \A t \in Shells \ {s} : SparesInv(t)' /\ ReachesInv(t)'
    BY <1>1, <1>2, <1>3, StandsStill
  <1> QED
    BY <1>4, <1>5 DEF KillInv

LEMMA OpenProcKill ==
  ASSUME KillInv, TextType, NEW s \in Shells, OpenProc(s) PROVE KillInv'
  <1> USE DEF KillInv, ProcType
  <1> DEFINE mine == fd0[Shell(s)]
             others == {Shell(q) : q \in Shells \ {s}}
  <1>1. /\ pc[s] = "prompt" /\ pc' = [pc EXCEPT ![s] = "scan"] /\ line[s].op = "killallmb"
        /\ todo' = [todo EXCEPT ![s] = {p \in Procs : ~ Gone(p)} \ {Shell(s)}]
        /\ foes' = [foes EXCEPT ![s] =
              IF OnTerminal(Shell(s)) THEN {p \in others : ~ Gone(p) /\ fd0[p] # mine} ELSE {}]
        /\ spare' = [spare EXCEPT ![s] =
              IF OnTerminal(Shell(s))
              THEN {Shell(s)} \union {p \in others : fd0[p] = mine} \union {p \in Procs : exe[p] = "other"}
              ELSE Procs]
        /\ UNCHANGED <<exe, fd0, pending, who, victims, line>>
    BY DEF OpenProc, Begins, Does, Goes, procs
  <1>2. Shell(s) \in Procs /\ others \subseteq Procs
    BY ProcsAre
  <1>3. ProcType'
    BY <1>1, <1>2
  <1>4. pc'[s] = "scan" /\ victims'[s] = {}
    BY <1>1 DEF TextType, SparesInv
  <1>5. \A p \in Procs : exe[p] = "other" => \E q \in Shells : p = Child(q) /\ pc[q] # "prompt"
    BY DEF ProcInv, Procs
  <1>6. ASSUME OnTerminal(Shell(s)), NEW p \in spare'[s] PROVE SparedNow(s, p)'
    <2>1. CASE p = Shell(s)
      BY <1>1, <2>1 DEF SparedNow
    <2>2. CASE p \in others /\ fd0[p] = mine
      BY <1>1, <2>2 DEF SparedNow
    <2>3. CASE p \in Procs /\ exe[p] = "other"
      <3>1. PICK q \in Shells : p = Child(q) /\ pc[q] # "prompt"
        BY <1>5, <2>3
      <3>2. pc'[q] # "prompt"
        BY <1>1, <1>4, <3>1 DEF TextType
      <3> QED
        BY <1>1, <2>3, <3>1, <3>2 DEF SparedNow
    <2> QED
      BY <1>1, <1>6, <2>1, <2>2, <2>3
  <1>7. SparesInv(s)'
    BY <1>1, <1>4, <1>6 DEF SparesInv, OnTerminal
  <1>8. \A p \in foes'[s] : /\ OnTerminal(Shell(s)) /\ p \in others /\ ~ Gone(p) /\ fd0[p] # mine
    BY <1>1
  <1>9. \A p \in others : p # Shell(s) /\ p \in Procs
    BY ProcsAre
  <1>10. \A p \in foes'[s] : p \in todo'[s]
    BY <1>1, <1>8, <1>9
  <1>11. ReachesInv(s)'
    <2>1. \A p \in foes'[s] : \E q \in Shells : p = Shell(q) /\ fd0'[p] # fd0'[Shell(s)]
      BY <1>1, <1>8
    <2>2. OnTerminal(Shell(s))' <=> OnTerminal(Shell(s))
      BY <1>1 DEF OnTerminal
    <2>3. \A p \in foes'[s] : Foe(s, p)'
      BY <1>8, <2>1, <2>2 DEF Foe
    <2>4. \A p \in foes'[s] : Ahead(s, p)'
      BY <1>4, <1>10 DEF Ahead
    <2> QED
      BY <2>3, <2>4 DEF ReachesInv
  <1>12. Does(s, "prompt", "scan") /\ "scan" \in Pcs \ {"prompt"}
    BY DEF OpenProc, Pcs
  <1> QED
    BY <1>1, <1>3, <1>7, <1>11, <1>12, OneMoves

\* When /proc cannot be opened, nobody is signalled and the walk never begins.
LEMMA ProcUnopenedKill ==
  ASSUME KillInv, TextType, NEW s \in Shells, ProcUnopened(s) PROVE KillInv'
  <1> USE DEF KillInv, ProcType
  <1>1. /\ pc[s] = "prompt" /\ pc' = [pc EXCEPT ![s] = "done"] /\ rc' = [rc EXCEPT ![s] = -1]
        /\ UNCHANGED <<exe, fd0, pending, todo, who, victims, line>> /\ Begins(s)
    BY DEF ProcUnopened, Fails, Goes, procs
  <1>2. Shell(s) \in Procs /\ {Shell(q) : q \in Shells \ {s}} \subseteq Procs
    BY ProcsAre
  <1>3. /\ foes' \in [Shells -> SUBSET Procs] /\ spare' \in [Shells -> SUBSET Procs]
        /\ \A t \in Shells \ {s} : foes'[t] = foes[t] /\ spare'[t] = spare[t]
    BY <1>1, <1>2 DEF Begins
  <1>4. ProcType' /\ pc'[s] = "done" /\ rc'[s] = -1
    BY <1>1, <1>3 DEF TextType
  <1>5. SparesInv(s)'
    BY <1>1, <1>4 DEF SparesInv, Scans
  <1>6. ReachesInv(s)'
    BY <1>4 DEF ReachesInv, Returned, Scans
  <1>7. "done" \in Pcs \ {"prompt"}
    BY DEF Pcs
  <1> QED
    BY <1>1, <1>3, <1>4, <1>5, <1>6, <1>7, OneMoves

LEMMA Test_exeKill ==
  ASSUME KillInv, TextType, NEW s \in Shells, exe[Shell(s)] # "none", NEW p, Test_exe(s, p)
  PROVE  KillInv'
  <1> USE DEF KillInv, ProcType
  <1>1. PICK to \in {"tty", "scan"} :
           /\ Does(s, "scan", to) /\ (to = "tty" <=> exe[p] = exe[Shell(s)])
    BY DEF Test_exe, is_same_executable_as_self
  <1>2. /\ p \in todo[s] /\ pc[s] = "scan" /\ pc' = [pc EXCEPT ![s] = to]
        /\ todo' = [todo EXCEPT ![s] = todo[s] \ {p}] /\ who' = [who EXCEPT ![s] = p]
        /\ UNCHANGED <<exe, fd0, pending, victims, foes, spare, line>>
    BY <1>1 DEF Test_exe, Does, Goes, procs
  <1>3. p \in Procs
    BY <1>2
  <1>4. ProcType' /\ pc'[s] = to /\ who'[s] = p /\ todo'[s] = todo[s] \ {p}
    BY <1>2, <1>3 DEF TextType
  <1>5. exe[Shell(s)] = "minibash"
    BY ProcsAre DEF ProcInv
  <1>6. OnTerminal(Shell(s))' <=> OnTerminal(Shell(s))
    BY <1>2 DEF OnTerminal
  <1>7. SparesInv(s)'
    <2>1. SparesInv(s) /\ Scans(s)
      BY <1>2 DEF Scans
    <2>2. \A r : SparedNow(s, r) => SparedNow(s, r)'
      <3>1. \A q \in Shells : pc[q] # "prompt" => pc'[q] # "prompt"
        BY <1>2, <1>4 DEF TextType
      <3> QED
        BY <1>2, <3>1 DEF SparedNow
    <2>3. OnTerminal(Shell(s)) /\ to = "tty" /\ p \in spare[s] =>
            \E q \in Shells : p = Shell(q) /\ fd0[p] = fd0[Shell(s)]
      BY <1>1, <1>5, <2>1 DEF SparesInv, SparedNow
    <2>4. victims'[s] = victims[s] /\ spare'[s] = spare[s]
      BY <1>2
    <2> QED
      BY <1>2, <1>3, <1>4, <1>6, <2>1, <2>2, <2>3, <2>4 DEF SparesInv
  <1>8. ReachesInv(s)'
    <2>1. ASSUME line[s].op = "killallmb", NEW r \in foes[s]
          PROVE  Foe(s, r)' /\ (Gone(r)' \/ r \in pending' \/ Ahead(s, r)')
      <3>1. Foe(s, r) /\ (Gone(r) \/ r \in pending \/ Ahead(s, r))
        BY <1>2, <2>1 DEF ReachesInv, Scans
      <3>2. Foe(s, r)'
        BY <1>2, <1>6, <3>1 DEF Foe
      <3>3. exe[r] # "none" => exe[r] = "minibash"
        BY <3>1, ProcsAre DEF Foe, ProcInv
      <3>4. Gone(r)' \/ r \in pending' \/ Ahead(s, r)'
        BY <1>1, <1>2, <1>4, <1>5, <3>1, <3>3 DEF Ahead, Gone
      <3> QED
        BY <3>2, <3>4
    <2> QED
      BY <1>2, <2>1 DEF ReachesInv
  <1>9. to \in Pcs \ {"prompt"}
    BY DEF Pcs
  <1> QED
    BY <1>1, <1>2, <1>4, <1>7, <1>8, <1>9, OneMoves

LEMMA Test_ttyKill ==
  ASSUME KillInv, TextType, NEW s \in Shells, Test_tty(s) PROVE KillInv'
  <1> USE DEF KillInv, ProcType
  <1>1. PICK to \in {"kill", "scan"} :
           /\ Does(s, "tty", to)
           /\ to = "kill" <=> is_on_different_terminal_from_self(s, who[s])
    BY DEF Test_tty
  <1>2. /\ pc[s] = "tty" /\ pc' = [pc EXCEPT ![s] = to]
        /\ UNCHANGED <<exe, fd0, pending, todo, who, victims, foes, spare, line>>
    BY <1>1 DEF Test_tty, Does, Goes, procs, killer
  <1>3. ProcType' /\ pc'[s] = to
    BY <1>2 DEF TextType
  <1>4. OnTerminal(Shell(s))' <=> OnTerminal(Shell(s))
    BY <1>2 DEF OnTerminal
  <1>5. SparesInv(s)'
    <2>1. SparesInv(s) /\ Scans(s)
      BY <1>2 DEF Scans
    <2>2. \A r : SparedNow(s, r) => SparedNow(s, r)'
      <3>1. \A q \in Shells : pc[q] # "prompt" => pc'[q] # "prompt"
        BY <1>2, <1>3 DEF TextType
      <3> QED
        BY <1>2, <3>1 DEF SparedNow
    <2>3. to = "kill" => who[s] \notin spare[s]
      BY <1>1, <1>2, <2>1 DEF SparesInv, is_on_different_terminal_from_self
    <2> QED
      BY <1>2, <1>3, <1>4, <2>1, <2>2, <2>3 DEF SparesInv
  <1>6. ReachesInv(s)'
    <2>1. ASSUME line[s].op = "killallmb", NEW r \in foes[s]
          PROVE  Foe(s, r)' /\ (Gone(r)' \/ r \in pending' \/ Ahead(s, r)')
      <3>1. Foe(s, r) /\ (Gone(r) \/ r \in pending \/ Ahead(s, r))
        BY <1>2, <2>1 DEF ReachesInv, Scans
      <3>2. Foe(s, r)'
        BY <1>2, <1>4, <3>1 DEF Foe
      <3>3. who[s] = r /\ ~ Gone(r) => to = "kill"
        BY <1>1, <3>1 DEF is_on_different_terminal_from_self, Foe
      <3>4. Gone(r)' \/ r \in pending' \/ Ahead(s, r)'
        BY <1>2, <1>3, <3>1, <3>3 DEF Ahead, Gone
      <3> QED
        BY <3>2, <3>4
    <2> QED
      BY <1>2, <2>1 DEF ReachesInv
  <1>7. to \in Pcs \ {"prompt"}
    BY DEF Pcs
  <1> QED
    BY <1>1, <1>2, <1>3, <1>5, <1>6, <1>7, OneMoves

LEMMA SendKill ==
  ASSUME KillInv, TextType, NEW s \in Shells, Kill(s) PROVE KillInv'
  <1> USE DEF KillInv, ProcType
  <1>1. /\ Does(s, "kill", "scan") /\ pc[s] = "kill" /\ pc' = [pc EXCEPT ![s] = "scan"]
        /\ UNCHANGED <<exe, fd0, todo, who, foes, spare, line>>
    BY DEF Kill, Does, Goes
  <1>2. who[s] \in Procs /\ who[s] \notin spare[s] /\ SparesInv(s)
    BY <1>1 DEF SparesInv
  <1>3. /\ pending \subseteq pending' /\ pending' \subseteq Procs
        /\ ~ Gone(who[s]) => who[s] \in pending'
        /\ victims' \in [Shells -> SUBSET Procs] /\ victims'[s] \subseteq victims[s] \union {who[s]}
        /\ \A t \in Shells \ {s} : victims'[t] = victims[t]
    BY <1>2 DEF Kill
  <1>4. ProcType' /\ pc'[s] = "scan"
    BY <1>1, <1>3 DEF TextType
  <1>5. OnTerminal(Shell(s))' <=> OnTerminal(Shell(s))
    BY <1>1 DEF OnTerminal
  <1>6. SparesInv(s)'
    <2>1. \A r : SparedNow(s, r) => SparedNow(s, r)'
      <3>1. \A q \in Shells : pc[q] # "prompt" => pc'[q] # "prompt"
        BY <1>1, <1>4 DEF TextType
      <3> QED
        BY <1>1, <3>1 DEF SparedNow
    <2>2. victims'[s] \intersect spare'[s] = {}
      BY <1>1, <1>2, <1>3 DEF SparesInv
    <2> QED
      BY <1>1, <1>2, <1>4, <1>5, <2>1, <2>2 DEF SparesInv, Scans
  <1>7. ReachesInv(s)'
    <2>1. ASSUME line[s].op = "killallmb", NEW r \in foes[s]
          PROVE  Foe(s, r)' /\ (Gone(r)' \/ r \in pending' \/ Ahead(s, r)')
      <3>1. Foe(s, r) /\ (Gone(r) \/ r \in pending \/ Ahead(s, r))
        BY <1>1, <2>1 DEF ReachesInv, Scans
      <3>2. Foe(s, r)'
        BY <1>1, <1>5, <3>1 DEF Foe
      <3>3. Gone(r)' \/ r \in pending' \/ Ahead(s, r)'
        BY <1>1, <1>3, <1>4, <3>1 DEF Ahead, Gone
      <3> QED
        BY <3>2, <3>3
    <2> QED
      BY <1>1, <2>1 DEF ReachesInv
  <1>8. "scan" \in Pcs \ {"prompt"}
    BY DEF Pcs
  <1> QED
    BY <1>1, <1>3, <1>4, <1>6, <1>7, <1>8, OneMoves

\* The walk or the command is over.
LEMMA DoneKill ==
  ASSUME KillInv, TextType, NEW s \in Shells, Scanned(s) \/ Waited(s) PROVE KillInv'
  <1> USE DEF KillInv, ProcType
  <1>1. PICK from \in {"scan", "wait"} : Does(s, from, "done") /\ (from = "scan" => todo[s] = {})
    BY DEF Scanned, Waited
  <1>2. /\ pc[s] = from /\ pc' = [pc EXCEPT ![s] = "done"]
        /\ UNCHANGED <<exe, fd0, pending, todo, who, victims, foes, spare, line>>
    BY <1>1 DEF Scanned, Waited, Does, Goes, procs, killer
  <1>3. ProcType' /\ pc'[s] = "done"
    BY <1>2 DEF TextType
  <1>4. SparesInv(s)'
    BY <1>2, <1>3 DEF SparesInv, Scans
  <1>5. ReachesInv(s)'
    <2>1. ASSUME line[s].op = "killallmb", NEW r \in foes[s]
          PROVE  Foe(s, r)' /\ (Gone(r)' \/ r \in pending')
      <3>1. pc[s] = "scan"
        BY <1>2, <2>1 DEF TextType, LineOfPc
      <3>2. Foe(s, r) /\ (Gone(r) \/ r \in pending \/ Ahead(s, r))
        BY <2>1, <3>1 DEF ReachesInv, Scans
      <3>3. Gone(r) \/ r \in pending
        BY <1>1, <1>2, <3>1, <3>2 DEF Ahead
      <3> QED
        BY <1>2, <3>2, <3>3 DEF Foe, OnTerminal, Gone
    <2> QED
      BY <1>2, <2>1 DEF ReachesInv
  <1>6. "done" \in Pcs \ {"prompt"}
    BY DEF Pcs
  <1> QED
    BY <1>1, <1>2, <1>3, <1>4, <1>5, <1>6, OneMoves

\* A child starts, goes on or ends.
LEMMA ForksKill ==
  ASSUME KillInv, TextType, NEW s \in Shells, Forks(s) PROVE KillInv'
  <1> USE DEF KillInv, ProcType
  <1>1. /\ pc[s] = "prompt" /\ pc' = [pc EXCEPT ![s] = "wait"] /\ line[s].op = "run"
        /\ exe' = [exe EXCEPT ![Child(s)] = "minibash"]
        /\ fd0' = [fd0 EXCEPT ![Child(s)] = fd0[Shell(s)]]
        /\ UNCHANGED <<pending, todo, who, victims, foes, spare, line>>
    BY DEF Forks, Does, Goes, killer
  <1>2. pc'[s] = "wait" /\ \A t \in Shells \ {s} : pc'[t] = pc[t] /\ rc'[t] = rc[t]
    BY <1>1 DEF TextType, Forks, Does
  <1>3. ProcType'
    BY <1>1
  <1>4. /\ \A q \in Shells : exe'[Shell(q)] = exe[Shell(q)] /\ fd0'[Shell(q)] = fd0[Shell(q)]
        /\ \A q \in Shells \ {s} : exe'[Child(q)] = exe[Child(q)]
    BY <1>1, ProcsAre
  <1>5. Onwards /\ ProcInv'
    BY <1>1, <1>2, <1>4 DEF Onwards, ProcInv
  <1>6. \A t \in Shells \ {s} : SparesInv(t)' /\ ReachesInv(t)'
    BY <1>1, <1>2, <1>5, StandsStill
  <1>7. SparesInv(s)' /\ ReachesInv(s)'
    BY <1>1, <1>2 DEF SparesInv, ReachesInv, Scans, Returned
  <1> QED
    BY <1>3, <1>5, <1>6, <1>7

LEMMA ChildKill ==
  ASSUME KillInv, NEW s \in Shells, Dup2(s) \/ Exec(s) \/ Exits(s) PROVE KillInv'
  <1> USE DEF KillInv, ProcType
  <1>1. UNCHANGED <<pc, rc, line, todo, who, victims, foes, spare>>
    BY DEF Dup2, Exec, Exits, texts, killer
  <1>2. ProcType'
    BY <1>1, ProcsAre DEF Dup2, Exec, Exits
  <1>3. /\ \A q \in Shells : exe'[Shell(q)] = exe[Shell(q)] /\ fd0'[Shell(q)] = fd0[Shell(q)]
        /\ \A q \in Shells : exe[Child(q)] \in {"none", "other"} => exe'[Child(q)] \in {exe[Child(q)], "none"}
        /\ \A q \in Shells : Shell(q) \in pending => Shell(q) \in pending'
    BY ProcsAre DEF Dup2, Exec, Exits
  <1>4. \A q \in Shells : exe[Child(q)] \in {"minibash", "other", "none"}
    BY ProcsAre
  <1>5. Onwards
    BY <1>1, <1>3, <1>4 DEF Onwards
  <1>6. ProcInv'
    BY <1>1, <1>3 DEF ProcInv
  <1>7. \A t \in Shells : SparesInv(t)' /\ ReachesInv(t)'
    BY <1>1, <1>5, StandsStill
  <1> QED
    BY <1>2, <1>6, <1>7

LEMMA TerminatedKill ==
  ASSUME KillInv, NEW p \in Procs, Terminated(p) PROVE KillInv'
  <1> USE DEF KillInv, ProcType
  <1>1. UNCHANGED <<pc, rc, line, fd0, todo, who, victims, foes, spare>>
    BY DEF Terminated, texts, killer
  <1>2. exe' = [exe EXCEPT ![p] = "none"] /\ pending' = pending \ {p}
    BY DEF Terminated
  <1>3. ProcType'
    BY <1>1, <1>2
  <1>4. \A q \in Procs : exe'[q] \in {exe[q], "none"} /\ (q \in pending => q \in pending' \/ exe'[q] = "none")
    BY <1>2
  <1>5. Onwards
    BY <1>1, <1>4, ProcsAre DEF Onwards
  <1>6. ProcInv'
    BY <1>1, <1>4, ProcsAre DEF ProcInv
  <1>7. \A t \in Shells : SparesInv(t)' /\ ReachesInv(t)'
    BY <1>1, <1>5, StandsStill
  <1> QED
    BY <1>3, <1>6, <1>7

LEMMA NextKill == TextInv /\ TextInv' /\ KillInv /\ [Next]_vars => KillInv'
  <1> SUFFICES ASSUME TextInv, TextInv', KillInv, [Next]_vars PROVE KillInv'
    OBVIOUS
  <1> USE DEF TextInv
  <1>1. ASSUME NEW s \in Shells, Runs(s) PROVE KillInv'
    <2>1. exe[Shell(s)] # "none"
      BY <1>1 DEF Runs, Gone
    <2>2. CASE Text(s) /\ UNCHANGED <<procs, killer>>
      BY <2>2, TextKill
    <2>3. CASE signal_other_minibash_instances(s)
      BY <2>1, <2>3, OpenProcKill, ProcUnopenedKill, Test_exeKill, Test_ttyKill, SendKill, DoneKill
      DEF signal_other_minibash_instances
    <2>4. CASE Forks(s) \/ Waited(s)
      BY <2>4, ForksKill, DoneKill
    <2> QED
      BY <1>1, <2>2, <2>3, <2>4 DEF Runs
  <1>2. ASSUME NEW s \in Shells, Dup2(s) \/ Exec(s) \/ Exits(s) PROVE KillInv'
    BY <1>2, ChildKill
  <1>3. ASSUME NEW p \in Procs, Terminated(p) PROVE KillInv'
    BY <1>3, TerminatedKill
  <1>4. CASE UNCHANGED vars
    <2>1. UNCHANGED <<pc, rc, line, exe, fd0, pending, todo, who, victims, foes, spare>>
      BY <1>4 DEF vars, texts, procs, killer
    <2>2. ProcType' /\ ProcInv' /\ Onwards
      BY <2>1 DEF KillInv, ProcType, ProcInv, Onwards
    <2> QED
      BY <2>1, <2>2, StandsStill DEF KillInv
  <1> QED
    BY <1>1, <1>2, <1>3, <1>4 DEF Next

LEMMA KillInvariant == Spec => []KillInv
  BY InitKill, TextInvariant, NextKill, PTL DEF Spec

\* killallmb signals no shell of its own terminal and no command that had been exec'd
\* before it began, whatever ends, execs or is redirected while it walks, for any number
\* of shells (signal_other_minibash_instances).
THEOREM SparesCorrect == Spec => []KillallSpares
  <1>1. KillInv => KillallSpares
    BY DEF KillInv, SparesInv, KillallSpares
  <1> QED
    BY KillInvariant, <1>1, PTL

\* When the killallmb of a shell that has a terminal returns 0, every shell that was on
\* another terminal has ended or is about to, for any number of shells; a shell without
\* a terminal has no foes (signal_other_minibash_instances).
THEOREM ReachesCorrect == Spec => []KillallReaches
  <1>1. KillInv => KillallReaches
    BY DEF KillInv, ReachesInv, Returned, Scans, Ahead, KillallReaches
  <1> QED
    BY KillInvariant, <1>1, PTL
=============================================================================
