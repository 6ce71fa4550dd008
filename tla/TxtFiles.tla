------------------------------- MODULE TxtFiles ------------------------------
(***************************************************************************)
(* src/A3/A3.c, the text operators of several shells on the same files:    *)
(*   file1.txt ++ file2.txt  reads both and appends each to the other,     *)
(*   + file1.txt ...         prints them, # file.txt counts its words.     *)
(* Calls may fail: fopen, fread or fwrite, which the code looks at, or the *)
(* write that fclose does, which it does not.                              *)
(*                                                                         *)
(* A content is a sequence of characters, some of them blanks.  A file is  *)
(* read from its start as far as it goes at each read, until a read finds  *)
(* its end, while other shells append to it.  The end of a file is sticky, *)
(* as the C standard has it: fscanf reads nothing behind it.               *)
(***************************************************************************)
EXTENDS Integers, SequencesExt

CONSTANTS
    Shells,     \* the minibash processes, each types one line
    Lines,      \* the lines typed: one record [op, paths] for each shell
    Chars, Blanks,      \* the characters, and those between words
    Width,      \* how much of a word fscanf takes at a time: 511
    Files, Texts,       \* the files there are and what they hold
    Names,      \* the file each path names: several paths may name one
    Txt,        \* the paths that end in .txt
    OpenFaults, \* bound: how many fopen, fread, fwrite or opendir fail
    CloseFaults \* bound: how many fclose fail to write

ASSUME TxtAssumption ==
    /\ Texts \in [Files -> Seq(Chars)] /\ Blanks \subseteq Chars /\ Width \in Nat \ {0}
    /\ \A p \in DOMAIN Names : Names[p] \in Files
    /\ Lines \subseteq [Shells -> [op : STRING, paths : Seq(DOMAIN Names)]]
    /\ OpenFaults \in Nat /\ CloseFaults \in Nat

VARIABLES
    content,    \* of each file
    line,       \* of each shell: the line it was given
    pc,         \* where it is in the operator's function
    buf1, buf2, \* what it has read: ++ of either file, + and # of the one they are at
    rest,       \* ++: what fwrite left for fclose
    out,        \* +: the texts printed; #: the words counted, and how much of the last
    next,       \* +: the argument printed next
    rc,         \* what the function returns
    openFaults, closeFaults,
    began       \* ghost: the contents when the function was called

buffers == <<buf1, buf2, rest>>
texts == <<content, line, pc, buffers, out, next, rc, openFaults, closeFaults, began>>

TextOps == {"++", "+", "#"}
path(s, i) == line[s].paths[i]
File(s, i) == Names[path(s, i)]
argc(s) == Len(line[s].paths)

TextInit ==
    /\ content = Texts
    /\ line \in Lines
    /\ pc = [s \in Shells |-> "prompt"]
    /\ buf1 = [s \in Shells |-> <<>>] /\ buf2 = [s \in Shells |-> <<>>]
    /\ rest = [s \in Shells |-> <<>>] /\ out = [s \in Shells |-> <<>>]
    /\ next = [s \in Shells |-> 1] /\ rc = [s \in Shells |-> 0]
    /\ openFaults = OpenFaults /\ closeFaults = CloseFaults
    /\ began = [s \in Shells |-> Texts]

Goes(s, from, to) == pc[s] = from /\ pc' = [pc EXCEPT ![s] = to]
Fails(s, from) == Goes(s, from, "done") /\ rc' = [rc EXCEPT ![s] = -1]
-----------------------------------------------------------------------------
is_txt_file_path(p) == p \in Txt

\* The arguments each function wants before it opens anything.
WellFormed(s) ==
    CASE line[s].op = "++" -> /\ argc(s) = 2 /\ path(s, 1) # path(s, 2)
                              /\ is_txt_file_path(path(s, 1)) /\ is_txt_file_path(path(s, 2))
      [] line[s].op = "#"  -> argc(s) = 1 /\ is_txt_file_path(path(s, 1))
      [] line[s].op = "+"  -> argc(s) > 0

Calls(s) ==
    /\ line[s].op \in TextOps
    /\ IF WellFormed(s)
       THEN Goes(s, "prompt", CASE line[s].op = "++" -> "read1" [] line[s].op = "+" -> "cat"
                                [] line[s].op = "#" -> "count")
            /\ UNCHANGED rc
       ELSE Fails(s, "prompt")
    /\ out' = [out EXCEPT ![s] = IF line[s].op = "#" THEN <<0, 0>> ELSE <<>>]
    /\ began' = [began EXCEPT ![s] = content]
    /\ UNCHANGED <<content, line, buffers, next, openFaults, closeFaults>>

Calm == UNCHANGED <<line, openFaults, closeFaults, began>>

\* What a buffer of the text b may hold after a further read of f.
Further(b, f) == {b \o SubSeq(content[f], Len(b) + 1, n) : n \in Len(b) + 1 .. Len(content[f])}
AtEnd(b, f) == Len(b) >= Len(content[f])

\* read_file_all of either file.
Read1(s) ==
    /\ \/ pc[s] = "read1" /\ UNCHANGED pc
          /\ \E b \in Further(buf1[s], File(s, 1)) : buf1' = [buf1 EXCEPT ![s] = b]
       \/ Goes(s, "read1", "read2") /\ AtEnd(buf1[s], File(s, 1)) /\ UNCHANGED buf1
    /\ Calm /\ UNCHANGED <<content, buf2, rest, out, next, rc>>
Read2(s) ==
    /\ \/ pc[s] = "read2" /\ UNCHANGED pc
          /\ \E b \in Further(buf2[s], File(s, 2)) : buf2' = [buf2 EXCEPT ![s] = b]
       \/ Goes(s, "read2", "app1") /\ AtEnd(buf2[s], File(s, 2)) /\ UNCHANGED buf2
    /\ Calm /\ UNCHANGED <<content, buf1, rest, out, next, rc>>

\* The file is opened to append.
Append_(f, text) == content' = [content EXCEPT ![f] = @ \o text]

\* append_buffer_to_file of text to the i-th file, first half: fwrite writes whole
\* blocks of it, as much as n, and leaves the rest in its buffer.
Fwrite(s, i, text, from, to) ==
    \E n \in 0 .. Len(text) :
    /\ Goes(s, from, to) /\ Append_(File(s, i), SubSeq(text, 1, n))
    /\ rest' = [rest EXCEPT ![s] = SubSeq(text, n + 1, Len(text))]
    /\ Calm /\ UNCHANGED <<buf1, buf2, out, next, rc>>

\* Second half: fclose writes the rest.
Fclose(s, i, from, to) ==
    /\ Goes(s, from, to) /\ Append_(File(s, i), rest[s])
    /\ rest' = [rest EXCEPT ![s] = <<>>]
    /\ Calm /\ UNCHANGED <<buf1, buf2, out, next, rc>>

Append1(s) == Fwrite(s, 1, buf2[s], "app1", "close1") \/ Fclose(s, 1, "close1", "app2")
Append2(s) == Fwrite(s, 2, buf1[s], "app2", "close2") \/ Fclose(s, 2, "close2", "done")

\* fclose cannot write, and nobody looks.
Unwritten(s) ==
    /\ closeFaults > 0 /\ closeFaults' = closeFaults - 1
    /\ Goes(s, "close1", "app2") \/ Goes(s, "close2", "done")
    /\ rest' = [rest EXCEPT ![s] = <<>>]
    /\ UNCHANGED <<content, line, buf1, buf2, out, next, rc, openFaults, began>>
-----------------------------------------------------------------------------
\* +: each argument is checked and read as its turn comes, and then printed.
Cat(s) ==
    /\ pc[s] = "cat" /\ next[s] =< argc(s)
    /\ LET f == File(s, next[s]) IN
       \/ /\ ~ is_txt_file_path(path(s, next[s]))
          /\ Fails(s, "cat") /\ UNCHANGED <<buf1, out, next>>
       \/ /\ is_txt_file_path(path(s, next[s]))
          /\ \E b \in Further(buf1[s], f) : buf1' = [buf1 EXCEPT ![s] = b]
          /\ UNCHANGED <<pc, rc, out, next>>
       \/ /\ is_txt_file_path(path(s, next[s])) /\ AtEnd(buf1[s], f)
          /\ out' = [out EXCEPT ![s] = Append(@, buf1[s])]
          /\ buf1' = [buf1 EXCEPT ![s] = <<>>]
          /\ next' = [next EXCEPT ![s] = @ + 1] /\ UNCHANGED <<pc, rc>>
    /\ Calm /\ UNCHANGED <<content, buf2, rest>>
CatEnds(s) ==
    /\ next[s] > argc(s) /\ Goes(s, "cat", "done")
    /\ Calm /\ UNCHANGED <<content, buffers, out, next, rc>>

\* fscanf("%511s") of one more character: how many words that makes, and how much of
\* the last one it has taken.
fscanf(n, taken, c) ==
    IF c \in Blanks THEN <<n, 0>>
    ELSE IF taken \in {0, Width} THEN <<n + 1, 1>> ELSE <<n, taken + 1>>

\* A character at a time: a block may end behind each.
Scanf(s) ==
    /\ pc[s] = "count" /\ ~ AtEnd(buf1[s], File(s, 1))
    /\ LET c == content[File(s, 1)][Len(buf1[s]) + 1] IN
       /\ buf1' = [buf1 EXCEPT ![s] = Append(@, c)]
       /\ out' = [out EXCEPT ![s] = fscanf(@[1], @[2], c)]
    /\ Calm /\ UNCHANGED <<content, pc, buf2, rest, next, rc>>

\* Variant: the end of a file ends a word, and the loop goes on behind it.
Count_goes_on(s) ==
    \/ Scanf(s)
    \/ /\ pc[s] = "count" /\ AtEnd(buf1[s], File(s, 1))
       /\ \/ Goes(s, "count", "done") /\ UNCHANGED out
          \/ out' = [out EXCEPT ![s] = <<@[1], 0>>] /\ UNCHANGED pc
       /\ Calm /\ UNCHANGED <<content, buffers, next, rc>>

Count(s) ==
    \/ Scanf(s)
    \/ /\ Goes(s, "count", "done") /\ AtEnd(buf1[s], File(s, 1))
       /\ Calm /\ UNCHANGED <<content, buffers, out, next, rc>>

\* Variant: the value of the first append_buffer_to_file is not looked at.
Unopened_goes_on(s) ==
    /\ openFaults > 0 /\ openFaults' = openFaults - 1
    /\ \/ \E from \in {"read1", "read2", "app2", "cat", "count"} : Fails(s, from)
       \/ Goes(s, "app1", "app2") /\ UNCHANGED rc
    /\ UNCHANGED <<content, line, buffers, out, next, closeFaults, began>>

\* fopen, fread or fwrite fails; a failing fwrite is taken to have written nothing.
Unopened(s) ==
    /\ openFaults > 0 /\ openFaults' = openFaults - 1
    /\ \E from \in {"read1", "read2", "app1", "app2", "cat", "count"} : Fails(s, from)
    /\ UNCHANGED <<content, line, buffers, out, next, closeFaults, began>>

Text(s) == \/ Calls(s) \/ Read1(s) \/ Read2(s) \/ Append1(s) \/ Append2(s)
           \/ Unwritten(s) \/ Cat(s) \/ CatEnds(s) \/ Count(s) \/ Unopened(s)
-----------------------------------------------------------------------------
Returned(s, op) == pc[s] = "done" /\ line[s].op = op /\ rc[s] = 0

\* b stands in c, behind position i, with other pieces in between or not.
Stands(b, c, i) ==
    \E g \in [DOMAIN b -> i + 1 .. Len(c)] :
        /\ \A j, k \in DOMAIN b : j < k => g[j] < g[k]
        /\ \A j \in DOMAIN b : c[g[j]] = b[j]

\* As long as fclose works, ++ returns 0 only when the content each file had when it
\* was read stands in the other file, behind what that file held then, with the
\* pieces other shells append in between or not (exc_txt_app_cmd).
OutcomeReported ==
    closeFaults = CloseFaults =>
    \A s \in Shells : Returned(s, "++") =>
        /\ Stands(buf2[s], content[File(s, 1)], Len(buf1[s]))
        /\ Stands(buf1[s], content[File(s, 2)], Len(buf2[s]))

\* Where the words of a text start, and where each piece of Width characters of them,
\* which is all the words if none is longer.
WordStarts(t) == {i \in DOMAIN t : t[i] \notin Blanks /\ (i > 1 => t[i - 1] \in Blanks)}
Pieces(t) ==
    {i \in DOMAIN t : \E b \in WordStarts(t), q \in 0 .. Len(t) :
                          i = b + q * Width /\ \A j \in b .. i : t[j] \notin Blanks}

\* t is a content that f had between the call of s and now.
Between(s, f, t) == IsPrefix(began[s][f], t) /\ IsPrefix(t, content[f])

\* What + printed of a file, what ++ read of its two and what # counted is so of a
\* content the file had between call and return, although it is read bit by bit while
\* other shells append to it, half a word at a time perhaps.  # counts words, those of
\* more than Width characters once for each Width of them that they have begun
\* (read_file_all, exc_word_count_cmd).
ReadsAContent ==
    \A s \in Shells :
        /\ line[s].op = "+" => \A i \in DOMAIN out[s] : Between(s, File(s, i), out[s][i])
        /\ Returned(s, "++") => Between(s, File(s, 1), buf1[s]) /\ Between(s, File(s, 2), buf2[s])
        /\ Returned(s, "#") =>
              LET f == File(s, 1) IN
              \E n \in Len(began[s][f]) .. Len(content[f]) :
                  out[s][1] = Cardinality(Pieces(SubSeq(content[f], 1, n)))
=============================================================================
