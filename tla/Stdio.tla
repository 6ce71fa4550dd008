-------------------------------- MODULE Stdio --------------------------------
(***************************************************************************)
(* src/A3/A3.c, main: the loop that prompts, reads a line and runs it, and *)
(* the two stdio buffers it shares with the children it forks.             *)
(*                                                                         *)
(* stdin is a FILE over a descriptor whose offset parent and children      *)
(* share; the FILE itself, with what it has read ahead, is copied by fork. *)
(* A child whose redirection or exec fails calls exit(), which writes out  *)
(* its copy of the shell's unwritten output and, where stdin can seek,     *)
(* moves the shared offset back by what its copy of stdin had not used.    *)
(* An exec throws both copies away.                                        *)
(*                                                                         *)
(* A line is a sequence of cells: commands joined by ";", blanks, and at   *)
(* its end NL.  A buffer or the limit of a line may end between any two.   *)
(* Programs do not read the shell's stdin, and what a line prints fits in  *)
(* the buffer.                                                             *)
(***************************************************************************)
EXTENDS Integers, SequencesExt

CONSTANTS
    Scripts,        \* what stdin holds, the inputs tried
    MAX_LINE,       \* fgets reads at most MAX_LINE - 1 cells
    BufSize,        \* cells stdin reads ahead from a file
    MaxRuns         \* bound: how many lines are run

NL == "\n"
\* Builtins that print a line; `+` of a text without a newline at its end; killmb.
Printing == {"print", "print part", "exit"}
\* Commands whose exec fails, and where they are redirected or run.
Failing == {"bad", "bad <", "bad >", "bad &"}
Working == {"good", "good &"}
Background == {"bad &", "good &"}
Commands == Printing \union Failing \union Working
\* "wrong": what the lexer or the parser refuses.
Cells == Commands \union {" ", "wrong", NL}

ASSUME StdioAssumption ==
    /\ Scripts \subseteq Seq(Cells)
    /\ MAX_LINE \in Nat \ {0, 1} /\ BufSize \in Nat \ {0} /\ MaxRuns \in Nat

VARIABLES
    script, seekable,   \* stdin: its content; is it a file?
    tty,                \* is stdout a terminal, and so line buffered?
    offset,             \* of the open file, shared with the children
    unread, eof,        \* stdin: what was read ahead, was its end seen?
    pc, line,           \* where main is, and what fgets has read
    ran, next,          \* the lines run so far, the command of the last that is next
    out, shown,         \* stdout: unwritten and written items <<line, command>>
    kids,               \* forked and not yet ended
    rewound             \* ghost: was the offset ever moved back?

input == <<script, seekable, tty>>
in == <<offset, unread, eof>>
vars == <<input, in, pc, line, ran, next, out, shown, kids, rewound>>

Init ==
    /\ script \in Scripts /\ seekable \in BOOLEAN /\ tty \in BOOLEAN
    /\ offset = 0 /\ unread = <<>> /\ eof = FALSE
    /\ pc = "prompt" /\ line = <<>> /\ ran = <<>> /\ next = 1
    /\ out = <<>> /\ shown = <<>> /\ kids = {} /\ rewound = FALSE

Goes(from, to) == pc = from /\ pc' = to
-----------------------------------------------------------------------------
(* Reading.                                                                *)

\* Variant: the prompt is not flushed.
Prompt_unflushed ==
    /\ Goes("prompt", "fgets") /\ line' = <<>>
    /\ IF tty THEN shown' = shown \o out /\ out' = <<>> ELSE UNCHANGED <<shown, out>>
    /\ UNCHANGED <<input, in, ran, next, kids, rewound>>

\* printf of the prompt and fflush.
Prompt ==
    /\ Goes("prompt", "fgets") /\ line' = <<>>
    /\ shown' = shown \o out /\ out' = <<>>
    /\ UNCHANGED <<input, in, ran, next, kids, rewound>>

Reading == pc \in {"fgets", "discard"}

\* stdin's buffer is filled: from a file as far as it goes, from a terminal or a pipe
\* with as much as has come.  An end once seen stays.
Fill ==
    /\ Reading /\ unread = <<>> /\ ~ eof
    /\ LET left == Len(script) - offset IN
       \E n \in IF seekable \/ left = 0 THEN {IF left < BufSize THEN left ELSE BufSize}
                ELSE 1 .. left :
         /\ unread' = SubSeq(script, offset + 1, offset + n)
         /\ offset' = offset + n
         /\ eof' = (n = 0)
    /\ UNCHANGED <<input, pc, line, ran, next, out, shown, kids, rewound>>

Uses == unread # <<>> /\ unread' = Tail(unread)
Quiet == UNCHANGED <<input, offset, eof, ran, next, out, shown, kids, rewound>>

\* fgets: up to a newline, the limit or the end of the input.
fgets ==
    /\ pc = "fgets" /\ Uses
    /\ line' = Append(line, Head(unread))
    /\ pc' = IF Head(unread) = NL \/ Len(line') = MAX_LINE - 1 THEN "check" ELSE "fgets"
    /\ Quiet
fgets_at_end ==
    /\ Goes("fgets", IF line = <<>> THEN "done" ELSE "check") /\ eof /\ unread = <<>>
    /\ UNCHANGED <<line, unread>> /\ Quiet

discard_rest_of_line ==
    /\ pc = "discard"
    /\ \/ Uses /\ pc' = IF Head(unread) = NL THEN "prompt" ELSE "discard"
       \/ eof /\ unread = <<>> /\ pc' = "prompt" /\ UNCHANGED unread
    /\ UNCHANGED line /\ Quiet

Blanks == {" ", NL}

\* Without the leading and the trailing blanks.
trim_inplace(l) ==
    LET kept == {i \in DOMAIN l : l[i] \notin Blanks} IN
    IF kept = {} THEN <<>> ELSE SubSeq(l, Min(kept), Max(kept))

\* do_lex passes over the blanks that are left.
do_lex(l) ==
    LET kept[i \in 0 .. Len(l)] ==
          IF i = 0 THEN <<>>
          ELSE IF l[i] \in Blanks THEN kept[i - 1] ELSE Append(kept[i - 1], l[i])
    IN  kept[Len(l)]

\* Variant: a line without newline is reported, but the rest of it stays.
Check_keeps_rest ==
    /\ pc = "check"
    /\ LET l == trim_inplace(line) IN
       IF ~ Contains(line, NL) \/ l = <<>> \/ Contains(l, "wrong")
       THEN pc' = "prompt" /\ UNCHANGED <<ran, next>>
       ELSE pc' = "run" /\ ran' = Append(ran, do_lex(l)) /\ next' = 1 /\ Len(ran) < MaxRuns
    /\ UNCHANGED <<input, in, line, out, shown, kids, rewound>>

\* What main does with what it has read: report and discard, report, or run.
Check ==
    /\ pc = "check"
    /\ LET l == trim_inplace(line) IN
       IF ~ Contains(line, NL) THEN pc' = "discard" /\ UNCHANGED <<ran, next>>
       ELSE IF l = <<>> \/ Contains(l, "wrong") THEN pc' = "prompt" /\ UNCHANGED <<ran, next>>
       ELSE pc' = "run" /\ ran' = Append(ran, do_lex(l)) /\ next' = 1 /\ Len(ran) < MaxRuns
    /\ UNCHANGED <<input, in, line, out, shown, kids, rewound>>
-----------------------------------------------------------------------------
(* Running a line.                                                         *)

command == Last(ran)[next]
Item == <<Len(ran), next>>
More == pc = "run" /\ next =< Len(Last(ran))
EndsInNewline(i) == ran[i[1]][i[2]] # "print part"

\* On a terminal the newline writes out all there is.
printf ==
    IF tty /\ EndsInNewline(Item) THEN shown' = Append(shown \o out, Item) /\ out' = <<>>
    ELSE out' = Append(out, Item) /\ UNCHANGED shown

Builtin ==
    /\ More /\ command \in {"print", "print part"} /\ printf
    /\ next' = next + 1
    /\ UNCHANGED <<input, in, pc, line, ran, kids, rewound>>

\* killmb: exit(0) writes out what was printed.
killmb ==
    /\ More /\ command = "exit" /\ pc' = "done"
    /\ shown' = shown \o Append(out, Item) /\ out' = <<>>
    /\ UNCHANGED <<input, in, line, ran, next, kids, rewound>>

\* run_cmd: the child has copies of both buffers; a parent that does not wait prints
\* its pid.
run_cmd ==
    /\ More /\ command \in Failing \union Working
    /\ kids' = kids \union {[id |-> Item, cmd |-> command, ahead |-> Len(unread), out |-> out]}
    /\ IF command \in Background
       THEN printf /\ next' = next + 1 /\ UNCHANGED pc
       ELSE pc' = "wait" /\ UNCHANGED <<out, shown, next>>
    /\ UNCHANGED <<input, in, line, ran, rewound>>

Waited ==
    /\ Goes("wait", "run") /\ \A k \in kids : k.id # Item
    /\ next' = next + 1
    /\ UNCHANGED <<input, in, line, ran, out, shown, kids, rewound>>

\* do_execute has returned.
LineEnds ==
    /\ Goes("run", "prompt") /\ next > Len(Last(ran))
    /\ UNCHANGED <<input, in, line, ran, next, out, shown, kids, rewound>>

\* A child that has exec'd owes the shell nothing any more.
Execs(k) ==
    /\ k.cmd \in Working /\ kids' = kids \ {k}
    /\ UNCHANGED <<input, in, pc, line, ran, next, out, shown, rewound>>

\* exit() in a child that has not.  lseek is relative to the offset as it is now, and
\* refuses to go before the start; a redirected stdin is another file, and a redirected
\* stdout takes what was unwritten with it.
Exits(k) ==
    /\ k.cmd \in Failing /\ kids' = kids \ {k}
    /\ shown' = IF k.cmd = "bad >" THEN shown ELSE shown \o k.out
    /\ IF seekable /\ k.cmd # "bad <" /\ k.ahead \in 1 .. offset
       THEN offset' = offset - k.ahead /\ rewound' = TRUE
       ELSE UNCHANGED <<offset, rewound>>
    /\ UNCHANGED <<input, unread, eof, pc, line, ran, next, out>>

Next == \/ Prompt \/ Fill \/ fgets \/ fgets_at_end \/ discard_rest_of_line \/ Check
        \/ Builtin \/ killmb \/ run_cmd \/ Waited \/ LineEnds
        \/ \E k \in kids : Execs(k) \/ Exits(k)
Spec == Init /\ [][Next]_vars
-----------------------------------------------------------------------------
\* The lines of the script that end in a newline within the limit and have commands.
NLs == {i \in DOMAIN script : script[i] = NL}
LineAt(i) == SubSeq(script, 1 + Max({0} \union {j \in NLs : j < i}), i)
GoodLine(l) == Len(l) < MAX_LINE /\ trim_inplace(l) # <<>> /\ ~ Contains(l, "wrong")
GoodEnds == {i \in NLs : GoodLine(LineAt(i))}
GoodUpTo(i) == Cardinality({j \in GoodEnds : j =< i})
LinesToRun ==
    [n \in 1 .. Cardinality(GoodEnds) |->
        do_lex(trim_inplace(LineAt(CHOOSE i \in GoodEnds : GoodUpTo(i) = n)))]

\* As long as no child has moved the shared offset back, the shell runs the lines of
\* its input once each and in order, but for those that are too long, have no newline
\* or are refused; and when it ends by itself it has run them all (main).
LinesRunOnce ==
    ~ rewound => /\ IsPrefix(ran, LinesToRun)
                 /\ pc = "done" => ran = LinesToRun \/ Contains(Last(ran), "exit")

\* Commands behind a printed item in its line that copy it, and those that take it away.
Copying(i) == {j \in DOMAIN ran[i[1]] : /\ j > i[2] /\ <<i[1], j>> \notin {k.id : k \in kids}
                                        /\ ran[i[1]][j] \in Failing \ {"bad >"}}
Times(i) == Cardinality({n \in DOMAIN shown : shown[n] = i})
PrintedBy(l) == {<<l, j>> : j \in {k \in DOMAIN ran[l] : ran[l][k] \in Printing \union Background}}

\* When the shell reads its next line, whatever the lines before it printed is out:
\* on a terminal each whole line once, otherwise once more for each command behind it
\* on its own line whose exec has failed, and never for one of a later line (the
\* fflush of main, the exit(123) of run_cmd).
PrintedOnce ==
    pc = "fgets" =>
        \A l \in DOMAIN ran : \A i \in PrintedBy(l) :
            IF ~ tty THEN Times(i) = 1 + Cardinality(Copying(i))
            ELSE IF EndsInNewline(i) THEN Times(i) = 1
            ELSE Times(i) \in 1 .. 1 + Cardinality(Copying(i))
=============================================================================
