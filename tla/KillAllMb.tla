------------------------------ MODULE KillAllMb ------------------------------
(***************************************************************************)
(* src/A3/A3.c, killallmb: a shell walks /proc and sends SIGTERM to every  *)
(* process that runs minibash on another terminal.  Composed with the text *)
(* operators: the shells it ends may be inside one, inside killallmb       *)
(* themselves, or have a child that has not exec'd yet and so is minibash  *)
(* too, on another terminal as soon as its stdin is redirected.            *)
(***************************************************************************)
EXTENDS TxtFiles

CONSTANTS
    Terminals,  \* those the shells may run on
    Places      \* the stdins tried: a terminal or "file" for each shell

\* A process of /proc: a shell, or the child of a shell's "cmd < file".
Shell(s) == <<s, "shell">>
Child(s) == <<s, "child">>
Procs == {Shell(s) : s \in Shells} \union {Child(s) : s \in Shells}

VARIABLES
    exe,        \* of each process: "minibash", "other" after exec, "none" if gone
    fd0,        \* what its stdin is
    pending,    \* the processes SIGTERM was sent to that have not ended yet
    todo,       \* killallmb: the processes not looked at yet
    who,        \* and the one that has passed the first, or both, tests
    victims,    \* ghost: whom it has signalled
    foes, spare \* ghost: those it is for and those it is not, when it started

procs == <<exe, fd0, pending>>
killer == <<todo, who, victims, foes, spare>>
vars == <<texts, procs, killer>>

Nobody == <<"none">>
Gone(p) == exe[p] = "none"
OnTerminal(p) == fd0[p] \in Terminals
ForAll(v) == [s \in Shells |-> v]

Init ==
    /\ TextInit
    /\ \E place \in Places :
         fd0 = [p \in Procs |-> IF p[2] = "shell" THEN place[p[1]] ELSE "file"]
    /\ exe = [p \in Procs |-> IF p[2] = "shell" THEN "minibash" ELSE "none"]
    /\ pending = {}
    /\ todo = ForAll({}) /\ who = ForAll(Nobody) /\ victims = ForAll({})
    /\ foes = ForAll({}) /\ spare = ForAll({})

Does(s, from, to) ==
    /\ Goes(s, from, to)
    /\ UNCHANGED <<content, line, buffers, out, next, rc, openFaults, closeFaults, began>>
-----------------------------------------------------------------------------
(* killallmb.                                                              *)

\* Whom killallmb is for, and not for, as it starts.
Begins(s) ==
    LET mine == fd0[Shell(s)]
        others == {Shell(q) : q \in Shells \ {s}} IN
    /\ foes' = [foes EXCEPT ![s] =
          IF OnTerminal(Shell(s)) THEN {p \in others : ~ Gone(p) /\ fd0[p] # mine} ELSE {}]
    /\ spare' = [spare EXCEPT ![s] =
          IF OnTerminal(Shell(s))
          THEN {Shell(s)} \union {p \in others : fd0[p] = mine} \union {p \in Procs : exe[p] = "other"}
          ELSE Procs]

\* opendir and readdir: the pids there are.
OpenProc(s) ==
    /\ line[s].op = "killallmb" /\ Does(s, "prompt", "scan") /\ Begins(s)
    /\ todo' = [todo EXCEPT ![s] = {p \in Procs : ~ Gone(p)} \ {Shell(s)}]
    /\ UNCHANGED <<procs, who, victims>>

\* opendir fails: killallmb returns -1.
ProcUnopened(s) ==
    /\ line[s].op = "killallmb" /\ Fails(s, "prompt") /\ Begins(s)
    /\ openFaults > 0 /\ openFaults' = openFaults - 1
    /\ UNCHANGED <<content, line, buffers, out, next, closeFaults, began, procs, todo, who, victims>>

\* is_same_executable_as_self: the two links of exe, of a process that may be gone.
is_same_executable_as_self(s, p) == exe[p] = exe[Shell(s)]

\* Variant: the terminal of every process counts as another one.
is_on_different_terminal_from_self_always(s, p) == ~ Gone(p)

\* is_on_different_terminal_from_self: no, when this shell has no terminal itself or
\* the other process has ended.
is_on_different_terminal_from_self(s, p) ==
    OnTerminal(Shell(s)) /\ ~ Gone(p) /\ fd0[p] # fd0[Shell(s)]

\* Variant: the first process that is no minibash ends the loop.
Test_exe_breaks(s, p) ==
    /\ p \in todo[s] /\ Does(s, "scan", IF is_same_executable_as_self(s, p) THEN "tty" ELSE "done")
    /\ todo' = [todo EXCEPT ![s] = @ \ {p}] /\ who' = [who EXCEPT ![s] = p]
    /\ UNCHANGED <<procs, victims, foes, spare>>

Test_exe(s, p) ==
    /\ p \in todo[s] /\ Does(s, "scan", IF is_same_executable_as_self(s, p) THEN "tty" ELSE "scan")
    /\ todo' = [todo EXCEPT ![s] = @ \ {p}] /\ who' = [who EXCEPT ![s] = p]
    /\ UNCHANGED <<procs, victims, foes, spare>>

Test_tty(s) ==
    /\ Does(s, "tty", IF is_on_different_terminal_from_self(s, who[s]) THEN "kill" ELSE "scan")
    /\ UNCHANGED <<procs, killer>>

\* kill: nothing if the process has ended meanwhile.
Kill(s) ==
    /\ Does(s, "kill", "scan")
    /\ IF Gone(who[s]) THEN UNCHANGED <<pending, victims>>
       ELSE pending' = pending \union {who[s]} /\ victims' = [victims EXCEPT ![s] = @ \union {who[s]}]
    /\ UNCHANGED <<exe, fd0, todo, who, foes, spare>>

Scanned(s) ==
    /\ todo[s] = {} /\ Does(s, "scan", "done")
    /\ UNCHANGED <<procs, killer>>

signal_other_minibash_instances(s) ==
    \/ OpenProc(s) \/ ProcUnopened(s) \/ Test_tty(s) \/ Kill(s) \/ Scanned(s)
    \/ \E p \in todo[s] : Test_exe(s, p)
-----------------------------------------------------------------------------
(* run_cmd of "cmd < file".  The child's stdin is the shell's until dup2.   *)

Forks(s) ==
    /\ line[s].op = "run" /\ Does(s, "prompt", "wait")
    /\ exe' = [exe EXCEPT ![Child(s)] = "minibash"]
    /\ fd0' = [fd0 EXCEPT ![Child(s)] = fd0[Shell(s)]]
    /\ UNCHANGED <<pending, killer>>

Dup2(s) ==
    /\ exe[Child(s)] = "minibash" /\ fd0[Child(s)] # "file"
    /\ fd0' = [fd0 EXCEPT ![Child(s)] = "file"]
    /\ UNCHANGED <<texts, exe, pending, killer>>

Exec(s) ==
    /\ exe[Child(s)] = "minibash" /\ fd0[Child(s)] = "file"
    /\ exe' = [exe EXCEPT ![Child(s)] = "other"]
    /\ UNCHANGED <<texts, fd0, pending, killer>>

Exits(s) ==
    /\ exe[Child(s)] = "other"
    /\ exe' = [exe EXCEPT ![Child(s)] = "none"] /\ pending' = pending \ {Child(s)}
    /\ UNCHANGED <<texts, fd0, killer>>

Waited(s) ==
    /\ Gone(Child(s)) /\ Does(s, "wait", "done")
    /\ UNCHANGED <<procs, killer>>
-----------------------------------------------------------------------------
\* SIGTERM ends the process it is pending for, wherever that is.
Terminated(p) ==
    /\ p \in pending /\ pending' = pending \ {p}
    /\ exe' = [exe EXCEPT ![p] = "none"]
    /\ UNCHANGED <<texts, fd0, killer>>

Runs(s) ==
    /\ ~ Gone(Shell(s))
    /\ \/ Text(s) /\ UNCHANGED <<procs, killer>>
       \/ signal_other_minibash_instances(s)
       \/ Forks(s) \/ Waited(s)
Next == \/ \E s \in Shells : Runs(s) \/ Dup2(s) \/ Exec(s) \/ Exits(s)
        \/ \E p \in Procs : Terminated(p)
Spec == Init /\ [][Next]_vars
-----------------------------------------------------------------------------
\* killallmb ends no shell on its own terminal, its own least of all, nor a command
\* that had been exec'd before it began; from a shell that has no terminal it ends
\* nothing.  That a process execs between the two tests and the signal is not
\* excluded (signal_other_minibash_instances).
KillallSpares == \A s \in Shells : victims[s] \intersect spare[s] = {}

\* When the killallmb of a shell that has a terminal returns 0, every shell that ran on
\* another terminal, or on none, when it began has ended or is about to: whatever they
\* were doing, killallmb too.  From a shell without a terminal it reaches nobody, and
\* when /proc cannot be opened it returns -1 (signal_other_minibash_instances).
KillallReaches ==
    \A s \in Shells : Returned(s, "killallmb") =>
        \A p \in foes[s] : Gone(p) \/ p \in pending
=============================================================================
