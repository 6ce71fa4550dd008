------------------------------ MODULE StopRing ------------------------------
(***************************************************************************)
(* src/labs/lab7.c: five processes that take turns.  Each stops itself     *)
(* with SIGSTOP; the one whose turn it is prints, sleeps, sends SIGCONT to *)
(* the next and stops.  A SIGCONT that comes before the SIGSTOP it is      *)
(* meant to undo has no effect.                                            *)
(*                                                                         *)
(* Only the sleeps keep the two in order.  In a timely behaviour they do:  *)
(* a sleep is longer than whatever the others do without sleeping.         *)
(***************************************************************************)
EXTENDS Naturals

Proc == {"Main", "C1", "GC1", "C2", "GC2"}
\* Whom a process resumes.
Successor == [p \in Proc |-> CASE p = "GC1" -> "C1" [] p = "C1" -> "Main"
                               [] p = "Main" -> "C2" [] p = "C2" -> "GC2"
                               [] OTHER -> "GC1"]
\* Whose child a process is.
Parent == [C1 |-> "Main", C2 |-> "Main", GC1 |-> "C1", GC2 |-> "C2"]

VARIABLES
    pc,     \* "unborn", "fork", "write", "nap", "stop", "stopped", "read",
            \* "say", "asleep", "signal"
    pipe,   \* GC1's pid: not yet written ("empty"), in the pipe or taken
    said,   \* who printed last
    timely  \* are the sleeps long enough?
ring == <<pc, pipe, said, timely>>

RingInit ==
    /\ pc = [p \in Proc |-> IF p = "Main" THEN "fork" ELSE "unborn"]
    /\ pipe = "empty" /\ said = "nobody" /\ timely \in BOOLEAN

Goes(p, from, to) == pc[p] = from /\ pc' = [pc EXCEPT ![p] = to]

Unborn(p) == {q \in DOMAIN Parent : Parent[q] = p /\ pc[q] = "unborn"}

\* A process forks its children, Main forks C1 first.
Forks(p) ==
    /\ pc[p] = "fork"
    /\ \E q \in Unborn(p) : /\ q = "C2" => "C1" \notin Unborn(p)
                            /\ pc' = [pc EXCEPT ![q] = "fork"]
    /\ UNCHANGED <<pipe, said, timely>>
\* Then GC1 goes on to write its pid, the others stop.
Forked(p) == /\ Unborn(p) = {} /\ Goes(p, "fork", IF p = "GC1" THEN "write" ELSE "stop")
             /\ UNCHANGED <<pipe, said, timely>>
WritesPid(p) == Goes(p, "write", "nap") /\ pipe' = "full" /\ UNCHANGED <<said, timely>>

\* kill(getpid(), SIGSTOP).
Stops(p) == Goes(p, "stop", "stopped") /\ UNCHANGED <<pipe, said, timely>>

\* GC2's first turn.
ReadsPid(p) == /\ pipe = "full" /\ Goes(p, "read", "say")
               /\ pipe' = "taken" /\ UNCHANGED <<said, timely>>

Says(p) == Goes(p, "say", "asleep") /\ said' = p /\ UNCHANGED <<pipe, timely>>

Busy(p) == pc[p] \in {"fork", "write", "stop", "read", "say", "signal"}
Wakes(p) ==
    /\ timely => \A q \in Proc : ~ Busy(q)
    /\ Goes(p, "asleep", "signal") \/ Goes(p, "nap", "say")
    /\ UNCHANGED <<pipe, said, timely>>

\* kill(q, SIGCONT) does nothing to a process that is not stopped.
Resumed(q) == IF pc[q] # "stopped" THEN pc[q]
              ELSE IF q = "GC2" /\ pipe # "taken" THEN "read" ELSE "say"

\* Variant: Main resumes C1 instead of C2.
ResumesBack(p) == IF p = "Main" THEN "C1" ELSE Successor[p]

Signals_back(p) ==
    /\ pc[p] = "signal"
    /\ pc' = [pc EXCEPT ![p] = "stop", ![ResumesBack(p)] = Resumed(ResumesBack(p))]
    /\ UNCHANGED <<pipe, said, timely>>

\* The turn is passed on.
Signals(p) ==
    /\ pc[p] = "signal"
    /\ pc' = [pc EXCEPT ![p] = "stop", ![Successor[p]] = Resumed(Successor[p])]
    /\ UNCHANGED <<pipe, said, timely>>

Step(p) == \/ Forks(p) \/ Forked(p) \/ WritesPid(p) \/ Stops(p) \/ ReadsPid(p)
           \/ Says(p) \/ Wakes(p) \/ Signals(p)

-----------------------------------------------------------------------------
\* GC1 prints first, and after a process the one it resumes (lab7.c 54, 88,
\* 107, 142, 163), however the processes are scheduled.
InRingOrder ==
    [][said' # said => said' = IF said = "nobody" THEN "GC1" ELSE Successor[said]]_ring

\* If the sleeps are long enough, no SIGCONT is lost and everybody gets a turn
\* again and again ("Stop again and wait for the next round", lab7.c 61, 114).
\* Otherwise one lost SIGCONT leaves all five stopped.
KeepsGoing == \A p \in Proc : []<>(timely => said = p)
=============================================================================
