---------------------------- MODULE ProcToolProofs ---------------------------
(* A proof about ProcTool: any number of processes, options and steps of    *)
(* other processes.                                                        *)
EXTENDS ProcTool, FiniteSetTheorems, TLAPS, WellFoundedInduction, NaturalsInduction

\* Those that collect processes and then use what they have found.
Collecting == Reports \union OnFamily \union OnSiblings \union {"bcp", "bop"}

\* Every process, and every parent, has a pid that was given out.
KernelInv ==
    /\ ps \in [Pid -> {"free", "run", "stop", "zombie"}]
    /\ ppid \in [Pid -> 0 .. NPid] /\ start \in [Pid -> 0 .. NPid]
    /\ bash \in [Pid -> BOOLEAN]
    /\ used \subseteq Pid /\ 1 \in used
    /\ \A p \in Pid : (InProc(p) => p \in used) /\ (ppid[p] > 0 => ppid[p] \in used)

\* Which option is where, and that every pid the tool has was given out.
PlaceInv ==
    /\ opt \in Options
    /\ pc = "hop" => Hops(opt) > 0
    /\ pc \in {"isbash", "up", "findbash", "comm", "nextbash", "open", "next", "climb",
              "stat", "status", "use", "signal"} => opt \in Collecting
    /\ root \in used /\ target \in used /\ me \in used /\ cur \in used
    /\ todo \subseteq used
    /\ pc \in {"climb", "stat", "status"} => who \in used

\* p is no bash, or has become one only since it was forked, or is gone for good.
NoBash(p) == p \in used /\ (~ bash[p] \/ p \in turned \/ ps[p] = "free")

\* What the tool takes for no bash is none.
BashInv ==
    /\ pc = "status" => rec \in Proc /\ rec.pid = who
    /\ list \subseteq Proc
    /\ \A r \in list : ~ r.bash => NoBash(r.pid)
    /\ pc = "signal1" => NoBash(cur)

Inv == KernelInv /\ PlaceInv /\ BashInv /\ SparesBash
-----------------------------------------------------------------------------
\* The first of some pids is one of them.
LEMMA FirstBy ==
  ASSUME NEW R, IsWellFoundedOn(R, Nat), \A x, y \in Nat : y < x => <<y, x>> \in R,
         NEW S, S \subseteq Nat, S # {}
  PROVE First(S) \in S /\ \A y \in S : First(S) =< y
  <1>1. PICK x \in S : \A y \in S : ~ (<<y, x>> \in R)
    BY WFMin
  <1>2. \A y \in S : ~ (y < x)
    BY <1>1
  <1>3. \A y \in S : x =< y
    BY <1>2
  <1> QED
    BY <1>3 DEF First

LEMMA FirstIn ==
  ASSUME NEW S, S \subseteq Nat, S # {}
  PROVE First(S) \in S /\ \A y \in S : First(S) =< y
  <1>1. \A x, y \in Nat : y < x => <<y, x>> \in OpToRel(<, Nat)
    BY DEF OpToRel
  <1> QED
    BY <1>1, NatLessThanWellFounded, FirstBy

LEMMA InitWithInv ==
  ASSUME NEW n \in Pid, NEW options, options \subseteq Options, InitWith(n, options)
  PROVE Inv
  <1> USE ToolAssumption
  <1>1. n \in Nat /\ n =< NPid /\ n >= 1 /\ NPid \in Nat /\ Pid = 1 .. NPid
    BY DEF Pid
  <1>2. used = 1 .. n /\ used \subseteq Pid
    BY <1>1 DEF InitWith
  <1>3. PICK stopped \in SUBSET (2 .. n \ {me}) :
          ps = [p \in Pid |-> IF p > n THEN "free" ELSE IF p \in stopped THEN "stop" ELSE "run"]
    BY DEF InitWith
  <1>4. ps \in [Pid -> {"free", "run", "stop", "zombie"}]
    BY <1>3
  <1>5. \A p \in Pid : p > n => ps[p] = "free"
    BY <1>3
  <1>6. /\ ppid \in [Pid -> 0 .. NPid]
        /\ \A p \in Pid : IF p = 1 \/ p > n THEN ppid[p] = 0 ELSE ppid[p] \in 1 .. p - 1
    BY DEF InitWith, Trees
  <1>7. start \in [Pid -> 0 .. NPid]
    <2>1. \A p \in Pid : p \div 2 \in 0 .. NPid
      BY <1>1
    <2> QED
      BY <2>1 DEF InitWith
  <1>8. PICK B \in SUBSET (2 .. n \ {me}) : bash = [p \in Pid |-> p \in B]
    BY DEF InitWith
  <1>9. bash \in [Pid -> BOOLEAN]
    BY <1>8
  <1>10. \A p \in Pid : (InProc(p) => p \in used) /\ (ppid[p] > 0 => ppid[p] \in used)
    BY <1>1, <1>2, <1>5, <1>6, SMTT(30) DEF InProc
  <1>11. KernelInv
    BY <1>1, <1>2, <1>4, <1>6, <1>7, <1>9, <1>10 DEF KernelInv
  <1>12. opt \in Options /\ pc \in {"isbash", "findbash", "check"} /\ todo = {}
    BY DEF InitWith
  <1>13. root \in used /\ target \in used /\ me \in used /\ cur \in used
    BY <1>1, <1>2 DEF InitWith
  <1>14. PlaceInv
    BY <1>12, <1>13 DEF PlaceInv, Collecting, InitWith
  <1>15. BashInv /\ SparesBash
    BY <1>12 DEF InitWith, BashInv, SparesBash
  <1> QED
    BY <1>11, <1>14, <1>15 DEF Inv

LEMMA InitInv == Init => Inv
  <1>1. Quiet \in Pid /\ Busy \in Pid
    BY ToolAssumption DEF Pid
  <1>2. QuietOptions \subseteq Options /\ BusyOptions \subseteq Options
    BY ToolAssumption
  <1> QED
    BY <1>1, <1>2, InitWithInv DEF Init
-----------------------------------------------------------------------------
(* Other processes.                                                        *)

\* As long as no pid is given out twice, they make no bash of what is none but by exec.
LEMMA OthersKept ==
  ASSUME ~ Reuse, Inv, Others PROVE Inv'
  <1> USE ToolAssumption DEF Inv, KernelInv
  <1> PICK p \in Pid : OtherExits(p) \/ Reaped(p) \/ BecomesBash(p) \/ \E q \in Pid : Forks(q, p)
    BY DEF Others
  <1>1. UNCHANGED <<opt, root, target, me, pc, cur, todo, who, rec, list, hitBash>>
    BY DEF OtherExits, Reaped, BecomesBash, Forks, Event, tool, args, walk, scan, ghost
  <1>2. 1 \in Pid /\ NPid \in 0 .. NPid /\ 0 \in 0 .. NPid /\ \A q \in Pid : q \in 0 .. NPid /\ q > 0
    BY DEF Pid
  <1>3. /\ KernelInv' /\ used \subseteq used' /\ turned \subseteq turned'
        /\ \A q \in used : NoBash(q) => NoBash(q)'
    <2>1. CASE OtherExits(p)
      <3>1. /\ ps' = [ps EXCEPT ![p] = "zombie"] /\ ps[p] # "free"
            /\ UNCHANGED <<start, bash, used, turned>>
        BY <2>1 DEF OtherExits, Ends, Alive, ghost
      <3>2. ppid' = [q \in Pid |-> IF ppid[q] = p THEN 1 ELSE ppid[q]]
        BY <2>1 DEF OtherExits, Ends, Orphaned
      <3>3. ppid' \in [Pid -> 0 .. NPid]
        BY <3>2, <1>2
      <3>4. \A q \in Pid : ppid'[q] > 0 => ppid'[q] \in used
        BY <3>2, <1>2
      <3> QED
        BY <3>1, <3>3, <3>4 DEF InProc, NoBash
    <2>2. CASE Reaped(p)
      <3>1. /\ ps' = [ps EXCEPT ![p] = "free"] /\ ppid' = [ppid EXCEPT ![p] = 0]
            /\ UNCHANGED <<start, bash, used, turned>>
        BY <2>2 DEF Reaped, ghost
      <3> QED
        BY <3>1, <1>2 DEF InProc, NoBash
    <2>3. CASE BecomesBash(p)
      <3>1. /\ bash' = [bash EXCEPT ![p] = TRUE] /\ turned' = turned \union {p}
            /\ UNCHANGED <<ps, ppid, start, used>>
        BY <2>3 DEF BecomesBash
      <3> QED
        BY <3>1 DEF InProc, NoBash
    <2>4. CASE \E q \in Pid : Forks(q, p)
      <3>1. PICK q \in Pid : Forks(q, p)
        BY <2>4
      <3>2. /\ ps[q] = "run" /\ p \notin used
            /\ ps' = [ps EXCEPT ![p] = "run"] /\ ppid' = [ppid EXCEPT ![p] = q]
            /\ start' = [start EXCEPT ![p] = NPid] /\ bash' = [bash EXCEPT ![p] = bash[q]]
            /\ used' = used \union {p} /\ UNCHANGED turned
        BY <3>1 DEF Forks
      <3>3. q \in used
        BY <3>2 DEF InProc
      <3> QED
        BY <3>2, <3>3, <1>2 DEF InProc, NoBash
    <2> QED
      BY <2>1, <2>2, <2>3, <2>4
  <1>4. PlaceInv'
    BY <1>1, <1>3 DEF PlaceInv
  <1>5. BashInv'
    BY <1>1, <1>3 DEF BashInv, NoBash
  <1>6. SparesBash'
    BY <1>1, <1>3 DEF SparesBash
  <1> QED
    BY <1>3, <1>4, <1>5, <1>6
-----------------------------------------------------------------------------
(* The tool reads.                                                         *)

LEMMA ReadKept ==
  ASSUME Inv, Reads, UNCHANGED <<left, used, args>>
  PROVE /\ KernelInv' /\ SparesBash'
        /\ \A p : NoBash(p) => NoBash(p)'
  BY DEF Inv, Reads, args, kernel, ghost, KernelInv, SparesBash, NoBash, InProc

LEMMA CheckRootKept ==
  ASSUME Inv, CheckRoot PROVE Inv'
  <1> USE DEF Inv, CheckRoot, At, Goto, args, scan
  <1>1. KernelInv' /\ SparesBash' /\ \A p : NoBash(p) => NoBash(p)'
    BY ReadKept
  <1>2. cur' \in used
    BY DEF KernelInv, PlaceInv
  <1>3. pc' \in {"done", "single", "hop", "open", "check"}
        /\ (pc' = "hop" => Hops(opt) > 0) /\ (pc' = "open" => opt \in Collecting)
    <2>1. Dispatch \in {"done", "single", "hop", "open"}
          /\ (Dispatch = "hop" => Hops(opt) > 0) /\ (Dispatch = "open" => opt \in Collecting)
      BY DEF Dispatch, Hops, PlaceInv, Options, Collecting, Reports, OnFamily, OnSiblings, OnOne
    <2> QED
      BY <2>1
  <1>4. PlaceInv'
    BY <1>2, <1>3 DEF PlaceInv
  <1>5. BashInv'
    BY <1>1, <1>3 DEF BashInv
  <1> QED
    BY <1>1, <1>4, <1>5

LEMMA HopKept ==
  ASSUME Inv, Hop PROVE Inv'
  <1> USE DEF Inv, Hop, At, Goto, args, walk, scan
  <1>1. KernelInv' /\ SparesBash' /\ \A p : NoBash(p) => NoBash(p)'
    BY ReadKept
  <1>2. cur' \in used
    BY DEF KernelInv, PlaceInv
  <1>3. /\ pc' \in {"hop", "single", "open", "done"}
        /\ pc' = "open" => opt \notin OnOne
    OBVIOUS
  <1>4. Hops(opt) > 0 /\ opt \in Options
    BY DEF PlaceInv
  <1>5. opt \in Collecting \union OnOne
    BY <1>4 DEF Hops, Options, Collecting, OnFamily, OnSiblings, OnOne, Reports
  <1>6. PlaceInv'
    BY <1>2, <1>3, <1>4, <1>5 DEF PlaceInv
  <1>7. BashInv'
    BY <1>1, <1>3 DEF BashInv
  <1> QED
    BY <1>1, <1>6, <1>7

LEMMA SingleKept ==
  ASSUME Inv, Single PROVE Inv'
  <1> USE DEF Inv, Single, At, Goto, args, walk, scan
  <1>1. KernelInv' /\ SparesBash' /\ \A p : NoBash(p) => NoBash(p)'
    BY ReadKept
  <1>2. PlaceInv'
    BY DEF PlaceInv
  <1>3. pc' = "signal1" => NoBash(cur)
    BY DEF NoBash, InProc, PlaceInv
  <1>4. BashInv'
    BY <1>1, <1>3 DEF BashInv
  <1> QED
    BY <1>1, <1>2, <1>4

LEMMA WalksKept ==
  ASSUME Inv, IsBash \/ Up \/ FindBash \/ Comm \/ NextBash \/ Open \/ OpenFails \/ NextPid \/ Climb
  PROVE Inv'
  <1> USE DEF Inv, At, Goto, args, walk, scan, bop
  <1>1. KernelInv' /\ SparesBash' /\ \A p : NoBash(p) => NoBash(p)'
    BY ReadKept DEF IsBash, Up, FindBash, Comm, NextBash, Open, OpenFails, NextPid, Climb, ClimbWith
  <1>2. opt \in Collecting /\ opt' = opt
    BY DEF IsBash, Up, FindBash, Comm, NextBash, Open, OpenFails, NextPid, Climb, ClimbWith, PlaceInv
  <1>3. todo' \subseteq used /\ cur' \in used /\ (pc' \in {"climb", "stat", "status"} => who' \in used)
    <2>1. CASE IsBash \/ Up \/ NextBash \/ Climb
      BY <2>1 DEF IsBash, Up, NextBash, Climb, ClimbWith, KernelInv, PlaceInv
    <2>2. CASE FindBash \/ Open \/ OpenFails
      BY <2>2 DEF FindBash, Open, OpenFails, KernelInv, PlaceInv
    <2>3. CASE Comm
      BY <2>3 DEF Comm, PlaceInv
    <2>4. CASE NextPid
      <3>1. todo \subseteq Nat
        BY ToolAssumption DEF PlaceInv, KernelInv, Pid
      <3>2. todo # {} => First(todo) \in used
        BY <3>1, FirstIn DEF PlaceInv
      <3> QED
        BY <2>4, <3>2 DEF NextPid, PlaceInv
    <2> QED
      BY <2>1, <2>2, <2>3, <2>4
  <1>4. list' \in {list, {}} /\ pc' \in {"open", "up", "isbash", "done", "comm", "nextbash", "next",
                                        "use", "stat", "climb", "failed"}
    BY DEF IsBash, Up, FindBash, Comm, NextBash, Open, OpenFails, NextPid, Climb, ClimbWith
  <1>5. UNCHANGED <<root, target, me, used>>
    BY DEF IsBash, Up, FindBash, Comm, NextBash, Open, OpenFails, NextPid, Climb, ClimbWith
  <1>6. PlaceInv'
    BY <1>2, <1>3, <1>4, <1>5 DEF PlaceInv
  <1>7. BashInv'
    BY <1>1, <1>4 DEF BashInv
  <1> QED
    BY <1>1, <1>6, <1>7

LEMMA StatKept ==
  ASSUME Inv, Stat PROVE Inv'
  <1> USE DEF Inv, Stat, At, Goto, args, walk, scan
  <1>1. KernelInv' /\ SparesBash' /\ \A p : NoBash(p) => NoBash(p)'
    BY ReadKept
  <1>2. PlaceInv'
    BY DEF PlaceInv
  <1>3. who \in Pid
    BY DEF PlaceInv, KernelInv
  <1>4. ASSUME InProc(who) PROVE rec' \in Proc /\ rec'.pid = who
    <2>1. /\ ps[who] \in {"run", "stop", "zombie"} /\ ppid[who] \in 0 .. NPid
          /\ start[who] \in 0 .. NPid /\ Cpu[who] \in Nat /\ -1 \in Int
      BY <1>3, <1>4, ToolAssumption DEF KernelInv, InProc
    <2>2. rec' = [pid |-> who, ppid |-> ppid[who], state |-> ps[who], start |-> start[who],
                  cpu |-> Cpu[who], bash |-> FALSE, rss |-> -1]
      BY <1>4
    <2> QED
      BY <1>3, <2>1, <2>2, SMTT(60) DEF Proc
  <1>5. BashInv'
    BY <1>1, <1>4 DEF BashInv
  <1> QED
    BY <1>1, <1>2, <1>5

LEMMA StatusKept ==
  ASSUME Inv, Status PROVE Inv'
  <1> USE DEF Inv, Status, At, Goto, args, walk, scan
  <1>1. KernelInv' /\ SparesBash' /\ \A p : NoBash(p) => NoBash(p)'
    BY ReadKept
  <1>2. PlaceInv'
    BY DEF PlaceInv
  <1>3. who \in used /\ who \in Pid /\ rec \in Proc /\ rec.pid = who
    BY DEF PlaceInv, KernelInv, BashInv
  <1> DEFINE r == [rec EXCEPT !.bash = InProc(who) /\ bash[who],
                              !.rss = IF Alive(who) THEN Rss[who] ELSE -1]
  <1>4. r.pid = who /\ r.bash = (InProc(who) /\ bash[who])
    BY <1>3 DEF Proc
  <1>5. r \in Proc
    <2>1. (InProc(who) /\ bash[who]) \in BOOLEAN
      OBVIOUS
    <2>2. (IF Alive(who) THEN Rss[who] ELSE -1) \in Int
      BY <1>3, ToolAssumption
    <2> QED
      BY <1>3, <2>1, <2>2 DEF Proc
  <1>6. ~ r.bash => NoBash(r.pid)
    BY <1>3, <1>4 DEF NoBash, InProc
  <1>7. list' \in {list, list \union {r}} /\ pc' = "next"
    OBVIOUS
  <1> HIDE DEF r
  <1>8. list' \subseteq Proc /\ \A x \in list' : ~ x.bash => NoBash(x.pid)
    BY <1>5, <1>6, <1>7 DEF BashInv
  <1>9. BashInv'
    BY <1>1, <1>7, <1>8 DEF BashInv
  <1> QED
    BY <1>1, <1>2, <1>9
-----------------------------------------------------------------------------
(* The tool uses what it has read.                                         *)

LEMMA UseListKept ==
  ASSUME Inv, UseList PROVE Inv'
  <1> USE DEF Inv, UseList, At, Goto, args, walk, scan
  <1>1. KernelInv' /\ SparesBash' /\ \A p : NoBash(p) => NoBash(p)'
    BY ReadKept
  <1>2. opt \in Collecting
    BY DEF PlaceInv
  <1>3. ASSUME opt \notin Reports \union {"bcp", "bop"} PROVE Victims \subseteq list
    <2>1. opt \in OnFamily \union OnSiblings
      BY <1>2, <1>3 DEF Collecting
    <2> QED
      BY <2>1 DEF OnFamily, OnSiblings, Victims, opt_dtm, opt_kcp, opt_kgc, opt_sst, opt_sco,
                  opt_ksp, opt_kps, ChildrenIn
  <1>4. list' \subseteq list /\ pc' \in {"done", "nextbash", "signal"}
    BY <1>3
  <1>5. PlaceInv'
    BY <1>2, <1>4 DEF PlaceInv
  <1>6. BashInv'
    BY <1>1, <1>4 DEF BashInv
  <1> QED
    BY <1>1, <1>5, <1>6

\* A signal to what is no bash: a process that ends may free a pid, no more.
LEMMA SignalKept ==
  ASSUME Inv, NEW p, NoBash(p), Signalled(p), UNCHANGED used
  PROVE /\ KernelInv' /\ SparesBash'
        /\ \A q : NoBash(q) => NoBash(q)'
  <1> USE DEF Inv
  <1>1. p \in used /\ p \in Pid /\ 1 \in 0 .. NPid
    BY ToolAssumption DEF NoBash, KernelInv, Pid
  <1>2. UNCHANGED <<start, bash, turned>>
    BY DEF Signalled
  <1>3. /\ ps' \in [Pid -> {"free", "run", "stop", "zombie"}]
        /\ \A q \in Pid : ps'[q] = "free" <=> ps[q] = "free"
    BY <1>1 DEF Signalled, Ends, Alive, KernelInv
  <1>4. /\ ppid' \in [Pid -> 0 .. NPid]
        /\ \A q \in Pid : ppid'[q] \in {ppid[q], 1}
    BY <1>1 DEF Signalled, Ends, Orphaned, KernelInv
  <1>5. KernelInv'
    BY <1>2, <1>3, <1>4 DEF KernelInv, InProc
  <1>6. \A q : NoBash(q) => NoBash(q)'
    BY <1>2, <1>3 DEF NoBash, KernelInv
  <1>7. Alive(p) /\ bash[p] => p \in turned
    BY DEF NoBash, Alive
  <1>8. SparesBash'
    BY <1>2, <1>7 DEF Signalled, SparesBash
  <1> QED
    BY <1>5, <1>6, <1>8

LEMMA SignalOneKept ==
  ASSUME Inv, SignalOne PROVE Inv'
  <1> USE DEF Inv, SignalOne, At, Goto, args, walk, scan
  <1>1. NoBash(cur)
    BY DEF BashInv
  <1>2. KernelInv' /\ SparesBash' /\ \A q : NoBash(q) => NoBash(q)'
    BY <1>1, SignalKept
  <1>3. PlaceInv' /\ BashInv'
    BY <1>2 DEF PlaceInv, BashInv
  <1> QED
    BY <1>2, <1>3

LEMMA SignalNextKept ==
  ASSUME Inv, SignalNext PROVE Inv'
  <1> USE DEF Inv, SignalNext, SignalWith, At, Goto, args, walk, scan
  <1>1. KernelInv' /\ SparesBash' /\ \A q : NoBash(q) => NoBash(q)'
    <2>1. CASE Reads
      BY <2>1, ReadKept
    <2>2. ASSUME NEW r \in list, ~ r.bash, Signalled(r.pid) PROVE <1>1
      BY <2>2, SignalKept DEF BashInv
    <2> QED
      BY <2>1, <2>2
  <1>2. list' \subseteq list /\ pc' \in {"done", "signal"}
    OBVIOUS
  <1>3. PlaceInv'
    BY <1>2 DEF PlaceInv
  <1>4. BashInv'
    BY <1>1, <1>2 DEF BashInv
  <1> QED
    BY <1>1, <1>3, <1>4
-----------------------------------------------------------------------------
LEMMA StepInv ==
  ASSUME ~ Reuse, Inv, [Next]_vars PROVE Inv'
  <1>1. CASE Tool
    BY <1>1, CheckRootKept, HopKept, SingleKept, WalksKept, StatKept, StatusKept, UseListKept,
       SignalOneKept, SignalNextKept DEF Tool
  <1>2. CASE Others
    BY <1>2, OthersKept
  <1>3. CASE UNCHANGED vars
    BY <1>3 DEF vars, kernel, args, walk, scan, bop, ghost, Inv, KernelInv, PlaceInv, BashInv,
                SparesBash, NoBash, InProc
  <1> QED
    BY <1>1, <1>2, <1>3 DEF Next

\* Whatever the other processes do between the read that found a process to be no
\* bash and the signal, the tool signals no process that was bash from its start:
\* for every number of processes, every tree, every option.  Pids are not reused.
THEOREM SparesBashCorrect ==
  ASSUME ~ Reuse PROVE Spec => []SparesBash
  <1>1. Inv => SparesBash
    BY DEF Inv
  <1>2. Inv /\ [Next]_vars => Inv'
    BY StepInv
  <1> QED
    BY <1>1, <1>2, InitInv, PTL DEF Spec
-----------------------------------------------------------------------------
(* The tree of processes: what is below a process.                         *)

Procs == {p \in Pid : InProc(p)}

LEMMA BelowClosed ==
  ASSUME NEW b \in Pid, NEW procs \in SUBSET Pid, NEW parent, NEW p \in procs,
         parent[p] \in Below(b, procs, parent) \union {b}
  PROVE p \in Below(b, procs, parent) \union {b}
  <1> SUFFICES ASSUME p # b, NEW S \in SUBSET Pid, b \in S,
                      \A q \in procs : parent[q] \in S => q \in S
               PROVE p \in S
    BY DEF Below
  <1>1. parent[p] \in S
    BY DEF Below
  <1> QED
    BY <1>1

LEMMA BelowLeast ==
  ASSUME NEW b \in Pid, NEW procs \in SUBSET Pid, NEW parent, NEW S \in SUBSET Pid, b \in S,
         \A q \in procs : parent[q] \in S => q \in S
  PROVE Below(b, procs, parent) \subseteq S
  BY DEF Below

\* What is below b in one table of parents is below b in a second, or new, if no
\* process loses its place from the one to the other.
LEMMA BelowWithin ==
  ASSUME NEW b \in Pid, NEW procs \in SUBSET Pid, NEW parent,
         NEW procs2 \in SUBSET Pid, NEW parent2, NEW new,
         \A q \in procs : q # b /\ parent[q] \in Below(b, procs2, parent2) \union {b} \union new
                             => q \in Below(b, procs2, parent2) \union new
  PROVE Below(b, procs, parent) \subseteq Below(b, procs2, parent2) \union new
  <1> DEFINE S == (Below(b, procs2, parent2) \union {b} \union new) \intersect Pid
  <1>1. S \in SUBSET Pid /\ b \in S
    OBVIOUS
  <1>2. \A q \in procs : parent[q] \in S => q \in S
    OBVIOUS
  <1>3. Below(b, procs, parent) \subseteq S
    BY <1>1, <1>2, BelowLeast
  <1>4. b \notin Below(b, procs, parent)
    BY DEF Below
  <1> QED
    BY <1>3, <1>4

\* Every process hangs below init, which does not end; nothing hangs below a zombie.
TreeInv ==
    /\ ps[1] = "run" /\ ppid[1] = 0
    /\ \A p \in Procs : ppid[p] > 0 => Alive(ppid[p])
    /\ Procs \ {1} \subseteq Descendants(1)

LEMMA InitTree == Init => TreeInv
  <1> SUFFICES ASSUME NEW n \in Pid, NEW options, InitWith(n, options) PROVE TreeInv
    <2>1. Quiet \in Pid /\ Busy \in Pid
      BY ToolAssumption DEF Pid
    <2> QED
      BY <2>1 DEF Init
  <1>1. n \in Nat /\ n =< NPid /\ n >= 1 /\ NPid \in Nat /\ Pid = 1 .. NPid
    BY ToolAssumption DEF Pid
  <1>2. PICK stopped \in SUBSET (2 .. n \ {me}) :
          ps = [p \in Pid |-> IF p > n THEN "free" ELSE IF p \in stopped THEN "stop" ELSE "run"]
    BY DEF InitWith
  <1>3. /\ ppid \in [Pid -> 0 .. NPid]
        /\ \A p \in Pid : IF p = 1 \/ p > n THEN ppid[p] = 0 ELSE ppid[p] \in 1 .. p - 1
    BY DEF InitWith, Trees
  <1>4. ps[1] = "run" /\ ppid[1] = 0
    BY <1>1, <1>2, <1>3
  <1>5. \A p \in 1 .. n : Alive(p)
    BY <1>1, <1>2 DEF Alive
  <1>6. Procs = 1 .. n
    BY <1>1, <1>2 DEF Procs, InProc
  <1>7. \A p \in Procs : ppid[p] > 0 => Alive(ppid[p])
    BY <1>1, <1>3, <1>5, <1>6
  <1>8. ASSUME NEW S \in SUBSET Pid, 1 \in S, \A q \in Procs : ppid[q] \in S => q \in S
        PROVE 1 .. n \subseteq S
    <2> DEFINE T == {p \in 1 .. n : p \notin S}
    <2> SUFFICES ASSUME T # {} PROVE FALSE
      OBVIOUS
    <2>1. T \subseteq Nat
      BY <1>1
    <2>2. PICK m \in T : \A q \in T : m =< q
      BY <2>1, FirstIn
    <2>3. m # 1 /\ ppid[m] \in 1 .. n /\ ppid[m] < m
      BY <1>1, <1>3, <1>8, <2>2
    <2>4. ppid[m] \notin T
      BY <1>1, <2>2, <2>3
    <2> QED
      BY <1>6, <1>8, <2>2, <2>3, <2>4
  <1>9. Procs \ {1} \subseteq Descendants(1)
    BY <1>1, <1>6, <1>8 DEF Descendants, Below, Procs
  <1> QED
    BY <1>4, <1>7, <1>9 DEF TreeInv

\* Nothing but new processes gets below target, and those are remembered.
TreeKept ==
    /\ TreeInv'
    /\ Descendants(target)' \subseteq Descendants(target) \union (used' \ used)
    /\ Descendants(target) \subseteq ever => Descendants(target)' \subseteq ever'
    /\ ever \intersect used \subseteq ever'

\* The children of a process that ends go to init.
LEMMA EndsTree ==
  ASSUME KernelInv, TreeInv, NEW p \in Pid, p # 1, Alive(p), Ends(p), NEW b \in Pid
  PROVE TreeInv' /\ Descendants(b)' \subseteq Descendants(b)
  <1>1. /\ ps' = [ps EXCEPT ![p] = "zombie"]
        /\ ppid' = [q \in Pid |-> IF ppid[q] = p THEN 1 ELSE ppid[q]]
    BY DEF Ends, Orphaned
  <1>2. 1 \in Pid /\ NPid \in Nat /\ Pid = 1 .. NPid
    BY ToolAssumption DEF Pid
  <1>3. Procs' = Procs
    BY <1>1 DEF Procs, InProc, Alive, KernelInv
  <1>4. ps'[1] = "run" /\ ppid'[1] = 0
    BY <1>1, <1>2 DEF TreeInv, KernelInv
  <1>5. \A q \in Procs : ppid'[q] > 0 => Alive(ppid[q])'
    <2> SUFFICES ASSUME NEW q \in Procs, ppid'[q] > 0 PROVE Alive(ppid[q])'
      OBVIOUS
    <2>1. CASE ppid[q] = p
      BY <1>1, <1>4, <2>1 DEF Alive, Procs
    <2>2. CASE ppid[q] # p
      <3>1. ppid'[q] = ppid[q] /\ ppid[q] \in Pid
        BY <1>1, <1>2, <2>2 DEF KernelInv, Procs
      <3>2. Alive(ppid[q])
        BY <3>1 DEF TreeInv
      <3> QED
        BY <1>1, <2>2, <3>1, <3>2 DEF Alive, KernelInv
    <2> QED
      BY <2>1, <2>2
  <1>6. Procs \in SUBSET Pid
    BY DEF Procs
  <1>7. Descendants(1) \subseteq Descendants(1)'
    <2>1. ASSUME NEW q \in Procs, q # 1, ppid[q] \in Below(1, Procs, ppid') \union {1} \union {}
          PROVE q \in Below(1, Procs, ppid') \union {}
      <3>1. ppid'[q] \in Below(1, Procs, ppid') \union {1}
        BY <1>1, <2>1 DEF Procs
      <3> QED
        BY <1>2, <1>6, <2>1, <3>1, BelowClosed
    <2>2. Below(1, Procs, ppid) \subseteq Below(1, Procs, ppid') \union {}
      BY <1>2, <1>6, <2>1, BelowWithin
    <2> QED
      BY <1>3, <2>2 DEF Descendants, Procs
  <1>8. TreeInv'
    BY <1>3, <1>4, <1>5, <1>7 DEF TreeInv
  <1>9. Below(b, Procs, ppid') \subseteq Below(b, Procs, ppid) \union {}
    <2>1. ASSUME NEW q \in Procs, q # b, ppid'[q] \in Below(b, Procs, ppid) \union {b} \union {}
          PROVE q \in Below(b, Procs, ppid) \union {}
      <3>1. CASE ppid'[q] = ppid[q]
        BY <1>6, <2>1, <3>1, BelowClosed
      <3>2. CASE ppid'[q] # ppid[q]
        <4>1. ppid'[q] = 1 /\ q # 1
          BY <1>1, <1>4, <3>2 DEF Procs, TreeInv
        <4>2. ASSUME b # 1 PROVE 1 \notin Below(b, Procs, ppid)
          <5> DEFINE S == Pid \ {1}
          <5>1. S \in SUBSET Pid /\ b \in S /\ \A r \in Procs : ppid[r] \in S => r \in S
            BY <1>2, <1>6, <4>2 DEF TreeInv
          <5> HIDE DEF S
          <5>2. Below(b, Procs, ppid) \subseteq S
            BY <1>6, <5>1, BelowLeast
          <5> QED
            BY <5>2 DEF S
        <4>3. b = 1
          BY <2>1, <4>1, <4>2
        <4> QED
          BY <4>1, <4>3 DEF TreeInv, Descendants, Procs
      <3> QED
        BY <3>1, <3>2
    <2> QED
      BY <1>6, <2>1, BelowWithin
  <1> QED
    BY <1>3, <1>8, <1>9 DEF Descendants, Procs

\* A zombie has no children, so that nothing moves when it goes.
LEMMA ReapedTree ==
  ASSUME KernelInv, TreeInv, NEW p \in Pid, Reaped(p), NEW b \in Pid
  PROVE TreeInv' /\ Descendants(b)' \subseteq Descendants(b)
  <1>1. ps[p] = "zombie" /\ ps' = [ps EXCEPT ![p] = "free"] /\ ppid' = [ppid EXCEPT ![p] = 0]
    BY DEF Reaped
  <1>2. 1 \in Pid /\ NPid \in Nat /\ Pid = 1 .. NPid
    BY ToolAssumption DEF Pid
  <1>3. Procs' = Procs \ {p} /\ Procs \in SUBSET Pid /\ Procs' \in SUBSET Pid
    BY <1>1 DEF Procs, InProc, KernelInv
  <1>4. ps'[1] = "run" /\ ppid'[1] = 0 /\ p # 1
    BY <1>1, <1>2 DEF TreeInv, KernelInv
  <1>5. \A q \in Procs : ppid[q] # p
    <2>1. ~ Alive(p) /\ p > 0
      BY <1>1, <1>2 DEF Alive
    <2> QED
      BY <2>1 DEF TreeInv
  <1>6. \A q \in Procs' : ppid'[q] = ppid[q]
    BY <1>1, <1>3 DEF KernelInv
  <1>7. \A q \in Procs' : ppid'[q] > 0 => Alive(ppid[q])'
    <2> SUFFICES ASSUME NEW q \in Procs', ppid'[q] > 0 PROVE Alive(ppid[q])'
      OBVIOUS
    <2>1. ppid'[q] = ppid[q] /\ ppid[q] \in Pid /\ ppid[q] # p /\ Alive(ppid[q])
      BY <1>2, <1>3, <1>5, <1>6 DEF TreeInv, KernelInv
    <2> QED
      BY <1>1, <2>1 DEF Alive, KernelInv
  <1>8. Below(1, Procs, ppid) \subseteq Below(1, Procs', ppid') \union {p}
    <2>1. ASSUME NEW q \in Procs, q # 1, ppid[q] \in Below(1, Procs', ppid') \union {1} \union {p}
          PROVE q \in Below(1, Procs', ppid') \union {p}
      BY <1>2, <1>3, <1>5, <1>6, <2>1, BelowClosed
    <2> DEFINE new == {p}
    <2>2. \A q \in Procs : q # 1 /\ ppid[q] \in Below(1, Procs', ppid') \union {1} \union new
                           => q \in Below(1, Procs', ppid') \union new
      BY <2>1
    <2> HIDE DEF new
    <2>3. Below(1, Procs, ppid) \subseteq Below(1, Procs', ppid') \union new
      BY <1>2, <1>3, <2>2, BelowWithin
    <2> QED
      BY <2>3 DEF new
  <1>9. TreeInv'
    BY <1>3, <1>4, <1>7, <1>8 DEF TreeInv, Descendants, Procs
  <1>10. Below(b, Procs', ppid') \subseteq Below(b, Procs, ppid) \union {}
    <2>1. ASSUME NEW q \in Procs', q # b, ppid'[q] \in Below(b, Procs, ppid) \union {b} \union {}
          PROVE q \in Below(b, Procs, ppid) \union {}
      BY <1>3, <1>6, <2>1, BelowClosed
    <2> QED
      BY <1>3, <2>1, BelowWithin
  <1> QED
    BY <1>9, <1>10 DEF Descendants, Procs

LEMMA BelowProcs ==
  ASSUME NEW b \in Pid, NEW procs \in SUBSET Pid, NEW parent
  PROVE Below(b, procs, parent) \subseteq procs
  <1> DEFINE S == procs \union {b}
  <1>1. S \in SUBSET Pid /\ b \in S /\ \A q \in procs : parent[q] \in S => q \in S
    OBVIOUS
  <1> HIDE DEF S
  <1>2. Below(b, procs, parent) \subseteq S
    BY <1>1, BelowLeast
  <1>3. b \notin Below(b, procs, parent)
    BY DEF Below
  <1> QED
    BY <1>2, <1>3 DEF S

\* A new process is below b only if its parent is b or below it.
LEMMA ForksTree ==
  ASSUME KernelInv, TreeInv, NEW q \in Pid, NEW p \in Pid, p \notin used, ps[q] = "run",
         ps' = [ps EXCEPT ![p] = "run"], ppid' = [ppid EXCEPT ![p] = q], NEW b \in Pid
  PROVE /\ TreeInv'
        /\ Descendants(b)' \subseteq Descendants(b) \union {p}
        /\ p \in Descendants(b)' => q \in Descendants(b) \union {b}
  <1>1. 1 \in Pid /\ NPid \in Nat /\ Pid = 1 .. NPid
    BY ToolAssumption DEF Pid
  <1>2. p \notin Procs /\ q \in Procs /\ q # p /\ p # 1
    BY DEF Procs, InProc, KernelInv
  <1>3. Procs' = Procs \union {p} /\ Procs \in SUBSET Pid /\ Procs' \in SUBSET Pid
    BY DEF Procs, InProc, KernelInv
  <1>4. ppid'[p] = q /\ \A r \in Procs : ppid'[r] = ppid[r] /\ ppid[r] # p
    BY <1>1, <1>2, <1>3 DEF KernelInv
  <1>5. ps'[1] = "run" /\ ppid'[1] = 0
    BY <1>1, <1>2 DEF TreeInv, KernelInv
  <1>6. \A r \in Procs' : ppid'[r] > 0 => Alive(ppid[r])' /\ TRUE
    <2> SUFFICES ASSUME NEW r \in Procs', ppid'[r] > 0 PROVE Alive(ppid[r])'
      OBVIOUS
    <2>1. CASE r = p
      BY <1>2, <1>4, <2>1 DEF Alive, KernelInv
    <2>2. CASE r # p
      <3>1. r \in Procs /\ ppid'[r] = ppid[r] /\ ppid[r] \in Pid /\ ppid[r] # p
        BY <1>1, <1>3, <1>4, <2>2 DEF KernelInv
      <3>2. Alive(ppid[r])
        BY <3>1 DEF TreeInv
      <3> QED
        BY <3>1, <3>2 DEF Alive, KernelInv
    <2> QED
      BY <2>1, <2>2
  <1>7. Below(1, Procs, ppid) \subseteq Below(1, Procs', ppid') \union {}
    <2>1. ASSUME NEW r \in Procs, r # 1, ppid[r] \in Below(1, Procs', ppid') \union {1} \union {}
          PROVE r \in Below(1, Procs', ppid') \union {}
      <3>1. r \in Procs' /\ ppid'[r] \in Below(1, Procs', ppid') \union {1}
        BY <1>3, <1>4, <2>1
      <3>2. Procs' \in SUBSET Pid
        BY <1>3
      <3> QED
        BY <1>1, <2>1, <3>1, <3>2, BelowClosed
    <2> QED
      BY <1>1, <1>3, <2>1, BelowWithin
  <1>8. p \in Below(1, Procs', ppid')
    <2>1. ppid'[p] \in Below(1, Procs', ppid') \union {1}
      BY <1>2, <1>4, <1>7 DEF TreeInv, Descendants, Procs
    <2>2. p \in Procs'
      BY <1>3
    <2> QED
      BY <1>1, <1>2, <1>3, <2>1, <2>2, BelowClosed
  <1>9. TreeInv'
    <2>1. Procs' \ {1} \subseteq Below(1, Procs', ppid')
      BY <1>3, <1>7, <1>8 DEF TreeInv, Descendants, Procs
    <2> QED
      BY <1>5, <1>6, <2>1 DEF TreeInv, Descendants, Procs
  <1> DEFINE new == {r \in {p} : q \in Below(b, Procs, ppid) \union {b}}
  <1>10. Below(b, Procs', ppid') \subseteq Below(b, Procs, ppid) \union new
    <2>1. \A r \in Procs' : r # b /\ ppid'[r] \in Below(b, Procs, ppid) \union {b} \union new
                            => r \in Below(b, Procs, ppid) \union new
      <3> SUFFICES ASSUME NEW r \in Procs', r # b,
                          ppid'[r] \in Below(b, Procs, ppid) \union {b} \union new
                   PROVE r \in Below(b, Procs, ppid) \union new
        OBVIOUS
      <3>1. CASE r = p
        BY <1>2, <1>4, <3>1
      <3>2. CASE r # p
        <4>1. r \in Procs /\ ppid[r] \in Below(b, Procs, ppid) \union {b}
          BY <1>3, <1>4, <3>2
        <4> QED
          BY <1>3, <4>1, BelowClosed
      <3> QED
        BY <3>1, <3>2
    <2>2. Procs \in SUBSET Pid /\ Procs' \in SUBSET Pid
      BY <1>3
    <2> HIDE DEF new
    <2> QED
      BY <2>1, <2>2, BelowWithin
  <1>11. p \notin Below(b, Procs, ppid)
    BY <1>2, <1>3, BelowProcs
  <1> QED
    BY <1>9, <1>10, <1>11 DEF Descendants, Procs
-----------------------------------------------------------------------------
(* -dtm, -kcp and -kgc signal descendants only.                            *)

LEMMA OthersTree ==
  ASSUME ~ Reuse, Inv, TreeInv, Others
  PROVE TreeKept /\ UNCHANGED <<opt, target, base, pc, cur, who, rec, list, strangers>>
  <1> USE DEF Inv
  <1> PICK p \in Pid : OtherExits(p) \/ Reaped(p) \/ BecomesBash(p) \/ \E q \in Pid : Forks(q, p)
    BY DEF Others
  <1>1. UNCHANGED <<opt, target, base, pc, cur, who, rec, list, strangers>>
    BY DEF OtherExits, Reaped, BecomesBash, Forks, Event, tool, args, walk, scan, ghost
  <1>2. target \in Pid
    BY DEF PlaceInv, KernelInv
  <1>3. CASE OtherExits(p)
    <2>1. UNCHANGED <<used, ever>> /\ p # 1 /\ Alive(p) /\ Ends(p)
      BY <1>3 DEF OtherExits, ghost
    <2>2. TreeInv' /\ \A b \in Pid : Descendants(b)' \subseteq Descendants(b)
      BY <1>2, <2>1, EndsTree
    <2> QED
      BY <1>1, <1>2, <2>1, <2>2 DEF TreeKept, Descendants
  <1>4. CASE Reaped(p)
    <2>1. UNCHANGED <<used, ever>>
      BY <1>4 DEF Reaped, ghost
    <2>2. TreeInv' /\ \A b \in Pid : Descendants(b)' \subseteq Descendants(b)
      BY <1>2, <1>4, ReapedTree
    <2> QED
      BY <1>1, <1>2, <2>1, <2>2 DEF TreeKept, Descendants
  <1>5. CASE BecomesBash(p)
    <2>1. UNCHANGED <<used, ever, ps, ppid, target>>
      BY <1>1, <1>5 DEF BecomesBash
    <2> QED
      BY <1>1, <2>1 DEF TreeKept, TreeInv, Descendants, Procs, InProc, Alive
  <1>6. CASE \E q \in Pid : Forks(q, p)
    <2>1. PICK q \in Pid : Forks(q, p)
      BY <1>6
    <2>2. /\ ps[q] = "run" /\ p \notin used /\ used' = used \union {p}
          /\ ps' = [ps EXCEPT ![p] = "run"] /\ ppid' = [ppid EXCEPT ![p] = q]
          /\ ever' = IF q \in Descendants(target) \union {target}
                     THEN ever \union {p} ELSE ever \ {p}
      BY <2>1 DEF Forks
    <2>3. /\ TreeInv'
          /\ \A b \in Pid : /\ Descendants(b)' \subseteq Descendants(b) \union {p}
                            /\ p \in Descendants(b)' => q \in Descendants(b) \union {b}
      BY <1>2, <2>2, ForksTree
    <2>4. /\ Descendants(target)' \subseteq Descendants(target) \union {p}
          /\ p \in Descendants(target)' => q \in Descendants(target) \union {target}
      BY <1>1, <1>2, <2>3 DEF Descendants
    <2> QED
      BY <1>1, <2>2, <2>3, <2>4 DEF TreeKept
  <1> QED
    BY <1>1, <1>3, <1>4, <1>5, <1>6

\* The tool itself changes the tree by its signals only.
LEMMA SignalledTree ==
  ASSUME Inv, TreeInv, NEW p \in Pid, Signalled(p), UNCHANGED <<used, target>>
  PROVE TreeKept
  <1> USE DEF Inv
  <1>1. target \in Pid /\ UNCHANGED ever
    BY DEF PlaceInv, KernelInv, Signalled
  <1>2. CASE UNCHANGED <<ps, ppid>>
    BY <1>1, <1>2 DEF TreeKept, TreeInv, Descendants, Procs, InProc, Alive
  <1>3. ASSUME p # 1, Alive(p), Ends(p) PROVE TreeKept
    <2>1. TreeInv' /\ \A b \in Pid : Descendants(b)' \subseteq Descendants(b)
      BY <1>3, EndsTree
    <2> QED
      BY <1>1, <2>1 DEF TreeKept, Descendants
  <1>4. ASSUME p # 1, Alive(p), NEW s \in {"run", "stop"}, ps' = [ps EXCEPT ![p] = s],
               UNCHANGED ppid
        PROVE TreeKept
    <2>1. /\ Procs' = Procs
          /\ \A q \in Pid : Alive(q)' <=> Alive(q)
      BY <1>4 DEF Procs, InProc, Alive, KernelInv
    <2>2. \A q \in Procs : ppid[q] > 0 => ppid[q] \in Pid
      BY DEF Procs, KernelInv
    <2>3. TreeInv'
      BY <1>4, <2>1, <2>2 DEF TreeInv, Descendants, Procs, KernelInv
    <2> QED
      BY <1>1, <1>4, <2>1, <2>3 DEF TreeKept, Descendants, Procs
  <1> QED
    BY <1>2, <1>3, <1>4 DEF Signalled

LEMMA ToolTree ==
  ASSUME Inv, TreeInv, Tool PROVE TreeKept /\ UNCHANGED <<used, opt, target>>
  <1>1. UNCHANGED <<used, opt, target>>
    BY DEF Tool, CheckRoot, Hop, Single, IsBash, Up, FindBash, Comm, NextBash, Open, OpenFails, NextPid,
           Climb, ClimbWith, Stat, Status, UseList, SignalOne, SignalNext, SignalWith, At, args
  <1>2. CASE Reads
    BY <1>1, <1>2 DEF Reads, kernel, ghost, TreeKept, TreeInv, Descendants, Procs, InProc, Alive
  <1>3. CASE SignalOne
    <2>1. cur \in Pid /\ Signalled(cur)
      BY <1>3 DEF SignalOne, Inv, PlaceInv, KernelInv
    <2> QED
      BY <1>1, <2>1, SignalledTree
  <1>4. CASE SignalNext /\ ~ Reads
    <2>1. PICK r \in list : Signalled(r.pid)
      BY <1>4 DEF SignalNext, SignalWith
    <2>2. r.pid \in Pid
      BY DEF Inv, BashInv, Proc
    <2> QED
      BY <1>1, <2>1, <2>2, SignalledTree
  <1>5. Reads \/ SignalOne \/ (SignalNext /\ ~ Reads)
    BY DEF Tool, CheckRoot, Hop, Single, IsBash, Up, FindBash, Comm, NextBash, Open, OpenFails, NextPid,
           Climb, ClimbWith, Stat, Status, UseList
  <1> QED
    BY <1>1, <1>2, <1>3, <1>4, <1>5

\* What is to be signalled was below target at some time; the walk up from who has
\* come to a process that, if it is below target, tells that who was.
FamilyInv ==
    /\ strangers = {}
    /\ opt \in OnFamily =>
        /\ base = target
        /\ pc \in {"check", "open", "next", "climb", "stat", "status", "use", "signal", "done",
                   "failed"}
        /\ Descendants(target) \subseteq ever
        /\ \A r \in list : r.pid \in ever \intersect used
        /\ pc = "climb" => cur # target /\ (cur \in Descendants(target) => who \in ever)
        /\ pc \in {"stat", "status"} => who \in ever

LEMMA InitFamily == Init => FamilyInv
  BY DEF Init, InitWith, FamilyInv, OnFamily, Hops

\* What others do changes nothing of it, and neither does a step that leaves the
\* tool's own findings alone.
LEMMA OthersFamily ==
  ASSUME Inv, FamilyInv, TreeKept,
         UNCHANGED <<opt, target, base, pc, cur, who, rec, list, strangers>>,
         used \subseteq used'
  PROVE FamilyInv'
  <1> SUFFICES ASSUME opt \in OnFamily PROVE FamilyInv'
    BY DEF FamilyInv
  <1> USE DEF Inv, FamilyInv
  <1>1. \A p \in used : p \in ever => p \in ever'
    BY DEF TreeKept
  <1>2. Descendants(target)' \subseteq ever'
    BY DEF TreeKept
  <1>3. \A r \in list : r.pid \in ever' \intersect used'
    BY <1>1
  <1>4. pc = "climb" => (cur \in Descendants(target)' => who \in ever')
    BY <1>1 DEF TreeKept, PlaceInv
  <1>5. pc \in {"stat", "status"} => who \in ever'
    BY <1>1 DEF PlaceInv
  <1> QED
    BY <1>2, <1>3, <1>4, <1>5

LEMMA ToolFamily ==
  ASSUME Inv, TreeInv, FamilyInv, Tool, opt \in OnFamily PROVE FamilyInv'
  <1> USE DEF At, Goto, args, walk, scan, bop
  <1>1. /\ pc \in {"check", "open", "next", "climb", "stat", "status", "use", "signal", "done",
                   "failed"}
        /\ base = target /\ target \in Pid /\ Hops(opt) = 0
        /\ opt \notin OnSiblings \union OnOne \union Reports \union {"none", "krp", "bcp", "bop"}
    BY DEF FamilyInv, OnFamily, OnSiblings, OnOne, Reports, Hops, Inv, PlaceInv, KernelInv
  <1>2. TreeKept /\ UNCHANGED <<used, opt, target>>
    BY ToolTree
  <1>3. Descendants(target)' \subseteq ever' /\ \A p \in used : p \in ever => p \in ever'
    BY <1>1, <1>2 DEF TreeKept, FamilyInv
  <1>4. ASSUME Reads PROVE UNCHANGED <<strangers, ever>> /\ Descendants(target)' = Descendants(target)
    BY <1>2, <1>4 DEF Reads, kernel, ghost, Descendants, InProc
  <1>5. CASE CheckRoot \/ Open \/ OpenFails
    <2>1. Dispatch = "open"
      BY <1>1 DEF Dispatch
    <2> QED
      BY <1>1, <1>2, <1>3, <1>4, <1>5, <2>1 DEF CheckRoot, Open, OpenFails, FamilyInv
  <1>6. CASE NextPid
    <2>1. Reads /\ UNCHANGED <<base, list>>
      BY <1>6 DEF NextPid
    <2>2. CASE todo = {}
      BY <1>1, <1>2, <1>3, <1>4, <1>6, <2>1, <2>2 DEF NextPid, FamilyInv
    <2>3. CASE todo # {}
      <3>1. who' = First(todo) /\ cur' = who' /\ pc' = IF who' = target THEN "next" ELSE "climb"
        BY <1>1, <1>6, <2>3 DEF NextPid, Skipped
      <3> QED
        BY <1>1, <1>2, <1>3, <1>4, <2>1, <3>1 DEF FamilyInv
    <2> QED
      BY <2>2, <2>3
  <1>7. CASE Climb
    <2>1. Reads /\ pc = "climb" /\ UNCHANGED <<base, who, list>>
      BY <1>7 DEF Climb, ClimbWith
    <2>2. cur \in Pid /\ cur # target /\ (cur \in Descendants(target) => who \in ever)
      BY <2>1 DEF FamilyInv, Inv, PlaceInv, KernelInv
    <2>3. ASSUME InProc(cur), ppid[cur] \in Descendants(target) \union {target}
          PROVE who \in ever
      <3>1. cur \in Procs /\ Procs \in SUBSET Pid
        BY <2>2, <2>3 DEF Procs
      <3>2. ppid[cur] \in Below(target, Procs, ppid) \union {target}
        BY <2>3 DEF Descendants, Procs
      <3>3. cur \in Below(target, Procs, ppid)
        BY <1>1, <2>2, <3>1, <3>2, BelowClosed
      <3> QED
        BY <2>2, <3>3 DEF Descendants, Procs
    <2>4. \/ pc' = "next"
          \/ pc' = "stat" /\ InProc(cur) /\ ppid[cur] = target
          \/ pc' = "climb" /\ InProc(cur) /\ cur' = ppid[cur] /\ cur' # target
      BY <1>1, <1>7 DEF Climb, ClimbWith
    <2>5. /\ pc' \in {"next", "stat", "climb"}
          /\ pc' = "stat" => who \in ever
          /\ pc' = "climb" => cur' # target /\ (cur' \in Descendants(target) => who \in ever)
      BY <2>3, <2>4
    <2> QED
      BY <1>1, <1>2, <1>3, <1>4, <2>1, <2>5 DEF FamilyInv
  <1>8. CASE Stat
    <2>1. Reads /\ pc = "stat" /\ pc' \in {"next", "status"} /\ UNCHANGED <<base, who, list>>
      BY <1>8 DEF Stat
    <2> QED
      BY <1>1, <1>2, <1>3, <1>4, <2>1 DEF FamilyInv
  <1>9. CASE Status
    <2>1. Reads /\ pc = "status" /\ pc' = "next" /\ UNCHANGED base
      BY <1>9 DEF Status
    <2>2. who \in ever \intersect used /\ rec \in Proc /\ rec.pid = who
      BY <2>1 DEF FamilyInv, Inv, PlaceInv, BashInv
    <2> DEFINE r == [rec EXCEPT !.bash = InProc(who) /\ bash[who],
                                !.rss = IF Alive(who) THEN Rss[who] ELSE -1]
    <2>3. r.pid = who
      BY <2>2 DEF Proc
    <2>4. list' \subseteq list \union {r}
      BY <1>9 DEF Status
    <2> HIDE DEF r
    <2>5. \A q \in list' : q.pid \in ever \intersect used
      BY <2>2, <2>3, <2>4 DEF FamilyInv
    <2> QED
      BY <1>1, <1>2, <1>3, <1>4, <2>1, <2>5 DEF FamilyInv
  <1>10. CASE UseList
    <2>1. Reads /\ pc' = "signal" /\ list' = Victims /\ UNCHANGED base
      BY <1>1, <1>10 DEF UseList
    <2>2. Victims \subseteq list
      BY <1>10 DEF Victims, OnFamily, opt_dtm, opt_kcp, opt_kgc, ChildrenIn
    <2> QED
      BY <1>1, <1>2, <1>3, <1>4, <2>1, <2>2 DEF FamilyInv
  <1>11. CASE SignalNext
    <2>1. pc' \in {"done", "signal"} /\ list' \subseteq list /\ UNCHANGED base
      BY <1>11 DEF SignalNext, SignalWith
    <2>2. strangers' = {}
      <3>1. CASE Reads
        BY <1>4, <3>1 DEF FamilyInv
      <3>2. ASSUME NEW r \in list, Signalled(r.pid) PROVE strangers' = {}
        BY <3>2 DEF Signalled, FamilyInv
      <3> QED
        BY <1>11, <3>1, <3>2 DEF SignalNext, SignalWith
    <2>3. \A r \in list' : r.pid \in ever' \intersect used
      BY <1>3, <2>1 DEF FamilyInv
    <2> QED
      BY <1>1, <1>2, <1>3, <2>1, <2>2, <2>3 DEF FamilyInv
  <1> QED
    BY <1>1, <1>5, <1>6, <1>7, <1>8, <1>9, <1>10, <1>11
       DEF Tool, Hop, Single, IsBash, Up, FindBash, Comm, NextBash, SignalOne

LEMMA StepFamily ==
  ASSUME ~ Reuse, Inv, TreeInv, FamilyInv, [Next]_vars PROVE TreeInv' /\ FamilyInv'
  <1>1. CASE Others
    <2>1. TreeKept /\ UNCHANGED <<opt, target, base, pc, cur, who, rec, list, strangers>>
      BY <1>1, OthersTree
    <2>2. used \subseteq used'
      BY <1>1 DEF Others, OtherExits, Reaped, BecomesBash, Forks
    <2> QED
      BY <2>1, <2>2, OthersFamily DEF TreeKept
  <1>2. CASE Tool
    <2>1. TreeInv' /\ UNCHANGED opt
      BY <1>2, ToolTree DEF TreeKept
    <2>2. CASE opt \in OnFamily
      BY <1>2, <2>1, <2>2, ToolFamily
    <2>3. CASE opt \notin OnFamily
      <3>1. strangers' = strangers
        BY <1>2, <2>3
           DEF Tool, CheckRoot, Hop, Single, IsBash, Up, FindBash, Comm, NextBash, Open, OpenFails, NextPid,
               Climb, ClimbWith, Stat, Status, UseList, SignalOne, SignalNext, SignalWith,
               Signalled, Reads, ghost
      <3> QED
        BY <2>1, <2>3, <3>1 DEF FamilyInv
    <2> QED
      BY <2>1, <2>2, <2>3
  <1>3. CASE UNCHANGED vars
    BY <1>3 DEF vars, kernel, args, walk, scan, bop, ghost, TreeInv, FamilyInv, Descendants,
                Procs, InProc, Alive
  <1> QED
    BY <1>1, <1>2, <1>3 DEF Next

\* However the tree changes while /proc is scanned and the parents are followed, one
\* file at a time, -dtm, -kcp and -kgc signal only processes that were descendants of
\* process_id at some time: for every number of processes, every tree and every order
\* of the steps of the others.  Pids are not reused.
THEOREM FamilyCorrect ==
  ASSUME ~ Reuse PROVE Spec => []KillsOnlyFamily
  <1>1. Init => Inv /\ TreeInv /\ FamilyInv
    BY InitInv, InitTree, InitFamily
  <1>2. Inv /\ TreeInv /\ FamilyInv /\ [Next]_vars => (Inv /\ TreeInv /\ FamilyInv)'
    BY StepInv, StepFamily
  <1>3. FamilyInv => KillsOnlyFamily
    BY DEF FamilyInv, KillsOnlyFamily
  <1> QED
    BY <1>1, <1>2, <1>3, PTL DEF Spec
-----------------------------------------------------------------------------
(* A tree that nobody else changes: what the tool has found so far.        *)

Reporting == Reports \union {"bcp", "bop", "none"}
Scanning  == opt \in Reporting \/ pc \notin {"signal", "done"}
Collects  == {"open", "next", "climb", "stat", "status", "use"}
Under(b)  == Descendants(b) \union {b}
Bashes    == {b \in Pid : bash[b]}
BelowAny(B) == UNION {Descendants(b) : b \in B}

\* As long as nothing is signalled the tree is the one of the start.
StillInv ==
    /\ \A p \in Pid : /\ InProc(p) <=> p =< Quiet
                      /\ InProc(p) => Alive(p)
                      /\ IF p = 1 \/ p > Quiet THEN ppid[p] = 0 ELSE ppid[p] \in 1 .. p - 1
                      /\ start[p] = p \div 2
                      /\ bash[p] => InProc(p) /\ p # 1 /\ p # me
    /\ InProc(root)

\* What is read of a process, at first and when all of it is.
StatOf(p) == [pid |-> p, ppid |-> ppid[p], state |-> ps[p], start |-> start[p],
              cpu |-> Cpu[p], bash |-> FALSE, rss |-> -1]
RecOf(p) == [pid |-> p, ppid |-> ppid[p], state |-> ps[p], start |-> start[p],
             bash |-> bash[p], rss |-> Rss[p], cpu |-> Cpu[p]]

Wanted    == IF opt \in OnSiblings THEN Children(base) \ {prev} ELSE Descendants(base)
BeingRead == IF pc \in {"climb", "stat", "status"} THEN {who} ELSE {}

\* The list has the processes wanted of those that were read.
CollectInv ==
    /\ pc \in {"next", "climb", "stat", "status", "use"} =>
         todo \subseteq Procs /\ list = {RecOf(p) : p \in Wanted \ (todo \union BeingRead)}
    /\ pc = "use" => todo = {}
    /\ pc \in {"climb", "stat", "status"} => who \in Procs \ todo /\ who # Skipped
    /\ pc = "climb" => /\ opt \notin OnSiblings /\ cur \in Procs /\ cur # base
                       /\ who \in Descendants(base) <=> cur \in Descendants(base)
    /\ pc \in {"stat", "status"} /\ opt \notin OnSiblings => who \in Descendants(base)
    /\ pc = "status" => rec = StatOf(who)

\* Where the tool is on its way to the process whose descendants or children it
\* collects.
BaseInv ==
    /\ pc = "check" => /\ opt \notin {"bcp", "bop"}
                       /\ hops = Hops(opt)
                       /\ IF opt \in {"none", "krp"}
                          THEN target \in Under(root) <=> cur \in Under(root)
                          ELSE root = target /\ cur = target
    /\ pc \in {"single", "signal1"} => opt \in OnOne
    /\ pc = "single" => Aim = {cur}
    /\ pc = "signal1" => One = {cur}
    /\ pc = "signal" => opt \in OnFamily \union OnSiblings
    /\ pc = "hop" => \/ hops = Hops(opt) /\ cur = target
                     \/ /\ hops = 1 /\ Hops(opt) = 2
                        /\ ppid[target] >= 1 /\ cur = ppid[target]
    /\ opt \in OnFamily \union Reports => base = target
    /\ pc \in Collects /\ opt \in OnSiblings =>
         /\ prev = IF opt = "kps" THEN ppid[target] ELSE target
         /\ prev \in Pid /\ base = ppid[prev] /\ base >= 1

\* -bcp: every bash above the tool is above, or is, the process looked at.
AncestorInv ==
    /\ pc \in {"isbash", "up"} =>
         /\ opt = "bcp" /\ cur \in Procs /\ me \in Under(cur)
         /\ \A b \in MyBashes : cur \in Descendants(b) \/ (pc = "isbash" /\ cur = b)
    /\ pc \in Collects /\ opt = "bcp" =>
         base \in MyBashes /\ Descendants(base) \intersect MyBashes = {}

\* -bop: all that is below a bash dealt with is in the union.
UnionInv ==
    /\ pc \in {"findbash", "comm", "nextbash"} => opt = "bop"
    /\ pc = "findbash" => bashes = {} /\ all = {}
    /\ pc = "comm" => todo \subseteq Procs /\ bashes = Bashes \ todo /\ all = {}
    /\ pc = "nextbash" => bashes \subseteq Bashes /\ all = BelowAny(Bashes \ bashes)
    /\ pc \in Collects /\ opt = "bop" =>
         /\ bashes \subseteq Bashes /\ base \in Bashes
         /\ all \union Descendants(base) = BelowAny(Bashes \ bashes)

\* -dtm: what is still alive of the subtree, and no bash, is still on the list.
DtmInv ==
    opt = "dtm" =>
      /\ ever \subseteq Pid \ {1}
      /\ \A p \in Procs : /\ ppid[p] < p
                          /\ ppid[p] \in ever => p \in ever
      /\ Scanning => ever = Descendants(target)
      /\ pc = "signal" =>
           /\ \A r \in list : /\ r.pid \in ever /\ r.start = r.pid \div 2
                              /\ r.bash <=> bash[r.pid]
           /\ \A c \in ever : Alive(c) /\ ~ bash[c] => c \in PidsOf(list)

\* What has been printed.
OneDone ==
    \/ out = {} /\ (One = {} \/ ~ Alive(me))
    \/ \E p \in Pid : out = {p} /\ ~ Alive(p)
OutInv ==
    /\ pc # "done" => out = {}
    /\ pc = "done" => IF opt \in OnOne THEN OneDone ELSE out \in Expected
    /\ opt \notin Reporting \union OnOne => out = {}

QuietInv ==
    /\ left = 0
    /\ Scanning => StillInv /\ CollectInv
    /\ BaseInv /\ AncestorInv /\ UnionInv /\ DtmInv
    /\ OutInv

-----------------------------------------------------------------------------
LEMMA BelowParent ==
  ASSUME NEW b \in Pid, NEW procs \in SUBSET Pid, NEW parent, NEW p \in Below(b, procs, parent)
  PROVE p \in procs /\ parent[p] \in Below(b, procs, parent) \union {b}
  <1> DEFINE B == Below(b, procs, parent)
             S == {b} \union {q \in B : parent[q] \in B \union {b}}
  <1>1. B \subseteq procs
    BY BelowProcs
  <1>2. \A q \in procs : parent[q] \in B \union {b} => q \in B \union {b}
    BY BelowClosed
  <1> HIDE DEF B
  <1>3. S \in SUBSET Pid /\ b \in S /\ \A q \in procs : parent[q] \in S => q \in S
    BY <1>1, <1>2
  <1>4. p # b
    BY DEF Below
  <1> HIDE DEF S
  <1>5. B \subseteq S
    BY <1>3, BelowLeast DEF B
  <1> QED
    BY <1>1, <1>4, <1>5 DEF S, B

\* A process is below b if and only if its parent is b or below b.
LEMMA DescendantsStep ==
  ASSUME NEW b \in Pid
  PROVE /\ Descendants(b) \subseteq Procs \ {b}
        /\ \A p \in Procs \ {b} : p \in Descendants(b) <=> ppid[p] \in Under(b)
  <1>1. Procs \in SUBSET Pid /\ Descendants(b) = Below(b, Procs, ppid)
    BY DEF Descendants, Procs
  <1>2. b \notin Below(b, Procs, ppid)
    BY DEF Below
  <1>3. \A p \in Below(b, Procs, ppid) : p \in Procs /\ ppid[p] \in Below(b, Procs, ppid) \union {b}
    BY <1>1, BelowParent
  <1>4. \A p \in Procs : ppid[p] \in Below(b, Procs, ppid) \union {b}
                            => p \in Below(b, Procs, ppid) \union {b}
    BY <1>1, BelowClosed
  <1> QED
    BY <1>1, <1>2, <1>3, <1>4 DEF Under

\* With parents smaller than their children a process is below smaller ones only.
Ordered == \A p \in Procs : ppid[p] < p

LEMMA DescendantsOrder ==
  ASSUME KernelInv, Ordered, NEW b \in Pid, NEW p \in Descendants(b) PROVE b < p
  <1> DEFINE S == {q \in Pid : b =< q}
  <1>1. Procs \in SUBSET Pid /\ Descendants(b) = Below(b, Procs, ppid) /\ Pid \subseteq Nat
    BY ToolAssumption DEF Descendants, Procs, Pid
  <1>2. \A q \in Procs : ppid[q] \in S => q \in S
    <2> SUFFICES ASSUME NEW q \in Procs, ppid[q] \in Pid, b =< ppid[q] PROVE q \in Pid /\ b =< q
      OBVIOUS
    <2>1. ppid[q] \in Nat /\ q \in Nat /\ b \in Nat /\ q \in Pid /\ ppid[q] < q
      BY <1>1 DEF Ordered
    <2> QED
      BY <2>1
  <1>3. S \in SUBSET Pid /\ b \in S
    BY <1>1
  <1> HIDE DEF S
  <1>4. p \in S
    BY <1>1, <1>2, <1>3, BelowLeast
  <1>5. p # b
    BY DescendantsStep
  <1> QED
    BY <1>1, <1>4, <1>5 DEF S

LEMMA DescendantsOver ==
  ASSUME KernelInv, Ordered, NEW a \in Pid, NEW b \in Descendants(a)
  PROVE Descendants(b) \subseteq Descendants(a)
  <1>1. Procs \in SUBSET Pid /\ \A x : Descendants(x) = Below(x, Procs, ppid)
    BY DEF Descendants, Procs
  <1>2. b \in Pid
    BY <1>1, DescendantsStep
  <1> DEFINE S == Descendants(a) \union {a}
  <1>3. S \in SUBSET Pid /\ b \in S /\ \A q \in Procs : ppid[q] \in S => q \in S
    BY <1>1, DescendantsStep DEF Under
  <1> HIDE DEF S
  <1>4. Descendants(b) \subseteq S
    BY <1>1, <1>2, <1>3, BelowLeast
  <1>5. a \notin Descendants(b)
    <2>1. a < b /\ a \in Nat /\ b \in Nat
      BY <1>2, ToolAssumption, DescendantsOrder DEF Pid
    <2>2. a \in Descendants(b) => b < a
      BY <1>2, DescendantsOrder
    <2> QED
      BY <2>1, <2>2
  <1> QED
    BY <1>4, <1>5 DEF S

\* The tree of the start, in the terms of the lemmas above.
LEMMA StillTree ==
  ASSUME KernelInv, StillInv
  PROVE /\ Ordered /\ Procs \subseteq Pid /\ Pid \subseteq Nat /\ IsFiniteSet(Procs)
        /\ 1 \in Procs /\ 0 \notin Pid /\ ppid[1] = 0
        /\ \A p \in Procs : /\ Alive(p) /\ ppid[p] \in Procs \union {0} /\ ppid[p] < p
                            /\ start[p] = p \div 2
                            /\ p # 1 => ppid[p] \in Procs
        /\ \A b \in Pid : 1 \notin Descendants(b)
  <1>1. NPid \in Nat /\ Quiet \in 1 .. NPid /\ Pid = 1 .. NPid
    BY ToolAssumption DEF Pid
  <1>2. Procs = 1 .. Quiet
    BY <1>1 DEF StillInv, Procs
  <1>3. IsFiniteSet(Procs)
    BY <1>1, <1>2, FS_Interval
  <1>4. ppid[1] = 0 /\ 1 \in Pid
    BY <1>1 DEF StillInv
  <1>5. \A p \in Procs : /\ Alive(p) /\ ppid[p] \in Procs \union {0} /\ ppid[p] < p
                         /\ start[p] = p \div 2
                         /\ p # 1 => ppid[p] \in Procs
    <2> TAKE p \in Procs
    <2>1. p \in Pid /\ p =< Quiet /\ p \in Nat /\ p >= 1
      BY <1>1, <1>2
    <2>2. InProc(p) /\ Alive(p) /\ start[p] = p \div 2
      BY <2>1 DEF StillInv
    <2>3. IF p = 1 THEN ppid[p] = 0 ELSE ppid[p] \in 1 .. p - 1
      BY <1>1, <2>1 DEF StillInv
    <2> QED
      BY <1>1, <1>2, <2>1, <2>2, <2>3
  <1>6. Ordered
    BY <1>5 DEF Ordered
  <1>7. \A b \in Pid : 1 \notin Descendants(b)
    BY <1>1, <1>6, DescendantsOrder
  <1> QED
    BY <1>1, <1>2, <1>3, <1>4, <1>5, <1>6, <1>7
-----------------------------------------------------------------------------
(* What an option makes of the list.                                       *)

\* What was read of some processes, for a rigid set of them.
Recs(S) == {RecOf(p) : p \in S}

LEMMA RecFields ==
  ASSUME NEW p
  PROVE /\ RecOf(p).pid = p /\ RecOf(p).ppid = ppid[p] /\ RecOf(p).state = ps[p]
        /\ RecOf(p).start = start[p] /\ RecOf(p).bash = bash[p] /\ RecOf(p).rss = Rss[p]
        /\ RecOf(p).cpu = Cpu[p]
  BY DEF RecOf

LEMMA RecsCount ==
  ASSUME NEW S, IsFiniteSet(S)
  PROVE PidsOf(Recs(S)) = S /\ Cardinality(Recs(S)) = Cardinality(S)
  <1>1. PidsOf(Recs(S)) = S
    BY RecFields DEF PidsOf, Recs
  <1> DEFINE f == [p \in S |-> RecOf(p)]
  <1>2. f \in Bijection(S, Recs(S))
    <2>1. f \in [S -> Recs(S)] /\ \A r \in Recs(S) : \E p \in S : f[p] = r
      BY DEF Recs
    <2>2. \A p, q \in S : f[p] = f[q] => p = q
      <3> SUFFICES ASSUME NEW p \in S, NEW q \in S, RecOf(p) = RecOf(q) PROVE p = q
        OBVIOUS
      <3> QED
        BY RecFields
    <2> HIDE DEF f
    <2> QED
      BY <2>1, <2>2 DEF Bijection, Injection, Surjection, IsInjective
  <1>3. ExistsBijection(S, Recs(S))
    BY <1>2 DEF ExistsBijection
  <1> QED
    BY <1>1, <1>3, FS_Bijection

LEMMA RecsChildren ==
  ASSUME NEW S, S \subseteq Procs PROVE ChildrenIn(Recs(S)) = Recs(S \intersect Children(target))
  <1>1. \A p \in S : RecOf(p).ppid = target <=> p \in Children(target)
    BY RecFields DEF Children, Procs
  <1>2. \A p : RecOf(p) \in Recs(S) <=> p \in S
    BY RecFields DEF Recs
  <1> QED
    BY <1>1, <1>2 DEF ChildrenIn, Recs

\* What an option prints of the records of all descendants is what it is for.
LEMMA CountsExact ==
  ASSUME KernelInv, StillInv, target \in Pid, list = Recs(Descendants(target))
  PROVE /\ opt = "cnt" => Report \in Expected
        /\ opt = "dnd" => Report \in Expected
        /\ opt = "oct" => Report \in Expected
  <1> DEFINE D == Descendants(target)
  <1>1. IsFiniteSet(D) /\ D \subseteq Procs
    BY StillTree, DescendantsStep, FS_Subset
  <1>2. PidsOf(list) = D /\ Cardinality(list) = Cardinality(D)
    BY <1>1, RecsCount
  <1>3. CASE opt = "cnt"
    BY <1>2, <1>3 DEF Report, Expected, Number, opt_cnt
  <1>4. CASE opt = "dnd"
    <2> DEFINE C == D \intersect Children(target)
    <2>1. IsFiniteSet(C) /\ IsFiniteSet(D \ C) /\ Cardinality(C) \in Nat /\ Cardinality(D \ C) \in Nat
      BY <1>1, FS_Subset, FS_CardinalityType
    <2>2. Cardinality(ChildrenIn(list)) = Cardinality(C)
      BY <1>1, <2>1, RecsChildren, RecsCount
    <2>3. (D \ C) \union C = D /\ (D \ C) \intersect C = {} /\ D \ C = D \ Children(target)
      OBVIOUS
    <2>4. Cardinality((D \ C) \union C) =
            Cardinality(D \ C) + Cardinality(C) - Cardinality((D \ C) \intersect C)
      BY <2>1, FS_Union
    <2>5. Cardinality(D) - Cardinality(C) = Cardinality(D \ Children(target))
      <3>1. Cardinality((D \ C) \intersect C) = 0
        BY <2>3, FS_EmptySet
      <3>2. Cardinality(D) = Cardinality(D \ C) + Cardinality(C) - 0
        BY <2>3, <2>4, <3>1
      <3>3. Cardinality(D \ C) = Cardinality(D \ Children(target))
        BY <2>3
      <3> HIDE DEF D, C
      <3> QED
        BY <2>1, <3>2, <3>3
    <2>6. Report = {Cardinality(D \ Children(target))}
      BY <1>2, <1>4, <2>2, <2>5 DEF Report, opt_dnd
    <2> QED
      BY <1>4, <2>6 DEF Expected, Number
  <1>5. CASE opt = "oct"
    <2>1. ASSUME NEW r \in list PROVE r.ppid = target \/ (r.ppid # 1 /\ r.ppid \in PidsOf(list))
      <3>1. PICK p \in D : r = RecOf(p)
        BY DEF Recs
      <3>2. r.ppid = ppid[p] /\ ppid[p] \in Under(target)
        BY <1>1, <3>1, RecFields, DescendantsStep
      <3>3. \A b \in Pid : 1 \notin Descendants(b)
        BY StillTree
      <3> QED
        BY <1>2, <3>2, <3>3 DEF Under
    <2>2. {r \in list : /\ r.ppid > 0 /\ r.ppid # target
                        /\ r.ppid = 1 \/ r.ppid \notin PidsOf(list)} = {}
      BY <2>1
    <2>3. Report = {Cardinality({})}
      BY <1>5, <2>2 DEF Report, opt_oct
    <2> QED
      BY <1>5, <2>3 DEF Expected, Number
  <1> QED
    BY <1>3, <1>4, <1>5

LEMMA MostExact ==
  ASSUME KernelInv, StillInv, target \in Pid, list = Recs(Descendants(target))
  PROVE /\ opt = "mmd" => Report \in Expected
        /\ opt = "mpd" => Report \in Expected
  <1> DEFINE D == Descendants(target)
  <1>1. IsFiniteSet(D) /\ D \subseteq Procs
    BY StillTree, DescendantsStep, FS_Subset
  <1>2. CASE opt = "mmd"
    <2> DEFINE T == {p \in D : Rss[p] >= 0 /\ \A q \in D : Rss[p] >= Rss[q]}
    <2>1. {r \in list : r.rss >= 0 /\ \A q \in list : r.rss >= q.rss} = Recs(T)
      BY RecFields DEF Recs
    <2>2. IsFiniteSet(T)
      BY <1>1, FS_Subset
    <2>3. opt_mmd = PidsOf(Recs(T))
      BY <2>1 DEF opt_mmd
    <2>4. Report = T
      BY <1>2, <2>2, <2>3, RecsCount DEF Report
    <2> QED
      BY <1>2, <2>4 DEF Expected
  <1>3. CASE opt = "mpd"
    <2> DEFINE T == {p \in D : \A q \in D : Cpu[p] >= Cpu[q]}
    <2>1. {r \in list : \A q \in list : r.cpu >= q.cpu} = Recs(T)
      BY RecFields DEF Recs
    <2>2. IsFiniteSet(T)
      BY <1>1, FS_Subset
    <2>3. opt_mpd = PidsOf(Recs(T))
      BY <2>1 DEF opt_mpd
    <2>4. Report = T
      BY <1>3, <2>2, <2>3, RecsCount DEF Report
    <2> QED
      BY <1>3, <2>4 DEF Expected
  <1> QED
    BY <1>2, <1>3

LEMMA AgesExact ==
  ASSUME KernelInv, StillInv, target \in Pid, list = Recs(Descendants(target))
  PROVE /\ opt = "odt" => Report \in Expected
        /\ opt = "ndt" => Report \in Expected
  <1> DEFINE D == Descendants(target)
  <1>1. IsFiniteSet(D) /\ D \subseteq Procs /\ Procs \subseteq Nat
    BY StillTree, DescendantsStep, FS_Subset
  <1>2. \A p \in D : start[p] = p \div 2 /\ p \in Nat /\ start[p] \in Nat
    <2>1. \A p \in Procs : start[p] = p \div 2 /\ start[p] \in 0 .. NPid
      BY StillTree DEF KernelInv
    <2>2. 0 .. NPid \subseteq Nat
      BY ToolAssumption
    <2>3. \A p \in D : p \in Procs /\ p \in Nat
      BY <1>1
    <2> QED
      BY <2>1, <2>2, <2>3
  <1>3. CASE opt = "odt"
    <2> DEFINE O == {p \in D : \A q \in D : start[p] =< start[q]}
               T == {p \in D : \A q \in D : start[p] < start[q] \/ (start[p] = start[q] /\ p =< q)}
    <2>1. {r \in list : \A q \in list : r.start < q.start \/ (r.start = q.start /\ r.pid =< q.pid)}
            = Recs(T)
      BY RecFields DEF Recs
    <2>2. IsFiniteSet(T)
      BY <1>1, FS_Subset
    <2>3. opt_odt = PidsOf(Recs(T))
      BY <2>1 DEF opt_odt
    <2>4. Report = T
      BY <1>3, <2>2, <2>3, RecsCount DEF Report
    <2>5. D # {} => \E p \in O : T = {p}
      <3> SUFFICES ASSUME D # {} PROVE \E p \in O : T = {p}
        OBVIOUS
      <3>1. PICK m \in D : \A q \in D : m =< q
        BY <1>1, FirstIn
      <3>2. \A q \in D : start[m] =< start[q]
        BY <1>2, <3>1
      <3>3. T = {m}
        BY <1>2, <3>1, <3>2
      <3> QED
        BY <3>2, <3>3
    <2>6. D = {} => O = {} /\ T = {}
      OBVIOUS
    <2>7. T \in Some(O)
      BY <2>5, <2>6 DEF Some
    <2> QED
      BY <1>3, <2>4, <2>7 DEF Expected
  <1>4. CASE opt = "ndt"
    <2> DEFINE O == {p \in D : \A q \in D : start[p] >= start[q]}
               T == {p \in D : \A q \in D : start[p] > start[q] \/ (start[p] = start[q] /\ p =< q)}
    <2>1. {r \in list : \A q \in list : r.start > q.start \/ (r.start = q.start /\ r.pid =< q.pid)}
            = Recs(T)
      BY RecFields DEF Recs
    <2>2. IsFiniteSet(T)
      BY <1>1, FS_Subset
    <2>3. opt_ndt = PidsOf(Recs(T))
      BY <2>1 DEF opt_ndt
    <2>4. Report = T
      BY <1>4, <2>2, <2>3, RecsCount DEF Report
    <2>5. D # {} => \E p \in O : T = {p}
      <3> SUFFICES ASSUME D # {} PROVE \E p \in O : T = {p}
        OBVIOUS
      <3>1. \A p \in D : start[p] =< NPid /\ NPid - start[p] \in Nat
        BY <1>1, <1>2, ToolAssumption DEF KernelInv, Procs
      <3> DEFINE ages == {NPid - start[p] : p \in D}
      <3>2. ages \subseteq Nat /\ ages # {}
        BY <3>1
      <3>3. PICK a \in ages : \A x \in ages : a =< x
        BY <3>2, FirstIn
      <3>4. PICK n \in D : a = NPid - start[n]
        BY <3>3
      <3>5. \A q \in D : start[n] >= start[q]
        <4> TAKE q \in D
        <4>1. NPid - start[n] =< NPid - start[q]
          BY <3>3, <3>4
        <4> QED
          BY <1>2, <4>1, ToolAssumption
      <3>6. n \in O
        BY <3>5
      <3>7. PICK m \in O : \A q \in O : m =< q
        BY <1>1, <3>6, FirstIn
      <3>8. T = {m}
        BY <1>2, <3>7
      <3> QED
        BY <3>7, <3>8
    <2>6. D = {} => O = {} /\ T = {}
      OBVIOUS
    <2>7. T \in Some(O)
      BY <2>5, <2>6 DEF Some
    <2> QED
      BY <1>4, <2>4, <2>7 DEF Expected
  <1> QED
    BY <1>3, <1>4

LEMMA BcpExact ==
  ASSUME KernelInv, StillInv, base \in MyBashes, list = Recs(Descendants(base)), opt = "bcp",
         Descendants(base) \intersect MyBashes = {}
  PROVE Report \in Expected
  <1>1. base \in Pid
    BY DEF MyBashes
  <1>2. IsFiniteSet(Descendants(base))
    BY <1>1, StillTree, DescendantsStep, FS_Subset
  <1>3. Report = {Cardinality(Descendants(base))}
    BY <1>2, RecsCount DEF Report, opt_bcp
  <1>4. {Cardinality(Descendants(base))} \in UNION {Number(Descendants(b)) :
                              b \in {x \in MyBashes : Descendants(x) \intersect MyBashes = {}}}
    BY DEF Number
  <1> QED
    BY <1>3, <1>4 DEF Expected

\* And what it is about to signal are the processes it names.
LEMMA VictimsExact ==
  ASSUME KernelInv, StillInv, target \in Pid, opt \in OnFamily \union OnSiblings,
         base = (IF opt \in OnFamily THEN target ELSE ppid[prev]), base \in Pid,
         opt \in OnSiblings => prev = IF opt = "kps" THEN ppid[target] ELSE target,
         list = Recs(Wanted)
  PROVE PidsOf(Victims) = Named
  <1> USE DEF OnFamily, OnSiblings
  <1>1. IsFiniteSet(Procs) /\ Procs \subseteq Pid /\ 0 \notin Pid
    BY StillTree
  <1>2. Children(base) = {p \in Procs : ppid[p] = base}
    BY DEF Children, Procs
  <1>3. Descendants(target) \subseteq Procs /\ IsFiniteSet(Descendants(target))
    BY <1>1, DescendantsStep, FS_Subset
  <1>4. \A S \in SUBSET Procs : PidsOf(Recs(S)) = S
    BY <1>1, FS_Subset, RecsCount
  <1>5. CASE opt = "dtm"
    BY <1>3, <1>4, <1>5 DEF Victims, Named, Wanted, opt_dtm
  <1>6. Children(target) \subseteq Descendants(target)
    BY DescendantsStep, StillTree DEF Children, Procs, Under
  <1>7. CASE opt = "kcp"
    <2>1. Victims = Recs(Descendants(target) \intersect Children(target))
      BY <1>3, <1>7, RecsChildren DEF Victims, Wanted, opt_kcp
    <2> QED
      BY <1>3, <1>4, <1>6, <1>7, <2>1 DEF Named
  <1>8. CASE opt = "kgc"
    <2> DEFINE G == {p \in Descendants(target) : ppid[p] \in Children(target)}
    <2>1. PidsOf(ChildrenIn(list)) = Children(target)
      BY <1>3, <1>4, <1>6, <1>8, RecsChildren DEF Wanted
    <2>2. {r \in list : r.ppid \in Children(target)} = Recs(G)
      BY <1>8, RecFields DEF Recs, Wanted
    <2>3. Victims = Recs(G)
      BY <1>8, <2>1, <2>2 DEF Victims, opt_kgc
    <2>4. G = UNION {Children(c) : c \in Children(target)}
      <3>1. \A p \in Procs : ppid[p] \in Children(target) => p \in Descendants(target)
        <4> SUFFICES ASSUME NEW p \in Procs, ppid[p] \in Children(target)
                     PROVE p \in Descendants(target)
          OBVIOUS
        <4>1. ppid[p] \in Descendants(target) /\ ppid[p] < p
          BY <1>6, StillTree
        <4>2. target < ppid[p] /\ target \in Nat /\ ppid[p] \in Nat /\ p \in Nat
          BY <4>1, StillTree, DescendantsStep, DescendantsOrder
        <4>3. p # target
          BY <4>1, <4>2
        <4> QED
          BY <4>1, <4>3, DescendantsStep DEF Under
      <3>2. \A c : Children(c) = {p \in Procs : ppid[p] = c}
        BY DEF Children, Procs
      <3> QED
        BY <1>3, <3>1, <3>2
    <2>5. PidsOf(Recs(G)) = G
      BY <1>3, <1>4
    <2> QED
      BY <1>8, <2>3, <2>4, <2>5 DEF Named
  <1>9. ASSUME opt \in OnSiblings PROVE Wanted \in SUBSET Procs /\ Wanted = Siblings(prev)
    BY <1>1, <1>2, <1>9 DEF Wanted, Siblings
  <1>10. CASE opt \in {"sst", "ksp", "kps"}
    <2>1. Victims = list
      BY <1>10 DEF Victims, opt_sst, opt_ksp, opt_kps
    <2>2. PidsOf(Victims) = Siblings(prev)
      BY <1>4, <1>9, <1>10, <2>1
    <2> QED
      BY <1>10, <2>2 DEF Named
  <1>11. CASE opt = "sco"
    <2> DEFINE T == {p \in Wanted : ps[p] = "stop"}
    <2>1. {r \in list : r.state = "stop"} = Recs(T)
      BY RecFields DEF Recs
    <2>2. PidsOf(Recs(T)) = T
      BY <1>4, <1>9, <1>11
    <2>3. Victims = Recs(T)
      BY <1>11, <2>1 DEF Victims, opt_sco
    <2> QED
      BY <1>9, <1>11, <2>2, <2>3 DEF Named
  <1> QED
    BY <1>5, <1>7, <1>8, <1>10, <1>11

-----------------------------------------------------------------------------
(* Every step of a quiet run keeps it.                                     *)

LEMMA InitQuiet ==
  ASSUME Inv, InitWith(Quiet, QuietOptions), quiet PROVE QuietInv
  <1>1. Quiet \in Pid /\ Pid = 1 .. NPid /\ NPid \in Nat /\ Pid \subseteq Nat
    BY ToolAssumption DEF Pid
  <1>2. StillInv
    <2>1. PICK stopped \in SUBSET (2 .. Quiet \ {me}) :
            ps = [p \in Pid |-> IF p > Quiet THEN "free" ELSE IF p \in stopped THEN "stop" ELSE "run"]
      BY DEF InitWith
    <2>2. PICK B \in SUBSET (2 .. Quiet \ {me}) : bash = [p \in Pid |-> p \in B]
      BY DEF InitWith
    <2>3. start = [p \in Pid |-> p \div 2]
      BY DEF InitWith
    <2>4. \A p \in Pid : IF p = 1 \/ p > Quiet THEN ppid[p] = 0 ELSE ppid[p] \in 1 .. p - 1
      BY DEF InitWith, Trees
    <2> SUFFICES ASSUME NEW p \in Pid
                 PROVE /\ InProc(p) <=> p =< Quiet
                       /\ InProc(p) => Alive(p)
                       /\ start[p] = p \div 2
                       /\ bash[p] => InProc(p) /\ p # 1 /\ p # me
      BY <1>1, <2>1, <2>4 DEF StillInv, InitWith, InProc
    <2>5. (InProc(p) <=> p =< Quiet) /\ (InProc(p) => Alive(p))
      BY <1>1, <2>1 DEF InProc, Alive
    <2>6. bash[p] => p =< Quiet /\ p # 1 /\ p # me
      <3>1. bash[p] <=> p \in B
        BY <2>2, Zenon
      <3>2. p \in B => p \in 2 .. Quiet /\ p # me
        BY <2>2
      <3>3. p \in 2 .. Quiet => p =< Quiet /\ p # 1
        BY <1>1
      <3> QED
        BY <3>1, <3>2, <3>3
    <2> QED
      BY <2>3, <2>5, <2>6
  <1>3. /\ pc = IF opt = "bcp" THEN "isbash" ELSE IF opt = "bop" THEN "findbash" ELSE "check"
        /\ cur = IF opt = "bcp" THEN me ELSE target
        /\ root \in IF opt \in {"none", "krp"} THEN 1 .. Quiet ELSE {target}
        /\ hops = Hops(opt) /\ base = target /\ bashes = {} /\ all = {} /\ out = {}
        /\ ever = Descendants(target) /\ target \in Pid
    BY DEF InitWith, Inv, PlaceInv, KernelInv
  <1>4. left = 0 /\ me \in Procs /\ me \in Pid
    BY <1>1, <1>2 DEF InitWith, Procs, StillInv
  <1>5. CollectInv /\ BaseInv /\ UnionInv
    BY <1>3 DEF CollectInv, BaseInv, UnionInv, Collects
  <1>6. AncestorInv
    BY <1>3, <1>4 DEF AncestorInv, Collects, Under, MyBashes
  <1>7. DtmInv
    <2> SUFFICES ASSUME opt = "dtm" PROVE DtmInv
      BY DEF DtmInv
    <2>1. KernelInv
      BY DEF Inv
    <2>2. ever \subseteq Pid \ {1} /\ Ordered /\ Procs \subseteq Nat
      BY <1>2, <1>3, <2>1, StillTree, DescendantsStep
    <2>3. ASSUME NEW p \in Procs, ppid[p] \in ever PROVE p \in ever
      <3>1. target < ppid[p] /\ ppid[p] < p
        BY <1>3, <2>1, <2>2, <2>3, DescendantsOrder DEF Ordered
      <3>2. p # target
        <4>1. ppid[p] \in Nat /\ p \in Nat /\ target \in Nat
          BY <1>1, <1>3, <2>2, <2>3
        <4> QED
          BY <3>1, <4>1
      <3> QED
        BY <1>3, <2>3, <3>2, DescendantsStep DEF Under
    <2> QED
      BY <1>3, <2>2, <2>3 DEF DtmInv, Ordered
  <1> QED
    BY <1>2, <1>3, <1>4, <1>5, <1>6, <1>7 DEF QuietInv, OutInv

\* What a step of the tool that only reads leaves as it was.
LEMMA ReadsQuiet ==
  ASSUME Inv, QuietInv, Reads, UNCHANGED <<left, used, args>>,
         pc \notin {"signal", "signal1", "done"}
  PROVE /\ KernelInv /\ StillInv /\ StillInv' /\ left' = 0 /\ out = {}
        /\ CollectInv /\ BaseInv /\ AncestorInv /\ UnionInv
        /\ UNCHANGED <<opt, target, root, me, ps, ppid, start, bash>>
        /\ UNCHANGED <<Procs, Bashes, MyBashes, Expected, Aim, One>>
        /\ \A b : Descendants(b)' = Descendants(b) /\ Children(b)' = Children(b)
        /\ \A p : RecOf(p)' = RecOf(p)
        /\ pc' # "signal" => DtmInv'
  <1>1. UNCHANGED <<opt, target, root, me, ps, ppid, start, bash, ever>> /\ left' = left
    BY DEF Reads, kernel, args, ghost
  <1>2. Scanning
    BY DEF Scanning
  <1>3. StillInv /\ StillInv' /\ UNCHANGED Procs
    BY <1>1, <1>2 DEF QuietInv, StillInv, Procs, InProc, Alive
  <1>4. \A b : Descendants(b)' = Descendants(b) /\ Children(b)' = Children(b)
    BY <1>1 DEF Descendants, Children, InProc
  <1>5. \A p : RecOf(p)' = RecOf(p)
    BY <1>1 DEF RecOf
  <1>6. UNCHANGED <<Bashes, MyBashes>>
    BY <1>1 DEF Bashes, MyBashes, Descendants, InProc
  <1>7. Expected' = Expected
    BY <1>1 DEF Expected, Descendants, MyBashes, Children, InProc, Number, Some
  <1>8. Descendants(target)' = Descendants(target)
    BY <1>1 DEF Descendants, InProc
  <1>9. pc' # "signal" => DtmInv'
    BY <1>1, <1>2, <1>3, <1>8 DEF QuietInv, DtmInv
  <1>10. UNCHANGED <<Aim, One>>
    BY <1>1 DEF Aim, One, Descendants, InProc
  <1> QED
    BY <1>1, <1>2, <1>3, <1>4, <1>5, <1>6, <1>7, <1>9, <1>10 DEF QuietInv, OutInv, Inv

LEMMA ExpectedNothing == opt \in OnFamily \union OnSiblings \union OnOne => Expected = {{}}
  BY DEF Expected, OnFamily, OnSiblings, OnOne

LEMMA CheckRootQuiet ==
  ASSUME Inv, QuietInv, CheckRoot PROVE QuietInv'
  <1> USE DEF CheckRoot, At, Goto
  <1>1. /\ pc = "check" /\ Reads /\ UNCHANGED <<left, used, args>>
        /\ UNCHANGED <<hops, prev, base, scan, list, bop>>
    OBVIOUS
  <1>2. KernelInv /\ StillInv /\ StillInv' /\ left' = 0 /\ out = {} /\ CollectInv /\ BaseInv
    BY <1>1, ReadsQuiet
  <1>3. UNCHANGED <<opt, target, root, me, ps, ppid>> /\ Expected' = Expected /\ UNCHANGED Procs
    BY <1>1, ReadsQuiet
  <1>4. pc' # "signal" => DtmInv'
    BY <1>1, ReadsQuiet
  <1>5. Descendants(root)' = Descendants(root)
    BY <1>3 DEF Descendants, InProc
  <1>6. /\ opt \in Options \ {"bcp", "bop"} /\ hops = Hops(opt) /\ root \in Pid /\ target \in Pid
        /\ opt \in {"none", "krp"} => (target \in Under(root) <=> cur \in Under(root))
        /\ opt \notin {"none", "krp"} => root = target /\ cur = target
        /\ Aim' = Aim /\ One' = One
    BY <1>1, <1>2, ReadsQuiet DEF BaseInv, Inv, PlaceInv, KernelInv
  <1>7. CASE cur = root
    <2>1. /\ pc' = Dispatch /\ out' = IF opt = "none" THEN {target} ELSE out
          /\ cur' = IF opt = "krp" THEN root ELSE target
      BY <1>7
    <2>2. CASE opt = "none"
      <3>1. pc' = "done" /\ Expected = {{target}}
        BY <1>6, <1>7, <2>1, <2>2 DEF Dispatch, Under, Expected
      <3> QED
        BY <1>1, <1>2, <1>3, <1>4, <2>1, <2>2, <3>1
           DEF QuietInv, OutInv, CollectInv, BaseInv, AncestorInv, UnionInv, Collects, Reporting,
               OnFamily, Reports, OnOne
    <2>3. CASE opt = "krp"
      <3>1. pc' = "single" /\ Aim' = {cur'}
        BY <1>6, <1>7, <2>1, <2>3 DEF Dispatch, Aim, Under
      <3> QED
        BY <1>1, <1>2, <1>3, <1>4, <2>1, <2>3, <3>1
           DEF QuietInv, OutInv, CollectInv, BaseInv, AncestorInv, UnionInv, Collects, Reporting,
               OnFamily, Reports, OnOne
    <2>4. CASE opt \notin {"none", "krp"} /\ Hops(opt) > 0
      <3>1. pc' = "hop" /\ cur' = target
        BY <2>1, <2>4 DEF Dispatch
      <3>2. opt \notin Reporting \union OnFamily
        BY <2>4 DEF Hops, Reporting, Reports, OnFamily
      <3> QED
        BY <1>1, <1>2, <1>3, <1>4, <1>6, <2>1, <2>4, <3>1, <3>2
           DEF QuietInv, OutInv, CollectInv, BaseInv, AncestorInv, UnionInv, Collects, Reporting
    <2>5. CASE opt \notin {"none", "krp"} /\ ~ (Hops(opt) > 0)
      <3>1. pc' = "open" /\ cur' = target
        BY <2>1, <2>5 DEF Dispatch
      <3>2. opt \notin OnSiblings
        BY <2>5 DEF Hops, OnSiblings
      <3> QED
        BY <1>1, <1>2, <1>3, <1>4, <1>6, <2>1, <2>5, <3>1, <3>2
           DEF QuietInv, OutInv, CollectInv, BaseInv, AncestorInv, UnionInv, Collects
    <2> QED
      BY <2>2, <2>3, <2>4, <2>5
  <1>8. CASE cur # root
    <2>1. opt \in {"none", "krp"} /\ out' = {}
      BY <1>2, <1>6, <1>8
    <2>2. cur \in Pid /\ (cur \in Under(root) => cur \in Procs /\ ppid[cur] \in Under(root))
      BY <1>6, <1>8, DescendantsStep DEF Under, Inv, PlaceInv, KernelInv
    <2>3. CASE InProc(cur) /\ ppid[cur] > 0
      <3>1. pc' = "check" /\ cur' = ppid[cur] /\ cur \in Procs
        BY <1>8, <2>2, <2>3 DEF Procs
      <3>2. target \in Under(root) <=> ppid[cur] \in Under(root)
        BY <1>6, <1>8, <2>1, <2>2, <3>1, DescendantsStep DEF Under
      <3>3. target' \in Under(root)' <=> cur' \in Under(root)'
        BY <1>3, <1>5, <3>1, <3>2 DEF Under
      <3> QED
        BY <1>1, <1>2, <1>3, <1>4, <1>6, <2>1, <3>1, <3>3
           DEF QuietInv, OutInv, CollectInv, BaseInv, AncestorInv, UnionInv, Collects, Reporting,
               OnFamily, Reports
    <2>4. CASE ~ (InProc(cur) /\ ppid[cur] > 0)
      <3>1. pc' = "done"
        BY <1>8, <2>4
      <3>2. target \notin Under(root)
        <4> SUFFICES ASSUME cur \in Under(root) PROVE FALSE
          BY <1>6, <2>1
        <4>1. InProc(cur) /\ ppid[cur] \in Under(root)
          BY <2>2 DEF Procs
        <4>2. ppid[cur] \in Pid
          BY <1>6, <4>1, DescendantsStep DEF Under, Procs
        <4> QED
          BY <2>4, <4>1, <4>2 DEF Pid
      <3>3. IF opt = "krp" THEN One = {} ELSE {} \in Expected
        BY <2>1, <3>2 DEF Expected, One, Aim, Under
      <3> QED
        BY <1>1, <1>2, <1>3, <1>4, <1>6, <2>1, <3>1, <3>3
           DEF QuietInv, OutInv, OneDone, OnOne, CollectInv, BaseInv, AncestorInv, UnionInv, Collects, OnFamily, Reports
    <2> QED
      BY <2>3, <2>4
  <1> QED
    BY <1>7, <1>8


LEMMA HopQuiet ==
  ASSUME Inv, QuietInv, Hop PROVE QuietInv'
  <1> USE DEF Hop, At, Goto
  <1>1. pc = "hop" /\ Reads /\ UNCHANGED <<left, used, args>> /\ UNCHANGED <<scan, list, bop, out>>
    OBVIOUS
  <1>2. /\ KernelInv /\ StillInv' /\ left' = 0 /\ out = {} /\ BaseInv
        /\ UNCHANGED <<opt, target, root, me, ps, ppid>> /\ Expected' = Expected
        /\ Aim' = Aim /\ One' = One /\ StillInv
        /\ pc' # "signal" => DtmInv'
    BY <1>1, ReadsQuiet
  <1>3. /\ Hops(opt) > 0 /\ opt \in Options /\ target \in Pid /\ cur \in Pid
        /\ \/ hops = Hops(opt) /\ cur = target
           \/ hops = 1 /\ Hops(opt) = 2 /\ ppid[target] >= 1 /\ cur = ppid[target]
    BY <1>1, <1>2 DEF Inv, PlaceInv, KernelInv, BaseInv
  <1>4. /\ opt \in OnSiblings \union OnOne /\ opt \notin Reporting \union OnFamily \union Reports
        /\ opt # "dtm" /\ opt # "bcp" /\ opt # "bop"
        /\ Hops(opt) = IF opt \in {"kgp", "kps"} THEN 2 ELSE 1
    BY <1>3 DEF Hops, OnSiblings, OnOne, Reporting, Reports, OnFamily
  <1>5. CASE ~ (InProc(cur) /\ ppid[cur] >= 1)
    <2>1. pc' = "done" /\ out' = {} /\ Expected = {{}}
      BY <1>2, <1>4, <1>5, ExpectedNothing
    <2>2. opt \in OnOne => One = {}
      <3> SUFFICES ASSUME opt \in OnOne PROVE One = {}
        OBVIOUS
      <3>1. opt \in {"kpp", "kgp"}
        BY <1>3 DEF OnOne, Hops
      <3>2. ppid[cur] = 0
        BY <1>2, <1>3, <1>5, ToolAssumption DEF StillInv, KernelInv, Pid
      <3>3. 0 \notin Pid
        BY ToolAssumption DEF Pid
      <3>4. Aim \subseteq {0}
        BY <1>3, <1>4, <3>1, <3>2, <3>3 DEF Aim
      <3>5. \A p \in Aim : ~ (p > 1)
        BY <3>4
      <3> QED
        BY <3>5, Zenon DEF One
    <2> QED
      BY <1>1, <1>2, <1>4, <2>1, <2>2
         DEF QuietInv, OutInv, OneDone, Scanning, CollectInv, BaseInv, AncestorInv, UnionInv, Collects
  <1>6. CASE InProc(cur) /\ ppid[cur] >= 1
    <2>1. /\ cur' = ppid[cur] /\ prev' = cur /\ hops' = hops - 1
          /\ base' = IF opt \in OnSiblings THEN ppid[cur] ELSE base
          /\ pc' = IF hops > 1 THEN "hop" ELSE IF opt \in OnOne THEN "single" ELSE "open"
      BY <1>6
    <2>2. CASE hops > 1
      <3>1. hops = 2 /\ hops = Hops(opt) /\ cur = target
        BY <1>3, <1>4, <2>2
      <3> QED
        BY <1>1, <1>2, <1>4, <1>6, <2>1, <2>2, <3>1
           DEF QuietInv, OutInv, CollectInv, BaseInv, AncestorInv, UnionInv, Collects
    <2>3. CASE ~ (hops > 1) /\ opt \in OnOne
      <3>1. pc' = "single"
        BY <2>1, <2>3
      <3>2. opt \in {"kpp", "kgp"}
        BY <1>3, <2>3 DEF OnOne, Hops
      <3>3. Aim' = {cur'}
        BY <1>2, <1>3, <1>4, <1>6, <2>1, <2>3, <3>2 DEF Aim, InProc
      <3> QED
        BY <1>1, <1>2, <1>4, <2>1, <2>3, <3>1, <3>3
           DEF QuietInv, OutInv, CollectInv, BaseInv, AncestorInv, UnionInv, Collects
    <2>4. CASE ~ (hops > 1) /\ opt \notin OnOne
      <3>1. pc' = "open" /\ base' = ppid[cur]
        BY <1>4, <2>1, <2>4
      <3>2. cur = IF opt = "kps" THEN ppid[target] ELSE target
        BY <1>3, <1>4, <2>4 DEF OnOne
      <3> QED
        BY <1>1, <1>2, <1>3, <1>4, <1>6, <2>1, <3>1, <3>2
           DEF QuietInv, OutInv, CollectInv, BaseInv, AncestorInv, UnionInv, Collects
    <2> QED
      BY <2>2, <2>3, <2>4
  <1> QED
    BY <1>5, <1>6

LEMMA SingleQuiet ==
  ASSUME Inv, QuietInv, Single PROVE QuietInv'
  <1> USE DEF Single, At, Goto
  <1>1. pc = "single" /\ Reads /\ UNCHANGED <<left, used, args>> /\ UNCHANGED <<walk, scan, list, bop, out>>
    OBVIOUS
  <1>2. /\ StillInv /\ StillInv' /\ left' = 0 /\ out = {} /\ BaseInv
        /\ UNCHANGED <<opt, target, root, me, ps, ppid>> /\ Expected' = Expected
        /\ Aim' = Aim /\ One' = One
        /\ pc' # "signal" => DtmInv'
    BY <1>1, ReadsQuiet
  <1>3. opt \in OnOne /\ pc' \in {"done", "signal1"}
    BY <1>1, <1>2 DEF BaseInv
  <1>5. pc' = (IF One = {} THEN "done" ELSE "signal1") /\ One \subseteq {cur}
    <2>1. Aim = {cur} /\ cur \in Pid /\ cur \in Nat
      BY <1>1, <1>2, ToolAssumption DEF BaseInv, Inv, PlaceInv, KernelInv, Pid
    <2>2. bash[cur] => InProc(cur)
      BY <1>2, <2>1 DEF StillInv
    <2>3. One = IF cur > 1 /\ ~ bash[cur] THEN {cur} ELSE {}
      BY <2>1 DEF One
    <2> QED
      BY <2>1, <2>2, <2>3
  <1>4. opt \notin Reporting \union OnFamily \union Reports \union OnSiblings /\ Expected = {{}}
    BY <1>3, ExpectedNothing DEF OnOne, Reporting, Reports, OnFamily, OnSiblings
  <1> QED
    BY <1>1, <1>2, <1>3, <1>4, <1>5
       DEF QuietInv, OutInv, OneDone, Scanning, CollectInv, BaseInv, AncestorInv, UnionInv,
           Collects, walk

\* -bcp: from a process that is no bash to its parent.
LEMMA UpwardQuiet ==
  ASSUME Inv, QuietInv, IsBash \/ Up PROVE QuietInv'
  <1> USE DEF IsBash, Up, At, Goto
  <1>1. /\ pc \in {"isbash", "up"} /\ Reads /\ UNCHANGED <<left, used, args>>
        /\ UNCHANGED <<hops, prev, scan, list, bop, out>>
    OBVIOUS
  <1>2. /\ KernelInv /\ StillInv /\ StillInv' /\ left' = 0 /\ out = {} /\ BaseInv /\ AncestorInv
        /\ UNCHANGED <<opt, target, root, me, ps, ppid, bash>> /\ Expected' = Expected
        /\ MyBashes' = MyBashes /\ Procs' = Procs
        /\ pc' # "signal" => DtmInv'
    BY <1>1, ReadsQuiet
  <1>3. /\ opt = "bcp" /\ cur \in Procs /\ cur \in Pid /\ me \in Under(cur) /\ me \in Pid
        /\ \A b \in MyBashes : cur \in Descendants(b) \/ (pc = "isbash" /\ cur = b)
    BY <1>1, <1>2 DEF AncestorInv, Procs, Inv, PlaceInv, KernelInv
  <1>4. opt \notin OnFamily \union Reports \union OnSiblings \union OnOne
    BY <1>3 DEF OnOne, Reports, OnFamily, OnSiblings
  <1>5. Ordered /\ Procs \subseteq Pid /\ Pid \subseteq Nat /\ 0 \notin Pid
        /\ \A b \in Pid : 1 \notin Descendants(b)
    BY <1>2, StillTree
  <1>6. InProc(cur)
    BY <1>3 DEF Procs
  <1>7. \A b \in MyBashes : b \in Pid /\ bash[b] /\ b # 1 /\ b # me /\ me \in Descendants(b)
    BY <1>2 DEF MyBashes, StillInv
  <1>8. CASE IsBash /\ bash[cur]
    <2>1. pc' = "open" /\ base' = cur
      BY <1>6, <1>8
    <2>2. cur \in MyBashes
      BY <1>2, <1>3, <1>8 DEF MyBashes, Under, StillInv
    <2>3. ASSUME NEW b \in MyBashes, b \in Descendants(cur) PROVE FALSE
      <3>1. cur < b /\ cur \in Nat /\ b \in Nat
        BY <1>2, <1>3, <1>5, <1>7, <2>3, DescendantsOrder
      <3>2. cur \in Descendants(b) => b < cur
        BY <1>2, <1>5, <1>7, <2>3, DescendantsOrder
      <3> QED
        BY <1>3, <2>3, <3>1, <3>2
    <2>4. Descendants(base)' = Descendants(cur)
      BY <1>2, <2>1 DEF Descendants, InProc
    <2>5. AncestorInv'
      BY <1>2, <2>1, <2>2, <2>3, <2>4 DEF AncestorInv
    <2> QED
      BY <1>1, <1>2, <1>3, <1>4, <2>1, <2>5
         DEF QuietInv, OutInv, CollectInv, BaseInv, UnionInv, Collects
  <1>9. CASE IsBash /\ ~ bash[cur]
    <2>1. pc' = "up" /\ base' = base /\ cur' = cur
      BY <1>9
    <2>2. \A b \in MyBashes : cur \in Descendants(b)
      BY <1>3, <1>7, <1>9
    <2>3. Descendants(cur)' = Descendants(cur) /\ \A b : Descendants(b)' = Descendants(b)
      BY <1>2, <2>1 DEF Descendants, InProc
    <2>4. AncestorInv'
      BY <1>2, <1>3, <2>1, <2>2, <2>3 DEF AncestorInv, Under, Collects
    <2> QED
      BY <1>1, <1>2, <1>3, <1>4, <2>1, <2>4
         DEF QuietInv, OutInv, CollectInv, BaseInv, UnionInv, Collects
  <1>10. \A b \in MyBashes : pc = "up" => ppid[cur] \in Under(b)
    BY <1>3, <1>7, DescendantsStep
  <1>11. CASE Up /\ ppid[cur] > 1
    <2> PICK q : q = ppid[cur]
      OBVIOUS
    <2>1. pc' = "isbash" /\ base' = base /\ cur' = q
      BY <1>6, <1>11
    <2>2. q \in Procs /\ q # cur
      BY <1>2, <1>3, <1>11, StillTree
    <2>3. cur \in Descendants(q)
      BY <1>3, <1>5, <2>2, DescendantsStep DEF Under
    <2>4. me \in Descendants(q)
      BY <1>2, <1>3, <1>5, <2>2, <2>3, DescendantsOver DEF Under
    <2>5. Descendants(cur)' = Descendants(q) /\ \A b : Descendants(b)' = Descendants(b)
      BY <1>2, <2>1 DEF Descendants, InProc
    <2>6. \A b \in MyBashes : q \in Descendants(b) \/ q = b
      BY <1>10, <1>11 DEF Under
    <2>7. AncestorInv'
      BY <1>2, <1>3, <2>1, <2>2, <2>4, <2>5, <2>6 DEF AncestorInv, Under, Collects
    <2> QED
      BY <1>1, <1>2, <1>3, <1>4, <2>1, <2>7
         DEF QuietInv, OutInv, CollectInv, BaseInv, UnionInv, Collects
  <1>12. CASE Up /\ ~ (ppid[cur] > 1)
    <2>1. pc' = "done" /\ base' = base
      BY <1>6, <1>12
    <2>2. MyBashes = {}
      <3> SUFFICES ASSUME NEW b \in MyBashes PROVE FALSE
        OBVIOUS
      <3>1. ppid[cur] \in Under(b) /\ b \in Pid
        BY <1>7, <1>10, <1>12
      <3>2. ppid[cur] \in Pid /\ ppid[cur] # 1
        BY <1>5, <1>7, <3>1, DescendantsStep DEF Under
      <3>3. ppid[cur] \in Nat /\ ppid[cur] # 0
        BY <1>5, <3>2
      <3> QED
        BY <1>12, <3>2, <3>3
    <2>3. {} \in Expected
      BY <1>3, <2>2 DEF Expected
    <2> QED
      BY <1>1, <1>2, <1>3, <1>4, <2>1, <2>3
         DEF QuietInv, OutInv, CollectInv, BaseInv, UnionInv, AncestorInv, Collects, Reporting
  <1> QED
    BY <1>8, <1>9, <1>11, <1>12

\* -bop: the bash processes are found and taken one by one.
LEMMA BashesQuiet ==
  ASSUME Inv, QuietInv, FindBash \/ Comm \/ NextBash PROVE QuietInv'
  <1> USE DEF FindBash, Comm, NextBash, At, Goto
  <1>1. /\ pc \in {"findbash", "comm", "nextbash"} /\ Reads /\ UNCHANGED <<left, used, args>>
        /\ UNCHANGED <<hops, cur, prev, list>>
    BY DEF walk
  <1>2. /\ KernelInv /\ StillInv /\ StillInv' /\ left' = 0 /\ out = {} /\ BaseInv /\ UnionInv
        /\ UNCHANGED <<opt, target, root, me, ps, ppid, bash>> /\ Expected' = Expected
        /\ Bashes' = Bashes /\ Procs' = Procs
        /\ \A b : Descendants(b)' = Descendants(b)
        /\ pc' # "signal" => DtmInv'
    BY <1>1, ReadsQuiet
  <1>3. opt = "bop"
    BY <1>1, <1>2 DEF UnionInv
  <1>4. opt \notin OnFamily \union Reports \union OnSiblings \union OnOne /\ opt \in Reporting
    BY <1>3 DEF OnOne, Reports, OnFamily, OnSiblings, Reporting
  <1>5. Bashes \subseteq Procs /\ Procs \subseteq Nat /\ \A p \in Procs : InProc(p) /\ p \in Pid
    BY <1>2, StillTree DEF Bashes, StillInv, Procs
  <1>6. CASE FindBash
    <2>1. pc' = "comm" /\ todo' = Procs /\ bashes' = {} /\ all' = {}
      BY <1>2, <1>6 DEF Procs, bop, UnionInv
    <2>2. UnionInv'
      BY <1>2, <1>3, <1>5, <2>1 DEF UnionInv, Collects
    <2> QED
      BY <1>1, <1>2, <1>3, <1>4, <1>6, <2>1, <2>2
         DEF QuietInv, OutInv, CollectInv, BaseInv, AncestorInv, Collects
  <1>7. CASE Comm /\ todo # {}
    <2>1. todo \subseteq Procs /\ bashes = Bashes \ todo /\ all = {}
      BY <1>2, <1>7 DEF UnionInv
    <2>2. First(todo) \in todo
      BY <1>5, <1>7, <2>1, FirstIn
    <2> PICK p : p = First(todo)
      OBVIOUS
    <2>3. /\ pc' = "comm" /\ todo' = todo \ {p} /\ all' = all /\ out' = out
          /\ bashes' = IF InProc(p) /\ bash[p] THEN bashes \union {p} ELSE bashes
      BY <1>7
    <2>4. p \in Procs /\ InProc(p) /\ (p \in Bashes <=> bash[p])
      BY <1>5, <2>1, <2>2 DEF Bashes
    <2>5. bashes' = Bashes \ todo'
      BY <2>1, <2>2, <2>3, <2>4
    <2>6. UnionInv'
      BY <1>2, <1>3, <2>1, <2>3, <2>5 DEF UnionInv, Collects
    <2> QED
      BY <1>1, <1>2, <1>3, <1>4, <2>3, <2>6
         DEF QuietInv, OutInv, CollectInv, BaseInv, AncestorInv, Collects
  <1>8. CASE Comm /\ todo = {}
    <2>1. pc' = "nextbash" /\ bashes' = bashes /\ all' = all /\ out' = out
      BY <1>8
    <2>2. bashes = Bashes /\ all = {}
      BY <1>2, <1>8 DEF UnionInv
    <2>3. Bashes \ bashes = {}
      BY <2>2
    <2>4. BelowAny(Bashes \ bashes)' = {}
      BY <1>2, <2>1, <2>3 DEF BelowAny
    <2>5. UnionInv'
      BY <1>2, <1>3, <2>1, <2>2, <2>4 DEF UnionInv, Collects
    <2> QED
      BY <1>1, <1>2, <1>3, <1>4, <2>1, <2>5
         DEF QuietInv, OutInv, CollectInv, BaseInv, AncestorInv, Collects
  <1>9. CASE NextBash /\ bashes # {}
    <2>1. bashes \subseteq Bashes /\ all = BelowAny(Bashes \ bashes)
      BY <1>2, <1>9 DEF UnionInv
    <2>2. First(bashes) \in bashes
      BY <1>5, <1>9, <2>1, FirstIn
    <2> PICK b : b = First(bashes)
      OBVIOUS
    <2>3. pc' = "open" /\ base' = b /\ bashes' = bashes \ {b} /\ all' = all /\ out' = out
      BY <1>9
    <2>4. Bashes \ bashes' = (Bashes \ bashes) \union {b}
      BY <2>1, <2>2, <2>3
    <2>5. BelowAny(Bashes \ bashes)' = BelowAny((Bashes \ bashes) \union {b})
      BY <1>2, <2>4 DEF BelowAny
    <2>6. BelowAny((Bashes \ bashes) \union {b}) = all \union Descendants(b)
      BY <2>1 DEF BelowAny
    <2>7. Descendants(base)' = Descendants(b)
      BY <1>2, <2>3 DEF Descendants, InProc
    <2>8. UnionInv'
      BY <1>2, <1>3, <2>1, <2>2, <2>3, <2>5, <2>6, <2>7 DEF UnionInv, Collects
    <2> QED
      BY <1>1, <1>2, <1>3, <1>4, <2>3, <2>8
         DEF QuietInv, OutInv, CollectInv, BaseInv, AncestorInv, Collects
  <1>10. CASE NextBash /\ bashes = {}
    <2>1. pc' = "done" /\ out' = {Cardinality(all)} /\ base' = base
      BY <1>10
    <2>2. all = BelowAny(Bashes)
      BY <1>2, <1>10 DEF UnionInv
    <2>3. out' \in Expected
      BY <1>3, <2>1, <2>2 DEF Expected, Number, BelowAny, Bashes
    <2> QED
      BY <1>1, <1>2, <1>3, <1>4, <2>1, <2>3
         DEF QuietInv, OutInv, CollectInv, BaseInv, AncestorInv, UnionInv, Collects
  <1> QED
    BY <1>6, <1>7, <1>8, <1>9, <1>10


\* A step of the collecting that leaves alone who is to be collected for what.
CollectFrame ==
    /\ Reads /\ UNCHANGED <<left, used, args, hops, prev, base, bop, out>>
    /\ pc \in Collects /\ pc' \in Collects

LEMMA CollectQuiet ==
  ASSUME Inv, QuietInv, CollectFrame
  PROVE /\ KernelInv /\ StillInv /\ CollectInv /\ BaseInv /\ base \in Pid
        /\ UNCHANGED <<opt, ps, ppid, bash, start, Procs, Wanted, Skipped>>
        /\ Descendants(base)' = Descendants(base)
        /\ \A p : RecOf(p)' = RecOf(p)
        /\ Wanted \subseteq Procs /\ Skipped \notin Wanted
        /\ CollectInv' => QuietInv'
  <1>1. /\ Reads /\ UNCHANGED <<left, used, args, hops, prev, base, bop, out>>
        /\ pc \in Collects /\ pc' \in Collects
    BY DEF CollectFrame
  <1>2. pc \notin {"signal", "signal1", "done"} /\ pc' \notin {"signal", "signal1", "done"}
    BY <1>1 DEF Collects
  <1>3. /\ KernelInv /\ StillInv /\ StillInv' /\ left' = 0 /\ out = {} /\ CollectInv /\ BaseInv
        /\ AncestorInv /\ UnionInv /\ DtmInv'
        /\ UNCHANGED <<opt, target, root, me, ps, ppid, bash, start>>
        /\ Bashes' = Bashes /\ MyBashes' = MyBashes /\ Procs' = Procs
        /\ \A b : Descendants(b)' = Descendants(b)
        /\ \A p : RecOf(p)' = RecOf(p)
    BY <1>1, <1>2, ReadsQuiet
  <1>4. Descendants(base)' = Descendants(base) /\ Children(base)' = Children(base)
    BY <1>1, <1>3 DEF Descendants, Children, InProc
  <1>5. Wanted' = Wanted /\ Skipped' = Skipped
    BY <1>1, <1>3, <1>4 DEF Wanted, Skipped
  <1>6. base \in Pid
    <2>1. opt \in Collecting /\ target \in Pid
      BY <1>1 DEF Collects, Inv, PlaceInv, KernelInv
    <2>2. CASE opt \in OnFamily \union Reports
      BY <1>3, <2>1, <2>2 DEF BaseInv
    <2>3. CASE opt \in OnSiblings
      BY <1>1, <1>3, <2>3, StillTree DEF BaseInv, KernelInv, Pid
    <2>4. CASE opt = "bcp" \/ opt = "bop"
      BY <1>1, <1>3, <2>4 DEF AncestorInv, UnionInv, MyBashes, Bashes
    <2> QED
      BY <2>1, <2>2, <2>3, <2>4 DEF Collecting
  <1>7. Wanted \subseteq Procs /\ Skipped \notin Wanted
    BY <1>6, DescendantsStep DEF Wanted, Skipped, Children, Procs
  <1>8. BelowAny(Bashes \ bashes)' = BelowAny(Bashes \ bashes)
    BY <1>1, <1>3 DEF BelowAny, bop
  <1>9. UnionInv'
    <2>1. pc \in Collects /\ pc' \notin {"findbash", "comm", "nextbash"}
      BY <1>1 DEF Collects
    <2>2. UNCHANGED <<bashes, all, base>>
      BY <1>1 DEF bop
    <2> QED
      BY <1>3, <1>4, <1>8, <2>1, <2>2 DEF UnionInv
  <1>10. AncestorInv'
    BY <1>1, <1>2, <1>3, <1>4 DEF AncestorInv, Collects
  <1>11. BaseInv'
    BY <1>1, <1>3 DEF BaseInv, Collects
  <1>12. out' = {}
    BY <1>1, <1>3
  <1> QED
    BY <1>2, <1>3, <1>4, <1>5, <1>6, <1>7, <1>9, <1>10, <1>11, <1>12 DEF QuietInv, OutInv

LEMMA OpenQuiet ==
  ASSUME Inv, QuietInv, Open PROVE QuietInv'
  <1> USE DEF Open, At, Goto
  <1>1. CollectFrame /\ pc' = "next" /\ list' = {}
    BY DEF CollectFrame, Collects, walk
  <1>2. Wanted \subseteq Procs /\ Wanted' = Wanted /\ Procs' = Procs /\ (CollectInv' => QuietInv')
    BY <1>1, CollectQuiet
  <1>3. todo' = Procs
    BY DEF Procs
  <1>4. Wanted' \ (todo' \union BeingRead') = {}
    BY <1>2, <1>3
  <1> HIDE DEF Open
  <1>5. CollectInv'
    BY <1>1, <1>2, <1>3, <1>4 DEF CollectInv
  <1> QED
    BY <1>2, <1>5

LEMMA OpenFailsQuiet ==
  ASSUME Inv, QuietInv, OpenFails PROVE QuietInv'
  <1> USE DEF OpenFails, At, Goto
  <1>1. /\ pc \in {"open", "findbash"} /\ pc' = "failed" /\ Reads
        /\ UNCHANGED <<left, used, args>> /\ UNCHANGED <<walk, scan, list, bop, out>>
    OBVIOUS
  <1>2. /\ StillInv' /\ left' = 0 /\ out = {} /\ BaseInv
        /\ UNCHANGED <<opt, target, root, me>>
        /\ pc' # "signal" => DtmInv'
    BY <1>1, ReadsQuiet
  <1> HIDE DEF OpenFails
  <1> QED
    BY <1>1, <1>2
       DEF QuietInv, OutInv, Scanning, CollectInv, BaseInv, AncestorInv, UnionInv, Collects, walk

LEMMA NextPidQuiet ==
  ASSUME Inv, QuietInv, NextPid PROVE QuietInv'
  <1> USE DEF NextPid, At, Goto
  <1>1. CollectFrame /\ pc = "next" /\ list' = list
    BY DEF CollectFrame, Collects
  <1>2. /\ KernelInv /\ StillInv /\ CollectInv /\ Skipped \notin Wanted /\ (CollectInv' => QuietInv')
        /\ Wanted' = Wanted /\ Procs' = Procs /\ base' = base /\ opt' = opt /\ Skipped' = Skipped
        /\ \A p : RecOf(p)' = RecOf(p)
    BY <1>1, CollectQuiet DEF CollectFrame
  <1>3. /\ todo \subseteq Procs /\ todo \subseteq Nat
        /\ list = {RecOf(p) : p \in Wanted \ todo}
    BY <1>1, <1>2, StillTree DEF CollectInv, BeingRead
  <1>4. CASE todo = {}
    <2>1. pc' = "use" /\ todo' = todo
      BY <1>4
    <2>2. {RecOf(p) : p \in Wanted \ (todo \union BeingRead)}' = {RecOf(p) : p \in Wanted \ todo}
      BY <1>2, <2>1 DEF BeingRead
    <2> QED
      BY <1>1, <1>2, <1>3, <1>4, <2>1, <2>2 DEF CollectInv
  <1>5. CASE todo # {}
    <2> PICK w : w = First(todo)
      OBVIOUS
    <2>1. w \in todo
      BY <1>3, <1>5, FirstIn
    <2>2. /\ todo' = todo \ {w} /\ who' = w /\ cur' = w
          /\ pc' = IF w = Skipped THEN "next" ELSE IF opt \in OnSiblings THEN "stat" ELSE "climb"
      BY <1>5
    <2>3. Wanted \ (todo' \union BeingRead') = Wanted \ todo
      BY <1>2, <2>1, <2>2 DEF BeingRead
    <2>4. {RecOf(p) : p \in Wanted \ (todo \union BeingRead)}' = {RecOf(p) : p \in Wanted \ todo}
      BY <1>2, <2>3
    <2>5. pc' = "climb" => w # base /\ opt \notin OnSiblings
      BY <2>2 DEF Skipped
    <2>6. Descendants(who)' = Descendants(cur)'
      BY <2>2 DEF Descendants
    <2>7. CollectInv'
      BY <1>1, <1>2, <1>3, <2>1, <2>2, <2>4, <2>5 DEF CollectInv
    <2> QED
      BY <1>2, <2>7
  <1> QED
    BY <1>4, <1>5

LEMMA ClimbQuiet ==
  ASSUME Inv, QuietInv, Climb PROVE QuietInv'
  <1> USE DEF Climb, ClimbWith, At, Goto
  <1>1. CollectFrame /\ pc = "climb" /\ list' = list /\ todo' = todo /\ who' = who
    BY DEF CollectFrame, Collects, scan
  <1>2. /\ KernelInv /\ StillInv /\ CollectInv /\ (CollectInv' => QuietInv') /\ base \in Pid
        /\ Wanted' = Wanted /\ Procs' = Procs /\ base' = base /\ opt' = opt /\ Skipped' = Skipped
        /\ Descendants(base)' = Descendants(base)
        /\ \A p : RecOf(p)' = RecOf(p)
    BY <1>1, CollectQuiet DEF CollectFrame
  <1>3. /\ todo \subseteq Procs /\ who \in Procs \ todo /\ who # Skipped
        /\ list = {RecOf(p) : p \in Wanted \ (todo \union {who})}
        /\ opt \notin OnSiblings /\ cur \in Procs /\ cur # base
        /\ who \in Descendants(base) <=> cur \in Descendants(base)
    BY <1>1, <1>2 DEF CollectInv, BeingRead
  <1>4. InProc(cur) /\ (cur \in Descendants(base) <=> ppid[cur] \in Under(base))
    BY <1>2, <1>3, DescendantsStep DEF Procs
  <1>5. Wanted = Descendants(base)
    BY <1>3 DEF Wanted
  <1>6. CASE ppid[cur] = base
    <2>1. pc' = "stat" /\ who \in Descendants(base)
      BY <1>3, <1>4, <1>6 DEF Under
    <2>2. {RecOf(p) : p \in Wanted \ (todo \union BeingRead)}' = list
      BY <1>1, <1>2, <1>3, <2>1 DEF BeingRead
    <2>3. CollectInv'
      BY <1>1, <1>2, <1>3, <2>1, <2>2 DEF CollectInv
    <2> QED
      BY <1>2, <2>3
  <1>7. CASE ppid[cur] # base /\ ppid[cur] =< 1
    <2>1. pc' = "next"
      BY <1>4, <1>7
    <2>2. ppid[cur] \in {0, 1}
      BY <1>2, <1>3, <1>7, StillTree
    <2>3. ppid[cur] \notin Descendants(base)
      BY <1>2, <2>2, StillTree, DescendantsStep
    <2>4. who \notin Wanted
      BY <1>3, <1>4, <1>5, <1>7, <2>3 DEF Under
    <2>5. Wanted \ (todo \union BeingRead') = Wanted \ (todo \union {who})
      BY <2>1, <2>4 DEF BeingRead
    <2>6. {RecOf(p) : p \in Wanted \ (todo \union BeingRead)}' = list
      BY <1>1, <1>2, <1>3, <2>5
    <2>7. CollectInv'
      BY <1>1, <1>2, <1>3, <2>1, <2>6 DEF CollectInv
    <2> QED
      BY <1>2, <2>7
  <1>8. CASE ppid[cur] # base /\ ~ (ppid[cur] =< 1)
    <2> PICK q : q = ppid[cur]
      OBVIOUS
    <2>1. pc' = "climb" /\ cur' = q
      BY <1>4, <1>8
    <2>2. q \in Procs /\ q # base
      BY <1>2, <1>3, <1>8, StillTree
    <2>3. who \in Descendants(base) <=> q \in Descendants(base)
      BY <1>3, <1>4, <1>8 DEF Under
    <2>4. {RecOf(p) : p \in Wanted \ (todo \union BeingRead)}' = list
      BY <1>1, <1>2, <1>3, <2>1 DEF BeingRead
    <2>5. CollectInv'
      BY <1>1, <1>2, <1>3, <2>1, <2>2, <2>3, <2>4 DEF CollectInv
    <2> QED
      BY <1>2, <2>5
  <1> QED
    BY <1>6, <1>7, <1>8

LEMMA StatQuiet ==
  ASSUME Inv, QuietInv, Stat PROVE QuietInv'
  <1> USE DEF Stat, At, Goto
  <1>1. CollectFrame /\ pc = "stat" /\ list' = list /\ todo' = todo /\ who' = who
    BY DEF CollectFrame, Collects, walk
  <1>2. /\ CollectInv /\ (CollectInv' => QuietInv')
        /\ Wanted' = Wanted /\ Procs' = Procs /\ base' = base /\ opt' = opt /\ Skipped' = Skipped
        /\ Descendants(base)' = Descendants(base)
        /\ \A p : RecOf(p)' = RecOf(p)
    BY <1>1, CollectQuiet DEF CollectFrame
  <1>3. /\ todo \subseteq Procs /\ who \in Procs \ todo /\ who # Skipped
        /\ list = {RecOf(p) : p \in Wanted \ (todo \union {who})}
        /\ opt \notin OnSiblings => who \in Descendants(base)
    BY <1>1, <1>2 DEF CollectInv, BeingRead
  <1>4. InProc(who) /\ pc' = "status"
    BY <1>3 DEF Procs
  <1>5. rec' = StatOf(who)
    BY <1>4 DEF StatOf
  <1>6. StatOf(who)' = StatOf(who)
    BY <1>1, CollectQuiet DEF StatOf
  <1>7. {RecOf(p) : p \in Wanted \ (todo \union BeingRead)}' = list
    BY <1>1, <1>2, <1>3, <1>4 DEF BeingRead
  <1> HIDE DEF Stat
  <1>8. CollectInv'
    BY <1>1, <1>2, <1>3, <1>4, <1>5, <1>6, <1>7 DEF CollectInv
  <1> QED
    BY <1>2, <1>8

LEMMA StatusQuiet ==
  ASSUME Inv, QuietInv, Status PROVE QuietInv'
  <1> USE DEF At, Goto
  <1>1. CollectFrame /\ pc = "status" /\ pc' = "next" /\ todo' = todo /\ who' = who
    BY DEF Status, CollectFrame, Collects, walk
  <1>2. /\ KernelInv /\ StillInv /\ CollectInv /\ (CollectInv' => QuietInv')
        /\ Wanted' = Wanted /\ Procs' = Procs /\ base' = base /\ opt' = opt
        /\ \A p : RecOf(p)' = RecOf(p)
    BY <1>1, CollectQuiet DEF CollectFrame
  <1>3. /\ todo \subseteq Procs /\ who \in Procs \ todo /\ who # Skipped
        /\ list = {RecOf(p) : p \in Wanted \ (todo \union {who})}
        /\ opt \notin OnSiblings => who \in Descendants(base)
        /\ rec = StatOf(who)
    BY <1>1, <1>2 DEF CollectInv, BeingRead
  <1>4. InProc(who) /\ Alive(who) /\ who \in Pid /\ bash[who] \in BOOLEAN
    BY <1>2, <1>3, StillTree DEF Procs, KernelInv
  <1> DEFINE r == [rec EXCEPT !.bash = InProc(who) /\ bash[who],
                              !.rss = IF Alive(who) THEN Rss[who] ELSE -1]
  <1>5. r = RecOf(who)
    <2>1. (InProc(who) /\ bash[who]) = bash[who]
      BY <1>4
    <2>2. (IF Alive(who) THEN Rss[who] ELSE -1) = Rss[who]
      BY <1>4
    <2>3. r = [StatOf(who) EXCEPT !.bash = bash[who], !.rss = Rss[who]]
      BY <1>3, <2>1, <2>2
    <2> HIDE DEF r
    <2> QED
      BY <2>3 DEF RecOf, StatOf
  <1>6. list' = IF opt \in OnSiblings /\ r.ppid # base THEN list ELSE list \union {r}
    BY DEF Status
  <1> HIDE DEF r
  <1>7. who \in Wanted <=> ~ (opt \in OnSiblings /\ r.ppid # base)
    BY <1>3, <1>4, <1>5, RecFields DEF Wanted, Skipped, Children
  <1>8. Wanted \ todo = (Wanted \ (todo \union {who})) \union (IF who \in Wanted THEN {who} ELSE {})
    BY <1>3
  <1>9. list' = {RecOf(p) : p \in Wanted \ todo}
    BY <1>3, <1>5, <1>6, <1>7, <1>8
  <1>10. {RecOf(p) : p \in Wanted \ (todo \union BeingRead)}' = {RecOf(p) : p \in Wanted \ todo}
    BY <1>1, <1>2 DEF BeingRead
  <1>11. CollectInv'
    BY <1>1, <1>2, <1>3, <1>9, <1>10 DEF CollectInv
  <1> QED
    BY <1>2, <1>11


\* Where the list is used it has what the option is for.
LEMMA UseExact ==
  ASSUME Inv, QuietInv, pc = "use"
  PROVE /\ KernelInv /\ StillInv /\ BaseInv /\ AncestorInv /\ UnionInv /\ target \in Pid
        /\ list = Recs(Wanted) /\ opt \in Collecting
        /\ opt \in Reports => list = Recs(Descendants(target))
        /\ opt \in {"bcp", "bop"} => list = Recs(Descendants(base)) /\ base \in Pid
        /\ opt \in OnFamily \union OnSiblings => PidsOf(Victims) = Named
  <1>1. KernelInv /\ StillInv /\ CollectInv /\ BaseInv /\ AncestorInv /\ UnionInv /\ target \in Pid
    BY DEF QuietInv, OutInv, Scanning, Inv, PlaceInv, KernelInv
  <1>2. opt \in Collecting /\ pc \in Collects
    BY DEF Inv, PlaceInv, Collects
  <1>3. Wanted \ (todo \union BeingRead) = Wanted
    BY <1>1 DEF CollectInv, BeingRead
  <1>4. list = Recs(Wanted)
    BY <1>1, <1>3 DEF CollectInv, Recs
  <1>5. opt \notin OnSiblings => Wanted = Descendants(base)
    BY DEF Wanted
  <1>6. opt \in Reports \union OnFamily => opt \notin OnSiblings /\ base = target
    BY <1>1 DEF BaseInv, Reports, OnFamily, OnSiblings
  <1>7. opt \in {"bcp", "bop"} => opt \notin OnSiblings /\ base \in Pid
    BY <1>1, <1>2 DEF OnSiblings, AncestorInv, UnionInv, MyBashes, Bashes
  <1>8. ASSUME opt \in OnFamily \union OnSiblings PROVE PidsOf(Victims) = Named
    <2>1. CASE opt \in OnSiblings
      <3>1. opt \notin OnFamily /\ prev \in Pid /\ base = ppid[prev] /\ base >= 1
            /\ prev = IF opt = "kps" THEN ppid[target] ELSE target
        BY <1>1, <1>2, <2>1 DEF BaseInv, OnFamily, OnSiblings
      <3>2. base \in Pid
        BY <1>1, <3>1, ToolAssumption DEF KernelInv, Pid
      <3> QED
        BY <1>1, <1>4, <1>8, <3>1, <3>2, VictimsExact
    <2>2. CASE opt \in OnFamily
      <3>1. opt \notin OnSiblings /\ base = target
        BY <1>6, <2>2
      <3> QED
        BY <1>1, <1>4, <2>2, <3>1, VictimsExact
    <2> QED
      BY <1>8, <2>1, <2>2
  <1> QED
    BY <1>1, <1>2, <1>4, <1>5, <1>6, <1>7, <1>8

LEMMA UseListQuiet ==
  ASSUME Inv, QuietInv, UseList PROVE QuietInv'
  <1> USE DEF UseList, At, Goto
  <1>1. /\ pc = "use" /\ Reads /\ UNCHANGED <<left, used, args>> /\ UNCHANGED <<walk, scan, bashes>>
    OBVIOUS
  <1>2. /\ StillInv' /\ left' = 0 /\ out = {}
        /\ UNCHANGED <<opt, target, root, me, ps, ppid, start, bash>> /\ Expected' = Expected
        /\ Bashes' = Bashes /\ Procs' = Procs /\ \A b : Descendants(b)' = Descendants(b)
        /\ pc' # "signal" => DtmInv'
    BY <1>1, ReadsQuiet
  <1>3. /\ KernelInv /\ StillInv /\ BaseInv /\ AncestorInv /\ UnionInv /\ target \in Pid
        /\ list = Recs(Wanted) /\ opt \in Collecting
        /\ opt \in Reports => list = Recs(Descendants(target))
        /\ opt \in {"bcp", "bop"} => list = Recs(Descendants(base)) /\ base \in Pid
        /\ opt \in OnFamily \union OnSiblings => PidsOf(Victims) = Named
    BY <1>1, UseExact
  <1>4. left' = 0 /\ out = {}
    BY <1>1, ReadsQuiet
  <1>5. base' = base /\ bashes' = bashes /\ pc \in Collects
    BY <1>1 DEF walk, Collects
  <1>6. CASE opt \in Reports \union {"bcp"}
    <2>1. pc' = "done" /\ out' = Report
      BY <1>6
    <2>2. Report \in Expected
      <3>1. CASE opt \in Reports
        BY <1>3, <3>1, CountsExact, MostExact, AgesExact DEF Reports
      <3>2. CASE opt = "bcp"
        BY <1>3, <1>5, <3>2, BcpExact DEF AncestorInv
      <3> QED
        BY <1>6, <3>1, <3>2
    <2>3. CollectInv' /\ AncestorInv' /\ UnionInv'
      BY <2>1 DEF CollectInv, AncestorInv, UnionInv, Collects
    <2>4. BaseInv'
      BY <1>2, <1>3, <1>5, <2>1 DEF BaseInv, Collects
    <2>5. opt \in Reporting \ OnOne /\ DtmInv'
      BY <1>2, <1>6, <2>1 DEF Reporting, Reports, OnOne
    <2> QED
      BY <1>2, <2>1, <2>2, <2>3, <2>4, <2>5 DEF QuietInv, OutInv
  <1>7. CASE opt = "bop"
    <2>1. pc' = "nextbash" /\ out' = out /\ all' = all \union PidsOf(list)
      BY <1>7 DEF Reports, PidsOf
    <2>2. PidsOf(list) = Descendants(base)
      <3>1. IsFiniteSet(Descendants(base))
        BY <1>3, <1>7, StillTree, DescendantsStep, FS_Subset
      <3> QED
        BY <1>3, <1>7, <3>1, RecsCount
    <2>3. all' = BelowAny(Bashes \ bashes) /\ bashes \subseteq Bashes
      BY <1>3, <1>5, <1>7, <2>1, <2>2 DEF UnionInv
    <2>4. BelowAny(Bashes \ bashes)' = BelowAny(Bashes \ bashes)
      BY <1>2, <1>5 DEF BelowAny
    <2>5. opt \in Reporting /\ DtmInv'
      BY <1>2, <1>7, <2>1 DEF Reporting
    <2>6. CollectInv' /\ AncestorInv' /\ UnionInv'
      BY <1>2, <1>5, <1>7, <2>1, <2>3, <2>4 DEF CollectInv, AncestorInv, UnionInv, Collects
    <2>7. BaseInv'
      BY <1>2, <1>3, <1>5, <2>1 DEF BaseInv, Collects
    <2> QED
      BY <1>2, <1>4, <2>1, <2>5, <2>6, <2>7 DEF QuietInv, OutInv
  <1>8. CASE opt \in OnFamily \union OnSiblings
    <2>1. opt \notin Reporting \union Reports \union {"bcp", "bop"}
      BY <1>8 DEF OnFamily, OnSiblings, Reports, Reporting
    <2>2. pc' = "signal" /\ list' = Victims /\ out' = out
      BY <2>1
    <2>3. DtmInv'
      <3> SUFFICES ASSUME opt = "dtm" PROVE DtmInv'
        BY <1>2 DEF DtmInv
      <3>1. /\ ever' = ever /\ ever = Descendants(target) /\ ever \subseteq Pid \ {1}
            /\ \A p \in Procs : ppid[p] < p /\ (ppid[p] \in ever => p \in ever)
        BY <1>1 DEF QuietInv, DtmInv, Scanning, Reads, ghost
      <3>2. list' = Recs(ever)
        BY <1>3, <2>2, <3>1 DEF Victims, opt_dtm, Wanted, OnSiblings, OnFamily, BaseInv
      <3>3. ever \subseteq Procs
        BY <1>3, <3>1, DescendantsStep
      <3>4. \A r \in list' : r.pid \in ever /\ r.start = r.pid \div 2 /\ (r.bash <=> bash[r.pid])
        <4> SUFFICES ASSUME NEW p \in ever
                     PROVE /\ RecOf(p).pid \in ever /\ RecOf(p).start = RecOf(p).pid \div 2
                           /\ RecOf(p).bash <=> bash[RecOf(p).pid]
          BY <3>2 DEF Recs
        <4>1. start[p] = p \div 2
          BY <1>3, <3>3, StillTree
        <4> QED
          BY <4>1, RecFields
      <3>5. PidsOf(list)' = ever
        <4>1. PidsOf(Recs(ever)) = ever
          BY <1>3, <3>3, StillTree, FS_Subset, RecsCount
        <4> QED
          BY <3>2, <4>1 DEF PidsOf
      <3>6. ~ Scanning'
        BY <1>2, <2>1, <2>2 DEF Scanning
      <3> QED
        BY <1>2, <3>1, <3>4, <3>5, <3>6 DEF DtmInv
    <2> QED
      BY <1>2, <1>3, <1>4, <1>5, <1>8, <2>1, <2>2, <2>3
         DEF QuietInv, OutInv, CollectInv, BaseInv, AncestorInv, UnionInv, Collects, Scanning
  <1> QED
    BY <1>3, <1>6, <1>7, <1>8 DEF Collecting

LEMMA SignalOneQuiet ==
  ASSUME Inv, QuietInv, SignalOne PROVE QuietInv'
  <1>1. /\ pc = "signal1" /\ pc' = "done" /\ opt' = opt /\ left' = left
        /\ out' = (IF InProc(cur) /\ cur # me THEN {cur} ELSE out)
        /\ Signalled(cur)
        /\ UNCHANGED <<base, target, me>>
    BY DEF SignalOne, At, Goto, args, walk
  <1>2. opt \in OnOne /\ left = 0 /\ out = {} /\ One = {cur} /\ StillInv
    BY <1>1 DEF QuietInv, OutInv, BaseInv, Scanning
  <1>3. opt \notin Reporting \union Reports \union OnFamily \union OnSiblings /\ opt # "dtm"
    BY <1>2 DEF OnOne, Reporting, Reports, OnFamily, OnSiblings
  <1>4. cur \in Pid /\ cur \in Nat /\ cur # 1 /\ InProc(cur) /\ Alive(cur)
    <2>1. cur \in Pid /\ cur \in Nat
      BY ToolAssumption DEF Inv, PlaceInv, KernelInv, Pid
    <2>2. cur \in Aim /\ cur > 1
      BY <1>2 DEF One
    <2>3. InProc(cur)
      <3>1. \A p \in Pid : ppid[p] \in Pid => InProc(ppid[p])
        <4> TAKE p \in Pid
        <4>1. NPid \in Nat /\ Quiet \in Nat /\ p \in Nat /\ Pid = 1 .. NPid
          BY ToolAssumption DEF Pid
        <4>2. IF p = 1 \/ p > Quiet THEN ppid[p] = 0 ELSE ppid[p] \in 1 .. p - 1
          BY <1>2 DEF StillInv
        <4>3. ppid[p] \in Pid => ppid[p] =< Quiet
          BY <4>1, <4>2
        <4> QED
          BY <1>2, <4>3 DEF StillInv
      <3>2. target \in Pid /\ InProc(root)
        BY <1>2 DEF Inv, PlaceInv, KernelInv, StillInv
      <3>3. cur = root \/ \E p \in Pid : cur = ppid[p]
        <4>1. CASE opt = "kpp"
          BY <2>2, <3>2, <4>1 DEF Aim
        <4>2. CASE opt = "kgp"
          BY <2>2, <4>2 DEF Aim
        <4>3. CASE opt = "krp"
          BY <2>2, <4>3 DEF Aim
        <4> QED
          BY <1>2, <4>1, <4>2, <4>3 DEF OnOne
      <3> QED
        BY <2>1, <3>1, <3>2, <3>3
    <2> QED
      BY <1>2, <2>1, <2>2, <2>3 DEF StillInv
  <1>5. ps'[cur] = "zombie"
    <2>1. opt # "sst" /\ opt # "sco"
      BY <1>2 DEF OnOne
    <2>2. ps' = [ps EXCEPT ![cur] = "zombie"]
      BY <1>1, <1>4, <2>1 DEF Signalled, Ends
    <2> QED
      BY <1>4, <2>2 DEF Inv, KernelInv
  <1>6. OneDone'
    <2>1. CASE cur = me
      BY <1>1, <1>2, <1>5, <2>1 DEF OneDone, Alive
    <2>2. CASE cur # me
      BY <1>1, <1>4, <1>5, <2>2 DEF OneDone, Alive
    <2> QED
      BY <2>1, <2>2
  <1> QED
    BY <1>1, <1>2, <1>3, <1>6
       DEF QuietInv, OutInv, Scanning, CollectInv, BaseInv, AncestorInv, UnionInv, DtmInv, Collects

LEMMA DtmSignals ==
  ASSUME Inv, DtmInv, SignalNext, opt = "dtm" PROVE DtmInv'
  <1> USE DEF SignalNext, SignalWith, At, Goto
  <1>1. pc = "signal" /\ UNCHANGED <<opt, target>> /\ pc' \in {"signal", "done"} /\ list' \subseteq list
    BY DEF args
  <1>2. /\ ever \subseteq Pid \ {1}
        /\ \A p \in Procs : ppid[p] < p /\ (ppid[p] \in ever => p \in ever)
        /\ \A r \in list : /\ r.pid \in ever /\ r.start = r.pid \div 2
                           /\ r.bash <=> bash[r.pid]
        /\ \A c \in ever : Alive(c) /\ ~ bash[c] => c \in PidsOf(list)
    BY <1>1 DEF DtmInv
  <1>3. ~ Scanning'
    BY <1>1 DEF Scanning, Reporting, Reports
  <1>4. Procs \subseteq Pid /\ Pid \subseteq Nat /\ 1 \in Pid /\ 0 \notin Pid /\ KernelInv
    BY ToolAssumption DEF Procs, Pid, Inv
  <1>5. ASSUME NEW p \in ever, Signalled(p)
        PROVE /\ ever' = ever /\ bash' = bash /\ Procs' = Procs
              /\ \A q \in Procs : ppid'[q] < q /\ (ppid'[q] \in ever => q \in ever)
              /\ \A q \in ever : Alive(q)' => Alive(q) /\ q # p
    <2>1. ever' = ever /\ bash' = bash /\ p \in Pid \ {1}
      BY <1>2, <1>5 DEF Signalled
    <2>2. CASE ~ Alive(p)
      BY <1>2, <1>4, <1>5, <2>1, <2>2 DEF Signalled, Procs, InProc, Alive
    <2>3. CASE Alive(p)
      <3>1. ps' = [ps EXCEPT ![p] = "zombie"] /\ ppid' = [q \in Pid |-> IF ppid[q] = p THEN 1 ELSE ppid[q]]
        BY <1>5, <2>1, <2>3 DEF Signalled, Ends, Orphaned
      <3>2. Procs' = Procs
        BY <2>3, <3>1, <1>4 DEF Procs, InProc, Alive, KernelInv
      <3>3. \A q \in ever : Alive(q)' => Alive(q) /\ q # p
        BY <1>2, <1>4, <3>1 DEF Alive, KernelInv
      <3>4. \A q \in Procs : ppid'[q] < q /\ (ppid'[q] \in ever => q \in ever)
        <4> TAKE q \in Procs
        <4>1. CASE ppid[q] # p
          BY <1>2, <1>4, <3>1, <4>1
        <4>2. CASE ppid[q] = p
          <5>1. ppid'[q] = 1 /\ p < q /\ p \in Nat /\ q \in Nat /\ p >= 1
            BY <1>2, <1>4, <2>1, <3>1, <4>2 DEF Pid
          <5> QED
            BY <1>2, <5>1
        <4> QED
          BY <4>1, <4>2
      <3> QED
        BY <2>1, <3>2, <3>3, <3>4
    <2> QED
      BY <2>2, <2>3
  <1>6. CASE list = {} /\ pc' = "done" /\ Reads
    <2>1. UNCHANGED <<ever, ppid, ps, Procs>>
      BY <1>6 DEF Reads, ghost, kernel, Procs, InProc
    <2> QED
      BY <1>1, <1>2, <1>3, <1>6, <2>1 DEF DtmInv
  <1>7. ASSUME NEW r \in list, list' = list \ {r}, IF r.bash THEN Reads ELSE Signalled(r.pid)
        PROVE DtmInv'
    <2>1. /\ ever' = ever /\ bash' = bash /\ Procs' = Procs
          /\ \A q \in Procs : ppid'[q] < q /\ (ppid'[q] \in ever => q \in ever)
          /\ \A q \in ever : Alive(q)' /\ ~ bash[q] => Alive(q) /\ q # r.pid
      <3>1. CASE r.bash
        <4>1. UNCHANGED <<ever, bash, ppid, ps, Procs>>
          BY <1>7, <3>1 DEF Reads, ghost, kernel, Procs, InProc
        <4>2. \A q \in ever : Alive(q)' <=> Alive(q)
          BY <4>1 DEF Alive
        <4> QED
          BY <1>2, <3>1, <4>1, <4>2
      <3>2. CASE ~ r.bash
        BY <1>2, <1>5, <1>7, <3>2
      <3> QED
        BY <3>1, <3>2
    <2>2. \A c \in ever : Alive(c)' /\ ~ bash[c] => c \in PidsOf(list')
      BY <1>2, <1>7, <2>1 DEF PidsOf
    <2>3. \A r1 \in list' : r1.pid \in ever /\ r1.start = r1.pid \div 2 /\ (r1.bash <=> bash[r1.pid])
      BY <1>1, <1>2
    <2> QED
      BY <1>1, <1>2, <1>3, <2>1, <2>2, <2>3 DEF DtmInv, PidsOf
  <1> QED
    BY <1>6, <1>7

LEMMA SignalNextQuiet ==
  ASSUME Inv, QuietInv, SignalNext PROVE QuietInv'
  <1>1. /\ pc = "signal" /\ pc' \in {"signal", "done"} /\ opt' = opt /\ left' = left /\ out' = out
        /\ UNCHANGED <<base, target>>
    BY DEF SignalNext, SignalWith, At, Goto, args, walk
  <1>2. opt \in OnFamily \union OnSiblings /\ left = 0 /\ out = {} /\ DtmInv /\ BaseInv
    BY <1>1 DEF QuietInv, OutInv, BaseInv
  <1>3. opt \notin Reporting \union Reports \union OnOne
    BY <1>2 DEF OnOne, Reporting, Reports, OnFamily, OnSiblings
  <1>4. Expected' = {{}}
    <2>1. (opt \in OnFamily \union OnSiblings \union OnOne => Expected = {{}})'
      BY ExpectedNothing, PTL
    <2> QED
      BY <1>1, <1>2, <2>1
  <1>5. DtmInv'
    BY <1>1, <1>2, DtmSignals DEF DtmInv
  <1>6. BaseInv'
    BY <1>1, <1>2 DEF BaseInv, Collects
  <1> QED
    BY <1>1, <1>2, <1>3, <1>4, <1>5, <1>6
       DEF QuietInv, OutInv, Scanning, CollectInv, AncestorInv, UnionInv, Collects
-----------------------------------------------------------------------------
QuietlySafe == quiet => Inv /\ QuietInv

LEMMA InitQuietly == Init => QuietlySafe
  BY InitInv, InitQuiet DEF Init, QuietlySafe

LEMMA StepQuietly ==
  ASSUME QuietlySafe, [Next]_vars PROVE QuietlySafe'
  <1>1. quiet' = quiet
    BY DEF Next, Tool, CheckRoot, Hop, Single, IsBash, Up, FindBash, Comm, NextBash, Open, OpenFails, NextPid,
           Climb, ClimbWith, Stat, Status, UseList, SignalOne, SignalNext, SignalWith, At, args, vars,
           Others, OtherExits, Reaped, BecomesBash, Forks, Event, tool
  <1> SUFFICES ASSUME Inv, QuietInv PROVE (Inv /\ QuietInv)'
    BY <1>1 DEF QuietlySafe
  <1>2. CASE Tool
    <2>1. Inv'
      BY <1>2, CheckRootKept, HopKept, SingleKept, WalksKept, StatKept, StatusKept, UseListKept,
         SignalOneKept, SignalNextKept DEF Tool
    <2>2. QuietInv'
      BY <1>2, CheckRootQuiet, HopQuiet, SingleQuiet, UpwardQuiet, BashesQuiet, OpenQuiet,
         OpenFailsQuiet, NextPidQuiet, ClimbQuiet, StatQuiet, StatusQuiet, UseListQuiet, SignalOneQuiet,
         SignalNextQuiet DEF Tool
    <2> QED
      BY <2>1, <2>2
  <1>3. ~ Others
    BY DEF Others, OtherExits, Reaped, BecomesBash, Forks, Event, QuietInv
  <1>4. CASE UNCHANGED vars
    <2>1. Inv'
      BY <1>4 DEF vars, kernel, args, walk, scan, bop, ghost, Inv, KernelInv, PlaceInv, BashInv,
                  SparesBash, NoBash, InProc
    <2>2. UNCHANGED <<Scanning, StillInv, CollectInv, BaseInv, AncestorInv, UnionInv, DtmInv, OutInv>>
      <3>0. UNCHANGED <<Aim, One>>
        BY <1>4 DEF vars, kernel, args, walk, Aim, One, Descendants, InProc
      <3>1. UNCHANGED <<Scanning, StillInv, BaseInv, DtmInv>>
        BY <1>4, <3>0 DEF vars, kernel, args, walk, scan, bop, ghost, Scanning, StillInv, BaseInv,
                    DtmInv, Procs, InProc, Alive, Under, Descendants, PidsOf
      <3>2. UNCHANGED <<CollectInv, AncestorInv, UnionInv>>
        BY <1>4 DEF vars, kernel, args, walk, scan, bop, ghost, CollectInv, AncestorInv, UnionInv,
                    Procs, InProc, Under, Descendants, Wanted, BeingRead, RecOf, StatOf, Skipped,
                    Children, MyBashes, Bashes, BelowAny
      <3>3. UNCHANGED Expected
        BY <1>4 DEF vars, kernel, args, Expected, Descendants, MyBashes, Children, InProc, Number, Some
      <3>4. UNCHANGED OutInv
        BY <1>4, <3>0, <3>3 DEF vars, kernel, args, OutInv, OneDone, Alive
      <3> QED
        BY <3>1, <3>2, <3>4
    <2> QED
      BY <1>4, <2>1, <2>2 DEF QuietInv, vars, args
  <1> QED
    BY <1>2, <1>3, <1>4 DEF Next

\* On a tree that nobody else changes every option prints what it is for and signals
\* exactly the processes, or for -kpp, -kgp and -krp the one process, it names: for any number of processes and any tree in which
\* a child has a larger pid than its parent and is not the elder, any memory and
\* times, and one file of /proc at a time (A2.c).
THEOREM ExactCorrect == Spec => []ExactWhenQuiet
  <1>1. ASSUME QuietlySafe PROVE ExactWhenQuiet
    <2> SUFFICES ASSUME quiet, Inv, QuietInv
                 PROVE /\ pc = "done" /\ opt \notin OnOne => out \in Expected
                       /\ pc = "use" /\ opt \notin Reports \union {"bcp", "bop"}
                             => PidsOf(Victims) = Named
                       /\ pc = "signal1" => One = {cur}
                       /\ pc = "done" /\ opt \in OnOne => OneDone
                       /\ pc = "failed" => out = {} /\ \A p \in Pid : ps[p] # "zombie"
      BY <1>1 DEF QuietlySafe, ExactWhenQuiet, OneDone
    <2>1. /\ pc = "done" /\ opt \notin OnOne => out \in Expected
          /\ pc = "done" /\ opt \in OnOne => OneDone
          /\ pc = "signal1" => One = {cur}
      BY DEF QuietInv, OutInv, BaseInv
    <2>3. pc = "failed" => out = {} /\ \A p \in Pid : ps[p] # "zombie"
      BY DEF QuietInv, OutInv, Scanning, StillInv, InProc, Alive
    <2>2. pc = "use" /\ opt \notin Reports \union {"bcp", "bop"} => PidsOf(Victims) = Named
      BY UseExact DEF Collecting
    <2> QED
      BY <2>1, <2>2, <2>3
  <1> QED
    BY <1>1, InitQuietly, StepQuietly, PTL DEF Spec

\* -dtm kills what is below a process before the process, two of one clock tick
\* too: what is below it is on the list and comes before it, or is gone, or is a
\* bash (opt_dtm, cmp_proc_start_desc).
THEOREM DtmCorrect == Spec => DtmLeavesFirst
  <1>1. ASSUME QuietlySafe, [Next]_vars, quiet, opt = "dtm", NEW p \in Pid, Alive(p),
               ps'[p] = "zombie", pc = "signal", NEW c \in Descendants(p), Alive(c)
        PROVE bash[c]
    <2>1. Inv /\ KernelInv /\ QuietInv /\ DtmInv /\ left = 0
      BY <1>1 DEF QuietlySafe, QuietInv, Inv
    <2>2. ps' # ps
      BY <1>1 DEF Alive
    <2>3. SignalNext /\ ~ Reads
      BY <1>1, <2>1, <2>2
         DEF Next, Tool, CheckRoot, Hop, Single, IsBash, Up, FindBash, Comm, NextBash, Open, OpenFails, NextPid,
             Climb, ClimbWith, Stat, Status, UseList, SignalOne, At, vars, kernel, Reads,
             Others, OtherExits, Reaped, BecomesBash, Forks, Event
    <2>4. PICK r \in list : (\A q \in list \ {r} : Before(r, q)) /\ Signalled(r.pid)
      BY <2>3 DEF SignalNext, SignalWith
    <2>5. /\ ever \subseteq Pid \ {1}
          /\ \A q \in Procs : ppid[q] < q /\ (ppid[q] \in ever => q \in ever)
          /\ \A q \in list : q.pid \in ever /\ q.start = q.pid \div 2
          /\ Alive(c) /\ ~ bash[c] /\ c \in ever => c \in PidsOf(list)
      BY <1>1, <2>1 DEF DtmInv
    <2>6. p = r.pid
      <3>1. r.pid \in Pid \ {1}
        BY <2>4, <2>5
      <3>2. ps' = [ps EXCEPT ![r.pid] = "zombie"]
        BY <1>1, <2>2, <2>4, <3>1 DEF Signalled, Ends
      <3> QED
        BY <1>1, <2>1, <3>2 DEF Alive, KernelInv
    <2>7. c \in ever
      <3> DEFINE S == ever \union {p}
      <3>1. p \in ever
        BY <2>5, <2>6
      <3>2. S \in SUBSET Pid /\ p \in S /\ \A q \in Procs : ppid[q] \in S => q \in S
        BY <2>5, <3>1
      <3>3. Procs \in SUBSET Pid /\ Descendants(p) = Below(p, Procs, ppid)
        BY DEF Descendants, Procs
      <3> HIDE DEF S
      <3>4. Descendants(p) \subseteq S
        BY <3>2, <3>3, BelowLeast
      <3> QED
        BY <1>1, <3>1, <3>4 DEF S
    <2> SUFFICES ASSUME ~ bash[c] PROVE FALSE
      OBVIOUS
    <2>8. PICK x \in list : x.pid = c
      BY <1>1, <2>5, <2>7 DEF PidsOf
    <2>9. p < c /\ p \in Nat /\ c \in Nat
      <3>1. Ordered
        BY <2>5 DEF Ordered
      <3>2. p < c
        BY <1>1, <2>1, <3>1, DescendantsOrder
      <3> QED
        BY <2>5, <2>7, <3>2, ToolAssumption DEF Pid
    <2>10. Before(r, x)
      BY <2>4, <2>6, <2>8, <2>9
    <2>11. p \div 2 > c \div 2 \/ (p \div 2 = c \div 2 /\ p > c)
      BY <1>1, <2>5, <2>6, <2>8, <2>10 DEF Before, LatestFirst
    <2> QED
      BY <2>9, <2>11
  <1>2. QuietlySafe /\ [Next]_vars =>
          [quiet /\ opt = "dtm" => \A p \in Pid :
             Alive(p) /\ ps'[p] = "zombie" /\ pc = "signal"
                => \A c \in Descendants(p) : Alive(c) => bash[c]]_vars
    BY <1>1
  <1> QED
    BY <1>2, InitQuietly, StepQuietly, PTL DEF Spec, DtmLeavesFirst
=============================================================================
