------------------------------ MODULE ProcTool -------------------------------
(***************************************************************************)
(* src/A2/A2.c: a tool that reads the process tree from /proc, one file at *)
(* a time, and then reports on it or signals processes of it.  The process *)
(* table it reads is the kernel's: between two reads processes end, are    *)
(* waited for, fork, or become bash.  The steps of the environment are     *)
(* external and bounded by Events; in a quiet run there are none.          *)
(*                                                                         *)
(* The directory stream of /proc is one snapshot of the pids (a buffer of  *)
(* readdir); every file is read when the tool gets to it.                  *)
(***************************************************************************)
EXTENDS Integers, FiniteSets

CONSTANTS
    NPid,       \* pids are 1 .. NPid, 1 is init
    Quiet,      \* how many processes there are at the start of a quiet run
    Busy,       \* and when other processes take steps too
    MaxBash,    \* bound: how many of them are bash
    QuietOptions, BusyOptions,  \* the command-line options tried
    Rss, Cpu,   \* memory (-1 for a kernel thread) and clock ticks of each process
    Events,     \* bound: how many steps of other processes happen
    Reuse       \* may fork give out a pid a second time?

Pid == 1 .. NPid

Reports   == {"cnt", "dnd", "oct", "odt", "ndt", "mmd", "mpd"}
OnFamily  == {"dtm", "kgc", "kcp"}
OnSiblings == {"sst", "sco", "ksp", "kps"}
OnOne     == {"kpp", "kgp", "krp"}
Options   == Reports \union OnFamily \union OnSiblings \union OnOne
               \union {"none", "bcp", "bop"}

ASSUME ToolAssumption ==
    /\ NPid \in Nat \ {0} /\ Quiet \in 1 .. NPid /\ Busy \in 1 .. NPid
    /\ Rss \in [Pid -> Int] /\ Cpu \in [Pid -> Nat]
    /\ QuietOptions \union BusyOptions \subseteq Options
    /\ MaxBash \in Nat /\ Events \in Nat /\ Reuse \in BOOLEAN

\* What read_proc_info stores of a process.
Proc == [pid : Pid, ppid : 0 .. NPid, state : {"run", "stop", "zombie"},
         start : 0 .. NPid, bash : BOOLEAN, rss : Int, cpu : Nat]

VARIABLES
    ps, ppid, start, bash,  \* the kernel's processes
    left, used,             \* environment steps left; pids given out so far
    quiet,                  \* does nothing else happen?
    opt, root, target, me,  \* the command line and the tool's own pid
    pc,                     \* what the tool is doing
    hops,                   \* parents still to be looked up
    cur, prev,              \* the pid read next and the one before it
    base,                   \* whose descendants or children are collected
    todo, who, rec,         \* pids of /proc not read yet; the one being read
    list,                   \* what has been collected
    bashes, all,            \* -bop: the bash processes left, the pids found
    out,                    \* what is printed: a number, or some pids
    ever,                   \* every process that ever was below target
    strangers,              \* the processes signalled as its family that never were
    turned, hitBash         \* those that became bash; those signalled as bash

kernel == <<ps, ppid, start, bash>>
args   == <<quiet, opt, root, target, me>>
walk   == <<hops, cur, prev, base>>
scan   == <<todo, who, rec>>
bop    == <<bashes, all>>
ghost  == <<ever, strangers, turned, hitBash>>
vars   == <<kernel, left, used, args, pc, walk, scan, list, bop, out, ghost>>

InProc(p) == ps[p] # "free"     \* /proc/p exists, of a zombie too
Alive(p)  == ps[p] \in {"run", "stop"}

\* The reference: the processes below b are in every set that has b and with a
\* process its children.
Below(b, procs, parent) ==
    {p \in Pid : \A S \in SUBSET Pid :
                   b \in S /\ (\A q \in procs : parent[q] \in S => q \in S) => p \in S} \ {b}
Descendants(b) == Below(b, {p \in Pid : InProc(p)}, ppid)

Children(b) == {p \in Pid : InProc(p) /\ ppid[p] = b}

Hops(o) == CASE o \in {"kpp", "sst", "sco", "ksp"} -> 1
             [] o \in {"kgp", "kps"} -> 2
             [] OTHER -> 0

\* The trees of n processes, each forked after its parent.
Trees(n) == {f \in [Pid -> 0 .. NPid] :
               \A p \in Pid : IF p = 1 \/ p > n THEN f[p] = 0 ELSE f[p] \in 1 .. p - 1}

\* The processes are numbered in the order they were forked; two in a row were
\* forked in the same clock tick.
InitWith(n, options) ==
    /\ opt \in options
    /\ me \in 2 .. n
    /\ \E stopped \in SUBSET (2 .. n \ {me}) :
         /\ stopped # {} => opt = "sco"
         /\ ps = [p \in Pid |-> IF p > n THEN "free"
                               ELSE IF p \in stopped THEN "stop" ELSE "run"]
    /\ ppid \in Trees(n) /\ \A p \in Pid : ppid[p] # me
    /\ start = [p \in Pid |-> p \div 2]
    /\ \E B \in SUBSET (2 .. n \ {me}) :
         Cardinality(B) =< MaxBash /\ bash = [p \in Pid |-> p \in B]
    /\ target \in 1 .. n
    /\ root \in IF opt \in {"none", "krp"} THEN 1 .. n ELSE {target}
    /\ left = (IF quiet THEN 0 ELSE Events) /\ used = 1 .. n
    /\ pc = IF opt = "bcp" THEN "isbash" ELSE IF opt = "bop" THEN "findbash" ELSE "check"
    /\ cur = IF opt = "bcp" THEN me ELSE target
    /\ hops = Hops(opt) /\ prev = target /\ base = target
    /\ todo = {} /\ who = 1 /\ rec = [pid |-> 1]
    /\ list = {} /\ bashes = {} /\ all = {} /\ out = {}
    /\ ever = Descendants(target) /\ strangers = {} /\ turned = {} /\ hitBash = {}

Init == \/ quiet = TRUE  /\ InitWith(Quiet, QuietOptions)
        \/ quiet = FALSE /\ InitWith(Busy, BusyOptions)
-----------------------------------------------------------------------------
(* Other processes (external). *)

\* A process that ends is a zombie, and its children go to init.
Orphaned(p) == [q \in Pid |-> IF ppid[q] = p THEN 1 ELSE ppid[q]]
Ends(p) == ps' = [ps EXCEPT ![p] = "zombie"] /\ ppid' = Orphaned(p)

tool == <<args, pc, walk, scan, list, bop, out>>
Event == left > 0 /\ left' = left - 1 /\ UNCHANGED tool

OtherExits(p) ==
    /\ p \notin {1, me} /\ Alive(p)
    /\ Event /\ Ends(p)
    /\ UNCHANGED <<start, bash, used, ghost>>

\* Its parent, or init, waits for a zombie: the pid is free again.
Reaped(p) ==
    /\ p # me /\ ps[p] = "zombie" /\ Event
    /\ ps' = [ps EXCEPT ![p] = "free"] /\ ppid' = [ppid EXCEPT ![p] = 0]
    /\ UNCHANGED <<start, bash, used, ghost>>

Forks(q, p) ==
    /\ q # me /\ ps[q] = "run" /\ ps[p] = "free" /\ (p \in used => Reuse)
    /\ Event
    /\ used' = used \union {p}
    /\ ps' = [ps EXCEPT ![p] = "run"] /\ ppid' = [ppid EXCEPT ![p] = q]
    /\ start' = [start EXCEPT ![p] = NPid] /\ bash' = [bash EXCEPT ![p] = bash[q]]
    /\ ever' = IF q \in Descendants(target) \union {target}
               THEN ever \union {p} ELSE ever \ {p}
    /\ UNCHANGED <<strangers, turned, hitBash>>

BecomesBash(p) ==
    /\ p \notin {1, me} /\ ps[p] = "run" /\ ~ bash[p] /\ Event
    /\ bash' = [bash EXCEPT ![p] = TRUE] /\ turned' = turned \union {p}
    /\ UNCHANGED <<ps, ppid, start, used, ever, strangers, hitBash>>

Others == \E p \in Pid : \/ OtherExits(p)
                         \/ Reaped(p)
                         \/ BecomesBash(p)
                         \/ \E q \in Pid : Forks(q, p)
-----------------------------------------------------------------------------
(* The tool.  It takes steps as long as it is neither stopped nor ended.   *)

At(where)  == pc = where /\ ps[me] = "run" /\ UNCHANGED <<left, used, args>>
Reads      == UNCHANGED <<kernel, ghost>>
Goto(next) == pc' = next

\* What the option does first, once process_id is known to be below root.
Dispatch ==
    IF opt = "none" THEN "done"
    ELSE IF opt = "krp" THEN "single"
    ELSE IF Hops(opt) > 0 THEN "hop" ELSE "open"

\* opt_default: follow the parents of process_id up to root_process.
CheckRoot ==
    /\ At("check") /\ Reads
    /\ IF cur = root
       THEN /\ Goto(Dispatch) /\ out' = IF opt = "none" THEN {target} ELSE out
            /\ cur' = IF opt = "krp" THEN root ELSE target
       ELSE /\ IF InProc(cur) /\ ppid[cur] > 0
               THEN Goto("check") /\ cur' = ppid[cur]
               ELSE Goto("done") /\ UNCHANGED cur
            /\ UNCHANGED out
    /\ UNCHANGED <<hops, prev, base, scan, list, bop>>

\* read_ppid_from_proc of cur, for the options on parents and siblings.
Hop ==
    /\ At("hop") /\ Reads
    /\ IF InProc(cur) /\ ppid[cur] >= 1
       THEN /\ cur' = ppid[cur] /\ prev' = cur /\ hops' = hops - 1
            /\ base' = IF opt \in OnSiblings THEN ppid[cur] ELSE base
            /\ Goto(IF hops > 1 THEN "hop"
                    ELSE IF opt \in OnOne THEN "single" ELSE "open")
       ELSE Goto("done") /\ UNCHANGED walk
    /\ UNCHANGED <<scan, list, bop, out>>

\* -kpp, -kgp, -krp: the process found is spared if it is init or bash.
Single ==
    /\ At("single") /\ Reads
    /\ Goto(IF cur =< 1 \/ (InProc(cur) /\ bash[cur]) THEN "done" ELSE "signal1")
    /\ UNCHANGED <<walk, scan, list, bop, out>>

\* find_current_bash_ancestor, from the tool's own pid: comm, then the parent.
IsBash ==
    /\ At("isbash") /\ Reads
    /\ IF InProc(cur) /\ bash[cur]
       THEN Goto("open") /\ base' = cur
       ELSE Goto("up") /\ UNCHANGED base
    /\ UNCHANGED <<hops, cur, prev, scan, list, bop, out>>

Up ==
    /\ At("up") /\ Reads
    /\ IF InProc(cur) /\ ppid[cur] > 1
       THEN Goto("isbash") /\ cur' = ppid[cur]
       ELSE Goto("done") /\ UNCHANGED cur
    /\ UNCHANGED <<hops, prev, base, scan, list, bop, out>>

\* -bop: find every bash process, one comm at a time.
FindBash ==
    /\ At("findbash") /\ Reads
    /\ todo' = {p \in Pid : InProc(p)} /\ Goto("comm")
    /\ UNCHANGED <<walk, who, rec, list, bop, out>>

First(S) == CHOOSE p \in S : \A q \in S : p =< q

Comm ==
    /\ At("comm") /\ Reads
    /\ IF todo # {}
       THEN LET p == First(todo) IN
            /\ todo' = todo \ {p} /\ Goto("comm")
            /\ bashes' = IF InProc(p) /\ bash[p] THEN bashes \union {p} ELSE bashes
       ELSE Goto("nextbash") /\ UNCHANGED <<todo, bashes>>
    /\ UNCHANGED <<walk, who, rec, list, all, out>>

NextBash ==
    /\ At("nextbash") /\ Reads
    /\ IF bashes # {}
       THEN /\ base' = First(bashes) /\ bashes' = bashes \ {First(bashes)}
            /\ Goto("open") /\ UNCHANGED out
       ELSE Goto("done") /\ out' = {Cardinality(all)} /\ UNCHANGED <<base, bashes>>
    /\ UNCHANGED <<hops, cur, prev, scan, list, all>>

\* collect_descendants and collect_siblings: opendir, then each pid in turn.
Open ==
    /\ At("open") /\ Reads
    /\ todo' = {p \in Pid : InProc(p)} /\ list' = {} /\ Goto("next")
    /\ UNCHANGED <<walk, who, rec, bop, out>>

\* opendir("/proc") fails: the option ends with a message, -bop also when it has
\* been through some of the bash processes already.
OpenFails ==
    /\ \E where \in {"open", "findbash"} : At(where)
    /\ Reads /\ Goto("failed")
    /\ UNCHANGED <<walk, scan, list, bop, out>>

Skipped == IF opt \in OnSiblings THEN prev ELSE base

NextPid ==
    /\ At("next") /\ Reads
    /\ IF todo # {}
       THEN LET p == First(todo) IN
            /\ todo' = todo \ {p} /\ who' = p /\ cur' = p
            /\ Goto(IF p = Skipped THEN "next"
                    ELSE IF opt \in OnSiblings THEN "stat" ELSE "climb")
       ELSE Goto("use") /\ UNCHANGED <<todo, who, cur>>
    /\ UNCHANGED <<hops, prev, base, rec, list, bop, out>>

\* One read_ppid_from_proc on the way up from who to base.
ClimbWith(stop) ==
    /\ At("climb") /\ Reads
    /\ IF ~ InProc(cur) THEN Goto("next") /\ UNCHANGED cur
       ELSE IF ppid[cur] = base THEN Goto("stat") /\ UNCHANGED cur
       ELSE IF ppid[cur] =< stop THEN Goto("next") /\ UNCHANGED cur
       ELSE Goto("climb") /\ cur' = ppid[cur]
    /\ UNCHANGED <<hops, prev, base, scan, list, bop, out>>

\* Variant: the end of the walk is not told from its success.
Climb_to_init ==
    /\ At("climb") /\ Reads
    /\ IF ~ InProc(cur) \/ ppid[cur] = 0 THEN Goto("next") /\ UNCHANGED cur
       ELSE IF ppid[cur] \in {base, 1} THEN Goto("stat") /\ UNCHANGED cur
       ELSE Goto("climb") /\ cur' = ppid[cur]
    /\ UNCHANGED <<hops, prev, base, scan, list, bop, out>>

Climb == ClimbWith(1)

\* read_proc_info: /proc/who/stat, then /proc/who/status, which may be gone.
Stat ==
    /\ At("stat") /\ Reads
    /\ IF InProc(who)
       THEN /\ Goto("status")
            /\ rec' = [pid |-> who, ppid |-> ppid[who], state |-> ps[who],
                       start |-> start[who], cpu |-> Cpu[who],
                       bash |-> FALSE, rss |-> -1]
       ELSE Goto("next") /\ UNCHANGED rec
    /\ UNCHANGED <<walk, todo, who, list, bop, out>>

Status ==
    /\ At("status") /\ Reads
    /\ LET r == [rec EXCEPT !.bash = InProc(who) /\ bash[who],
                            !.rss = IF Alive(who) THEN Rss[who] ELSE -1] IN
       /\ rec' = r
       /\ list' = IF opt \in OnSiblings /\ r.ppid # base THEN list ELSE list \union {r}
    /\ Goto("next")
    /\ UNCHANGED <<walk, todo, who, bop, out>>

ChildrenIn(S) == {r \in S : r.ppid = target}
PidsOf(S) == {r.pid : r \in S}

\* Which of the collected processes an option signals.
opt_dtm == list
opt_kcp == ChildrenIn(list)

\* Variant: -kgc takes the children too.
opt_kgc_all == {r \in list : r.ppid \in PidsOf(ChildrenIn(list)) \union {target}}

opt_kgc == {r \in list : r.ppid \in PidsOf(ChildrenIn(list))}
opt_sst == list
opt_sco == {r \in list : r.state = "stop"}
opt_ksp == list
opt_kps == list

Victims == CASE opt = "dtm" -> opt_dtm [] opt = "kcp" -> opt_kcp [] opt = "kgc" -> opt_kgc
             [] opt = "sst" -> opt_sst [] opt = "sco" -> opt_sco [] opt = "ksp" -> opt_ksp
             [] opt = "kps" -> opt_kps

\* What an option prints of the collected processes.
opt_cnt == {Cardinality(list)}
opt_bcp == {Cardinality(list)}
opt_dnd == {Cardinality(list) - Cardinality(ChildrenIn(list))}

\* The parent is init, or another process that is not a descendant.
opt_oct == {Cardinality({r \in list : /\ r.ppid > 0 /\ r.ppid # target
                                      /\ r.ppid = 1 \/ r.ppid \notin PidsOf(list)})}

\* The oldest, or newest, the smaller pid among equals.
opt_odt == PidsOf({r \in list : \A q \in list :
               r.start < q.start \/ (r.start = q.start /\ r.pid =< q.pid)})
opt_ndt == PidsOf({r \in list : \A q \in list :
               r.start > q.start \/ (r.start = q.start /\ r.pid =< q.pid)})

\* Everyone with the most memory, unless there is nobody with any.
opt_mmd == PidsOf({r \in list : r.rss >= 0 /\ \A q \in list : r.rss >= q.rss})
opt_mpd == PidsOf({r \in list : \A q \in list : r.cpu >= q.cpu})

Report == CASE opt = "cnt" -> opt_cnt [] opt = "bcp" -> opt_bcp [] opt = "dnd" -> opt_dnd
            [] opt = "oct" -> opt_oct [] opt = "odt" -> opt_odt [] opt = "ndt" -> opt_ndt
            [] opt = "mmd" -> opt_mmd [] opt = "mpd" -> opt_mpd

UseList ==
    /\ At("use") /\ Reads
    /\ IF opt \in Reports \union {"bcp"}
       THEN Goto("done") /\ out' = Report /\ UNCHANGED <<list, all>>
       ELSE IF opt = "bop"
       THEN /\ Goto("nextbash") /\ all' = all \union {r.pid : r \in list}
            /\ UNCHANGED <<list, out>>
       ELSE Goto("signal") /\ list' = Victims /\ UNCHANGED <<all, out>>
    /\ UNCHANGED <<walk, scan, bashes>>

\* Variant: equal start times are not told apart by pid.
LatestFirst_ties(r, q) == \/ r.start > q.start
                          \/ r.start = q.start /\ r.pid < q.pid
\* cmp_proc_start_desc for -dtm, the order of /proc for the others.
LatestFirst(r, q) == \/ r.start > q.start
                     \/ r.start = q.start /\ r.pid > q.pid
Before(r, q) == IF opt = "dtm" THEN LatestFirst(r, q) ELSE r.pid < q.pid

\* kill(): no effect on a free pid, a zombie or init.
Signalled(p) ==
    /\ IF p = 1 \/ ~ Alive(p) THEN UNCHANGED <<ps, ppid>>
       ELSE IF opt = "sst" THEN ps' = [ps EXCEPT ![p] = "stop"] /\ UNCHANGED ppid
       ELSE IF opt = "sco" THEN ps' = [ps EXCEPT ![p] = "run"] /\ UNCHANGED ppid
       ELSE Ends(p)
    /\ strangers' = IF InProc(p) /\ opt \in OnFamily /\ p \notin ever
                    THEN strangers \union {p} ELSE strangers
    /\ hitBash' = IF Alive(p) /\ bash[p] THEN hitBash \union {p} ELSE hitBash
    /\ UNCHANGED <<start, bash, ever, turned>>

\* It prints the pid when kill has found the process, unless that is the tool itself.
SignalOne ==
    /\ At("signal1") /\ Signalled(cur) /\ Goto("done")
    /\ out' = IF InProc(cur) /\ cur # me THEN {cur} ELSE out
    /\ UNCHANGED <<walk, scan, list, bop>>

\* One turn of the loop: a bash is skipped.
SignalWith(spares) ==
    /\ At("signal")
    /\ \/ list = {} /\ Goto("done") /\ Reads /\ UNCHANGED list
       \/ \E r \in list :
            /\ \A q \in list \ {r} : Before(r, q)
            /\ list' = list \ {r} /\ Goto("signal")
            /\ IF spares /\ r.bash THEN Reads ELSE Signalled(r.pid)
    /\ UNCHANGED <<walk, scan, bop, out>>

\* Variant: bash is not skipped.
SignalNext_any == SignalWith(FALSE)

SignalNext == SignalWith(TRUE)

Tool == \/ CheckRoot \/ Hop \/ Single \/ IsBash \/ Up \/ FindBash \/ Comm
        \/ NextBash \/ Open \/ OpenFails \/ NextPid \/ Climb \/ Stat \/ Status \/ UseList
        \/ SignalOne \/ SignalNext

Next == Tool \/ Others
Spec == Init /\ [][Next]_vars
-----------------------------------------------------------------------------
TypeOK ==
    /\ ps \in [Pid -> {"free", "run", "stop", "zombie"}]
    /\ ppid \in [Pid -> 0 .. NPid] /\ start \in [Pid -> 0 .. NPid]
    /\ bash \in [Pid -> BOOLEAN]
    /\ left \in 0 .. Events /\ used \subseteq Pid
    /\ quiet \in BOOLEAN /\ opt \in QuietOptions \union BusyOptions
    /\ {root, target, me, cur, prev, base, who} \subseteq Pid
    /\ hops \in 0 .. 2 /\ out \subseteq 0 .. NPid
    /\ UNION {todo, bashes, all, ever, strangers, turned, hitBash} \subseteq Pid
    /\ list \subseteq Proc /\ (rec = [pid |-> 1] \/ rec \in Proc)

MyBashes == {b \in Pid : bash[b] /\ me \in Descendants(b)}
Number(S) == {{Cardinality(S)}}
Some(S) == IF S = {} THEN {{}} ELSE {{p} : p \in S}
Expected ==
    LET D == Descendants(target) IN
    CASE opt = "cnt" -> Number(D)
      [] opt = "dnd" -> Number(D \ Children(target))
      [] opt = "oct" -> Number({})
      [] opt = "odt" -> Some({p \in D : \A q \in D : start[p] =< start[q]})
      [] opt = "ndt" -> Some({p \in D : \A q \in D : start[p] >= start[q]})
      [] opt = "mmd" -> {{p \in D : Rss[p] >= 0 /\ \A q \in D : Rss[p] >= Rss[q]}}
      [] opt = "mpd" -> {{p \in D : \A q \in D : Cpu[p] >= Cpu[q]}}
      [] opt = "none" -> {IF target \in Descendants(root) \union {root} THEN {target} ELSE {}}
      [] opt = "bcp" -> IF MyBashes = {} THEN {{}}
                        ELSE UNION {Number(Descendants(b)) :
                              b \in {x \in MyBashes : Descendants(x) \intersect MyBashes = {}}}
      [] opt = "bop" -> Number(UNION {Descendants(b) : b \in {x \in Pid : bash[x]}})
      [] OTHER -> {{}}

\* The process that -kpp, -kgp and -krp are for; they spare init and a bash.
Aim == CASE opt = "kpp" -> {ppid[target]}
         [] opt = "kgp" -> {ppid[p] : p \in {ppid[target]} \intersect Pid}
         [] opt = "krp" -> {r \in {root} : target \in Descendants(r) \union {r}}
         [] OTHER -> {}
One == {p \in Aim : p > 1 /\ ~ bash[p]}

Siblings(p) == IF ppid[p] = 0 THEN {} ELSE Children(ppid[p]) \ {p}
Named ==
    CASE opt = "dtm" -> Descendants(target)
      [] opt = "kcp" -> Children(target)
      [] opt = "kgc" -> UNION {Children(c) : c \in Children(target)}
      [] opt = "kps" -> Siblings(ppid[target])
      [] opt = "sco" -> {p \in Siblings(target) : ps[p] = "stop"}
      [] OTHER -> Siblings(target)

\* On a tree nobody else changes, the tool prints what the option is for (the
\* descendants counted over whole chains of parents, the oldest and the newest, all
\* with the most memory or time, membership of the subtree, the bash nearest above
\* the tool, the union below every bash; -oct prints 0, since an orphan is init's
\* child by then and no longer a descendant), and what it is about to signal are
\* exactly the processes the option names (the opt_ functions, collect_descendants,
\* collect_siblings, find_current_bash_ancestor).  -kpp, -kgp and -krp signal the
\* parent, the grandparent or the root, if it is neither init nor a bash, and print
\* it once it is dead; they end without a word only if there is no such process, or
\* if it is the tool itself.  An option that cannot read /proc prints nothing and
\* has killed nobody.
ExactWhenQuiet ==
    quiet => /\ pc = "done" /\ opt \notin OnOne => out \in Expected
             /\ pc = "use" /\ opt \notin Reports \union {"bcp", "bop"} => PidsOf(Victims) = Named
             /\ pc = "signal1" => One = {cur}
             /\ pc = "done" /\ opt \in OnOne =>
                  \/ out = {} /\ (One = {} \/ ~ Alive(me))
                  \/ \E p \in Pid : out = {p} /\ ~ Alive(p)
             /\ pc = "failed" => out = {} /\ \A p \in Pid : ps[p] # "zombie"

\* -dtm never kills a process before one below it: no orphan is made that it
\* still has to kill.  Two forked in one clock tick have the same start time,
\* and only the order of their pids tells parent and child apart
\* (cmp_proc_start_desc).
DtmLeavesFirst ==
    [][quiet /\ opt = "dtm" => \A p \in Pid :
         Alive(p) /\ ps'[p] = "zombie" /\ pc = "signal"
            => \A c \in Descendants(p) : Alive(c) => bash[c]]_vars

\* Whatever happens to the tree during the scan, -dtm, -kcp and -kgc signal only
\* processes that were descendants of process_id at some time: a parent changes
\* to init and to nothing else, so a walk that arrives was a chain of ancestors
\* all along (collect_descendants).  It needs pids that are not reused.
KillsOnlyFamily == strangers = {}

\* Of the processes that were bash from their start, no option ever signals one,
\* whichever way its process was found and however old that finding is (is_bash
\* of read_proc_info, is_bash_process).
SparesBash == hitBash \subseteq turned
=============================================================================
