------------------------------- MODULE DirTool -------------------------------
(***************************************************************************)
(* src/A1/A1.c, the whole tool: DirMove's two options and the eight that   *)
(* walk a tree once and print what they met (-flist, -tcount, -srchf,      *)
(* -dircnt, -sumfilesize, -lfsize, -nonwr) or remove it (-remd).  Another  *)
(* program may create or delete one entry during the walk.                 *)
(*                                                                         *)
(* nftw takes an entry in two steps: lstat, then the callback with what    *)
(* lstat said, before which a directory is opened.                         *)
(***************************************************************************)
EXTENDS DirMove

CONSTANTS
    Size, Time,         \* st_size and st_mtime of every path
    Readonly,           \* the paths access(W_OK) refuses
    Code,               \* the character codes
    Deleted             \* the paths another program may delete, one of them

VARIABLES
    entry,          \* what lstat said of the entry being passed, or None
    G,              \* what the callback has collected
    out,            \* what main prints at the end
    gone            \* ghost: what another program deleted
report == <<entry, G, out, gone>>
vars == <<moving, report>>

\* The names of a path have a character and no slash: paths are as realpath and
\* nftw give them.
Names == {n \in Seq(DOMAIN Code) : n # <<>> /\ \A i \in DOMAIN n : n[i] # "/"}
Paths == Seq(Names)
Dirs  == {"dir", "locked"}
Kinds == Dirs \union {"file", "unread", "link", "fifo"}
Nodes == [kind : Kinds, data : [of : Paths, whole : BOOLEAN]]

\* At the start the parents of every path are there and are directories, and so is
\* what HOME names; a regular file has a size; a link leads to no link,
\* by no link, and not to /.
ASSUME DirAssumption ==
    /\ "/" \in DOMAIN Code /\ Home \in Paths /\ Extra \subseteq Paths
    /\ IsFiniteSet(Extra) /\ \A p \in Extra : p \in DOMAIN Size /\ Size[p] \in Nat
    /\ PathMax \in Nat /\ Faults \in Nat
    /\ \A s \in Starts :
         /\ DOMAIN s.fs \subseteq Paths /\ s.fs \in [DOMAIN s.fs -> Nodes]
         /\ IsFiniteSet(DOMAIN s.fs)
         /\ \A p \in DOMAIN s.fs : s.fs[p].kind \in {"file", "unread"} =>
                p \in DOMAIN Size /\ Size[p] \in Nat
         /\ \A p \in DOMAIN s.fs : \A q \in Upward(p) \ {p} :
                q \in DOMAIN s.fs /\ s.fs[q].kind \in Dirs
         /\ \A l \in DOMAIN s.fs : s.fs[l].kind = "link" =>
                /\ s.fs[l].data.of # <<>>
                /\ \A q \in Upward(s.fs[l].data.of) :
                        q \in DOMAIN s.fs => s.fs[q].kind # "link"
         /\ Home \in DOMAIN s.fs => s.fs[Home].kind \in Dirs
         /\ {s.args.source, s.args.dest} \subseteq Paths
         /\ s.args.exts \in Seq(Seq(DOMAIN Code)) /\ Len(s.args.exts) =< 3
         /\ s.args.opt = "remd" => s.args.exts # <<>>

exts == args.exts       \* the extensions given, three at most
target == args.target   \* the file name given
None == [path |-> <<>>, kind |-> "none"]
Stat(p) == [path |-> p, kind |-> fs[p].kind]
level(p) == Len(p) - Len(source)
base_name_view(p) == p[Len(p)]

ends_with_ext(name, ext) == ext # <<>> /\ IsSuffix(ext, name)
-----------------------------------------------------------------------------
(* The callback, one operator per mode, on what has been collected.        *)

G0 == [items |-> {}, lines |-> <<>>, counts |-> <<0, 0, 0>>, dir_count |-> 0,
       total_bytes |-> 0, removed_files |-> 0]

\* Variant: regular files of every level.
M_FLIST_deep(g, e) == IF IsReg(e) THEN [g EXCEPT !.items = @ \union {e.path}] ELSE g

M_FLIST(g, e) ==
    IF IsReg(e) /\ level(e.path) = 1 THEN [g EXCEPT !.items = @ \union {e.path}] ELSE g

M_TCOUNT(g, e) ==
    IF ~ IsReg(e) \/ level(e.path) # 1 THEN g
    ELSE [g EXCEPT !.counts = [i \in 1 .. 3 |->
             IF i =< Len(exts) /\ ends_with_ext(base_name_view(e.path), exts[i])
             THEN @[i] + 1 ELSE @[i]]]

\* printed at once, found_any is that something was
M_SRCHF(g, e) ==
    IF IsReg(e) /\ base_name_view(e.path) = target
    THEN [g EXCEPT !.lines = Append(@, e.path)] ELSE g

M_DIRCNT(g, e) == IF e.kind = "dir" THEN [g EXCEPT !.dir_count = @ + 1] ELSE g

M_SUMFILESIZE(g, e) ==
    IF IsReg(e) THEN [g EXCEPT !.total_bytes = @ + Size[e.path]] ELSE g

M_LFSIZE(g, e) == IF IsReg(e) THEN [g EXCEPT !.items = @ \union {e.path}] ELSE g

\* access(), after the lstat: it fails as well when the file has gone.
M_NONWR(g, e) ==
    IF IsReg(e) /\ (~ Exists(e.path) \/ e.path \in Readonly)
    THEN [g EXCEPT !.items = @ \union {e.path}] ELSE g

cb(g, e) ==
    CASE opt = "flist"       -> M_FLIST(g, e)
      [] opt = "tcount"      -> M_TCOUNT(g, e)
      [] opt = "srchf"       -> M_SRCHF(g, e)
      [] opt = "dircnt"      -> M_DIRCNT(g, e)
      [] opt = "sumfilesize" -> M_SUMFILESIZE(g, e)
      [] opt = "lfsize"      -> M_LFSIZE(g, e)
      [] opt = "nonwr"       -> M_NONWR(g, e)
      [] OTHER               -> g
-----------------------------------------------------------------------------
(* qsort and its three comparisons: may a come before b?                   *)

strcmp(s, t) ==     \* =< 0
    \/ IsPrefix(s, t)
    \/ \E i \in DOMAIN s \intersect DOMAIN t :
           /\ SubSeq(s, 1, i - 1) = SubSeq(t, 1, i - 1)
           /\ Code[s[i]] < Code[t[i]]

cmp_flist(a, b) ==
    Time[a] > Time[b] \/ (Time[a] = Time[b] /\ strcmp(Text(a), Text(b)))

\* Equal for two files of one size and name: qsort puts them in any order.
cmp_lfsize(a, b) ==
    \/ Size[a] > Size[b]
    \/ Size[a] = Size[b] /\ strcmp(base_name_view(a), base_name_view(b))

cmp_path_alpha(a, b) == strcmp(Text(a), Text(b))

Sorted(s, cmp(_, _)) == \A i, j \in DOMAIN s : i < j => cmp(s[i], s[j])
qsort(S, cmp(_, _)) == {s \in SetToSeqs(S) : Sorted(s, cmp)}

\* What main prints after the walk, by option: one of these.
print_flist == qsort(G.items, cmp_flist)
print_tcount == {[i \in DOMAIN exts |-> G.counts[i]]}
print_srchf == {G.lines}
print_dircnt == {<<G.dir_count>>}
print_sumfilesize == {<<G.total_bytes>>}
print_lfsize == qsort(G.items, cmp_lfsize)
print_nonwr == qsort(G.items, cmp_path_alpha)
print_remd == {<<G.removed_files>>}

Output ==
    CASE opt = "flist"       -> print_flist
      [] opt = "tcount"      -> print_tcount
      [] opt = "srchf"       -> print_srchf
      [] opt = "dircnt"      -> print_dircnt
      [] opt = "sumfilesize" -> print_sumfilesize
      [] opt = "lfsize"      -> print_lfsize
      [] opt = "nonwr"       -> print_nonwr
      [] opt = "remd"        -> print_remd
-----------------------------------------------------------------------------
Init ==
    /\ MoveInit
    /\ entry = None /\ G = G0 /\ out = <<>> /\ gone = {}

Reports == {"flist", "tcount", "srchf", "dircnt", "sumfilesize", "lfsize", "nonwr"}

\* The argument checks: realpath, under HOME.  HOME itself and a file will do.
CheckRoot ==
    /\ phase = "args" /\ opt \in Reports \union {"remd"}
    /\ phase' = IF Exists(source) /\ path_is_under_home(source, Home)
                THEN "start" ELSE "refused"
    /\ UNCHANGED <<fs, args, stack, copying, copy_failures, warns, faults, before, report>>

Same == UNCHANGED <<args, copying, copy_failures, before, out, gone>>

\* nftw of a root that has gone since: -1, and die("nftw").
WalkRoot ==
    /\ phase = "start"
    /\ IF Exists(source) THEN phase' = "walk" /\ entry' = Stat(source)
       ELSE phase' = "died" /\ UNCHANGED entry
    /\ Same /\ UNCHANGED <<fs, stack, warns, faults, G>>

\* readdir and lstat; an entry that has gone is FTW_NS, of which cb does nothing.
StatEntry(p) ==
    /\ phase = "walk" /\ entry = None /\ Visit(p)
    /\ Passed(p)
    /\ entry' = IF Exists(p) THEN Stat(p) ELSE None
    /\ Same /\ UNCHANGED <<fs, phase, warns, faults, G>>

\* nftw is done when it has passed everything of its root.
Back(s) == IF s = <<>> THEN "print" ELSE "walk"

Removes(e) ==
    opt = "remd" /\ IsReg(e) /\ ends_with_ext(base_name_view(e.path), exts[1])

PassFile ==
    /\ phase = "walk" /\ entry # None /\ entry.kind \notin {"dir", "locked"}
    /\ ~ Removes(entry)
    /\ G' = cb(G, entry) /\ entry' = None /\ phase' = Back(stack)
    /\ Same /\ UNCHANGED <<fs, stack, warns, faults>>

\* ftw_dir: opendir, then cb.  FTW_DNR if it may not be read, and nftw ends with -1
\* if it has gone.
PassDir ==
    /\ phase = "walk" /\ entry.kind \in {"dir", "locked"}
    /\ IF ~ Exists(entry.path) THEN phase' = "died" /\ UNCHANGED <<stack, G>>
       ELSE IF entry.kind = "locked" THEN phase' = Back(stack) /\ UNCHANGED <<stack, G>>
       ELSE G' = cb(G, entry) /\ Push(entry.path) /\ UNCHANGED phase
    /\ entry' = None /\ Same /\ UNCHANGED <<fs, warns, faults>>

WalkPops ==
    /\ phase = "walk" /\ entry = None /\ Pop /\ phase' = Back(stack')
    /\ Same /\ UNCHANGED <<fs, entry, warns, faults, G>>

\* M_REMD: unlink, counted or warned of.
M_REMD ==
    /\ phase = "walk" /\ Removes(entry)
    /\ \/ /\ Exists(entry.path) /\ fs' = Without(entry.path)
          /\ G' = [G EXCEPT !.removed_files = @ + 1] /\ UNCHANGED <<warns, faults>>
       \/ /\ Exists(entry.path) /\ Fault /\ warns' = warns + 1 /\ UNCHANGED <<fs, G>>
       \/ /\ ~ Exists(entry.path) /\ warns' = warns + 1 /\ UNCHANGED <<fs, G, faults>>
    /\ entry' = None /\ phase' = Back(stack)
    /\ Same /\ UNCHANGED stack

Prints ==
    /\ phase = "print" /\ phase' = "done" /\ out' \in Output
    /\ UNCHANGED <<fs, args, stack, copying, copy_failures, warns, faults, before,
                   entry, G, gone>>
-----------------------------------------------------------------------------
(* Another program.                                                        *)

Running == phase \notin {"args", "done", "refused", "died"}
Touched == gone # {} \/ \E p \in Extra : Exists(p)
Theirs == UNCHANGED <<args, phase, stack, copying, copy_failures, warns, faults, before,
                      entry, G, out>>

OtherCreates(p) ==
    /\ Running /\ ~ Touched /\ ~ Exists(p) /\ Exists(Parent(p)) /\ p \notin DOMAIN before
    /\ fs' = [q \in DOMAIN fs \union {p} |-> IF q = p THEN File(Data(p, TRUE)) ELSE fs[q]]
    /\ UNCHANGED gone /\ Theirs

\* A file, or a directory with nothing in it; not while -copyd or -dmove runs.
OtherDeletes(p) ==
    /\ Running /\ ~ Touched /\ Exists(p) /\ Entries(p) = {}
    /\ opt \notin {"copyd", "dmove"}
    /\ fs' = Without(p) /\ gone' = {p} /\ Theirs

Walk == \/ CheckRoot \/ WalkRoot \/ PassFile \/ PassDir \/ WalkPops \/ M_REMD \/ Prints
        \/ \E i \in DOMAIN stack :
               i = Len(stack) /\ \E p \in stack[i].must \union DOMAIN fs : StatEntry(p)
Other == \/ \E p \in Extra : OtherCreates(p)
         \/ \E p \in Deleted : OtherDeletes(p)
Next == (MoveNext /\ UNCHANGED report) \/ Walk \/ Other
Spec == Init /\ [][Next]_vars
-----------------------------------------------------------------------------
\* What was there all the time, and what was there at some time.
Kind(p) == IF p \in DOMAIN before THEN before[p].kind ELSE fs[p].kind
Sure(P(_)) ==
    {p \in DOMAIN before \intersect DOMAIN fs : Below(p, source) /\ ~ Hidden(p) /\ P(p)}
Maybe(P(_)) ==
    {p \in DOMAIN before \union DOMAIN fs : Below(p, source) /\ ~ Hidden(p) /\ P(p)}

Reg(p) == Kind(p) \in {"file", "unread"}
Level1(p) == Reg(p) /\ Parent(p) = source
Named(p) == Reg(p) /\ p[Len(p)] = target
Nonwr(p) == Reg(p) /\ (p \in Readonly \/ p \in gone)
IsDir0(p) == Kind(p) = "dir"
HasExt(p, x) ==
    LET n == p[Len(p)] IN
    \E k \in DOMAIN n : x # <<>> /\ SubSeq(n, k, Len(n)) = x
Bytes(S) == FoldSet(LAMBDA p, n : n + Size[p], 0, S)

Lists(P(_), cmp(_, _)) ==
    /\ Sure(P) \subseteq ToSet(out) /\ ToSet(out) \subseteq Maybe(P)
    /\ IsInjective(out) /\ Sorted(out, cmp)
Counts(P(_), n) == n \in Cardinality(Sure(P)) .. Cardinality(Maybe(P))
AnyOrder(a, b) == TRUE

\* What a report says was so at some time of its walk: it has everything that was
\* there all along and nothing that never was, once and in its order; the counts and
\* the sum lie between those of the two (the cb branches, nftw).  -flist and -tcount
\* are of the regular files in the directory itself, as the code has it, -dircnt of
\* the directories that can be read, the root with them.  -nonwr may list a file that
\* has gone.  -remd counts what it removed, of what came meanwhile too, and warns of
\* every file of the extension it leaves.  A walk ends without a report only if a
\* directory has gone or a call of nftw's own fails.
ReportSpansWalk ==
    /\ phase = "done" =>
         CASE opt = "flist"  -> Lists(Level1, cmp_flist)
           [] opt = "srchf"  -> Lists(Named, AnyOrder)
           [] opt = "lfsize" -> Lists(Reg, cmp_lfsize)
           [] opt = "nonwr"  -> Lists(Nonwr, cmp_path_alpha)
           [] opt = "dircnt" -> Counts(IsDir0, out[1])
           [] opt = "tcount" ->
                \A i \in DOMAIN exts :
                    LET P(p) == Level1(p) /\ HasExt(p, exts[i]) IN Counts(P, out[i])
           [] opt = "sumfilesize" -> out[1] \in Bytes(Sure(Reg)) .. Bytes(Maybe(Reg))
           [] opt = "remd" ->
                LET P(p) == Reg(p) /\ HasExt(p, exts[1])
                    n == Cardinality(DOMAIN before \ DOMAIN fs) - Cardinality(gone) IN
                /\ out[1] \in n .. n + Cardinality({p \in Extra : HasExt(p, exts[1])})
                /\ Cardinality(Sure(P)) =< warns
           [] OTHER -> TRUE
    /\ phase = "died" => gone # {} \/ faults < Faults

\* Where links lead, from destination_dir/<base> on and from what these lead to.
Linked(p) ==
    LET links == {l \in DOMAIN before : before[l].kind = "link"}
        dir == Append(dest, base) IN
    /\ ~ Below(p, dir)
    /\ \A S \in SUBSET ({dir} \union {before[l].data.of : l \in links}) :
         (/\ dir \in S
          /\ \A l \in links : (\E d \in S : Below(l, d)) => before[l].data.of \in S)
         => \E d \in S : Below(p, d)

\* The nodes that differ from the start, another program's apart, are those the
\* command names: below HOME, -copyd's and -dmove's below destination_dir/<base>,
\* -dmove's in the source once it deletes, -remd's the files of the extension below
\* its root; and what -copyd and -dmove reach through links below
\* destination_dir/<base>, which may lead anywhere (path_is_under_home,
\* build_dst_path, mkdirs_for_path, ends_with_ext, open of the copy).
ChangesOnlyNamed ==
    \A p \in DOMAIN before \union DOMAIN fs :
        \/ p \in DOMAIN before /\ Exists(p) /\ fs[p] = before[p]
        \/ p \in gone \union Extra
        \/ opt \in {"copyd", "dmove"} /\ Linked(p)
        \/ /\ Len(p) > Len(Home) /\ SubSeq(p, 1, Len(Home)) = Home
           /\ \/ opt \in {"copyd", "dmove"} /\ Below(p, Append(dest, base))
              \/ opt = "dmove" /\ phase \in {"delete", "done", "died"} /\ Below(p, source)
              \/ opt = "remd" /\ Below(p, source) /\ Reg(p) /\ HasExt(p, exts[1])
=============================================================================
