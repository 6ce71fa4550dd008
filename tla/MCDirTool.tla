------------------------------ MODULE MCDirTool ------------------------------
EXTENDS DirTool

\* names of one character but for those extensions match
h == <<"h">>
N(s) == [i \in DOMAIN s |-> IF s[i] = "hx" THEN <<"h", "x">> ELSE IF s[i] = "f.c"
         THEN <<"f", ".", "c">> ELSE IF s[i] = ".c" THEN <<".", "c">> ELSE <<s[i]>>]
MCHome == N(<<"h">>)
x == N(<<"h", "x">>)
y == N(<<"h", "y">>)
a == N(<<"h", "x", "a">>)
b == N(<<"h", "x", "a", "b">>)
f == N(<<"h", "x", "a", "f.c">>)
g == N(<<"h", "x", "a", "b", "f.c">>)
outside == N(<<"hx">>)
Link(p) == [kind |-> "link", data |-> Data(p, TRUE)]
Node(k, p) == IF k = "link" THEN Link(outside)
              ELSE [kind |-> k, data |-> Data(IF k \in {"dir", "locked"} THEN <<>> ELSE p, TRUE)]
Tree(kind) == [p \in DOMAIN kind |-> Node(kind[p], p)]
Around == MCHome :> "dir" @@ x :> "dir" @@ y :> "dir" @@ outside :> "dir"

\* f of every kind next to a directory b with a file g, and four destinations: no
\* y/a, an old y/a/f, a directory in f's place, a file in b's place.
Trees(kinds, bkinds) ==
    {Around @@ a :> "dir" @@ b :> kb @@ f :> kf @@ g :> "file"
      : kf \in kinds, kb \in bkinds}
Old(q, k) == q :> k @@ N(<<"h", "y", "a">>) :> "dir"
Olds == {<<>>, Old(N(<<"h", "y", "a", "f.c">>), "file"), Old(N(<<"h", "y", "a", "f.c">>), "dir"),
         Old(N(<<"h", "y", "a", "b">>), "file")}
MCMoveWorlds == {Tree(s @@ o) :
    s \in Trees({"file", "unread", "link"}, {"dir", "locked"}), o \in Olds}
  \union {Tree(Around @@ a :> "locked")}
MCPlain == {Tree(s) : s \in Trees({"file"}, {"dir"})}

\* Where f and b are copied to: a link to a file of the source, to one outside HOME,
\* to nothing, in a directory or in none, to a directory outside HOME, on to a second
\* link there, the source's own directories, one copy of two files, and a fifo.
ya == N(<<"h", "y", "a">>)
yf == N(<<"h", "y", "a", "f.c">>)
yb == N(<<"h", "y", "a", "b">>)
away == N(<<"hx", "f.c">>)
Old1 == Tree(ya :> "dir" @@ away :> "file")
Links1 ==
    {Old1 @@ yf :> Link(t) : t \in {f, away, N(<<"hx", "n">>), N(<<"hx", "n", "n">>)}}
    \union {Old1 @@ yb :> Link(t) : t \in {outside, N(<<"hx", "n">>)}}
    \union {away :> Link(N(<<"h", "y", "f.c">>)) @@ Old1 @@ yb :> Link(outside),
            Old1 @@ yb :> Node("dir", yb) @@ Append(yb, f[4]) :> Link(yf),
            Old1 @@ yf :> Node("fifo", yf)}
    \union {Tree(away :> "file") @@ ya :> Link(t) : t \in {x, b}}
MCLinkWorlds == {s @@ l : s \in MCPlain, l \in Links1}

\* two files of one name and size, a name the extension is part of and one it is all
\* of, a fifo, an empty and a locked directory, and a file outside HOME
e == N(<<"h", "x", "a", "e">>)
dot == N(<<"h", "x", "a", ".c">>)
k == N(<<"h", "x", "a", "k">>)
new == N(<<"h", "x", "a", "b", "n">>)
Walked == Around @@ a :> "dir" @@ b :> "dir" @@ f :> "file" @@ g :> "file"
          @@ dot :> "file" @@ away :> "file"
MCWalkWorlds == {Tree(Walked @@ e :> "dir" @@ k :> "fifo"), Tree(Walked @@ k :> "locked")}
MCPaths == UNION {DOMAIN t : t \in MCMoveWorlds \union MCLinkWorlds \union MCWalkWorlds} \union {new}
MCSize == [p \in MCPaths |-> IF p = dot THEN 1 ELSE IF p = new THEN 5 ELSE 3]
MCTime == [p \in {f, g, dot, away, k, new} |-> IF p = f THEN 1 ELSE 2]
MCReadonly == {f, g}
MCCode == [c \in {".", "/", "a", "b", "c", "e", "f", "h", "k", "n", "x", "y"} |->
             CHOOSE i \in 1 .. 12 :
                 <<".", "/", "a", "b", "c", "e", "f", "h", "k", "n", "x", "y">>[i] = c]
MCNew == {new}
MCDeleted == {g, e}

Cmd(opts, sources, dests, xs) ==
    [opt : opts, source : sources, dest : dests, exts : xs, target : {<<"f", ".", "c">>}]
Start(worlds, cmds) == [fs : worlds, args : cmds]
NoDest == {<<>>}
NoExts == {<<>>}
\* Copies beside the source, into it and out of HOME; walks of a directory, of a file
\* and of a path that only begins as HOME does.
MCStarts ==
    Start(MCMoveWorlds \union MCLinkWorlds, Cmd({"copyd", "dmove"}, {a}, {y}, NoExts))
    \union Start(MCPlain, Cmd({"copyd", "dmove"}, {a}, {a}, NoExts))
    \union Start(MCPlain, Cmd({"copyd"}, {a, f, MCHome}, {f, MCHome, outside}, NoExts))
    \union Start(MCWalkWorlds, Cmd(Reports \ {"tcount"}, {a}, NoDest, NoExts))
    \union Start(MCWalkWorlds,
                 Cmd({"tcount", "remd"}, {a}, NoDest, {<<<<".", "c">>, <<"c">>>>, <<<<"f", ".", "c">>, <<>>>>}))
    \union Start(MCWalkWorlds, Cmd({"srchf", "remd"}, {f, outside, e}, NoDest, {<<<<"c">>>>}))

\* destination_dir is the parent of source_dir, and beside it
MCCopyToParent == Start(MCPlain, Cmd({"copyd"}, {a}, {x}, NoExts))
MCMoveBeside == Start(MCPlain, Cmd({"dmove"}, {a}, {y}, NoExts))
MCNone == {}
=============================================================================
