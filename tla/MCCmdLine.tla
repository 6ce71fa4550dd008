----------------------------- MODULE MCCmdLine ------------------------------
(* The lines CmdExec is checked on: every short line of characters, and    *)
(* lines of tokens, their texts with a blank in between.                   *)
EXTENDS CmdExec

SeqsUpTo(S, n) == UNION {[1..k -> S] : k \in 1..n}

TextOf(t) == IF t = "WORD" THEN <<"w">>
             ELSE (CHOOSE s \in Spelling : s.type = t).text

Written(ts) ==
  FlattenSeq([k \in 1..Len(ts) |-> IF k = 1 THEN TextOf(ts[k])
                                   ELSE <<" ">> \o TextOf(ts[k])])

Trimmed(l) == l[1] # " " /\ l[Len(l)] # " "

\* The token types that decide where a command begins and ends.
Shape == {"WORD", "SEMI", "AMP", "REDIR_OUT", "TPIPE"}

\* Words and connectors by turns, the last connector with or without a word
\* after it.
Chains(n) == {ts \in UNION {[1..k -> Connector \cup {"WORD"}] : k \in 1..n} :
                \A k \in DOMAIN ts : ts[k] = "WORD" <=> k % 2 = 1}

MCLines ==
  {l \in SeqsUpTo(Char, 4) \cup SeqsUpTo({"w", "|", ">", " "}, 5) : Trimmed(l)}
  \cup {Written(ts) : ts \in SeqsUpTo(TokType, 3) \cup SeqsUpTo(Shape, 5) \cup Chains(6)}
  \cup {Written(ts) : ts \in [1..7 -> {"WORD", "SEMI"}]}
=============================================================================
