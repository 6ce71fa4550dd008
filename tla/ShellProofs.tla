----------------------------- MODULE ShellProofs ----------------------------
(* Proofs about minibash: a line from its characters to the commands that    *)
(* run (CmdLexer, CmdParser, CmdExec), for lines and limits of any size, and *)
(* the FIFO commands (Fifo) of any number of shells.                         *)
EXTENDS CmdExec, Fifo, SequenceTheorems, FiniteSetTheorems, WellFoundedInduction, TLAPS

OpType == {"SEQ", "AND", "OR", "PIPE", "REVERSE_PIPE"}
Token == [type : TokType, from : Nat, len : Nat]
Verdict == {"run", "ok", "too many tokens", "arg too long"}
Entry == [cmd : Nat, rc : Rc]

LineType ==
  /\ line \in Seq(Char) /\ p \in Nat \ {0} /\ tokens \in Seq(Token)
  /\ lexed \in Verdict
  /\ toks \in Seq(TokType) /\ pos \in Nat \ {0} /\ cur \in CommandType
  /\ cmds \in Seq(CommandType) /\ ops \in Seq(OpType)
  /\ at \in {"lex", "line", "cmd", "op", "ok"} \union ParseError
  /\ mode \in Mode /\ idx \in Nat \ {0} /\ rc \in Rc /\ ran \in Seq(Entry)
-----------------------------------------------------------------------------
(* The executors.                                                          *)

\* The parser returns as many operators as commands, or one less.
CountInv ==
  /\ at \in {"lex", "line", "cmd"} => Len(ops) = Len(cmds)
  /\ at = "op" => Len(cmds) = Len(ops) + 1
  /\ at = "ok" => NCmds >= 1 /\ Len(ops) \in {NCmds - 1, NCmds}

Ascending == \A j, k \in 1 .. Len(ran) : j < k => ran[j].cmd < ran[k].cmd
Unbroken == \A k \in 1 .. Len(ran) : ran[k].rc >= 0

\* A sequence has run all its commands before idx.
SequenceInv ==
  /\ Len(ran) = idx - 1 /\ Unbroken
  /\ \A k \in 1 .. Len(ran) : ran[k].cmd = k

\* A conditional line has run those before idx that its operators ask for, and last_rc
\* is what the last of them returned.
ConditionalInv ==
  /\ Ascending /\ Unbroken
  /\ \A k \in 1 .. Len(ran) : ran[k].cmd \in 1 .. idx - 1
  /\ IF idx = 1 THEN ran = <<>>
     ELSE ran # <<>> /\ ran[1].cmd = 1 /\ rc = Last(ran).rc
  /\ \A k \in 1 .. idx - 1 : HasRun(k) <=> Wanted(k)

ExecInv ==
  /\ mode # "idle" => at = "ok"
  /\ mode = "idle" => ran = <<>> /\ idx = 1
  /\ mode \notin {"idle", "end"} => mode = dispatch /\ idx =< NCmds
  /\ mode \in {"single", "pipe", "reverse"} => ran = <<>>
  /\ mode = "sequence" => SequenceInv
  /\ mode = "conditional" => ConditionalInv
  /\ mode = "end" => LineRunsAsWritten
-----------------------------------------------------------------------------
(* Facts about numbers, sequences and the operators' texts.                *)

LEMMA LeastBy ==
  ASSUME NEW R, IsWellFoundedOn(R, Nat), \A x, y \in Nat : y < x => <<y, x>> \in R,
         NEW S, S \subseteq Nat, S # {}
  PROVE  \E x \in S : \A y \in S : x =< y
  <1>1. PICK x \in S : \A y \in S : ~ (<<y, x>> \in R)
    BY WFMin
  <1>2. \A y \in S : ~ (y < x)
    BY <1>1
  <1> QED
    BY <1>2

\* A set of naturals that is not empty has a least element; if it is bounded, a greatest.
LEMMA LeastIn ==
  ASSUME NEW S, S \subseteq Nat, S # {}
  PROVE  \E x \in S : \A y \in S : x =< y
  <1>1. \A x, y \in Nat : y < x => <<y, x>> \in OpToRel(<, Nat)
    BY DEF OpToRel
  <1> QED
    BY <1>1, NatLessThanWellFounded, LeastBy

LEMMA GreatestIn ==
  ASSUME NEW n \in Nat, NEW S, S \subseteq 0 .. n, S # {}
  PROVE  \E x \in S : \A y \in S : y =< x
  <1> DEFINE B == {b \in Nat : \A y \in S : y =< b}
  <1>1. n \in B
    OBVIOUS
  <1>2. PICK b \in B : \A c \in B : b =< c
    BY <1>1, LeastIn
  <1>3. CASE b \in S
    BY <1>2, <1>3
  <1>4. CASE b \notin S
    <2>1. b \in Nat /\ \A y \in S : y \in Nat /\ y =< b /\ y # b
      BY <1>2, <1>4
    <2>2. PICK z \in S : TRUE
      OBVIOUS
    <2>3. b - 1 \in Nat /\ \A y \in S : y =< b - 1
      BY <2>1, <2>2
    <2>4. b - 1 \in B
      BY <2>3
    <2>5. b =< b - 1
      BY <1>2, <2>4
    <2> QED
      BY <2>1, <2>5
  <1> QED
    BY <1>3, <1>4

LEMMA AppendAt ==
  ASSUME NEW S, NEW s \in Seq(S), NEW x \in S
  PROVE  /\ Append(s, x) \in Seq(S) /\ Len(Append(s, x)) = Len(s) + 1
         /\ Append(s, x) # <<>> /\ Len(s) \in Nat
         /\ \A i \in 1 .. Len(s) : Append(s, x)[i] = s[i]
         /\ Append(s, x)[Len(s) + 1] = x /\ Last(Append(s, x)) = x
  BY AppendProperties, LenProperties DEF Last

\* Every operator is one to three characters that are neither blank nor of a word.
IsText(t) == /\ t \in Seq(Special) /\ Len(t) \in 1 .. 3
             /\ \A d \in 1 .. Len(t) : t[d] \in Special

Spelled(s, type, n) ==
  \E c \in Special : s = [type |-> type, text |-> IF n = 1 THEN <<c>> ELSE IF n = 2 THEN <<c, c>>
                                                  ELSE <<c, c, c>>]

LEMMA SpelledIs ==
  ASSUME NEW s, NEW type, type # "WORD", NEW n \in 1 .. 3, Spelled(s, type, n)
  PROVE  s = [type |-> s.type, text |-> s.text] /\ s.type # "WORD" /\ IsText(s.text)
  <1>1. PICK c \in Special : s = [type |-> type, text |-> IF n = 1 THEN <<c>> ELSE
                                       IF n = 2 THEN <<c, c>> ELSE <<c, c, c>>]
    BY DEF Spelled
  <1>2. s = [type |-> s.type, text |-> s.text] /\ s.type # "WORD"
    BY <1>1
  <1>3. s.text \in {<<c>>, <<c, c>>, <<c, c, c>>}
    BY <1>1
  <1>4. IsText(<<c>>) /\ IsText(<<c, c>>) /\ IsText(<<c, c, c>>)
    BY DEF IsText
  <1> QED
    BY <1>2, <1>3, <1>4

LEMMA SpellingFacts ==
  ASSUME NEW s \in Spelling
  PROVE  /\ s = [type |-> s.type, text |-> s.text] /\ s.type \in TokType \ {"WORD"}
         /\ IsText(s.text)
  <1> DEFINE Fine == s = [type |-> s.type, text |-> s.text] /\ s.type # "WORD" /\ IsText(s.text)
  <1>1. s.type \in TokType
    BY DEF TokType
  <1>2. 1 # 2 /\ 1 # 3 /\ 2 # 3
    OBVIOUS
  <1>a. ASSUME s = [type |-> "TPIPE", text |-> <<"|", "|", "|">>] PROVE Fine
    <2>1. "|" \in Special
      BY Zenon DEF Special
    <2>2. Spelled(s, "TPIPE", 3)
      BY <1>a, <1>2, <2>1, Zenon DEF Spelled
    <2> QED
      BY <2>2, SpelledIs
  <1>b. ASSUME s = [type |-> "DPIPE", text |-> <<"|", "|">>] PROVE Fine
    <2>1. "|" \in Special
      BY Zenon DEF Special
    <2>2. Spelled(s, "DPIPE", 2)
      BY <1>b, <1>2, <2>1, Zenon DEF Spelled
    <2> QED
      BY <2>2, SpelledIs
  <1>c. ASSUME s = [type |-> "PIPE", text |-> <<"|">>] PROVE Fine
    <2>1. "|" \in Special
      BY Zenon DEF Special
    <2>2. Spelled(s, "PIPE", 1)
      BY <1>c, <1>2, <2>1, Zenon DEF Spelled
    <2> QED
      BY <2>2, SpelledIs
  <1>d. ASSUME s = [type |-> "DAMP", text |-> <<"&", "&">>] PROVE Fine
    <2>1. "&" \in Special
      BY Zenon DEF Special
    <2>2. Spelled(s, "DAMP", 2)
      BY <1>d, <1>2, <2>1, Zenon DEF Spelled
    <2> QED
      BY <2>2, SpelledIs
  <1>e. ASSUME s = [type |-> "AMP", text |-> <<"&">>] PROVE Fine
    <2>1. "&" \in Special
      BY Zenon DEF Special
    <2>2. Spelled(s, "AMP", 1)
      BY <1>e, <1>2, <2>1, Zenon DEF Spelled
    <2> QED
      BY <2>2, SpelledIs
  <1>f. ASSUME s = [type |-> "SEMI", text |-> <<";">>] PROVE Fine
    <2>1. ";" \in Special
      BY Zenon DEF Special
    <2>2. Spelled(s, "SEMI", 1)
      BY <1>f, <1>2, <2>1, Zenon DEF Spelled
    <2> QED
      BY <2>2, SpelledIs
  <1>g. ASSUME s = [type |-> "TILDE", text |-> <<"~">>] PROVE Fine
    <2>1. "~" \in Special
      BY Zenon DEF Special
    <2>2. Spelled(s, "TILDE", 1)
      BY <1>g, <1>2, <2>1, Zenon DEF Spelled
    <2> QED
      BY <2>2, SpelledIs
  <1>h. ASSUME s = [type |-> "DPLUS", text |-> <<"+", "+">>] PROVE Fine
    <2>1. "+" \in Special
      BY Zenon DEF Special
    <2>2. Spelled(s, "DPLUS", 2)
      BY <1>h, <1>2, <2>1, Zenon DEF Spelled
    <2> QED
      BY <2>2, SpelledIs
  <1>i. ASSUME s = [type |-> "PLUS", text |-> <<"+">>] PROVE Fine
    <2>1. "+" \in Special
      BY Zenon DEF Special
    <2>2. Spelled(s, "PLUS", 1)
      BY <1>i, <1>2, <2>1, Zenon DEF Spelled
    <2> QED
      BY <2>2, SpelledIs
  <1>j. ASSUME s = [type |-> "HASH", text |-> <<"#">>] PROVE Fine
    <2>1. "#" \in Special
      BY Zenon DEF Special
    <2>2. Spelled(s, "HASH", 1)
      BY <1>j, <1>2, <2>1, Zenon DEF Spelled
    <2> QED
      BY <2>2, SpelledIs
  <1>k. ASSUME s = [type |-> "REDIR_IN", text |-> <<"<">>] PROVE Fine
    <2>1. "<" \in Special
      BY Zenon DEF Special
    <2>2. Spelled(s, "REDIR_IN", 1)
      BY <1>k, <1>2, <2>1, Zenon DEF Spelled
    <2> QED
      BY <2>2, SpelledIs
  <1>l. ASSUME s = [type |-> "REDIR_APP", text |-> <<">", ">">>] PROVE Fine
    <2>1. ">" \in Special
      BY Zenon DEF Special
    <2>2. Spelled(s, "REDIR_APP", 2)
      BY <1>l, <1>2, <2>1, Zenon DEF Spelled
    <2> QED
      BY <2>2, SpelledIs
  <1>m. ASSUME s = [type |-> "REDIR_OUT", text |-> <<">">>] PROVE Fine
    <2>1. ">" \in Special
      BY Zenon DEF Special
    <2>2. Spelled(s, "REDIR_OUT", 1)
      BY <1>m, <1>2, <2>1, Zenon DEF Spelled
    <2> QED
      BY <2>2, SpelledIs
  <1> HIDE DEF Fine
  <1>3. Fine
    BY <1>a, <1>b, <1>c, <1>d, <1>e, <1>f, <1>g, <1>h, <1>i, <1>j, <1>k, <1>l, <1>m, Zenon DEF Spelling
  <1> QED
    BY <1>1, <1>3 DEF Fine

LEMMA SpecialFacts ==
  "w" \notin Special /\ "end" \notin Special /\ "end" # "w"
  BY Zenon DEF Special

\* A word has an end.
LEMMA WordLenIs ==
  ASSUME line \in Seq(Char), p \in Nat \ {0}, p =< Len(line), At(0) = "w"
  PROVE  /\ WordLen \in 1 .. (Len(line) - p + 1)
         /\ \A d \in 0 .. (WordLen - 1) : At(d) = "w"
         /\ At(WordLen) # "w"
  <1> DEFINE m == Len(line) - p + 1
             S == {d \in 1 .. m : At(d) # "w"}
             IsLen(n) == (\A d \in 0 .. (n - 1) : At(d) = "w") /\ At(n) # "w"
  <1>1. Len(line) \in Nat /\ m \in Nat /\ m >= 1
    BY LenProperties
  <1>2. At(m) = "end"
    BY <1>1 DEF At
  <1> HIDE DEF m
  <1>3. m \in S
    BY <1>1, <1>2, SpecialFacts
  <1>4. PICK n \in S : \A d \in S : n =< d
    <2>1. S \subseteq Nat
      BY <1>1
    <2> QED
      BY <1>3, <2>1, LeastIn
  <1>5. n \in 1 .. m /\ At(n) # "w"
    BY <1>4
  <1>6. ASSUME NEW d \in 0 .. (n - 1) PROVE At(d) = "w"
    <2>1. CASE d = 0
      BY <2>1
    <2>2. CASE d # 0
      <3>1. d \in 1 .. m /\ ~ (n =< d)
        BY <1>1, <1>5, <2>2
      <3> QED
        BY <1>4, <3>1
    <2> QED
      BY <2>1, <2>2
  <1>7. IsLen(n)
    BY <1>5, <1>6
  <1> HIDE DEF IsLen
  <1>8. \E k \in 1 .. m : IsLen(k)
    BY <1>5, <1>7
  <1>9. WordLen = CHOOSE k \in 1 .. m : IsLen(k)
    BY DEF WordLen, IsLen, m
  <1>10. WordLen \in 1 .. m /\ IsLen(WordLen)
    BY <1>8, <1>9
  <1> QED
    BY <1>10 DEF m, IsLen

-----------------------------------------------------------------------------
(* Types.                                                                  *)

LEMMA TypeInit == Init => LineType
  <1> SUFFICES ASSUME Init PROVE LineType
    OBVIOUS
  <1>1. NoCmd \in CommandType
    BY ParseAssumption DEF NoCmd, CommandType, NodeType
  <1>2. line \in Seq(Char)
    BY LexAssumption DEF Init, LexInit
  <1>3. lexed \in Verdict
    BY Zenon DEF Init, LexInit, Verdict
  <1> QED
    BY <1>1, <1>2, <1>3, EmptySeq DEF Init, LexInit, ParseInit, LineType, Mode, Rc

LEMMA TypeLex == LineType /\ Lex => LineType'
  <1> SUFFICES ASSUME LineType, Lex PROVE LineType'
    OBVIOUS
  <1>1. UNCHANGED <<toks, pos, cur, cmds, ops, at, mode, idx, rc, ran>> /\ line' = line
    BY DEF Lex, LexStep, parseVars, execVars, Blank, Operator, Word, EndOfLine
  <1>2. /\ line' \in Seq(Char) /\ toks' \in Seq(TokType) /\ pos' \in Nat \ {0} /\ cur' \in CommandType
        /\ cmds' \in Seq(CommandType) /\ ops' \in Seq(OpType)
        /\ at' \in {"lex", "line", "cmd", "op", "ok"} \union ParseError
        /\ mode' \in Mode /\ idx' \in Nat \ {0} /\ rc' \in Rc /\ ran' \in Seq(Entry)
    BY <1>1, Zenon DEF LineType
  <1> DEFINE Lexed == /\ p' \in Nat \ {0} /\ tokens' \in Seq(Token)
                      /\ lexed' \in Verdict
  <1>3. Lexed
    <2>0. ASSUME NEW type \in TokType, NEW len \in Nat, push_token(type, len) PROVE Lexed
      <3>1. [type |-> type, from |-> p, len |-> len] \in Token
        BY DEF LineType, Token
      <3>2. Append(tokens, [type |-> type, from |-> p, len |-> len]) \in Seq(Token)
        BY <3>1, AppendProperties DEF LineType
      <3>3. p + len \in Nat \ {0}
        BY DEF LineType
      <3>4. CASE Len(tokens) >= MaxTokens - 1
        BY <2>0, <3>4, Zenon DEF push_token, LineType, Verdict
      <3>5. CASE ~ (Len(tokens) >= MaxTokens - 1)
        BY <2>0, <3>2, <3>3, <3>5, Zenon DEF push_token, LineType
      <3> QED
        BY <3>4, <3>5
    <2>1. CASE Blank
      <3>1. p' = p + 1 /\ UNCHANGED <<tokens, lexed>>
        BY <2>1, Zenon DEF Blank
      <3> QED
        BY <3>1 DEF LineType
    <2>2. CASE Operator
      <3>1. PICK s \in Spelling : push_token(s.type, Len(s.text))
        BY <2>2, Zenon DEF Operator
      <3>2. s.type \in TokType /\ Len(s.text) \in Nat
        BY SpellingFacts DEF IsText
      <3> QED
        BY <2>0, <3>1, <3>2
    <2>3. CASE Word
      <3>0. "WORD" \in TokType
        BY DEF TokType
      <3>1. WordLen \in Nat
        <4>1. line \in Seq(Char) /\ p \in Nat \ {0} /\ p =< Len(line) /\ At(0) = "w"
          BY <2>3 DEF Word, Running, LineType
        <4> QED
          BY <4>1, WordLenIs, LenProperties
      <3> QED
        BY <2>0, <2>3, <3>0, <3>1, Zenon DEF Word, LineType, Verdict
    <2>4. CASE EndOfLine
      BY <2>4, Zenon DEF EndOfLine, LineType, Verdict
    <2> QED
      BY <2>1, <2>2, <2>3, <2>4 DEF Lex, LexStep
  <1> QED
    BY <1>2, <1>3 DEF LineType

\* The parser's steps, whichever error they fail with.
Fails == \E e \in ParseError : Fail(e)

LEMMA FailsWith ==
  /\ Fail("too many arguments") => Fails
  /\ Fail("expected command") => Fails
  /\ Fail("expected operator") => Fails
  /\ Fail("too many commands") => Fails
  /\ Fail("too many operators") => Fails
  /\ Fail("invalid") => Fails
  BY Zenon DEF Fails, ParseError

LEMMA ArgWordIs ==
  ArgWord => Sees({"WORD"}) /\ IF cur.argc >= MaxArgc THEN Fails
                               ELSE TakeInto([cur EXCEPT !.argc = @ + 1])
  BY FailsWith, Zenon DEF ArgWord

LEMMA AmpIs ==
  Amp => Sees({"AMP"}) /\ IF cur.argc = 0 THEN Fails
                          ELSE /\ cmds' = Append(cmds, [cur EXCEPT !.type = "BG", !.bg = TRUE])
                               /\ pos' = pos + 1 /\ at' = "op" /\ UNCHANGED <<toks, cur, ops>>
  BY FailsWith, Zenon DEF Amp

LEMMA RedirectIs ==
  Redirect =>
    /\ Sees(Redirection)
    /\ IF pos = Len(toks) \/ toks[pos + 1] # "WORD" THEN Fails
       ELSE /\ cur' \in {[cur EXCEPT !.in = TRUE], [cur EXCEPT !.out = TRUE]}
            /\ pos' = pos + 2 /\ UNCHANGED <<toks, cmds, ops, at>>
  BY FailsWith, Zenon DEF Redirect

LEMMA EndCommandIs ==
  EndCommand =>
    /\ at = "cmd" /\ (~ AtEnd => toks[pos] \in Connector)
    /\ IF cur.argc = 0 THEN Fails
       ELSE cmds' = Append(cmds, cur) /\ at' = "op" /\ UNCHANGED <<toks, pos, cur, ops>>
  BY FailsWith, Zenon DEF EndCommand

LEMMA BeginCommandIs ==
  BeginCommand =>
    /\ at = "line" /\ ~ AtEnd
    /\ IF Len(cmds) >= MaxCmds THEN Fails
       ELSE cur' = NoCmd /\ at' = "cmd" /\ UNCHANGED <<toks, pos, cmds, ops>>
  BY FailsWith, Zenon DEF BeginCommand

LEMMA ParseOperatorIs ==
  ParseOperator =>
    /\ at = "op" /\ ~ AtEnd
    /\ IF Len(ops) >= MaxCmds - 1 \/ toks[pos] \notin Connector THEN Fails
       ELSE /\ ops' = Append(ops, OpOf[toks[pos]])
            /\ pos' = pos + 1 /\ at' = "line" /\ UNCHANGED <<toks, cur, cmds>>
  BY FailsWith, Zenon DEF ParseOperator

LEMMA EndLineIs ==
  EndLine =>
    /\ at \in {"line", "op"} /\ AtEnd
    /\ IF cmds = <<>> THEN Fails ELSE at' = "ok" /\ UNCHANGED <<toks, pos, cur, cmds, ops>>
  BY FailsWith, Zenon DEF EndLine, Fail

\* An error is none of the parser's other states.
LEMMA ErrorFacts ==
  /\ "lex" \notin ParseError /\ "line" \notin ParseError /\ "cmd" \notin ParseError
  /\ "op" \notin ParseError /\ "ok" \notin ParseError
  BY Zenon DEF ParseError

\* One more token is taken into a command.
LEMMA CommandMore ==
  ASSUME NEW c \in CommandType
  PROVE  /\ c.argc \in Nat
         /\ c.argc < MaxArgc => [c EXCEPT !.argc = @ + 1] \in CommandType
         /\ \A t \in NodeType : [c EXCEPT !.type = t] \in CommandType
         /\ [c EXCEPT !.in = TRUE] \in CommandType /\ [c EXCEPT !.out = TRUE] \in CommandType
         /\ [c EXCEPT !.type = "BG", !.bg = TRUE] \in CommandType
  <1>1. /\ c.argc \in 0 .. MaxArgc /\ c.type \in NodeType /\ c.bg \in BOOLEAN
        /\ c.in \in BOOLEAN /\ c.out \in BOOLEAN
        /\ c = [argc |-> c.argc, type |-> c.type, bg |-> c.bg, in |-> c.in, out |-> c.out]
    BY DEF CommandType
  <1>2. MaxArgc \in Nat
    BY ParseAssumption
  <1>3. ASSUME c.argc < MaxArgc PROVE [c EXCEPT !.argc = @ + 1] \in CommandType
    <2>1. c.argc + 1 \in 0 .. MaxArgc
      BY <1>1, <1>2, <1>3
    <2> QED
      BY <2>1 DEF CommandType
  <1>4. \A t \in NodeType : [c EXCEPT !.type = t] \in CommandType
    BY DEF CommandType
  <1>5. [c EXCEPT !.in = TRUE] \in CommandType /\ [c EXCEPT !.out = TRUE] \in CommandType
    BY DEF CommandType
  <1>6. [c EXCEPT !.type = "BG", !.bg = TRUE] \in CommandType
    BY DEF CommandType, NodeType
  <1> QED
    BY <1>1, <1>2, <1>3, <1>4, <1>5, <1>6

LEMMA TypeParse == LineType /\ Parse => LineType'
  <1> SUFFICES ASSUME LineType, Parse PROVE LineType'
    OBVIOUS
  <1> DEFINE Parsed == /\ toks' \in Seq(TokType) /\ pos' \in Nat \ {0} /\ cur' \in CommandType
                       /\ cmds' \in Seq(CommandType) /\ ops' \in Seq(OpType)
                       /\ at' \in {"lex", "line", "cmd", "op", "ok"} \union ParseError
  <1>1. UNCHANGED <<line, p, tokens, lexed, mode, idx, rc, ran>>
    BY DEF Parse, lexVars, execVars
  <1>2. /\ toks \in Seq(TokType) /\ pos \in Nat \ {0} /\ cur \in CommandType
        /\ cmds \in Seq(CommandType) /\ ops \in Seq(OpType) /\ tokens \in Seq(Token)
        /\ at \in {"lex", "line", "cmd", "op", "ok"} \union ParseError
    BY DEF LineType
  <1>3. pos + 1 \in Nat \ {0} /\ pos + 2 \in Nat \ {0}
    BY <1>2
  <1>4. Fails => Parsed
    BY <1>2 DEF Fails, Fail
  <1>5. ASSUME NEW c \in CommandType, TakeInto(c) PROVE Parsed
    BY <1>2, <1>3, <1>5 DEF TakeInto
  <1>6. /\ cur.argc \in Nat /\ MaxArgc \in Nat
        /\ cur.argc < MaxArgc => [cur EXCEPT !.argc = @ + 1] \in CommandType
        /\ \A t \in NodeType : [cur EXCEPT !.type = t] \in CommandType
        /\ [cur EXCEPT !.in = TRUE] \in CommandType /\ [cur EXCEPT !.out = TRUE] \in CommandType
        /\ [cur EXCEPT !.type = "BG", !.bg = TRUE] \in CommandType
    BY <1>2, CommandMore, ParseAssumption
  <1> SUFFICES Parsed
    BY <1>1, Zenon DEF LineType
  <1>a. CASE ParseBegins
    <2>1. toks' = [k \in 1 .. Len(tokens) |-> tokens[k].type]
      BY <1>a DEF ParseBegins
    <2>2. Len(tokens) \in Nat /\ \A k \in 1 .. Len(tokens) : tokens[k].type \in TokType
      <3>1. Len(tokens) \in Nat /\ \A k \in 1 .. Len(tokens) : tokens[k] \in Token
        BY <1>2, ElementOfSeq, LenProperties
      <3> QED
        BY <3>1 DEF Token
    <2>3. toks' \in Seq(TokType)
      BY <2>1, <2>2, IsASeq
    <2> QED
      BY <1>2, <1>a, <2>3 DEF ParseBegins
  <1>b. CASE ArgWord
    BY <1>4, <1>5, <1>6, <1>b, ArgWordIs
  <1>c. CASE TypeToken
    <2>1. PICK t \in NodeType : TakeInto([cur EXCEPT !.type = t])
      BY <1>c DEF TypeToken, NodeType, Sees
    <2> QED
      BY <1>5, <1>6, <2>1
  <1>d. CASE Amp
    <2>1. Append(cmds, [cur EXCEPT !.type = "BG", !.bg = TRUE]) \in Seq(CommandType)
      BY <1>2, <1>6, AppendProperties
    <2> QED
      BY <1>2, <1>3, <1>4, <1>d, <2>1, AmpIs
  <1>e. CASE Redirect
    BY <1>2, <1>3, <1>4, <1>6, <1>e, RedirectIs
  <1>f. CASE EndCommand
    <2>1. Append(cmds, cur) \in Seq(CommandType)
      BY <1>2, AppendProperties
    <2> QED
      BY <1>2, <1>4, <1>f, <2>1, EndCommandIs
  <1>g. CASE BeginCommand
    <2>1. NoCmd \in CommandType
      BY ParseAssumption DEF NoCmd, CommandType, NodeType
    <2> QED
      BY <1>2, <1>4, <1>g, <2>1, BeginCommandIs
  <1>h. CASE ParseOperator
    <2>1. toks[pos] \in Connector => OpOf[toks[pos]] \in OpType
      BY DEF Connector, OpOf, OpType
    <2>2. toks[pos] \in Connector => Append(ops, OpOf[toks[pos]]) \in Seq(OpType)
      BY <1>2, <2>1, AppendProperties
    <2> QED
      BY <1>2, <1>3, <1>4, <1>h, <2>2, ParseOperatorIs
  <1>i. CASE EndLine
    BY <1>2, <1>4, <1>i, EndLineIs
  <1> QED
    BY <1>a, <1>b, <1>c, <1>d, <1>e, <1>f, <1>g, <1>h, <1>i, Zenon DEF Parse, ParseStep

\* What the operators' classes make of a line.
LEMMA DispatchIs ==
  ASSUME LineType, CountInv, at = "ok"
  PROVE  /\ NCmds \in Nat /\ Len(ops) \in Nat /\ NCmds >= 1 /\ Len(ops) >= NCmds - 1
         /\ dispatch = "single" <=> NCmds = 1
         /\ dispatch \in {"single", "sequence", "conditional", "pipe", "reverse", "mixed"}
         /\ dispatch = "mixed" => \E k \in 1 .. Len(ops) : ClassOf[ops[k]] # ClassOf[ops[1]]
         /\ \A c \in {"sequence", "conditional"} : Uniform(c) => dispatch = c
  <1>1. NCmds \in Nat /\ Len(ops) \in Nat /\ NCmds >= 1 /\ Len(ops) >= NCmds - 1
    BY LenProperties DEF LineType, CountInv, NCmds
  <1>2. \A k \in 1 .. Len(ops) : ops[k] \in OpType
    BY <1>1, ElementOfSeq DEF LineType
  <1>3. \A k \in 1 .. Len(ops) :
          /\ ClassOf[ops[k]] \in {"sequence", "conditional", "pipe", "reverse"}
          /\ ops[k] = "SEQ" <=> ClassOf[ops[k]] = "sequence"
    BY <1>2 DEF OpType, ClassOf
  <1> DEFINE seqs == {k \in 1 .. Len(ops) : ops[k] = "SEQ"}
             mixes == {k \in 2 .. Len(ops) : ClassOf[ops[k]] # ClassOf[ops[1]]}
             first == \E k \in seqs : \A m \in mixes : k <= m
  <1>4. dispatch = IF NCmds = 1 THEN "single" ELSE IF first THEN "sequence"
                   ELSE IF mixes # {} THEN "mixed" ELSE ClassOf[ops[1]]
    BY DEF dispatch
  <1>5. NCmds # 1 => ClassOf[ops[1]] \in {"sequence", "conditional", "pipe", "reverse"}
    BY <1>1, <1>3
  <1>6. mixes # {} => \E k \in 1 .. Len(ops) : ClassOf[ops[k]] # ClassOf[ops[1]]
    BY <1>1
  <1>7. ASSUME NEW c \in {"sequence", "conditional"}, Uniform(c) PROVE dispatch = c
    <2>1. NCmds # 1 /\ 1 \in 1 .. Len(ops) /\ ClassOf[ops[1]] = c /\ mixes = {}
      BY <1>1, <1>7 DEF Uniform
    <2>2. c = "sequence" => first
      BY <1>3, <2>1
    <2>3. c = "conditional" => seqs = {}
      BY <1>3, <1>7 DEF Uniform
    <2> HIDE DEF seqs, mixes
    <2> QED
      BY <1>4, <2>1, <2>2, <2>3
  <1>8. /\ dispatch = "single" <=> NCmds = 1
        /\ dispatch \in {"single", "sequence", "conditional", "pipe", "reverse", "mixed"}
        /\ dispatch = "mixed" => mixes # {}
    <2> HIDE DEF first, mixes
    <2> QED
      BY <1>4, <1>5
  <1> QED
    BY <1>1, <1>6, <1>7, <1>8

LEMMA TypeExec == LineType /\ CountInv /\ Execute => LineType'
  <1> SUFFICES ASSUME LineType, CountInv, Execute PROVE LineType'
    OBVIOUS
  <1> DEFINE Ran == mode' \in Mode /\ idx' \in Nat \ {0} /\ rc' \in Rc /\ ran' \in Seq(Entry)
  <1>1. UNCHANGED <<line, p, tokens, lexed, toks, pos, cur, cmds, ops, at>>
    BY DEF Execute, lexVars, parseVars
  <1>2. /\ mode \in Mode /\ idx \in Nat \ {0} /\ rc \in Rc /\ ran \in Seq(Entry)
        /\ NCmds \in Nat /\ idx + 1 \in Nat \ {0} /\ ops \in Seq(OpType)
    BY LenProperties DEF LineType, NCmds
  <1>3. Refuse => Ran
    BY <1>2 DEF Refuse, Return, Mode, Rc
  <1>4. \A k \in Nat, c \in Rc : Runs(k, c) => ran' \in Seq(Entry)
    <2> SUFFICES ASSUME NEW k \in Nat, NEW c \in Rc, Runs(k, c) PROVE ran' \in Seq(Entry)
      OBVIOUS
    <2>1. [cmd |-> k, rc |-> c] \in Entry
      BY DEF Entry
    <2> QED
      BY <1>2, <2>1, AppendProperties DEF Runs
  <1>5. \A c \in Rc : NextCmd(c) => mode' \in Mode /\ idx' \in Nat \ {0} /\ rc' \in Rc
    BY <1>2 DEF NextCmd, Mode
  <1> SUFFICES Ran
    BY <1>1, Zenon DEF LineType
  <1>a. CASE DoExecute
    <2>1. CASE dispatch = "mixed"
      BY <1>3, <1>a, <2>1 DEF DoExecute
    <2>2. CASE dispatch # "mixed"
      <3>1. mode' = dispatch /\ UNCHANGED <<idx, rc, ran>> /\ at = "ok"
        BY <1>a, <2>2 DEF DoExecute
      <3> QED
        BY <1>2, <2>2, <3>1, DispatchIs DEF Mode
    <2> QED
      BY <2>1, <2>2
  <1>b. CASE RefuseTrailing \/ RefuseMixed
    BY <1>3, <1>b DEF RefuseTrailing, RefuseMixed
  <1>c. CASE RunSingle
    BY <1>2, <1>4, <1>c DEF RunSingle, Return, Mode
  <1>d. CASE RunSequence \/ RunConditional
    BY <1>2, <1>4, <1>5, <1>d DEF RunSequence, RunConditional
  <1>e. CASE SkipConditional
    BY <1>2, <1>e DEF SkipConditional, Mode
  <1>f. CASE RunPipe
    <2>1. PICK c \in Rc :
            /\ ran' = [k \in 1 .. NCmds |->
                        [cmd |-> IF mode = "reverse" THEN NCmds + 1 - k ELSE k, rc |-> c]]
            /\ Return(c) /\ UNCHANGED idx
      BY <1>f DEF RunPipe
    <2>2. \A k \in 1 .. NCmds : [cmd |-> IF mode = "reverse" THEN NCmds + 1 - k ELSE k, rc |-> c] \in Entry
      BY <1>2 DEF Entry
    <2>3. ran' \in Seq(Entry)
      BY <1>2, <2>1, <2>2, IsASeq
    <2> QED
      BY <1>2, <2>1, <2>3 DEF Return, Mode
  <1> QED
    BY <1>a, <1>b, <1>c, <1>d, <1>e, <1>f, Zenon DEF Execute

LEMMA CountParse ==
  ASSUME LineType, CountInv, Parse
  PROVE  CountInv'
  <1>1. /\ cmds \in Seq(CommandType) /\ ops \in Seq(OpType) /\ cur \in CommandType
        /\ Len(cmds) \in Nat /\ Len(ops) \in Nat
    BY LenProperties DEF LineType
  <1>2. Fails => CountInv'
    <2>1. Fails => at' \in ParseError
      BY DEF Fails, Fail
    <2> QED
      BY <2>1, ErrorFacts DEF CountInv
  <1>3. ASSUME NEW c \in CommandType, cmds' = Append(cmds, c), ops' = ops, at = "cmd", at' = "op"
        PROVE  CountInv'
    BY <1>1, <1>3, AppendProperties DEF CountInv
  <1>4. ASSUME UNCHANGED <<cmds, ops>>, at = "cmd", at' = at PROVE CountInv'
    BY <1>4 DEF CountInv
  <1>a. CASE ParseBegins
    BY <1>1, <1>a DEF ParseBegins, CountInv
  <1>b. CASE ArgWord
    BY <1>2, <1>4, <1>b, ArgWordIs DEF Sees, TakeInto
  <1>c. CASE TypeToken
    BY <1>4, <1>c DEF TypeToken, Sees, TakeInto
  <1>d. CASE Amp
    <2>1. [cur EXCEPT !.type = "BG", !.bg = TRUE] \in CommandType
      BY <1>1, CommandMore
    <2> QED
      BY <1>2, <1>3, <1>d, <2>1, AmpIs DEF Sees
  <1>e. CASE Redirect
    BY <1>2, <1>4, <1>e, RedirectIs DEF Sees
  <1>f. CASE EndCommand
    BY <1>1, <1>2, <1>3, <1>f, EndCommandIs
  <1>g. CASE BeginCommand
    BY <1>2, <1>g, BeginCommandIs DEF CountInv
  <1>h. CASE ParseOperator
    <2>1. toks[pos] \in Connector => OpOf[toks[pos]] \in OpType
      BY DEF Connector, OpOf, OpType
    <2>2. toks[pos] \in Connector => Len(Append(ops, OpOf[toks[pos]])) = Len(ops) + 1
      BY <1>1, <2>1, AppendProperties
    <2> QED
      BY <1>1, <1>2, <1>h, <2>2, ParseOperatorIs DEF CountInv
  <1>i. CASE EndLine
    <2>1. cmds # <<>> => Len(cmds) >= 1
      BY <1>1, EmptySeq
    <2> QED
      BY <1>1, <1>2, <1>i, <2>1, EndLineIs DEF CountInv, NCmds
  <1> QED
    BY <1>a, <1>b, <1>c, <1>d, <1>e, <1>f, <1>g, <1>h, <1>i, Zenon DEF Parse, ParseStep

LEMMA TypeNext == LineType /\ CountInv /\ [Next]_vars => (LineType /\ CountInv)'
  <1> SUFFICES ASSUME LineType, CountInv, [Next]_vars PROVE LineType' /\ CountInv'
    OBVIOUS
  <1>1. CASE Lex
    <2>1. UNCHANGED <<cmds, ops, at>>
      BY <1>1 DEF Lex, parseVars
    <2> QED
      BY <1>1, <2>1, TypeLex DEF CountInv, NCmds
  <1>2. CASE Parse
    BY <1>2, TypeParse, CountParse
  <1>3. CASE Execute
    <2>1. UNCHANGED <<cmds, ops, at>>
      BY <1>3 DEF Execute, parseVars
    <2> QED
      BY <1>3, <2>1, TypeExec DEF CountInv, NCmds
  <1>4. CASE UNCHANGED vars
    <2>1. /\ UNCHANGED <<line, p, tokens, lexed, toks, pos, cur, cmds, ops, at>>
          /\ UNCHANGED <<mode, idx, rc, ran>>
      BY <1>4 DEF vars, lexVars, parseVars, execVars
    <2> QED
      BY <2>1, Zenon DEF LineType, CountInv, NCmds
  <1> QED
    BY <1>1, <1>2, <1>3, <1>4 DEF Next

-----------------------------------------------------------------------------
(* What a line runs.                                                       *)

LEMMA RanIs ==
  ASSUME ran \in Seq(Entry)
  PROVE  /\ Len(ran) \in Nat /\ (ran = <<>> <=> Len(ran) = 0)
         /\ \A k \in 1 .. Len(ran) : ran[k] \in Entry /\ ran[k].cmd \in Nat /\ ran[k].rc \in Int
  <1>1. Len(ran) \in Nat /\ (ran = <<>> <=> Len(ran) = 0)
    BY LenProperties, EmptySeq
  <1>2. \A k \in 1 .. Len(ran) : ran[k] \in Entry
    BY ElementOfSeq
  <1> QED
    BY <1>1, <1>2 DEF Entry, Rc

\* The last command that ran before k, where there is one.
LEMMA BeforeIs ==
  ASSUME ran \in Seq(Entry), NEW k \in Nat, ran # <<>>, ran[1].cmd < k
  PROVE  \E m \in 1 .. Len(ran) :
           /\ ran[m].cmd < k /\ \A n \in 1 .. Len(ran) : ran[n].cmd < k => n <= m
           /\ m = CHOOSE m1 \in {n \in 1 .. Len(ran) : ran[n].cmd < k} :
                     \A n \in {n1 \in 1 .. Len(ran) : ran[n1].cmd < k} : n <= m1
           /\ LastBefore(k) = ran[m].rc
  <1> DEFINE before == {m \in 1 .. Len(ran) : ran[m].cmd < k}
             top == CHOOSE m \in before : \A n \in before : n <= m
  <1>1. Len(ran) \in Nat /\ 1 \in before /\ before \subseteq 0 .. Len(ran)
    BY RanIs
  <1>2. \E m \in before : \A n \in before : n <= m
    <2> HIDE DEF before
    <2> QED
      BY <1>1, GreatestIn
  <1>3. top \in before /\ \A n \in before : n <= top
    <2> HIDE DEF before
    <2> QED
      BY <1>2
  <1>4. LastBefore(k) = ran[top].rc
    BY DEF LastBefore
  <1>5. /\ top \in 1 .. Len(ran) /\ ran[top].cmd < k
        /\ \A n \in 1 .. Len(ran) : ran[n].cmd < k => n <= top
    <2> HIDE DEF top
    <2> QED
      BY <1>3
  <1> QED
    BY <1>4, <1>5, Zenon

LEMMA BeforeLast ==
  ASSUME ran \in Seq(Entry), NEW k \in Nat, ran # <<>>, \A m \in 1 .. Len(ran) : ran[m].cmd < k
  PROVE  LastBefore(k) = Last(ran).rc
  <1>1. Len(ran) \in Nat /\ Len(ran) >= 1
    BY RanIs
  <1>2. ran[1].cmd < k
    BY <1>1
  <1>3. PICK m \in 1 .. Len(ran) :
          LastBefore(k) = ran[m].rc /\ \A n \in 1 .. Len(ran) : ran[n].cmd < k => n <= m
    BY <1>2, BeforeIs, Zenon
  <1>4. m = Len(ran)
    BY <1>1, <1>3
  <1> QED
    BY <1>3, <1>4 DEF Last

LEMMA BeforeSame ==
  ASSUME ran \in Seq(Entry), NEW e \in Entry, ran' = Append(ran, e),
         NEW k \in Nat, k <= e.cmd, ran # <<>>, ran[1].cmd < k
  PROVE  LastBefore(k)' = LastBefore(k)
  <1> DEFINE before == {m \in 1 .. Len(ran) : ran[m].cmd < k}
             top == CHOOSE m \in before : \A n \in before : n <= m
  <1>1. /\ Len(ran) \in Nat /\ Len(ran') = Len(ran) + 1
        /\ \A m \in 1 .. Len(ran) : ran'[m] = ran[m]
        /\ ran'[Len(ran) + 1] = e /\ e.cmd \in Nat
    BY RanIs, AppendAt DEF Entry
  <1>2. {m \in 1 .. Len(ran') : ran'[m].cmd < k} = before
    <2>1. ASSUME NEW m \in 1 .. Len(ran') PROVE ran'[m].cmd < k <=> m \in before
      <3>1. CASE m \in 1 .. Len(ran)
        BY <1>1, <3>1
      <3>2. CASE m = Len(ran) + 1
        BY <1>1, <3>2
      <3> QED
        BY <1>1, <3>1, <3>2
    <2>2. before \subseteq 1 .. Len(ran')
      BY <1>1
    <2> QED
      BY <2>1, <2>2
  <1>3. LastBefore(k)' = ran'[top].rc
    BY <1>2 DEF LastBefore
  <1>4. LastBefore(k) = ran[top].rc
    BY DEF LastBefore
  <1>5. top \in 1 .. Len(ran)
    BY BeforeIs, Zenon
  <1> QED
    BY <1>1, <1>3, <1>4, <1>5

LEMMA SameLine ==
  ASSUME UNCHANGED <<cmds, ops>>
  PROVE  /\ NCmds' = NCmds /\ dispatch' = dispatch
         /\ \A c : Uniform(c)' = Uniform(c)
  BY DEF NCmds, dispatch, Uniform

LEMMA NoneRun ==
  ASSUME UNCHANGED <<cmds, ops>>, ran' = <<>>, rc' = -1,
         ~ Uniform("conditional"), ~ Uniform("sequence")
  PROVE  LineRunsAsWritten'
  <1>1. ~ Uniform("conditional")' /\ ~ Uniform("sequence")'
    BY SameLine
  <1>2. 1 .. Len(ran') = {}
    BY EmptySeq
  <1> QED
    BY <1>1, <1>2 DEF LineRunsAsWritten

\* The executors before they run anything.
Before == ExecInv /\ LineType /\ CountInv /\ UNCHANGED <<lexVars, parseVars>>

LEMMA DispatchStep ==
  ASSUME Before, DoExecute
  PROVE  ExecInv'
  <1>1. /\ at = "ok" /\ at' = at /\ mode = "idle" /\ UNCHANGED <<cmds, ops, idx, ran>>
        /\ ran = <<>> /\ idx = 1 /\ idx' = idx /\ ran' = ran
    BY DEF Before, DoExecute, Refuse, parseVars, ExecInv
  <1>2. CASE dispatch = "mixed"
    <2>1. mode' = "end" /\ rc' = -1
      BY <1>2 DEF DoExecute, Refuse, Return
    <2>2. ~ Uniform("conditional") /\ ~ Uniform("sequence")
      BY <1>1, <1>2, DispatchIs DEF Before
    <2>3. LineRunsAsWritten'
      BY <1>1, <2>1, <2>2, NoneRun
    <2> QED
      BY <1>1, <2>1, <2>3 DEF ExecInv
  <1>3. CASE dispatch # "mixed"
    <2>1. /\ mode' = dispatch /\ NCmds' = NCmds /\ dispatch' = dispatch /\ NCmds >= 1
          /\ dispatch \in {"single", "sequence", "conditional", "pipe", "reverse"}
      BY <1>1, <1>3, DispatchIs, SameLine DEF DoExecute, Before
    <2>2. SequenceInv' /\ ConditionalInv'
      <3>1. ran' = <<>> /\ idx' = 1 /\ Len(ran') = 0 /\ 1 .. Len(ran') = {} /\ 1 .. idx' - 1 = {}
        BY <1>1, EmptySeq
      <3> QED
        BY <3>1 DEF SequenceInv, ConditionalInv, Unbroken, Ascending
    <2> QED
      BY <1>1, <2>1, <2>2 DEF ExecInv
  <1> QED
    BY <1>2, <1>3

LEMMA RefuseStep ==
  ASSUME Before, RefuseTrailing \/ RefuseMixed
  PROVE  ExecInv'
  <1>1. /\ at = "ok" /\ at' = at /\ mode = dispatch /\ UNCHANGED <<cmds, ops>> /\ ran' = <<>>
        /\ mode' = "end" /\ rc' = -1
    BY DEF Before, RefuseTrailing, RefuseMixed, Refuse, Return, parseVars, ExecInv
  <1>2. \A c \in {"sequence", "conditional"} : Uniform(c) => dispatch = c
    BY <1>1, DispatchIs DEF Before
  <1>3. ASSUME NEW c \in {"sequence", "conditional"}, Uniform(c) PROVE FALSE
    <2>1. dispatch = c /\ Len(ops) = NCmds - 1 /\ \A k \in 1 .. Len(ops) : ClassOf[ops[k]] = c
      BY <1>2, <1>3 DEF Uniform
    <2> QED
      BY <1>1, <2>1 DEF RefuseTrailing, RefuseMixed
  <1>4. LineRunsAsWritten'
    BY <1>1, <1>3, NoneRun
  <1> QED
    BY <1>1, <1>4 DEF ExecInv

\* A line of one command has run it.
LEMMA SingleStep ==
  ASSUME Before, RunSingle
  PROVE  ExecInv'
  <1>1. /\ at = "ok" /\ at' = at /\ dispatch = "single" /\ UNCHANGED <<cmds, ops>> /\ ran = <<>>
        /\ mode' = "end"
    BY DEF Before, RunSingle, Return, parseVars, ExecInv
  <1>2. PICK c \in Rc : ran' = Append(<<>>, [cmd |-> 1, rc |-> c]) /\ rc' = c
    BY <1>1 DEF RunSingle, Runs, Return
  <1>3. Len(ran') = 1 /\ ran' # <<>> /\ Last(ran').rc = c
    <2>1. [cmd |-> 1, rc |-> c] \in Entry
      BY DEF Entry
    <2> QED
      BY <1>2, <2>1, EmptySeq, AppendProperties DEF Last
  <1>4. NCmds' = 1
    BY <1>1, DispatchIs, SameLine DEF Before
  <1>5. LineRunsAsWritten'
    BY <1>2, <1>3, <1>4 DEF LineRunsAsWritten, Uniform
  <1> QED
    BY <1>1, <1>5 DEF ExecInv

\* The pipe executors run all of their commands at once.
LEMMA PipeStep ==
  ASSUME Before, RunPipe
  PROVE  ExecInv'
  <1>1. /\ at = "ok" /\ at' = at /\ mode = dispatch /\ mode \in {"pipe", "reverse"}
        /\ UNCHANGED <<cmds, ops>> /\ mode' = "end"
    BY DEF Before, RunPipe, Return, parseVars, ExecInv
  <1>2. PICK c \in Rc : ran' = [k \in 1 .. NCmds |->
            [cmd |-> IF mode = "reverse" THEN NCmds + 1 - k ELSE k, rc |-> c]] /\ rc' = c
    BY DEF RunPipe, Return
  <1>3. /\ NCmds \in Nat /\ NCmds' = NCmds /\ dispatch' = dispatch /\ NCmds # 1
        /\ ~ Uniform("conditional")' /\ ~ Uniform("sequence")'
    BY <1>1, DispatchIs, SameLine DEF Before
  <1>4. Len(ran') = NCmds
    <2>1. DOMAIN ran' = 1 .. NCmds
      BY <1>2
    <2> HIDE <1>2
    <2>2. ran' \in Seq(Entry)
      BY <1>1, TypeExec DEF Before, Execute, LineType
    <2> QED
      BY <1>3, <2>1, <2>2, LenProperties
  <1>5. \A k \in 1 .. Len(ops) : ClassOf[ops[k]] = mode
    BY <1>1 DEF RunPipe, Accepted
  <1>6. \A j, k \in 1 .. Len(ops)' : ClassOf[ops[j]]' = ClassOf[ops[k]]'
    BY <1>1, <1>5
  <1>7. dispatch # "reverse" => \A j, k \in 1 .. Len(ran)' : j < k => (ran[j].cmd < ran[k].cmd)'
    BY <1>1, <1>2, <1>3, <1>4
  <1>8. ran' # <<>> /\ Last(ran').rc = c
    <2>1. NCmds >= 1
      BY <1>1, DispatchIs DEF Before
    <2>2. Len(ran') \in 1 .. NCmds /\ Len(ran') # 0
      BY <1>3, <1>4, <2>1
    <2>3. ran'[Len(ran')].rc = c
      BY <1>2, <2>2
    <2> QED
      BY <2>2, <2>3 DEF Last
  <1>9. LineRunsAsWritten'
    BY <1>2, <1>3, <1>6, <1>7, <1>8 DEF LineRunsAsWritten
  <1> QED
    BY <1>1, <1>9 DEF ExecInv

LEMMA RunsMore ==
  ASSUME ran \in Seq(Entry), NEW k \in Nat, NEW c \in Rc, Runs(k, c)
  PROVE  /\ Len(ran) \in Nat /\ Len(ran') = Len(ran) + 1 /\ ran' # <<>>
         /\ \A m \in 1 .. Len(ran) : ran'[m] = ran[m]
         /\ ran'[Len(ran) + 1].cmd = k /\ ran'[Len(ran) + 1].rc = c
         /\ Last(ran').cmd = k /\ Last(ran').rc = c
         /\ [cmd |-> k, rc |-> c] \in Entry /\ ran' = Append(ran, [cmd |-> k, rc |-> c])
         /\ c \in Int
  <1> DEFINE e == [cmd |-> k, rc |-> c]
  <1>1. e \in Entry /\ e.cmd = k /\ e.rc = c /\ ran' = Append(ran, e) /\ c \in Int
    BY DEF Entry, Runs, Rc
  <1> HIDE DEF e
  <1>2. /\ Len(ran) \in Nat /\ Len(ran') = Len(ran) + 1 /\ ran' # <<>>
        /\ \A m \in 1 .. Len(ran) : ran'[m] = ran[m]
        /\ ran'[Len(ran) + 1] = e /\ Last(ran') = e
    BY <1>1, AppendAt
  <1> QED
    BY <1>1, <1>2 DEF e

LEMMA SequenceStep ==
  ASSUME Before, RunSequence
  PROVE  ExecInv'
  <1>1. /\ at = "ok" /\ at' = at /\ dispatch = "sequence" /\ UNCHANGED <<cmds, ops>>
        /\ SequenceInv /\ idx =< NCmds /\ mode = "sequence" /\ Accepted
        /\ ran \in Seq(Entry) /\ idx \in Nat \ {0}
    BY DEF Before, RunSequence, parseVars, ExecInv, LineType
  <1>2. PICK c \in Rc : Runs(idx, c) /\ NextCmd(c)
    BY DEF RunSequence
  <1>3. /\ NCmds \in Nat /\ NCmds' = NCmds /\ dispatch' = dispatch /\ NCmds # 1
        /\ ~ Uniform("conditional")' /\ \A k \in 1 .. Len(ops) : ClassOf[ops[k]] = "sequence"
    BY <1>1, DispatchIs, SameLine DEF Before, Accepted
  <1>4. /\ Len(ran) = idx - 1 /\ Len(ran') = idx /\ ran' # <<>> /\ Last(ran').rc = c
        /\ \A m \in 1 .. idx - 1 : ran'[m] = ran[m] /\ ran[m].cmd = m /\ ran[m].rc >= 0
        /\ ran'[idx].cmd = idx /\ ran'[idx].rc = c /\ c \in Int
    <2>1. /\ Len(ran) \in Nat /\ Len(ran') = Len(ran) + 1 /\ ran' # <<>>
          /\ \A m \in 1 .. Len(ran) : ran'[m] = ran[m]
          /\ ran'[Len(ran) + 1].cmd = idx /\ ran'[Len(ran) + 1].rc = c
          /\ Last(ran').rc = c /\ c \in Int
      BY <1>1, <1>2, RunsMore
    <2>2. /\ Len(ran) = idx - 1 /\ Len(ran) + 1 = idx
          /\ \A m \in 1 .. Len(ran) : ran[m].cmd = m /\ ran[m].rc >= 0
      BY <1>1, <2>1 DEF SequenceInv, Unbroken
    <2> QED
      BY <2>1, <2>2
  <1>5. \A m \in 1 .. idx : ran'[m].cmd = m /\ (m # idx \/ c >= 0 => ran'[m].rc >= 0)
    <2> SUFFICES ASSUME NEW m \in 1 .. idx
                 PROVE  ran'[m].cmd = m /\ (m # idx \/ c >= 0 => ran'[m].rc >= 0)
      OBVIOUS
    <2>1. CASE m = idx
      BY <1>4, <2>1
    <2>2. CASE m # idx
      <3>1. m \in 1 .. idx - 1
        BY <1>1, <2>2
      <3> QED
        BY <1>4, <3>1
    <2> QED
      BY <2>1, <2>2
  <1>6. CASE c < 0 \/ idx = NCmds
    <2>1. mode' = "end" /\ rc' = Last(ran').rc /\ ran' # <<>>
      BY <1>2, <1>4, <1>6 DEF NextCmd
    <2>2. Len(ran)' = NCmds' \/ Aborted'
      BY <1>3, <1>4, <1>6 DEF Aborted
    <2>3. \A k \in 1 .. Len(ran)' : ran[k].cmd' = k
      BY <1>4, <1>5
    <2>4. \A j, k \in 1 .. Len(ran)' : j < k => (ran[j].cmd < ran[k].cmd)'
      BY <1>4, <1>5
    <2>5. \A j, k \in 1 .. Len(ops)' : ClassOf[ops[j]]' = ClassOf[ops[k]]'
      BY <1>1, <1>3
    <2>6. LineRunsAsWritten'
      BY <1>3, <2>1, <2>2, <2>3, <2>4, <2>5 DEF LineRunsAsWritten
    <2> QED
      BY <1>1, <2>1, <2>6 DEF ExecInv
  <1>7. CASE ~ (c < 0 \/ idx = NCmds)
    <2>1. mode' = "sequence" /\ idx' = idx + 1
      BY <1>1, <1>2, <1>7 DEF NextCmd
    <2>2. SequenceInv'
      BY <1>1, <1>4, <1>5, <1>7, <2>1 DEF SequenceInv, Unbroken
    <2>3. idx' =< NCmds'
      BY <1>1, <1>3, <1>7, <2>1
    <2> QED
      BY <1>1, <1>3, <2>1, <2>2, <2>3 DEF ExecInv
  <1> QED
    BY <1>6, <1>7

\* should_run is what the operator before the command says.
LEMMA ShouldRunIs ==
  ASSUME Before, mode = "conditional", Accepted
  PROVE  /\ ShouldRun <=> Wanted(idx)
         /\ at = "ok" /\ dispatch = "conditional" /\ idx =< NCmds /\ NCmds \in Nat /\ NCmds # 1
         /\ ConditionalInv /\ ran \in Seq(Entry) /\ idx \in Nat \ {0}
         /\ Len(ops) = NCmds - 1 /\ \A k \in 1 .. Len(ops) : ClassOf[ops[k]] = "conditional"
  <1>1. /\ at = "ok" /\ dispatch = "conditional" /\ idx =< NCmds
        /\ ConditionalInv /\ ran \in Seq(Entry) /\ idx \in Nat \ {0} /\ ops \in Seq(OpType)
        /\ Len(ops) = NCmds - 1 /\ \A k \in 1 .. Len(ops) : ClassOf[ops[k]] = "conditional"
    BY DEF Before, ExecInv, LineType, Accepted
  <1>2. NCmds \in Nat /\ NCmds # 1
    BY <1>1, DispatchIs DEF Before
  <1>3. ShouldRun <=> Wanted(idx)
    <2>1. CASE idx = 1
      BY <2>1 DEF ShouldRun, Wanted
    <2>2. CASE idx # 1
      <3>1. idx > 1 /\ idx - 1 \in 1 .. Len(ops)
        BY <1>1, <1>2, <2>2
      <3>2. ops[idx - 1] \in OpType /\ ClassOf[ops[idx - 1]] = "conditional"
        BY <1>1, <3>1, ElementOfSeq
      <3>3. ops[idx - 1] \in {"AND", "OR"}
        BY <3>2 DEF OpType, ClassOf
      <3>4. ran # <<>> /\ rc = Last(ran).rc
        BY <1>1, <2>2 DEF ConditionalInv
      <3>5. \A m \in 1 .. Len(ran) : ran[m].cmd < idx
        BY <1>1 DEF ConditionalInv
      <3>6. LastBefore(idx) = rc
        BY <1>1, <3>4, <3>5, BeforeLast
      <3> QED
        BY <2>2, <3>1, <3>3, <3>6 DEF ShouldRun, Wanted
    <2> QED
      BY <2>1, <2>2
  <1> QED
    BY <1>1, <1>2, <1>3

LEMMA SkipStep ==
  ASSUME Before, SkipConditional
  PROVE  ExecInv'
  <1>1. /\ mode = "conditional" /\ Accepted /\ ~ ShouldRun /\ UNCHANGED <<rc, ran, cmds, ops, at>>
        /\ idx' = idx + 1 /\ mode' = IF idx = NCmds THEN "end" ELSE mode
    BY DEF Before, SkipConditional, parseVars
  <1>2. /\ ~ Wanted(idx)
        /\ at = "ok" /\ dispatch = "conditional" /\ idx =< NCmds /\ NCmds \in Nat /\ NCmds # 1
        /\ ConditionalInv /\ ran \in Seq(Entry) /\ idx \in Nat \ {0}
        /\ Len(ops) = NCmds - 1 /\ \A k \in 1 .. Len(ops) : ClassOf[ops[k]] = "conditional"
    BY <1>1, ShouldRunIs
  <1>3. /\ NCmds' = NCmds /\ dispatch' = dispatch /\ ~ Uniform("sequence")'
        /\ \A k : HasRun(k)' = HasRun(k) /\ Wanted(k)' = Wanted(k)
    <2>1. /\ NCmds' = NCmds /\ dispatch' = dispatch
          /\ \A c : Uniform(c)' = Uniform(c)
      BY <1>1, SameLine
    <2>2. ~ Uniform("sequence")
      BY <1>2, DispatchIs DEF Before
    <2>3. \A k : HasRun(k)' = HasRun(k) /\ Wanted(k)' = Wanted(k)
      BY <1>1 DEF HasRun, Wanted, LastBefore
    <2> QED
      BY <2>1, <2>2, <2>3
  <1>4. Ascending /\ Unbroken /\ \A k \in 1 .. Len(ran) : ran[k].cmd \in 1 .. idx - 1
    BY <1>2 DEF ConditionalInv
  <1>5. ~ HasRun(idx)
    BY <1>2, <1>4 DEF HasRun
  <1>6. \A k \in 1 .. idx : HasRun(k) <=> Wanted(k)
    <2>1. \A k \in 1 .. idx : k = idx \/ k \in 1 .. idx - 1
      BY <1>2
    <2> QED
      BY <1>2, <1>5, <2>1 DEF ConditionalInv
  <1>7. idx # 1
    BY <1>1 DEF ShouldRun
  <1>8. CASE idx = NCmds
    <2>1. ~ Aborted'
      <3> SUFFICES ASSUME ran # <<>>, Last(ran).rc < 0 PROVE FALSE
        BY <1>1 DEF Aborted
      <3>1. Len(ran) \in 1 .. Len(ran) /\ ran[Len(ran)].rc \in Int
        BY <1>2, RanIs
      <3>2. ran[Len(ran)].rc >= 0
        BY <1>4, <3>1 DEF Unbroken
      <3> QED
        BY <3>1, <3>2 DEF Last
    <2>2. \A k \in 1 .. NCmds' : HasRun(k)' <=> Wanted(k)' /\ ~ (Aborted' /\ k > Last(ran').cmd)
      BY <1>3, <1>6, <1>8, <2>1
    <2>3. \A j, k \in 1 .. Len(ops)' : ClassOf[ops[j]]' = ClassOf[ops[k]]'
      BY <1>1, <1>2
    <2>4. \A j, k \in 1 .. Len(ran)' : j < k => (ran[j].cmd < ran[k].cmd)'
      BY <1>1, <1>4 DEF Ascending
    <2>5. ran' # <<>> /\ rc' = Last(ran').rc
      BY <1>1, <1>2, <1>7 DEF ConditionalInv
    <2>6. LineRunsAsWritten'
      BY <1>3, <2>2, <2>3, <2>4, <2>5 DEF LineRunsAsWritten
    <2> QED
      BY <1>1, <1>2, <1>8, <2>6 DEF ExecInv
  <1>9. CASE idx # NCmds
    <2>1. ConditionalInv'
      <3>1. Ascending' /\ Unbroken'
        BY <1>1, <1>4 DEF Ascending, Unbroken
      <3>2. \A k \in 1 .. Len(ran)' : ran[k].cmd' \in 1 .. idx' - 1
        <4>1. 1 .. idx - 1 \subseteq 1 .. idx' - 1
          BY <1>1, <1>2
        <4>2. ran' = ran
          BY <1>1
        <4> QED
          BY <1>4, <4>1, <4>2
      <3>3. ran' # <<>> /\ ran'[1].cmd = 1 /\ rc' = Last(ran').rc /\ idx' # 1
        BY <1>1, <1>2, <1>7 DEF ConditionalInv
      <3>4. \A k \in 1 .. idx' - 1 : HasRun(k)' <=> Wanted(k)'
        BY <1>1, <1>2, <1>3, <1>6
      <3> QED
        BY <3>1, <3>2, <3>3, <3>4 DEF ConditionalInv
    <2>2. mode' = "conditional" /\ idx' =< NCmds'
      BY <1>1, <1>2, <1>3, <1>9
    <2> QED
      BY <1>1, <1>2, <1>3, <2>1, <2>2 DEF ExecInv
  <1> QED
    BY <1>8, <1>9

LEMMA ConditionalStep ==
  ASSUME Before, RunConditional
  PROVE  ExecInv'
  <1>1. /\ mode = "conditional" /\ Accepted /\ ShouldRun /\ UNCHANGED <<cmds, ops, at>>
    BY DEF Before, RunConditional, parseVars
  <1>2. PICK c \in Rc : Runs(idx, c) /\ NextCmd(c)
    BY DEF RunConditional
  <1>3. /\ Wanted(idx)
        /\ at = "ok" /\ dispatch = "conditional" /\ idx =< NCmds /\ NCmds \in Nat /\ NCmds # 1
        /\ ConditionalInv /\ ran \in Seq(Entry) /\ idx \in Nat \ {0}
        /\ Len(ops) = NCmds - 1 /\ \A k \in 1 .. Len(ops) : ClassOf[ops[k]] = "conditional"
    BY <1>1, ShouldRunIs
  <1>4. /\ Len(ran) \in Nat /\ Len(ran') = Len(ran) + 1 /\ ran' # <<>>
        /\ \A m \in 1 .. Len(ran) : ran'[m] = ran[m]
        /\ ran'[Len(ran) + 1].cmd = idx /\ ran'[Len(ran) + 1].rc = c
        /\ Last(ran').cmd = idx /\ Last(ran').rc = c
        /\ [cmd |-> idx, rc |-> c] \in Entry /\ ran' = Append(ran, [cmd |-> idx, rc |-> c])
        /\ c \in Int
    BY <1>2, <1>3, RunsMore
  <1>5. /\ NCmds' = NCmds /\ dispatch' = dispatch /\ ~ Uniform("sequence")'
    <2>1. /\ NCmds' = NCmds /\ dispatch' = dispatch
          /\ \A d : Uniform(d)' = Uniform(d)
      BY <1>1, SameLine
    <2>2. ~ Uniform("sequence")
      BY <1>3, DispatchIs DEF Before
    <2> QED
      BY <2>1, <2>2
  <1>6. /\ Ascending /\ Unbroken /\ \A k \in 1 .. Len(ran) : ran[k].cmd \in 1 .. idx - 1
        /\ IF idx = 1 THEN ran = <<>> ELSE ran # <<>> /\ ran[1].cmd = 1 /\ rc = Last(ran).rc
        /\ \A k \in 1 .. idx - 1 : HasRun(k) <=> Wanted(k)
    BY <1>3 DEF ConditionalInv
  <1>7. \A k \in 1 .. Len(ran') : k = Len(ran) + 1 \/ k \in 1 .. Len(ran)
    BY <1>4
  <1>8. /\ \A k \in 1 .. Len(ran') : ran'[k].cmd \in 1 .. idx
        /\ c >= 0 => Unbroken'
    BY <1>3, <1>4, <1>6, <1>7 DEF Unbroken
  <1>9. \A j, k \in 1 .. Len(ran') : j < k => ran'[j].cmd < ran'[k].cmd
    <2> SUFFICES ASSUME NEW j \in 1 .. Len(ran'), NEW k \in 1 .. Len(ran'), j < k
                 PROVE  ran'[j].cmd < ran'[k].cmd
      OBVIOUS
    <2>1. j \in 1 .. Len(ran)
      BY <1>4
    <2>2. CASE k = Len(ran) + 1
      BY <1>3, <1>4, <1>6, <2>1, <2>2
    <2>3. CASE k \in 1 .. Len(ran)
      BY <1>4, <1>6, <2>1, <2>3 DEF Ascending
    <2> QED
      BY <1>7, <2>2, <2>3
  <1>10. /\ \A k \in 1 .. idx - 1 : HasRun(k)' <=> HasRun(k)
         /\ \A k \in {idx} : HasRun(k)'
         /\ \A k \in Nat : k > idx => ~ HasRun(k)'
    <2>1. ASSUME NEW k \in 1 .. idx - 1 PROVE HasRun(k)' <=> HasRun(k)
      <3>1. ran'[Len(ran) + 1].cmd # k
        BY <1>3, <1>4
      <3>2. \A m \in 1 .. Len(ran) : m \in 1 .. Len(ran')
        BY <1>4
      <3>3. ASSUME HasRun(k) PROVE HasRun(k)'
        <4>1. PICK m \in 1 .. Len(ran) : ran[m].cmd = k
          BY <3>3 DEF HasRun
        <4>2. m \in 1 .. Len(ran') /\ ran'[m].cmd = k
          BY <1>4, <3>2, <4>1
        <4> QED
          BY <4>2 DEF HasRun
      <3>4. ASSUME HasRun(k)' PROVE HasRun(k)
        <4>1. PICK m \in 1 .. Len(ran') : ran'[m].cmd = k
          BY <3>4 DEF HasRun
        <4>2. m \in 1 .. Len(ran) /\ ran[m].cmd = k
          BY <1>4, <1>7, <3>1, <4>1
        <4> QED
          BY <4>2 DEF HasRun
      <3> QED
        BY <3>3, <3>4
    <2>2. ASSUME NEW k \in {idx} PROVE HasRun(k)'
      <3>1. Len(ran) + 1 \in 1 .. Len(ran') /\ ran'[Len(ran) + 1].cmd = k
        BY <1>4
      <3> QED
        BY <3>1 DEF HasRun
    <2>3. ASSUME NEW k \in Nat, k > idx PROVE ~ HasRun(k)'
      BY <1>3, <1>8, <2>3 DEF HasRun
    <2> QED
      BY <2>1, <2>2, <2>3
  <1>11. \A k \in 1 .. idx : Wanted(k)' <=> Wanted(k)
    <2> SUFFICES ASSUME NEW k \in 1 .. idx PROVE Wanted(k)' <=> Wanted(k)
      OBVIOUS
    <2>1. CASE k = 1
      BY <2>1 DEF Wanted
    <2>2. CASE k # 1
      <3>1. k \in Nat /\ idx # 1 /\ k =< idx /\ 1 < k
        BY <1>3, <2>2
      <3>2. ran # <<>> /\ ran[1].cmd < k
        BY <1>6, <3>1
      <3>3. LastBefore(k)' = LastBefore(k)
        BY <1>3, <1>4, <3>1, <3>2, BeforeSame
      <3> QED
        BY <1>1, <3>3 DEF Wanted
    <2> QED
      BY <2>1, <2>2
  <1>12. \A k \in 1 .. idx : HasRun(k)' <=> Wanted(k)'
    <2> SUFFICES ASSUME NEW k \in 1 .. idx PROVE HasRun(k)' <=> Wanted(k)'
      OBVIOUS
    <2>1. CASE k = idx
      <3>1. HasRun(k)' /\ Wanted(k)
        BY <1>3, <1>10, <2>1
      <3> QED
        BY <1>11, <3>1
    <2>2. CASE k # idx
      <3>1. k \in 1 .. idx - 1
        BY <1>3, <2>2
      <3>2. HasRun(k)' <=> HasRun(k)
        BY <1>10, <3>1
      <3>3. HasRun(k) <=> Wanted(k)
        BY <1>6, <3>1
      <3> QED
        BY <1>11, <3>2, <3>3
    <2> QED
      BY <2>1, <2>2
  <1>13. CASE c < 0 \/ idx = NCmds
    <2>1. mode' = "end" /\ rc' = Last(ran').rc /\ ran' # <<>>
      BY <1>2, <1>4, <1>13 DEF NextCmd
    <2>2. Aborted' <=> c < 0
      BY <1>4 DEF Aborted
    <2>3. \A k \in 1 .. NCmds' : HasRun(k)' <=> Wanted(k)' /\ ~ (Aborted' /\ k > Last(ran').cmd)
      <3> SUFFICES ASSUME NEW k \in 1 .. NCmds
                   PROVE  HasRun(k)' <=> Wanted(k)' /\ ~ (Aborted' /\ k > Last(ran').cmd)
        BY <1>5
      <3>1. CASE k =< idx
        <4>1. k \in 1 .. idx /\ ~ (k > idx)
          BY <1>3, <3>1
        <4> QED
          BY <1>4, <1>12, <4>1
      <3>2. CASE ~ (k =< idx)
        <4>1. k > idx /\ k \in Nat /\ idx # NCmds
          BY <1>3, <3>2
        <4> QED
          BY <1>4, <1>10, <1>13, <2>2, <4>1
      <3> QED
        BY <3>1, <3>2
    <2>4. \A j, k \in 1 .. Len(ops)' : ClassOf[ops[j]]' = ClassOf[ops[k]]'
      BY <1>1, <1>3
    <2>5. \A j, k \in 1 .. Len(ran)' : j < k => (ran[j].cmd < ran[k].cmd)'
      BY <1>9
    <2>6. LineRunsAsWritten'
      BY <1>5, <2>1, <2>3, <2>4, <2>5 DEF LineRunsAsWritten
    <2> QED
      BY <1>1, <1>3, <2>1, <2>6 DEF ExecInv
  <1>14. CASE ~ (c < 0 \/ idx = NCmds)
    <2>1. mode' = "conditional" /\ idx' = idx + 1 /\ rc' = c /\ c >= 0
      BY <1>1, <1>2, <1>4, <1>14 DEF NextCmd
    <2>2. ConditionalInv'
      <3>1. Ascending' /\ Unbroken'
        BY <1>8, <1>9, <2>1 DEF Ascending
      <3>2. \A k \in 1 .. Len(ran)' : ran[k].cmd' \in 1 .. idx' - 1
        BY <1>3, <1>8, <2>1
      <3>3. ran'[1].cmd = 1
        <4>1. CASE idx = 1
          <5>1. Len(ran) = 0
            BY <1>6, <4>1, EmptySeq
          <5> QED
            BY <1>4, <4>1, <5>1
        <4>2. CASE idx # 1
          <5>1. 1 \in 1 .. Len(ran)
            BY <1>3, <1>6, <4>2, RanIs
          <5> QED
            BY <1>4, <1>6, <4>2, <5>1
        <4> QED
          BY <4>1, <4>2
      <3>4. idx' # 1 /\ ran' # <<>> /\ rc' = Last(ran').rc
        BY <1>3, <1>4, <2>1
      <3>5. \A k \in 1 .. idx' - 1 : HasRun(k)' <=> Wanted(k)'
        BY <1>3, <1>12, <2>1
      <3> QED
        BY <3>1, <3>2, <3>3, <3>4, <3>5 DEF ConditionalInv
    <2>3. idx' =< NCmds'
      BY <1>3, <1>5, <1>14, <2>1
    <2> QED
      BY <1>1, <1>3, <1>5, <2>1, <2>2, <2>3 DEF ExecInv
  <1> QED
    BY <1>13, <1>14

LEMMA ExecInit == Init => CountInv /\ ExecInv
  <1> SUFFICES ASSUME Init PROVE CountInv /\ ExecInv
    OBVIOUS
  <1>1. cmds = <<>> /\ ops = <<>> /\ at = "lex" /\ mode = "idle" /\ ran = <<>> /\ idx = 1
    BY DEF Init, ParseInit
  <1> QED
    BY <1>1 DEF CountInv, ExecInv

\* Once an executor is chosen, the line and what the parser made of it stay as they are.
LEMMA IdleStep ==
  ASSUME LineType, ExecInv, Lex \/ Parse \/ UNCHANGED vars
  PROVE  ExecInv'
  <1>1. UNCHANGED <<mode, idx, rc, ran>>
    BY DEF Lex, Parse, execVars, vars
  <1>2. CASE UNCHANGED <<cmds, ops, at>>
    <2>1. /\ NCmds' = NCmds /\ dispatch' = dispatch /\ \A c : Uniform(c)' = Uniform(c)
      BY <1>2, SameLine
    <2>2. \A k : HasRun(k)' = HasRun(k) /\ Wanted(k)' = Wanted(k)
      BY <1>1, <1>2 DEF HasRun, Wanted, LastBefore
    <2>3. SequenceInv' = SequenceInv
      BY <1>1 DEF SequenceInv, Unbroken
    <2>4. ConditionalInv' = ConditionalInv
      BY <1>1, <2>2 DEF ConditionalInv, Ascending, Unbroken
    <2>5. LineRunsAsWritten => LineRunsAsWritten'
      BY <1>1, <1>2, <2>1, <2>2 DEF LineRunsAsWritten, Aborted
    <2> QED
      BY <1>1, <1>2, <2>1, <2>3, <2>4, <2>5 DEF ExecInv
  <1>3. CASE at # "ok" /\ mode = "idle"
    BY <1>1, <1>3 DEF ExecInv
  <1>4. at # "ok" => mode = "idle"
    BY DEF ExecInv
  <1>5. CASE at = "ok"
    <2>1. CASE Parse
      BY <1>5, <2>1, ErrorFacts DEF Parse, ParseStep, ParseBegins, ArgWord, TypeToken, Amp,
         Redirect, EndCommand, BeginCommand, ParseOperator, EndLine, Sees
    <2> QED
      BY <1>2, <2>1 DEF Lex, parseVars, vars
  <1> QED
    BY <1>3, <1>4, <1>5

LEMMA ExecNext ==
  ASSUME LineType, CountInv, ExecInv, [Next]_vars
  PROVE  ExecInv'
  <1>1. CASE Lex \/ Parse \/ UNCHANGED vars
    BY <1>1, IdleStep
  <1>2. CASE Execute
    <2>1. Before
      BY <1>2 DEF Before, Execute
    <2> QED
      BY <1>2, <2>1, DispatchStep, RefuseStep, SingleStep, PipeStep, SequenceStep, SkipStep,
         ConditionalStep, Zenon DEF Execute
  <1> QED
    BY <1>1, <1>2 DEF Next

\* Of a line that the parser accepts, the commands that run are the ones its operators ask
\* for, in order, nothing runs after a negative return code, and the code of the line is
\* that of the last command that ran (exc_sequence_cmd, exc_conditional_cmd, A3.c).
THEOREM LineRunsCorrect == Spec => []LineRunsAsWritten
  <1> DEFINE Inv == LineType /\ CountInv /\ ExecInv
  <1>1. Init => Inv
    BY TypeInit, ExecInit
  <1>2. Inv /\ [Next]_vars => Inv'
    <2> SUFFICES ASSUME Inv, [Next]_vars PROVE Inv'
      OBVIOUS
    <2>1. (LineType /\ CountInv)'
      BY TypeNext
    <2>2. ExecInv'
      BY ExecNext
    <2> QED
      BY <2>1, <2>2
  <1>3. Inv => LineRunsAsWritten
    <2> SUFFICES ASSUME Inv, mode # "end" PROVE LineRunsAsWritten
      BY DEF ExecInv
    <2> QED
      BY DEF LineRunsAsWritten
  <1> QED
    BY <1>1, <1>2, <1>3, PTL DEF Spec

-----------------------------------------------------------------------------
(* The tokens.                                                             *)

IsBlank(c) == line[c] = " "

\* A token has the type of what is written, and could not have been longer.
Fits(t) ==
  /\ IF t.type = "WORD"
     THEN \A d \in 1 .. t.len : [e \in 1 .. t.len |-> line[t.from + e - 1]][d] = "w"
     ELSE [type |-> t.type, text |-> [d \in 1 .. t.len |-> line[t.from + d - 1]]] \in Spelling
  /\ LET longer == SubSeq(line, t.from, t.from + t.len)
     IN  t.from + t.len <= Len(line)
           => /\ \A s \in Spelling : s.text # longer
              /\ ~(\A d \in 1 .. Len(longer) : longer[d] = "w")

\* The tokens pushed so far lie before p, in order, and cover what is not blank there.
LexInv ==
  /\ Len(tokens) < MaxTokens /\ p =< Len(line) + 1
  /\ lexed = "ok" => p > Len(line)
  /\ \A k \in 1 .. Len(tokens) :
       /\ tokens[k].from >= 1 /\ tokens[k].len >= 1 /\ tokens[k].from + tokens[k].len =< p
       /\ Fits(tokens[k])
  /\ \A k \in 1 .. (Len(tokens) - 1) : tokens[k].from + tokens[k].len <= tokens[k + 1].from
  /\ \A c \in 1 .. p - 1 : ~ IsBlank(c) <=> \E k \in 1 .. Len(tokens) : c \in Covered(k)

LEMMA LimitIs == MaxTokens \in Nat /\ MaxTokens > 1
  <1>1. MaxTokens \in Nat \ {0, 1}
    BY LexAssumption, Zenon
  <1> QED
    BY <1>1

LEMMA BlankFacts == " " \notin Special /\ " " # "w"
  BY Zenon DEF Special

LEMMA TokensFacts ==
  ASSUME tokens \in Seq(Token)
  PROVE  /\ Len(tokens) \in Nat
         /\ \A k \in 1 .. Len(tokens) : tokens[k] \in Token /\ tokens[k].from \in Nat
                                         /\ tokens[k].len \in Nat
  <1>1. Len(tokens) \in Nat /\ \A k \in 1 .. Len(tokens) : tokens[k] \in Token
    BY LenProperties, ElementOfSeq
  <1> QED
    BY <1>1 DEF Token

\* A text without blanks, taken off the line at p.
LEMMA PushKeeps ==
  ASSUME LineType, LexInv, NEW type \in TokType, NEW len \in Nat \ {0}, push_token(type, len),
         line' = line, lexed = "run", p + len =< Len(line) + 1,
         Fits([type |-> type, from |-> p, len |-> len]),
         \A c \in p .. p + len - 1 : ~ IsBlank(c)
  PROVE  LexInv'
  <1> DEFINE t == [type |-> type, from |-> p, len |-> len]
  <1>0. /\ tokens \in Seq(Token) /\ p \in Nat \ {0} /\ Len(line) \in Nat /\ MaxTokens \in Nat
        /\ Len(tokens) \in Nat
        /\ \A k \in 1 .. Len(tokens) : tokens[k] \in Token /\ tokens[k].from \in Nat
                                        /\ tokens[k].len \in Nat
    BY TokensFacts, LenProperties, LimitIs DEF LineType
  <1>1. \A u, c : Fits(u)' = Fits(u) /\ IsBlank(c)' = IsBlank(c)
    BY Zenon DEF Fits, IsBlank
  <1>2. CASE Len(tokens) >= MaxTokens - 1
    <2>1. tokens' = tokens /\ p' = p /\ lexed' # "ok"
      BY <1>2, Zenon DEF push_token
    <2>2. \A k : Covered(k)' = Covered(k)
      BY <2>1 DEF Covered
    <2> QED
      BY <1>1, <2>1, <2>2 DEF LexInv
  <1>3. CASE ~ (Len(tokens) >= MaxTokens - 1)
    <2>1. tokens' = Append(tokens, t) /\ p' = p + len /\ lexed' = lexed
      BY <1>3, Zenon DEF push_token
    <2>2. t \in Token /\ t.from = p /\ t.len = len
      BY <1>0 DEF Token
    <2>3. Fits(t)
      OBVIOUS
    <2> HIDE DEF t
    <2>4. /\ Len(tokens') = Len(tokens) + 1 /\ tokens'[Len(tokens) + 1] = t
          /\ \A k \in 1 .. Len(tokens) : tokens'[k] = tokens[k]
      BY <1>0, <2>1, <2>2, AppendAt
    <2>5. \A k \in 1 .. Len(tokens') : k \in 1 .. Len(tokens) \/ k = Len(tokens) + 1
      BY <1>0, <2>4
    <2>6. \A k \in 1 .. Len(tokens) :
            /\ tokens[k].from >= 1 /\ tokens[k].len >= 1 /\ tokens[k].from + tokens[k].len =< p
            /\ Fits(tokens[k])
      BY DEF LexInv
    <2>7. Len(tokens)' < MaxTokens /\ p' =< Len(line)' + 1 /\ lexed' # "ok"
      BY <1>0, <1>3, <2>1, <2>4
    <2>8. \A k \in 1 .. Len(tokens') :
            /\ tokens'[k].from >= 1 /\ tokens'[k].len >= 1
            /\ tokens'[k].from + tokens'[k].len =< p' /\ Fits(tokens'[k])
      BY <1>0, <2>1, <2>2, <2>3, <2>4, <2>5, <2>6
    <2>9. \A k \in 1 .. Len(tokens') - 1 : tokens'[k].from + tokens'[k].len <= tokens'[k + 1].from
      <3> SUFFICES ASSUME NEW k \in 1 .. Len(tokens)
                   PROVE  tokens'[k].from + tokens'[k].len <= tokens'[k + 1].from
        BY <1>0, <2>4
      <3>1. CASE k = Len(tokens)
        BY <1>0, <2>2, <2>4, <2>6, <3>1
      <3>2. CASE k # Len(tokens)
        <4>1. k \in 1 .. Len(tokens) - 1 /\ k + 1 \in 1 .. Len(tokens)
          BY <1>0, <3>2
        <4>2. tokens[k].from + tokens[k].len <= tokens[k + 1].from
          BY <4>1 DEF LexInv
        <4> QED
          BY <2>4, <4>1, <4>2
      <3> QED
        BY <3>1, <3>2
    <2>10. \A k \in 1 .. Len(tokens) : Covered(k)' = Covered(k)
      BY <2>4 DEF Covered
    <2>11. \A k \in {Len(tokens) + 1} : Covered(k)' = p .. p + len - 1
      BY <2>2, <2>4 DEF Covered
    <2>12. \A c \in 1 .. p' - 1 : ~ IsBlank(c) <=> \E k \in 1 .. Len(tokens') : c \in Covered(k)'
      <3>0. 1 .. p' - 1 = 1 .. p + len - 1
        BY <1>0, <2>1
      <3> SUFFICES ASSUME NEW c \in 1 .. p + len - 1
                   PROVE  ~ IsBlank(c) <=> \E k \in 1 .. Len(tokens') : c \in Covered(k)'
        BY <3>0, Zenon
      <3>1. CASE c \in 1 .. p - 1
        <4>1. ~ IsBlank(c) <=> \E k \in 1 .. Len(tokens) : c \in Covered(k)
          BY <3>1 DEF LexInv
        <4>2. c \notin p .. p + len - 1 /\ 1 .. Len(tokens) \subseteq 1 .. Len(tokens')
          BY <1>0, <2>4, <3>1
        <4> QED
          BY <2>5, <2>10, <2>11, <4>1, <4>2
      <3>2. CASE c \in p .. p + len - 1
        <4>1. Len(tokens) + 1 \in 1 .. Len(tokens')
          BY <1>0, <2>4
        <4> QED
          BY <2>11, <3>2, <4>1
      <3> QED
        BY <1>0, <3>1, <3>2
    <2> QED
      BY <1>1, <2>7, <2>8, <2>9, <2>12 DEF LexInv
  <1> QED
    BY <1>2, <1>3

\* The characters of an operator, as they stand on the line.
LEMMA StartsIs ==
  ASSUME LineType, NEW s \in Spelling, Starts(s.text)
  PROVE  /\ p + Len(s.text) =< Len(line) + 1
         /\ \A d \in 1 .. Len(s.text) : /\ line[p + d - 1] = s.text[d] /\ s.text[d] \in Special
                                         /\ s.text[d] # "w" /\ ~ IsBlank(p + d - 1)
  <1>1. p \in Nat \ {0} /\ Len(line) \in Nat
    BY LenProperties DEF LineType
  <1>2. Len(s.text) \in 1 .. 3 /\ \A d \in 1 .. Len(s.text) : s.text[d] \in Special
    BY SpellingFacts DEF IsText
  <1>3. ASSUME NEW d \in 1 .. Len(s.text)
        PROVE  p + d - 1 =< Len(line) /\ line[p + d - 1] = s.text[d]
    <2>1. At(d - 1) = s.text[d] /\ At(d - 1) # "end"
      BY <1>2, SpecialFacts DEF Starts
    <2>2. p + (d - 1) =< Len(line) /\ line[p + (d - 1)] = s.text[d]
      BY <2>1 DEF At
    <2>3. p + (d - 1) = p + d - 1
      BY <1>1, <1>2
    <2> QED
      BY <2>2, <2>3
  <1>4. ASSUME NEW d \in 1 .. Len(s.text) PROVE s.text[d] # "w" /\ ~ IsBlank(p + d - 1)
    BY <1>2, <1>3, SpecialFacts, BlankFacts, Zenon DEF IsBlank
  <1>5. p + Len(s.text) =< Len(line) + 1
    <2> DEFINE n == Len(s.text)
    <2>1. n \in 1 .. 3 /\ \A d \in 1 .. n : p + d - 1 =< Len(line)
      BY <1>2, <1>3
    <2> HIDE DEF n
    <2>2. p + n =< Len(line) + 1
      BY <1>1, <2>1
    <2> QED
      BY <2>2 DEF n
  <1> QED
    BY <1>2, <1>3, <1>4, <1>5

\* Where one character more is on the line, the longer text is read character by character.
LEMMA LongerIs ==
  ASSUME LineType, NEW n \in Nat, p + n =< Len(line)
  PROVE  LET longer == SubSeq(line, p, p + n)
         IN  Len(longer) = n + 1 /\ \A d \in 1 .. n + 1 : longer[d] = line[p + d - 1]
                                                         /\ At(d - 1) = longer[d]
  <1>1. line \in Seq(Char) /\ p \in Nat \ {0} /\ Len(line) \in Nat
    BY LenProperties DEF LineType
  <1>2. p \in 1 .. Len(line) + 1 /\ p + n \in p - 1 .. Len(line)
    BY <1>1
  <1>3. Len(SubSeq(line, p, p + n)) = p + n - p + 1
        /\ \A d \in 1 .. p + n - p + 1 : SubSeq(line, p, p + n)[d] = line[p + d - 1]
    BY <1>1, <1>2, SubSeqProperties
  <1>4. p + n - p + 1 = n + 1
    BY <1>1
  <1>5. ASSUME NEW d \in 1 .. n + 1 PROVE At(d - 1) = line[p + d - 1]
    <2>1. p + (d - 1) = p + d - 1 /\ p + (d - 1) =< Len(line)
      BY <1>1
    <2> QED
      BY <2>1 DEF At
  <1> QED
    BY <1>3, <1>4, <1>5

LEMMA BlankKeeps ==
  ASSUME LineType, LexInv, Blank
  PROVE  LexInv'
  <1>1. /\ IsBlank(p) /\ p' = p + 1 /\ UNCHANGED <<line, tokens>> /\ lexed' = "run" /\ p =< Len(line)
    <2>1. p =< Len(line) /\ lexed = "run" /\ p' = p + 1 /\ UNCHANGED <<line, tokens, lexed>>
      BY Zenon DEF Blank, Running
    <2>2. At(0) = " "
      BY Zenon DEF Blank
    <2>3. p + 0 = p
      BY DEF LineType
    <2>4. At(0) = line[p]
      BY <2>1, <2>3, Zenon DEF At
    <2> QED
      BY <2>1, <2>2, <2>4, Zenon DEF IsBlank
  <1>2. /\ tokens \in Seq(Token) /\ p \in Nat \ {0} /\ Len(line) \in Nat /\ MaxTokens \in Nat
        /\ \A k \in 1 .. Len(tokens) : tokens[k].from \in Nat /\ tokens[k].len \in Nat
    BY TokensFacts, LenProperties, LimitIs DEF LineType
  <1>3. /\ \A u, c : Fits(u)' = Fits(u) /\ IsBlank(c)' = IsBlank(c)
        /\ \A k : Covered(k)' = Covered(k)
    BY <1>1, Zenon DEF Fits, IsBlank, Covered
  <1>4. \A k \in 1 .. Len(tokens) :
          /\ tokens[k].from >= 1 /\ tokens[k].len >= 1 /\ tokens[k].from + tokens[k].len =< p
          /\ tokens[k].from + tokens[k].len =< p + 1
          /\ Fits(tokens[k])
    BY <1>2 DEF LexInv
  <1>5. \A k \in 1 .. Len(tokens) : p \notin Covered(k)
    BY <1>2, <1>4 DEF Covered
  <1>6. \A c \in 1 .. p' - 1 : ~ IsBlank(c) <=> \E k \in 1 .. Len(tokens) : c \in Covered(k)
    <2>1. \A c \in 1 .. p' - 1 : c = p \/ c \in 1 .. p - 1
      BY <1>1, <1>2
    <2> QED
      BY <1>1, <1>5, <2>1 DEF LexInv
  <1>7. p' =< Len(line) + 1
    BY <1>1, <1>2
  <1> QED
    BY <1>1, <1>3, <1>4, <1>6, <1>7 DEF LexInv

LEMMA OperatorKeeps ==
  ASSUME LineType, LexInv, Operator
  PROVE  LexInv'
  <1>1. PICK s \in Spelling :
          /\ Starts(s.text) /\ push_token(s.type, Len(s.text))
          /\ \A longer \in Spelling : Len(longer.text) > Len(s.text) => ~ Starts(longer.text)
    BY Zenon DEF Operator
  <1>2. line' = line /\ lexed = "run"
    BY Zenon DEF Operator, Running
  <1>3. /\ s = [type |-> s.type, text |-> s.text] /\ s.type \in TokType /\ s.type # "WORD"
        /\ s.text \in Seq(Special) /\ Len(s.text) \in 1 .. 3
    BY SpellingFacts DEF IsText
  <1>4. /\ p + Len(s.text) =< Len(line) + 1
        /\ \A d \in 1 .. Len(s.text) : /\ line[p + d - 1] = s.text[d] /\ s.text[d] # "w"
                                        /\ ~ IsBlank(p + d - 1)
    BY <1>1, StartsIs
  <1>5. p \in Nat \ {0} /\ Len(line) \in Nat
    BY LenProperties DEF LineType
  <1> DEFINE n == Len(s.text)
             t == [type |-> s.type, from |-> p, len |-> n]
             longer == SubSeq(line, p, p + n)
  <1>6. n \in Nat \ {0} /\ t.type = s.type /\ t.from = p /\ t.len = n
    <2>1. n \in 1 .. 3
      BY <1>3
    <2> HIDE DEF n
    <2> QED
      BY <2>1
  <1>7. \A c \in p .. p + n - 1 : ~ IsBlank(c)
    <2> SUFFICES ASSUME NEW c \in p .. p + n - 1 PROVE ~ IsBlank(c)
      OBVIOUS
    <2>1. c - p + 1 \in 1 .. n /\ p + (c - p + 1) - 1 = c
      BY <1>5, <1>6
    <2> QED
      BY <1>4, <2>1
  <1>8. [d \in 1 .. n |-> line[p + d - 1]] = s.text
    <2>1. DOMAIN s.text = 1 .. n /\ s.text = [d \in DOMAIN s.text |-> s.text[d]]
      BY <1>3, LenProperties
    <2> QED
      BY <1>4, <2>1
  <1>9. ASSUME p + n =< Len(line)
        PROVE  /\ \A u \in Spelling : u.text # longer
               /\ ~ (\A d \in 1 .. Len(longer) : longer[d] = "w")
    <2>1. Len(longer) = n + 1 /\ \A d \in 1 .. n + 1 : longer[d] = line[p + d - 1] /\ At(d - 1) = longer[d]
      BY <1>6, <1>9, LongerIs
    <2>2. longer[1] # "w"
      <3>1. 1 \in 1 .. n /\ 1 \in 1 .. n + 1
        BY <1>6
      <3> QED
        BY <1>4, <2>1, <3>1
    <2>3. ASSUME NEW u \in Spelling, u.text = longer PROVE FALSE
      <3>1. Starts(u.text)
        BY <2>1, <2>3 DEF Starts
      <3>2. Len(u.text) = n + 1
        BY <2>1, <2>3
      <3>3. n + 1 > n
        BY <1>6
      <3> QED
        BY <1>1, <3>1, <3>2, <3>3
    <2>4. 1 \in 1 .. Len(longer)
      <3>1. 1 \in 1 .. n + 1
        BY <1>6
      <3> QED
        BY <2>1, <3>1
    <2> QED
      BY <2>2, <2>3, <2>4
  <1>10. Fits(t)
    <2> HIDE DEF n, longer
    <2> SUFFICES /\ [type |-> s.type, text |-> [d \in 1 .. n |-> line[p + d - 1]]] \in Spelling
                 /\ p + n =< Len(line) => /\ \A u \in Spelling : u.text # SubSeq(line, p, p + n)
                                          /\ ~ (\A d \in 1 .. Len(SubSeq(line, p, p + n)) :
                                                   SubSeq(line, p, p + n)[d] = "w")
      BY <1>3, <1>6 DEF Fits
    <2> QED
      BY <1>3, <1>8, <1>9 DEF longer
  <1> HIDE DEF n
  <1> QED
    BY <1>1, <1>2, <1>3, <1>4, <1>6, <1>7, <1>10, PushKeeps DEF n

LEMMA WordKeeps ==
  ASSUME LineType, LexInv, Word
  PROVE  LexInv'
  <1> DEFINE n == WordLen
             t == [type |-> "WORD", from |-> p, len |-> n]
             longer == SubSeq(line, p, p + n)
  <1>1. At(0) = "w" /\ lexed = "run" /\ p =< Len(line) /\ line' = line
    BY Zenon DEF Word, Running
  <1>2. p \in Nat \ {0} /\ Len(line) \in Nat /\ line \in Seq(Char)
    BY LenProperties DEF LineType
  <1>3. n \in 1 .. (Len(line) - p + 1) /\ (\A d \in 0 .. (n - 1) : At(d) = "w") /\ At(n) # "w"
    BY <1>1, <1>2, WordLenIs
  <1> HIDE DEF n
  <1>4. CASE lexed' = "arg too long" /\ UNCHANGED <<p, tokens>>
    <2>1. /\ \A u, c : Fits(u)' = Fits(u) /\ IsBlank(c)' = IsBlank(c)
          /\ \A k : Covered(k)' = Covered(k)
      BY <1>1, <1>4, Zenon DEF Fits, IsBlank, Covered
    <2>2. lexed' # "ok"
      BY <1>4, Zenon
    <2>3. UNCHANGED <<p, tokens, line>>
      BY <1>1, <1>4, Zenon
    <2> QED
      BY <2>1, <2>2, <2>3 DEF LexInv
  <1>5. CASE push_token("WORD", n)
    <2>1. ASSUME NEW d \in 0 .. n - 1 PROVE p + d =< Len(line) /\ line[p + d] = "w"
      <3>1. At(d) # "end"
        BY <1>3, SpecialFacts
      <3> QED
        BY <1>3, <3>1 DEF At
    <2>2. p + n =< Len(line) + 1 /\ n \in Nat \ {0} /\ "WORD" \in TokType
      BY <1>2, <1>3 DEF TokType
    <2>3. \A c \in p .. p + n - 1 : line[c] = "w"
      <3> SUFFICES ASSUME NEW c \in p .. p + n - 1 PROVE line[c] = "w"
        OBVIOUS
      <3>1. c - p \in 0 .. n - 1 /\ p + (c - p) = c
        BY <1>2, <2>2
      <3> QED
        BY <2>1, <3>1
    <2>4. \A c \in p .. p + n - 1 : ~ IsBlank(c)
      BY <2>3, BlankFacts, Zenon DEF IsBlank
    <2>5. ASSUME p + n =< Len(line)
          PROVE  /\ \A u \in Spelling : u.text # longer
                 /\ ~ (\A d \in 1 .. Len(longer) : longer[d] = "w")
      <3>1. Len(longer) = n + 1 /\ \A d \in 1 .. n + 1 : longer[d] = line[p + d - 1] /\ At(d - 1) = longer[d]
        BY <2>2, <2>5, LongerIs
      <3>2. n + 1 \in 1 .. n + 1 /\ 1 \in 1 .. n + 1 /\ (n + 1) - 1 = n /\ 1 - 1 = 0
        BY <2>2
      <3>3. longer[n + 1] # "w" /\ longer[1] = "w"
        <4>1. longer[n + 1] = At((n + 1) - 1) /\ longer[1] = At(1 - 1)
          BY <3>1, <3>2
        <4> QED
          BY <1>1, <1>3, <3>2, <4>1
      <3>4. ASSUME NEW u \in Spelling PROVE u.text # longer
        <4>1. u.text[1] \in Special
          BY SpellingFacts DEF IsText
        <4> QED
          BY <3>3, <4>1, SpecialFacts
      <3> QED
        BY <3>1, <3>2, <3>3, <3>4
    <2>6. \A d \in 1 .. n : line[p + d - 1] = "w"
      <3> SUFFICES ASSUME NEW d \in 1 .. n PROVE line[p + d - 1] = "w"
        OBVIOUS
      <3>1. p + d - 1 \in p .. p + n - 1
        BY <1>2, <2>2
      <3> QED
        BY <2>3, <3>1
    <2>7. Fits(t)
      BY <2>5, <2>6 DEF Fits
    <2> QED
      BY <1>1, <1>5, <2>2, <2>4, <2>7, PushKeeps
  <1> QED
    BY <1>4, <1>5, Zenon DEF Word, n

LEMMA LexKeeps ==
  ASSUME LineType, LexInv, [Next]_vars
  PROVE  LexInv'
  <1>1. CASE UNCHANGED lexVars
    <2>1. UNCHANGED <<line, p, tokens, lexed>>
      BY <1>1 DEF lexVars
    <2> QED
      BY <2>1, Zenon DEF LexInv, Fits, IsBlank, Covered
  <1>2. CASE EndOfLine
    <2>1. UNCHANGED <<line, p, tokens>> /\ p > Len(line)
      BY <1>2 DEF EndOfLine
    <2>2. /\ \A u, c : Fits(u)' = Fits(u) /\ IsBlank(c)' = IsBlank(c)
          /\ \A k : Covered(k)' = Covered(k)
      BY <2>1, Zenon DEF Fits, IsBlank, Covered
    <2> QED
      BY <2>1, <2>2 DEF LexInv
  <1> QED
    BY <1>1, <1>2, BlankKeeps, OperatorKeeps, WordKeeps, Zenon
    DEF Next, Lex, LexStep, Parse, Execute, vars

\* What do_lex returns is the line (A3.c): the tokens are in order, leave out blanks only,
\* have the type of what is written, and none of them could have been longer.
THEOREM TokensCorrect == Spec => []TokensAreLine
  <1> DEFINE Inv == LineType /\ CountInv /\ LexInv
  <1>1. Init => Inv
    <2> SUFFICES ASSUME Init PROVE Inv
      OBVIOUS
    <2>1. LineType /\ CountInv
      BY TypeInit, ExecInit
    <2>2. tokens = <<>> /\ p = 1 /\ lexed = "run"
      BY Zenon DEF Init, LexInit
    <2>3. Len(line) \in Nat /\ MaxTokens \in Nat /\ MaxTokens # 0
      BY <2>1, LenProperties, LimitIs DEF LineType
    <2>4. LexInv
      BY <2>2, <2>3 DEF LexInv
    <2> QED
      BY <2>1, <2>4
  <1>2. Inv /\ [Next]_vars => Inv'
    <2> SUFFICES ASSUME Inv, [Next]_vars PROVE Inv'
      OBVIOUS
    <2>1. (LineType /\ CountInv)'
      BY TypeNext
    <2>2. LexInv'
      BY LexKeeps
    <2> QED
      BY <2>1, <2>2
  <1>3. Inv => TokensAreLine
    <2> SUFFICES ASSUME Inv PROVE TokensAreLine
      OBVIOUS
    <2>1. /\ Len(tokens) < MaxTokens
          /\ \A k \in 1 .. (Len(tokens) - 1) : tokens[k].from + tokens[k].len <= tokens[k + 1].from
          /\ \A k \in 1 .. Len(tokens) : Fits(tokens[k])
      BY DEF LexInv
    <2>2. ASSUME lexed = "ok"
          PROVE  \A c \in 1 .. Len(line) : ~ IsBlank(c) <=> \E k \in 1 .. Len(tokens) : c \in Covered(k)
      <3>1. Len(line) \in Nat /\ p \in Nat /\ p > Len(line)
        BY <2>2, LenProperties DEF LexInv, LineType
      <3>2. 1 .. Len(line) \subseteq 1 .. p - 1
        BY <3>1
      <3> QED
        BY <3>2 DEF LexInv
    <2> QED
      BY <2>1, <2>2, Zenon DEF TokensAreLine, Fits, IsBlank, Text
  <1> QED
    BY <1>1, <1>2, <1>3, PTL DEF Spec

-----------------------------------------------------------------------------
(* The parser.                                                             *)

\* Where piece k begins and ends, and what of it stands before q.
Start(k) == IF k = 1 THEN 1 ELSE Cuts[k - 1] + 1
Stop(k) == IF k > Len(Cuts) THEN Len(toks) ELSE Cuts[k] - 1
ReadTo(k, q) == SubSeq(toks, Start(k), q - 1)

\* The command c is what the tokens s say.
Describes(c, s) ==
  /\ c.argc = Cardinality(ArgWords(s))
  /\ c.type = TypeOfCommand(s)

ReadAs(c, s) ==
  /\ IsCommand(s) /\ Describes(c, s)
  /\ c.bg <=> Last(s) = "AMP"

\* A command that is not read to its end has every redirection with its file.
Clean(s) ==
  \A j \in 1 .. Len(s) : /\ s[j] # "AMP"
                         /\ s[j] \in Redirection => j < Len(s) /\ s[j + 1] = "WORD"

\* The command that the parser is at.
Here == Len(ops) + 1

Earlier ==
  /\ Len(ops) =< Len(Cuts)
  /\ \A k \in 1 .. Len(ops) : ReadAs(cmds[k], Pieces[k]) /\ ops[k] = OpOf[toks[Cuts[k]]]

InCommand(h, q, c) ==
  /\ Start(h) =< Len(toks) /\ q \in Start(h) .. Stop(h) + 1
  /\ Clean(ReadTo(h, q)) /\ Describes(c, ReadTo(h, q)) /\ c.bg = FALSE

AfterCommand(h, q, c) ==
  /\ q \in Start(h) + 1 .. Stop(h) + 1
  /\ ReadAs(c, ReadTo(h, q))
  /\ q = Stop(h) + 1 \/ Last(ReadTo(h, q)) = "AMP"

AllRead ==
  /\ Accepts
  /\ Len(cmds) \in {Len(Cuts), Len(Cuts) + 1} \ {0}
  /\ \A k \in 1 .. Len(cmds) : ReadAs(cmds[k], Pieces[k])
  /\ ops = [k \in 1 .. Len(Cuts) |-> OpOf[toks[Cuts[k]]]]

\* The pieces before the one the parser is at are read, that one up to pos; an error
\* means that the line is not of the language.
ParseInv ==
  /\ Len(ops) < MaxCmds /\ Len(cmds) =< MaxCmds
  /\ at = "lex" => pos = 1 /\ cmds = <<>> /\ ops = <<>>
  /\ at \in {"line", "cmd", "op"} => Earlier
  /\ at = "line" => pos = Start(Here)
  /\ at = "cmd" => InCommand(Here, pos, cur)
  /\ at = "op" => AfterCommand(Here, pos, cmds[Here])
  /\ at = "ok" => AllRead
  /\ at \in ParseError => ~ Accepts

\* u begins with s.
Extends(u, s) ==
  u \in Seq(TokType) /\ Len(s) =< Len(u) /\ \A j \in 1 .. Len(s) : u[j] = s[j]

\* The tokens that set a type without ending the command.
TypeSetting == {"HASH", "PLUS", "DPLUS", "TPIPE"}

\* The type that the token at place j gives a command.
TypeAt(s, j) ==
  CASE s[j] = "HASH"  -> "WORD_COUNT"
    [] s[j] = "PLUS"  -> "TXT_CAT"
    [] s[j] = "DPLUS" -> "TXT_APP"
    [] s[j] = "AMP"   -> "BG"
    [] s[j] = "TPIPE" -> IF \E w \in ArgWords(s) : w < j THEN "FIFO_W" ELSE "FIFO_R"

LEMMA ArgcIs == MaxArgc \in Nat /\ MaxArgc >= 1 /\ MaxCmds \in Nat /\ MaxCmds >= 1
  BY ParseAssumption

LEMMA WordsAre ==
  ASSUME NEW s \in Seq(TokType)
  PROVE  /\ Len(s) \in Nat /\ ArgWords(s) \subseteq 1 .. Len(s)
         /\ IsFiniteSet(ArgWords(s)) /\ Cardinality(ArgWords(s)) \in Nat
         /\ Cardinality(ArgWords(s)) = 0 <=> ArgWords(s) = {}
  <1>1. Len(s) \in Nat
    BY LenProperties
  <1>2. ArgWords(s) \subseteq 1 .. Len(s)
    BY DEF ArgWords
  <1>3. IsFiniteSet(1 .. Len(s))
    BY <1>1, FS_Interval
  <1>4. IsFiniteSet(ArgWords(s))
    BY <1>2, <1>3, FS_Subset
  <1> QED
    BY <1>1, <1>2, <1>4, FS_CardinalityType, FS_EmptySet

LEMMA ExtendsWords ==
  ASSUME NEW s \in Seq(TokType), NEW u, Extends(u, s)
  PROVE  /\ ArgWords(s) \subseteq ArgWords(u)
         /\ Cardinality(ArgWords(s)) =< Cardinality(ArgWords(u))
  <1>1. Len(s) \in Nat /\ Len(u) \in Nat /\ u \in Seq(TokType) /\ Len(s) =< Len(u)
    BY LenProperties DEF Extends
  <1>2. ArgWords(s) \subseteq ArgWords(u)
    <2> SUFFICES ASSUME NEW j \in ArgWords(s) PROVE j \in ArgWords(u)
      OBVIOUS
    <2>1. j \in 1 .. Len(s) /\ s[j] = "WORD" /\ (j = 1 \/ s[j - 1] \notin Redirection)
      BY DEF ArgWords
    <2>2. j \in 1 .. Len(u) /\ u[j] = "WORD"
      BY <1>1, <2>1 DEF Extends
    <2>3. j # 1 => j - 1 \in 1 .. Len(s)
      BY <1>1, <2>1
    <2>4. j = 1 \/ u[j - 1] \notin Redirection
      BY <2>1, <2>3 DEF Extends
    <2> QED
      BY <2>2, <2>4 DEF ArgWords
  <1> QED
    BY <1>1, <1>2, WordsAre, FS_Subset

\* One more token.
LEMMA OneMore ==
  ASSUME NEW s \in Seq(TokType), NEW t \in TokType, Clean(s)
  PROVE  /\ Append(s, t) \in Seq(TokType) /\ Len(s) \in Nat /\ Len(Append(s, t)) = Len(s) + 1
         /\ Append(s, t)[Len(s) + 1] = t /\ Last(Append(s, t)) = t
         /\ \A j \in 1 .. Len(s) : Append(s, t)[j] = s[j]
         /\ ArgWords(Append(s, t)) = IF t = "WORD" THEN ArgWords(s) \union {Len(s) + 1}
                                                   ELSE ArgWords(s)
         /\ TypeTokens(Append(s, t)) = IF t \in TypeSetting \union {"AMP"}
                                        THEN TypeTokens(s) \union {Len(s) + 1} ELSE TypeTokens(s)
         /\ t \notin Redirection \union {"AMP"} => Clean(Append(s, t))
  <1> DEFINE u == Append(s, t)
  <1>1. /\ u \in Seq(TokType) /\ Len(s) \in Nat /\ Len(u) = Len(s) + 1 /\ u[Len(s) + 1] = t
        /\ Last(u) = t /\ \A j \in 1 .. Len(s) : u[j] = s[j]
    BY AppendAt
  <1> HIDE DEF u
  <1>2. \A j \in 1 .. Len(u) : j \in 1 .. Len(s) \/ j = Len(s) + 1
    BY <1>1
  <1>3. \A j \in 1 .. Len(s) : j \in 1 .. Len(u) /\ j # Len(s) + 1
                               /\ (j # 1 => j - 1 \in 1 .. Len(s))
    BY <1>1
  <1>4. Len(s) # 0 => s[Len(s)] \notin Redirection
    BY <1>1 DEF Clean
  <1>5. ASSUME NEW j \in 1 .. Len(s) PROVE j \in ArgWords(u) <=> j \in ArgWords(s)
    <2>1. u[j] = s[j] /\ (j # 1 => u[j - 1] = s[j - 1]) /\ j \in 1 .. Len(u)
      BY <1>1, <1>3
    <2> QED
      BY <2>1 DEF ArgWords
  <1>6. Len(s) + 1 \in ArgWords(u) <=> t = "WORD"
    <2>1. Len(s) + 1 \in 1 .. Len(u) /\ (Len(s) + 1) - 1 = Len(s)
      BY <1>1
    <2>2. Len(s) # 0 => u[(Len(s) + 1) - 1] \notin Redirection
      BY <1>1, <1>4, <2>1
    <2>3. Len(s) + 1 = 1 <=> Len(s) = 0
      BY <1>1
    <2> QED
      BY <1>1, <2>1, <2>2, <2>3 DEF ArgWords
  <1>7. ArgWords(u) \subseteq 1 .. Len(u) /\ ArgWords(s) \subseteq 1 .. Len(s)
    BY <1>1, WordsAre
  <1>8. ArgWords(u) = IF t = "WORD" THEN ArgWords(s) \union {Len(s) + 1} ELSE ArgWords(s)
    <2>1. Len(s) + 1 \in 1 .. Len(u) /\ Len(s) + 1 \notin 1 .. Len(s)
      BY <1>1
    <2>2. CASE t = "WORD"
      BY <1>2, <1>5, <1>6, <1>7, <2>1, <2>2
    <2>3. CASE t # "WORD"
      <3>1. \A j : j \in ArgWords(u) <=> j \in ArgWords(s)
        BY <1>2, <1>5, <1>6, <1>7, <2>1, <2>3
      <3>2. ArgWords(u) = ArgWords(s)
        BY <3>1, Zenon
      <3> QED
        BY <2>3, <3>2
    <2> QED
      BY <2>2, <2>3
  <1>9. TypeTokens(u) = IF t \in TypeSetting \union {"AMP"} THEN TypeTokens(s) \union {Len(s) + 1}
                                                         ELSE TypeTokens(s)
    <2>1. TypeTokens(u) \subseteq 1 .. Len(u) /\ TypeTokens(s) \subseteq 1 .. Len(s)
      BY DEF TypeTokens
    <2>2. \A j \in 1 .. Len(s) : j \in TypeTokens(u) <=> j \in TypeTokens(s)
      BY <1>1, <1>3 DEF TypeTokens
    <2>3. Len(s) + 1 \in TypeTokens(u) <=> t \in TypeSetting \union {"AMP"}
      BY <1>1 DEF TypeTokens, TypeSetting
    <2>4. Len(s) + 1 \in 1 .. Len(u) /\ Len(s) + 1 \notin 1 .. Len(s)
      BY <1>1
    <2>5. CASE t \in TypeSetting \union {"AMP"}
      BY <1>2, <2>1, <2>2, <2>3, <2>4, <2>5
    <2>6. CASE t \notin TypeSetting \union {"AMP"}
      <3>1. \A j : j \in TypeTokens(u) <=> j \in TypeTokens(s)
        BY <1>2, <2>1, <2>2, <2>3, <2>4, <2>6
      <3>2. TypeTokens(u) = TypeTokens(s)
        BY <3>1, Zenon
      <3> QED
        BY <2>6, <3>2
    <2> QED
      BY <2>5, <2>6
  <1>10. ASSUME t \notin Redirection \union {"AMP"} PROVE Clean(u)
    <2> SUFFICES ASSUME NEW j \in 1 .. Len(u)
                 PROVE  u[j] # "AMP" /\ (u[j] \in Redirection => j < Len(u) /\ u[j + 1] = "WORD")
      BY DEF Clean
    <2>1. CASE j = Len(s) + 1
      BY <1>1, <1>10, <2>1
    <2>2. CASE j \in 1 .. Len(s)
      <3>1. u[j] = s[j] /\ u[j] # "AMP" /\ j < Len(u)
        BY <1>1, <2>2 DEF Clean
      <3>2. ASSUME u[j] \in Redirection PROVE u[j + 1] = "WORD"
        <4>1. j < Len(s) /\ s[j + 1] = "WORD"
          BY <2>2, <3>1, <3>2 DEF Clean
        <4>2. j + 1 \in 1 .. Len(s)
          BY <1>1, <2>2, <4>1
        <4> QED
          BY <1>1, <4>1, <4>2
      <3> QED
        BY <3>1, <3>2
    <2> QED
      BY <1>2, <2>1, <2>2
  <1> QED
    BY <1>1, <1>8, <1>9, <1>10 DEF u

\* A redirection and its file.
LEMMA FileMore ==
  ASSUME NEW s \in Seq(TokType), NEW r \in Redirection, Clean(s), r \in TokType
  PROVE  LET u == Append(Append(s, r), "WORD")
         IN  /\ u \in Seq(TokType) /\ Len(u) = Len(s) + 2 /\ Clean(u)
             /\ \A j \in 1 .. Len(s) : u[j] = s[j]
             /\ ArgWords(u) = ArgWords(s) /\ TypeTokens(u) = TypeTokens(s)
  <1> DEFINE v == Append(s, r)
             u == Append(v, "WORD")
  <1>0. r # "WORD" /\ r # "AMP" /\ r \notin TypeSetting /\ "WORD" \in TokType
        /\ "WORD" \notin Redirection \union {"AMP"} \union TypeSetting
    BY DEF Redirection, TypeSetting, TokType
  <1>1. /\ v \in Seq(TokType) /\ Len(s) \in Nat /\ Len(v) = Len(s) + 1 /\ v[Len(s) + 1] = r
        /\ \A j \in 1 .. Len(s) : v[j] = s[j]
        /\ ArgWords(v) = ArgWords(s) /\ TypeTokens(v) = TypeTokens(s)
    BY <1>0, OneMore
  <1>2. /\ u \in Seq(TokType) /\ Len(u) = Len(v) + 1 /\ u[Len(v) + 1] = "WORD"
        /\ \A j \in 1 .. Len(v) : u[j] = v[j]
    BY <1>0, <1>1, AppendAt
  <1> HIDE DEF u, v
  <1>3. /\ Len(u) = Len(s) + 2 /\ u[Len(s) + 1] = r /\ u[Len(s) + 2] = "WORD"
        /\ \A j \in 1 .. Len(s) : u[j] = s[j] /\ j \in 1 .. Len(u) /\ (j # 1 => j - 1 \in 1 .. Len(s))
        /\ \A j \in 1 .. Len(u) : j \in 1 .. Len(s) \/ j = Len(s) + 1 \/ j = Len(s) + 2
        /\ Len(s) + 1 \in 1 .. Len(u) /\ Len(s) + 2 \in 1 .. Len(u) /\ (Len(s) + 2) - 1 = Len(s) + 1
        /\ Len(s) + 2 # 1
    BY <1>1, <1>2
  <1>4. Clean(u)
    <2> SUFFICES ASSUME NEW j \in 1 .. Len(u)
                 PROVE  u[j] # "AMP" /\ (u[j] \in Redirection => j < Len(u) /\ u[j + 1] = "WORD")
      BY DEF Clean
    <2>1. CASE j = Len(s) + 1
      BY <1>0, <1>1, <1>3, <2>1
    <2>2. CASE j = Len(s) + 2
      BY <1>0, <1>3, <2>2
    <2>3. CASE j \in 1 .. Len(s)
      <3>1. u[j] = s[j] /\ u[j] # "AMP" /\ j < Len(u)
        BY <1>1, <1>3, <2>3 DEF Clean
      <3>2. ASSUME u[j] \in Redirection PROVE u[j + 1] = "WORD"
        <4>1. j < Len(s) /\ s[j + 1] = "WORD"
          BY <2>3, <3>1, <3>2 DEF Clean
        <4>2. j + 1 \in 1 .. Len(s)
          BY <1>1, <2>3, <4>1
        <4> QED
          BY <1>3, <4>1, <4>2
      <3> QED
        BY <3>1, <3>2
    <2> QED
      BY <1>3, <2>1, <2>2, <2>3
  <1>5. ArgWords(u) = ArgWords(s)
    <2>1. \A j \in 1 .. Len(s) : j \in ArgWords(u) <=> j \in ArgWords(s)
      BY <1>3 DEF ArgWords
    <2>2. Len(s) + 1 \notin ArgWords(u)
      BY <1>0, <1>3 DEF ArgWords
    <2>3. Len(s) + 2 \notin ArgWords(u)
      BY <1>3 DEF ArgWords
    <2>4. ArgWords(u) \subseteq 1 .. Len(u) /\ ArgWords(s) \subseteq 1 .. Len(s)
      BY <1>2, WordsAre
    <2> QED
      BY <1>3, <2>1, <2>2, <2>3, <2>4
  <1>6. TypeTokens(u) = TypeTokens(s)
    <2>1. TypeTokens(u) \subseteq 1 .. Len(u) /\ TypeTokens(s) \subseteq 1 .. Len(s)
      BY DEF TypeTokens
    <2>2. \A j \in 1 .. Len(s) : j \in TypeTokens(u) <=> j \in TypeTokens(s)
      BY <1>3 DEF TypeTokens
    <2>3. Len(s) + 1 \notin TypeTokens(u) /\ Len(s) + 2 \notin TypeTokens(u)
      BY <1>0, <1>3 DEF TypeTokens, TypeSetting
    <2> QED
      BY <1>3, <2>1, <2>2, <2>3
  <1> QED
    BY <1>2, <1>3, <1>4, <1>5, <1>6 DEF u, v

\* The last type token decides.
LEMMA TypeIs ==
  ASSUME NEW s \in Seq(TokType)
  PROVE  /\ TypeTokens(s) = {} => TypeOfCommand(s) = "SIMPLE"
         /\ TypeTokens(s) \subseteq 1 .. Len(s)
         /\ TypeTokens(s) # {} => \E j \in TypeTokens(s) : \A m \in TypeTokens(s) : m =< j
         /\ \A j \in TypeTokens(s) :
              (\A m \in TypeTokens(s) : m =< j) => TypeOfCommand(s) = TypeAt(s, j)
  <1> DEFINE T == TypeTokens(s)
             top == CHOOSE k \in T : \A m \in T : m <= k
  <1>1. Len(s) \in Nat /\ T \subseteq 1 .. Len(s) /\ T \subseteq 0 .. Len(s)
    BY LenProperties DEF TypeTokens
  <1>2. T = {} => TypeOfCommand(s) = "SIMPLE"
    BY DEF TypeOfCommand
  <1>3. T # {} => TypeOfCommand(s) = TypeAt(s, top)
    BY DEF TypeOfCommand, TypeAt
  <1>4. T # {} => \E j \in T : \A m \in T : m =< j
    <2> HIDE DEF T
    <2> QED
      BY <1>1, GreatestIn
  <1>5. ASSUME NEW j \in T, \A m \in T : m =< j PROVE top = j
    <2> HIDE DEF T
    <2>1. \A k \in T : (\A m \in T : m <= k) => k = j
      BY <1>1, <1>5
    <2> QED
      BY <1>5, <2>1
  <1> QED
    BY <1>1, <1>2, <1>3, <1>4, <1>5, Zenon

\* What has no type token leaves the type as it is.
LEMMA TypeKept ==
  ASSUME NEW s \in Seq(TokType), NEW u, Extends(u, s), TypeTokens(u) = TypeTokens(s),
         \A w \in ArgWords(u) \ ArgWords(s) : w > Len(s)
  PROVE  TypeOfCommand(u) = TypeOfCommand(s)
  <1>1. u \in Seq(TokType) /\ Len(s) \in Nat
    BY LenProperties DEF Extends
  <1>2. CASE TypeTokens(s) = {}
    BY <1>1, <1>2, TypeIs
  <1>3. CASE TypeTokens(s) # {}
    <2>1. PICK j \in TypeTokens(s) : \A m \in TypeTokens(s) : m =< j
      BY <1>3, TypeIs
    <2>2. TypeOfCommand(s) = TypeAt(s, j) /\ TypeOfCommand(u) = TypeAt(u, j)
      BY <1>1, <2>1, TypeIs
    <2>3. j \in 1 .. Len(s) /\ u[j] = s[j]
      BY <2>1, TypeIs DEF Extends
    <2>4. (\E w \in ArgWords(u) : w < j) <=> (\E w \in ArgWords(s) : w < j)
      <3>1. ArgWords(s) \subseteq ArgWords(u)
        BY ExtendsWords
      <3>2. ArgWords(u) \subseteq Nat
        BY <1>1, WordsAre
      <3>3. \A w \in ArgWords(u) : w < j => w \in ArgWords(s)
        BY <1>1, <2>3, <3>2
      <3> QED
        BY <3>1, <3>3
    <2> QED
      BY <2>2, <2>3, <2>4, Zenon DEF TypeAt
  <1> QED
    BY <1>2, <1>3

-----------------------------------------------------------------------------
(* The connectors and the pieces between them.                             *)

Rank(c) == Cardinality({d \in Connectors : d <= c})

LEMMA ConnectorsAre ==
  ASSUME toks \in Seq(TokType)
  PROVE  /\ Len(toks) \in Nat /\ Connectors \subseteq 1 .. Len(toks) /\ Connectors \subseteq Nat
         /\ IsFiniteSet(Connectors) /\ Cardinality(Connectors) \in Nat
         /\ \A c \in Nat : IsFiniteSet({d \in Connectors : d <= c}) /\ Rank(c) \in Nat
  <1>1. Len(toks) \in Nat /\ Connectors \subseteq 1 .. Len(toks)
    BY LenProperties DEF Connectors
  <1>2. IsFiniteSet(Connectors)
    <2>1. IsFiniteSet(1 .. Len(toks))
      BY <1>1, FS_Interval
    <2> QED
      BY <1>1, <2>1, FS_Subset
  <1>3. ASSUME NEW c \in Nat PROVE IsFiniteSet({d \in Connectors : d <= c}) /\ Rank(c) \in Nat
    <2>1. {d \in Connectors : d <= c} \in SUBSET Connectors
      OBVIOUS
    <2>2. IsFiniteSet({d \in Connectors : d <= c})
      BY <1>2, <2>1, FS_Subset
    <2> QED
      BY <2>2, FS_CardinalityType DEF Rank
  <1> QED
    BY <1>1, <1>2, <1>3, FS_CardinalityType

\* A connector further on has a higher rank.
LEMMA RankGrows ==
  ASSUME toks \in Seq(TokType), NEW c \in Connectors, NEW e \in Connectors, c < e
  PROVE  Rank(c) < Rank(e)
  <1> DEFINE B(x) == {d \in Connectors : d <= x}
  <1>1. c \in Nat /\ e \in Nat /\ Connectors \subseteq Nat
    BY ConnectorsAre
  <1>2. IsFiniteSet(B(c)) /\ IsFiniteSet(B(e)) /\ Rank(c) \in Nat /\ Rank(e) \in Nat
    BY <1>1, ConnectorsAre
  <1>3. B(c) \in SUBSET B(e)
    <2>1. \A d \in Connectors : d <= c => d <= e
      BY <1>1
    <2> QED
      BY <2>1
  <1>4. e \in B(e) /\ e \notin B(c)
    BY <1>1
  <1>5. Cardinality(B(c)) =< Cardinality(B(e)) /\ (Cardinality(B(e)) = Cardinality(B(c)) => B(e) = B(c))
    BY <1>2, <1>3, FS_Subset
  <1> QED
    BY <1>2, <1>4, <1>5 DEF Rank

\* Every number up to the number of connectors is the rank of one.
LEMMA RankReached ==
  ASSUME toks \in Seq(TokType)
  PROVE  /\ \A c \in Connectors : Rank(c) \in 1 .. Cardinality(Connectors)
         /\ \A k \in 1 .. Cardinality(Connectors) : \E c \in Connectors : Rank(c) = k
  <1> DEFINE N == Cardinality(Connectors)
             f == [c \in Connectors |-> Rank(c)]
  <1>1. N \in Nat /\ IsFiniteSet(Connectors) /\ Connectors \subseteq Nat
    BY ConnectorsAre
  <1>2. ASSUME NEW c \in Connectors PROVE Rank(c) \in 1 .. N
    <2>1. c \in Nat /\ {d \in Connectors : d <= c} \in SUBSET Connectors /\ Rank(c) \in Nat
          /\ IsFiniteSet({d \in Connectors : d <= c}) /\ c \in {d \in Connectors : d <= c}
      BY <1>1, ConnectorsAre
    <2>2. Rank(c) =< N
      BY <1>1, <2>1, FS_Subset DEF Rank
    <2>3. Rank(c) # 0
      BY <2>1, FS_EmptySet DEF Rank
    <2> QED
      BY <1>1, <2>1, <2>2, <2>3
  <1>3. \A c, e \in Connectors : Rank(c) = Rank(e) => c = e
    <2> SUFFICES ASSUME NEW c \in Connectors, NEW e \in Connectors, c # e PROVE Rank(c) # Rank(e)
      OBVIOUS
    <2>1. c < e \/ e < c
      BY <1>1
    <2>2. Rank(c) \in Nat /\ Rank(e) \in Nat
      BY <1>1, ConnectorsAre
    <2> QED
      BY <2>1, <2>2, RankGrows
  <1>4. IsFiniteSet(1 .. N) /\ Cardinality(1 .. N) = N
    BY <1>1, FS_Interval
  <1> HIDE DEF N
  <1>5. f \in Injection(Connectors, 1 .. N)
    BY <1>2, <1>3 DEF Injection, IsInjective
  <1>6. f \in Surjection(Connectors, 1 .. N)
    BY <1>4, <1>5, FS_Injection DEF N
  <1>7. \A k \in 1 .. N : \E c \in Connectors : f[c] = k
    BY <1>6 DEF Surjection
  <1> QED
    BY <1>2, <1>7 DEF N

\* Cuts are the connectors in order.
LEMMA CutsAre ==
  ASSUME toks \in Seq(TokType)
  PROVE  /\ Len(Cuts) \in Nat
         /\ \A k \in 1 .. Len(Cuts) : Cuts[k] \in 1 .. Len(toks) /\ toks[Cuts[k]] \in Connector
         /\ \A j, k \in 1 .. Len(Cuts) : j < k => Cuts[j] < Cuts[k]
         /\ \A c \in 1 .. Len(toks) : toks[c] \in Connector => \E k \in 1 .. Len(Cuts) : Cuts[k] = c
  <1> DEFINE N == Cardinality(Connectors)
             Cut(k) == CHOOSE c \in Connectors : Rank(c) = k
  <1>1. N \in Nat /\ Connectors \subseteq 1 .. Len(toks) /\ Connectors \subseteq Nat
    BY ConnectorsAre
  <1>2. Cuts = [k \in 1 .. N |-> Cut(k)]
    BY DEF Cuts, Rank
  <1>3. \A k \in 1 .. N : Cut(k) \in Connectors /\ Rank(Cut(k)) = k
    BY RankReached
  <1> HIDE DEF N, Cut
  <1>4. Cuts \in Seq(Connectors) /\ Len(Cuts) = N /\ \A k \in 1 .. N : Cuts[k] = Cut(k)
    BY <1>1, <1>2, <1>3, IsASeq
  <1>5. \A k \in 1 .. N : Cuts[k] \in Connectors /\ Rank(Cuts[k]) = k
    BY <1>3, <1>4
  <1>6. ASSUME NEW j \in 1 .. N, NEW k \in 1 .. N, j < k PROVE Cuts[j] < Cuts[k]
    <2>1. Cuts[j] \in Nat /\ Cuts[k] \in Nat /\ Rank(Cuts[j]) = j /\ Rank(Cuts[k]) = k
      BY <1>1, <1>5
    <2>2. ~ (Cuts[k] < Cuts[j])
      BY <1>1, <1>5, <1>6, <2>1, RankGrows
    <2>3. Cuts[k] # Cuts[j]
      BY <1>1, <1>6, <2>1
    <2> QED
      BY <2>1, <2>2, <2>3
  <1>7. ASSUME NEW c \in Connectors PROVE \E k \in 1 .. N : Cuts[k] = c
    <2>1. Rank(c) \in 1 .. N
      BY RankReached DEF N
    <2> DEFINE e == Cuts[Rank(c)]
    <2>2. e \in Connectors /\ Rank(e) = Rank(c)
      BY <1>5, <2>1
    <2> HIDE DEF e
    <2>3. e \in Nat /\ c \in Nat /\ Rank(c) \in Nat
      <3>1. Rank(c) \in Nat
        BY <1>1, <2>1
      <3>2. e \in Nat /\ c \in Nat
        BY <1>1, <2>2
      <3> QED
        BY <3>1, <3>2
    <2>4. ~ (e < c) /\ ~ (c < e)
      BY <2>2, <2>3, RankGrows
    <2>5. e = c
      BY <2>3, <2>4
    <2> QED
      BY <2>1, <2>5 DEF e
  <1>8. \A c \in 1 .. Len(toks) : c \in Connectors <=> toks[c] \in Connector
    BY DEF Connectors
  <1> QED
    BY <1>1, <1>4, <1>5, <1>6, <1>7, <1>8

\* Piece k lies between the connectors k - 1 and k.
LEMMA BoundsAre ==
  ASSUME toks \in Seq(TokType), NEW k \in 1 .. Len(Cuts) + 1
  PROVE  /\ Start(k) \in Nat /\ Start(k) >= 1 /\ Stop(k) \in Int /\ Stop(k) =< Len(toks)
         /\ Start(k) =< Stop(k) + 1 /\ Len(toks) \in Nat /\ k \in Nat /\ Len(Cuts) \in Nat
         /\ \A j \in Start(k) .. Stop(k) : toks[j] \notin Connector
         /\ k =< Len(Cuts) => /\ Cuts[k] = Stop(k) + 1 /\ Stop(k) + 1 \in 1 .. Len(toks)
                              /\ toks[Stop(k) + 1] \in Connector
                              /\ Start(k + 1) = (Stop(k) + 1) + 1
         /\ k = Len(Cuts) + 1 => Stop(k) = Len(toks)
         /\ k = 1 => Start(k) = 1
  <1>1. /\ Len(toks) \in Nat /\ Len(Cuts) \in Nat
        /\ \A i \in 1 .. Len(Cuts) : Cuts[i] \in 1 .. Len(toks) /\ toks[Cuts[i]] \in Connector
        /\ \A i, j \in 1 .. Len(Cuts) : i < j => Cuts[i] < Cuts[j]
        /\ \A c \in 1 .. Len(toks) : toks[c] \in Connector => \E i \in 1 .. Len(Cuts) : Cuts[i] = c
    BY CutsAre, LenProperties
  <1>2. k \in Nat /\ (k # 1 => k - 1 \in 1 .. Len(Cuts)) /\ (k =< Len(Cuts) => k \in 1 .. Len(Cuts))
        /\ k + 1 # 1 /\ (k + 1) - 1 = k /\ (k > Len(Cuts) <=> k = Len(Cuts) + 1)
    BY <1>1
  <1>3. Start(k) \in Nat /\ Start(k) >= 1 /\ (k = 1 => Start(k) = 1)
        /\ (k # 1 => Start(k) = Cuts[k - 1] + 1)
    BY <1>1, <1>2 DEF Start
  <1>4. Stop(k) \in Int /\ Stop(k) =< Len(toks) /\ (k = Len(Cuts) + 1 => Stop(k) = Len(toks))
        /\ (k =< Len(Cuts) => Cuts[k] = Stop(k) + 1)
    BY <1>1, <1>2 DEF Stop
  <1>5. k =< Len(Cuts) => Stop(k) + 1 \in 1 .. Len(toks) /\ toks[Stop(k) + 1] \in Connector
                          /\ Start(k + 1) = (Stop(k) + 1) + 1
    BY <1>1, <1>2, <1>4 DEF Start
  <1>6. Start(k) =< Stop(k) + 1
    <2>1. CASE k = 1 /\ k =< Len(Cuts)
      <3>1. Cuts[k] \in Nat /\ Cuts[k] >= 1
        BY <1>1, <1>2, <2>1
      <3> QED
        BY <1>3, <1>4, <2>1, <3>1
    <2>2. CASE k = 1 /\ ~ (k =< Len(Cuts))
      BY <1>1, <1>2, <1>3, <1>4, <2>2
    <2>3. CASE k # 1 /\ k =< Len(Cuts)
      <3>1. Cuts[k - 1] \in Nat /\ Cuts[k] \in Nat /\ Cuts[k - 1] < Cuts[k]
        <4>1. k - 1 \in 1 .. Len(Cuts) /\ k \in 1 .. Len(Cuts) /\ k - 1 < k
          BY <1>2, <2>3
        <4> QED
          BY <1>1, <4>1
      <3> QED
        BY <1>3, <1>4, <2>3, <3>1
    <2>4. CASE k # 1 /\ ~ (k =< Len(Cuts))
      <3>1. Cuts[k - 1] \in Nat /\ Cuts[k - 1] =< Len(toks) /\ Stop(k) = Len(toks)
        BY <1>1, <1>2, <1>4, <2>4
      <3> QED
        BY <1>1, <1>3, <2>4, <3>1
    <2> QED
      BY <2>1, <2>2, <2>3, <2>4
  <1>7. ASSUME NEW j \in Start(k) .. Stop(k), toks[j] \in Connector PROVE FALSE
    <2>1. j \in 1 .. Len(toks)
      BY <1>1, <1>3, <1>4
    <2>2. PICK i \in 1 .. Len(Cuts) : Cuts[i] = j
      BY <1>1, <1>7, <2>1
    <2>3. i \in Nat /\ j \in Nat /\ j >= Start(k)
      BY <1>3, <1>4, <2>1, <2>2
    <2>4. CASE k =< Len(Cuts) /\ i >= k
      <3>1. Cuts[k] =< j
        <4>1. CASE i = k
          BY <2>1, <2>2, <4>1
        <4>2. CASE i # k
          BY <1>1, <1>2, <2>2, <2>3, <2>4, <4>2
        <4> QED
          BY <4>1, <4>2
      <3> QED
        BY <1>4, <2>3, <2>4, <3>1
    <2>5. CASE k # 1 /\ i =< k - 1
      <3>1. j =< Cuts[k - 1]
        <4>1. CASE i = k - 1
          BY <2>1, <2>2, <4>1
        <4>2. CASE i # k - 1
          <5>1. i < k - 1 /\ k - 1 \in 1 .. Len(Cuts)
            BY <1>2, <2>3, <2>5, <4>2
          <5>2. Cuts[i] < Cuts[k - 1] /\ Cuts[k - 1] \in Nat
            BY <1>1, <5>1
          <5> QED
            BY <2>2, <2>3, <5>2
        <4> QED
          BY <4>1, <4>2
      <3> QED
        <4>1. Cuts[k - 1] \in Nat /\ Start(k) = Cuts[k - 1] + 1
          BY <1>1, <1>2, <1>3, <2>5
        <4> QED
          BY <2>3, <3>1, <4>1
    <2>6. i >= k => k =< Len(Cuts)
      BY <1>1, <1>2, <2>2
    <2>7. i >= k \/ (k # 1 /\ i =< k - 1)
      BY <1>2, <2>3, <2>2
    <2> QED
      BY <2>4, <2>5, <2>6, <2>7
  <1> QED
    BY <1>1, <1>2, <1>3, <1>4, <1>5, <1>6, <1>7

LEMMA SliceIs ==
  ASSUME NEW S, NEW s \in Seq(S), NEW a \in Nat, a >= 1, NEW b \in Int, b =< Len(s) + 1, a =< b
  PROVE  /\ SubSeq(s, a, b - 1) \in Seq(S) /\ Len(SubSeq(s, a, b - 1)) = b - a /\ b - a \in Nat
         /\ \A i \in 1 .. b - a : SubSeq(s, a, b - 1)[i] = s[(a + i) - 1]
  <1>1. Len(s) \in Nat /\ \A i \in 1 .. Len(s) : s[i] \in S
    BY LenProperties, ElementOfSeq
  <1>2. b - 1 \in Int /\ ((b - 1) - a) + 1 = b - a /\ b - a \in Nat
        /\ (a =< b - 1 \/ b - a = 0)
    BY <1>1
  <1>3. \A i \in a .. b - 1 : s[i] \in S
    <2>1. \A i \in a .. b - 1 : i \in 1 .. Len(s)
      BY <1>1
    <2> QED
      BY <1>1, <2>1
  <1>4. /\ SubSeq(s, a, b - 1) \in Seq(S)
        /\ Len(SubSeq(s, a, b - 1)) = IF a =< b - 1 THEN ((b - 1) - a) + 1 ELSE 0
        /\ \A i \in 1 .. ((b - 1) - a) + 1 : SubSeq(s, a, b - 1)[i] = s[(a + i) - 1]
    BY <1>2, <1>3, SubSeqProperties
  <1> QED
    BY <1>2, <1>4

LEMMA PiecesAre ==
  ASSUME toks \in Seq(TokType), NEW k \in 1 .. Len(Cuts) + 1
  PROVE  /\ Len(Pieces) = Len(Cuts) + 1 /\ Pieces[k] = SubSeq(toks, Start(k), Stop(k))
         /\ Pieces[k] \in Seq(TokType) /\ Len(Pieces[k]) = (Stop(k) + 1) - Start(k)
         /\ Len(Pieces[k]) \in Nat
         /\ \A i \in 1 .. Len(Pieces[k]) : Pieces[k][i] = toks[(Start(k) + i) - 1]
  <1> DEFINE n == Len(Cuts) + 1
             P(i) == SubSeq(toks, Start(i), Stop(i))
  <1>1. /\ Start(k) \in Nat /\ Start(k) >= 1 /\ Stop(k) \in Int /\ Stop(k) =< Len(toks)
        /\ Start(k) =< Stop(k) + 1 /\ Len(toks) \in Nat /\ Len(Cuts) \in Nat
    BY BoundsAre
  <1>2. Pieces = [i \in 1 .. n |-> P(i)]
    BY DEF Pieces, Start, Stop
  <1> HIDE DEF P
  <1>3. Len(Pieces) = n /\ Pieces[k] = P(k)
    BY <1>1, <1>2
  <1>4. (Stop(k) + 1) - 1 = Stop(k) /\ Stop(k) + 1 =< Len(toks) + 1 /\ Stop(k) + 1 \in Int
    BY <1>1
  <1>5. /\ P(k) \in Seq(TokType) /\ Len(P(k)) = (Stop(k) + 1) - Start(k)
        /\ (Stop(k) + 1) - Start(k) \in Nat
        /\ \A i \in 1 .. (Stop(k) + 1) - Start(k) : P(k)[i] = toks[(Start(k) + i) - 1]
    <2> DEFINE a == Start(k)
               b == Stop(k) + 1
    <2>1. a \in Nat /\ a >= 1 /\ b \in Int /\ b =< Len(toks) + 1 /\ a =< b /\ P(k) = SubSeq(toks, a, b - 1)
      BY <1>1, <1>4 DEF P
    <2> HIDE DEF a, b
    <2>2. LET x == SubSeq(toks, a, b - 1)
          IN  /\ x \in Seq(TokType) /\ Len(x) = b - a /\ b - a \in Nat
              /\ \A i \in 1 .. b - a : x[i] = toks[(a + i) - 1]
      BY <2>1, SliceIs
    <2>3. /\ P(k) \in Seq(TokType) /\ Len(P(k)) = b - a /\ b - a \in Nat
          /\ \A i \in 1 .. b - a : P(k)[i] = toks[(a + i) - 1]
      BY <2>1, <2>2, Zenon
    <2> QED
      BY <2>3 DEF a, b
  <1> QED
    BY <1>3, <1>5 DEF P

\* What has been read of a piece, and one more token of it.
LEMMA ReadIs ==
  ASSUME toks \in Seq(TokType), NEW k \in 1 .. Len(Cuts) + 1, NEW q \in Start(k) .. Stop(k) + 1
  PROVE  /\ ReadTo(k, q) \in Seq(TokType) /\ Len(ReadTo(k, q)) = q - Start(k) /\ q \in Nat
         /\ Extends(Pieces[k], ReadTo(k, q))
         /\ q = Stop(k) + 1 => ReadTo(k, q) = Pieces[k]
         /\ q = Start(k) => ReadTo(k, q) = <<>>
         /\ q =< Stop(k) =>
              /\ toks[q] \in TokType /\ ReadTo(k, q + 1) = Append(ReadTo(k, q), toks[q])
              /\ (q - Start(k)) + 1 \in 1 .. Len(Pieces[k])
              /\ Pieces[k][(q - Start(k)) + 1] = toks[q]
              /\ Extends(Pieces[k], Append(ReadTo(k, q), toks[q]))
  <1>1. /\ Start(k) \in Nat /\ Start(k) >= 1 /\ Stop(k) \in Int /\ Stop(k) =< Len(toks)
        /\ Start(k) =< Stop(k) + 1 /\ Len(toks) \in Nat
    BY BoundsAre
  <1>2. /\ Pieces[k] = SubSeq(toks, Start(k), Stop(k)) /\ Pieces[k] \in Seq(TokType)
        /\ Len(Pieces[k]) = (Stop(k) + 1) - Start(k)
        /\ \A i \in 1 .. Len(Pieces[k]) : Pieces[k][i] = toks[(Start(k) + i) - 1]
    BY PiecesAre
  <1>3. \A i \in Start(k) .. Stop(k) : toks[i] \in TokType
    <2>1. \A i \in 1 .. Len(toks) : toks[i] \in TokType
      BY ElementOfSeq
    <2> QED
      BY <1>1, <2>1
  <1>4. ASSUME NEW r \in Start(k) .. Stop(k) + 1
        PROVE  /\ ReadTo(k, r) \in Seq(TokType) /\ Len(ReadTo(k, r)) = r - Start(k) /\ r \in Nat
               /\ \A i \in 1 .. r - Start(k) : ReadTo(k, r)[i] = toks[(Start(k) + i) - 1]
    <2>1. r \in Nat /\ r - 1 \in Int /\ Start(k) =< r /\ r =< Stop(k) + 1
      BY <1>1
    <2>2. r =< Len(toks) + 1
      BY <1>1, <2>1
    <2> DEFINE a == Start(k)
    <2>3. a \in Nat /\ a >= 1 /\ a =< r /\ ReadTo(k, r) = SubSeq(toks, a, r - 1)
      BY <1>1, <2>1 DEF ReadTo
    <2> HIDE DEF a
    <2>4. /\ ReadTo(k, r) \in Seq(TokType) /\ Len(ReadTo(k, r)) = r - a
          /\ \A i \in 1 .. r - a : ReadTo(k, r)[i] = toks[(a + i) - 1]
      BY <2>1, <2>2, <2>3, SliceIs
    <2> QED
      BY <2>1, <2>4 DEF a
  <1>5. ASSUME NEW r \in Start(k) .. Stop(k) + 1 PROVE Extends(Pieces[k], ReadTo(k, r))
    <2>1. r \in Nat /\ r =< Stop(k) + 1 /\ Len(ReadTo(k, r)) = r - Start(k)
      BY <1>1, <1>4
    <2>2. Len(ReadTo(k, r)) =< Len(Pieces[k]) /\ Len(Pieces[k]) \in Int
      BY <1>1, <1>2, <2>1
    <2>3. \A i \in 1 .. Len(ReadTo(k, r)) : i \in 1 .. Len(Pieces[k])
      BY <1>1, <2>1, <2>2
    <2> QED
      BY <1>2, <1>4, <2>1, <2>2, <2>3 DEF Extends
  <1>6. q = Stop(k) + 1 => ReadTo(k, q) = Pieces[k]
    <2>1. q = Stop(k) + 1 => q - 1 = Stop(k)
      BY <1>1
    <2> QED
      BY <1>2, <2>1 DEF ReadTo
  <1>7. q = Start(k) => ReadTo(k, q) = <<>>
    <2>1. q = Start(k) => Len(ReadTo(k, q)) = 0
      BY <1>1, <1>4
    <2> QED
      BY <1>4, <2>1, EmptySeq
  <1>8. ASSUME q =< Stop(k)
        PROVE  /\ toks[q] \in TokType /\ ReadTo(k, q + 1) = Append(ReadTo(k, q), toks[q])
               /\ (q - Start(k)) + 1 \in 1 .. Len(Pieces[k])
               /\ Pieces[k][(q - Start(k)) + 1] = toks[q]
               /\ Extends(Pieces[k], Append(ReadTo(k, q), toks[q]))
    <2>1. /\ q \in Nat /\ q \in Start(k) .. Stop(k) /\ q + 1 \in Start(k) .. Stop(k) + 1
          /\ (q + 1) - Start(k) = (q - Start(k)) + 1 /\ q - Start(k) \in Nat
          /\ (Start(k) + ((q - Start(k)) + 1)) - 1 = q
      BY <1>1, <1>8
    <2>2. toks[q] \in TokType
      BY <1>3, <2>1
    <2> DEFINE s == ReadTo(k, q)
               t == ReadTo(k, q + 1)
               m == q - Start(k)
    <2>3. /\ s \in Seq(TokType) /\ Len(s) = m
          /\ \A i \in 1 .. m : s[i] = toks[(Start(k) + i) - 1]
      BY <1>4
    <2>4. /\ t \in Seq(TokType) /\ Len(t) = m + 1
          /\ \A i \in 1 .. m + 1 : t[i] = toks[(Start(k) + i) - 1]
      BY <1>4, <2>1
    <2>5. m \in Nat /\ (Start(k) + (m + 1)) - 1 = q
      BY <2>1
    <2>6. (q - Start(k)) + 1 \in 1 .. Len(Pieces[k])
      <3> DEFINE a == Start(k)
                 b == Stop(k)
      <3>1. a \in Nat /\ b \in Int /\ q \in Nat /\ q - a \in Nat /\ q =< b
        BY <1>1, <1>8, <2>1
      <3> HIDE DEF a, b
      <3>2. (q - a) + 1 =< (b + 1) - a /\ (q - a) + 1 \in Nat /\ (q - a) + 1 >= 1
        BY <3>1
      <3> QED
        BY <1>1, <1>2, <3>2 DEF a, b
    <2>a. Pieces[k][(q - Start(k)) + 1] = toks[q]
      BY <1>2, <2>1, <2>6
    <2>b. Extends(Pieces[k], t)
      BY <1>5, <2>1
    <2> HIDE DEF s, t, m
    <2>7. /\ Append(s, toks[q]) \in Seq(TokType) /\ Len(Append(s, toks[q])) = m + 1
          /\ \A i \in 1 .. m : Append(s, toks[q])[i] = s[i]
          /\ Append(s, toks[q])[m + 1] = toks[q]
      BY <2>2, <2>3, AppendAt
    <2>8. \A i \in 1 .. m + 1 : t[i] = Append(s, toks[q])[i]
      <3> SUFFICES ASSUME NEW i \in 1 .. m + 1 PROVE t[i] = Append(s, toks[q])[i]
        OBVIOUS
      <3>1. CASE i = m + 1
        BY <2>4, <2>5, <2>7, <3>1
      <3>2. CASE i # m + 1
        <4>1. i \in 1 .. m
          BY <2>5, <3>2
        <4> QED
          BY <2>3, <2>4, <2>7, <4>1
      <3> QED
        BY <3>1, <3>2
    <2>9. t = Append(s, toks[q])
      BY <2>4, <2>7, <2>8, SeqEqual
    <2> QED
      BY <2>2, <2>6, <2>9, <2>a, <2>b DEF s, t
  <1> QED
    BY <1>4, <1>5, <1>6, <1>7, <1>8

\* A piece that is no command makes the line one that is refused.
LEMMA RefusedPiece ==
  ASSUME toks \in Seq(TokType), NEW k \in 1 .. Len(Cuts) + 1, Start(k) =< Len(toks),
         ~ IsCommand(Pieces[k])
  PROVE  ~ Accepts
  <1> DEFINE n == Len(Pieces)
             trailing == n > 1 /\ Pieces[n] = <<>>
  <1>1. /\ n = Len(Cuts) + 1 /\ Len(Cuts) \in Nat /\ k \in Nat /\ k =< n
        /\ Len(Pieces[k]) = (Stop(k) + 1) - Start(k) /\ Start(k) \in Nat
        /\ Len(toks) \in Nat /\ (k = Len(Cuts) + 1 => Stop(k) = Len(toks))
    BY PiecesAre, BoundsAre
  <1>2. k = n => ~ trailing
    <2>1. k = n => Len(Pieces[k]) # 0
      BY <1>1
    <2>2. Len(<<>>) = 0
      BY EmptySeq
    <2> QED
      BY <2>1, <2>2
  <1> HIDE DEF n, trailing
  <1>3. k \in 1 .. (IF trailing THEN n - 1 ELSE n)
    BY <1>1, <1>2
  <1> QED
    BY <1>3 DEF Accepts, n, trailing

LEMMA RefusedLong ==
  ASSUME toks \in Seq(TokType), Len(Cuts) > MaxCmds - 1
  PROVE  ~ Accepts
  <1>1. Len(Cuts) \in Nat /\ MaxCmds \in Nat
    BY CutsAre, ArgcIs
  <1>2. ~ (Len(Cuts) <= MaxCmds - 1)
    BY <1>1
  <1> QED
    BY <1>2 DEF Accepts

LEMMA RefusedEmpty ==
  ASSUME toks \in Seq(TokType), Len(toks) = 0
  PROVE  ~ Accepts
  <1>1. Len(Cuts) \in Nat /\ \A k \in 1 .. Len(Cuts) : Cuts[k] \in 1 .. Len(toks)
    BY CutsAre
  <1>2. Len(Cuts) = 0
    <2> SUFFICES ASSUME Len(Cuts) # 0 PROVE FALSE
      OBVIOUS
    <2>1. 1 \in 1 .. Len(Cuts)
      BY <1>1
    <2>2. Cuts[1] \in 1 .. 0
      BY <1>1, <2>1
    <2> QED
      BY <2>2
  <1>3. 1 \in 1 .. Len(Cuts) + 1
    BY <1>2
  <1>4. Start(1) = 1 /\ Stop(1) = 0
    BY <1>2 DEF Start, Stop
  <1>5. Len(Pieces) = 1 /\ Pieces[1] \in Seq(TokType) /\ Len(Pieces[1]) = 0
    BY <1>2, <1>3, <1>4, PiecesAre
  <1>6. ArgWords(Pieces[1]) = {}
    BY <1>5, WordsAre
  <1>7. Cardinality(ArgWords(Pieces[1])) = 0
    BY <1>6, FS_EmptySet
  <1>8. ~ IsCommand(Pieces[1])
    BY <1>7 DEF IsCommand
  <1> QED
    BY <1>5, <1>8 DEF Accepts
-----------------------------------------------------------------------------
(* One token of a command.                                                 *)

\* The types of the tokens of a command.
LEMMA TypesAre ==
  TypeSetting \subseteq TokType /\ Redirection \subseteq TokType /\ {"AMP", "WORD"} \subseteq TokType
  <1>1. "HASH" \in TokType
    <2> DEFINE e == [type |-> "HASH", text |-> <<"#">>]
    <2>1. e \in Spelling
      BY Zenon DEF Spelling
    <2>2. e.type = "HASH"
      BY Zenon
    <2> HIDE DEF e
    <2> QED
      BY <2>1, <2>2, Zenon DEF TokType
  <1>2. "PLUS" \in TokType
    <2> DEFINE e == [type |-> "PLUS", text |-> <<"+">>]
    <2>1. e \in Spelling
      BY Zenon DEF Spelling
    <2>2. e.type = "PLUS"
      BY Zenon
    <2> HIDE DEF e
    <2> QED
      BY <2>1, <2>2, Zenon DEF TokType
  <1>3. "DPLUS" \in TokType
    <2> DEFINE e == [type |-> "DPLUS", text |-> <<"+", "+">>]
    <2>1. e \in Spelling
      BY Zenon DEF Spelling
    <2>2. e.type = "DPLUS"
      BY Zenon
    <2> HIDE DEF e
    <2> QED
      BY <2>1, <2>2, Zenon DEF TokType
  <1>4. "TPIPE" \in TokType
    <2> DEFINE e == [type |-> "TPIPE", text |-> <<"|", "|", "|">>]
    <2>1. e \in Spelling
      BY Zenon DEF Spelling
    <2>2. e.type = "TPIPE"
      BY Zenon
    <2> HIDE DEF e
    <2> QED
      BY <2>1, <2>2, Zenon DEF TokType
  <1>5. "AMP" \in TokType
    <2> DEFINE e == [type |-> "AMP", text |-> <<"&">>]
    <2>1. e \in Spelling
      BY Zenon DEF Spelling
    <2>2. e.type = "AMP"
      BY Zenon
    <2> HIDE DEF e
    <2> QED
      BY <2>1, <2>2, Zenon DEF TokType
  <1>6. "REDIR_IN" \in TokType
    <2> DEFINE e == [type |-> "REDIR_IN", text |-> <<"<">>]
    <2>1. e \in Spelling
      BY Zenon DEF Spelling
    <2>2. e.type = "REDIR_IN"
      BY Zenon
    <2> HIDE DEF e
    <2> QED
      BY <2>1, <2>2, Zenon DEF TokType
  <1>7. "REDIR_OUT" \in TokType
    <2> DEFINE e == [type |-> "REDIR_OUT", text |-> <<">">>]
    <2>1. e \in Spelling
      BY Zenon DEF Spelling
    <2>2. e.type = "REDIR_OUT"
      BY Zenon
    <2> HIDE DEF e
    <2> QED
      BY <2>1, <2>2, Zenon DEF TokType
  <1>8. "REDIR_APP" \in TokType
    <2> DEFINE e == [type |-> "REDIR_APP", text |-> <<">", ">">>]
    <2>1. e \in Spelling
      BY Zenon DEF Spelling
    <2>2. e.type = "REDIR_APP"
      BY Zenon
    <2> HIDE DEF e
    <2> QED
      BY <2>1, <2>2, Zenon DEF TokType
  <1>9. "WORD" \in TokType
    BY Zenon DEF TokType
  <1> QED
    BY <1>1, <1>2, <1>3, <1>4, <1>5, <1>6, <1>7, <1>8, <1>9 DEF TypeSetting, Redirection

LEMMA NothingRead ==
  Clean(<<>>) /\ Describes(NoCmd, <<>>) /\ NoCmd.bg = FALSE
  <1>1. Len(<<>>) = 0 /\ <<>> \in Seq(TokType) /\ ~ (\E j \in 1 .. 0 : TRUE)
    BY EmptySeq
  <1>2. Clean(<<>>) /\ ArgWords(<<>>) = {} /\ TypeTokens(<<>>) = {}
    BY <1>1 DEF Clean, ArgWords, TypeTokens
  <1>3. TypeOfCommand(<<>>) = "SIMPLE" /\ Cardinality(ArgWords(<<>>)) = 0
    BY <1>1, <1>2, TypeIs, FS_EmptySet
  <1> QED
    BY <1>2, <1>3 DEF Describes, NoCmd

LEMMA CommandFields ==
  ASSUME NEW c \in CommandType
  PROVE  /\ c.argc \in Nat /\ c.argc =< MaxArgc /\ c.type \in NodeType /\ c.bg \in BOOLEAN
         /\ [c EXCEPT !.argc = @ + 1].argc = c.argc + 1
         /\ [c EXCEPT !.argc = @ + 1].type = c.type /\ [c EXCEPT !.argc = @ + 1].bg = c.bg
         /\ \A t : /\ [c EXCEPT !.type = t].argc = c.argc /\ [c EXCEPT !.type = t].type = t
                   /\ [c EXCEPT !.type = t].bg = c.bg
         /\ [c EXCEPT !.type = "BG", !.bg = TRUE].argc = c.argc
         /\ [c EXCEPT !.type = "BG", !.bg = TRUE].type = "BG"
         /\ [c EXCEPT !.type = "BG", !.bg = TRUE].bg = TRUE
         /\ [c EXCEPT !.in = TRUE].argc = c.argc /\ [c EXCEPT !.in = TRUE].type = c.type
         /\ [c EXCEPT !.in = TRUE].bg = c.bg
         /\ [c EXCEPT !.out = TRUE].argc = c.argc /\ [c EXCEPT !.out = TRUE].type = c.type
         /\ [c EXCEPT !.out = TRUE].bg = c.bg
  <1>1. c \in [argc : 0 .. MaxArgc, type : NodeType, bg : BOOLEAN, in : BOOLEAN, out : BOOLEAN]
    BY DEF CommandType
  <1> QED
    BY <1>1, ArgcIs

\* A token of a piece keeps the piece the one it was.
LEMMA MoreExtends ==
  ASSUME NEW s \in Seq(TokType), NEW u \in Seq(TokType), Len(s) =< Len(u),
         \A j \in 1 .. Len(s) : u[j] = s[j]
  PROVE  Extends(u, s)
  BY DEF Extends

LEMMA WordRead ==
  ASSUME NEW s \in Seq(TokType), Clean(s), NEW c \in CommandType, Describes(c, s)
  PROVE  LET u == Append(s, "WORD")
         IN  /\ Clean(u) /\ Cardinality(ArgWords(u)) = c.argc + 1 /\ u \in Seq(TokType)
             /\ Describes([c EXCEPT !.argc = @ + 1], u)
  <1> DEFINE u == Append(s, "WORD")
  <1>1. "WORD" \in TokType /\ "WORD" \notin TypeSetting \union {"AMP"}
        /\ "WORD" \notin Redirection \union {"AMP"}
    BY TypesAre DEF TypeSetting, Redirection
  <1>2. /\ u \in Seq(TokType) /\ Len(s) \in Nat /\ Len(u) = Len(s) + 1 /\ Clean(u)
        /\ \A j \in 1 .. Len(s) : u[j] = s[j]
        /\ ArgWords(u) = ArgWords(s) \union {Len(s) + 1} /\ TypeTokens(u) = TypeTokens(s)
    BY <1>1, OneMore
  <1> HIDE DEF u
  <1>3. Len(s) + 1 \notin ArgWords(s) /\ IsFiniteSet(ArgWords(s))
    BY <1>2, WordsAre
  <1>4. Cardinality(ArgWords(u)) = Cardinality(ArgWords(s)) + 1
    BY <1>2, <1>3, FS_AddElement
  <1>5. Extends(u, s)
    BY <1>2, MoreExtends
  <1>6. \A w \in ArgWords(u) \ ArgWords(s) : w > Len(s)
    BY <1>2
  <1>7. TypeOfCommand(u) = TypeOfCommand(s)
    BY <1>2, <1>5, <1>6, TypeKept
  <1>8. /\ [c EXCEPT !.argc = @ + 1].argc = c.argc + 1
        /\ [c EXCEPT !.argc = @ + 1].type = c.type
    BY CommandFields
  <1> QED
    BY <1>2, <1>4, <1>7, <1>8 DEF Describes, u

LEMMA TypeRead ==
  ASSUME NEW s \in Seq(TokType), Clean(s), NEW c \in CommandType, Describes(c, s),
         NEW t \in TypeSetting
  PROVE  LET u == Append(s, t)
         IN  /\ Clean(u)
             /\ Describes([c EXCEPT !.type =
                  CASE t = "HASH"  -> "WORD_COUNT"
                    [] t = "PLUS"  -> "TXT_CAT"
                    [] t = "DPLUS" -> "TXT_APP"
                    [] t = "TPIPE" -> IF c.argc = 0 THEN "FIFO_R" ELSE "FIFO_W"], u)
  <1> DEFINE u == Append(s, t)
             y == CASE t = "HASH"  -> "WORD_COUNT"
                    [] t = "PLUS"  -> "TXT_CAT"
                    [] t = "DPLUS" -> "TXT_APP"
                    [] t = "TPIPE" -> IF c.argc = 0 THEN "FIFO_R" ELSE "FIFO_W"
  <1>1. t \in TokType /\ t # "WORD" /\ t # "AMP" /\ t \notin Redirection \union {"AMP"}
        /\ t \in TypeSetting \union {"AMP"}
    BY TypesAre DEF TypeSetting, Redirection
  <1>2. /\ u \in Seq(TokType) /\ Len(s) \in Nat /\ Len(u) = Len(s) + 1 /\ Clean(u)
        /\ u[Len(s) + 1] = t
        /\ ArgWords(u) = ArgWords(s) /\ TypeTokens(u) = TypeTokens(s) \union {Len(s) + 1}
    BY <1>1, OneMore
  <1> HIDE DEF u
  <1>3. TypeTokens(s) \subseteq 1 .. Len(s)
    BY TypeIs
  <1>4. Len(s) + 1 \in TypeTokens(u) /\ \A m \in TypeTokens(u) : m =< Len(s) + 1
    BY <1>2, <1>3
  <1>5. TypeOfCommand(u) = TypeAt(u, Len(s) + 1)
    BY <1>2, <1>4, TypeIs
  <1>6. c.argc = Cardinality(ArgWords(s)) /\ (c.argc = 0 <=> ArgWords(s) = {})
    BY WordsAre DEF Describes
  <1>7. (\E w \in ArgWords(u) : w < Len(s) + 1) <=> ArgWords(s) # {}
    <2>1. \A w \in ArgWords(s) : w < Len(s) + 1
      BY <1>2, WordsAre
    <2> QED
      BY <1>2, <2>1
  <1>8. TypeAt(u, Len(s) + 1) = y
    BY <1>1, <1>2, <1>6, <1>7 DEF TypeAt, TypeSetting
  <1> HIDE DEF y
  <1>9. [c EXCEPT !.type = y].argc = c.argc /\ [c EXCEPT !.type = y].type = y
    BY CommandFields
  <1>10. Describes([c EXCEPT !.type = y], u)
    BY <1>2, <1>5, <1>6, <1>8, <1>9 DEF Describes
  <1> QED
    BY <1>2, <1>10 DEF u, y

LEMMA FileRead ==
  ASSUME NEW s \in Seq(TokType), Clean(s), NEW c \in CommandType, Describes(c, s),
         NEW r \in Redirection, NEW d, d = [c EXCEPT !.in = TRUE] \/ d = [c EXCEPT !.out = TRUE]
  PROVE  LET u == Append(Append(s, r), "WORD") IN Clean(u) /\ Describes(d, u) /\ d.bg = c.bg
  <1> DEFINE u == Append(Append(s, r), "WORD")
  <1>1. r \in TokType
    BY TypesAre
  <1>2. /\ u \in Seq(TokType) /\ Len(u) = Len(s) + 2 /\ Clean(u)
        /\ \A j \in 1 .. Len(s) : u[j] = s[j]
        /\ ArgWords(u) = ArgWords(s) /\ TypeTokens(u) = TypeTokens(s)
    BY <1>1, FileMore
  <1> HIDE DEF u
  <1>3. Len(s) \in Nat
    BY LenProperties
  <1>4. Extends(u, s)
    <2>1. Len(s) =< Len(u)
      BY <1>2, <1>3
    <2> QED
      BY <1>2, <2>1, MoreExtends
  <1>5. TypeOfCommand(u) = TypeOfCommand(s)
    BY <1>2, <1>4, TypeKept
  <1>6. d.argc = c.argc /\ d.type = c.type /\ d.bg = c.bg
    <2>1. CASE d = [c EXCEPT !.in = TRUE]
      BY <2>1, CommandFields, Zenon
    <2>2. CASE d = [c EXCEPT !.out = TRUE]
      BY <2>2, CommandFields, Zenon
    <2> QED
      BY <2>1, <2>2
  <1>7. Describes(d, u)
    BY <1>2, <1>5, <1>6 DEF Describes
  <1> QED
    BY <1>2, <1>6, <1>7 DEF u

LEMMA AmpRead ==
  ASSUME NEW s \in Seq(TokType), Clean(s), NEW c \in CommandType, Describes(c, s), c.argc # 0
  PROVE  LET u == Append(s, "AMP")
         IN  ReadAs([c EXCEPT !.type = "BG", !.bg = TRUE], u) /\ Last(u) = "AMP"
  <1> DEFINE u == Append(s, "AMP")
             d == [c EXCEPT !.type = "BG", !.bg = TRUE]
  <1>1. "AMP" \in TokType /\ "AMP" \in TypeSetting \union {"AMP"} /\ "AMP" \notin Redirection
    BY TypesAre DEF TypeSetting, Redirection
  <1>2. /\ u \in Seq(TokType) /\ Len(s) \in Nat /\ Len(u) = Len(s) + 1 /\ u[Len(s) + 1] = "AMP"
        /\ Last(u) = "AMP" /\ \A j \in 1 .. Len(s) : u[j] = s[j]
        /\ ArgWords(u) = ArgWords(s) /\ TypeTokens(u) = TypeTokens(s) \union {Len(s) + 1}
    BY <1>1, OneMore
  <1> HIDE DEF u
  <1>3. /\ c.argc \in Nat /\ c.argc =< MaxArgc /\ d.argc = c.argc /\ d.type = "BG" /\ d.bg = TRUE
    BY CommandFields
  <1> HIDE DEF d
  <1>4. c.argc = Cardinality(ArgWords(u))
    BY <1>2 DEF Describes
  <1>5. Cardinality(ArgWords(u)) \in 1 .. MaxArgc
    BY <1>3, <1>4, ArgcIs
  <1>6. ASSUME NEW j \in 1 .. Len(u)
        PROVE  /\ u[j] \in Redirection => j < Len(u) /\ u[j + 1] = "WORD"
               /\ u[j] = "AMP" => j = Len(u)
    <2>1. CASE j = Len(s) + 1
      BY <1>1, <1>2, <2>1
    <2>2. CASE j # Len(s) + 1
      <3>1. j \in 1 .. Len(s) /\ u[j] = s[j]
        BY <1>2, <2>2
      <3>2. u[j] # "AMP" /\ (u[j] \in Redirection => j < Len(s) /\ s[j + 1] = "WORD")
        BY <3>1 DEF Clean
      <3>3. j < Len(s) => j + 1 \in 1 .. Len(s) /\ j < Len(u)
        BY <1>2, <3>1
      <3> QED
        BY <1>2, <3>2, <3>3
    <2> QED
      BY <2>1, <2>2
  <1>7. IsCommand(u)
    BY <1>5, <1>6 DEF IsCommand
  <1>8. TypeTokens(s) \subseteq 1 .. Len(s)
    BY TypeIs
  <1>9. Len(s) + 1 \in TypeTokens(u) /\ \A m \in TypeTokens(u) : m =< Len(s) + 1
    BY <1>2, <1>8
  <1>10. TypeOfCommand(u) = TypeAt(u, Len(s) + 1)
    BY <1>2, <1>9, TypeIs
  <1>11. TypeAt(u, Len(s) + 1) = "BG"
    BY <1>2 DEF TypeAt
  <1> QED
    BY <1>2, <1>3, <1>4, <1>7, <1>10, <1>11 DEF ReadAs, Describes, u, d

\* A command that ends without &.
LEMMA CommandRead ==
  ASSUME NEW s \in Seq(TokType), Clean(s), NEW c \in CommandType, Describes(c, s), c.argc # 0,
         c.bg = FALSE
  PROVE  ReadAs(c, s) /\ Len(s) >= 1
  <1>1. /\ Len(s) \in Nat /\ c.argc = Cardinality(ArgWords(s)) /\ ArgWords(s) # {}
        /\ ArgWords(s) \subseteq 1 .. Len(s) /\ c.argc \in Nat /\ c.argc =< MaxArgc
    BY WordsAre, CommandFields DEF Describes
  <1>2. Len(s) >= 1
    BY <1>1
  <1>3. Last(s) # "AMP"
    BY <1>1, <1>2 DEF Clean, Last
  <1>4. Cardinality(ArgWords(s)) \in 1 .. MaxArgc
    BY <1>1, ArgcIs
  <1>5. IsCommand(s)
    BY <1>4 DEF IsCommand, Clean
  <1> QED
    BY <1>2, <1>3, <1>5 DEF ReadAs

\* What cannot become a command any more, however its piece goes on.
LEMMA TooManyWords ==
  ASSUME NEW s \in Seq(TokType), NEW u, Extends(u, s), Cardinality(ArgWords(s)) > MaxArgc
  PROVE  ~ IsCommand(u)
  <1>1. u \in Seq(TokType)
    BY DEF Extends
  <1>2. /\ Cardinality(ArgWords(s)) =< Cardinality(ArgWords(u))
        /\ Cardinality(ArgWords(s)) \in Nat /\ Cardinality(ArgWords(u)) \in Nat
    BY <1>1, ExtendsWords, WordsAre
  <1>3. Cardinality(ArgWords(u)) \notin 1 .. MaxArgc
    BY <1>2, ArgcIs
  <1> QED
    BY <1>3 DEF IsCommand

LEMMA NoWords ==
  ASSUME NEW s, Cardinality(ArgWords(s)) = 0
  PROVE  ~ IsCommand(s)
  BY DEF IsCommand

LEMMA NoFile ==
  ASSUME NEW s \in Seq(TokType), NEW j \in 1 .. Len(s), s[j] \in Redirection,
         j = Len(s) \/ s[j + 1] # "WORD"
  PROVE  ~ IsCommand(s)
  <1>1. Len(s) \in Nat
    BY LenProperties
  <1> QED
    BY <1>1 DEF IsCommand

LEMMA AmpInside ==
  ASSUME NEW s \in Seq(TokType), NEW j \in 1 .. Len(s), s[j] = "AMP", j # Len(s)
  PROVE  ~ IsCommand(s)
  BY DEF IsCommand
-----------------------------------------------------------------------------
(* The parser's steps.                                                     *)

LEMMA SameToks ==
  ASSUME toks' = toks
  PROVE  Cuts' = Cuts /\ Pieces' = Pieces /\ (Accepts <=> Accepts')
  <1>1. Cuts' = Cuts
    BY DEF Cuts, Connectors
  <1>2. Pieces' = Pieces
    BY <1>1 DEF Pieces
  <1> QED
    BY <1>1, <1>2 DEF Accepts

LEMMA ParseTypes ==
  ASSUME LineType
  PROVE  /\ toks \in Seq(TokType) /\ pos \in Nat /\ pos >= 1 /\ cur \in CommandType
         /\ cmds \in Seq(CommandType) /\ ops \in Seq(OpType)
         /\ Len(toks) \in Nat /\ Len(cmds) \in Nat /\ Len(ops) \in Nat /\ Len(Cuts) \in Nat
         /\ Here \in Nat /\ Here >= 1 /\ Here = Len(ops) + 1
         /\ \A k \in 1 .. Len(toks) : toks[k] \in TokType
  <1>1. /\ toks \in Seq(TokType) /\ pos \in Nat \ {0} /\ cur \in CommandType
        /\ cmds \in Seq(CommandType) /\ ops \in Seq(OpType)
    BY DEF LineType
  <1>2. Len(toks) \in Nat /\ Len(cmds) \in Nat /\ Len(ops) \in Nat /\ Len(Cuts) \in Nat
    BY <1>1, LenProperties, CutsAre
  <1>3. \A k \in 1 .. Len(toks) : toks[k] \in TokType
    BY <1>1, ElementOfSeq
  <1> QED
    BY <1>1, <1>2, <1>3 DEF Here

\* Where the parser is within the piece it reads.
LEMMA HereIs ==
  ASSUME LineType, Earlier, pos \in Start(Here) .. Stop(Here) + 1
  PROVE  /\ Here \in 1 .. Len(Cuts) + 1
         /\ Start(Here) \in Nat /\ Start(Here) >= 1 /\ Stop(Here) \in Int /\ Stop(Here) =< Len(toks)
         /\ AtEnd => pos = Stop(Here) + 1 /\ Here = Len(Cuts) + 1
         /\ ~ AtEnd => pos \in 1 .. Len(toks) /\ toks[pos] \in TokType
         /\ ~ AtEnd /\ toks[pos] \in Connector =>
              pos = Stop(Here) + 1 /\ Here =< Len(Cuts) /\ Cuts[Here] = pos
         /\ ~ AtEnd /\ toks[pos] \notin Connector => pos =< Stop(Here)
  <1>1. /\ toks \in Seq(TokType) /\ pos \in Nat /\ pos >= 1 /\ Len(toks) \in Nat
        /\ Len(ops) \in Nat /\ Len(Cuts) \in Nat /\ Here \in Nat /\ Here >= 1
        /\ Here = Len(ops) + 1 /\ \A k \in 1 .. Len(toks) : toks[k] \in TokType
    BY ParseTypes
  <1>2. Here \in 1 .. Len(Cuts) + 1
    BY <1>1 DEF Earlier
  <1>3. /\ Start(Here) \in Nat /\ Start(Here) >= 1 /\ Stop(Here) \in Int /\ Stop(Here) =< Len(toks)
        /\ \A j \in Start(Here) .. Stop(Here) : toks[j] \notin Connector
        /\ Here =< Len(Cuts) => /\ Cuts[Here] = Stop(Here) + 1 /\ Stop(Here) + 1 \in 1 .. Len(toks)
                                /\ toks[Stop(Here) + 1] \in Connector
        /\ Here = Len(Cuts) + 1 => Stop(Here) = Len(toks)
    BY <1>1, <1>2, BoundsAre
  <1> HIDE DEF Here
  <1>4. pos =< Stop(Here) \/ pos = Stop(Here) + 1
    BY <1>1, <1>3
  <1>5. AtEnd <=> pos > Len(toks)
    BY DEF AtEnd
  <1>6. Here =< Len(Cuts) \/ Here = Len(Cuts) + 1
    BY <1>1, <1>2
  <1>7. AtEnd => pos = Stop(Here) + 1 /\ Here = Len(Cuts) + 1
    BY <1>1, <1>3, <1>4, <1>5, <1>6
  <1>8. ~ AtEnd => pos \in 1 .. Len(toks) /\ toks[pos] \in TokType
    BY <1>1, <1>5
  <1>9. pos =< Stop(Here) => toks[pos] \notin Connector
    BY <1>1, <1>3
  <1>10. ~ AtEnd /\ toks[pos] \in Connector =>
           pos = Stop(Here) + 1 /\ Here =< Len(Cuts) /\ Cuts[Here] = pos
    BY <1>1, <1>3, <1>4, <1>5, <1>6, <1>9
  <1>11. ~ AtEnd /\ toks[pos] \notin Connector => pos =< Stop(Here)
    BY <1>1, <1>3, <1>4, <1>5, <1>6
  <1> QED
    BY <1>2, <1>3, <1>7, <1>8, <1>10, <1>11

\* A command goes on.
LEMMA GoesOn ==
  ASSUME LineType, ParseInv, at = "cmd", InCommand(Here, pos', cur'),
         UNCHANGED <<toks, cmds, ops, at>>
  PROVE  ParseInv'
  <1>1. Cuts' = Cuts /\ Pieces' = Pieces
    BY SameToks
  <1>2. Earlier /\ Len(ops) < MaxCmds /\ Len(cmds) =< MaxCmds
    BY DEF ParseInv
  <1>3. Earlier'
    BY <1>1, <1>2 DEF Earlier
  <1>4. InCommand(Here, pos, cur)'
    BY <1>1 DEF InCommand, Here, Start, Stop, ReadTo
  <1>5. at' = "cmd" /\ at' \notin ParseError
    BY ErrorFacts
  <1> QED
    BY <1>2, <1>3, <1>4, <1>5 DEF ParseInv

\* A command ends.
LEMMA ComesToEnd ==
  ASSUME LineType, CountInv, ParseInv, at = "cmd", NEW c \in CommandType,
         AfterCommand(Here, pos', c), cmds' = Append(cmds, c), at' = "op", UNCHANGED <<toks, ops>>
  PROVE  ParseInv'
  <1>1. Cuts' = Cuts /\ Pieces' = Pieces
    BY SameToks
  <1>2. Earlier /\ Len(ops) < MaxCmds /\ Len(cmds) = Len(ops)
    BY DEF ParseInv, CountInv
  <1>3. /\ cmds \in Seq(CommandType) /\ Len(ops) \in Nat /\ MaxCmds \in Nat /\ Here = Len(ops) + 1
    BY ParseTypes, ArgcIs
  <1>4. /\ Len(cmds') = Len(ops) + 1 /\ cmds'[Here] = c
        /\ \A k \in 1 .. Len(ops) : cmds'[k] = cmds[k]
    BY <1>2, <1>3, AppendAt
  <1>5. Earlier'
    BY <1>1, <1>2, <1>4 DEF Earlier
  <1>6. AfterCommand(Here, pos, cmds[Here])'
    BY <1>1, <1>4 DEF AfterCommand, Here, Start, Stop, ReadTo
  <1>7. Len(ops') < MaxCmds /\ Len(cmds') =< MaxCmds
    BY <1>2, <1>3, <1>4
  <1>8. at' = "op" /\ at' \notin ParseError
    BY ErrorFacts
  <1> QED
    BY <1>5, <1>6, <1>7, <1>8 DEF ParseInv

\* An error.
LEMMA Refuses ==
  ASSUME ParseInv, Fails, ~ Accepts
  PROVE  ParseInv'
  <1>1. at' \in ParseError /\ UNCHANGED <<toks, cmds, ops>>
    BY DEF Fails, Fail
  <1>2. ~ Accepts'
    BY <1>1, SameToks
  <1>3. at' \notin {"lex", "line", "cmd", "op", "ok"}
    BY <1>1, ErrorFacts
  <1> QED
    BY <1>1, <1>2, <1>3 DEF ParseInv
LEMMA ArgWordReads ==
  ASSUME LineType, ParseInv, ArgWord
  PROVE  ParseInv'
  <1> DEFINE s == ReadTo(Here, pos)
             u == Append(s, "WORD")
  <1>1. at = "cmd" /\ ~ AtEnd /\ toks[pos] = "WORD"
    BY ArgWordIs DEF Sees
  <1>2. Earlier /\ InCommand(Here, pos, cur)
    BY <1>1 DEF ParseInv
  <1>3. /\ Start(Here) =< Len(toks) /\ pos \in Start(Here) .. Stop(Here) + 1
        /\ Clean(s) /\ Describes(cur, s) /\ cur.bg = FALSE
    BY <1>2 DEF InCommand
  <1>4. toks \in Seq(TokType) /\ cur \in CommandType /\ pos \in Nat /\ pos >= 1
    BY ParseTypes
  <1>5. /\ Here \in 1 .. Len(Cuts) + 1 /\ Start(Here) \in Nat /\ Stop(Here) \in Int
        /\ pos =< Stop(Here)
    BY <1>1, <1>2, <1>3, HereIs DEF Connector
  <1>6. /\ s \in Seq(TokType) /\ ReadTo(Here, pos + 1) = u /\ Extends(Pieces[Here], u)
    BY <1>1, <1>3, <1>4, <1>5, ReadIs
  <1>7. /\ Clean(u) /\ Cardinality(ArgWords(u)) = cur.argc + 1 /\ u \in Seq(TokType)
        /\ Describes([cur EXCEPT !.argc = @ + 1], u)
    BY <1>3, <1>4, <1>6, WordRead
  <1> HIDE DEF s, u
  <1>8. cur.argc \in Nat /\ cur.argc =< MaxArgc /\ [cur EXCEPT !.argc = @ + 1].bg = cur.bg
    BY <1>4, CommandFields
  <1>9. CASE cur.argc >= MaxArgc
    <2>1. Cardinality(ArgWords(u)) > MaxArgc
      BY <1>7, <1>8, <1>9, ArgcIs
    <2>2. ~ IsCommand(Pieces[Here])
      BY <1>6, <1>7, <2>1, TooManyWords
    <2>3. ~ Accepts
      BY <1>3, <1>4, <1>5, <2>2, RefusedPiece
    <2> QED
      BY <1>9, <2>3, ArgWordIs, Refuses
  <1>10. CASE ~ (cur.argc >= MaxArgc)
    <2>1. /\ cur' = [cur EXCEPT !.argc = @ + 1] /\ pos' = pos + 1
          /\ UNCHANGED <<toks, cmds, ops, at>>
      BY <1>10, ArgWordIs DEF TakeInto
    <2>2. pos + 1 \in Start(Here) .. Stop(Here) + 1
      BY <1>3, <1>4, <1>5
    <2>3. InCommand(Here, pos', cur')
      BY <1>3, <1>6, <1>7, <1>8, <2>1, <2>2 DEF InCommand
    <2> QED
      BY <1>1, <2>1, <2>3, GoesOn
  <1> QED
    BY <1>9, <1>10

LEMMA TypeTokenReads ==
  ASSUME LineType, ParseInv, TypeToken
  PROVE  ParseInv'
  <1> DEFINE s == ReadTo(Here, pos)
             u == Append(s, toks[pos])
             y == CASE toks[pos] = "HASH"  -> "WORD_COUNT"
                    [] toks[pos] = "PLUS"  -> "TXT_CAT"
                    [] toks[pos] = "DPLUS" -> "TXT_APP"
                    [] toks[pos] = "TPIPE" -> IF cur.argc = 0 THEN "FIFO_R" ELSE "FIFO_W"
  <1>1. /\ at = "cmd" /\ ~ AtEnd /\ toks[pos] \in TypeSetting /\ pos' = pos + 1
        /\ cur' = [cur EXCEPT !.type = y] /\ UNCHANGED <<toks, cmds, ops, at>>
    BY DEF TypeToken, Sees, TakeInto, TypeSetting
  <1>2. Earlier /\ InCommand(Here, pos, cur)
    BY <1>1 DEF ParseInv
  <1>3. /\ Start(Here) =< Len(toks) /\ pos \in Start(Here) .. Stop(Here) + 1
        /\ Clean(s) /\ Describes(cur, s) /\ cur.bg = FALSE
    BY <1>2 DEF InCommand
  <1>4. toks \in Seq(TokType) /\ cur \in CommandType /\ pos \in Nat /\ pos >= 1
    BY ParseTypes
  <1>5. /\ Here \in 1 .. Len(Cuts) + 1 /\ Start(Here) \in Nat /\ Stop(Here) \in Int
        /\ pos =< Stop(Here)
    BY <1>1, <1>2, <1>3, HereIs DEF Connector, TypeSetting
  <1>6. s \in Seq(TokType) /\ ReadTo(Here, pos + 1) = u
    BY <1>3, <1>4, <1>5, ReadIs
  <1>7. Clean(u) /\ Describes([cur EXCEPT !.type = y], u)
    BY <1>1, <1>3, <1>4, <1>6, TypeRead
  <1> HIDE DEF s, u, y
  <1>8. [cur EXCEPT !.type = y].bg = cur.bg
    BY <1>4, CommandFields
  <1>9. pos + 1 \in Start(Here) .. Stop(Here) + 1
    BY <1>3, <1>4, <1>5
  <1>10. InCommand(Here, pos', cur')
    BY <1>1, <1>3, <1>6, <1>7, <1>8, <1>9 DEF InCommand
  <1> QED
    BY <1>1, <1>10, GoesOn

LEMMA AmpReads ==
  ASSUME LineType, CountInv, ParseInv, Amp
  PROVE  ParseInv'
  <1> DEFINE s == ReadTo(Here, pos)
             u == Append(s, "AMP")
             d == [cur EXCEPT !.type = "BG", !.bg = TRUE]
             i == (pos - Start(Here)) + 1
  <1>1. at = "cmd" /\ ~ AtEnd /\ toks[pos] = "AMP"
    BY AmpIs DEF Sees
  <1>2. Earlier /\ InCommand(Here, pos, cur)
    BY <1>1 DEF ParseInv
  <1>3. /\ Start(Here) =< Len(toks) /\ pos \in Start(Here) .. Stop(Here) + 1
        /\ Clean(s) /\ Describes(cur, s) /\ cur.bg = FALSE
    BY <1>2 DEF InCommand
  <1>4. toks \in Seq(TokType) /\ cur \in CommandType /\ pos \in Nat /\ pos >= 1
    BY ParseTypes
  <1>5. /\ Here \in 1 .. Len(Cuts) + 1 /\ Start(Here) \in Nat /\ Stop(Here) \in Int
        /\ pos =< Stop(Here)
    BY <1>1, <1>2, <1>3, HereIs DEF Connector
  <1>6. /\ s \in Seq(TokType) /\ ReadTo(Here, pos + 1) = u /\ Extends(Pieces[Here], u)
        /\ i \in 1 .. Len(Pieces[Here]) /\ Pieces[Here][i] = "AMP" /\ Len(s) = pos - Start(Here)
    BY <1>1, <1>3, <1>4, <1>5, ReadIs
  <1>7. Pieces[Here] \in Seq(TokType) /\ Len(Pieces[Here]) \in Nat
    BY <1>4, <1>5, PiecesAre
  <1> HIDE DEF s
  <1>8. CASE cur.argc = 0
    <2>1. ~ IsCommand(Pieces[Here])
      <3>1. CASE i # Len(Pieces[Here])
        BY <1>6, <1>7, <3>1, AmpInside
      <3>2. CASE i = Len(Pieces[Here])
        <4>1. "AMP" \in TokType /\ "AMP" # "WORD"
          BY TypesAre
        <4>2. /\ u \in Seq(TokType) /\ Len(u) = Len(s) + 1 /\ ArgWords(u) = ArgWords(s)
          BY <1>3, <1>6, <4>1, OneMore
        <4>3. Len(u) = Len(Pieces[Here]) /\ \A j \in 1 .. Len(u) : Pieces[Here][j] = u[j]
          BY <1>6, <3>2, <4>2 DEF Extends
        <4>4. Pieces[Here] = u
          BY <1>7, <4>2, <4>3, SeqEqual
        <4>5. Cardinality(ArgWords(u)) = 0
          BY <1>3, <1>8, <4>2 DEF Describes
        <4> QED
          BY <4>4, <4>5, NoWords
      <3> QED
        BY <3>1, <3>2
    <2>2. ~ Accepts
      BY <1>3, <1>4, <1>5, <2>1, RefusedPiece
    <2> QED
      BY <1>8, <2>2, AmpIs, Refuses
  <1>9. CASE cur.argc # 0
    <2>1. /\ cmds' = Append(cmds, d) /\ pos' = pos + 1 /\ at' = "op" /\ UNCHANGED <<toks, cur, ops>>
      BY <1>9, AmpIs
    <2>2. d \in CommandType
      BY <1>4, CommandMore
    <2>3. ReadAs(d, u) /\ Last(u) = "AMP"
      BY <1>3, <1>4, <1>6, <1>9, AmpRead
    <2> HIDE DEF d, u
    <2>4. pos + 1 \in Start(Here) + 1 .. Stop(Here) + 1
      BY <1>3, <1>4, <1>5
    <2>5. AfterCommand(Here, pos', d)
      BY <1>6, <2>1, <2>3, <2>4 DEF AfterCommand
    <2> QED
      BY <1>1, <2>1, <2>2, <2>5, ComesToEnd
  <1> QED
    BY <1>8, <1>9

LEMMA RedirectReads ==
  ASSUME LineType, ParseInv, Redirect
  PROVE  ParseInv'
  <1> DEFINE s == ReadTo(Here, pos)
             v == Append(s, toks[pos])
             i == (pos - Start(Here)) + 1
  <1>1. at = "cmd" /\ ~ AtEnd /\ toks[pos] \in Redirection
    BY RedirectIs DEF Sees
  <1>2. Earlier /\ InCommand(Here, pos, cur)
    BY <1>1 DEF ParseInv
  <1>3. /\ Start(Here) =< Len(toks) /\ pos \in Start(Here) .. Stop(Here) + 1
        /\ Clean(s) /\ Describes(cur, s) /\ cur.bg = FALSE
    BY <1>2 DEF InCommand
  <1>4. /\ toks \in Seq(TokType) /\ cur \in CommandType /\ pos \in Nat /\ pos >= 1
        /\ Len(toks) \in Nat
    BY ParseTypes
  <1>5. /\ Here \in 1 .. Len(Cuts) + 1 /\ Start(Here) \in Nat /\ Stop(Here) \in Int
        /\ pos =< Stop(Here) /\ pos \in 1 .. Len(toks) /\ Stop(Here) =< Len(toks)
    BY <1>1, <1>2, <1>3, HereIs DEF Connector, Redirection
  <1>6. /\ s \in Seq(TokType) /\ ReadTo(Here, pos + 1) = v
        /\ i \in 1 .. Len(Pieces[Here]) /\ Pieces[Here][i] = toks[pos]
    BY <1>1, <1>3, <1>4, <1>5, ReadIs
  <1>7. /\ Pieces[Here] \in Seq(TokType) /\ Len(Pieces[Here]) \in Nat
        /\ Len(Pieces[Here]) = (Stop(Here) + 1) - Start(Here)
        /\ \A j \in 1 .. Len(Pieces[Here]) : Pieces[Here][j] = toks[(Start(Here) + j) - 1]
    BY <1>4, <1>5, PiecesAre
  <1>8. CASE pos = Len(toks) \/ toks[pos + 1] # "WORD"
    <2>1. i = Len(Pieces[Here]) \/ Pieces[Here][i + 1] # "WORD"
      <3>1. pos = Len(toks) => i = Len(Pieces[Here])
        BY <1>4, <1>5, <1>7
      <3>2. ASSUME i # Len(Pieces[Here]) PROVE Pieces[Here][i + 1] = toks[pos + 1]
        <4>1. i + 1 \in 1 .. Len(Pieces[Here]) /\ (Start(Here) + (i + 1)) - 1 = pos + 1
          <5>1. i \in Nat /\ i < Len(Pieces[Here])
            BY <1>6, <1>7, <3>2
          <5>2. (Start(Here) + (i + 1)) - 1 = pos + 1
            BY <1>4, <1>5
          <5> QED
            BY <1>7, <5>1, <5>2
        <4> QED
          BY <1>7, <4>1
      <3> QED
        BY <1>8, <3>1, <3>2
    <2>2. ~ IsCommand(Pieces[Here])
      BY <1>1, <1>6, <1>7, <2>1, NoFile
    <2>3. ~ Accepts
      BY <1>3, <1>4, <1>5, <2>2, RefusedPiece
    <2> QED
      BY <1>8, <2>3, RedirectIs, Refuses
  <1>9. CASE ~ (pos = Len(toks) \/ toks[pos + 1] # "WORD")
    <2>1. /\ cur' \in {[cur EXCEPT !.in = TRUE], [cur EXCEPT !.out = TRUE]}
          /\ pos' = pos + 2 /\ UNCHANGED <<toks, cmds, ops, at>>
      BY <1>9, RedirectIs
    <2>2. pos + 1 \in 1 .. Len(toks) /\ toks[pos + 1] = "WORD" /\ toks[pos + 1] \notin Connector
      BY <1>4, <1>5, <1>9 DEF Connector
    <2>3. pos + 1 =< Stop(Here)
      <3>1. CASE Here = Len(Cuts) + 1
        <4>1. Stop(Here) = Len(toks)
          BY <1>4, <1>5, <3>1, BoundsAre
        <4> QED
          BY <2>2, <4>1
      <3>2. CASE Here # Len(Cuts) + 1
        <4>1. Here =< Len(Cuts) /\ Len(Cuts) \in Nat
          BY <1>4, <1>5, <3>2, CutsAre
        <4>2. toks[Stop(Here) + 1] \in Connector
          BY <1>4, <1>5, <4>1, BoundsAre
        <4>3. pos # Stop(Here)
          BY <2>2, <4>2
        <4> QED
          BY <1>4, <1>5, <4>3
      <3> QED
        BY <3>1, <3>2
    <2>4. pos + 1 \in Start(Here) .. Stop(Here) + 1 /\ (pos + 1) + 1 = pos + 2
          /\ pos + 2 \in Start(Here) .. Stop(Here) + 1
      BY <1>3, <1>4, <1>5, <2>3
    <2>5. ReadTo(Here, pos + 2) = Append(v, "WORD")
      <3>1. ReadTo(Here, (pos + 1) + 1) = Append(ReadTo(Here, pos + 1), toks[pos + 1])
        BY <1>4, <1>5, <2>3, <2>4, ReadIs
      <3> HIDE DEF v
      <3> QED
        BY <1>6, <2>2, <2>4, <3>1
    <2>6. Clean(Append(v, "WORD")) /\ Describes(cur', Append(v, "WORD")) /\ cur'.bg = cur.bg
      <3> HIDE DEF s
      <3>1. cur' = [cur EXCEPT !.in = TRUE] \/ cur' = [cur EXCEPT !.out = TRUE]
        BY <2>1
      <3> QED
        BY <1>1, <1>3, <1>4, <1>6, <3>1, FileRead, Zenon
    <2> HIDE DEF v, s
    <2>7. InCommand(Here, pos', cur')
      BY <1>3, <2>1, <2>4, <2>5, <2>6 DEF InCommand
    <2> QED
      BY <1>1, <2>1, <2>7, GoesOn
  <1> QED
    BY <1>8, <1>9

LEMMA EndCommandReads ==
  ASSUME LineType, CountInv, ParseInv, EndCommand
  PROVE  ParseInv'
  <1> DEFINE s == ReadTo(Here, pos)
  <1>1. at = "cmd" /\ (~ AtEnd => toks[pos] \in Connector)
    BY EndCommandIs
  <1>2. Earlier /\ InCommand(Here, pos, cur)
    BY <1>1 DEF ParseInv
  <1>3. /\ Start(Here) =< Len(toks) /\ pos \in Start(Here) .. Stop(Here) + 1
        /\ Clean(s) /\ Describes(cur, s) /\ cur.bg = FALSE
    BY <1>2 DEF InCommand
  <1>4. toks \in Seq(TokType) /\ cur \in CommandType /\ pos \in Nat /\ pos >= 1
    BY ParseTypes
  <1>5. /\ Here \in 1 .. Len(Cuts) + 1 /\ Start(Here) \in Nat /\ Stop(Here) \in Int
        /\ pos = Stop(Here) + 1
    BY <1>1, <1>2, <1>3, HereIs
  <1>6. s \in Seq(TokType) /\ s = Pieces[Here] /\ Len(s) = pos - Start(Here)
    BY <1>3, <1>4, <1>5, ReadIs
  <1>7. CASE cur.argc = 0
    <2>1. Cardinality(ArgWords(Pieces[Here])) = 0
      BY <1>3, <1>6, <1>7 DEF Describes
    <2>2. ~ Accepts
      BY <1>3, <1>4, <1>5, <2>1, NoWords, RefusedPiece
    <2> QED
      BY <1>7, <2>2, EndCommandIs, Refuses
  <1>8. CASE cur.argc # 0
    <2>1. cmds' = Append(cmds, cur) /\ at' = "op" /\ UNCHANGED <<toks, pos, cur, ops>>
      BY <1>8, EndCommandIs
    <2>2. ReadAs(cur, s) /\ Len(s) >= 1
      BY <1>3, <1>4, <1>6, <1>8, CommandRead
    <2>3. pos \in Start(Here) + 1 .. Stop(Here) + 1
      BY <1>4, <1>5, <1>6, <2>2
    <2>4. AfterCommand(Here, pos', cur)
      BY <1>5, <2>1, <2>2, <2>3 DEF AfterCommand
    <2> QED
      BY <1>1, <1>4, <2>1, <2>4, ComesToEnd
  <1> QED
    BY <1>7, <1>8

LEMMA BeginCommandReads ==
  ASSUME LineType, CountInv, ParseInv, BeginCommand
  PROVE  ParseInv'
  <1>1. at = "line" /\ ~ AtEnd /\ Earlier /\ pos = Start(Here) /\ Len(ops) = Len(cmds)
        /\ Len(ops) < MaxCmds
    BY BeginCommandIs DEF ParseInv, CountInv
  <1>2. /\ toks \in Seq(TokType) /\ pos \in Nat /\ pos >= 1 /\ Len(toks) \in Nat
        /\ Len(ops) \in Nat /\ Len(Cuts) \in Nat /\ Here = Len(ops) + 1
    BY ParseTypes
  <1>3. cur' = NoCmd /\ at' = "cmd" /\ UNCHANGED <<toks, pos, cmds, ops>>
    BY <1>1, <1>2, BeginCommandIs, ArgcIs
  <1>4. Here \in 1 .. Len(Cuts) + 1
    BY <1>1, <1>2 DEF Earlier
  <1>5. Start(Here) \in Nat /\ Stop(Here) \in Int /\ Start(Here) =< Stop(Here) + 1
    BY <1>2, <1>4, BoundsAre
  <1>6. pos \in Start(Here) .. Stop(Here) + 1 /\ Start(Here) =< Len(toks)
    BY <1>1, <1>2, <1>5 DEF AtEnd
  <1>7. ReadTo(Here, pos) = <<>>
    BY <1>1, <1>2, <1>4, <1>6, ReadIs
  <1>8. InCommand(Here, pos, NoCmd)
    BY <1>6, <1>7, NothingRead DEF InCommand
  <1>9. Cuts' = Cuts /\ Pieces' = Pieces
    BY <1>3, SameToks
  <1>10. InCommand(Here, pos, cur)'
    BY <1>3, <1>8, <1>9 DEF InCommand, Here, Start, Stop, ReadTo
  <1>11. Earlier'
    BY <1>1, <1>3, <1>9 DEF Earlier
  <1>12. Len(cmds') =< MaxCmds /\ Len(ops') < MaxCmds /\ at' \notin ParseError
    BY <1>1, <1>2, <1>3, ArgcIs, ErrorFacts
  <1> QED
    BY <1>3, <1>10, <1>11, <1>12 DEF ParseInv

LEMMA ParseOperatorReads ==
  ASSUME LineType, CountInv, ParseInv, ParseOperator
  PROVE  ParseInv'
  <1> DEFINE s == ReadTo(Here, pos)
  <1>1. /\ at = "op" /\ ~ AtEnd /\ Earlier /\ AfterCommand(Here, pos, cmds[Here])
        /\ Len(ops) < MaxCmds /\ Len(cmds) =< MaxCmds
    BY ParseOperatorIs DEF ParseInv
  <1>2. /\ pos \in Start(Here) + 1 .. Stop(Here) + 1 /\ ReadAs(cmds[Here], s)
        /\ pos = Stop(Here) + 1 \/ Last(s) = "AMP"
    BY <1>1 DEF AfterCommand
  <1>3. /\ toks \in Seq(TokType) /\ pos \in Nat /\ pos >= 1 /\ Len(toks) \in Nat
        /\ Len(ops) \in Nat /\ Len(Cuts) \in Nat /\ Here = Len(ops) + 1 /\ ops \in Seq(OpType)
    BY ParseTypes
  <1>4. Here \in 1 .. Len(Cuts) + 1
    BY <1>1, <1>3 DEF Earlier
  <1>5. /\ Start(Here) \in Nat /\ Start(Here) >= 1 /\ Stop(Here) \in Int /\ Stop(Here) =< Len(toks)
        /\ Here =< Len(Cuts) => Start(Here + 1) = (Stop(Here) + 1) + 1
    BY <1>3, <1>4, BoundsAre
  <1>6. pos \in Start(Here) .. Stop(Here) + 1 /\ Start(Here) =< Len(toks)
        /\ pos >= Start(Here) + 1
    BY <1>2, <1>3, <1>5
  <1>7. /\ s \in Seq(TokType) /\ Len(s) = pos - Start(Here) /\ (pos = Stop(Here) + 1 => s = Pieces[Here])
        /\ Extends(Pieces[Here], s)
    BY <1>3, <1>4, <1>6, ReadIs
  <1>8. Pieces[Here] \in Seq(TokType) /\ Len(Pieces[Here]) = (Stop(Here) + 1) - Start(Here)
    BY <1>3, <1>4, PiecesAre
  <1>9. ASSUME pos =< Stop(Here) PROVE ~ Accepts
    <2>1. Last(s) = "AMP"
      BY <1>2, <1>3, <1>5, <1>9
    <2> HIDE DEF s
    <2>2. Len(s) \in 1 .. Len(s) /\ Len(s) \in 1 .. Len(Pieces[Here]) /\ Len(s) # Len(Pieces[Here])
      BY <1>3, <1>5, <1>6, <1>7, <1>8, <1>9
    <2>3. Pieces[Here][Len(s)] = "AMP"
      BY <1>7, <2>1, <2>2 DEF Extends, Last
    <2>4. ~ IsCommand(Pieces[Here])
      BY <1>8, <2>2, <2>3, AmpInside
    <2> QED
      BY <1>3, <1>4, <1>6, <2>4, RefusedPiece
  <1>10. CASE Len(ops) >= MaxCmds - 1 \/ toks[pos] \notin Connector
    <2>1. ~ Accepts
      <3>1. CASE toks[pos] \notin Connector
        BY <1>1, <1>6, <1>9, <3>1, HereIs
      <3>2. CASE toks[pos] \in Connector
        <4>1. Here =< Len(Cuts) /\ Len(ops) >= MaxCmds - 1
          BY <1>1, <1>6, <1>10, <3>2, HereIs
        <4>2. Len(Cuts) > MaxCmds - 1
          BY <1>3, <4>1, ArgcIs
        <4> QED
          BY <1>3, <4>2, RefusedLong
      <3> QED
        BY <3>1, <3>2
    <2> QED
      BY <1>10, <2>1, ParseOperatorIs, Refuses
  <1>11. CASE ~ (Len(ops) >= MaxCmds - 1 \/ toks[pos] \notin Connector)
    <2> DEFINE o == OpOf[toks[pos]]
    <2>1. /\ ops' = Append(ops, o) /\ pos' = pos + 1 /\ at' = "line" /\ UNCHANGED <<toks, cur, cmds>>
          /\ toks[pos] \in Connector
      BY <1>11, ParseOperatorIs
    <2>2. pos = Stop(Here) + 1 /\ Here =< Len(Cuts) /\ Cuts[Here] = pos
      BY <1>1, <1>6, <2>1, HereIs
    <2>3. o \in OpType
      BY <2>1 DEF Connector, OpOf, OpType
    <2>4. o = OpOf[toks[Cuts[Here]]]
      BY <2>2
    <2> HIDE DEF o, s
    <2>5. /\ Len(ops') = Len(ops) + 1 /\ ops'[Here] = o
          /\ \A k \in 1 .. Len(ops) : ops'[k] = ops[k]
      BY <1>3, <2>1, <2>3, AppendAt
    <2>6. Cuts' = Cuts /\ Pieces' = Pieces
      BY <2>1, SameToks
    <2>7. ReadAs(cmds[Here], Pieces[Here])
      BY <1>2, <1>7, <2>2
    <2>8. \A k \in 1 .. Len(ops') : ReadAs(cmds[k], Pieces[k]) /\ ops'[k] = OpOf[toks[Cuts[k]]]
      <3> SUFFICES ASSUME NEW k \in 1 .. Len(ops')
                   PROVE  ReadAs(cmds[k], Pieces[k]) /\ ops'[k] = OpOf[toks[Cuts[k]]]
        OBVIOUS
      <3>1. CASE k = Here
        BY <2>4, <2>5, <2>7, <3>1
      <3>2. CASE k # Here
        <4>1. k \in 1 .. Len(ops)
          BY <1>3, <2>5, <3>2
        <4> QED
          BY <1>1, <2>5, <4>1 DEF Earlier
      <3> QED
        BY <3>1, <3>2
    <2>9. Len(ops') =< Len(Cuts)
      BY <1>3, <2>2, <2>5
    <2>10. Earlier'
      BY <2>1, <2>6, <2>8, <2>9 DEF Earlier
    <2>11. pos' = Start(Here + 1)
      BY <1>5, <2>1, <2>2
    <2>12. Here' = Here + 1
      BY <1>3, <2>5 DEF Here
    <2>13. pos' = Start(Here)'
      BY <2>6, <2>11, <2>12 DEF Start
    <2>14. Len(ops') < MaxCmds /\ at' \notin ParseError
      BY <1>3, <1>11, <2>1, <2>5, ArgcIs, ErrorFacts
    <2> QED
      BY <1>1, <2>1, <2>10, <2>13, <2>14 DEF ParseInv
  <1> QED
    BY <1>10, <1>11
LEMMA LineAccepted ==
  ASSUME LineType, Earlier, Len(ops) = Len(Cuts), Len(ops) < MaxCmds, Len(cmds) =< MaxCmds,
         \A k \in 1 .. Len(cmds) : ReadAs(cmds[k], Pieces[k]), Len(cmds) >= 1,
         \/ Len(cmds) = Len(Cuts) + 1 /\ Pieces[Len(Cuts) + 1] # <<>>
         \/ Len(cmds) = Len(Cuts) /\ Pieces[Len(Cuts) + 1] = <<>>,
         at' = "ok", UNCHANGED <<toks, cmds, ops>>
  PROVE  ParseInv'
  <1> DEFINE n == Len(Pieces)
             trailing == n > 1 /\ Pieces[n] = <<>>
             written == [k \in 1 .. Len(Cuts) |-> OpOf[toks[Cuts[k]]]]
  <1>1. /\ toks \in Seq(TokType) /\ ops \in Seq(OpType) /\ Len(cmds) \in Nat /\ Len(ops) \in Nat
        /\ Len(Cuts) \in Nat
    BY ParseTypes
  <1>2. n = Len(Cuts) + 1
    <2>1. 1 \in 1 .. Len(Cuts) + 1
      BY <1>1
    <2> QED
      BY <1>1, <2>1, PiecesAre
  <1>3. (IF trailing THEN n - 1 ELSE n) = Len(cmds)
    BY <1>1, <1>2
  <1> HIDE DEF n, trailing
  <1>4. \A k \in 1 .. Len(cmds) : IsCommand(Pieces[k])
    BY DEF ReadAs
  <1>5. Len(Cuts) <= MaxCmds - 1 /\ Len(cmds) <= MaxCmds
    BY <1>1, ArgcIs
  <1>6. Accepts
    BY <1>3, <1>4, <1>5 DEF Accepts, n, trailing
  <1>7. ops = written
    <2>1. ASSUME NEW k \in 1 .. Len(Cuts) PROVE OpOf[toks[Cuts[k]]] \in OpType
      <3>1. toks[Cuts[k]] \in Connector
        BY <1>1, CutsAre
      <3> QED
        BY <3>1 DEF Connector, OpOf, OpType
    <2>2. written \in Seq(OpType) /\ Len(written) = Len(Cuts)
      BY <1>1, <2>1, IsASeq
    <2>3. \A k \in 1 .. Len(ops) : ops[k] = written[k]
      BY DEF Earlier
    <2> HIDE DEF written
    <2> QED
      BY <1>1, <2>2, <2>3, SeqEqual
  <1>8. AllRead
    BY <1>1, <1>6, <1>7 DEF AllRead
  <1>9. Cuts' = Cuts /\ Pieces' = Pieces /\ Accepts'
    BY <1>6, SameToks
  <1>10. AllRead'
    BY <1>8, <1>9 DEF AllRead
  <1>11. at' = "ok" /\ at' \notin ParseError
    BY ErrorFacts
  <1> QED
    BY <1>10, <1>11 DEF ParseInv

LEMMA EndLineReads ==
  ASSUME LineType, CountInv, ParseInv, EndLine
  PROVE  ParseInv'
  <1>1. at \in {"line", "op"} /\ AtEnd /\ Earlier /\ Len(ops) < MaxCmds /\ Len(cmds) =< MaxCmds
    BY EndLineIs DEF ParseInv
  <1>2. /\ toks \in Seq(TokType) /\ cmds \in Seq(CommandType) /\ pos \in Nat /\ pos > Len(toks)
        /\ Len(toks) \in Nat /\ Len(cmds) \in Nat
        /\ Len(ops) \in Nat /\ Len(Cuts) \in Nat /\ Here = Len(ops) + 1
    BY <1>1, ParseTypes DEF AtEnd
  <1>3. Here \in 1 .. Len(Cuts) + 1
    BY <1>1, <1>2 DEF Earlier
  <1>4. /\ Start(Here) \in Nat /\ Stop(Here) \in Int /\ Start(Here) =< Stop(Here) + 1
        /\ Here =< Len(Cuts) => Stop(Here) + 1 \in 1 .. Len(toks)
        /\ Here = Len(Cuts) + 1 => Stop(Here) = Len(toks)
        /\ Here = 1 => Start(Here) = 1
    BY <1>2, <1>3, BoundsAre
  <1>5. /\ Pieces[Here] \in Seq(TokType) /\ Len(Pieces[Here]) = (Stop(Here) + 1) - Start(Here)
        /\ Len(Pieces[Here]) \in Nat
    BY <1>2, <1>3, PiecesAre
  <1>6. cmds = <<>> <=> Len(cmds) = 0
    BY <1>2, EmptySeq
  <1>7. Here =< Len(Cuts) \/ Here = Len(Cuts) + 1
    BY <1>2, <1>3
  <1>a. CASE at = "line"
    <2>1. pos = Start(Here) /\ Len(ops) = Len(cmds)
      BY <1>a DEF ParseInv, CountInv
    <2>2. Here = Len(Cuts) + 1
      BY <1>2, <1>4, <1>7, <2>1
    <2>3. CASE cmds = <<>>
      <3>1. Len(toks) = 0
        BY <1>2, <1>4, <1>6, <2>1, <2>3
      <3>2. ~ Accepts
        BY <1>2, <3>1, RefusedEmpty
      <3> QED
        BY <2>3, <3>2, EndLineIs, Refuses
    <2>4. CASE cmds # <<>>
      <3>1. Len(Pieces[Here]) = 0
        BY <1>2, <1>4, <1>5, <2>1, <2>2
      <3>2. Pieces[Here] = <<>>
        BY <1>5, <3>1, EmptySeq
      <3>3. Len(cmds) = Len(Cuts) /\ Len(cmds) >= 1 /\ Len(ops) = Len(Cuts)
            /\ Pieces[Len(Cuts) + 1] = <<>>
        BY <1>2, <1>6, <2>1, <2>2, <2>4, <3>2
      <3>4. \A k \in 1 .. Len(cmds) : ReadAs(cmds[k], Pieces[k])
        BY <1>1, <2>1 DEF Earlier
      <3>5. at' = "ok" /\ UNCHANGED <<toks, cmds, ops>>
        BY <2>4, EndLineIs
      <3> QED
        BY <1>1, <3>3, <3>4, <3>5, LineAccepted
    <2> QED
      BY <2>3, <2>4
  <1>b. CASE at = "op"
    <2>1. Len(cmds) = Len(ops) + 1 /\ AfterCommand(Here, pos, cmds[Here])
      BY <1>b DEF ParseInv, CountInv
    <2>2. pos \in Start(Here) + 1 .. Stop(Here) + 1 /\ ReadAs(cmds[Here], ReadTo(Here, pos))
      BY <2>1 DEF AfterCommand
    <2>3. pos \in Start(Here) .. Stop(Here) + 1 /\ pos >= Start(Here) + 1
      BY <1>2, <1>4, <2>2
    <2>4. pos = Stop(Here) + 1 /\ Here = Len(Cuts) + 1
      BY <1>1, <2>3, HereIs
    <2>5. ReadTo(Here, pos) = Pieces[Here]
      BY <1>2, <1>3, <2>3, <2>4, ReadIs
    <2>6. Len(Pieces[Here]) # 0
      BY <1>2, <1>4, <1>5, <2>3, <2>4
    <2>7. Pieces[Here] # <<>>
      BY <1>5, <2>6, EmptySeq
    <2>8. Len(cmds) = Len(Cuts) + 1 /\ Len(cmds) >= 1 /\ Len(ops) = Len(Cuts)
          /\ Pieces[Len(Cuts) + 1] # <<>>
      BY <1>2, <2>1, <2>4, <2>7
    <2>9. ASSUME NEW k \in 1 .. Len(cmds) PROVE ReadAs(cmds[k], Pieces[k])
      <3>1. CASE k = Here
        BY <2>2, <2>5, <3>1
      <3>2. CASE k # Here
        <4>1. k \in 1 .. Len(ops)
          BY <1>2, <2>1, <3>2
        <4> QED
          BY <1>1, <4>1 DEF Earlier
      <3> QED
        BY <3>1, <3>2
    <2>10. at' = "ok" /\ UNCHANGED <<toks, cmds, ops>>
      BY <1>2, <1>6, <2>8, EndLineIs
    <2> QED
      BY <1>1, <2>8, <2>9, <2>10, LineAccepted
  <1> QED
    BY <1>1, <1>a, <1>b

LEMMA CutsCounted == toks \in Seq(TokType) => Len(Cuts) \in Nat
  BY CutsAre

LEMMA ParseBeginsReads ==
  ASSUME LineType', ParseInv, ParseBegins
  PROVE  ParseInv'
  <1>1. /\ at = "lex" /\ pos = 1 /\ cmds = <<>> /\ ops = <<>> /\ Len(ops) < MaxCmds
        /\ Len(cmds) =< MaxCmds
    BY DEF ParseInv, ParseBegins
  <1>2. at' = "line" /\ UNCHANGED <<pos, cur, cmds, ops>>
    BY DEF ParseBegins
  <1>3. (toks \in Seq(TokType) => Len(Cuts) \in Nat)'
    BY CutsCounted, PTL
  <1>4. Len(Cuts') \in Nat
    BY <1>3 DEF LineType
  <1>5. Len(ops') = 0 /\ Here' = 1
    BY <1>1, <1>2 DEF Here
  <1>6. Earlier'
    BY <1>4, <1>5 DEF Earlier
  <1>7. pos' = Start(Here)'
    BY <1>1, <1>2, <1>5 DEF Start
  <1>8. at' \notin ParseError
    BY <1>2, ErrorFacts
  <1> QED
    BY <1>1, <1>2, <1>6, <1>7, <1>8 DEF ParseInv

LEMMA ParseReads ==
  ASSUME LineType, LineType', CountInv, ParseInv, Parse
  PROVE  ParseInv'
  <1>1. ParseStep
    BY DEF Parse
  <1>2. ParseBegins => ParseInv'
    BY ParseBeginsReads
  <1>3. ArgWord => ParseInv'
    BY ArgWordReads
  <1>4. TypeToken => ParseInv'
    BY TypeTokenReads
  <1>5. Amp => ParseInv'
    BY AmpReads
  <1>6. Redirect => ParseInv'
    BY RedirectReads
  <1>7. EndCommand => ParseInv'
    BY EndCommandReads
  <1>8. BeginCommand => ParseInv'
    BY BeginCommandReads
  <1>9. ParseOperator => ParseInv'
    BY ParseOperatorReads
  <1>10. EndLine => ParseInv'
    BY EndLineReads
  <1> QED
    BY <1>1, <1>2, <1>3, <1>4, <1>5, <1>6, <1>7, <1>8, <1>9, <1>10, Zenon DEF ParseStep

\* The lexer and the executors leave alone what the parser has made.
LEMMA ParseSame ==
  ASSUME ParseInv, UNCHANGED <<toks, pos, cur, cmds, ops, at>>
  PROVE  ParseInv'
  <1>1. Cuts' = Cuts /\ Pieces' = Pieces /\ (Accepts <=> Accepts')
    BY SameToks
  <1>2. Earlier <=> Earlier'
    BY <1>1 DEF Earlier
  <1>3. AllRead <=> AllRead'
    BY <1>1 DEF AllRead
  <1>4. InCommand(Here, pos, cur) <=> InCommand(Here, pos, cur)'
    BY <1>1 DEF InCommand, Here, Start, Stop, ReadTo
  <1>5. AfterCommand(Here, pos, cmds[Here]) <=> AfterCommand(Here, pos, cmds[Here])'
    BY <1>1 DEF AfterCommand, Here, Start, Stop, ReadTo
  <1>6. (pos = Start(Here)) <=> (pos = Start(Here))'
    BY <1>1 DEF Here, Start
  <1> QED
    BY <1>1, <1>2, <1>3, <1>4, <1>5, <1>6 DEF ParseInv

LEMMA ParseNext ==
  ASSUME LineType, LineType', CountInv, ParseInv, [Next]_vars
  PROVE  ParseInv'
  <1>1. CASE Parse
    BY <1>1, ParseReads
  <1>2. CASE Lex \/ Execute \/ UNCHANGED vars
    <2>1. UNCHANGED <<toks, pos, cur, cmds, ops, at>>
      BY <1>2 DEF Lex, Execute, vars, parseVars
    <2> QED
      BY <2>1, ParseSame
  <1> QED
    BY <1>1, <1>2 DEF Next

LEMMA ParseStart == Init => ParseInv
  <1> SUFFICES ASSUME Init PROVE ParseInv
    OBVIOUS
  <1>1. at = "lex" /\ pos = 1 /\ cmds = <<>> /\ ops = <<>> /\ Len(cmds) = 0 /\ Len(ops) = 0
    BY DEF Init, ParseInit
  <1>2. at \notin ParseError
    BY <1>1, ErrorFacts
  <1> QED
    BY <1>1, <1>2, ArgcIs DEF ParseInv

\* The parser accepts exactly the lines of the language, however long, and returns of
\* each its commands, with their arguments and their types, and its operators; the
\* arrays of commands, operators and arguments are never overrun (parse_command_line,
\* parse_command, parse_operator, append_command_arg).
THEOREM ParserCorrect == Spec => []ParserReadsLine
  <1> DEFINE Inv == LineType /\ CountInv /\ ParseInv
  <1>1. Init => Inv
    BY TypeInit, ExecInit, ParseStart
  <1>2. Inv /\ [Next]_vars => Inv'
    <2> SUFFICES ASSUME Inv, [Next]_vars PROVE Inv'
      OBVIOUS
    <2>1. LineType' /\ CountInv'
      BY TypeNext
    <2> QED
      BY <2>1, ParseNext
  <1>3. Inv => ParserReadsLine
    <2> SUFFICES ASSUME LineType, ParseInv PROVE ParserReadsLine
      OBVIOUS
    <2>1. cur.argc =< MaxArgc /\ Len(cmds) =< MaxCmds /\ Len(ops) < MaxCmds
      BY ParseTypes, CommandFields DEF ParseInv
    <2>2. Done => (at = "ok" <=> Accepts)
      BY ErrorFacts DEF ParseInv, Done, AllRead
    <2>3. at = "ok" => AllRead
      BY DEF ParseInv
    <2> QED
      BY <2>1, <2>2, <2>3 DEF ParserReadsLine, AllRead, ReadAs, Describes
  <1> QED
    BY <1>1, <1>2, <1>3, PTL DEF Spec

-----------------------------------------------------------------------------
(* The FIFO commands.                                                      *)

Line == Nat \X Shells \X Nat

\* TypeOK with the lines themselves: they are the members of fifo and of lost.
FifoTyping ==
    /\ pc \in [Shells -> {"prompt", "opening", "open", "wait"}]
    /\ role \in [Shells -> {"r", "w"}] /\ prog \in [Shells -> {"none", "run", "ended"}]
    /\ holds \in [Shells -> BOOLEAN] /\ woken \in [Shells -> BOOLEAN]
    /\ met \in [Shells -> BOOLEAN] /\ early \in BOOLEAN
    /\ fifo \in Seq(Line) /\ Len(fifo) =< Cap
    /\ typed \in 0 .. Commands /\ wrote \in [Shells -> 0 .. MaxLines]
    /\ faults \in 0 .. Faults
    /\ \A s \in Shells : pc[s] = "wait" <=> prog[s] # "none"

\* A reader that has got past its open, or is free to, has met a writer.
MetInv ==
    \A s \in Shells :
        /\ pc[s] = "opening" => role[s] = "r"
        /\ role[s] = "r" /\ pc[s] = "opening" /\ woken[s] => met[s]
        /\ role[s] = "r" /\ pc[s] \in {"open", "wait"} => met[s]

\* A shell holds its end from open to close.
HoldsInv ==
    \A s \in Shells : pc[s] \in {"open", "wait"} <=> holds[s]

\* Once no reading command is there or to come, what is in the FIFO came too late:
\* the last one left only after it had found the FIFO empty.
LateInv ==
    faults = Faults => /\ lost \subseteq late
                       /\ ReaderToCome \/ \A k \in DOMAIN fifo : fifo[k] \in late

FifoInv == FifoTyping /\ MetInv /\ HoldsInv /\ EofAfterWriter /\ LateInv
-----------------------------------------------------------------------------
LEMMA EmptyFifo ==
  ASSUME NEW s, s = <<>> PROVE s \in Seq(Line) /\ Len(s) = 0 /\ DOMAIN s = {}
  <1>1. s \in Seq(Line)
    BY EmptySeq
  <1> QED
    BY <1>1

LEMMA FifoInitInv == FifoInit => FifoInv
  <1> SUFFICES ASSUME FifoInit PROVE FifoInv
    OBVIOUS
  <1>1. fifo \in Seq(Line) /\ Len(fifo) = 0 /\ DOMAIN fifo = {}
    <2>1. fifo = <<>>
      BY DEF FifoInit
    <2> QED
      BY <2>1, EmptyFifo
  <1>2. FifoTyping
    <2>1. /\ 0 \in 0 .. Commands /\ 0 \in 0 .. MaxLines /\ Faults \in 0 .. Faults /\ 0 =< Cap
      BY FifoAssumption
    <2>2. /\ pc = [s \in Shells |-> "prompt"] /\ role = [s \in Shells |-> "r"]
          /\ prog = [s \in Shells |-> "none"] /\ holds = [s \in Shells |-> FALSE]
          /\ woken = [s \in Shells |-> FALSE] /\ met = [s \in Shells |-> FALSE]
          /\ early = FALSE /\ typed = 0 /\ wrote = [s \in Shells |-> 0] /\ faults = Faults
      BY DEF FifoInit
    <2> QED
      BY <1>1, <2>1, <2>2 DEF FifoTyping
  <1>3. MetInv /\ HoldsInv /\ EofAfterWriter /\ LateInv
    BY <1>1 DEF FifoInit, MetInv, HoldsInv, EofAfterWriter, LateInv
  <1> QED
    BY <1>2, <1>3 DEF FifoInv

\* What Append, Tail and emptying do to the lines of the FIFO.
LEMMA FifoLines ==
  ASSUME FifoTyping
  PROVE  /\ \A x \in Line : /\ Append(fifo, x) \in Seq(Line)
                            /\ Len(Append(fifo, x)) = Len(fifo) + 1
                            /\ \A k \in DOMAIN Append(fifo, x) :
                                  \/ k \in DOMAIN fifo /\ Append(fifo, x)[k] = fifo[k]
                                  \/ Append(fifo, x)[k] = x
         /\ fifo # <<>> => /\ Tail(fifo) \in Seq(Line) /\ Len(Tail(fifo)) =< Len(fifo)
                           /\ \A k \in DOMAIN Tail(fifo) :
                                k + 1 \in DOMAIN fifo /\ Tail(fifo)[k] = fifo[k + 1]
  BY DEF FifoTyping

\* A shell that closes its end for good is no reading command to come: those that
\* were are still there, so that the FIFO is dropped only when none was.
LEMMA DropIsLate ==
  ASSUME FifoInv, NEW s \in Shells, Waited(s), faults = Faults
  PROVE  LateInv'
  <1>1. ReaderToCome => ReaderToCome' /\ Readers' # {}
    <2> SUFFICES ASSUME NEW r \in Readers,
                        pc[r] \in {"opening", "open"} \/ IsRunning(r)
                 PROVE  r \in Readers' /\ (pc'[r] \in {"opening", "open"} \/ IsRunning(r)')
      BY DEF ReaderToCome
    <2>1. r \in Shells /\ r # s
      BY DEF Readers, Waited, IsRunning
    <2>2. /\ pc'[r] = pc[r] /\ prog'[r] = prog[r] /\ role'[r] = role[r]
          /\ holds'[r] = holds[r]
      BY <2>1 DEF Waited, Closes, FifoInv, FifoTyping
    <2> QED
      BY <2>1, <2>2 DEF Readers, Has, IsRunning
  <1>2. faults' = faults /\ late' = late
    BY DEF Waited, Closes
  <1>3. CASE Writers' = {} /\ Readers' = {}
    <2>1. \A k \in DOMAIN fifo : fifo[k] \in late
      BY <1>1, <1>3 DEF FifoInv, LateInv
    <2>2. fifo' = <<>> /\ lost' = lost \union {fifo[k] : k \in DOMAIN fifo}
      BY <1>3 DEF Waited, LastCloseDrops
    <2> QED
      BY <1>2, <2>1, <2>2 DEF FifoInv, LateInv
  <1>4. CASE ~ (Writers' = {} /\ Readers' = {})
    <2>1. UNCHANGED <<fifo, lost>>
      BY <1>4 DEF Waited, LastCloseDrops
    <2> QED
      BY <1>1, <1>2, <2>1 DEF FifoInv, LateInv
  <1> QED
    BY <1>3, <1>4
-----------------------------------------------------------------------------
LEMMA TypingKept ==
  ASSUME FifoInv, FifoNext PROVE FifoTyping'
  <1> USE FifoAssumption DEF FifoInv, FifoTyping
  <1> PICK s \in Shells : Types(s) \/ Minibash(s) \/ Command(s) \/ Quit(s)
    BY DEF FifoNext
  <1>1. CASE Types(s)
    <2>1. CASE WriteRefused(s)
      BY <2>1 DEF WriteRefused, Typed
    <2>2. CASE WriteOpens(s)
      BY <2>2 DEF WriteOpens, Typed
    <2>3. CASE ReadStarts(s)
      BY <2>3 DEF ReadStarts, Typed
    <2> QED
      BY <1>1, <2>1, <2>2, <2>3 DEF Types
  <1>2. ASSUME LastCloseDrops PROVE fifo' \in Seq(Line) /\ Len(fifo') =< Cap
    <2>1. fifo' = <<>> \/ fifo' = fifo
      BY <1>2 DEF LastCloseDrops
    <2> QED
      BY <2>1, EmptyFifo
  <1>3. CASE Minibash(s)
    <2>1. CASE ReadOpens(s)
      BY <2>1 DEF ReadOpens
    <2>2. CASE Forks(s)
      BY <2>2 DEF Forks
    <2>3. CASE ForkFails(s)
      BY <1>2, <2>3 DEF ForkFails, Closes
    <2>4. CASE Waited(s)
      BY <1>2, <2>4 DEF Waited, Closes
    <2> QED
      BY <1>3, <2>1, <2>2, <2>3, <2>4 DEF Minibash
  <1>4. CASE Command(s)
    <2> USE DEF Shell, Ends, IsRunning
    <2>1. CASE Writes(s)
      <3>1. <<typed, s, wrote[s]>> \in Line
        BY DEF Line
      <3> QED
        BY <2>1, <3>1, FifoLines DEF Writes
    <2>2. CASE WriteAgain(s)
      BY <2>2 DEF WriteAgain
    <2>3. CASE WriterEnds(s)
      BY <2>3 DEF WriterEnds
    <2>4. CASE Reads(s)
      BY <2>4, FifoLines DEF Reads
    <2>5. CASE ReadsEof(s)
      BY <2>5 DEF ReadsEof
    <2>6. CASE Sigpipe(s)
      BY <2>6 DEF Sigpipe
    <2> QED
      BY <1>4, <2>1, <2>2, <2>3, <2>4, <2>5, <2>6 DEF Command
  <1>5. CASE Quit(s)
    BY <1>5 DEF Quit, Shell, Ends, IsRunning
  <1> QED
    BY <1>1, <1>3, <1>4, <1>5

\* The open, fork and close of one shell, and the writer that wakes the readers.
LEMMA ReadersKept ==
  ASSUME FifoInv, FifoNext PROVE MetInv' /\ HoldsInv' /\ EofAfterWriter'
  <1> USE DEF FifoInv, FifoTyping, MetInv, HoldsInv, EofAfterWriter
  <1> PICK s \in Shells : Types(s) \/ Minibash(s) \/ Command(s) \/ Quit(s)
    BY DEF FifoNext
  <1>1. CASE Types(s)
    <2>1. CASE WriteRefused(s)
      BY <2>1 DEF WriteRefused, Typed
    <2>2. CASE WriteOpens(s)
      <3>1. \A r \in Shells : pc[r] = "opening" => r \in Readers
        BY DEF Readers
      <3> QED
        BY <2>2, <3>1 DEF WriteOpens, Typed
    <2>3. CASE ReadStarts(s)
      BY <2>3 DEF ReadStarts, Typed
    <2> QED
      BY <1>1, <2>1, <2>2, <2>3 DEF Types
  <1>2. CASE Minibash(s)
    <2>1. CASE ReadOpens(s)
      BY <2>1 DEF ReadOpens
    <2>2. CASE Forks(s)
      BY <2>2 DEF Forks
    <2>3. CASE ForkFails(s) \/ Waited(s)
      BY <2>3, SMTT(30) DEF ForkFails, Waited, Closes
    <2> QED
      BY <1>2, <2>1, <2>2, <2>3 DEF Minibash
  <1>3. CASE Command(s)
    <2>1. CASE ReadsEof(s)
      BY <2>1 DEF ReadsEof, Shell, Ends, IsRunning
    <2>2. CASE ~ ReadsEof(s)
      BY <1>3, <2>2 DEF Command, Writes, WriteAgain, WriterEnds, Reads, Sigpipe, Shell
    <2> QED
      BY <2>1, <2>2
  <1>4. CASE Quit(s)
    BY <1>4 DEF Quit, Shell
  <1> QED
    BY <1>1, <1>2, <1>3, <1>4

\* Only the end of a reading command takes a reader to come away.
LEMMA LateKept ==
  ASSUME FifoInv, FifoNext PROVE LateInv'
  <1> USE FifoAssumption DEF FifoInv, FifoTyping
  <1> PICK s \in Shells : Types(s) \/ Minibash(s) \/ Command(s) \/ Quit(s)
    BY DEF FifoNext
  <1> SUFFICES ASSUME faults' = Faults PROVE LateInv'
    BY DEF LateInv
  <1>1. faults = Faults /\ ~ ForkFails(s) /\ ~ Quit(s)
    BY DEF ForkFails, Quit, Types, WriteRefused, WriteOpens, ReadStarts, Minibash,
           ReadOpens, Forks, Waited, Command, Writes, WriteAgain, WriterEnds, Reads,
           ReadsEof, Sigpipe
  <1>2. ASSUME lost' = lost, late' = late, fifo' = fifo,
               \A r \in Readers : pc[r] \in {"opening", "open"} \/ IsRunning(r) =>
                  r \in Readers' /\ (pc'[r] \in {"opening", "open"} \/ IsRunning(r)')
        PROVE  LateInv'
    BY <1>1, <1>2 DEF LateInv, ReaderToCome
  <1>3. CASE Types(s)
    BY <1>2, <1>3 DEF Types, WriteRefused, WriteOpens, ReadStarts, Typed, Readers, Has,
                      IsRunning, HoldsInv
  <1>4. CASE Minibash(s)
    <2>1. CASE Waited(s)
      BY <1>1, <2>1, DropIsLate
    <2>2. CASE ReadOpens(s)
      BY <1>2, <2>2 DEF ReadOpens, Readers, Has, IsRunning
    <2>3. CASE Forks(s)
      BY <1>2, <2>3 DEF Forks, Readers, Has, IsRunning
    <2> QED
      BY <1>1, <1>4, <2>1, <2>2, <2>3 DEF Minibash
  <1>5. CASE Command(s)
    <2>1. CASE Writes(s)
      <3>1. ReaderToCome' <=> ReaderToCome
        BY <2>1 DEF Writes, Shell, ReaderToCome, Readers, Has, IsRunning
      <3>2. <<typed, s, wrote[s]>> \in Line
        BY DEF Line
      <3> QED
        BY <1>1, <2>1, <3>1, <3>2, FifoLines DEF Writes, LateInv
    <2>2. CASE Reads(s)
      <3>1. ReaderToCome' <=> ReaderToCome
        BY <2>2 DEF Reads, Shell, ReaderToCome, Readers, Has, IsRunning
      <3> QED
        BY <1>1, <2>2, <3>1, FifoLines DEF Reads, LateInv
    <2>3. CASE ReadsEof(s)
      BY <1>1, <2>3 DEF ReadsEof, LateInv
    <2>4. CASE WriteAgain(s) \/ WriterEnds(s) \/ Sigpipe(s)
      BY <1>2, <2>4 DEF WriteAgain, WriterEnds, Sigpipe, Shell, Ends, Readers, Has, IsRunning
    <2> QED
      BY <1>5, <2>1, <2>2, <2>3, <2>4 DEF Command
  <1> QED
    BY <1>1, <1>3, <1>4, <1>5

LEMMA FifoInvariant == FifoSpec => []FifoInv
  <1>1. FifoInv /\ [FifoNext]_fifoVars => FifoInv'
    <2> SUFFICES ASSUME FifoInv, [FifoNext]_fifoVars PROVE FifoInv'
      OBVIOUS
    <2>1. CASE FifoNext
      BY <2>1, TypingKept, ReadersKept, LateKept DEF FifoInv
    <2>2. CASE UNCHANGED fifoVars
      BY <2>2 DEF fifoVars, FifoInv, FifoTyping, MetInv, HoldsInv, EofAfterWriter, LateInv,
                  ReaderToCome, Readers, Has, IsRunning
    <2> QED
      BY <2>1, <2>2
  <1> QED
    BY FifoInitInv, <1>1, PTL DEF FifoSpec
-----------------------------------------------------------------------------
\* No reading command meets end-of-file before a writer has come, whatever number
\* of shells open the FIFO (exc_fifo_read_cmd).
THEOREM EofCorrect == FifoSpec => []EofAfterWriter
  <1>1. FifoInv => EofAfterWriter
    BY DEF FifoInv
  <1> QED
    BY <1>1, FifoInvariant, PTL

\* What the last close drops was written when no reading command was there or to
\* come, for a FIFO of any size and any number of shells (exc_fifo_read_cmd,
\* exc_fifo_write_cmd).
THEOREM LossCorrect == FifoSpec => []LostOnlyIfLate
  <1>1. FifoInv => LostOnlyIfLate
    BY DEF FifoInv, LateInv, LostOnlyIfLate
  <1> QED
    BY <1>1, FifoInvariant, PTL
=============================================================================
