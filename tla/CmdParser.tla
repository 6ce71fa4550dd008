----------------------------- MODULE CmdParser ------------------------------
(***************************************************************************)
(* parse_command_line, parse_command and parse_operator of minibash        *)
(* (A3/A3.c): the tokens do_lex returns become command segments and the     *)
(* operators between them.  Words are not told apart; of a command the     *)
(* model keeps what the executor looks at: the number of its arguments,    *)
(* its node type and whether it is to run in the background.               *)
(***************************************************************************)
EXTENDS CmdLexer, FiniteSets, SequencesExt

CONSTANTS
  MaxArgc,      \* MAX_ARGC, arguments of a command with its name (4)
  MaxCmds       \* MAX_CMDS, commands of a line (5)

ASSUME ParseAssumption ==
  /\ MaxArgc \in Nat \ {0}
  /\ MaxCmds \in Nat \ {0}

VARIABLES
  toks,     \* the types of the tokens of the line
  pos,      \* the next token
  cur,      \* the command being read
  cmds,     \* the commands read (cmd_count is its length)
  ops,      \* the operators read (op_count is its length)
  at        \* "lex": not called yet, "line": before a command, "cmd": in one,
            \* "op": after one, "ok" or the error code

parseVars == <<toks, pos, cur, cmds, ops, at>>

NoCmd == [argc |-> 0, type |-> "SIMPLE", bg |-> FALSE, in |-> FALSE, out |-> FALSE]

NodeType == {"SIMPLE", "BG", "FIFO_W", "FIFO_R", "WORD_COUNT", "TXT_CAT", "TXT_APP"}

CommandType ==
  [argc : 0..MaxArgc, type : NodeType, bg : BOOLEAN, in : BOOLEAN, out : BOOLEAN]

Connector == {"PIPE", "DAMP", "DPIPE", "SEMI", "TILDE"}

Redirection == {"REDIR_IN", "REDIR_OUT", "REDIR_APP"}

OpOf == [PIPE |-> "PIPE", DAMP |-> "AND", DPIPE |-> "OR", SEMI |-> "SEQ",
         TILDE |-> "REVERSE_PIPE"]

ParseError == {"too many arguments", "expected command", "expected operator",
               "too many commands", "too many operators", "invalid"}

-----------------------------------------------------------------------------
(* parse_command: one turn of its loop per action.                         *)

Done == at = "ok" \/ at \in ParseError

AtEnd == pos > Len(toks)

\* The token at pos, inside a command.
Sees(types) == at = "cmd" /\ ~AtEnd /\ toks[pos] \in types

Fail(error) ==
  /\ at' = error
  /\ UNCHANGED <<toks, pos, cur, cmds, ops>>

TakeInto(c) ==
  /\ cur' = c
  /\ pos' = pos + 1
  /\ UNCHANGED <<toks, cmds, ops, at>>

\* append_command_arg
ArgWord ==
  /\ Sees({"WORD"})
  /\ IF cur.argc >= MaxArgc
     THEN Fail("too many arguments")
     ELSE TakeInto([cur EXCEPT !.argc = @ + 1])

\* A variant that takes every ||| for the writing end.
TypeToken_always_writer ==
  /\ Sees({"HASH", "PLUS", "DPLUS", "TPIPE"})
  /\ TakeInto([cur EXCEPT !.type =
       CASE toks[pos] = "HASH"  -> "WORD_COUNT"
         [] toks[pos] = "PLUS"  -> "TXT_CAT"
         [] toks[pos] = "DPLUS" -> "TXT_APP"
         [] toks[pos] = "TPIPE" -> "FIFO_W"])

\* The last of these tokens decides the type.
TypeToken ==
  /\ Sees({"HASH", "PLUS", "DPLUS", "TPIPE"})
  /\ TakeInto([cur EXCEPT !.type =
       CASE toks[pos] = "HASH"  -> "WORD_COUNT"
         [] toks[pos] = "PLUS"  -> "TXT_CAT"
         [] toks[pos] = "DPLUS" -> "TXT_APP"
         [] toks[pos] = "TPIPE" -> IF cur.argc = 0 THEN "FIFO_R" ELSE "FIFO_W"])

\* & ends the command, whatever follows; it also replaces the type set by a
\* text operator or by |||.
Amp ==
  /\ Sees({"AMP"})
  /\ IF cur.argc = 0
     THEN Fail("invalid")
     ELSE /\ cmds' = Append(cmds, [cur EXCEPT !.type = "BG", !.bg = TRUE])
          /\ pos' = pos + 1
          /\ at' = "op"
          /\ UNCHANGED <<toks, cur, ops>>

\* <, > and >> take the next word with them.
Redirect ==
  /\ Sees(Redirection)
  /\ IF pos = Len(toks) \/ toks[pos + 1] # "WORD"
     THEN Fail("expected command")
     ELSE /\ cur' = IF toks[pos] = "REDIR_IN" THEN [cur EXCEPT !.in = TRUE]
                                              ELSE [cur EXCEPT !.out = TRUE]
          /\ pos' = pos + 2
          /\ UNCHANGED <<toks, cmds, ops, at>>

EndCommand ==
  /\ at = "cmd"
  /\ ~AtEnd => toks[pos] \in Connector
  /\ IF cur.argc = 0
     THEN Fail("expected command")
     ELSE /\ cmds' = Append(cmds, cur)
          /\ at' = "op"
          /\ UNCHANGED <<toks, pos, cur, ops>>

-----------------------------------------------------------------------------
(* parse_command_line.                                                     *)

BeginCommand ==
  /\ at = "line" /\ ~AtEnd
  /\ IF Len(cmds) >= MaxCmds
     THEN Fail("too many commands")
     ELSE /\ cur' = NoCmd
          /\ at' = "cmd"
          /\ UNCHANGED <<toks, pos, cmds, ops>>

\* parse_operator
ParseOperator ==
  /\ at = "op" /\ ~AtEnd
  /\ IF Len(ops) >= MaxCmds - 1 THEN Fail("too many operators")
     ELSE IF toks[pos] \notin Connector THEN Fail("expected operator")
     ELSE /\ ops' = Append(ops, OpOf[toks[pos]])
          /\ pos' = pos + 1
          /\ at' = "line"
          /\ UNCHANGED <<toks, cur, cmds>>

\* The line may end after a command or, just as well, after an operator.
EndLine ==
  /\ at \in {"line", "op"} /\ AtEnd
  /\ at' = IF cmds = <<>> THEN "expected command" ELSE "ok"
  /\ UNCHANGED <<toks, pos, cur, cmds, ops>>

ParseInit ==
  /\ toks = <<>>
  /\ pos = 1
  /\ cur = NoCmd
  /\ cmds = <<>>
  /\ ops = <<>>
  /\ at = "lex"

\* main calls the parser when the lexer has accepted the line.
ParseBegins ==
  /\ at = "lex" /\ lexed = "ok"
  /\ toks' = [k \in 1..Len(tokens) |-> tokens[k].type]
  /\ at' = "line"
  /\ UNCHANGED <<pos, cur, cmds, ops>>

ParseStep ==
  \/ ParseBegins \/ ArgWord \/ TypeToken \/ Amp \/ Redirect \/ EndCommand
  \/ BeginCommand \/ ParseOperator \/ EndLine

-----------------------------------------------------------------------------
(* The language, stated without a parser: the tokens are cut at the        *)
(* connectors, and every piece is a command of its own.                    *)

Connectors == {j \in 1..Len(toks) : toks[j] \in Connector}

\* The connectors in order: the k-th is the one with k up to it.
Cuts ==
  [k \in 1..Cardinality(Connectors) |->
     CHOOSE c \in Connectors : Cardinality({d \in Connectors : d <= c}) = k]

Pieces ==
  [k \in 1..(Len(Cuts) + 1) |->
     SubSeq(toks, IF k = 1 THEN 1 ELSE Cuts[k - 1] + 1,
                  IF k > Len(Cuts) THEN Len(toks) ELSE Cuts[k] - 1)]

\* The words of a piece that are not the file of a redirection.
ArgWords(s) == {j \in 1..Len(s) :
                  s[j] = "WORD" /\ (j = 1 \/ s[j - 1] \notin Redirection)}

IsCommand(s) ==
  /\ \A j \in 1..Len(s) :
       /\ s[j] \in Redirection => j < Len(s) /\ s[j + 1] = "WORD"
       /\ s[j] = "AMP" => j = Len(s)
  /\ Cardinality(ArgWords(s)) \in 1..MaxArgc

\* An operator may end the line; nothing else may be missing.
Accepts ==
  LET n == Len(Pieces)
      trailing == n > 1 /\ Pieces[n] = <<>>
  IN  /\ \A k \in 1..(IF trailing THEN n - 1 ELSE n) : IsCommand(Pieces[k])
      /\ (IF trailing THEN n - 1 ELSE n) <= MaxCmds
      /\ Len(Cuts) <= MaxCmds - 1

TypeTokens(s) == {j \in 1..Len(s) : s[j] \in {"HASH", "PLUS", "DPLUS", "TPIPE", "AMP"}}

TypeOfCommand(s) ==
  IF TypeTokens(s) = {} THEN "SIMPLE"
  ELSE LET j == CHOOSE k \in TypeTokens(s) : \A m \in TypeTokens(s) : m <= k
       IN  CASE s[j] = "HASH"  -> "WORD_COUNT"
             [] s[j] = "PLUS"  -> "TXT_CAT"
             [] s[j] = "DPLUS" -> "TXT_APP"
             [] s[j] = "AMP"   -> "BG"
             [] s[j] = "TPIPE" -> IF \E w \in ArgWords(s) : w < j
                                  THEN "FIFO_W" ELSE "FIFO_R"

-----------------------------------------------------------------------------
(* Properties.                                                             *)

\* The parser accepts exactly the lines of the language, and what it returns is the
\* line: one command per piece, never an empty one, with its arguments and the type of
\* its last type token, and the operators in order.  The arrays of commands, arguments
\* and operators are never overrun.  A & makes every command a plain background command:
\* the background branches of exc_fifo_write_cmd and exc_fifo_read_cmd are never taken.
ParserReadsLine ==
  /\ Len(cmds) <= MaxCmds /\ Len(ops) < MaxCmds /\ cur.argc <= MaxArgc
  /\ Done => (at = "ok" <=> Accepts)
  /\ at = "ok" =>
       /\ Len(cmds) \in {Len(Cuts), Len(Cuts) + 1} \ {0}
       /\ \A k \in 1..Len(cmds) :
            /\ cmds[k].argc = Cardinality(ArgWords(Pieces[k]))
            /\ cmds[k].type = TypeOfCommand(Pieces[k])
            /\ cmds[k].bg <=> Last(Pieces[k]) = "AMP"
       /\ ops = [k \in 1..Len(Cuts) |-> OpOf[toks[Cuts[k]]]]
=============================================================================
