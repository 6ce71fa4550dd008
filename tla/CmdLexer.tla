------------------------------ MODULE CmdLexer ------------------------------
(***************************************************************************)
(* do_lex of minibash (A3/A3.c): the characters of a trimmed line become   *)
(* tokens.  A line is a sequence of characters of which only the class     *)
(* matters: a blank, one of the eight characters the language uses, or a   *)
(* character of a word.  A token keeps its type and the positions it was   *)
(* read from.                                                              *)
(***************************************************************************)
EXTENDS Integers, Sequences

CONSTANTS
  Lines,       \* the lines typed: trimmed, not empty, of at most 511 characters
  MaxTokens,   \* MAX_TOKENS, the capacity of the token array (128)
  MaxWord      \* characters of a word (the code allows 511)

Special == {"|", "&", ";", "~", "+", "#", "<", ">"}
Char == Special \cup {"w", " "}

ASSUME LexAssumption ==
  /\ Lines \subseteq Seq(Char) \ {<<>>}
  /\ \A l \in Lines : l[1] # " " /\ l[Len(l)] # " "
  /\ MaxTokens \in Nat \ {0, 1}
  /\ MaxWord \in Nat \ {0}

VARIABLES
  line,        \* the characters
  p,           \* the next character to look at
  tokens,      \* the tokens pushed so far
  lexed        \* "run", "ok" or the error returned

lexVars == <<line, p, tokens, lexed>>

\* The operators of the language, by what is written.
Spelling ==
  { [type |-> "TPIPE", text |-> <<"|", "|", "|">>],
    [type |-> "DPIPE", text |-> <<"|", "|">>],
    [type |-> "PIPE",  text |-> <<"|">>],
    [type |-> "DAMP",  text |-> <<"&", "&">>],
    [type |-> "AMP",   text |-> <<"&">>],
    [type |-> "SEMI",  text |-> <<";">>],
    [type |-> "TILDE", text |-> <<"~">>],
    [type |-> "DPLUS", text |-> <<"+", "+">>],
    [type |-> "PLUS",  text |-> <<"+">>],
    [type |-> "HASH",  text |-> <<"#">>],
    [type |-> "REDIR_IN",  text |-> <<"<">>],
    [type |-> "REDIR_APP", text |-> <<">", ">">>],
    [type |-> "REDIR_OUT", text |-> <<">">>] }

TokType == {s.type : s \in Spelling} \cup {"WORD"}

-----------------------------------------------------------------------------
(* push_token and the branches of do_lex's loop.                           *)

\* The character d places after p; the line ends in a character of no class.
At(d) == IF p + d <= Len(line) THEN line[p + d] ELSE "end"

Starts(text) == \A d \in 1..Len(text) : At(d - 1) = text[d]

\* The last place of the array is kept for TOK_EOF.
push_token(type, len) ==
  IF Len(tokens) >= MaxTokens - 1
  THEN /\ lexed' = "too many tokens"
       /\ UNCHANGED <<p, tokens>>
  ELSE /\ tokens' = Append(tokens, [type |-> type, from |-> p, len |-> len])
       /\ p' = p + len
       /\ UNCHANGED lexed

Running == lexed = "run" /\ p <= Len(line)

Blank ==
  /\ Running
  /\ At(0) = " "
  /\ p' = p + 1
  /\ UNCHANGED <<line, tokens, lexed>>

\* A variant that tests || before |||.
Operator_two_first ==
  /\ Running
  /\ \E s \in Spelling :
       /\ Starts(s.text)
       /\ \A longer \in Spelling :
            Len(longer.text) > Len(s.text) /\ Len(longer.text) < 3
              => ~Starts(longer.text)
       /\ Len(s.text) < 3
       /\ push_token(s.type, Len(s.text))
  /\ UNCHANGED line

\* The if-chain asks for the longer operators first.
Operator ==
  /\ Running
  /\ \E s \in Spelling :
       /\ Starts(s.text)
       /\ \A longer \in Spelling :
            Len(longer.text) > Len(s.text) => ~Starts(longer.text)
       /\ push_token(s.type, Len(s.text))
  /\ UNCHANGED line

\* The characters up to the next blank or operator character.
WordLen ==
  CHOOSE n \in 1..(Len(line) - p + 1) :
    /\ \A d \in 0..(n - 1) : At(d) = "w"
    /\ At(n) # "w"

Word ==
  /\ Running
  /\ At(0) = "w"
  /\ IF WordLen > MaxWord
     THEN /\ lexed' = "arg too long"
          /\ UNCHANGED <<p, tokens>>
     ELSE push_token("WORD", WordLen)
  /\ UNCHANGED line

EndOfLine ==
  /\ lexed = "run" /\ p > Len(line)
  /\ lexed' = "ok"
  /\ UNCHANGED <<line, p, tokens>>

LexInit ==
  /\ line \in Lines
  /\ p = 1
  /\ tokens = <<>>
  /\ lexed = "run"

LexStep == Blank \/ Operator \/ Word \/ EndOfLine

-----------------------------------------------------------------------------
(* Properties.                                                             *)

Covered(k) == tokens[k].from..(tokens[k].from + tokens[k].len - 1)

Text(k) == [d \in 1..tokens[k].len |-> line[tokens[k].from + d - 1]]

\* What do_lex returns is the line: the tokens come in order, do not overlap, leave out
\* blanks only, and each has the type of what is written.  No token could have been
\* longer: "a|||b" is never read as || and |, and a word never stops in the middle.  The
\* place of TOK_EOF in the array stays free all along.
TokensAreLine ==
  /\ Len(tokens) < MaxTokens
  /\ lexed = "ok" =>
       /\ \A k \in 1..(Len(tokens) - 1) :
            tokens[k].from + tokens[k].len <= tokens[k + 1].from
       /\ \A c \in 1..Len(line) :
            line[c] # " " <=> \E k \in 1..Len(tokens) : c \in Covered(k)
  /\ \A k \in 1..Len(tokens) :
       /\ IF tokens[k].type = "WORD"
          THEN \A d \in 1..tokens[k].len : Text(k)[d] = "w"
          ELSE [type |-> tokens[k].type, text |-> Text(k)] \in Spelling
       /\ LET longer == SubSeq(line, tokens[k].from, tokens[k].from + tokens[k].len)
          IN  tokens[k].from + tokens[k].len <= Len(line)
                => /\ \A s \in Spelling : s.text # longer
                   /\ ~(\A d \in 1..Len(longer) : longer[d] = "w")
=============================================================================
