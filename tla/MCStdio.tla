------------------------------- MODULE MCStdio -------------------------------
(* Scripts for Stdio: four lines with what matters to one another.          *)
EXTENDS Stdio

MCLines == {<<NL>>, <<" ", "wrong", NL>>, <<" ", "print", NL>>, <<"bad", NL>>,
            <<"print part", "bad &", "print", NL>>, <<"print", "bad >", "bad", NL>>,
            <<"print", "bad <", NL>>, <<"good &", " ", "good", NL>>,
            <<"print", "good", "print", "good", "good", NL>>}
MCEnds == {<<>>, <<"print">>, <<"print", "exit", NL>>}
MCScripts == {a \o b \o <<"print", NL>> \o e : a, b \in MCLines, e \in MCEnds}
=============================================================================
