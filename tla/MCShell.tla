------------------------------ MODULE MCShell -------------------------------
(* An instance of Shell for TLC. *)
EXTENDS Shell

Echo1 == Execcmd(<<"echo", "x">>)
Echo2 == Execcmd(<<"echo", "x", "x">>)
Cat   == Execcmd(<<"cat">>)
None  == Execcmd(<<>>)

Commands ==
  {Pipecmd(Echo1, Pipecmd(Cat, Cat)),
   Pipecmd(Listcmd(Echo1, Echo1), Cat),
   Listcmd(Redircmd(Echo2, "f", ">"), Redircmd(Cat, "f", "<")),
   Redircmd(Listcmd(Echo1, Redircmd(Cat, "g", "<")), "f", ">>"),
   Backcmd(Echo1)}

(* Lines that do not parse, or name no program. *)
Errors == {<<"echo", "|", ")">>, <<"echo", "x", "x", "x">>, <<"prog">>}

MCLines ==
  {[text |-> LineOf(c), means |-> c] : c \in Commands}
    \union {[text |-> s, means |-> None] : s \in Errors}

(* parsecmd() gives back every command of depth 2 from the way it is written. *)
Larger(S) ==
  S \union {Redircmd(c, "f", m) : c \in S, m \in {"<", ">", ">>"}}
    \union {Pipecmd(l, r) : l, r \in S} \union {Listcmd(l, r) : l, r \in S}
    \union {Backcmd(c) : c \in S}

ASSUME ParsesBack ==
  \A c \in Larger(Larger({None, Cat, Echo1})) : Parsecmd(LineOf(c)) = c
=============================================================================
