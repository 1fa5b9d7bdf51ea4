------------------------------ MODULE ShellParse -----------------------------
(***************************************************************************)
(* The parser of the shell (user/sh/sh.c).  A line is a sequence of        *)
(* tokens, as gettoken() finds them: words and symbols.  A parse function  *)
(* takes the line s and the index i of its next token and returns the      *)
(* command and the index after it.                                         *)
(***************************************************************************)
EXTENDS Naturals, Sequences

CONSTANT MAXARGS

Symbols == {"<", ">", ">>", "|", "&", ";", "(", ")"}

(* Constructors *)

Execcmd(argv)            == [type |-> "EXEC", argv |-> argv]
Redircmd(cmd, file, mode) == [type |-> "REDIR", cmd |-> cmd, file |-> file, mode |-> mode]
Pipecmd(left, right)     == [type |-> "PIPE", left |-> left, right |-> right]
Listcmd(left, right)     == [type |-> "LIST", left |-> left, right |-> right]
Backcmd(cmd)             == [type |-> "BACK", cmd |-> cmd]

(* The parser has called panic(), which ends the process. *)
Panicked == [type |-> "panic"]

Panic(s) == [cmd |-> Panicked, i |-> Len(s) + 1]

(* The result r of a parse function, with c made of its command. *)
Parsed(r, c) == IF r.cmd = Panicked THEN r ELSE [r EXCEPT !.cmd = c]

-----------------------------------------------------------------------------
Peek(s, i, toks) == i <= Len(s) /\ s[i] \in toks

IsWord(s, i) == i <= Len(s) /\ s[i] \notin Symbols

(* The execcmd that parseexec() fills in, below its redirections. *)
RECURSIVE Argc(_)
Argc(cmd) == IF cmd.type = "EXEC" THEN Len(cmd.argv) ELSE Argc(cmd.cmd)

RECURSIVE AddArg(_, _)
AddArg(cmd, w) ==
  IF cmd.type = "EXEC" THEN [cmd EXCEPT !.argv = Append(@, w)]
                       ELSE [cmd EXCEPT !.cmd = AddArg(@, w)]

RECURSIVE Parseredirs(_, _, _)
Parseredirs(cmd, s, i) ==
  IF ~Peek(s, i, {"<", ">", ">>"}) THEN [cmd |-> cmd, i |-> i]
  ELSE IF ~IsWord(s, i + 1) THEN Panic(s)
  ELSE Parseredirs(Redircmd(cmd, s[i + 1], s[i]), s, i + 2)

(* The loop of parseexec(). *)
RECURSIVE Parseargs(_, _)
Parseargs(s, r) ==
  IF r.i > Len(s) \/ Peek(s, r.i, {"|", ")", "&", ";"}) THEN r
  ELSE IF ~IsWord(s, r.i) \/ Argc(r.cmd) + 1 >= MAXARGS THEN Panic(s)
  ELSE Parseargs(s, Parseredirs(AddArg(r.cmd, s[r.i]), s, r.i + 1))

RECURSIVE Parseline(_, _)

Parseblock(s, i) ==
  LET r == Parseline(s, i + 1) IN
  IF ~Peek(s, r.i, {")"}) THEN Panic(s) ELSE Parseredirs(r.cmd, s, r.i + 1)

Parseexec(s, i) ==
  IF Peek(s, i, {"("}) THEN Parseblock(s, i)
                       ELSE Parseargs(s, Parseredirs(Execcmd(<<>>), s, i))

RECURSIVE Parsepipe(_, _)
Parsepipe(s, i) ==
  LET l == Parseexec(s, i)
      r == Parsepipe(s, l.i + 1)
  IN IF Peek(s, l.i, {"|"}) THEN Parsed(r, Pipecmd(l.cmd, r.cmd)) ELSE l

(* The loop of parseline(). *)
RECURSIVE Parsebacks(_, _)
Parsebacks(s, r) ==
  IF Peek(s, r.i, {"&"}) THEN Parsebacks(s, [cmd |-> Backcmd(r.cmd), i |-> r.i + 1]) ELSE r

Parseline(s, i) ==
  LET l == Parsebacks(s, Parsepipe(s, i))
      r == Parseline(s, l.i + 1)
  IN IF Peek(s, l.i, {";"}) THEN Parsed(r, Listcmd(l.cmd, r.cmd)) ELSE l

Parsecmd(s) ==
  LET r == Parseline(s, 1) IN IF r.i # Len(s) + 1 THEN Panicked ELSE r.cmd

-----------------------------------------------------------------------------
(* How a command is written, for comparison: a list or a background        *)
(* command inside a pipeline or under a redirection needs parentheses.     *)

RECURSIVE LineOf(_)

RECURSIVE ExecOf(_)
ExecOf(c) ==
  CASE c.type = "EXEC"  -> c.argv
    [] c.type = "REDIR" -> ExecOf(c.cmd) \o <<c.mode, c.file>>
    [] OTHER            -> <<"(">> \o LineOf(c) \o <<")">>

RECURSIVE PipeOf(_)
PipeOf(c) ==
  IF c.type = "PIPE" THEN ExecOf(c.left) \o <<"|">> \o PipeOf(c.right) ELSE ExecOf(c)

RECURSIVE BackOf(_)
BackOf(c) == IF c.type = "BACK" THEN BackOf(c.cmd) \o <<"&">> ELSE PipeOf(c)

LineOf(c) ==
  IF c.type = "LIST" THEN BackOf(c.left) \o <<";">> \o LineOf(c.right) ELSE BackOf(c)
=============================================================================
