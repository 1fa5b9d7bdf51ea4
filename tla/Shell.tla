-------------------------------- MODULE Shell --------------------------------
(***************************************************************************)
(* init, the shell and the processes it makes to run a line, with the      *)
(* programs echo and cat (user/init, user/sh, user/echo, user/cat), on the *)
(* system calls they use.                                                  *)
(*                                                                         *)
(* A process is the sequence of the system calls it will make: runcmd()    *)
(* is the translation of a command into them.  A system call is one step;  *)
(* Proc and Pipe have the steps inside fork(), wait(), read() and write(). *)
(* Data is counted in units, an argument of echo with the separator after  *)
(* it; cat moves them one by one.  chdir() in the shell is left out.       *)
(***************************************************************************)
EXTENDS Integers, FiniteSetsExt, ShellParse

CONSTANTS
  NPROC,     \* slots of the process table
  NOFILE,    \* descriptors of a process
  NFILE,     \* open files of the system
  PIPESIZE,
  Files,     \* names of files
  Lines,     \* what may be typed: [text |-> tokens, means |-> command]
  MaxLines   \* bound: lines typed, with the ends of input

Pids    == 1 .. NPROC
Fds     == 0 .. NOFILE - 1
Pipes   == 1 .. NFILE
Console == "console"
Outs    == Files \union {Console}
initproc == 1

VARIABLES
  state,   \* "UNUSED", "RUN" or "ZOMBIE"
  parent,
  todo,    \* the system calls a process will make
  ofile,   \* p->ofile: numbers of open files, 0 for none
  ftable,  \* the open files
  pipes,   \* units in each pipe
  size,    \* units in each file, -1 where there is none; written to the console
  shell,   \* pid in main() of init
  typed,   \* lines typed so far
  want,    \* what size must be when all that was typed has run
  back,    \* a background command was typed
  failed   \* a table was full: fork(), pipe() or open() has failed

procVars == <<state, parent, ofile, shell>>
fileVars == <<ftable, pipes, size>>
userVars == <<typed, want, back>>
vars == <<procVars, todo, fileVars, userVars, failed>>

-----------------------------------------------------------------------------
(* Commands as system calls *)

Call(op, arg) == <<[op |-> op, arg |-> arg]>>
Exit == Call("exit", 0)

(* main() of echo, main() and cat() of cat; exec() of another name fails. *)
Program(argv) ==
  CASE argv[1] = "echo" -> Call("echo", Len(argv) - 1)
    [] argv[1] = "cat"  -> Call("read", 0)
    [] OTHER            -> Exit

RECURSIVE Runcmd(_)
Runcmd(c) ==
  CASE c.type = "panic" -> Exit
    [] c.type = "EXEC"  -> IF c.argv = <<>> THEN Exit ELSE Program(c.argv)
    [] c.type = "REDIR" -> Call("close", IF c.mode = "<" THEN 0 ELSE 1)
                             \o Call("open", [file |-> c.file, mode |-> c.mode])
                             \o Runcmd(c.cmd)
    [] c.type = "LIST"  -> Call("fork", Runcmd(c.left)) \o Call("wait", 0) \o Runcmd(c.right)
    [] c.type = "PIPE"  -> Call("pipe", [left |-> Runcmd(c.left), right |-> Runcmd(c.right)])
    [] c.type = "BACK"  -> Call("fork", Runcmd(c.cmd)) \o Exit

(* Mutants of Pipeline: one wait() only; the parent keeps the ends open. *)
PipelineOneWait(p0, p1, left, right) ==
  LET ends == Call("close", p0) \o Call("close", p1) IN
  Call("fork", Call("close", 1) \o Call("dup", p1) \o ends \o left)
    \o Call("fork", Call("close", 0) \o Call("dup", p0) \o ends \o right)
    \o ends \o Call("wait", 0) \o Exit

PipelineKeepsEnds(p0, p1, left, right) ==
  LET ends == Call("close", p0) \o Call("close", p1) IN
  Call("fork", Call("close", 1) \o Call("dup", p1) \o ends \o left)
    \o Call("fork", Call("close", 0) \o Call("dup", p0) \o ends \o right)
    \o Call("wait", 0) \o Call("wait", 0) \o Exit

(* The rest of the PIPE case, when pipe() has put its ends into p0 and p1. *)
Pipeline(p0, p1, left, right) ==
  LET ends == Call("close", p0) \o Call("close", p1) IN
  Call("fork", Call("close", 1) \o Call("dup", p1) \o ends \o left)
    \o Call("fork", Call("close", 0) \o Call("dup", p0) \o ends \o right)
    \o ends \o Call("wait", 0) \o Call("wait", 0) \o Exit

-----------------------------------------------------------------------------
(* The system calls *)

File(kind, id) == [kind |-> kind, id |-> id, off |-> 0]
NoFile == File("none", 0)

FreeFd(p) == Min({d \in Fds : ofile[p][d] = 0})
FreeFiles == {i \in 1 .. NFILE : ftable[i].kind = "none"}
FreeSlots == {p \in Pids : state[p] = "UNUSED"}

(* An end of pipe i is open. *)
Open(ft, kind, i) == \E e \in DOMAIN ft : ft[e].kind = kind /\ ft[e].id = i

Running(p, op) == state[p] = "RUN" /\ todo[p][1].op = op
Arg(p)  == todo[p][1].arg
Continue(p) == todo' = [todo EXCEPT ![p] = Tail(@)]

(* fileclose() of the files that of, the new value of ofile, has no more. *)
Drop(of) ==
  \E inUse \in {{of[p][d] : p \in Pids, d \in Fds}} :
  \E ft \in {[i \in 1 .. NFILE |-> IF i \in inUse THEN ftable[i] ELSE NoFile]} :
    /\ ofile' = of
    /\ ftable' = ft
    /\ pipes' = [i \in Pipes |-> IF Open(ft, "r", i) \/ Open(ft, "w", i) THEN pipes[i] ELSE 0]

Close(p) ==
  /\ Running(p, "close")
  /\ Drop([ofile EXCEPT ![p][Arg(p)] = 0])
  /\ Continue(p)
  /\ UNCHANGED <<state, parent, shell, size, userVars, failed>>

Dup(p) ==
  /\ Running(p, "dup")
  /\ ofile' = [ofile EXCEPT ![p][FreeFd(p)] = ofile[p][Arg(p)]]
  /\ Continue(p)
  /\ UNCHANGED <<state, parent, shell, fileVars, userVars, failed>>

(* open(); runcmd() exits when there is no file to read, or no free entry  *)
(* in the table (by then a new file has been made).                        *)
OpenFile(p) ==
  LET f == Arg(p).file
      e == Min(FreeFiles)
      missing == Arg(p).mode = "<" /\ size[f] < 0
  IN
  /\ Running(p, "open")
  /\ failed' = (failed \/ (~missing /\ FreeFiles = {}))
  /\ size' = [size EXCEPT ![f] = IF missing THEN @
                                 ELSE IF @ < 0 \/ (Arg(p).mode = ">" /\ FreeFiles # {}) THEN 0
                                 ELSE @]
  /\ IF missing \/ FreeFiles = {}
     THEN todo' = [todo EXCEPT ![p] = Exit] /\ UNCHANGED <<ofile, ftable>>
     ELSE /\ ftable' = [ftable EXCEPT ![e] = File("file", f)]
          /\ ofile' = [ofile EXCEPT ![p][FreeFd(p)] = e]
          /\ Continue(p)
  /\ UNCHANGED <<state, parent, shell, pipes, userVars>>

(* pipe(); runcmd() panics when there are not two free entries. *)
MakePipe(p) ==
  LET i  == Min({j \in Pipes : ~Open(ftable, "r", j) /\ ~Open(ftable, "w", j)})
      e0 == Min(FreeFiles)
      e1 == Min(FreeFiles \ {e0})
      p0 == FreeFd(p)
      p1 == Min({d \in Fds : ofile[p][d] = 0} \ {p0})
  IN
  /\ Running(p, "pipe")
  /\ IF Cardinality(FreeFiles) < 2
     THEN /\ todo' = [todo EXCEPT ![p] = Exit]
          /\ failed' = TRUE
          /\ UNCHANGED <<ftable, ofile>>
     ELSE /\ ftable' = [ftable EXCEPT ![e0] = File("r", i), ![e1] = File("w", i)]
          /\ ofile' = [ofile EXCEPT ![p][p0] = e0, ![p][p1] = e1]
          /\ todo' = [todo EXCEPT ![p] = Pipeline(p0, p1, Arg(p).left, Arg(p).right)]
          /\ UNCHANGED failed
  /\ UNCHANGED <<state, parent, shell, pipes, size, userVars>>

(* p makes the child q, which goes on with calls, and goes on with rest. *)
Child(p, q, calls, rest) ==
  /\ state' = [state EXCEPT ![q] = "RUN"]
  /\ parent' = [parent EXCEPT ![q] = p]
  /\ ofile' = [ofile EXCEPT ![q] = ofile[p]]
  /\ todo' = [todo EXCEPT ![q] = calls, ![p] = rest]

(* fork1(): without a slot the process panics. *)
Fork(p) ==
  /\ Running(p, "fork")
  /\ IF FreeSlots = {}
     THEN /\ todo' = [todo EXCEPT ![p] = Exit]
          /\ failed' = TRUE
          /\ UNCHANGED procVars
     ELSE /\ Child(p, Min(FreeSlots), Arg(p), Tail(todo[p]))
          /\ UNCHANGED <<shell, failed>>
  /\ UNCHANGED <<fileVars, userVars>>

Children(p) == {q \in Pids : state[q] # "UNUSED" /\ parent[q] = p}

(* wait(): of a child, or at once where there is none. *)
Wait(p) ==
  /\ Running(p, "wait")
  /\ IF Children(p) = {} THEN UNCHANGED state
     ELSE \E q \in Children(p) : state[q] = "ZOMBIE" /\ state' = [state EXCEPT ![q] = "UNUSED"]
  /\ Continue(p)
  /\ UNCHANGED <<parent, ofile, shell, fileVars, userVars, failed>>

ExitCall(p) ==
  /\ Running(p, "exit")
  /\ state' = [state EXCEPT ![p] = "ZOMBIE"]
  /\ parent' = [q \in Pids |-> IF parent[q] = p THEN initproc ELSE parent[q]]
  /\ Drop([ofile EXCEPT ![p] = [d \in Fds |-> 0]])
  /\ todo' = [todo EXCEPT ![p] = <<>>]
  /\ UNCHANGED <<shell, size, userVars, failed>>

-----------------------------------------------------------------------------
(* echo and cat *)

(* write() of a unit to descriptor 1 is not put off by a full pipe ... *)
CanWrite(f) == f.kind = "w" => ~Open(ftable, "r", f.id) \/ pipes[f.id] < PIPESIZE

(* ... and succeeds. *)
WriteOk(f) == f.kind = "w" => Open(ftable, "r", f.id)

Written(e) ==
  LET f == ftable[e] IN
  CASE f.kind = "w" /\ WriteOk(f) ->
         pipes' = [pipes EXCEPT ![f.id] = @ + 1] /\ UNCHANGED <<ftable, size>>
    [] f.kind = "tty" ->
         size' = [size EXCEPT ![Console] = @ + 1] /\ UNCHANGED <<ftable, pipes>>
    [] f.kind = "file" ->
         /\ ftable' = [ftable EXCEPT ![e].off = @ + 1]
         /\ size' = [size EXCEPT ![f.id] = IF f.off + 1 > @ THEN f.off + 1 ELSE @]
         /\ UNCHANGED pipes
    [] OTHER -> UNCHANGED fileVars

(* echo writes its arguments, whatever write() returns. *)
EchoWrite(p) ==
  LET e == ofile[p][1] IN
  /\ Running(p, "echo")
  /\ IF Arg(p) = 0
     THEN todo' = [todo EXCEPT ![p] = Exit] /\ UNCHANGED fileVars
     ELSE /\ CanWrite(ftable[e])
          /\ Written(e)
          /\ todo' = [todo EXCEPT ![p][1].arg = @ - 1]
  /\ UNCHANGED <<procVars, userVars, failed>>

(* read() of descriptor 0 in cat(): a unit, or the end. *)
CatRead(p) ==
  LET e == ofile[p][0]
      f == ftable[e]
  IN
  /\ Running(p, "read")
  /\ \/ /\ f.kind = "r" /\ pipes[f.id] > 0
        /\ pipes' = [pipes EXCEPT ![f.id] = @ - 1]
        /\ todo' = [todo EXCEPT ![p] = Call("write", 0)]
        /\ UNCHANGED <<ftable, size>>
     \/ /\ f.kind = "file" /\ f.off < size[f.id]
        /\ ftable' = [ftable EXCEPT ![e].off = @ + 1]
        /\ todo' = [todo EXCEPT ![p] = Call("write", 0)]
        /\ UNCHANGED <<pipes, size>>
     \/ /\ \/ f.kind = "r" /\ pipes[f.id] = 0 /\ ~Open(ftable, "w", f.id)
           \/ f.kind = "file" /\ f.off >= size[f.id]
        /\ todo' = [todo EXCEPT ![p] = Exit]
        /\ UNCHANGED fileVars
  /\ UNCHANGED <<procVars, userVars, failed>>

CatWrite(p) ==
  LET e == ofile[p][1] IN
  /\ Running(p, "write")
  /\ CanWrite(ftable[e])
  /\ Written(e)
  /\ todo' = [todo EXCEPT ![p] = IF WriteOk(ftable[e]) THEN Call("read", 0) ELSE Exit]
  /\ UNCHANGED <<procVars, userVars, failed>>

-----------------------------------------------------------------------------
(* What a command line means, for comparison: c, with in units on its      *)
(* standard input and the files sz, writes out units to its standard       *)
(* output, leaves left of the input and changes the files.                 *)
RECURSIVE Meaning(_, _, _)
Meaning(c, in, sz) ==
  CASE c.type = "EXEC" /\ c.argv # <<>> /\ c.argv[1] = "echo" ->
         [out |-> Len(c.argv) - 1, left |-> in, sz |-> sz]
    [] c.type = "EXEC" /\ c.argv # <<>> /\ c.argv[1] = "cat" ->
         [out |-> in, left |-> 0, sz |-> sz]
    [] c.type = "REDIR" /\ c.mode = "<" /\ sz[c.file] >= 0 ->
         [Meaning(c.cmd, sz[c.file], sz) EXCEPT !.left = in]
    [] c.type = "REDIR" /\ c.mode # "<" ->
         LET kept == IF c.mode = ">" \/ sz[c.file] < 0 THEN 0 ELSE sz[c.file]
             m    == Meaning(c.cmd, in, [sz EXCEPT ![c.file] = kept])
         IN [m EXCEPT !.out = 0, !.sz[c.file] = IF m.out > @ THEN m.out ELSE @]
    [] c.type = "LIST" ->
         LET l == Meaning(c.left, in, sz)
             r == Meaning(c.right, l.left, l.sz)
         IN [r EXCEPT !.out = @ + l.out]
    [] c.type = "PIPE" ->
         LET l == Meaning(c.left, in, sz)
         IN [Meaning(c.right, l.out, l.sz) EXCEPT !.left = l.left]
    [] c.type = "BACK" -> Meaning(c.cmd, in, sz)
    [] OTHER -> [out |-> 0, left |-> in, sz |-> sz]

RECURSIVE HasBack(_)
HasBack(c) ==
  CASE c.type = "BACK"             -> TRUE
    [] c.type \in {"LIST", "PIPE"} -> HasBack(c.left) \/ HasBack(c.right)
    [] c.type = "REDIR"            -> HasBack(c.cmd)
    [] OTHER                       -> FALSE

-----------------------------------------------------------------------------
(* main() of the shell *)

GetLine(p, l) ==
  LET m == Meaning(l.means, 0, want) IN
  /\ Running(p, "getcmd") /\ typed < MaxLines
  /\ todo' = [todo EXCEPT ![p] = Call("fork", Runcmd(Parsecmd(l.text))) \o Call("wait", 0) \o @]
  /\ typed' = typed + 1
  /\ want' = [m.sz EXCEPT ![Console] = @ + m.out]
  /\ back' = (back \/ HasBack(l.means))
  /\ UNCHANGED <<procVars, fileVars, failed>>

EndOfInput(p) ==
  /\ Running(p, "getcmd") /\ typed < MaxLines
  /\ todo' = [todo EXCEPT ![p] = Exit]
  /\ typed' = typed + 1
  /\ UNCHANGED <<procVars, fileVars, want, back, failed>>

(* main() of init *)

StartShell ==
  /\ Running(initproc, "start") /\ FreeSlots # {}
  /\ Child(initproc, Min(FreeSlots), Call("getcmd", 0), Call("reap", 0))
  /\ shell' = Min(FreeSlots)
  /\ UNCHANGED <<fileVars, userVars, failed>>

(* init reaps its shell, to start it again, or a parentless process. *)
Reap ==
  /\ Running(initproc, "reap")
  /\ \E q \in Children(initproc) :
       /\ state[q] = "ZOMBIE"
       /\ state' = [state EXCEPT ![q] = "UNUSED"]
       /\ todo' = [todo EXCEPT ![initproc] = Call(IF q = shell THEN "start" ELSE "reap", 0)]
  /\ UNCHANGED <<parent, ofile, shell, fileVars, userVars, failed>>

-----------------------------------------------------------------------------
(* The console is open as 0, 1 and 2 in init. *)
Init ==
  /\ state = [p \in Pids |-> IF p = initproc THEN "RUN" ELSE "UNUSED"]
  /\ parent = [p \in Pids |-> initproc]
  /\ todo = [p \in Pids |-> IF p = initproc THEN Call("start", 0) ELSE <<>>]
  /\ ofile = [p \in Pids |-> [d \in Fds |-> IF p = initproc /\ d <= 2 THEN 1 ELSE 0]]
  /\ ftable = [i \in 1 .. NFILE |-> IF i = 1 THEN File("tty", 0) ELSE NoFile]
  /\ pipes = [i \in Pipes |-> 0]
  /\ size = [f \in Outs |-> IF f = Console THEN 0 ELSE -1]
  /\ shell = 0
  /\ typed = 0 /\ want = size /\ back = FALSE /\ failed = FALSE

Step(p) ==
  \/ Close(p) \/ Dup(p) \/ OpenFile(p) \/ MakePipe(p) \/ Fork(p) \/ Wait(p) \/ ExitCall(p)
  \/ EchoWrite(p) \/ CatRead(p) \/ CatWrite(p)

Type(p) == EndOfInput(p) \/ \E l \in Lines : GetLine(p, l)

Next ==
  \/ \E p \in Pids : Step(p) \/ Type(p)
  \/ StartShell \/ Reap

(* scheduler() runs every process that can run; nobody need type. *)
Spec ==
  /\ Init /\ [][Next]_vars
  /\ \A p \in Pids : WF_vars(Step(p))
  /\ WF_vars(StartShell \/ Reap)

-----------------------------------------------------------------------------
(* Properties *)

AtPrompt == shell # 0 /\ Running(shell, "getcmd")

Alone == \A p \in Pids \ {initproc, shell} : state[p] = "UNUSED"

(* When the shell asks for a line, and a background command is over, the   *)
(* console and the files have what the lines typed so far mean: parsecmd() *)
(* understood them, runcmd() joined the right ends of pipes and files in   *)
(* the right order, wait() waited for all of the line.                     *)
RunsAsWritten == AtPrompt /\ ~failed /\ (back => Alone) => size = want

(* The shell always comes back to its prompt: every reader of a pipe sees  *)
(* its end, every writer goes on, though fork() fails half way, and init   *)
(* starts the shell again after it exits (runcmd, main of sh and of init). *)
PromptReturns == []<>AtPrompt
=============================================================================
