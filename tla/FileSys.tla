------------------------------- MODULE FileSys -------------------------------
(***************************************************************************)
(* The file system calls of kernel/sysfile.c, the inode table of           *)
(* kernel/fs/fs.c and the file table of kernel/fs/file.c, used by several  *)
(* processes at once, with crashes.                                        *)
(*                                                                         *)
(* A process keeps a stack k of what its call still has to do: each frame  *)
(* has a step (op), the inode table slots it holds references to (s) and   *)
(* arguments (a).  A step runs from one acquiresleep() of an inode to the  *)
(* next; inside it the inodes at hand are locked, and what it does to the  *)
(* inode table, the bitmap and the file table is short and atomic there.   *)
(* The log is what module AtomicDisk says: a crash falls back to the image *)
(* as it was when no operation was in progress.  begin_op() may wait, but  *)
(* its callers hold no lock.                                               *)
(***************************************************************************)
EXTENDS FsImage, Naturals, Sequences, FiniteSets

CONSTANTS
  Procs, NoProc,
  NINODE,       \* slots of the inode table
  NFILE,        \* slots of the file table
  NOFILE,       \* descriptors of a process
  MAXOPBLOCKS,  \* blocks that one operation may write
  Files, Dirs,  \* names that mkfs, and mkdir in an earlier session, made
  Menu,         \* the calls with paths that processes make
  Sizes,        \* units that one read() or write() asks for
  MaxCalls,     \* bound: number of calls
  MaxCrashes    \* bound: number of crashes

VARIABLES
  fs,           \* the image, as the buffer cache and the log show it
  disk,         \* the image that a crash falls back to
  outstanding,  \* operations in progress
  wrote,        \* blocks that each process's operation has logged
  itable,       \* slot -> inum, ref, valid and the copy d of the inode
  lk,           \* slot -> who holds its sleep-lock
  ftable,       \* struct file: ref, type, ip, off, writable
  ofile, cwd,   \* of each process
  k,            \* stack of each process
  ret,          \* inode that namex() or create() returned, 0 if none
  calls, crashes

imgVars  == <<fs, wrote>>
logVars  == <<disk, outstanding>>
inoVars  == <<itable, lk>>
fileVars == <<ftable, ofile, cwd>>
bounds   == <<calls, crashes>>
vars     == <<imgVars, logVars, inoVars, fileVars, k, ret, bounds>>

Slots == 1 .. NINODE
Fds   == 1 .. NOFILE

NoSlot == [inum |-> 0, ref |-> 0, valid |-> FALSE, d |-> FreeInode]
NoFile == [ref |-> 0, type |-> "none", ip |-> 0, off |-> 0, writable |-> FALSE]

Image(x) == [ino |-> x.ino, used |-> x.used, data |-> x.data]

Each(v) == [p \in Procs |-> v]

(* Processes that init has started: their current directory is the root. *)
BootTable == [s \in Slots |->
                IF s = 1 THEN [NoSlot EXCEPT !.inum = ROOTINO, !.ref = Cardinality(Procs)]
                         ELSE NoSlot]

Mkdir(x, name) == Create([x EXCEPT !.d = x.ino[ROOTINO]], ROOTINO, name, "dir")

Init ==
  /\ fs = Image(FoldLeft(Mkdir, Mkfs(Files), Dirs)) /\ disk = fs
  /\ outstanding = 0 /\ wrote = Each({})
  /\ itable = BootTable /\ lk = [s \in Slots |-> NoProc]
  /\ ftable = [f \in 1 .. NFILE |-> NoFile]
  /\ ofile = Each([fd \in Fds |-> 0]) /\ cwd = Each(1)
  /\ k = Each(<<>>) /\ ret = Each(0)
  /\ calls = 0 /\ crashes = 0

Crash ==
  /\ crashes < MaxCrashes /\ crashes' = crashes + 1
  /\ fs' = disk
  /\ outstanding' = 0 /\ wrote' = Each({})
  /\ itable' = BootTable /\ lk' = [s \in Slots |-> NoProc]
  /\ ftable' = [f \in 1 .. NFILE |-> NoFile]
  /\ ofile' = Each([fd \in Fds |-> 0]) /\ cwd' = Each(1)
  /\ k' = Each(<<>>) /\ ret' = Each(0)
  /\ UNCHANGED <<disk, calls>>

-----------------------------------------------------------------------------
Fr(op, s, a) == [op |-> op, s |-> s, a |-> a]
At(p, op)    == k[p] # <<>> /\ k[p][1].op = op
S(p)         == k[p][1].s
A(p)         == k[p][1].a
Goto(p, frames) == k' = [k EXCEPT ![p] = frames \o Tail(@)]
Return(p, s)    == ret' = [ret EXCEPT ![p] = s]

BeginOp    == Fr("begin", <<>>, <<>>)
EndOp      == Fr("end", <<>>, <<>>)
Put(s)     == Fr("put", <<s>>, <<>>)

(* iget(): the slot, and the table afterwards. *)
Hits(t, inum) == {s \in Slots : t[s].ref > 0 /\ t[s].inum = inum}

IgetSlot(t, inum) ==
  IF Hits(t, inum) # {} THEN Min(Hits(t, inum)) ELSE Min({s \in Slots : t[s].ref = 0})

Iget(t, inum) ==
  [t EXCEPT ![IgetSlot(t, inum)] =
     IF Hits(t, inum) # {} THEN [@ EXCEPT !.ref = @ + 1]
     ELSE [NoSlot EXCEPT !.inum = inum, !.ref = 1]]

(* ilock() can return: the inode as it then is in memory. *)
Unlocked(s) == lk[s] = NoProc
D(s) == IF itable[s].valid THEN itable[s].d ELSE fs.ino[itable[s].inum]
Hold(t, s, d) == [t EXCEPT ![s].valid = TRUE, ![s].d = d]

(* The image with slot s's inode at hand, and the effect of a step on it. *)
X(d) == [ino |-> fs.ino, used |-> fs.used, data |-> fs.data, d |-> d, log |-> {}]

Logged(p, x) ==
  /\ fs' = Image(x)
  /\ wrote' = [wrote EXCEPT ![p] = @ \union x.log]

-----------------------------------------------------------------------------
(* begin_op() and end_op(): the last operation commits. *)

Begin(p) ==
  /\ At(p, "begin")
  /\ outstanding' = outstanding + 1
  /\ Goto(p, <<>>)
  /\ UNCHANGED <<imgVars, disk, inoVars, fileVars, ret, bounds>>

End(p) ==
  /\ At(p, "end")
  /\ outstanding' = outstanding - 1
  /\ disk' = IF outstanding = 1 THEN fs ELSE disk
  /\ wrote' = [wrote EXCEPT ![p] = {}]
  /\ Goto(p, <<>>)
  /\ UNCHANGED <<fs, inoVars, fileVars, ret, bounds>>

-----------------------------------------------------------------------------
(* iput(): the last reference to an inode without links frees it. *)

(* Mutant of LastPut: other references to the inode are not looked at. *)
AnyPut(s) == itable[s].valid /\ itable[s].d.nlink = 0

LastPut(s) == itable[s].ref = 1 /\ itable[s].valid /\ itable[s].d.nlink = 0

Unref(t, s) ==
  IF t[s].ref = 1 THEN [t EXCEPT ![s] = NoSlot] ELSE [t EXCEPT ![s].ref = @ - 1]

Iput(p) ==
  /\ At(p, "put")
  /\ LET s == S(p)[1] IN
     IF LastPut(s)
       THEN /\ Unlocked(s)
            /\ lk' = [lk EXCEPT ![s] = p]
            /\ Goto(p, <<Fr("free", <<s>>, <<>>)>>)
            /\ UNCHANGED itable
       ELSE /\ itable' = Unref(itable, s)
            /\ Goto(p, <<>>)
            /\ UNCHANGED lk
  /\ UNCHANGED <<imgVars, logVars, fileVars, ret, bounds>>

(* Mutant of Freed: valid is not reset. *)
FreedStaysValid(t, s) == t

Freed(t, s) == [t EXCEPT ![s].valid = FALSE, ![s].d = FreeInode]

IputFree(p) ==
  /\ At(p, "free")
  /\ LET s == S(p)[1]
         inum == itable[s].inum
         x == Itrunc(X(D(s)), inum)
     IN /\ Logged(p, Iupdate([x EXCEPT !.d.type = ""], inum))
        /\ itable' = Freed(itable, s)
        /\ lk' = [lk EXCEPT ![s] = NoProc]
        /\ Goto(p, <<Fr("unref", <<s>>, <<>>)>>)
  /\ UNCHANGED <<logVars, fileVars, ret, bounds>>

IputUnref(p) ==
  /\ At(p, "unref")
  /\ itable' = Unref(itable, S(p)[1])
  /\ Goto(p, <<>>)
  /\ UNCHANGED <<imgVars, logVars, lk, fileVars, ret, bounds>>

(* iunlock() of an inode that has been locked over several steps. *)
Iunlock(p) ==
  /\ At(p, "unlockput")
  /\ lk' = [lk EXCEPT ![S(p)[1]] = NoProc]
  /\ Goto(p, <<Put(S(p)[1])>>)
  /\ UNCHANGED <<imgVars, logVars, itable, fileVars, ret, bounds>>

-----------------------------------------------------------------------------
(* namex() *)

(* The inode to start from, the table once it is held, and the walk. *)
Absolute(path) == Head(path) = "/"

From(p, t, path) == IF Absolute(path) THEN IgetSlot(t, ROOTINO) ELSE cwd[p]

Started(p, t, path) == IF Absolute(path) THEN Iget(t, ROOTINO) ELSE [t EXCEPT ![cwd[p]].ref = @ + 1]

Namex(p, t, path, parent) ==
  Fr("walk", <<From(p, t, path)>>,
     [path |-> IF Absolute(path) THEN Tail(path) ELSE path, parent |-> parent])

(* The path is at its end. *)
NamexEnd(p) ==
  /\ At(p, "walk") /\ A(p).path = <<>>
  /\ Return(p, IF A(p).parent THEN 0 ELSE S(p)[1])
  /\ Goto(p, IF A(p).parent THEN <<Put(S(p)[1])>> ELSE <<>>)
  /\ UNCHANGED <<imgVars, logVars, inoVars, fileVars, bounds>>

(* One element: ilock(), dirlookup(), iunlockput(). *)
NamexElem(p) ==
  /\ At(p, "walk") /\ A(p).path # <<>>
  /\ LET s == S(p)[1]
         path == A(p).path
         t == Hold(itable, s, D(s))
         next == IF D(s).type = "dir" THEN Dirlookup(fs, D(s), Head(path)) ELSE 0
     IN /\ Unlocked(s)
        /\ IF D(s).type = "dir" /\ A(p).parent /\ Len(path) = 1
             THEN itable' = t /\ Return(p, s) /\ Goto(p, <<>>)
           ELSE IF next = 0
             THEN itable' = t /\ Return(p, 0) /\ Goto(p, <<Put(s)>>)
             ELSE /\ itable' = Iget(t, next)
                  /\ Goto(p, <<Put(s), Fr("walk", <<IgetSlot(t, next)>>,
                                          [A(p) EXCEPT !.path = Tail(path)])>>)
                  /\ UNCHANGED ret
  /\ UNCHANGED <<imgVars, logVars, lk, fileVars, bounds>>

(* The caller of namex() or create() gives up when it returned 0. *)
Failed(p) ==
  /\ k[p] # <<>> /\ k[p][1].op \in {"create", "made", "open", "unlink", "link", "chdir"}
  /\ ret[p] = 0
  /\ Goto(p, <<>>)
  /\ UNCHANGED <<imgVars, logVars, inoVars, fileVars, ret, bounds>>

-----------------------------------------------------------------------------
(* create(): the directory is ret[p]; the inode is returned locked. *)

CreateFound(p) ==
  /\ At(p, "create") /\ ret[p] # 0 /\ Unlocked(ret[p])
  /\ LET dp == ret[p]
         inum == Dirlookup(fs, D(dp), A(p).name)
         t == Hold(itable, dp, D(dp))
     IN /\ inum # 0
        /\ itable' = Iget(t, inum)
        /\ Goto(p, <<Put(dp), Fr("found", <<IgetSlot(t, inum)>>, A(p))>>)
  /\ Return(p, 0)
  /\ UNCHANGED <<imgVars, logVars, lk, fileVars, bounds>>

CreateCheck(p) ==
  /\ At(p, "found") /\ Unlocked(S(p)[1])
  /\ LET ip == S(p)[1] IN
     /\ itable' = Hold(itable, ip, D(ip))
     /\ IF A(p).type = "file" /\ D(ip).type \in {"file", "dev"}
          THEN lk' = [lk EXCEPT ![ip] = p] /\ Return(p, ip) /\ Goto(p, <<>>)
          ELSE Goto(p, <<Put(ip)>>) /\ UNCHANGED <<lk, ret>>
  /\ UNCHANGED <<imgVars, logVars, fileVars, bounds>>

CreateNew(p) ==
  /\ At(p, "create") /\ ret[p] # 0 /\ Unlocked(ret[p])
  /\ LET dp == ret[p]
         x == Create(X(D(dp)), itable[dp].inum, A(p).name, A(p).type)
         inum == NewInum(fs)
         t == Hold(itable, dp, x.d)
         ip == IgetSlot(t, inum)
     IN /\ Dirlookup(fs, D(dp), A(p).name) = 0
        /\ Unlocked(ip)
        /\ Logged(p, x)
        /\ itable' = Hold(Iget(t, inum), ip, x.ino[inum])
        /\ lk' = [lk EXCEPT ![ip] = p]
        /\ Return(p, ip)
        /\ Goto(p, <<Put(dp)>>)
  /\ UNCHANGED <<logVars, fileVars, bounds>>

(* sys_mkdir() and sys_mknod() end with iunlockput(). *)
Made(p) ==
  /\ At(p, "made") /\ ret[p] # 0
  /\ lk' = [lk EXCEPT ![ret[p]] = NoProc]
  /\ Return(p, 0)
  /\ Goto(p, <<Put(ret[p])>>)
  /\ UNCHANGED <<imgVars, logVars, itable, fileVars, bounds>>

-----------------------------------------------------------------------------
(* sys_open(), after namei() or create(). *)

FreeFiles   == {f \in 1 .. NFILE : ftable[f].ref = 0}
FreeFds(p)  == {fd \in Fds : ofile[p][fd] = 0}
MayOpen(p, c) == IF c.create THEN lk[ret[p]] = p ELSE Unlocked(ret[p])

(* A directory opened for writing, a device number out of range, or no     *)
(* file or descriptor left.                                                *)
OpenFails(p, c) ==
  LET ip == ret[p] IN
  /\ At(p, "open") /\ A(p) = c /\ ip # 0 /\ MayOpen(p, c)
  /\ \/ ~c.create /\ D(ip).type = "dir" /\ (c.write \/ c.trunc)
     \/ D(ip).type = "dev"
     \/ FreeFiles = {} \/ FreeFds(p) = {}
  /\ itable' = Hold(itable, ip, D(ip))
  /\ lk' = [lk EXCEPT ![ip] = NoProc]
  /\ Return(p, 0)
  /\ Goto(p, <<Put(ip)>>)
  /\ UNCHANGED <<imgVars, logVars, fileVars, bounds>>

Open(p, c) ==
  LET ip == ret[p]
      x == IF c.trunc /\ D(ip).type = "file" THEN Itrunc(X(D(ip)), itable[ip].inum)
           ELSE X(D(ip))
      f == Min(FreeFiles)
  IN
  /\ At(p, "open") /\ A(p) = c /\ ip # 0 /\ MayOpen(p, c)
  /\ D(ip).type = "dir" => c.create \/ ~(c.write \/ c.trunc)
  /\ FreeFiles # {} /\ FreeFds(p) # {}
  /\ Logged(p, x)
  /\ itable' = Hold(itable, ip, x.d)
  /\ lk' = [lk EXCEPT ![ip] = NoProc]
  /\ ftable' = [ftable EXCEPT ![f] =
       [ref |-> 1, type |-> IF D(ip).type = "dev" THEN "device" ELSE "inode",
        ip |-> ip, off |-> 0, writable |-> c.write]]
  /\ ofile' = [ofile EXCEPT ![p][Min(FreeFds(p))] = f]
  /\ Return(p, 0)
  /\ Goto(p, <<>>)
  /\ UNCHANGED <<logVars, cwd, bounds>>

-----------------------------------------------------------------------------
(* sys_unlink(): dp = ret[p], and then dp stays locked while ip is. *)

(* Mutant of Dots: any name can be unlinked. *)
NoDots == {}

Dots == {".", ".."}

UnlinkLookup(p) ==
  /\ At(p, "unlink") /\ ret[p] # 0 /\ Unlocked(ret[p])
  /\ LET dp == ret[p]
         name == A(p)
         t == Hold(itable, dp, D(dp))
         inum == Dirlookup(fs, D(dp), name)
     IN IF name \in Dots \/ inum = 0
          THEN itable' = t /\ Goto(p, <<Put(dp)>>) /\ UNCHANGED lk
          ELSE /\ itable' = Iget(t, inum)
               /\ lk' = [lk EXCEPT ![dp] = p]
               /\ Goto(p, <<Fr("unlink2", <<dp, IgetSlot(t, inum)>>, name)>>)
  /\ Return(p, 0)
  /\ UNCHANGED <<imgVars, logVars, fileVars, bounds>>

UnlinkBusy(p) ==
  /\ At(p, "unlink2") /\ Unlocked(S(p)[2])
  /\ LET dp == S(p)[1]
         ip == S(p)[2]
     IN /\ D(ip).type = "dir" /\ ~Isdirempty(fs, D(ip))
        /\ itable' = Hold(itable, ip, D(ip))
        /\ Goto(p, <<Put(ip), Fr("unlockput", <<dp>>, <<>>)>>)
  /\ UNCHANGED <<imgVars, logVars, lk, fileVars, ret, bounds>>

UnlinkEntry(p) ==
  /\ At(p, "unlink2") /\ Unlocked(S(p)[2])
  /\ LET dp == S(p)[1]
         ip == S(p)[2]
         dir == D(ip).type = "dir"
         x == Writei(X(D(dp)), itable[dp].inum, Poff(fs, D(dp), A(p)), <<Zero>>)
         y == IF dir THEN Iupdate([x EXCEPT !.d.nlink = @ - 1], itable[dp].inum) ELSE x
     IN /\ dir => Isdirempty(fs, D(ip))
        /\ D(ip).nlink >= 1
        /\ Logged(p, y)
        /\ itable' = Hold(Hold(itable, ip, D(ip)), dp, y.d)
        /\ lk' = [lk EXCEPT ![dp] = NoProc, ![ip] = p]
        /\ Goto(p, <<Put(dp), Fr("unlink3", <<ip>>, <<>>)>>)
  /\ UNCHANGED <<logVars, fileVars, ret, bounds>>

(* nlink-- and iupdate() of slot s, then iunlockput(). *)
DropLink(p, s) ==
  LET x == Iupdate([X(D(s)) EXCEPT !.d.nlink = @ - 1], itable[s].inum) IN
  /\ Logged(p, x)
  /\ itable' = Hold(itable, s, x.d)
  /\ lk' = [lk EXCEPT ![s] = NoProc]
  /\ Goto(p, <<Put(s)>>)
  /\ UNCHANGED <<logVars, fileVars, ret, bounds>>

UnlinkInode(p) == At(p, "unlink3") /\ DropLink(p, S(p)[1])

-----------------------------------------------------------------------------
(* sys_link() *)

Link(p) ==
  /\ At(p, "link") /\ ret[p] # 0 /\ Unlocked(ret[p])
  /\ LET ip == ret[p]
         x == Iupdate([X(D(ip)) EXCEPT !.d.nlink = @ + 1], itable[ip].inum)
         t == Hold(itable, ip, x.d)
     IN IF D(ip).type = "dir"
          THEN /\ itable' = Hold(itable, ip, D(ip))
               /\ Goto(p, <<Put(ip)>>)
               /\ UNCHANGED imgVars
          ELSE /\ Logged(p, x)
               /\ itable' = Started(p, t, A(p))
               /\ Goto(p, <<Namex(p, t, A(p), TRUE), Fr("link2", <<ip>>, Last(A(p)))>>)
  /\ Return(p, 0)
  /\ UNCHANGED <<logVars, lk, fileVars, bounds>>

LinkNoParent(p) ==
  /\ At(p, "link2") /\ ret[p] = 0
  /\ Goto(p, <<Fr("linkbad", S(p), <<>>)>>)
  /\ UNCHANGED <<imgVars, logVars, inoVars, fileVars, ret, bounds>>

LinkEntry(p) ==
  /\ At(p, "link2") /\ ret[p] # 0 /\ Unlocked(ret[p])
  /\ LET dp == ret[p]
         ip == S(p)[1]
         x == Dirlink(X(D(dp)), itable[dp].inum, A(p), itable[ip].inum)
     IN IF Dirlookup(fs, D(dp), A(p)) # 0
          THEN /\ itable' = Hold(itable, dp, D(dp))
               /\ Goto(p, <<Put(dp), Fr("linkbad", S(p), <<>>)>>)
               /\ UNCHANGED imgVars
          ELSE /\ Logged(p, x)
               /\ itable' = Hold(itable, dp, x.d)
               /\ Goto(p, <<Put(dp), Put(ip)>>)
  /\ Return(p, 0)
  /\ UNCHANGED <<logVars, lk, fileVars, bounds>>

LinkBad(p) == At(p, "linkbad") /\ Unlocked(S(p)[1]) /\ DropLink(p, S(p)[1])

(* sys_chdir(); nobody else looks at p->cwd. *)
Chdir(p) ==
  /\ At(p, "chdir") /\ ret[p] # 0 /\ Unlocked(ret[p])
  /\ LET ip == ret[p] IN
     /\ itable' = Hold(itable, ip, D(ip))
     /\ IF D(ip).type = "dir"
          THEN cwd' = [cwd EXCEPT ![p] = ip] /\ Goto(p, <<Put(cwd[p])>>)
          ELSE Goto(p, <<Put(ip)>>) /\ UNCHANGED cwd
  /\ Return(p, 0)
  /\ UNCHANGED <<imgVars, logVars, lk, ftable, ofile, bounds>>

-----------------------------------------------------------------------------
(* Open files *)

(* The steps of a call with a path, after its begin_op() and namex().  *)
Creates(c) == c.op \in {"dir", "dev"} \/ (c.op = "open" /\ c.create)
Parent(c)  == Creates(c) \/ c.op = "unlink"

CreateFrame(c) == Fr("create", <<>>, [name |-> Last(c.path),
                                      type |-> IF c.op = "open" THEN "file" ELSE c.op])

Program(c) ==
  (IF Creates(c) THEN <<CreateFrame(c)>> ELSE <<>>) \o
  (CASE c.op = "open"   -> <<Fr("open", <<>>, c)>>
     [] c.op = "unlink" -> <<Fr("unlink", <<>>, Last(c.path))>>
     [] c.op = "link"   -> <<Fr("link", <<>>, c.new)>>
     [] c.op = "chdir"  -> <<Fr("chdir", <<>>, <<>>)>>
     [] OTHER           -> <<Fr("made", <<>>, <<>>)>>) \o <<EndOp>>

Idle(p) == k[p] = <<>> /\ cwd[p] # 0 /\ calls < MaxCalls
Counted == calls' = calls + 1 /\ UNCHANGED crashes

(* argfd(): the file of a descriptor, 0 if it is not open. *)
Argfd(p, fd) == ofile[p][fd]

Call(p, c) ==
  /\ Idle(p) /\ Counted
  /\ outstanding' = outstanding + 1
  /\ itable' = Started(p, itable, c.path)
  /\ k' = [k EXCEPT ![p] = <<Namex(p, itable, c.path, Parent(c))>> \o Program(c)]
  /\ UNCHANGED <<imgVars, disk, lk, fileVars, ret>>

(* sys_close() *)
Close(p, fd) ==
  /\ Idle(p) /\ Counted /\ Argfd(p, fd) # 0
  /\ ofile' = [ofile EXCEPT ![p][fd] = 0]
  /\ k' = [k EXCEPT ![p] = <<Fr("fclose", <<>>, Argfd(p, fd))>>]
  /\ UNCHANGED <<imgVars, logVars, inoVars, ftable, cwd, ret>>

(* exit(): the descriptors, and the current directory. *)
Exit(p) ==
  /\ Idle(p) /\ Counted
  /\ ofile' = [ofile EXCEPT ![p] = [fd \in Fds |-> 0]]
  /\ cwd' = [cwd EXCEPT ![p] = 0]
  /\ k' = [k EXCEPT ![p] =
       [i \in 1 .. NOFILE |-> Fr("fclose", <<>>, ofile[p][i])]
         \o <<BeginOp, Put(cwd[p]), EndOp>>]
  /\ UNCHANGED <<imgVars, logVars, inoVars, ftable, ret>>

Fileclose(p) ==
  /\ At(p, "fclose")
  /\ LET f == A(p) IN
     IF f = 0 THEN Goto(p, <<>>) /\ UNCHANGED ftable
     ELSE IF ftable[f].ref > 1
       THEN ftable' = [ftable EXCEPT ![f].ref = @ - 1] /\ Goto(p, <<>>)
       ELSE /\ ftable' = [ftable EXCEPT ![f] = NoFile]
            /\ Goto(p, IF ftable[f].type \in {"inode", "device"}
                         THEN <<BeginOp, Put(ftable[f].ip), EndOp>> ELSE <<>>)
  /\ UNCHANGED <<imgVars, logVars, inoVars, ofile, cwd, ret, bounds>>

(* sys_dup() *)
Dup(p, fd) ==
  /\ Idle(p) /\ Counted /\ Argfd(p, fd) # 0 /\ FreeFds(p) # {}
  /\ ofile' = [ofile EXCEPT ![p][Min(FreeFds(p))] = Argfd(p, fd)]
  /\ ftable' = [ftable EXCEPT ![Argfd(p, fd)].ref = @ + 1]
  /\ UNCHANGED <<imgVars, logVars, inoVars, cwd, k, ret>>

(* sys_pipe(): two files, or none. *)
Pipe(p) ==
  /\ Idle(p) /\ Counted
  /\ Cardinality(FreeFiles) >= 2 /\ Cardinality(FreeFds(p)) >= 2
  /\ LET rf == Min(FreeFiles)
         wf == Min(FreeFiles \ {rf})
         fd0 == Min(FreeFds(p))
         fd1 == Min(FreeFds(p) \ {fd0})
         end(w) == [NoFile EXCEPT !.ref = 1, !.type = "pipe", !.writable = w]
     IN /\ ftable' = [ftable EXCEPT ![rf] = end(FALSE), ![wf] = end(TRUE)]
        /\ ofile' = [ofile EXCEPT ![p][fd0] = rf, ![p][fd1] = wf]
  /\ UNCHANGED <<imgVars, logVars, inoVars, cwd, k, ret>>

(* fork(): the child c shares the open files and the directory. *)
Fork(p, c) ==
  /\ Idle(p) /\ Counted /\ cwd[c] = 0 /\ k[c] = <<>>
  /\ ofile' = [ofile EXCEPT ![c] = ofile[p]]
  /\ cwd' = [cwd EXCEPT ![c] = cwd[p]]
  /\ ftable' = [f \in 1 .. NFILE |-> [ftable[f] EXCEPT
       !.ref = @ + Cardinality({fd \in Fds : ofile[p][fd] = f})]]
  /\ itable' = [itable EXCEPT ![cwd[p]].ref = @ + 1]
  /\ UNCHANGED <<imgVars, logVars, lk, k, ret>>

(* fileread() of n units: readi() moves the offset. *)
Fileread(p, fd, n) ==
  LET f == Argfd(p, fd)
      ip == ftable[f].ip
      left == D(ip).size - ftable[f].off
  IN
  /\ Idle(p) /\ Counted /\ f # 0
  /\ ftable[f].type = "inode" /\ Unlocked(ip) /\ left > 0
  /\ itable' = Hold(itable, ip, D(ip))
  /\ ftable' = [ftable EXCEPT ![f].off = @ + Min({n, left})]
  /\ UNCHANGED <<imgVars, logVars, lk, ofile, cwd, k, ret>>

(* filewrite() of n units, a few blocks at a time. *)
Write(p, fd, n) ==
  /\ Idle(p) /\ Counted /\ Argfd(p, fd) # 0
  /\ ftable[Argfd(p, fd)].type = "inode" /\ ftable[Argfd(p, fd)].writable
  /\ k' = [k EXCEPT ![p] = <<Fr("fwrite", <<>>, [f |-> Argfd(p, fd), n |-> n])>>]
  /\ UNCHANGED <<imgVars, logVars, inoVars, fileVars, ret>>

(* Mutant of MaxChunk: no limit. *)
MaxChunkAll == MAXFILE * BSIZE

MaxChunk == ((MAXOPBLOCKS - 1 - 1 - 2) \div 2) * BSIZE

Filewrite(p) ==
  /\ At(p, "fwrite")
  /\ Goto(p, IF A(p).n = 0 THEN <<>> ELSE <<BeginOp, Fr("writei", <<>>, A(p))>>)
  /\ UNCHANGED <<imgVars, logVars, inoVars, fileVars, ret, bounds>>

FilewriteChunk(p) ==
  /\ At(p, "writei")
  /\ LET f == A(p).f
         ip == ftable[f].ip
         off == ftable[f].off
         n1 == Min({A(p).n, MaxChunk})
         x == Writei(X(D(ip)), itable[ip].inum, off, [i \in 1 .. n1 |-> Data])
     IN /\ Unlocked(ip) /\ Fits(D(ip), off, n1)
        /\ Logged(p, x)
        /\ itable' = Hold(itable, ip, x.d)
        /\ ftable' = [ftable EXCEPT ![f].off = @ + n1]
        /\ Goto(p, <<EndOp, Fr("fwrite", <<>>, [f |-> f, n |-> A(p).n - n1])>>)
  /\ UNCHANGED <<logVars, lk, ofile, cwd, ret, bounds>>

(* writei() returns -1, or either_copyin() fails before one of the blocks *)
(* of the chunk: the loop ends.                                           *)
FilewriteFails(p) ==
  /\ At(p, "writei")
  /\ LET f == A(p).f
         ip == ftable[f].ip
         off == ftable[f].off
         n1 == Min({A(p).n, MaxChunk})
     IN /\ Unlocked(ip)
        /\ \E j \in {0, BSIZE - (off % BSIZE)} :
             LET x == IF Fits(D(ip), off, n1)
                        THEN WriteiFault(X(D(ip)), itable[ip].inum, off,
                                         [i \in 1 .. n1 |-> Data], j)
                        ELSE X(D(ip))
             IN /\ j < n1
                /\ Logged(p, x)
                /\ itable' = Hold(itable, ip, x.d)
                /\ ftable' = [ftable EXCEPT ![f].off = IF Fits(D(ip), off, n1) THEN @ + j ELSE @]
  /\ Goto(p, <<EndOp>>)
  /\ UNCHANGED <<logVars, lk, ofile, cwd, ret, bounds>>

-----------------------------------------------------------------------------
Step(p) ==
  \/ Begin(p) \/ End(p) \/ Iput(p) \/ IputFree(p) \/ IputUnref(p) \/ Iunlock(p)
  \/ NamexEnd(p) \/ NamexElem(p) \/ Failed(p)
  \/ CreateFound(p) \/ CreateCheck(p) \/ CreateNew(p) \/ Made(p)
  \/ \E c \in Menu : OpenFails(p, c) \/ Open(p, c)
  \/ UnlinkLookup(p) \/ UnlinkBusy(p) \/ UnlinkEntry(p) \/ UnlinkInode(p)
  \/ Link(p) \/ LinkNoParent(p) \/ LinkEntry(p) \/ LinkBad(p) \/ Chdir(p)
  \/ Fileclose(p) \/ Filewrite(p) \/ FilewriteChunk(p) \/ FilewriteFails(p)

Calls(p) ==
  \/ \E c \in Menu : Call(p, c)
  \/ \E fd \in Fds : Close(p, fd) \/ Dup(p, fd)
                     \/ \E n \in Sizes : Fileread(p, fd, n) \/ Write(p, fd, n)
  \/ Pipe(p) \/ Exit(p) \/ \E c \in Procs : Fork(p, c)

Next == (\E p \in Procs : Step(p) \/ Calls(p)) \/ Crash

Spec == Init /\ [][Next]_vars

-----------------------------------------------------------------------------
(* Properties *)

(* The slot that p's next step locks, 0 if none. *)
Locks(p) ==
  IF k[p] = <<>> THEN 0
  ELSE CASE k[p][1].op = "walk" /\ A(p).path # <<>>    -> S(p)[1]
         [] k[p][1].op \in {"found", "linkbad"}        -> S(p)[1]
         [] k[p][1].op = "unlink2"                     -> S(p)[2]
         [] k[p][1].op \in {"create", "unlink", "link", "link2", "chdir"} -> ret[p]
         [] k[p][1].op = "open" -> IF A(p).create THEN 0 ELSE ret[p]
         [] k[p][1].op = "writei"                      -> ftable[A(p).f].ip
         [] OTHER -> 0

(* The panics that the callers must rule out: ilock() of an inode that was *)
(* freed, or of a slot that is not referenced; dirlookup() in what is no   *)
(* directory; unlink() of an inode without links; bfree() of a free block; *)
(* and iput() sleeping for the inode's lock while it holds itable.lock.    *)
NoPanic ==
  \A p \in Procs :
    /\ Locks(p) # 0 => itable[Locks(p)].ref >= 1 /\ D(Locks(p)).type # ""
    /\ (At(p, "create") \/ At(p, "unlink") \/ At(p, "link2")) /\ ret[p] # 0 =>
         D(ret[p]).type = "dir"
    /\ At(p, "unlink2") /\ Unlocked(S(p)[2]) => D(S(p)[2]).nlink >= 1
    /\ At(p, "free") => Owned(fs, D(S(p)[1])) \subseteq fs.used
    /\ At(p, "put") /\ LastPut(S(p)[1]) => Unlocked(S(p)[1])

(* No set of processes waits for inode locks that they hold themselves:    *)
(* unlink() holds a directory while it locks an entry, all other callers   *)
(* lock one inode at a time.                                               *)
NoDeadlock ==
  \A P \in SUBSET Procs : P # {} =>
    ~ \A p \in P : Locks(p) # 0 /\ lk[Locks(p)] \in P

(* References to slot s in the frames of p, in the file table and elsewhere. *)
InFrames(p, s) ==
  {i \in DOMAIN k[p] : LET f == k[p][i].s IN f # <<>> /\ (f[1] = s \/ f[Len(f)] = s)}

Holders(s) ==
  Cardinality({p \in Procs : cwd[p] = s}) + Cardinality({p \in Procs : ret[p] = s})
    + Cardinality({f \in 1 .. NFILE : ftable[f].ip = s})
    + Cardinality(UNION {{p} \X InFrames(p, s) : p \in Procs})

FileHolders(f) ==
  Cardinality({x \in Procs \X Fds : ofile[x[1]][x[2]] = f})
    + Cardinality(UNION {{p} \X {i \in DOMAIN k[p] : k[p][i].op = "fclose" /\ k[p][i].a = f}
                           : p \in Procs})

(* Reference counts are exact: of a slot of the inode table, the current   *)
(* directories, files and calls that hold it; of a file, the descriptors   *)
(* that name it.  An inode has one slot, and the copy in an unlocked slot  *)
(* is what iupdate() wrote.                                                *)
RefsExact ==
  /\ \A s \in Slots :
       /\ itable[s].ref = Holders(s)
       /\ itable[s].ref > 0 => Cardinality(Hits(itable, itable[s].inum)) = 1
       /\ itable[s].valid /\ Unlocked(s) => itable[s].d = fs.ino[itable[s].inum]
  /\ \A f \in 1 .. NFILE : ftable[f].ref = FileHolders(f)

(* The entries <<directory, offset, name, inum>> of the directories in I. *)
EntriesOf(x, I) ==
  UNION {LET u == Units(x, x.ino[i]) IN
           {<<i, o, u[o][1], u[o][2]>> : o \in {o \in DOMAIN u : u[o][2] # 0}}
           : i \in {i \in I : x.ino[i].type = "dir"}}

Reachable(x) ==
  LET within[n \in Nat] ==
        IF n = 0 THEN {ROOTINO}
        ELSE within[n - 1] \union {e[4] : e \in EntriesOf(x, within[n - 1])}
  IN within[NINODES]

(* What a crash falls back to is a file system (the disk changes when the  *)
(* last operation ends): the blocks in use are those of the inodes, each   *)
(* of one inode, and cover its size; an entry names an inode that is in    *)
(* use and counts it; a directory starts with "." and "..", and only its   *)
(* parent names it otherwise.                                              *)
Consistent(x) ==
  LET R == Reachable(x)
      E == EntriesOf(x, R)
      B == [i \in Inums |-> Owned(x, x.ino[i])]
  IN
  /\ x.used = UNION {B[i] : i \in Inums}
  /\ \A i, j \in Inums : i < j => B[i] \intersect B[j] = {}
  /\ \A i \in Inums : \A o \in 0 .. x.ino[i].size - 1 : Addr(x, x.ino[i], o \div BSIZE) # 0
  /\ \A j \in R :
       LET names == {e \in E : e[4] = j /\ e[3] # "." /\ e[1] # e[4]} IN
       /\ x.ino[j].type # ""
       /\ x.ino[j].nlink >= Cardinality(names)
       /\ x.ino[j].type = "dir" =>
            /\ <<j, 0, ".", j>> \in E
            /\ \E i \in R : /\ <<j, 1, "..", i>> \in E
                            /\ \A e \in names : e[3] # ".." => e[1] = i

DiskConsistent == outstanding = 0 => Consistent(disk)

(* No operation logs more blocks than begin_op() reserved for it; filewrite() *)
(* splits a write so that a chunk fits.                                       *)
OpFits == \A p \in Procs : Cardinality(wrote[p]) <= MAXOPBLOCKS
=============================================================================
