------------------------------- MODULE FsImage -------------------------------
(***************************************************************************)
(* The contents of the file system: inodes, block bitmap, data blocks and  *)
(* directories, as kernel/fs/fs.c changes them and script/mkfs.c makes     *)
(* them.                                                                   *)
(*                                                                         *)
(* The unit of data is a directory entry: a block has BSIZE units.  An     *)
(* image is a record with the inodes (ino), the blocks in use (used) and   *)
(* the blocks' contents (data); the operations also carry the in-memory    *)
(* inode at hand (d) and the blocks passed to log_write() (log).           *)
(***************************************************************************)
EXTENDS Naturals, SequencesExt, Steps

CONSTANTS
  NINODES,  \* inodes are numbered from 1, as are the data blocks
  NBlocks,
  BSIZE,    \* units of a block; also addresses of an indirect block
  NDIRECT   \* direct addresses of an inode

Inums   == 1 .. NINODES
Blocks  == 1 .. NBlocks
ROOTINO == 1
MAXFILE == NDIRECT + BSIZE

(* A unit is an entry <<name, inum>>, an address <<"", block>> or data. *)
Zero  == <<"", 0>>
Data  == <<"data", 0>>
Zeros == [o \in 0 .. BSIZE - 1 |-> Zero]

Dinode(type, nlink) ==
  [type |-> type, nlink |-> nlink, size |-> 0, addrs |-> [i \in 0 .. NDIRECT |-> 0]]

FreeInode == Dinode("", 0)

-----------------------------------------------------------------------------
(* Blocks *)

NewBlock(x) == Min(Blocks \ x.used)

(* balloc(), which takes block b, and bzero(); out of blocks is a panic. *)
Balloc(x, b) ==
  [x EXCEPT !.used = @ \union {b}, !.data[b] = Zeros,
            !.log = @ \union {<<"bitmap", 0>>, <<"block", b>>}]

(* The address of the inode's nth block, or 0. *)
Addr(x, d, n) ==
  IF n < NDIRECT THEN d.addrs[n]
  ELSE IF d.addrs[NDIRECT] = 0 THEN 0
  ELSE x.data[d.addrs[NDIRECT]][n - NDIRECT][2]

(* bmap(): the nth block is there. *)
BmapDirect(x, n) ==
  IF x.d.addrs[n] # 0 THEN x
  ELSE Then(NewBlock(x), LAMBDA b : [Balloc(x, b) EXCEPT !.d.addrs[n] = b])

BmapIndirect(x, a, n) ==
  IF x.data[a][n][2] # 0 THEN x
  ELSE Then(NewBlock(x), LAMBDA b :
         [Balloc(x, b) EXCEPT !.data[a][n] = <<"", b>>, !.log = @ \union {<<"block", a>>}])

Bmap(x, n) ==
  IF n < NDIRECT THEN BmapDirect(x, n)
  ELSE Then(BmapDirect(x, NDIRECT), LAMBDA y : BmapIndirect(y, y.d.addrs[NDIRECT], n - NDIRECT))

(* bfree() of the blocks in B. *)
Bfree(x, B) ==
  IF B = {} THEN x ELSE [x EXCEPT !.used = @ \ B, !.log = @ \union {<<"bitmap", 0>>}]

(* The blocks that itrunc() passes to bfree(). *)
Owned(x, d) ==
  LET ind == d.addrs[NDIRECT] IN
  ({d.addrs[i] : i \in 0 .. NDIRECT}
     \union (IF ind = 0 THEN {} ELSE {x.data[ind][j][2] : j \in 0 .. BSIZE - 1})) \ {0}

-----------------------------------------------------------------------------
(* Inodes.  Each of these ends in iupdate(). *)

Iupdate(x, inum) ==
  [x EXCEPT !.ino[inum] = x.d, !.log = @ \union {<<"inode", inum>>}]

(* Mutant of Itrunc: the indirect block itself is not freed. *)
ItruncKeepsIndirect(x, inum) ==
  Iupdate([Bfree(x, Owned(x, x.d) \ {x.d.addrs[NDIRECT]}) EXCEPT
             !.d = Dinode(@.type, @.nlink)], inum)

Itrunc(x, inum) ==
  Iupdate([Bfree(x, Owned(x, x.d)) EXCEPT !.d = Dinode(@.type, @.nlink)], inum)

(* One turn of the loop of writei(), for one unit. *)
PutUnit(x, o, u) ==
  Then(Bmap(x, o \div BSIZE), LAMBDA y :
  Then(Addr(y, y.d, o \div BSIZE), LAMBDA b :
    [y EXCEPT !.data[b][o % BSIZE] = u,
              !.d.size = IF o >= @ THEN o + 1 ELSE @,
              !.log = @ \union {<<"block", b>>}]))

Fits(d, off, n) == off <= d.size /\ off + n <= MAXFILE * BSIZE

Writei(x, inum, off, us) ==
  LET one(y, i) == Then(y, LAMBDA z : PutUnit(z, off + i - 1, us[i]))
  IN Then(FoldLeft(one, x, [i \in 1 .. Len(us) |-> i]), LAMBDA y : Iupdate(y, inum))

(* writei() when either_copyin() fails after j units, at the end of a      *)
(* block: bmap() was called.  What it has copied of the next block stays   *)
(* in the buffer, not logged: contents of a regular file, all alike here.  *)
WriteiFault(x, inum, off, us, j) ==
  Then(Writei(x, inum, off, SubSeq(us, 1, j)), LAMBDA y :
  Then(Bmap(y, (off + j) \div BSIZE), LAMBDA z : Iupdate(z, inum)))

(* readi() of the whole inode. *)
Units(x, d) ==
  [o \in 0 .. d.size - 1 |-> x.data[Addr(x, d, o \div BSIZE)][o % BSIZE]]

-----------------------------------------------------------------------------
(* Directories *)

Offsets(x, d, name) ==
  LET u == Units(x, d) IN {o \in DOMAIN u : u[o][1] = name /\ u[o][2] # 0}

(* dirlookup(): the inode number, or 0; poff is its offset. *)
Poff(x, d, name) == Min(Offsets(x, d, name))

Dirlookup(x, d, name) ==
  IF Offsets(x, d, name) = {} THEN 0 ELSE Units(x, d)[Poff(x, d, name)][2]

EmptyOff(x, d) ==
  LET u == Units(x, d) IN Min({d.size} \union {o \in DOMAIN u : u[o][2] = 0})

(* dirlink() of a name that is not there into the directory x.d = dp. *)
Dirlink(x, dp, name, inum) == Writei(x, dp, EmptyOff(x, x.d), <<<<name, inum>>>>)

Isdirempty(x, d) == \A o \in 2 .. d.size - 1 : Units(x, d)[o][2] = 0

(* The inode that ialloc() takes. *)
NewInum(x) == Min({i \in Inums : x.ino[i].type = ""})

(* The part of create() for a new name: ialloc(), the fields, the entries  *)
(* of a directory, and dirlink() into the directory dp, which is x.d.      *)
Create(x, dp, name, type) ==
  Then(NewInum(x), LAMBDA inum :
  Then(Iupdate([x EXCEPT !.d = Dinode(type, 1)], inum), LAMBDA i1 :
  Then(IF type = "dir" THEN Writei(i1, inum, 0, <<<<".", inum>>, <<"..", dp>>>>) ELSE i1,
       LAMBDA i2 :
  Then(IF type = "dir" THEN Iupdate([i2 EXCEPT !.d = [x.d EXCEPT !.nlink = @ + 1]], dp)
                       ELSE [i2 EXCEPT !.d = x.d], LAMBDA p : Dirlink(p, dp, name, inum)))))

-----------------------------------------------------------------------------
(* mkfs *)

(* iappend(); blocks are taken in order, as balloc() does. *)
Iappend(x, inum, us) ==
  Writei([x EXCEPT !.d = x.ino[inum]], inum, x.ino[inum].size, us)

Ialloc(x, type) == [x EXCEPT !.ino[NewInum(x)] = Dinode(type, 1)]

(* One file of the command line: its inode, its entry in the root, data. *)
AddFile(x, name) ==
  LET inum == NewInum(x) IN
  Iappend(Iappend(Ialloc(x, "file"), ROOTINO, <<<<name, inum>>>>), inum, <<Data>>)

(* main(): the root, the files; the root's size is rounded to a block. *)
Mkfs(files) ==
  LET x0 == [ino  |-> [i \in Inums |-> FreeInode], used |-> {},
             data |-> [b \in Blocks |-> Zeros], d |-> FreeInode, log |-> {}]
      x1 == Iappend(Ialloc(x0, "dir"), ROOTINO,
                    <<<<".", ROOTINO>>, <<"..", ROOTINO>>>>)
      x2 == FoldLeft(AddFile, x1, files)
  IN [x2 EXCEPT !.ino[ROOTINO].size = (@ \div BSIZE + 1) * BSIZE]
=============================================================================
