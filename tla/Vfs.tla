--------------------------------- MODULE Vfs --------------------------------
(* kernel/src/vfs.c and cmd.c: the file system on ramdisk1 (blkfs), and what *)
(* the shell's commands do to it.                                            *)
(*                                                                           *)
(* A command is one step.  vfs.h defines SHELL, which compiles vfslock out:  *)
(* nothing keeps the four shells apart, and what is said here is said of one *)
(* shell at work at a time.  Commands give paths, sequences of names, from   *)
(* the root; that is what they turn relative ones into.  Of devfs and procfs *)
(* only that they are mounted matters, under a directory of blkfs.           *)
(*                                                                           *)
(* The path "/" is not in Path.  mkdir, rmdir, touch and echo refuse it; rm  *)
(* and link find nothing there; cat does take it, as its source and as its   *)
(* target, in actions of their own.  Not modelled: paths with empty names    *)
(* ("//x"), which pass for others; names too long for their fields; ls, cd   *)
(* and cat without ">", which change nothing but the shell's current path;   *)
(* sizes and offsets, which no command looks at; files created in /proc.     *)
EXTENDS Integers, Sequences, FiniteSets

CONSTANTS
  Name,       \* names of files and directories
  Path,       \* the paths commands are given
  Text,       \* what is echoed
  EMPTY,      \* a block of zeros, read as text
  Mountable,  \* names of the root's directories where devfs and procfs go
  DEV,        \* the one of devfs
  NINODES,    \* number of inodes, and
  NENTRIES,   \* of entries in a directory; the code's NFILEINFS is both
  NFILE,      \* descriptors of a task
  NULL

ASSUME VfsAssumption ==
  /\ NINODES \in Nat /\ NINODES > Cardinality(Mountable)
  /\ NENTRIES \in Nat /\ NENTRIES >= Cardinality(Mountable)
  /\ NFILE \in Nat /\ NFILE >= 2
  /\ IsFiniteSet(Mountable)
  /\ Path \subseteq Seq(Name) \ {<<>>}
  /\ Mountable \subseteq Name /\ DEV \in Mountable /\ NULL \notin Name
  /\ EMPTY \notin Text
  /\ NULL \notin Nat
  /\ NULL \notin {"vfsunlink", "cmd_echo", "dev_lookup", "cmd_cat", "ramdisk1", "vfslink"}

VARIABLES
  blkfs,   \* refcnt, entries and text, see below
  mnt,     \* which of Mountable are mounted
  fildes,  \* descriptors the shell has open; 0 and 1 are its tty.  They are
           \* taken smallest first, and what a command leaves open stays open
  ended    \* what has ended the run, NULL if nothing: an assert or a panic that
           \* stopped the machine, or a command that has spoilt the disk

vars == <<blkfs, mnt, fildes, ended>>

Ino == 0..(NINODES - 1)
Slot == 0..(NENTRIES - 1)
root == 0

\* Where the disk, or what is left of it, is no longer a file system: the assert
\* in the middle of vfsunlink; a text over the root's block; a text over the
\* root's inode; a file with a directory's name, with which names no longer tell
\* entries apart.  What the shells make of the disk then is not followed.
Spoilt == {"vfsunlink", "cmd_cat", "ramdisk1", "vfslink"}
intact == ended \notin Spoilt

\* An entry that is not valid (ino NULL here) keeps its name.  The name of a
\* directory is stored with a slash in front and is then found by nobody.
Entry == [name : Name \cup {NULL}, ino : Ino \cup {NULL}, dir : BOOLEAN]
NoEntry == [name |-> NULL, ino |-> NULL, dir |-> FALSE]

\* An inode that is not in use (inooff -1) has refcnt NULL.  A block is read as
\* a directory or as text; blocks of zeros are NoEntries and EMPTY.
NoEntries == [s \in Slot |-> NoEntry]
Blkfs == [refcnt : [Ino -> Nat \cup {NULL}],
          etrs : [Ino -> [Slot -> Entry]],
          text : [Ino -> Text \cup {EMPTY}]]

valid(entry) == entry.ino # NULL

least(S) == CHOOSE i \in S : \A j \in S : i <= j

-----------------------------------------------------------------------------
(* fsgetinode and fslookup: the path, then what the flags ask for.           *)

\* The directory name of directory d; entries of files are passed over.
Sub(b, d, name) ==
  LET found == {s \in Slot : /\ valid(b.etrs[d][s]) /\ b.etrs[d][s].dir
                             /\ b.etrs[d][s].name = name}
  IN IF d = NULL \/ found = {} THEN NULL ELSE b.etrs[d][least(found)].ino

\* The directory the last name of path belongs in.
Walk(b, path) ==
  LET at[n \in 0..Len(path)] == IF n = 0 THEN root ELSE Sub(b, at[n - 1], path[n])
  IN at[Len(path) - 1]

Last(path) == path[Len(path)]
Parent(path) == SubSeq(path, 1, Len(path) - 1)

\* The first slot of directory d with this name, of a file or a directory.
Match(b, d, name) ==
  LET found == {s \in Slot : valid(b.etrs[d][s]) /\ b.etrs[d][s].name = name}
  IN IF found = {} THEN NULL ELSE least(found)

\* Without O_CREAT and O_RM: the inode of a directory (O_DIR) or of a file.  A
\* first match of the other kind ends the search.  No entry is called "/",
\* which is what the empty path is taken for.
Lookup(b, path, dir) ==
  IF path = <<>> \/ Walk(b, path) = NULL THEN NULL
  ELSE LET d == Walk(b, path)
           s == Match(b, d, Last(path))
       IN IF s = NULL THEN NULL
          ELSE IF b.etrs[d][s].dir # dir THEN NULL ELSE b.etrs[d][s].ino

\* mutant: the last slot is never used
MutFreeSlots(b, d) == {s \in Slot : ~valid(b.etrs[d][s]) /\ s < NENTRIES - 1}

FreeSlots(b, d) == {s \in Slot : ~valid(b.etrs[d][s])}
FreeInodes(b) == {i \in Ino : b.refcnt[i] = NULL}

\* b with a new entry in d; b itself if d is full.
AddEntry(b, d, name, ino, dir) ==
  IF FreeSlots(b, d) = {} THEN b
  ELSE [b EXCEPT !.etrs[d][least(FreeSlots(b, d))] =
          [name |-> name, ino |-> ino, dir |-> dir]]

\* With O_CREAT: also a new file or directory.  Its inode and block are taken
\* before the directory is found to have no slot for it.
Create(b, path, dir) ==
  LET d == Walk(b, path)
      i == least(FreeInodes(b))
      fresh == [b EXCEPT !.refcnt[i] = 0, !.etrs[i] = NoEntries, !.text[i] = EMPTY]
  IN IF d = NULL THEN [fs |-> b, ino |-> NULL]
     ELSE IF Match(b, d, Last(path)) # NULL
     THEN [fs |-> b, ino |-> Lookup(b, path, dir)]
     ELSE IF FreeInodes(b) = {} THEN [fs |-> b, ino |-> NULL]
     ELSE [fs |-> AddEntry(fresh, d, Last(path), i, dir), ino |-> i]

\* mutant: a directory goes with what is in it
MutRemovable(b, i, dir) == TRUE

Removable(b, i, dir) == dir => FreeSlots(b, i) = Slot

\* With O_RM: the block zeroed, the entry not valid, the inode not in use.
Remove(b, path, dir) ==
  LET d == Walk(b, path)
      i == Lookup(b, path, dir)
  IN IF i = NULL THEN b
     ELSE IF ~Removable(b, i, dir) THEN b
     ELSE LET zeroed == [b EXCEPT !.etrs[i] = NoEntries, !.text[i] = EMPTY, !.refcnt[i] = NULL]
          IN [zeroed EXCEPT !.etrs[d][Match(b, d, Last(path))] =
               IF dir THEN NoEntry ELSE [@ EXCEPT !.ino = NULL]]

-----------------------------------------------------------------------------
(* The vfs calls, as functions of blkfs; a refused call leaves it as it is.  *)

\* mutant: forgets that mkdir and its like also have to keep out
MutDenied(path) == FALSE

\* "Permission denied" for all that changes names below /dev and /proc
Denied(path) == path[1] \in Mountable

\* vfsmkdir looks for the directory first, then creates it.
vfsmkdir(path) ==
  IF Denied(path) \/ Lookup(blkfs, path, TRUE) # NULL THEN blkfs
  ELSE Create(blkfs, path, TRUE).fs

vfsrmdir(path) == IF Denied(path) THEN blkfs ELSE Remove(blkfs, path, TRUE)

\* vfslink looks for a file newpath, not for a directory of that name, and for
\* its directory with a path that is empty if that is the root.
LinkRefused(oldpath, newpath) ==
  \/ Denied(oldpath) \/ Denied(newpath)
  \/ Lookup(blkfs, oldpath, FALSE) = NULL
  \/ Lookup(blkfs, newpath, FALSE) # NULL
  \/ Lookup(blkfs, Parent(newpath), TRUE) = NULL

vfslink(oldpath, newpath) ==
  LET old == Lookup(blkfs, oldpath, FALSE)
      d == Lookup(blkfs, Parent(newpath), TRUE)
  IN IF LinkRefused(oldpath, newpath) \/ FreeSlots(blkfs, d) = {} THEN blkfs
     ELSE AddEntry([blkfs EXCEPT !.refcnt[old] = @ + 1], d, Last(newpath), old, FALSE)

\* mutant: the last name but one already takes the file with it
MutLastName(i) == blkfs.refcnt[i] <= 1

LastName(i) == blkfs.refcnt[i] = 0

\* The entry vfsunlink clears: the first one with the file's name, valid or not.
Cleared(b, d, name) ==
  LET found == {s \in Slot : b.etrs[d][s].name = name /\ ~b.etrs[d][s].dir}
  IN IF found = {} THEN b ELSE [b EXCEPT !.etrs[d][least(found)].ino = NULL]

\* The file has other names: one less, then the entry, in a directory that is
\* looked for by an empty path if it is the root.
Unnamed(path, i) ==
  LET less == [blkfs EXCEPT !.refcnt[i] = @ - 1]
      d == Lookup(blkfs, Parent(path), TRUE)
  IN IF d = NULL THEN less ELSE Cleared(less, d, Last(path))

vfsunlink(path) ==
  LET i == Lookup(blkfs, path, FALSE) IN
  IF Denied(path) \/ i = NULL THEN blkfs
  ELSE IF LastName(i) THEN Remove(blkfs, path, FALSE) ELSE Unnamed(path, i)

\* assert(recnode)
UnlinkAsserts(path) ==
  LET i == Lookup(blkfs, path, FALSE) IN
  ~Denied(path) /\ i # NULL /\ ~LastName(i) /\ Lookup(blkfs, Parent(path), TRUE) = NULL

\* vfsopen finds a descriptor, after the lookup.
CanOpen(n) == fildes + n <= NFILE

\* text written to the block of an inode
Stored(b, i, t) == [b EXCEPT !.text[i] = t]

-----------------------------------------------------------------------------
(* The commands (cmd.c).                                                     *)

\* The machine runs and blkfs becomes b.  A command that is refused, or that
\* changes nothing, is no step of its own.
Becomes(b) ==
  /\ ended = NULL
  /\ b # blkfs
  /\ blkfs' = b
  /\ UNCHANGED <<mnt, fildes, ended>>

\* The run ends, with blkfs left as b.
Ends(b, where) ==
  /\ ended = NULL
  /\ blkfs' = b
  /\ ended' = where
  /\ UNCHANGED <<mnt, fildes>>

cmd_mkdir(path) == Becomes(vfsmkdir(path))

cmd_rmdir(path) == Becomes(vfsrmdir(path))

cmd_rm(path) ==
  IF UnlinkAsserts(path) THEN Ends(vfsunlink(path), "vfsunlink")
  ELSE Becomes(vfsunlink(path))

\* A directory of the new name does not keep vfslink from giving it to the file.
cmd_link(oldpath, newpath) ==
  IF Lookup(blkfs, newpath, TRUE) = NULL THEN Becomes(vfslink(oldpath, newpath))
  ELSE /\ vfslink(oldpath, newpath) # blkfs
       /\ Ends(vfslink(oldpath, newpath), "vfslink")

IsThere(path) == Lookup(blkfs, path, FALSE) # NULL \/ Lookup(blkfs, path, TRUE) # NULL

\* touch: access as a file, access as a directory, open with O_CREAT, close
cmd_touch(path) ==
  /\ ~Denied(path) /\ ~IsThere(path)
  /\ Becomes(Create(blkfs, path, FALSE).fs)

\* echo text > path, path is a file: zeroed and written, unless open fails,
\* which an assert rules out
EchoOver(path, t) ==
  LET i == Lookup(blkfs, path, FALSE) IN
  /\ ~Denied(path) /\ i # NULL
  /\ IF CanOpen(1) THEN Becomes(Stored(blkfs, i, t)) ELSE Ends(blkfs, "cmd_echo")

\* ... path is neither file nor directory: it may be created and not opened
EchoNew(path, t) ==
  LET r == Create(blkfs, path, FALSE) IN
  /\ ~Denied(path) /\ ~IsThere(path)
  /\ Becomes(IF r.ino # NULL /\ CanOpen(1) THEN Stored(r.fs, r.ino, t) ELSE r.fs)

\* ... path is a device or a file of /proc: it is opened and never closed
EchoDevice(m) ==
  /\ m \in mnt
  /\ ended = NULL
  /\ fildes' = IF CanOpen(1) THEN fildes + 1 ELSE fildes
  /\ ended' = IF CanOpen(1) THEN NULL ELSE "cmd_echo"
  /\ UNCHANGED <<blkfs, mnt>>

\* ... path is no device, which dev_lookup panics of, or the input or the screen,
\* which open refuses
EchoRefused ==
  /\ DEV \in mnt
  /\ \E where \in {"dev_lookup", "cmd_echo"} : Ends(blkfs, where)

\* ... path is ramdisk1, where blkfs is: the text goes to its first bytes, which
\* are the root's inode.  (A text that ends before the fields anyone reads does no
\* harm, and is an EchoDevice.)
EchoDisk ==
  /\ DEV \in mnt /\ CanOpen(1)
  /\ ended = NULL
  /\ fildes' = fildes + 1
  /\ ended' = "ramdisk1"
  /\ UNCHANGED <<blkfs, mnt>>

\* cat from > to: from opened, to opened with O_CREAT, the block copied
cmd_cat(from, to) ==
  LET r == Create(blkfs, to, FALSE)
      i == Lookup(blkfs, from, FALSE)
  IN /\ ~Denied(from) /\ ~Denied(to)
     /\ i # NULL /\ CanOpen(1)
     /\ Becomes(IF r.ino # NULL /\ CanOpen(2) THEN Stored(r.fs, r.ino, blkfs.text[i]) ELSE r.fs)

\* ... from is "/" or a file of /proc: the text is the root's block or what /proc
\* says, some text that is not told apart from others
CatOther(to) ==
  LET r == Create(blkfs, to, FALSE) IN
  /\ ~Denied(to) /\ CanOpen(1)
  /\ \E t \in Text \cup {EMPTY} :
       Becomes(IF r.ino # NULL /\ CanOpen(2) THEN Stored(r.fs, r.ino, t) ELSE r.fs)

\* ... from is a device: refused once to has been created
CatDevice(to) ==
  /\ DEV \in mnt /\ ~Denied(to) /\ CanOpen(1)
  /\ Becomes(Create(blkfs, to, FALSE).fs)

\* ... to is "/", which vfsopen opens whatever the flags say: the block of from
\* goes over the root's.  Read as entries, no text that was typed has a valid one.
\* (A text that is a copy of the root's block, which CatOther can make, brings back
\* the entries of then; nothing is said of the disk in either case.)
CatOver(from) ==
  /\ IF Denied(from) THEN from[1] \in mnt \ {DEV} ELSE Lookup(blkfs, from, FALSE) # NULL
  /\ CanOpen(2)
  /\ Ends([blkfs EXCEPT !.etrs[root] = NoEntries], "cmd_cat")

\* vfsmount succeeds whether or not there was an inode for the directory.
cmd_mnt(m) ==
  /\ ended = NULL
  /\ m \notin mnt
  /\ mnt' = mnt \cup {m}
  /\ blkfs' = Create(blkfs, <<m>>, TRUE).fs
  /\ UNCHANGED <<fildes, ended>>

cmd_unmnt(m) ==
  /\ ended = NULL
  /\ m \in mnt
  /\ mnt' = mnt \ {m}
  /\ blkfs' = Remove(blkfs, <<m>>, TRUE)
  /\ UNCHANGED <<fildes, ended>>

(* vfsinit: the root, then the mounts.  The sample files it also creates in  *)
(* /jarvis are left out: commands can create such files.                     *)
Formatted ==
  [refcnt |-> [i \in Ino |-> IF i = root THEN 0 ELSE NULL],
   etrs |-> [i \in Ino |-> NoEntries],
   text |-> [i \in Ino |-> EMPTY]]

\* the mounted directories, with the inodes they are given in some order
Init ==
  /\ \E order \in [Mountable -> Slot] :
       /\ \A m, n \in Mountable : order[m] = order[n] => m = n
       /\ \A m \in Mountable : order[m] < Cardinality(Mountable)
       /\ blkfs = [Formatted EXCEPT
            !.refcnt = [i \in Ino |-> IF i <= Cardinality(Mountable) THEN 0 ELSE NULL],
            !.etrs[root] = [s \in Slot |->
               IF s >= Cardinality(Mountable) THEN NoEntry
               ELSE [ino |-> s + 1, dir |-> TRUE,
                     name |-> CHOOSE m \in Mountable : order[m] = s]]]
  /\ mnt = Mountable
  /\ fildes = 2
  /\ ended = NULL

Next ==
  \/ \E p \in Path :
       \/ cmd_mkdir(p) \/ cmd_rmdir(p) \/ cmd_rm(p) \/ cmd_touch(p)
       \/ CatOther(p) \/ CatDevice(p) \/ CatOver(p)
       \/ \E t \in Text : EchoOver(p, t) \/ EchoNew(p, t)
       \/ \E q \in Path : cmd_link(p, q) \/ cmd_cat(p, q)
  \/ \E m \in Mountable : cmd_mnt(m) \/ cmd_unmnt(m) \/ EchoDevice(m)
  \/ EchoRefused \/ EchoDisk

Spec == Init /\ [][Next]_vars

-----------------------------------------------------------------------------
(* Properties *)

\* Every variable has its type; no link count goes below 0, and the root stays.
TypeOK ==
  /\ blkfs \in Blkfs
  /\ blkfs.refcnt[root] = 0
  /\ mnt \subseteq Mountable
  /\ fildes \in 2..NFILE
  /\ ended \in {NULL, "cmd_echo", "dev_lookup"} \cup Spoilt

\* The entries that name inode i.
Names(i) ==
  {e \in (Ino \X Slot) : /\ blkfs.refcnt[e[1]] # NULL
                         /\ blkfs.etrs[e[1]][e[2]].ino = i}
IsDirEntry(e) == blkfs.etrs[e[1]][e[2]].dir
Nameless(i) == i # root /\ blkfs.refcnt[i] # NULL /\ Names(i) = {}

\* Link counts and names agree over any sequence of commands that does not spoil
\* the disk: no entry names an inode that is not in use, a file has one name more
\* than refcnt says, and a directory one name and nothing else.  (An inode without
\* a name is lost.)
LinksCounted ==
  intact =>
    \A i \in Ino \ {root} :
      IF blkfs.refcnt[i] = NULL THEN Names(i) = {}
      ELSE \/ Names(i) = {} /\ blkfs.refcnt[i] = 0
           \/ /\ Cardinality(Names(i)) = blkfs.refcnt[i] + 1
              /\ \A e \in Names(i) : IsDirEntry(e) => Names(i) = {e}

\* Unless the disk is spoilt, an inode is lost, in use without a name, only by
\* creating something in a directory whose slots are all taken: no sequence of
\* links and unlinks loses a file.
LostOnlyWhenFull ==
  [][ intact' =>
        \A i \in Ino : Nameless(i)' /\ ~Nameless(i) =>
          \E d \in Ino : /\ blkfs.refcnt[d] # NULL
                         /\ \A s \in Slot : valid(blkfs.etrs[d][s]) ]_vars

\* While a file system is not mounted its directory is not there either, and a
\* mounted one is empty underneath, or unmounting could not take it away; until
\* the disk is spoilt.
MountsShown ==
  intact =>
    \A m \in Mountable :
      LET i == Lookup(blkfs, <<m>>, TRUE) IN
      i # NULL => m \in mnt /\ FreeSlots(blkfs, i) = Slot

\* The comment in vfsunlink: the directory of a file that exists is found.
UnlinkFindsDirectory == ended # "vfsunlink"

(* Refinement: the paths under which something is found.  (Bound by a        *)
(* quantifier, the directory is looked up once.)                             *)
Holds(p, dir) ==
  \E d \in {Walk(blkfs, p)} \ {NULL}, s \in Slot :
    LET e == blkfs.etrs[d][s] IN valid(e) /\ e.dir = dir /\ e.name = Last(p)

fileAt(p) ==
  LET d == Walk(blkfs, p) IN
  blkfs.etrs[d][CHOOSE s \in Slot : /\ valid(blkfs.etrs[d][s]) /\ ~blkfs.etrs[d][s].dir
                                   /\ blkfs.etrs[d][s].name = Last(p)].ino

AllPaths == Path \cup {<<m>> : m \in Mountable}

Fs == INSTANCE FsSpec WITH
  Path <- AllPaths,
  File <- Ino,
  tree <- [dirs |-> {p \in AllPaths : Holds(p, TRUE)},
           files |-> [p \in {p \in AllPaths : Holds(p, FALSE)} |-> fileAt(p)],
           text |-> [i \in Ino |-> IF Nameless(i) THEN EMPTY ELSE blkfs.text[i]]]

\* Until they spoil the disk, commands keep the promises of a tree with hard links:
\* each does one change as a whole or none, a name shows its file's text whatever happens to other
\* names, and a reused inode shows nothing of the file it was before.
RefinesFs == Fs!Spec
-----------------------------------------------------------------------------
(* The inductive invariant of VfsProofs.                                     *)

EntriesOf(b, i) == {e \in (Ino \X Slot) : b.etrs[e[1]][e[2]].ino = i}
DirEntriesOf(b, i) == {e \in EntriesOf(b, i) : b.etrs[e[1]][e[2]].dir}

\* Names are in directories, and what they name is in use and not the root.
Rooted(b) ==
  \A d \in Ino, s \in Slot :
    LET e == b.etrs[d][s] IN
    valid(e) => /\ e.name # NULL
                /\ e.ino # root /\ b.refcnt[e.ino] # NULL
                /\ d = root \/ DirEntriesOf(b, d) # {}

Counted(b) ==
  \A i \in Ino \ {root} :
    b.refcnt[i] # NULL =>
      \/ EntriesOf(b, i) = {} /\ b.refcnt[i] = 0
      \/ /\ Cardinality(EntriesOf(b, i)) = b.refcnt[i] + 1
         /\ \A e \in DirEntriesOf(b, i) : EntriesOf(b, i) = {e}

\* No name is twice in a directory, and the entries before it that are not valid,
\* where vfsunlink looks too, have other names.
Distinct(b) ==
  \A d \in Ino, s, r \in Slot :
    valid(b.etrs[d][s]) /\ r # s /\ b.etrs[d][r].name = b.etrs[d][s].name =>
      ~valid(b.etrs[d][r]) /\ s < r

\* In the root, a name of Mountable is an empty directory's, and mounted.
MountsInv(b, mounted) ==
  \A s \in Slot :
    LET e == b.etrs[root][s] IN
    valid(e) /\ e.name \in Mountable =>
      e.dir /\ e.name \in mounted /\ FreeSlots(b, e.ino) = Slot

Sound(b) == Rooted(b) /\ Counted(b) /\ Distinct(b)

IInv == TypeOK /\ (intact => MountsInv(blkfs, mnt) /\ Sound(blkfs))

\* Every name is at the end of a path; only files and what is lost have text.
Reached(b) ==
  \A d \in Ino, s \in Slot :
    valid(b.etrs[d][s]) =>
      \E p \in AllPaths : Walk(b, p) = d /\ Last(p) = b.etrs[d][s].name

TextsOf(b) ==
  \A i \in Ino :
    b.text[i] # EMPTY => i # root /\ b.refcnt[i] # NULL /\ DirEntriesOf(b, i) = {}

\* What the refinement needs of it, beyond IInv.
TreeInv == IInv /\ (intact => Reached(blkfs) /\ TextsOf(blkfs))
=============================================================================
