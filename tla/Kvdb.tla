--------------------------------- MODULE Kvdb -------------------------------
(* libkvdb/kvdb.c: a key-value file with a redo journal.                     *)
(*                                                                           *)
(* The two files are sequences of bytes, because a put that is cut short     *)
(* leaves a state only the byte offsets of the code explain.  A put holds    *)
(* flock(fd) from its first write to its last, so what it reads is fixed     *)
(* when it gets the lock: the writes it will make are worked out then (todo) *)
(* and made one by one; the process may be killed between any two.  Threads  *)
(* of one process exclude each other by db->lock and appear as one process.  *)
(*                                                                           *)
(* Not modelled: a power failure, which loses writes nobody has fsynced;     *)
(* refused puts (permissions, sizes); malloc, whose failure is an exit.      *)
EXTENDS Integers, Sequences, SequencesExt

CONSTANTS
  Proc,         \* processes that use the database
  Key, Value,   \* non-empty sequences of characters
  MDLK,         \* size of a record's key field
  DLV,          \* DLV[level]: size of a record's level byte and value
  MaxPuts, MaxCrashes,  \* bounds
  CrashBefore,  \* bound: the kinds of write a process may be killed before
  NULL

DATA == 0
NUL == 0  VEND == 10  KEND == 11  COMMIT == 15  DEL == 229
EOF == -1

ASSUME KvdbAssumption ==
  /\ DLV \in Seq(Nat \ {0, 1})
  /\ \A k \in Key : Len(k) \in 1..(MDLK - 1)
  /\ \A v \in Value : v # <<>> /\ \E l \in DOMAIN DLV : Len(v) + 2 <= DLV[l]
  /\ \A s \in Key \cup Value : \A i \in DOMAIN s : s[i] \in 32..126

VARIABLES
  data, log,   \* the two files
  pc,          \* [Proc -> "closed", "open", "put" (waits for flock), "recovery", "write"]
  arg,         \* [Proc -> key, value and the size fstat found]
  logoff,      \* [Proc -> the offset of its logfd]
  holder,      \* the process that holds flock(fd)
  todo,        \* the writes its put or recovery still has to make
  puts, crashes,
  allowed      \* history: [Key -> what kvdb_get may return]

files == <<data, log>>
vars == <<data, log, pc, arg, logoff, holder, todo, puts, crashes, allowed>>

Init ==
  /\ data = <<>> /\ log = <<>>
  /\ pc = [p \in Proc |-> "closed"]
  /\ arg = [p \in Proc |-> NULL]
  /\ logoff = [p \in Proc |-> 0]
  /\ holder = NULL /\ todo = <<>>
  /\ puts = 0 /\ crashes = 0
  /\ allowed = [k \in Key |-> {NULL}]

-----------------------------------------------------------------------------
(* Files *)

At(f, pos) == IF pos < Len(f) THEN f[pos + 1] ELSE EOF

\* write(): a gap before pos reads as zeros.
WriteAt(f, pos, bytes) ==
  LET len == IF pos + Len(bytes) > Len(f) THEN pos + Len(bytes) ELSE Len(f) IN
  [i \in 1..len |-> IF i > pos /\ i <= pos + Len(bytes) THEN bytes[i - pos]
                    ELSE IF i <= Len(f) THEN f[i] ELSE NUL]

\* read_key and read_val: the bytes before a stop, and the offset behind it
Until(f, pos, stop) ==
  LET n == CHOOSE n \in 0..Len(f) : /\ At(f, pos + n) \in {stop, NUL, EOF}
                                    /\ \A i \in 0..(n - 1) : At(f, pos + i) \notin {stop, NUL, EOF}
  IN [bytes |-> [i \in 1..n |-> At(f, pos + i - 1)],
      next |-> pos + n + (IF At(f, pos + n) = EOF THEN 0 ELSE 1)]

W(kind, pos, bytes) == [kind |-> kind, pos |-> pos, bytes |-> bytes]
Apply(f, w) == WriteAt(f, w.pos, w.bytes)

-----------------------------------------------------------------------------
(* Records: the key field, a level byte and DLV[level] - 1 bytes of value.   *)
(* The file ends with a NUL where the next record would start.               *)

\* A byte that is no level indexes outside DLV; a torn record can have one.
Size(level) == IF level \in DOMAIN DLV THEN DLV[level] ELSE 0

\* The loop of kvdb_get and kvdb_put up to a record of key k (its level and the
\* offset behind its level byte) or up to the end of the records.
RECURSIVE Locate(_, _, _)
Locate(f, pos, k) ==
  LET first == At(f, pos)
      start == IF first = EOF /\ pos > 0 THEN pos - 1 ELSE pos  \* lseek(-1)
      name == Until(f, start, KEND)
      field == IF first = DEL THEN pos + MDLK ELSE name.next + MDLK - Len(name.bytes) - 1
      level == IF At(f, field) = EOF THEN first ELSE At(f, field)
      behind == field + (IF At(f, field) = EOF THEN 0 ELSE 1)
  IN IF first # DEL /\ name.bytes = <<>> THEN [found |-> FALSE, pos |-> name.next - 1]
     ELSE IF first # DEL /\ name.bytes = k
     THEN [found |-> TRUE, pos |-> behind, level |-> level]
     ELSE Locate(f, behind + Size(level) - 1, k)

\* kvdb_get changes no file: only its result matters.
Get(f, k) ==
  LET r == Locate(f, DATA, k) IN
  IF ~r.found THEN NULL
  ELSE LET v == Until(f, r.pos, VEND).bytes IN IF v = <<>> THEN NULL ELSE v

levelOf(v) == CHOOSE l \in DOMAIN DLV : /\ Len(v) + 2 <= DLV[l]
                                        /\ \A m \in 1..(l - 1) : Len(v) + 2 > DLV[m]

\* mutant: no NUL after the record
MutRecordOpen(pos, k, lev, v) ==
  << W("append", pos, k),
     W("tail", pos + Len(k), <<KEND>>),
     W("tail", pos + MDLK, <<lev>>),
     W("tail", pos + MDLK + 1, v),
     W("tail", pos + MDLK + 1 + Len(v), <<VEND>>) >>

\* A new record at pos.
Record(pos, k, lev, v) ==
  << W("append", pos, k),
     W("tail", pos + Len(k), <<KEND>>),
     W("tail", pos + MDLK, <<lev>>),
     W("tail", pos + MDLK + 1, v),
     W("tail", pos + MDLK + 1 + Len(v), <<VEND>>),
     W("tail", pos + MDLK + Size(lev), <<NUL>>) >>

\* The file has records: overwrite k's value in place if it fits, otherwise
\* delete that record, look on and append.
RECURSIVE Put(_, _, _, _, _)
Put(f, pos, k, lev, v) ==
  LET r == Locate(f, pos, k)
      del == W("delete", r.pos - 1 - MDLK, <<DEL>>)
  IN IF ~r.found
     THEN <<W("append", r.pos, <<NUL>>)>> \o Record(r.pos, k, lev, v)
     ELSE IF r.level >= lev
     THEN <<W("overwrite", r.pos, v), W("overwrite", r.pos + Len(v), <<VEND>>)>>
     ELSE <<del>> \o Put(Apply(f, del), del.pos + MDLK + Size(r.level), k, lev, v)

\* The data writes of kvdb_put and rec_put, given the size fstat reported.
DataWrites(f, size, k, lev, v) ==
  IF size <= DATA THEN Record(DATA, k, lev, v) ELSE Put(f, DATA, k, lev, v)

-----------------------------------------------------------------------------
(* The journal: key, KEND, level, value, VEND, and COMMIT once that is on disk. *)

JournalWrites(off, k, v) ==
  << W("journal", off, k), W("journal", off + Len(k), <<KEND>>),
     W("journal", off + Len(k) + 1, <<levelOf(v)>>), W("journal", off + Len(k) + 2, v),
     W("journal", off + Len(k) + 2 + Len(v), <<VEND>>),
     W("journal", off + Len(k) + 3 + Len(v), <<COMMIT>>) >>
JournalLen(k, v) == Len(k) + Len(v) + 4

\* recovery's loop.  At the end of the file read leaves check as it was: the
\* COMMIT of the entry before, if there was one.
RECURSIVE Entries(_, _, _)
Entries(f, pos, check) ==
  LET k == Until(f, pos, KEND)
      v == Until(f, k.next + 1, VEND)
      commit == IF At(f, v.next) = EOF THEN check ELSE At(f, v.next)
  IN IF k.bytes = <<>> \/ At(f, k.next) = EOF \/ v.bytes = <<>> \/ commit # COMMIT
     THEN <<>>
     ELSE <<[key |-> k.bytes, level |-> At(f, k.next), value |-> v.bytes]>>
          \o Entries(f, v.next + 1, commit)

\* rec_put for each of them, each on what the one before has written
RECURSIVE Replay(_, _)
Replay(f, es) ==
  IF es = <<>> THEN <<>>
  ELSE LET e == Head(es)
           ws == DataWrites(f, Len(f), e.key, e.level, e.value)
       IN ws \o Replay(FoldLeft(Apply, f, ws), Tail(es))

\* mutant: the journal is emptied before it has been replayed
MutRecovery == <<W("truncate", 0, <<>>)>> \o Replay(data, Entries(log, 0, NULL))

Recovery == Replay(data, Entries(log, 0, NULL)) \o <<W("truncate", 0, <<>>)>>

-----------------------------------------------------------------------------
(* kvdb_open: both locks, recovery, ftruncate(logfd), unlock *)

Open(p) ==
  /\ pc[p] = "closed"
  /\ holder = NULL
  /\ holder' = p
  /\ todo' = Recovery
  /\ pc' = [pc EXCEPT ![p] = "recovery"]
  /\ logoff' = [logoff EXCEPT ![p] = 0]
  /\ UNCHANGED <<files, arg, puts, crashes, allowed>>

Close(p) ==
  /\ pc[p] = "open"
  /\ pc' = [pc EXCEPT ![p] = "closed"]
  /\ UNCHANGED <<files, arg, logoff, holder, todo, puts, crashes, allowed>>

\* kvdb_put looks at the file's size before it takes the lock.
PutStart(p, k, v) ==
  /\ pc[p] = "open"
  /\ puts < MaxPuts
  /\ puts' = puts + 1
  /\ arg' = [arg EXCEPT ![p] = [key |-> k, value |-> v, size |-> Len(data)]]
  /\ pc' = [pc EXCEPT ![p] = "put"]
  /\ UNCHANGED <<files, logoff, holder, todo, crashes, allowed>>

PutLock(p) ==
  LET k == arg[p].key
      v == arg[p].value
  IN /\ pc[p] = "put"
     /\ holder = NULL
     /\ holder' = p
     /\ todo' = JournalWrites(logoff[p], k, v)
                \o DataWrites(data, arg[p].size, k, levelOf(v), v)
     /\ logoff' = [logoff EXCEPT ![p] = @ + JournalLen(k, v)]
     /\ pc' = [pc EXCEPT ![p] = "write"]
     /\ allowed' = [allowed EXCEPT ![k] = @ \cup {v}]
     /\ UNCHANGED <<files, arg, puts, crashes>>

\* The next write of whoever holds the lock.
Write ==
  /\ todo # <<>>
  /\ LET w == Head(todo) IN
     CASE w.kind = "truncate" -> log' = <<>> /\ UNCHANGED data
       [] w.kind = "journal" -> log' = Apply(log, w) /\ UNCHANGED data
       [] OTHER -> data' = Apply(data, w) /\ UNCHANGED log
  /\ todo' = Tail(todo)
  /\ UNCHANGED <<pc, arg, logoff, holder, puts, crashes, allowed>>

\* kvdb_put returns: it is done and nothing else will do.
PutEnd(p) ==
  /\ pc[p] = "write"
  /\ todo = <<>>
  /\ holder' = NULL
  /\ pc' = [pc EXCEPT ![p] = "open"]
  /\ arg' = [arg EXCEPT ![p] = NULL]
  /\ allowed' = [allowed EXCEPT ![arg[p].key] = {arg[p].value}]
  /\ UNCHANGED <<files, logoff, todo, puts, crashes>>

\* kvdb_open returns: a put that was cut short is now done or not, for good.
OpenEnd(p) ==
  /\ pc[p] = "recovery"
  /\ todo = <<>>
  /\ holder' = NULL
  /\ pc' = [pc EXCEPT ![p] = "open"]
  /\ allowed' = [k \in Key |-> allowed[k] \cap {Get(data, k)}]
  /\ UNCHANGED <<files, arg, logoff, todo, puts, crashes>>

\* The process is killed; its locks go with it, what it wrote stays.
Crash(p) ==
  /\ pc[p] # "closed"
  /\ crashes < MaxCrashes
  /\ holder = p /\ todo # <<>> => Head(todo).kind \in CrashBefore
  /\ crashes' = crashes + 1
  /\ pc' = [pc EXCEPT ![p] = "closed"]
  /\ arg' = [arg EXCEPT ![p] = NULL]
  /\ IF holder = p THEN holder' = NULL /\ todo' = <<>> ELSE UNCHANGED <<holder, todo>>
  /\ UNCHANGED <<files, logoff, puts, allowed>>

-----------------------------------------------------------------------------
Next ==
  \/ Write
  \/ \E p \in Proc :
       \/ Open(p) \/ OpenEnd(p) \/ Close(p) \/ PutLock(p) \/ PutEnd(p) \/ Crash(p)
       \/ \E k \in Key, v \in Value : PutStart(p, k, v)

Spec == Init /\ [][Next]_vars

-----------------------------------------------------------------------------
(* Properties *)

\* Every variable has its type; every write goes to an offset of its file.
TypeOK ==
  /\ data \in Seq(0..255) /\ log \in Seq(0..255)
  /\ pc \in [Proc -> {"closed", "open", "put", "recovery", "write"}]
  /\ \A p \in Proc : arg[p] = NULL \/ (arg[p].key \in Key /\ arg[p].value \in Value)
  /\ logoff \in [Proc -> Nat]
  /\ holder \in Proc \cup {NULL}
  /\ \A i \in DOMAIN todo : todo[i].pos \in Nat
  /\ puts \in 0..MaxPuts /\ crashes \in 0..MaxCrashes
  /\ allowed \in [Key -> SUBSET (Value \cup {NULL})]

\* Some process has the database open and nobody is changing it.
Readable == holder = NULL /\ \E p \in Proc : pc[p] \in {"open", "put"}

\* kvdb_get returns the value of the last put that returned.  A put that was
\* killed is done or not done as a whole, and stays so once kvdb_open has
\* returned; recovery, itself killed and repeated, undoes no later put.
PutsSurvive == Readable => \A k \in Key : Get(data, k) \in allowed[k]

\* The keys of the live records from pos on; NULL where they do not end with a
\* single NUL at the end of the file.
RECURSIVE LiveKeys(_, _)
LiveKeys(f, pos) ==
  LET level == At(f, pos + MDLK)
      rest == LiveKeys(f, pos + MDLK + DLV[level])
  IN IF At(f, pos) = NUL /\ pos + 1 = Len(f) THEN <<>>
     ELSE IF level \notin DOMAIN DLV THEN <<NULL>>
     ELSE IF At(f, pos) = DEL THEN rest ELSE <<Until(f, pos, KEND).bytes>> \o rest

\* Whatever was killed and recovered, the file is a chain of whole records, no
\* two live ones of the same key: the next put finds its place.
FileIsChain ==
  Readable /\ data # <<>> =>
    LET ks == LiveKeys(data, DATA) IN
    /\ NULL \notin {ks[i] : i \in DOMAIN ks}
    /\ \A i, j \in DOMAIN ks : ks[i] = ks[j] => i = j
=============================================================================
