-------------------------------- MODULE FsSpec ------------------------------
(* What the file system promises its users: a tree of directories whose      *)
(* files may have several names.  A command does one of these things as a    *)
(* whole, or nothing; any of them may be refused.  An operation relates the  *)
(* tree t before it to the tree u after it.  Some uses it does not survive:  *)
(* after them it promises nothing.                                           *)
EXTENDS Integers, Sequences

CONSTANTS
  Path,   \* non-empty sequences of names
  File,   \* identities of files
  Text,   \* what can be stored in a file
  EMPTY   \* the text of a new file

VARIABLES
  tree,   \* dirs: the paths of directories (the root is one without saying);
          \* files: from the paths of files to their identities;
          \* text: [File -> its text]
  intact  \* nobody has spoilt it

Parent(p) == SubSeq(p, 1, Len(p) - 1)
Dirs(t) == t.dirs \cup {<<>>}
Paths(t) == t.dirs \cup DOMAIN t.files
Named(t) == {t.files[p] : p \in DOMAIN t.files}

\* p can be the path of something new
Vacant(t, p) == p \notin Paths(t) /\ Parent(p) \in Dirs(t)

Init ==
  /\ intact = TRUE
  /\ tree.dirs \subseteq {p \in Path : Len(p) = 1}
  /\ tree.files = <<>>
  /\ tree.text = [f \in File |-> EMPTY]

Mkdir(t, u) ==
  /\ u.files = t.files /\ u.text = t.text
  /\ \E p \in u.dirs : Vacant(t, p) /\ u.dirs = t.dirs \cup {p}

Rmdir(t, u) ==
  /\ u.files = t.files /\ u.text = t.text
  /\ \E p \in t.dirs : /\ \A q \in Paths(t) : Parent(q) # p
                       /\ u.dirs = t.dirs \ {p}

\* p becomes a name of file f.
NewName(t, u, p, f) ==
  /\ Vacant(t, p)
  /\ u.dirs = t.dirs
  /\ u.files = [q \in DOMAIN t.files \cup {p} |-> IF q = p THEN f ELSE t.files[q]]

\* A new file, written at once or left empty.
Create(t, u) ==
  \E p \in DOMAIN u.files : \E x \in Text \cup {EMPTY} :
    /\ NewName(t, u, p, u.files[p])
    /\ u.files[p] \notin Named(t)
    /\ u.text = [t.text EXCEPT ![u.files[p]] = x]

\* All the names of a file show the same text.
Store(t, u) ==
  /\ u.dirs = t.dirs /\ u.files = t.files
  /\ \E f \in Named(t), x \in Text \cup {EMPTY} : u.text = [t.text EXCEPT ![f] = x]

Link(t, u) ==
  /\ u.text = t.text
  /\ \E p \in DOMAIN u.files : u.files[p] \in Named(t) /\ NewName(t, u, p, u.files[p])

\* A file and its text live as long as it has a name.
Unlink(t, u) ==
  /\ u.dirs = t.dirs
  /\ \E p \in DOMAIN t.files : u.files = [q \in DOMAIN t.files \ {p} |-> t.files[q]]
  /\ u.text = [f \in File |-> IF f \in Named(u) THEN t.text[f] ELSE EMPTY]

Step(t, u) ==
  Mkdir(t, u) \/ Rmdir(t, u) \/ Create(t, u) \/ Store(t, u) \/ Link(t, u) \/ Unlink(t, u)

\* (Bound by a quantifier, a tree is computed once where this is evaluated.)
Next ==
  /\ intact
  /\ \/ intact' = FALSE
     \/ intact' = TRUE /\ \E t \in {tree}, u \in {tree'} : Step(t, u)

Spec == Init /\ [][Next]_<<intact, tree>>
=============================================================================
