------------------------------ MODULE TreeOps -------------------------------
(***************************************************************************)
(* The tree operation engine: process_tree() and copy_file() of           *)
(* src/simple_file_manager/src/dialog.c.  process_tree is synchronous and  *)
(* recursive, so it is modelled as operators that return every outcome     *)
(* [fs |-> <filesystem after>, ret |-> <return value>] the call can have,  *)
(* and each call is one step of the specification.  The nondeterminism is *)
(* the environment's: the order readdir returns names in, whether src and  *)
(* dst lie on different filesystems (rename fails with EXDEV), and the    *)
(* failures listed in Faults: "ENOSPC", a write() that fails part way,    *)
(* and "EACCES", an opendir() that returns NULL.                          *)
(***************************************************************************)
EXTENDS FileSystem

CONSTANTS
  Faults,     \* the failures the environment may produce
  MaxOps      \* operations per behaviour (a state constraint)

COPY == "copy"   DELETE == "delete"   MOVE == "move"

Outcome(f, r) == [fs |-> f, ret |-> r]

(* copy_file(src, dst): open src, open dst with O_CREAT|O_TRUNC, then     *)
(* write every block read.  Both opens follow links.  The result of       *)
(* write() is not looked at, so a failed write still returns 0.  When dst *)
(* is the file src is, the O_TRUNC empties it before the first read.      *)
CopyFile(fs, src, dst) ==
  LET s == Follow(fs, src)
      t == Follow(fs, dst)
  IN IF s = NOPATH \/ t \in {NOPATH, Root} \/ ~IsFile(fs[s])
          \/ fs[Parent(t)] # DIR \/ fs[t] = DIR
       THEN {Outcome(fs, -1)}
       ELSE LET data    == IF t = s THEN EMPTY ELSE fs[s]
                written == {data} \cup
                           IF "ENOSPC" \in Faults /\ data # EMPTY THEN {PARTIAL} ELSE {}
            IN {Outcome([fs EXCEPT ![t] = d], 0) : d \in written}

RECURSIVE ProcessTree(_, _, _, _, _), EachChild(_, _, _, _, _, _)

(* The while (readdir) loop: process_tree on every child, in the order     *)
(* names, ignoring what each call returns.                                 *)
EachChild(fs, src, dst, op, xdev, names) ==
  IF names = <<>> THEN {fs}
  ELSE LET n == Head(names)
           d == IF op = DELETE THEN NOPATH ELSE Join(dst, n)
       IN UNION {EachChild(o.fs, src, dst, op, xdev, Tail(names)) :
                   o \in ProcessTree(fs, Join(src, n), d, op, xdev)}

(* opendir(src) fails (EACCES: a directory the user may not read) when   *)
(* Faults allows it; the branch then returns -1 with the tree as it is.   *)
OpendirFailed(f) == IF "EACCES" \in Faults THEN {Outcome(f, -1)} ELSE {}

(* opendir(src), which follows links, then the loop, for every order     *)
(* readdir may produce.  No child of a path at the depth bound is walked: *)
(* snprintf could not name it within PATH_MAX.                            *)
Walk(fs, src, dst, op, xdev) ==
  LET names == IF Len(src) < MaxDepth THEN Children(fs, Follow(fs, src)) ELSE {}
  IN UNION {EachChild(fs, src, dst, op, xdev, order) : order \in SetToSeqs(names)}

(* Mutants of MoveTree: unlink(src) whatever copy_file returned; no      *)
(* rmdir(src) after the children were moved.                              *)
MoveTreeUnlinkAlways(fs, src, dst, xdev) ==
  IF dst = NOPATH THEN {Outcome(fs, -1)}
  ELSE IF src = dst THEN {Outcome(fs, 0)}
  ELSE IF ~xdev /\ RenameOk(fs, src, dst) THEN {Outcome(Rename(fs, src, dst), 0)}
  ELSE IF Stat(fs, src) = DIR
    THEN IF ~MkdirOk(fs, dst) THEN {Outcome(fs, -1)}
         ELSE OpendirFailed(Mkdir(fs, dst)) \cup
              {Outcome(Rmdir(f, src), 0) : f \in Walk(Mkdir(fs, dst), src, dst, MOVE, xdev)}
    ELSE {Outcome(Unlink(o.fs, src), o.ret) : o \in CopyFile(fs, src, dst)}

MoveTreeNoRmdir(fs, src, dst, xdev) ==
  IF dst = NOPATH THEN {Outcome(fs, -1)}
  ELSE IF src = dst THEN {Outcome(fs, 0)}
  ELSE IF ~xdev /\ RenameOk(fs, src, dst) THEN {Outcome(Rename(fs, src, dst), 0)}
  ELSE IF Stat(fs, src) = DIR
    THEN IF ~MkdirOk(fs, dst) THEN {Outcome(fs, -1)}
         ELSE OpendirFailed(Mkdir(fs, dst)) \cup
              {Outcome(f, 0) : f \in Walk(Mkdir(fs, dst), src, dst, MOVE, xdev)}
    ELSE {IF o.ret = 0 THEN Outcome(Unlink(o.fs, src), 0) ELSE o :
            o \in CopyFile(fs, src, dst)}

MoveTree(fs, src, dst, xdev) ==
  IF dst = NOPATH THEN {Outcome(fs, -1)}
  ELSE IF src = dst THEN {Outcome(fs, 0)}
  ELSE IF ~xdev /\ RenameOk(fs, src, dst) THEN {Outcome(Rename(fs, src, dst), 0)}
  ELSE IF Stat(fs, src) = DIR
    THEN IF ~MkdirOk(fs, dst) THEN {Outcome(fs, -1)}
         ELSE OpendirFailed(Mkdir(fs, dst)) \cup
              {Outcome(Rmdir(f, src), 0) : f \in Walk(Mkdir(fs, dst), src, dst, MOVE, xdev)}
    ELSE {IF o.ret = 0 THEN Outcome(Unlink(o.fs, src), 0) ELSE o :
            o \in CopyFile(fs, src, dst)}

(* Mutant of CopyTree: a failed mkdir(dst) does not end the branch.      *)
CopyTreeIgnoreMkdir(fs, src, dst, xdev) ==
  IF Stat(fs, src) = DIR
    THEN LET g == IF MkdirOk(fs, dst) THEN Mkdir(fs, dst) ELSE fs
         IN OpendirFailed(g) \cup {Outcome(f, 0) : f \in Walk(g, src, dst, COPY, xdev)}
    ELSE CopyFile(fs, src, dst)

CopyTree(fs, src, dst, xdev) ==
  IF Stat(fs, src) = DIR
    THEN IF ~MkdirOk(fs, dst) THEN {Outcome(fs, -1)}
         ELSE OpendirFailed(Mkdir(fs, dst)) \cup
              {Outcome(f, 0) : f \in Walk(Mkdir(fs, dst), src, dst, COPY, xdev)}
    ELSE CopyFile(fs, src, dst)

(* Mutant of DeleteTree: rmdir(src) before the children are deleted.     *)
DeleteTreeRmdirFirst(fs, src, xdev) ==
  IF Stat(fs, src) = DIR
    THEN LET g == Rmdir(fs, src)
         IN OpendirFailed(g) \cup {Outcome(f, 0) : f \in Walk(g, src, NOPATH, DELETE, xdev)}
    ELSE {Outcome(Unlink(fs, src), 0)}

DeleteTree(fs, src, xdev) ==
  IF Stat(fs, src) = DIR
    THEN OpendirFailed(fs) \cup
         {Outcome(Rmdir(f, src), 0) : f \in Walk(fs, src, NOPATH, DELETE, xdev)}
    ELSE {Outcome(Unlink(fs, src), 0)}

ProcessTree(fs, src, dst, op, xdev) ==
  IF Stat(fs, src) = NONE THEN {Outcome(fs, -1)}
  ELSE CASE op = MOVE   -> MoveTree(fs, src, dst, xdev)
         [] op = COPY   -> CopyTree(fs, src, dst, xdev)
         [] op = DELETE -> DeleteTree(fs, src, xdev)

(***************************************************************************)
(* The engine as a state machine: each step is one call of process_tree   *)
(* as copy_dialog, move_dialog and delete_directory_dialog make it.  src   *)
(* is "<cwd>/<name>" for a listed name other than "." and "..", dst is     *)
(* "<typed directory>/<name>" built by build_path_alloc.                   *)
(***************************************************************************)
VARIABLES
  fs,    \* the filesystem
  req,   \* the last call: [op, src, dst]
  ret,   \* what it returned
  ops    \* calls made so far

vars == <<fs, req, ret, ops>>

Sources == Paths \ {Root}
Targets(src) == {Append(d, Last(src)) : d \in {q \in Paths : Len(q) < MaxDepth}}

(* A destination the bounded paths can hold the copied subtree at.        *)
Fits(src, dst) == FitsBelow(fs, src, dst)

Call(op, src, dst, xdev) ==
  /\ \E o \in ProcessTree(fs, src, dst, op, xdev) :
       /\ fs'  = o.fs
       /\ ret' = o.ret
  /\ req' = [op |-> op, src |-> src, dst |-> dst]
  /\ ops' = ops + 1

Copy(src, dst) == Fits(src, dst) /\ Call(COPY, src, dst, FALSE)

Move(src, dst, xdev) == Fits(src, dst) /\ Call(MOVE, src, dst, xdev)

Delete(src) == Call(DELETE, src, NOPATH, FALSE)

Init ==
  /\ fs \in InitialTrees
  /\ req = [op |-> "none", src |-> NOPATH, dst |-> NOPATH]
  /\ ret = 0
  /\ ops = 0

Next ==
  /\ ops < MaxOps
  /\ \/ \E src \in Sources : \E dst \in Targets(src) : Copy(src, dst)
     \/ \E src \in Sources : \E dst \in Targets(src), xdev \in BOOLEAN : Move(src, dst, xdev)
     \/ \E src \in Sources : Delete(src)

Spec == Init /\ [][Next]_vars

TypeOK ==
  /\ DOMAIN fs = Paths
  /\ \A p \in Paths : \/ fs[p] \in {NONE, DIR, EMPTY, PARTIAL} \cup Paths
                      \/ IsLink(fs[p]) /\ fs[p][2] \in Paths
  /\ WellFormed(fs)
  /\ req.op \in {"none", COPY, MOVE, DELETE}
  /\ ret \in {-1, 0}
  /\ ops \in Nat

(***************************************************************************)
(* Properties of one call.  fs is the tree before the call, fs' after,    *)
(* req' and ret' the call and its result.                                  *)
(***************************************************************************)

(* A file below the source of a move keeps its data: after move_dialog's   *)
(* process_tree(OP_MOVE) it is still where it was or at its place below    *)
(* dst, whichever of rename, the copy-then-unlink fallback and the         *)
(* recursive directory fallback ran.                                       *)
MoveKeepsData ==
  [][req'.op = MOVE =>
       \A q \in Paths :
         Under(q, req'.src) /\ IsFile(fs[q]) =>
           \/ fs'[q] = fs[q]
           \/ LET r == Rebase(q, req'.src, req'.dst)
              IN r \in Paths /\ fs'[r] = fs[q]]_vars

(* A move onto a fresh path outside the source that returns 0 has moved    *)
(* the whole tree: nothing is left at src and every node is at its place   *)
(* below dst, also when rename failed and the fallback walked the tree.    *)
MoveRelocatesTree ==
  [][req'.op = MOVE /\ ret' = 0 /\ fs[req'.dst] = NONE /\ ~Under(req'.dst, req'.src) =>
       \A q \in Paths :
         Under(q, req'.src) =>
           /\ fs'[q] = NONE
           /\ Rebase(q, req'.src, req'.dst) \in Paths =>
                fs'[Rebase(q, req'.src, req'.dst)] = fs[q]]_vars

(* A copy onto a fresh path outside the source that returns 0 has made a  *)
(* node-for-node copy below dst and left the source as it was.            *)
CopyMirrorsTree ==
  [][req'.op = COPY /\ ret' = 0 /\ fs[req'.dst] = NONE /\ ~Under(req'.dst, req'.src) =>
       \A q \in Paths :
         Under(q, req'.src) =>
           /\ fs'[q] = fs[q]
           /\ Rebase(q, req'.src, req'.dst) \in Paths =>
                fs'[Rebase(q, req'.src, req'.dst)] = fs[q]]_vars

(* Deleting an existing node removes it and everything below it, and      *)
(* nothing else: the children are deleted before rmdir(src).              *)
DeleteRemovesTree ==
  [][req'.op = DELETE /\ fs[req'.src] # NONE =>
       \A q \in Paths : fs'[q] = IF Under(q, req'.src) THEN NONE ELSE fs[q]]_vars

(* Copying never changes the data of a file it copies from (spec 8: "the  *)
(* source tree remains untouched").                                        *)
CopyKeepsSourceData ==
  [][req'.op = COPY =>
       \A q \in Paths : Under(q, req'.src) /\ IsFile(fs[q]) => fs'[q] = fs[q]]_vars

(* A delete changes nothing outside the subtree of the path it is given:   *)
(* delete_directory_dialog offers a symbolic link to a directory as        *)
(* "Delete directory", and process_tree(OP_DELETE) must remove that entry, *)
(* not what it points at (spec 4.2, step 4: "for a file, unlink it       *)
(* directly").                                                              *)
DeleteStaysInTree ==
  [][req'.op = DELETE =>
       \A q \in Paths : ~Under(q, req'.src) => fs'[q] = fs[q]]_vars
=============================================================================
