----------------------------- MODULE FileSystem -----------------------------
(***************************************************************************)
(* The filesystem the file manager works on, as the POSIX calls used by    *)
(* src/simple_file_manager/src/dialog.c and panel.c see it: a tree of      *)
(* named nodes below a root.  A path is a sequence of names (<<>> is the   *)
(* root); a node is absent (NONE), a directory (DIR) or a regular file     *)
(* whose data is a tag.  A file's tag is the path it was created at, so    *)
(* the model can tell where the bytes of every original file went.  EMPTY  *)
(* is a file truncated to zero bytes, PARTIAL one whose copy stopped       *)
(* after a failed write.  A symbolic link is <<LINK, target>>, with an     *)
(* absolute target path; every call resolves the paths it is given        *)
(* through the links on them, as the kernel does.                         *)
(***************************************************************************)
EXTENDS Naturals, Sequences, SequencesExt

CONSTANTS
  Names,      \* the names a directory entry can have
  MaxDepth,   \* the deepest path: stands for PATH_MAX
  InitDepth,  \* initial trees have nodes at most this deep
  LinkTargets,  \* what the symbolic links of an initial tree may point to
  MaxLinks,   \* links one lookup may follow before ELOOP (MAXSYMLINKS)
  NONE, DIR, EMPTY, PARTIAL, NOPATH, LINK

ASSUME MaxDepth \in Nat \ {0} /\ InitDepth \in 1..MaxDepth /\ MaxLinks \in Nat

Paths == UNION {[1..k -> Names] : k \in 0..MaxDepth}
Root  == <<>>

Data == Paths \cup {EMPTY, PARTIAL}
Link(t) == <<LINK, t>>
IsLink(n) == n \notin {NONE, DIR, EMPTY, PARTIAL} /\ n[1] = LINK
IsFile(n) == n \notin {NONE, DIR} /\ ~IsLink(n)

Parent(p) == Front(p)

(* q is p itself or lies below p.                                          *)
Under(q, p) == IsPrefix(p, q)

(* snprintf(path, PATH_MAX, "%s/%s", dir, name) in the recursive walk:     *)
(* at the length limit the result is truncated, here back to dir.          *)
Join(p, n) == IF Len(p) < MaxDepth THEN Append(p, n) ELSE p

(* The path q below p moved to below d.                                    *)
Rebase(q, p, d) == d \o SubSeq(q, Len(p) + 1, Len(q))

(* The names readdir returns for p, without "." and "..".                  *)
Children(fs, p) == {n \in Names : Len(p) < MaxDepth /\ fs[Append(p, n)] # NONE}

(* Path lookup from directory d through the names rest with k links left  *)
(* to follow: a link's target replaces it and the names after it are      *)
(* looked up below the target.  More links than MaxLinks is ELOOP, a name  *)
(* below the depth bound cannot exist; both are NOPATH.  The path found    *)
(* need not exist.                                                         *)
RECURSIVE Lookup(_, _, _, _)
Lookup(fs, d, rest, k) ==
  IF rest = <<>> THEN d
  ELSE IF Len(d) = MaxDepth THEN NOPATH
  ELSE LET q == Append(d, Head(rest))
       IN IF ~IsLink(fs[q]) THEN Lookup(fs, q, Tail(rest), k)
          ELSE IF k = 0 THEN NOPATH
          ELSE Lookup(fs, Root, fs[q][2] \o Tail(rest), k - 1)

(* The node stat, opendir and open reach: every link followed.            *)
Follow(fs, p) == Lookup(fs, Root, p, MaxLinks)

(* The node lstat, unlink, rmdir, mkdir and rename act on: the links of   *)
(* the parent followed, the last name taken as it is.                     *)
Loc(fs, p) ==
  IF p = Root THEN Root
  ELSE LET d == Follow(fs, Parent(p))
       IN IF d = NOPATH \/ Len(d) = MaxDepth THEN NOPATH ELSE Append(d, Last(p))

(* What stat(p) reports: NONE when it fails.                               *)
Stat(fs, p) == LET r == Follow(fs, p) IN IF r = NOPATH THEN NONE ELSE fs[r]

WellFormed(fs) ==
  /\ fs[Root] = DIR
  /\ \A p \in Paths \ {Root} : fs[p] # NONE => fs[Parent(p)] = DIR

(* The trees a session can start on: every shape up to InitDepth, each     *)
(* file holding its own tag, each link pointing into LinkTargets.  In the  *)
(* choice k, EMPTY stands for "a file here".                               *)
InitialTrees ==
  LET Shallow == {p \in Paths : Len(p) \in 1..InitDepth}
      Kinds   == {NONE, DIR, EMPTY} \cup {Link(t) : t \in LinkTargets}
      Tree(k) == [p \in Paths |-> IF p = Root THEN DIR
                                  ELSE IF p \notin Shallow THEN NONE
                                  ELSE IF k[p] = EMPTY THEN p
                                  ELSE k[p]]
  IN {fs \in {Tree(k) : k \in [Shallow -> Kinds]} : WellFormed(fs)}

(* The POSIX calls process_tree makes, each as the change it makes.  The  *)
(* paths are those the code passes; each call resolves them itself.       *)
MkdirOk(fs, p) ==
  LET l == Loc(fs, p)
  IN l \notin {NOPATH, Root} /\ fs[l] = NONE /\ fs[Parent(l)] = DIR
Mkdir(fs, p) == [fs EXCEPT ![Loc(fs, p)] = DIR]

(* rmdir(p) fails, changing nothing, on a directory that is not empty and *)
(* on anything that is not a directory, a link to one included (ENOTDIR). *)
Rmdir(fs, p) ==
  LET l == Loc(fs, p)
  IN IF l # NOPATH /\ fs[l] = DIR /\ Children(fs, l) = {}
       THEN [fs EXCEPT ![l] = NONE] ELSE fs

(* unlink(p) removes a file or the link itself.                            *)
Unlink(fs, p) ==
  LET l == Loc(fs, p)
  IN IF l # NOPATH /\ (IsFile(fs[l]) \/ IsLink(fs[l]))
       THEN [fs EXCEPT ![l] = NONE] ELSE fs

(* rename(src, dst) moves the node src names (a link itself, not its      *)
(* target).  On one filesystem it succeeds unless dst's parent is not a   *)
(* directory, dst lies below src (EINVAL), a directory would replace a    *)
(* file or a non-empty directory, or a file would replace a directory.    *)
RenameOk(fs, src, dst) ==
  LET s == Loc(fs, src)
      t == Loc(fs, dst)
  IN /\ s # NOPATH /\ t \notin {NOPATH, Root} /\ fs[Parent(t)] = DIR
     /\ ~IsStrictPrefix(s, t)
     /\ IF fs[s] = DIR
          THEN fs[t] = NONE \/ (fs[t] = DIR /\ Children(fs, t) = {})
          ELSE fs[t] # DIR

Rename(fs, src, dst) ==
  LET s == Loc(fs, src)
      t == Loc(fs, dst)
  IN [q \in Paths |->
        IF Under(q, t)
          THEN LET o == s \o SubSeq(q, Len(t) + 1, Len(q))
               IN IF o \in Paths THEN fs[o] ELSE NONE
        ELSE IF Under(q, s) THEN NONE
        ELSE fs[q]]

(* The subtree at src fits below dst within MaxDepth: rename and copy     *)
(* must not carry a node past the bound, which limits the destinations    *)
(* the model offers.                                                      *)
FitsBelow(fs, src, dst) ==
  \A q \in Paths : fs[q] # NONE /\ Under(q, src) => Len(dst) + Len(q) - Len(src) <= MaxDepth
=============================================================================
