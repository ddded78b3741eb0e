-------------------------------- MODULE App ---------------------------------
(***************************************************************************)
(* The file manager as a whole: run_app's main loop (app.c) calling        *)
(* handle_input (ui.c) on two panels (panel.c) over one filesystem, with   *)
(* the dialog actions of dialog.c.  Each step is one call of handle_input  *)
(* with one input event, including everything the handler it reaches does: *)
(* the dialog it opens (abstracted to its outcome: rejected, or accepted   *)
(* with a text), the process_tree call (the operators of TreeOps) and the  *)
(* load_directory calls after it.                                          *)
(*                                                                         *)
(* A panel is a record: cwd (p->cwd), list (p->entries as name and d_type  *)
(* of each entry, <<>> when NULL), count, sel (p->selected) and, as a      *)
(* ghost, shown: the cwd the listing was read from.  The panel is taken    *)
(* taller than any listing, so every entry is on screen and scroll stays   *)
(* 0; the viewport arithmetic of move_selection is checked in Panel.       *)
(***************************************************************************)
EXTENDS FileSystem, FiniteSets

CONSTANTS
  NameOrder,  \* the names in alphasort order (all sort after "..")
  Faults,     \* write failures of copy_file, as in TreeOps
  MaxSteps    \* input events per behaviour

ASSUME NameOrder \in Seq(Names) /\ MaxSteps \in Nat

VARIABLES
  fs,         \* the filesystem
  pan,        \* the two panels
  active,     \* app->active
  lastClick,  \* handle_input's static last_click_idx
  running,    \* run_app's running
  crashed,    \* a NULL entries array was dereferenced
  ev,         \* the handler of the last event and the panel it acted on
  clickAt,    \* ghost: panel and listing of the click last_click_idx holds
  lapsed,     \* 0.5 s of wall time have passed since last_click_time
  steps       \* events handled

vars == <<fs, pan, active, lastClick, running, crashed, ev, clickAt, lapsed, steps>>

TO == INSTANCE TreeOps WITH req <- NOPATH, ret <- 0, ops <- 0, MaxOps <- 0

P == {0, 1}   \* app->left, app->right

(* scandir(d, ..., alphasort): ".", "..", then the names in order, each    *)
(* with d_type DT_DIR or not.                                              *)
Listing(f, d) ==
  LET S == SelectSeq(NameOrder, LAMBDA n : n \in Children(f, d))
  IN  <<[n |-> ".", dir |-> TRUE], [n |-> "..", dir |-> TRUE]>>
      \o [i \in 1..Len(S) |-> [n |-> S[i], dir |-> f[Append(d, S[i])] = DIR]]

(* load_directory(p) on the filesystem f: free_panel, scandir; on failure  *)
(* count is -1 and entries NULL, selected is kept; on success selected is  *)
(* the index of "..", which sorts second.                                  *)
LoadRecNoReset(r, f) ==
  IF f[r.cwd] = DIR
    THEN [r EXCEPT !.list = Listing(f, r.cwd), !.count = Len(Listing(f, r.cwd)),
                   !.shown = r.cwd]
    ELSE [r EXCEPT !.list = <<>>, !.count = -1]

LoadRec(r, f) ==
  IF f[r.cwd] = DIR
    THEN [r EXCEPT !.list = Listing(f, r.cwd), !.count = Len(Listing(f, r.cwd)),
                   !.sel = 1, !.shown = r.cwd]
    ELSE [r EXCEPT !.list = <<>>, !.count = -1]

Sel(r) == r.list[r.sel + 1]

RECURSIVE Resolve(_, _)
(* realpath: resolve the components cs after the resolved prefix r.  A    *)
(* missing component, or a non-directory with components after it, fails *)
(* with the path resolved so far, that component included.                *)
Resolve(r, cs) ==
  IF cs = <<>> THEN [ok |-> TRUE, path |-> r]
  ELSE LET c == Head(cs) IN
    IF c = "." THEN Resolve(r, Tail(cs))
    ELSE IF c = ".." THEN Resolve(IF r = Root THEN Root ELSE Parent(r), Tail(cs))
    ELSE LET q == Append(r, c) IN
      IF fs[q] = NONE \/ (IsFile(fs[q]) /\ Tail(cs) # <<>>)
        THEN [ok |-> FALSE, path |-> q]
        ELSE Resolve(q, Tail(cs))

(* enter_directory on a loaded panel, as the panel records it can leave.  *)
(* Not a DT_DIR entry: nothing.  "<cwd>/<name>" longer than PATH_MAX:      *)
(* nothing.  realpath(new_path, p->cwd) succeeds: load.  It fails: no      *)
(* load, and p->cwd is either untouched or, as glibc does, overwritten     *)
(* with the prefix it resolved (POSIX leaves the buffer undefined).        *)
EnterDirs(r) ==
  LET e   == Sel(r)
      res == Resolve(Root, r.cwd \o <<e.n>>)
  IN IF ~e.dir \/ Len(r.cwd) = MaxDepth THEN {r}
     ELSE IF res.ok THEN {LoadRec([r EXCEPT !.cwd = res.path], fs)}
     ELSE {r, [r EXCEPT !.cwd = res.path]}

(* move_selection with every entry visible.                                *)
MoveSel(r, d) ==
  IF r.count <= 0 THEN r
  ELSE [r EXCEPT !.sel = IF r.sel + d < 0 THEN 0
                         ELSE IF r.sel + d >= r.count THEN r.count - 1
                         ELSE r.sel + d]

(* The selected entry an action may use: count > 0, not "." or "..".       *)
Pickable(r) == r.count > 0 /\ Sel(r).n \notin {".", ".."}

(* One call of handle_input for handler h on panel p.                      *)
Event(h, p) ==
  /\ running /\ ~crashed /\ steps < MaxSteps
  /\ ev' = [h |-> h, p |-> p]
  /\ steps' = steps + 1

(***************************************************************************)
(* Keys and mouse events of handle_input.                                  *)
(***************************************************************************)
Quit ==
  /\ Event("quit", active)
  /\ running' = FALSE
  /\ UNCHANGED <<fs, pan, active, lastClick, crashed, clickAt, lapsed>>

Tab ==
  /\ Event("tab", active)
  /\ active' = 1 - active
  /\ UNCHANGED <<fs, pan, lastClick, running, crashed, clickAt, lapsed>>

Arrow(d) ==
  /\ Event("arrow", active)
  /\ pan' = [pan EXCEPT ![active] = MoveSel(@, d)]
  /\ UNCHANGED <<fs, active, lastClick, running, crashed, clickAt, lapsed>>

(* Enter: enter_directory(p) reads p->entries[p->selected] first.          *)
KeyEnter ==
  /\ Event("enter", active)
  /\ IF pan[active].count < 0
       THEN crashed' = TRUE /\ UNCHANGED pan
       ELSE \E r \in EnterDirs(pan[active]) :
              pan' = [pan EXCEPT ![active] = r] /\ UNCHANGED crashed
  /\ UNCHANGED <<fs, active, lastClick, running, clickAt, lapsed>>

(* Mouse wheel over panel p: p becomes active, move_selection(p, d).      *)
Wheel(p, d) ==
  /\ Event("wheel", p)
  /\ active' = p
  /\ pan' = [pan EXCEPT ![p] = MoveSel(@, d)]
  /\ UNCHANGED <<fs, lastClick, running, crashed, clickAt, lapsed>>

(* Button-1 release on row idx of panel p: p becomes active; a row that   *)
(* is an entry is selected, and entered when it equals last_click_idx and *)
(* the second release is quick: clock(), the process's CPU time, advanced *)
(* less than 0.5 s since last_click_time.                                  *)
ClickRecordAlways(p, idx, quick) ==
  /\ active' = p
  /\ IF idx \in 0..pan[p].count - 1
       THEN LET r == [pan[p] EXCEPT !.sel = idx] IN
            IF idx = lastClick /\ quick
              THEN /\ Event("dblclick", p)
                   /\ \E r2 \in EnterDirs(r) : pan' = [pan EXCEPT ![p] = r2]
                   /\ lastClick' = -1
                   /\ clickAt' = NONE
                   /\ UNCHANGED lapsed
              ELSE /\ Event("click", p)
                   /\ pan' = [pan EXCEPT ![p] = r]
                   /\ lastClick' = idx
                   /\ clickAt' = <<p, pan[p].list>>
                   /\ lapsed' = FALSE
       ELSE /\ Event("click", p)
            /\ lastClick' = idx
            /\ UNCHANGED <<pan, clickAt, lapsed>>
  /\ UNCHANGED <<fs, running, crashed>>

Click(p, idx, quick) ==
  /\ active' = p
  /\ IF idx \in 0..pan[p].count - 1
       THEN LET r == [pan[p] EXCEPT !.sel = idx] IN
            IF idx = lastClick /\ quick
              THEN /\ Event("dblclick", p)
                   /\ \E r2 \in EnterDirs(r) : pan' = [pan EXCEPT ![p] = r2]
                   /\ lastClick' = -1
                   /\ clickAt' = NONE
                   /\ UNCHANGED lapsed
              ELSE /\ Event("click", p)
                   /\ pan' = [pan EXCEPT ![p] = r]
                   /\ lastClick' = idx
                   /\ clickAt' = <<p, pan[p].list>>
                   /\ lapsed' = FALSE
       ELSE /\ Event("click", p)
            /\ UNCHANGED <<pan, lastClick, clickAt, lapsed>>
  /\ UNCHANGED <<fs, running, crashed>>

(***************************************************************************)
(* The dialog actions of dialog.c, bound to hotkeys and buttons.           *)
(***************************************************************************)

(* A destination directory the user can type into the input dialog; its  *)
(* default is the other panel's cwd.                                       *)
Dirs == {d \in Paths : Len(d) < MaxDepth}

(* create_directory_dialog: on accept, mkdir("<cwd>/<name>"), whose       *)
(* result is ignored, then load_directory(p).                              *)
MakeDir ==
  /\ Event("mkdir", active)
  /\ \E accept \in BOOLEAN, n \in Names :
       IF ~accept THEN UNCHANGED <<fs, pan>>
       ELSE LET path == Append(pan[active].cwd, n)
                f    == IF Len(pan[active].cwd) < MaxDepth /\ MkdirOk(fs, path)
                          THEN Mkdir(fs, path) ELSE fs
            IN /\ fs' = f
               /\ pan' = [pan EXCEPT ![active] = LoadRec(@, f)]
  /\ UNCHANGED <<active, lastClick, running, crashed, clickAt, lapsed>>

(* copy_dialog: the selected entry of the active panel, copied into the   *)
(* typed directory; then load_directory(dst panel) only.                   *)
Copy ==
  LET p == active  q == 1 - active IN
  /\ Event("copy", p)
  /\ Pickable(pan[p])
  /\ \E accept \in BOOLEAN, dir \in Dirs :
       IF ~accept THEN UNCHANGED <<fs, pan>>
       ELSE LET src == Append(pan[p].cwd, Sel(pan[p]).n)
                dst == Append(dir, Sel(pan[p]).n)
            IN /\ FitsBelow(fs, src, dst)
               /\ \E o \in TO!ProcessTree(fs, src, dst, TO!COPY, FALSE) :
                    /\ fs' = o.fs
                    /\ pan' = [pan EXCEPT ![q] = LoadRec(@, o.fs)]
  /\ UNCHANGED <<active, lastClick, running, crashed, clickAt, lapsed>>

(* move_dialog: as copy, with a rename that may fail with EXDEV; then     *)
(* load_directory(src panel) and load_directory(dst panel).                *)
Move ==
  LET p == active  q == 1 - active IN
  /\ Event("move", p)
  /\ Pickable(pan[p])
  /\ \E accept \in BOOLEAN, dir \in Dirs, xdev \in BOOLEAN :
       IF ~accept THEN UNCHANGED <<fs, pan>>
       ELSE LET src == Append(pan[p].cwd, Sel(pan[p]).n)
                dst == Append(dir, Sel(pan[p]).n)
            IN /\ FitsBelow(fs, src, dst)
               /\ \E o \in TO!ProcessTree(fs, src, dst, TO!MOVE, xdev) :
                    /\ fs' = o.fs
                    /\ pan' = [pan EXCEPT ![p] = LoadRec(@, o.fs),
                                          ![q] = LoadRec(@, o.fs)]
  /\ UNCHANGED <<active, lastClick, running, crashed, clickAt, lapsed>>

(* delete_directory_dialog: stat fails: nothing; confirm dialog; on       *)
(* confirm process_tree(OP_DELETE) and load_directory(p).                  *)
DeleteNoReload ==
  LET p == active
      path == Append(pan[p].cwd, Sel(pan[p]).n)
  IN
  /\ Event("delete", p)
  /\ Pickable(pan[p])
  /\ \E confirm \in BOOLEAN :
       IF Stat(fs, path) = NONE \/ ~confirm THEN UNCHANGED <<fs, pan>>
       ELSE \E o \in TO!ProcessTree(fs, path, NOPATH, TO!DELETE, FALSE) :
              /\ fs' = o.fs
              /\ UNCHANGED pan
  /\ UNCHANGED <<active, lastClick, running, crashed, clickAt, lapsed>>

Delete ==
  LET p == active
      path == Append(pan[p].cwd, Sel(pan[p]).n)
  IN
  /\ Event("delete", p)
  /\ Pickable(pan[p])
  /\ \E confirm \in BOOLEAN :
       IF Stat(fs, path) = NONE \/ ~confirm THEN UNCHANGED <<fs, pan>>
       ELSE \E o \in TO!ProcessTree(fs, path, NOPATH, TO!DELETE, FALSE) :
              /\ fs' = o.fs
              /\ pan' = [pan EXCEPT ![p] = LoadRec(@, o.fs)]
  /\ UNCHANGED <<active, lastClick, running, crashed, clickAt, lapsed>>

(* open_file_dialog: a file that stat finds is opened in nano; the        *)
(* editor changes at most the file's bytes, which no panel records.        *)
OpenFile ==
  /\ Event("open", active)
  /\ Pickable(pan[active])
  /\ UNCHANGED <<fs, pan, active, lastClick, running, crashed, clickAt, lapsed>>

(* The main loop idling: getch returns ERR, handle_input returns 1, napms *)
(* sleeps.  Wall time passes, 0.5 s of it at some point; the CPU time     *)
(* clock() measures hardly moves while the process sleeps.                *)
Wait ==
  /\ running /\ ~crashed /\ ~lapsed
  /\ lapsed' = TRUE
  /\ ev' = [h |-> "idle", p |-> active]
  /\ UNCHANGED <<fs, pan, active, lastClick, running, crashed, clickAt, steps>>

(* The values quick can take: a single-threaded process uses no more CPU  *)
(* time than wall time passes, so before 0.5 s of wall time the release   *)
(* is quick; after, it is quick or not, as much CPU as the loop used.     *)
Quick == IF lapsed THEN BOOLEAN ELSE {TRUE}

(* run_app: both panels start in the process's cwd, taken as "/", and are *)
(* loaded after update_layout.                                             *)
Init ==
  /\ fs \in InitialTrees
  /\ pan = [p \in P |-> LoadRec([cwd |-> Root, list |-> <<>>, count |-> -1,
                                 sel |-> 0, shown |-> Root], fs)]
  /\ active = 0
  /\ lastClick = -1
  /\ running = TRUE
  /\ crashed = FALSE
  /\ ev = [h |-> "start", p |-> 0]
  /\ clickAt = NONE
  /\ lapsed = FALSE
  /\ steps = 0

Next ==
  \/ Quit \/ Tab \/ KeyEnter \/ MakeDir \/ Copy \/ Move \/ Delete \/ OpenFile \/ Wait
  \/ \E d \in {-1, 1} : Arrow(d) \/ \E p \in P : Wheel(p, d)
  \/ \E p \in P, idx \in -1..Len(NameOrder) + 2, quick \in Quick : Click(p, idx, quick)

Spec == Init /\ [][Next]_vars

Entries == [n : Names \cup {".", ".."}, dir : BOOLEAN]

TypeOK ==
  /\ WellFormed(fs)
  /\ pan \in [P -> [cwd : Paths, list : Seq(Entries), count : -1..Len(NameOrder) + 2,
                    sel : Int, shown : Paths]]
  /\ active \in P
  /\ lastClick \in -1..Len(NameOrder) + 1
  /\ running \in BOOLEAN /\ crashed \in BOOLEAN /\ lapsed \in BOOLEAN
  /\ steps \in 0..MaxSteps

(***************************************************************************)
(* Properties                                                              *)
(***************************************************************************)

(* The panel shows the current listing of its directory.                   *)
Current(p, f, pn) == pn[p].list = Listing(f, pn[p].cwd)

(* Whatever either panel did before, a loaded panel's selection indexes   *)
(* one of its entries: copy_dialog, delete_directory_dialog and            *)
(* enter_directory read p->entries[p->selected] unchecked.                 *)
SelectionInRange ==
  \A p \in P : pan[p].count > 0 => pan[p].sel \in 0..pan[p].count - 1

(* The panel an action is started from shows the result: if it was        *)
(* current before the action changed the filesystem, it is current after. *)
(* copy_dialog reloads only the destination panel, which is enough only   *)
(* because a copy never changes its source's directory listing.            *)
ActingPanelCurrent ==
  [][fs' # fs /\ Current(ev'.p, fs, pan) => Current(ev'.p, fs', pan')]_vars

(* Spec 2: after a tree operation the affected panels are reloaded: every *)
(* panel that was current is current after any change to the filesystem. *)
PanelsCurrent ==
  [][fs' # fs => \A p \in P : Current(p, fs, pan) => Current(p, fs', pan')]_vars

(* Spec 3 (enterDirectory): on a resolution failure the current path is   *)
(* unchanged, so a loaded listing is always the listing of p->cwd's dir.  *)
CwdIsShown == \A p \in P : pan[p].count >= 0 => pan[p].cwd = pan[p].shown

(* Spec 4.4: a double click is a second release on the same row within a  *)
(* short time window: the entry entered was the one clicked first, in the *)
(* same panel and listing, and the first click was under 0.5 s ago.  Both *)
(* rest on handle_input's statics last_click_idx and last_click_time.     *)
DoubleClickSameListing ==
  [][ev'.h = "dblclick" => clickAt = <<ev'.p, pan[ev'.p].list>> /\ ~lapsed]_vars
=============================================================================
