------------------------------- MODULE Panel --------------------------------
(***************************************************************************)
(* One file panel: struct Panel of src/simple_file_manager/include/app.h  *)
(* and the functions of src/simple_file_manager/src/panel.c, driven by    *)
(* the handlers of handle_input() in ui.c that act on the active panel.   *)
(* A listing is abstracted to the sequence of its entries' kinds in       *)
(* scandir/alphasort order: names that sort before "." (such as "#x" or   *)
(* "-x"), then "." and "..", then the other names.  Which directory the   *)
(* panel shows is left out: entering one loads an arbitrary listing.      *)
(***************************************************************************)
EXTENDS Integers, Sequences, FiniteSets

CONSTANTS
  MaxBefore,  \* names sorting before "." in a listing
  MaxAfter,   \* names sorting after ".."
  Heights     \* the panel heights update_layout can give (rows - 4)

ASSUME MaxBefore \in Nat /\ MaxAfter \in Nat /\ Heights \subseteq Int

Kinds == {"file", "dir"}

(* Every listing scandir can return for a directory.                       *)
Listings ==
  {b \o <<"dot", "dotdot">> \o a :
     b \in UNION {[1..k -> Kinds] : k \in 0..MaxBefore},
     a \in UNION {[1..k -> Kinds] : k \in 0..MaxAfter}}

(* The 0-based index of ".." in a listing.                                 *)
DotDot(l) == CHOOSE i \in 0..Len(l) - 1 : l[i + 1] = "dotdot"

IsDirEntry(k) == k \in {"dot", "dotdot", "dir"}

VARIABLES
  entries,    \* p->entries as kinds; <<>> when NULL
  count,      \* p->count: -1 after a failed scandir
  selected,   \* p->selected
  scroll,     \* p->scroll
  h,          \* p->h
  lastClick,  \* handle_input's static last_click_idx
  crashed     \* a NULL entries array was dereferenced

vars == <<entries, count, selected, scroll, h, lastClick, crashed>>

(***************************************************************************)
(* Operations of panel.c, as operators on the panel's state.               *)
(***************************************************************************)

(* load_directory, called with p->selected = sel: free_panel, then        *)
(* scandir.  On failure (an unreadable directory) count is -1 and entries  *)
(* NULL, selected and scroll are left as they were; on success scroll is   *)
(* 0 and the selection is the index of "..".                               *)
LoadDirectory(sel) ==
  \/ /\ entries' = <<>>
     /\ count' = -1
     /\ selected' = sel
     /\ UNCHANGED scroll
  \/ \E l \in Listings :
       /\ entries' = l
       /\ count' = Len(l)
       /\ selected' = DotDot(l)
       /\ scroll' = 0

(* Mutant of MoveSel: without the last "if (p->scroll < 0)" clamp.       *)
MoveSelNoLastClamp(dir) ==
  LET visible == h - 2
      s1 == selected + dir
      s2 == IF s1 < 0 THEN 0 ELSE s1
      s  == IF s2 >= count THEN count - 1 ELSE s2
      c1 == IF s < scroll THEN s ELSE scroll
      c2 == IF s >= c1 + visible THEN s - visible + 1 ELSE c1
      c3 == IF c2 < 0 THEN 0 ELSE c2
      c4 == IF c3 > count - visible THEN count - visible ELSE c3
  IN IF count <= 0 THEN <<selected, scroll>>
     ELSE IF h <= 2 THEN <<0, 0>>
     ELSE <<s, c4>>

(* move_selection(p, dir) as the value of <<selected, scroll>> it leaves. *)
MoveSel(dir) ==
  LET visible == h - 2
      s1 == selected + dir
      s2 == IF s1 < 0 THEN 0 ELSE s1
      s  == IF s2 >= count THEN count - 1 ELSE s2
      c1 == IF s < scroll THEN s ELSE scroll
      c2 == IF s >= c1 + visible THEN s - visible + 1 ELSE c1
      c3 == IF c2 < 0 THEN 0 ELSE c2
      c4 == IF c3 > count - visible THEN count - visible ELSE c3
      c5 == IF c4 < 0 THEN 0 ELSE c4
  IN IF count <= 0 THEN <<selected, scroll>>
     ELSE IF h <= 2 THEN <<0, 0>>
     ELSE <<s, c5>>

MoveSelection(dir) ==
  /\ selected' = MoveSel(dir)[1]
  /\ scroll'   = MoveSel(dir)[2]
  /\ UNCHANGED <<entries, count>>

(* enter_directory: p->entries[p->selected] is read first; a NULL array    *)
(* (count -1) faults.  Not a directory: nothing.  Otherwise realpath of    *)
(* "<cwd>/<name>" (it succeeds: the directory is there) and load.          *)
EnterDirectory ==
  IF count < 0
    THEN /\ crashed' = TRUE
         /\ UNCHANGED <<entries, count, selected, scroll>>
  ELSE IF ~IsDirEntry(entries[selected + 1])
    THEN UNCHANGED <<entries, count, selected, scroll, crashed>>
  ELSE /\ LoadDirectory(selected)
       /\ UNCHANGED crashed

(***************************************************************************)
(* Handlers of handle_input acting on the panel.                           *)
(***************************************************************************)
Running == ~crashed

KeyUp   == Running /\ MoveSelection(-1) /\ UNCHANGED <<h, lastClick, crashed>>
KeyDown == Running /\ MoveSelection(1)  /\ UNCHANGED <<h, lastClick, crashed>>

KeyEnter == Running /\ EnterDirectory /\ UNCHANGED <<h, lastClick>>

(* KEY_RESIZE: update_layout sets p->h = rows - 4 and nothing else.        *)
Resize(nh) ==
  /\ Running
  /\ h' = nh
  /\ UNCHANGED <<entries, count, selected, scroll, lastClick, crashed>>

(* A button-1 release on screen row y (0 .. rows - 1, rows = h + 4) that   *)
(* is not on a button: row index scroll + y - 1 is selected when it is an  *)
(* entry; a second release on the same index soon enough (quick) enters.   *)
(* Mutants of Click: "idx <= p->count"; last_click_idx set before the     *)
(* range check.                                                            *)
ClickOffByOne(y, quick) ==
  LET idx == scroll + y - 1 IN
  /\ Running
  /\ IF idx >= 0 /\ idx <= count
       THEN /\ selected' = idx
            /\ lastClick' = idx
            /\ UNCHANGED <<entries, count, scroll, crashed>>
       ELSE UNCHANGED <<entries, count, selected, scroll, lastClick, crashed>>
  /\ UNCHANGED h

ClickRecordAlways(y, quick) ==
  LET idx == scroll + y - 1 IN
  /\ Running
  /\ lastClick' = idx
  /\ IF idx >= 0 /\ idx < count
       THEN /\ selected' = idx
            /\ UNCHANGED <<entries, count, scroll, crashed>>
       ELSE UNCHANGED <<entries, count, selected, scroll, crashed>>
  /\ UNCHANGED h

Click(y, quick) ==
  LET idx == scroll + y - 1 IN
  /\ Running
  /\ IF idx >= 0 /\ idx < count
       THEN IF idx = lastClick /\ quick
              THEN /\ lastClick' = -1
                   /\ IF IsDirEntry(entries[idx + 1])
                        THEN LoadDirectory(idx)
                        ELSE /\ selected' = idx
                             /\ UNCHANGED <<entries, count, scroll>>
                   /\ UNCHANGED crashed
              ELSE /\ selected' = idx
                   /\ lastClick' = idx
                   /\ UNCHANGED <<entries, count, scroll, crashed>>
       ELSE UNCHANGED <<entries, count, selected, scroll, lastClick, crashed>>
  /\ UNCHANGED h

(* run_app: the panel is loaded after update_layout.  The Panel struct is *)
(* on run_app's stack and selected and scroll are not initialised, so a    *)
(* failed first load leaves them indeterminate; 0 stands for that value.   *)
Init ==
  /\ h \in Heights
  /\ lastClick = -1
  /\ crashed = FALSE
  /\ \/ /\ entries = <<>> /\ count = -1
        /\ selected = 0 /\ scroll = 0
     \/ \E l \in Listings :
          /\ entries = l /\ count = Len(l)
          /\ selected = DotDot(l) /\ scroll = 0

Next ==
  \/ KeyUp \/ KeyDown \/ KeyEnter
  \/ \E nh \in Heights : Resize(nh)
  \/ \E y \in 0..h + 3, quick \in BOOLEAN : Click(y, quick)

Spec == Init /\ [][Next]_vars

TypeOK ==
  /\ entries \in Seq({"file", "dir", "dot", "dotdot"})
  /\ count \in -1..MaxBefore + MaxAfter + 2
  /\ selected \in Int /\ scroll \in Int
  /\ h \in Heights
  /\ lastClick \in -1..MaxBefore + MaxAfter + 1
  /\ crashed \in BOOLEAN

(***************************************************************************)
(* Properties                                                              *)
(***************************************************************************)

(* draw_panel's loop for a given scroll: the rows i of the h - 2 inside  *)
(* the frame that show an entry, p->entries[scroll + i].                  *)
DrawnRows(scr) == {i \in 0..h - 3 : scr + i < count}

(* The drawn rows highlighted as selected (the panel being active).      *)
SelectedRows(sel, scr) == {i \in DrawnRows(scr) : scr + i = sel}

(* The window of spec 3 for a given selection and scroll, as draw_panel  *)
(* shows it: no row reads before the entries array, the selected entry is *)
(* drawn highlighted, and no row stays blank while entries remain below.  *)
WindowOK(sel, scr) ==
  h > 2 /\ count > 0 =>
    /\ scr >= 0
    /\ SelectedRows(sel, scr) # {}
    /\ Cardinality(DrawnRows(scr)) = IF count < h - 2 THEN count ELSE h - 2

(* Spec 3: the highlighted entry is always on screen.                      *)
SelectionVisible == WindowOK(selected, scroll)

(* Spec 8: after a move_selection the window holds, from whatever the     *)
(* handlers before it (a reload, a resize, a click) left: one KEY_UP or    *)
(* KEY_DOWN from any reachable state lands inside the window.              *)
MoveRestoresWindow ==
  \A d \in {-1, 1} : WindowOK(MoveSel(d)[1], MoveSel(d)[2])

(* Whatever the handlers did, a loaded panel's selection indexes an entry: *)
(* enter_directory, copy_dialog and delete_directory_dialog read           *)
(* p->entries[p->selected] without a bounds check.                         *)
SelectionInRange == count > 0 => selected \in 0..count - 1

(* No handler dereferences a NULL entries array (spec 7: nothing in the   *)
(* core is fatal to the process).                                          *)
NoNullEntries == ~crashed
=============================================================================
