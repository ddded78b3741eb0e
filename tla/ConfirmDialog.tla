--------------------------- MODULE ConfirmDialog ----------------------------
(***************************************************************************)
(* One session of run_confirm_dialog() (src/simple_file_manager/src/      *)
(* modal.c), the Delete/Cancel box delete_directory_dialog opens.  The    *)
(* user puts events in the terminal's input queue; each step of the       *)
(* dialog is one pass of its inner while loop: read one event with        *)
(* wget_wch and act on it.  A resize event ends the inner loop and the    *)
(* outer loop makes a new window.  The window's origin is clamped to 0   *)
(* (modal.c:46-49) and newwin() fails only on a negative origin, so the    *)
(* dialog always has a window, whatever the terminal's size.              *)
(***************************************************************************)
EXTENDS Naturals, Sequences

CONSTANTS
  MaxPending,  \* events the input queue holds in the model
  NONE

ASSUME MaxPending \in Nat \ {0}

(* Events wget_wch can return.  Mouse events are button-1 releases (the   *)
(* mask the dialog sets): on the OK or Cancel label, elsewhere on the     *)
(* screen row of the buttons, or anywhere else.                           *)
Keys   == {"tab", "enter", "esc", "other"}
Clicks == {"click_ok", "click_cancel", "click_row", "click_other"}
Events == Keys \cup Clicks \cup {"resize"}

(* The curses modes the main loop runs with (init_curses): non-blocking   *)
(* getch and every mouse event reported.                                   *)
Ambient == [nodelay |-> TRUE, mouse |-> "all"]

VARIABLES
  queue,   \* events typed and not yet read
  focus,   \* 0 = OK, 1 = Cancel
  modes,   \* the curses modes in force
  result,  \* NONE while the dialog runs, then 1 (confirmed) or 0
  last     \* ch: the event the last pass acted on; NONE before any

vars == <<queue, focus, modes, result, last>>

(* Leaving the dialog: mousemask(old_mask), nodelay(old_delay).           *)
Return(r) ==
  /\ result' = r
  /\ modes'  = Ambient

(***************************************************************************)
(* The user.                                                               *)
(***************************************************************************)
(* A key, a click, or a SIGWINCH that queues KEY_RESIZE.                  *)
Type(e) ==
  /\ Len(queue) < MaxPending
  /\ queue' = Append(queue, e)
  /\ UNCHANGED <<focus, modes, result, last>>

(***************************************************************************)
(* One pass of the inner loop, reading the event e.                        *)
(***************************************************************************)
Read(e) ==
  /\ result = NONE
  /\ queue # <<>> /\ e = Head(queue)
  /\ queue' = Tail(queue)
  /\ last'  = e

(* KEY_RESIZE: break to the outer loop, which deletes the window and      *)
(* makes a new one centred in the new size; focus is kept.               *)
OnResize ==
  /\ Read("resize")
  /\ UNCHANGED <<focus, modes, result>>

(* Mutant of OnTab: focus = focus + 1 instead of !focus.                 *)
OnTabInc ==
  /\ Read("tab")
  /\ focus' = focus + 1
  /\ UNCHANGED <<modes, result>>

OnTab ==
  /\ Read("tab")
  /\ focus' = 1 - focus
  /\ UNCHANGED <<modes, result>>

(* Mutant of OnEscape: Escape is read and ignored.                        *)
OnEscapeIgnored ==
  /\ Read("esc")
  /\ UNCHANGED <<focus, modes, result>>

OnEscape ==
  /\ Read("esc")
  /\ Return(0)
  /\ UNCHANGED focus

(* Mutant of OnEnter: the Enter exit does not call nodelay(old_delay).    *)
OnEnterKeepDelay ==
  /\ Read("enter")
  /\ result' = IF focus = 0 THEN 1 ELSE 0
  /\ modes' = [modes EXCEPT !.mouse = Ambient.mouse]
  /\ UNCHANGED focus

OnEnter ==
  /\ Read("enter")
  /\ Return(IF focus = 0 THEN 1 ELSE 0)
  /\ UNCHANGED focus

(* A release on the buttons' row sets focus when it hits a label, then    *)
(* ch = 10 makes it an Enter with whatever focus is then.                 *)
OnClickRow(e) ==
  /\ e \in {"click_ok", "click_cancel", "click_row"}
  /\ Read(e)
  /\ focus' = CASE e = "click_ok"     -> 0
                [] e = "click_cancel" -> 1
                [] OTHER              -> focus
  /\ Return(IF focus' = 0 THEN 1 ELSE 0)

(* Any other key or mouse event is read and ignored.                      *)
OnIgnored(e) ==
  /\ e \in {"other", "click_other"}
  /\ Read(e)
  /\ UNCHANGED <<focus, modes, result>>

Step ==
  \/ OnResize \/ OnTab \/ OnEscape \/ OnEnter
  \/ \E e \in Events : OnClickRow(e) \/ OnIgnored(e)

(* Entry: nodelay(stdscr, FALSE), mousemask(BUTTON1_RELEASED), newwin.    *)
Init ==
  /\ queue  = <<>>
  /\ focus  = 0
  /\ modes  = [nodelay |-> FALSE, mouse |-> "release"]
  /\ result = NONE
  /\ last   = NONE

Next ==
  \/ Step
  \/ result = NONE /\ \E e \in Events : Type(e)

(* The dialog loop runs whenever it can read; the user is not fair.       *)
Spec == Init /\ [][Next]_vars /\ WF_vars(Step)

TypeOK ==
  /\ queue \in Seq(Events) /\ Len(queue) <= MaxPending
  /\ focus \in {0, 1}
  /\ modes \in [nodelay : BOOLEAN, mouse : {"all", "release"}]
  /\ result \in {NONE, 0, 1}
  /\ last \in Events \cup {NONE}

(***************************************************************************)
(* Properties                                                              *)
(***************************************************************************)

(* The dialog, seen by delete_directory_dialog, is a Prompt (Prompt.tla) *)
(* without a text: it answers once, the main loop's nodelay and mouse     *)
(* modes are back in the step that answers, on every return path, and     *)
(* nothing is read after the answer.                                       *)
Abs == INSTANCE Prompt
         WITH Texts <- {0}, Accepting <- {0}, answer <- result, text <- 0,
              screen <- IF modes = Ambient THEN "main" ELSE "dialog"

ImplementsPrompt == Abs!PSpec

(* An Escape the user typed is eventually read and closes the dialog: the  *)
(* dialog never stops reading its input.                                   *)
EscapeCloses ==
  (\E i \in 1..Len(queue) : queue[i] = "esc") ~> result # NONE

(* The dialog confirms (returns 1, and the entry is deleted) only on Enter *)
(* with OK focused or on a click on the OK label (spec 8).                 *)
ConfirmOnlyOnOk ==
  [][result = NONE /\ result' = 1 =>
       \/ last' = "click_ok"
       \/ last' = "enter" /\ focus = 0]_vars
=============================================================================
