---------------------------- MODULE InputDialog -----------------------------
(***************************************************************************)
(* One session of run_input_dialog() (src/simple_file_manager/src/        *)
(* modal.c), the text box create_directory_dialog, copy_dialog and        *)
(* move_dialog open.  As in ConfirmDialog, each dialog step is one pass   *)
(* of the inner loop reading one queued event.  Unlike ConfirmDialog it   *)
(* does not clamp the origin of its 70x12 window, so newwin returns NULL  *)
(* on a terminal of 68 columns or fewer or 10 rows or fewer ("fits" is    *)
(* FALSE there).  The text is abstracted to its length                   *)
(* len: which characters are typed matters to no decision of the dialog.  *)
(***************************************************************************)
EXTENDS Naturals, Sequences

CONSTANTS
  BufLen,      \* buffer_len, the wchar_t capacity of the caller's buffer
  MaxPending,  \* events the input queue holds in the model
  AllowSmall,  \* whether the terminal can be resized below the box size
  NONE

ASSUME BufLen \in Nat \ {0, 1} /\ MaxPending \in Nat \ {0} /\ AllowSmall \in BOOLEAN

Keys   == {"tab", "enter", "esc", "char", "backspace", "other"}
Clicks == {"click_ok", "click_cancel", "click_row", "click_other"}
Events == Keys \cup Clicks \cup {"resize"}

(* The modes of the main loop: non-blocking getch, all mouse events, the  *)
(* cursor hidden (init_curses).                                           *)
Ambient == [nodelay |-> TRUE, mouse |-> "all", cursor |-> FALSE]

TextField == 0   OkButton == 1   CancelButton == 2

VARIABLES
  queue,   \* events typed and not yet read
  fits,    \* the terminal is at least as large as the box
  win,     \* newwin() returned a window
  focus,   \* TextField, OkButton or CancelButton
  len,     \* wcslen(buffer)
  modes,   \* the curses modes in force
  result,  \* NONE while the dialog runs, then 1 (accepted) or 0
  last     \* ch: the event the last pass acted on; NONE before any

vars == <<queue, fits, win, focus, len, modes, result, last>>

(* Leaving the dialog: mousemask(old_mask), curs_set(FALSE),              *)
(* nodelay(old_delay).                                                    *)
Return(r) ==
  /\ result' = r
  /\ modes'  = [nodelay |-> Ambient.nodelay, mouse |-> Ambient.mouse, cursor |-> FALSE]

Type(e) ==
  /\ Len(queue) < MaxPending
  /\ queue' = Append(queue, e)
  /\ UNCHANGED <<fits, win, focus, len, modes, result, last>>

Resize(big) ==
  /\ Len(queue) < MaxPending
  /\ big \/ AllowSmall
  /\ queue' = Append(queue, "resize")
  /\ fits'  = big
  /\ UNCHANGED <<win, focus, len, modes, result, last>>

Read(e) ==
  /\ result = NONE
  /\ win
  /\ queue # <<>> /\ e = Head(queue)
  /\ queue' = Tail(queue)
  /\ last'  = e
  /\ UNCHANGED fits

(* KEY_RESIZE: resize_term, update_layout and draw_ui of the main window, *)
(* then a new dialog window; focus and buffer are kept.                   *)
OnResize ==
  /\ Read("resize")
  /\ win' = fits
  /\ UNCHANGED <<focus, len, modes, result>>

(* Mutant of OnTab: focus + 1 without the wrap.                           *)
OnTabNoWrap ==
  /\ Read("tab")
  /\ focus' = focus + 1
  /\ UNCHANGED <<win, len, modes, result>>

OnTab ==
  /\ Read("tab")
  /\ focus' = (focus + 1) % 3
  /\ UNCHANGED <<win, len, modes, result>>

(* Mutant of OnEscape: Escape is read and ignored.                        *)
OnEscapeIgnored ==
  /\ Read("esc")
  /\ UNCHANGED <<win, focus, len, modes, result>>

OnEscape ==
  /\ Read("esc")
  /\ Return(0)
  /\ UNCHANGED <<win, focus, len>>

(* ch == 10 with focus f: accept from the field or OK if the text is not  *)
(* empty, reject from Cancel, otherwise stay in the loop.                 *)
(* Mutant of EnterWith: OK accepts without looking at len.                *)
EnterWithOkUnchecked(f) ==
  IF f = TextField /\ len > 0 THEN Return(1)
  ELSE IF f = OkButton THEN Return(1)
  ELSE IF f = CancelButton THEN Return(0)
  ELSE UNCHANGED <<modes, result>>

EnterWith(f) ==
  IF f \in {TextField, OkButton} /\ len > 0 THEN Return(1)
  ELSE IF f = CancelButton THEN Return(0)
  ELSE UNCHANGED <<modes, result>>

OnEnter ==
  /\ Read("enter")
  /\ EnterWith(focus)
  /\ UNCHANGED <<win, focus, len>>

OnClickRow(e) ==
  /\ e \in {"click_ok", "click_cancel", "click_row"}
  /\ Read(e)
  /\ focus' = CASE e = "click_ok"     -> OkButton
                [] e = "click_cancel" -> CancelButton
                [] OTHER              -> focus
  /\ EnterWith(focus')
  /\ UNCHANGED <<win, len>>

(* With the text field focused, a character is stored while               *)
(* len < buffer_len - 1, so buffer[len] = L'\0' stays inside the buffer.  *)
OnChar ==
  /\ Read("char")
  /\ len' = IF focus = TextField /\ len < BufLen - 1 THEN len + 1 ELSE len
  /\ UNCHANGED <<win, focus, modes, result>>

OnBackspace ==
  /\ Read("backspace")
  /\ len' = IF focus = TextField /\ len > 0 THEN len - 1 ELSE len
  /\ UNCHANGED <<win, focus, modes, result>>

(* Function keys and mouse events off the buttons' row; a key wget_wch     *)
(* returns with OK is a character ("char").                                *)
OnIgnored(e) ==
  /\ e \in {"other", "click_other"}
  /\ Read(e)
  /\ UNCHANGED <<win, focus, len, modes, result>>

(* A pass with a NULL window: wget_wch returns ERR and leaves ch as the    *)
(* pass before set it, or uninitialised (any key) before any read.  With   *)
(* r = ERR neither the mouse branch nor the text branch applies.           *)
Stale(c) ==
  /\ result = NONE /\ ~win
  /\ IF last = NONE THEN c \in Keys ELSE c = last
  /\ last' = c
  /\ CASE c = "tab"   -> focus' = (focus + 1) % 3 /\ UNCHANGED <<modes, result>>
       [] c = "esc"   -> Return(0) /\ UNCHANGED focus
       [] c = "enter" -> EnterWith(focus) /\ UNCHANGED focus
       [] OTHER       -> UNCHANGED <<focus, modes, result>>
  /\ UNCHANGED <<queue, fits, win, len>>

Step ==
  \/ OnResize \/ OnTab \/ OnEscape \/ OnEnter \/ OnChar \/ OnBackspace
  \/ \E e \in Events : OnClickRow(e) \/ OnIgnored(e) \/ Stale(e)

(* Entry: len = wcslen(buffer): empty for a new directory name, the other *)
(* panel's directory for copy and move; nodelay(FALSE), curs_set(TRUE),   *)
(* mousemask(BUTTON1_RELEASED), newwin.                                   *)
Init ==
  /\ queue  = <<>>
  /\ fits   \in IF AllowSmall THEN BOOLEAN ELSE {TRUE}
  /\ win    = fits
  /\ focus  = TextField
  /\ len    \in {0, 1}
  /\ modes  = [nodelay |-> FALSE, mouse |-> "release", cursor |-> TRUE]
  /\ result = NONE
  /\ last   = NONE

Next ==
  \/ Step
  \/ result = NONE /\ \E e \in Keys \cup Clicks : Type(e)
  \/ result = NONE /\ \E big \in BOOLEAN : Resize(big)

Spec == Init /\ [][Next]_vars /\ WF_vars(Step)

TypeOK ==
  /\ queue \in Seq(Events) /\ Len(queue) <= MaxPending
  /\ fits \in BOOLEAN /\ win \in BOOLEAN
  /\ focus \in {TextField, OkButton, CancelButton}
  /\ len \in Nat
  /\ modes \in [nodelay : BOOLEAN, mouse : {"all", "release"}, cursor : BOOLEAN]
  /\ result \in {NONE, 0, 1}
  /\ last \in Events \cup {NONE}

(***************************************************************************)
(* Properties                                                              *)
(***************************************************************************)

(* The dialog, seen by its caller, is a Prompt (Prompt.tla): the text is *)
(* its length, which must leave room for the terminator in the caller's   *)
(* buffer of buffer_len wide characters; only a non-empty text is         *)
(* accepted (spec 8: the caller would mkdir "<cwd>/" or copy into         *)
(* "/<name>"), whichever of Enter in the field, Enter on OK or a click on *)
(* OK ends it; the modes are the main loop's again (nodelay, all mouse    *)
(* events, hidden cursor) in the step that answers, on every return path, *)
(* and nothing is read after the answer.                                   *)
Abs == INSTANCE Prompt
         WITH Texts <- 0..BufLen - 1, Accepting <- 1..BufLen - 1,
              answer <- result, text <- len,
              screen <- IF modes = Ambient THEN "main" ELSE "dialog"

ImplementsPrompt == Abs!PSpec

(* An Escape the user typed is eventually read and closes the dialog.      *)
EscapeCloses ==
  (\E i \in 1..Len(queue) : queue[i] = "esc") ~> result # NONE

(* While the dialog has a window (the terminal was large enough when the *)
(* outer loop last called newwin), an Escape the user typed is eventually *)
(* read and closes the dialog.                                            *)
EscapeClosesOnWindow == []win => EscapeCloses
=============================================================================
