------------------------------- MODULE Prompt -------------------------------
(***************************************************************************)
(* What a modal dialog of modal.c promises the dialog action that opens   *)
(* it, whatever keys, clicks and resizes happen meanwhile: the user edits *)
(* the text for a while, then the dialog answers once, 1 (accepted) only  *)
(* for a text the caller may act on, or 0, and the main loop's curses     *)
(* modes are back in the same step as the answer.  After the answer       *)
(* nothing changes.  ConfirmDialog and InputDialog are shown to implement *)
(* it.                                                                    *)
(***************************************************************************)
CONSTANTS
  Texts,      \* what the text can be while the dialog runs
  Accepting,  \* the texts the dialog may return 1 for
  NONE

ASSUME Accepting \subseteq Texts

VARIABLES
  answer,  \* NONE while the dialog runs, then 1 or 0
  text,    \* the text being edited
  screen   \* "dialog": the dialog's curses modes; "main": the main loop's

pvars == <<answer, text, screen>>

PInit ==
  /\ answer = NONE
  /\ text \in Texts
  /\ screen = "dialog"

Edit ==
  /\ answer = NONE
  /\ text' \in Texts
  /\ UNCHANGED <<answer, screen>>

Accept ==
  /\ answer = NONE
  /\ text \in Accepting
  /\ answer' = 1
  /\ screen' = "main"
  /\ UNCHANGED text

Reject ==
  /\ answer = NONE
  /\ answer' = 0
  /\ screen' = "main"
  /\ UNCHANGED text

PNext == Edit \/ Accept \/ Reject

PSpec == PInit /\ [][PNext]_pvars
=============================================================================
