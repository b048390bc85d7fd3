------------------------------ MODULE TuiInput ------------------------------
(***************************************************************************)
(* Keys and what they do to the terminal application's own state: the      *)
(* input line with its cursor, the search, the panels (odin-tui/src/       *)
(* events.rs, App::dispatch in odin-tui/src/app.rs).                       *)
(*                                                                         *)
(* The input is UTF-8 and the cursor an offset in bytes: a character is    *)
(* modelled by its width.  Cutting the text anywhere but between two       *)
(* characters is a panic.                                                  *)
(***************************************************************************)
EXTENDS Naturals, Sequences, FiniteSets, SequencesExt, Positions

CONSTANTS
  Widths,       \* of a character that is typed, 1 to 4
  InputLimit,   \* bytes in the input beyond which nothing is typed (4096)
  SearchLimit,  \* the same for the search (256)
  MaxScroll     \* bound

ASSUME InputAssumption ==
  /\ Widths \subseteq 1..4 /\ 1 \in Widths
  /\ {InputLimit, SearchLimit, MaxScroll} \subseteq Nat

VARIABLES ui   \* [text, cursor, query, searching, help, panel, side, chat, quit]

inputvars == <<ui>>

Panels == 8
Offsets(text) == Along(text, 0, +)
Bytes(text) == Offsets(text)[Len(text)]
Boundaries(text) == {Offsets(text)[i] : i \in 0..Len(text)}
\* What lies before and behind the cursor, defined on a boundary only.
Split(u) == CHOOSE i \in 0..Len(u.text) : Offsets(u.text)[i] = u.cursor
Before(u) == SubSeq(u.text, 1, Split(u))
Rest(u) == SubSeq(u.text, Split(u) + 1, Len(u.text))

InputInit ==
  ui = [text |-> <<>>, cursor |-> 0, query |-> <<>>, searching |-> FALSE, help |-> FALSE,
        panel |-> 0, side |-> 0, chat |-> 0, quit |-> FALSE]

-----------------------------------------------------------------------------
(* dispatch: one action per variant of Action.                             *)

InsertChar(w) ==
  ui' = IF ui.searching
        THEN IF Bytes(ui.query) < SearchLimit THEN [ui EXCEPT !.query = Append(@, w)] ELSE ui
        ELSE IF Bytes(ui.text) < InputLimit
        THEN [ui EXCEPT !.text = Before(ui) \o <<w>> \o Rest(ui), !.cursor = @ + w]
        ELSE ui

InsertNewline ==
  /\ ~ui.searching /\ Bytes(ui.text) < InputLimit
  /\ ui' = [ui EXCEPT !.text = Before(ui) \o <<1>> \o Rest(ui), !.cursor = @ + 1]

DeletePrev ==
  IF ui.searching
  THEN /\ ui.query # <<>>
       /\ ui' = [ui EXCEPT !.query = Front(@)]
  ELSE /\ ui.cursor > 0
       /\ ui' = [ui EXCEPT !.text = Front(Before(ui)) \o Rest(ui),
                           !.cursor = Bytes(Front(Before(ui)))]

DeleteNext ==
  /\ ~ui.searching /\ ui.cursor < Bytes(ui.text)
  /\ ui' = [ui EXCEPT !.text = Before(ui) \o Tail(Rest(ui))]

MoveCursorLeft ==
  /\ ~ui.searching /\ ui.cursor > 0
  /\ ui' = [ui EXCEPT !.cursor = Bytes(Front(Before(ui)))]

StepRight ==   \* mutant: one byte to the right
  /\ ~ui.searching /\ ui.cursor < Bytes(ui.text)
  /\ ui' = [ui EXCEPT !.cursor = @ + 1]
MoveCursorRight ==
  /\ ~ui.searching /\ ui.cursor < Bytes(ui.text)
  /\ ui' = [ui EXCEPT !.cursor = @ + Head(Rest(ui))]

MoveCursorHome == ui' = [ui EXCEPT !.cursor = 0]
MoveCursorEnd == ui' = [ui EXCEPT !.cursor = Bytes(ui.text)]

(* submit_goal takes the text, whatever comes of it.                       *)
TakeInput == ui' = [ui EXCEPT !.text = <<>>, !.cursor = 0]

ToggleSearch == ui' = [ui EXCEPT !.searching = ~@,
                                 !.query = IF ui.searching THEN <<>> ELSE @]
ToggleHelp == ui' = [ui EXCEPT !.help = ~@]

CancelSearch ==
  ui' = IF ui.searching THEN [ui EXCEPT !.searching = FALSE, !.query = <<>>]
        ELSE IF ui.help THEN [ui EXCEPT !.help = FALSE]
        ELSE [ui EXCEPT !.quit = TRUE]

Focus(panel) == ui' = [ui EXCEPT !.panel = panel, !.side = 0]
NextPanel == Focus((ui.panel + 1) % Panels)
PrevPanel == Focus((ui.panel + Panels - 1) % Panels)

Scrolled(n, up) == IF up THEN IF n = 0 THEN 0 ELSE n - 1
                   ELSE IF n = MaxScroll THEN n ELSE n + 1
Scroll(up) == ui' = IF ui.panel = 0 THEN [ui EXCEPT !.chat = Scrolled(@, up)]
                    ELSE [ui EXCEPT !.side = Scrolled(@, up)]

-----------------------------------------------------------------------------
(* handle_key: control and alt reach the commands, enter submits unless    *)
(* shift or alt is held, `?` is help even while something is typed.        *)

ControlKey == ui' = [ui EXCEPT !.quit = TRUE] \/ ToggleSearch
AltKey == \E panel \in 0..(Panels - 1) : Focus(panel)
EditingKey ==
  \/ \E w \in Widths : InsertChar(w)
  \/ InsertNewline \/ TakeInput
  \/ DeletePrev \/ DeleteNext
  \/ MoveCursorLeft \/ MoveCursorRight \/ MoveCursorHome \/ MoveCursorEnd
PlainKey ==
  \/ EditingKey
  \/ ToggleHelp \/ CancelSearch \/ NextPanel \/ PrevPanel
  \/ \E up \in BOOLEAN : Scroll(up)

InputNext == ~ui.quit /\ (ControlKey \/ AltKey \/ PlainKey)
InputSpec == InputInit /\ [][InputNext]_inputvars

-----------------------------------------------------------------------------
(* Through any keys, in the search and out of it: the cursor is between    *)
(* two characters, where the text can be cut, and the text is over its     *)
(* limit by less than a character.                                         *)
CursorOnBoundary ==
  /\ ui.cursor \in Boundaries(ui.text)
  /\ Bytes(ui.text) < InputLimit + 4
=============================================================================
