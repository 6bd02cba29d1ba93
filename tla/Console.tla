------------------------------ MODULE Console -------------------------------
(***************************************************************************)
(* The shell's console: the text terminal with its scrollback              *)
(* (drivers/terminal.c) and the line editor on top of it                   *)
(* (drivers/keyboard.c), driven by keys, by the mouse wheel and by the     *)
(* output of commands.  All of it runs in the kernel's main loop, one key, *)
(* wheel packet or command at a time.                                      *)
(*                                                                         *)
(* Only the shell region of the screen is modelled: what is drawn above    *)
(* and below it goes past the scrollback, and the footer puts the cursor   *)
(* back.  Colours are left out.  Rows count from the top of the region,    *)
(* columns from 0 as in the code.  Keys arrive decoded.                    *)
(***************************************************************************)
EXTENDS Integers, Sequences, SequencesExt

CONSTANTS
    Width,        \* VGA_WIDTH: 80
    Height,       \* lines of the shell region: 15
    Lines,        \* TERMINAL_SCROLLBACK_LINES: 1024
    PromptWidth,  \* terminal_shell_prompt_width: 12
    MaxInput,     \* KEYBOARD_MAX_INPUT: 256
    Chars,        \* the characters typed
    Outputs       \* bound: what commands print, with "\n" for a new line

ASSUME ConsoleAssumption ==
    /\ Height \in 1 .. Lines
    /\ PromptWidth + 1 < Width

VARIABLES
    term,    \* the terminal
    buffer,  \* keyboard_input_buffer up to keyboard_buffer_index
    cur,     \* keyboard_cursor_index
    clip,    \* keyboard_clipboard_buffer
    prow,    \* keyboard_prompt_row
    pcol     \* keyboard_prompt_column

vars == <<term, buffer, cur, clip, prow, pcol>>

Columns == 0 .. Width - 1
Rows    == 0 .. Height - 1
Blank   == [x \in Columns |-> " "]

-----------------------------------------------------------------------------
(* The terminal: screen is the region of the VGA buffer, hist the ring of  *)
(* lines with its head and count, offset terminal_scrollback_view_offset.  *)

\* terminal_scrollback_logical_to_physical
Slot(t, n) == (t.head + n) % Lines

\* terminal_scrollback_max_offset
MaxOffset(t) == IF t.count <= Height THEN 0 ELSE t.count - Height

\* terminal_scrollback_visible_top_logical.  The offset never exceeds the
\* maximum, so cutting it down to that does not show.
VisibleTop(t) == IF t.count <= Height THEN 0 ELSE MaxOffset(t) - t.offset

\* terminal_scrollback_sync_region_from_history
SyncRegion(t) ==
    [t EXCEPT !.screen = [y \in Rows |-> t.hist[Slot(t, VisibleTop(t) + y)]]]

\* terminal_scrollback_sync_view_after_scroll
SyncView(t) == [SyncRegion(t) EXCEPT !.row = Height - 1, !.col = 0]

\* terminal_scrollback_append_blank_line
AppendBlank(t) ==
    IF t.count < Lines
    THEN [t EXCEPT !.hist[Slot(t, t.count)] = Blank, !.count = @ + 1]
    ELSE LET moved == [t EXCEPT !.head = (@ + 1) % Lines]
         IN  [moved EXCEPT !.hist[Slot(moved, t.count - 1)] = Blank]

\* Mutant: the view goes back to the end, the screen stays.
MutFollowNoSync(t) == [t EXCEPT !.offset = 0]

\* terminal_scrollback_follow
Follow(t) == IF t.offset = 0 THEN t ELSE SyncRegion([t EXCEPT !.offset = 0])

\* Row line with text from column x on, cut off at the right edge
Overlay(line, text, x) ==
    [n \in Columns |-> IF n - x + 1 \in DOMAIN text THEN text[n - x + 1]
                       ELSE line[n]]

\* Mutant: text is put on the screen while the view is scrolled back.
MutWriteAtNoFollow(t, text, x, y) ==
    [t EXCEPT !.screen[y] = Overlay(@, text, x),
              !.hist[Slot(t, VisibleTop(t) + y)] = Overlay(@, text, x)]

\* terminal_writeat: terminal_putentryat for each character, which ends the
\* scrolling back and keeps the history (terminal_scrollback_update_cell)
WriteAt(t, text, x, y) ==
    LET u == IF text = <<>> \/ x >= Width THEN t ELSE Follow(t)
    IN  [u EXCEPT !.screen[y] = Overlay(@, text, x),
                  !.hist[Slot(u, VisibleTop(u) + y)] = Overlay(@, text, x)]

\* terminal_scroll
Scroll(t) == SyncView(AppendBlank([t EXCEPT !.offset = 0]))

NewLine(t) ==
    LET u == [t EXCEPT !.col = 0, !.row = @ + 1]
    IN  IF u.row > Height - 1 THEN Scroll(u) ELSE u

\* terminal_putchar
PutChar(t, c) ==
    IF c = "\n" THEN NewLine(t)
    ELSE LET u == [WriteAt(t, <<c>>, t.col, t.row) EXCEPT !.col = @ + 1]
         IN  IF u.col >= Width THEN NewLine(u) ELSE u

\* terminal_write
Write(t, text) == FoldLeft(PutChar, t, text)

\* terminal_fill_rect on one row
FillRect(t, x, y, w) == WriteAt(t, [i \in 1 .. w |-> " "], x, y)

\* terminal_set_cursor
SetCursor(t, x, y) ==
    [t EXCEPT !.col = IF x < Width THEN x ELSE @, !.row = y]

\* terminal_prompt
Prompt(t) == Write(t, [i \in 1 .. PromptWidth |-> "p"])

\* terminal_scrollback_reset_history takes the lines of the region, here blank,
\* for the history.  What lines of the ring past count hold is never read.
ResetHistory(t) ==
    t @@ [hist |-> [n \in 0 .. Lines - 1 |-> Blank],
          head |-> 0, count |-> Height, offset |-> 0]

\* terminal_initialize clears everything, and terminal_set_region starts with
\* the history of the blank region.
ClearedRegion ==
    ResetHistory([screen |-> [y \in Rows |-> Blank], row |-> 0, col |-> 0])

\* kernel_draw_ui: the first prompt is indented.
DrawUI == Prompt(SetCursor(ClearedRegion, 1, 0))

-----------------------------------------------------------------------------
(* The line editor *)

\* keyboard_shell_input_capacity
Capacity(pc) == IF pc >= Width - 1 THEN 0 ELSE Width - pc - 1

\* keyboard_shell_redraw_input with the line b and the cursor at c
RedrawAt(t, b, c, pr, pc) ==
    SetCursor(WriteAt(FillRect(t, pc, pr, Capacity(pc)), b, pc, pr),
              pc + c, pr)

Redraw(t, b, c) == RedrawAt(t, b, c, prow, pcol)

\* A key other than an extended one or a modifier first brings the view back.
Awake == IF term.offset = 0 THEN term ELSE Redraw(Follow(term), buffer, cur)

\* The line becomes b with the cursor at c, and is drawn on t.
Edit(t, b, c) ==
    /\ buffer' = b
    /\ cur' = c
    /\ term' = Redraw(t, b, c)
    /\ UNCHANGED <<clip, prow, pcol>>

Init ==
    /\ term = DrawUI
    /\ buffer = <<>> /\ cur = 0 /\ clip = <<>>
    /\ prow = term.row
    /\ pcol = term.col

\* The guards of keyboard_insert_character
Fits(b) == Len(b) < MaxInput - 1 /\ Len(b) < Capacity(pcol)

\* keyboard_insert_character
Type(c) ==
    IF Fits(buffer)
    THEN Edit(Awake, InsertAt(buffer, cur + 1, c), cur + 1)
    ELSE term' = Awake /\ UNCHANGED <<buffer, cur, clip, prow, pcol>>

\* keyboard_delete_character_before_cursor
Backspace ==
    IF cur > 0
    THEN Edit(Awake, RemoveAt(buffer, cur), cur - 1)
    ELSE term' = Awake /\ UNCHANGED <<buffer, cur, clip, prow, pcol>>

\* keyboard_copy_input_to_clipboard
Copy ==
    /\ clip' = buffer
    /\ term' = Awake
    /\ UNCHANGED <<buffer, cur, prow, pcol>>

\* keyboard_paste_clipboard: characters are inserted as long as they fit.
Paste ==
    LET e == FoldLeft(LAMBDA g, c : IF Fits(g.b)
                                    THEN [b |-> InsertAt(g.b, g.c + 1, c),
                                          c |-> g.c + 1]
                                    ELSE g,
                      [b |-> buffer, c |-> cur], clip)
    IN  IF e.b # buffer
        THEN Edit(Awake, e.b, e.c)
        ELSE term' = Awake /\ UNCHANGED <<buffer, cur, clip, prow, pcol>>

\* keyboard_clear_input_line (Ctrl+U)
ClearLine == Edit(Awake, <<>>, 0)

\* Ctrl+L
RedrawUI ==
    /\ prow' = DrawUI.row
    /\ pcol' = DrawUI.col
    /\ term' = RedrawAt(DrawUI, buffer, cur, prow', pcol')
    /\ UNCHANGED <<buffer, cur, clip>>

\* A key that stands for no character
OtherKey ==
    /\ term.offset # 0
    /\ term' = Awake
    /\ UNCHANGED <<buffer, cur, clip, prow, pcol>>

\* keyboard_process_command: the command prints out, and a fresh prompt follows.
\* An empty line gets the prompt only.
Enter(out) ==
    /\ buffer = <<>> => out = <<>>
    /\ term' = Prompt(Write(NewLine(Awake), out))
    /\ buffer' = <<>> /\ cur' = 0
    /\ prow' = term'.row
    /\ pcol' = term'.col
    /\ UNCHANGED clip

\* keyboard_process_command: clear
EnterClear ==
    /\ buffer # <<>>
    /\ term' = DrawUI
    /\ buffer' = <<>> /\ cur' = 0
    /\ prow' = term'.row
    /\ pcol' = term'.col
    /\ UNCHANGED clip

-----------------------------------------------------------------------------
(* keyboard_process_extended_scancode and the mouse wheel *)

Left ==
    /\ cur > 0
    /\ Edit(term, buffer, cur - 1)

Right ==
    /\ cur < Len(buffer)
    /\ Edit(term, buffer, cur + 1)

\* keyboard_delete_character_at_cursor
Delete ==
    /\ cur < Len(buffer)
    /\ Edit(term, RemoveAt(buffer, cur + 1), cur)

Step == IF Height > 1 THEN Height - 1 ELSE Height

\* terminal_scrollback_page_up
PageUp ==
    /\ term.offset < MaxOffset(term)
    /\ LET up == term.offset + Step
       IN  term' = SyncView([term EXCEPT !.offset =
                                IF up > MaxOffset(term) THEN MaxOffset(term)
                                ELSE up])
    /\ UNCHANGED <<buffer, cur, clip, prow, pcol>>

\* terminal_scrollback_page_down, and the redraw at the end of the scrollback
PageDown ==
    LET down == IF term.offset > Step THEN term.offset - Step ELSE 0
        t    == IF term.offset = 0 THEN term
                ELSE SyncView([term EXCEPT !.offset = down])
    IN  /\ term' = IF t.offset = 0 THEN Redraw(t, buffer, cur) ELSE t
        /\ UNCHANGED <<buffer, cur, clip, prow, pcol>>

\* terminal_scrollback_line_up, from mouse_process_packet
WheelUp ==
    /\ term.offset < MaxOffset(term)
    /\ term' = SyncView([term EXCEPT !.offset = @ + 1])
    /\ UNCHANGED <<buffer, cur, clip, prow, pcol>>

\* terminal_scrollback_line_down, from mouse_process_packet
WheelDown ==
    /\ term.offset # 0
    /\ term' = SyncView([term EXCEPT !.offset = @ - 1])
    /\ UNCHANGED <<buffer, cur, clip, prow, pcol>>

\* A key without the prefix of the extended ones
PlainKey ==
    \/ \E c \in Chars : Type(c)
    \/ Backspace \/ Copy \/ Paste \/ ClearLine \/ RedrawUI \/ OtherKey
    \/ \E out \in Outputs : Enter(out)
    \/ EnterClear

ExtendedKey == Left \/ Right \/ Delete \/ PageUp \/ PageDown

Next == PlainKey \/ ExtendedKey \/ WheelUp \/ WheelDown

Spec == Init /\ [][Next]_vars

-----------------------------------------------------------------------------
(* Properties *)

\* Line y of the region when the view follows the output
Current(y) == term.hist[Slot(term, MaxOffset(term) + y)]

\* The screen and the scrollback are two copies of the text, written by
\* different paths: the region always shows exactly the stretch of history that
\* the view offset asks for, also after the ring has wrapped and after the view
\* was moved with the keyboard and the wheel in turn.
ScreenIsView ==
    /\ term.offset \in 0 .. MaxOffset(term)
    /\ \A y \in Rows :
          term.screen[y] =
              term.hist[Slot(term, MaxOffset(term) - term.offset + y)]

\* The prompt and the line being edited stand in the row the editor believes in,
\* over the columns it draws, whatever was scrolled, pasted or printed before;
\* and the terminal's cursor is in that row, so that the output of a command
\* starts below the line and overwrites nothing (moving the view leaves the
\* cursor in the last row, which is harmless only because there is nothing to
\* scroll back to until the prompt has reached that row).
LineIsShown ==
    /\ term.row = prow
    /\ term.col \in {0, pcol + cur} \/ pcol + cur >= Width
    /\ \A i \in 1 .. PromptWidth : Current(prow)[pcol - i] = "p"
    /\ \A i \in 1 .. Capacity(pcol) :
          Current(prow)[pcol + i - 1] =
              IF i <= Len(buffer) THEN buffer[i] ELSE " "

\* "Ctrl+U clears the current line" (docs/USAGE.md): when the line is empty,
\* nothing is left behind the prompt.
EmptyLineIsBlank ==
    buffer = <<>> => \A x \in pcol .. Width - 1 : Current(prow)[x] = " "
=============================================================================
