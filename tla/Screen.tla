------------------------------- MODULE Screen -------------------------------
(***************************************************************************)
(* The screen of the console, kernel/console/SCREEN.C: a cursor for each   *)
(* page, characters written to the video memory, scrolling, and the        *)
(* nesting of con_enter_cs and con_leave_cs.  A call runs with interrupts  *)
(* off and is one step.  Colours, the cursor register and the start        *)
(* address of the display are left out.                                    *)
(***************************************************************************)
EXTENDS Naturals, Sequences

CONSTANTS
    PAGES, scr_x, scr_y,    \* 4, 80 and 25
    Glyph,                  \* printable characters; "SP" is the space
    MaxLeft                 \* bound: calls that leave the section entered

ASSUME ScreenAssumption == /\ {PAGES, scr_x, scr_y} \subseteq Nat \ {0, 1}
                           /\ "SP" \in Glyph /\ MaxLeft \in Nat

VARIABLES
    vram,       \* video memory, one character a cell
    page, pages,
    cs          \* [reenter, sti, on]: cs_reenter, cs_sti, interrupts are on

scrvars == <<vram, page, pages, cs>>

scr_cells == scr_x * scr_y
Cells == 0 .. PAGES * scr_cells - 1

MAXY == IF page = 0 THEN scr_y - 1 ELSE scr_y

\* where the page that is shown begins
scrram == page * scr_cells

ScreenInit ==
    /\ vram = [i \in Cells |-> "SP"] /\ page = 0
    /\ pages = [p \in 0 .. PAGES - 1 |-> [curs_x |-> 0, curs_y |-> 0]]
    /\ cs = [reenter |-> 0, sti |-> FALSE, on |-> TRUE]
-----------------------------------------------------------------------------
(* The section                                                             *)

\* fault: every entry saves the flag
Saves_always(c) == TRUE

Saves(c) == c.reenter = 0

con_enter_cs(c) == [reenter |-> c.reenter + 1, on |-> FALSE,
                    sti |-> IF Saves(c) THEN c.on ELSE c.sti]

con_leave_cs(c) == [c EXCEPT !.reenter = @ - 1,
                             !.on = IF c.reenter = 1 THEN c.sti ELSE @]

\* calls within calls, all left again
Within(c) == con_leave_cs(con_leave_cs(con_enter_cs(con_enter_cs(c))))
-----------------------------------------------------------------------------
(* Characters                                                              *)

\* A screen is [vram, x, y]: the memory and the cursor of this page.

\* fault: the row that comes in is the last of the screen
LastRow_screen == scr_y - 1

LastRow == MAXY - 1

\* memmove of the rows but the first, and an empty last one
con_scroll(s) ==
    LET last == scrram + LastRow * scr_x IN
    [s EXCEPT !.y = @ - 1,
              !.vram = [i \in Cells |->
                            IF i \in scrram .. last - 1 THEN s.vram[i + scr_x]
                            ELSE IF i \in last .. last + scr_x - 1 THEN "SP"
                            ELSE s.vram[i]]]

Lower(s) == IF s.y + 1 = MAXY THEN con_scroll([s EXCEPT !.y = @ + 1])
            ELSE [s EXCEPT !.y = @ + 1]

con_right(s) == IF s.x + 1 = scr_x THEN Lower([s EXCEPT !.x = 0])
                ELSE [s EXCEPT !.x = @ + 1]

con_left(s) ==
    IF s.x > 0 THEN [s EXCEPT !.x = @ - 1]
    ELSE IF s.y = 0 THEN s ELSE [s EXCEPT !.x = scr_x - 1, !.y = @ - 1]

con_char(s, by) ==
    CASE by = "CR" -> [s EXCEPT !.x = 0]
      [] by = "LF" -> Lower(s)
      [] by = "BS" -> con_left(s)
      [] OTHER -> con_right([s EXCEPT !.vram[scrram + s.y * scr_x + s.x] = by])

This == [vram |-> vram, x |-> pages[page].curs_x, y |-> pages[page].curs_y]

Becomes(s) == /\ vram' = s.vram
              /\ pages' = [pages EXCEPT ![page] =
                                [curs_x |-> s.x, curs_y |-> s.y]]
              /\ UNCHANGED page

\* con_left leaves at the first column without con_leave_cs
Stays(by) == by = "BS" /\ This.x = 0

\* one character of con_write
con_write(by) ==
    /\ Becomes(con_char(This, by))
    /\ Stays(by) => cs.reenter < MaxLeft
    /\ cs' = Within(IF Stays(by) THEN con_enter_cs(cs) ELSE cs)
-----------------------------------------------------------------------------
(* The other calls                                                         *)

Clamped(i, n) == IF i < n THEN i ELSE n - 1

con_gotoxy(i, j) ==
    /\ Becomes([This EXCEPT !.x = Clamped(i, scr_x), !.y = Clamped(j, MAXY)])
    /\ cs' = con_leave_cs(con_enter_cs(cs))

\* the status line is cleared with page 0
con_clrscr ==
    /\ Becomes([vram |-> [i \in Cells |-> IF i \div scr_cells = page THEN "SP"
                                          ELSE vram[i]],
                x |-> 0, y |-> 0])
    /\ cs' = con_leave_cs(con_enter_cs(cs))

con_clreol ==
    LET row == scrram + This.y * scr_x IN
    /\ Becomes([This EXCEPT !.vram =
            [i \in Cells |-> IF i \in row + This.x .. row + scr_x - 1 THEN "SP"
                             ELSE vram[i]]])
    /\ cs' = con_leave_cs(con_enter_cs(cs))

\* one character of con_status: on page 0, whatever is shown
con_stputc(con_stcol, ch) ==
    /\ IF con_stcol < scr_x
       THEN vram' = [vram EXCEPT ![scr_cells - scr_x + con_stcol] = ch]
       ELSE UNCHANGED vram
    /\ cs' = Within(cs)
    /\ UNCHANGED <<page, pages>>

con_setpage(newpage) ==
    /\ page' = IF newpage < PAGES THEN newpage ELSE page
    /\ UNCHANGED <<vram, pages, cs>>

\* the flag is set again by what runs next: an iret, or another task's flags
Resumes == ~ cs.on /\ cs' = [cs EXCEPT !.on = TRUE]
           /\ UNCHANGED <<vram, page, pages>>
-----------------------------------------------------------------------------
ScreenNext ==
    \/ \E by \in Glyph \cup {"CR", "LF", "BS"} : con_write(by)
    \/ \E i \in 0 .. scr_x, j \in 0 .. scr_y : con_gotoxy(i, j)
    \/ con_clrscr \/ con_clreol \/ Resumes
    \/ \E i \in 0 .. scr_x, ch \in Glyph : con_stputc(i, ch)
    \/ \E p \in 0 .. PAGES : con_setpage(p)

ScreenSpec == ScreenInit /\ [][ScreenNext]_scrvars
-----------------------------------------------------------------------------
Term == INSTANCE Terminal WITH
    shown <- page,
    rows <- [p \in 0 .. PAGES - 1 |-> [r \in 1 .. scr_y |->
                [i \in 1 .. scr_x |-> vram[p * scr_cells + (r - 1) * scr_x + i - 1]]]],
    x <- [p \in 0 .. PAGES - 1 |-> pages[p].curs_x],
    y <- [p \in 0 .. PAGES - 1 |-> pages[p].curs_y]

\* What the flat memory shows is what pages of rows would: text wraps and
\* scrolls within its page and leaves the status line and the other pages
\* alone.
ShowsTerminal == Term!TermSpec

\* The nested sections leave interrupts on, until a backspace in the first
\* column has left one entered.
InterruptsRestored == cs.reenter = 0 => cs.on
=============================================================================
