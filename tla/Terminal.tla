------------------------------ MODULE Terminal ------------------------------
(***************************************************************************)
(* What a screen promises, apart from where its memory is: pages of rows,  *)
(* each page with a cursor, one page that is shown and written.  Page 0    *)
(* keeps its last row for the status line.                                 *)
(***************************************************************************)
EXTENDS Naturals, Sequences

CONSTANTS PAGES, scr_x, scr_y, Glyph

VARIABLES shown, rows, x, y

termvars == <<shown, rows, x, y>>

Blank == [i \in 1 .. scr_x |-> "SP"]

\* how many rows text may use, status line apart
TextRows(p) == IF p = 0 THEN scr_y - 1 ELSE scr_y

TermInit == /\ shown = 0
            /\ rows = [p \in 0 .. PAGES - 1 |-> [r \in 1 .. scr_y |-> Blank]]
            /\ x = [p \in 0 .. PAGES - 1 |-> 0] /\ y = [p \in 0 .. PAGES - 1 |-> 0]

\* the cursor goes to row r of page p; if that is one too many, the first row
\* of text is lost and an empty one comes in
Down(p, text) ==
    LET n == TextRows(p) IN
    IF y[p] + 1 < n
    THEN rows' = [rows EXCEPT ![p] = text] /\ y' = [y EXCEPT ![p] = @ + 1]
    ELSE /\ rows' = [rows EXCEPT ![p] = Tail(SubSeq(text, 1, n)) \o <<Blank>>
                                        \o SubSeq(text, n + 1, scr_y)]
         /\ UNCHANGED y

Shows(c) ==
    LET p == shown
        text == [rows[p] EXCEPT ![y[p] + 1][x[p] + 1] = c]
    IN /\ IF x[p] + 1 < scr_x
          THEN /\ x' = [x EXCEPT ![p] = @ + 1] /\ UNCHANGED y
               /\ rows' = [rows EXCEPT ![p] = text]
          ELSE x' = [x EXCEPT ![p] = 0] /\ Down(p, text)
       /\ UNCHANGED shown

NewLine == Down(shown, rows[shown]) /\ UNCHANGED <<shown, x>>

\* the cursor moves and nothing else does
Moves == \E i \in 0 .. scr_x - 1, j \in 0 .. TextRows(shown) - 1 :
            /\ x' = [x EXCEPT ![shown] = i] /\ y' = [y EXCEPT ![shown] = j]
            /\ UNCHANGED <<shown, rows>>

ClearsLine ==
    LET p == shown IN
    /\ rows' = [rows EXCEPT ![p][y[p] + 1] =
                    SubSeq(@, 1, x[p]) \o SubSeq(Blank, x[p] + 1, scr_x)]
    /\ UNCHANGED <<shown, x, y>>

Clears == /\ rows' = [rows EXCEPT ![shown] = [r \in 1 .. scr_y |-> Blank]]
          /\ x' = [x EXCEPT ![shown] = 0] /\ y' = [y EXCEPT ![shown] = 0]
          /\ UNCHANGED shown

Status == \E i \in 1 .. scr_x, c \in Glyph :
            /\ rows' = [rows EXCEPT ![0][scr_y][i] = c]
            /\ UNCHANGED <<shown, x, y>>

Turns == \E p \in 0 .. PAGES - 1 : shown' = p /\ UNCHANGED <<rows, x, y>>

TermNext == (\E c \in Glyph : Shows(c)) \/ NewLine \/ Moves \/ ClearsLine
            \/ Clears \/ Status \/ Turns

TermSpec == TermInit /\ [][TermNext]_termvars
=============================================================================
