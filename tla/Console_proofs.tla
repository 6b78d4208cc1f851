--------------------------- MODULE Console_proofs --------------------------
(***************************************************************************)
(* The screen of the console shows a terminal, whatever the number and the *)
(* size of its pages, and its sections leave interrupts on.  The ring of a *)
(* serial port holds the line that is typed, whatever its size and however *)
(* many tasks read, and its blocks are sent in the order of the calls,     *)
(* however many tasks write.  The ring of the keyboard holds what is typed *)
(* on it, for one task that reads.                                         *)
(***************************************************************************)
EXTENDS Screen, Tty, TtyXmit, Console, SequenceTheorems, FiniteSetTheorems,
        WellFoundedInduction, TLAPS

Picture == [0 .. PAGES - 1 -> [1 .. scr_y -> [1 .. scr_x -> Glyph]]]

ScreenTypeOK ==
    /\ vram \in [Cells -> Glyph]
    /\ page \in 0 .. PAGES - 1
    /\ pages \in [0 .. PAGES - 1 -> [curs_x : Nat, curs_y : Nat]]
    /\ \A p \in 0 .. PAGES - 1 : /\ pages[p].curs_x < scr_x
                                 /\ pages[p].curs_y < Term!TextRows(p)

LEMMA ScreenSizes ==
    /\ PAGES \in Nat /\ PAGES > 1 /\ scr_x \in Nat /\ scr_x > 1
    /\ scr_y \in Nat /\ scr_y > 1 /\ "SP" \in Glyph
<1>1. PAGES \in Nat \ {0, 1} /\ scr_x \in Nat \ {0, 1} /\ scr_y \in Nat \ {0, 1}
  BY ScreenAssumption
<1> QED BY <1>1, ScreenAssumption

Section == [reenter : Nat, on : BOOLEAN, sti : BOOLEAN]
SectionInv == cs \in Section /\ (cs.reenter = 0 => cs.on)

LEMMA Leaves ==
  ASSUME NEW c \in Section, c.reenter > 0
  PROVE  /\ con_leave_cs(c) \in Section
         /\ con_leave_cs(c).reenter = c.reenter - 1
         /\ con_leave_cs(c).sti = c.sti
         /\ c.reenter = 1 => con_leave_cs(c).on = c.sti
<1>1. PICK n \in Nat : n = c.reenter - 1
  BY DEF Section
<1>2. PICK b \in BOOLEAN : b = IF c.reenter = 1 THEN c.sti ELSE c.on
  BY Zenon DEF Section
<1>3. con_leave_cs(c) = [c EXCEPT !.reenter = n, !.on = b]
  BY <1>1, <1>2, Zenon DEF con_leave_cs
<1>4. [c EXCEPT !.reenter = n, !.on = b] \in Section
  BY DEF Section
<1> QED BY <1>1, <1>2, <1>3, <1>4 DEF Section

LEMMA EntersAndLeaves ==
  ASSUME NEW c \in Section
  PROVE  /\ con_enter_cs(c) \in Section /\ con_enter_cs(c).reenter = c.reenter + 1
         /\ Within(c).reenter = c.reenter /\ Within(c) \in Section
         /\ c.reenter = 0 /\ c.on => Within(c).on
         /\ con_leave_cs(con_enter_cs(c)) \in Section
         /\ con_leave_cs(con_enter_cs(c)).reenter = c.reenter
         /\ c.reenter = 0 /\ c.on => con_leave_cs(con_enter_cs(c)).on
<1>1. PICK d : d = con_enter_cs(c)
  OBVIOUS
<1>2. /\ d \in Section /\ d.reenter = c.reenter + 1
      /\ d.sti = IF c.reenter = 0 THEN c.on ELSE c.sti
  BY <1>1 DEF con_enter_cs, Saves, Section
<1>3. PICK e : e = con_enter_cs(d)
  OBVIOUS
<1>4. e \in Section /\ e.reenter = c.reenter + 2 /\ e.sti = d.sti
  BY <1>2, <1>3 DEF con_enter_cs, Saves, Section
<1>5. PICK f : f = con_leave_cs(e)
  OBVIOUS
<1>6. f \in Section /\ f.reenter = c.reenter + 1 /\ f.sti = d.sti
  BY <1>2, <1>4, <1>5, Leaves DEF Section
<1>7. ASSUME NEW g \in Section, g.reenter = c.reenter + 1, g.sti = d.sti
      PROVE  /\ con_leave_cs(g) \in Section
             /\ con_leave_cs(g).reenter = c.reenter
             /\ c.reenter = 0 /\ c.on => con_leave_cs(g).on
  <2>1. con_leave_cs(g) \in Section /\ con_leave_cs(g).reenter = c.reenter
    BY <1>7, Leaves DEF Section
  <2>2. ASSUME c.reenter = 0, c.on PROVE con_leave_cs(g).on
    <3>1. g.reenter = 1 /\ d.sti = c.on
      BY <1>2, <1>7, <2>2
    <3>2. con_leave_cs(g).on = g.sti
      BY <1>7, <3>1, Leaves
    <3> QED BY <1>7, <2>2, <3>1, <3>2, Zenon
  <2> QED BY <2>1, <2>2
<1>8. Within(c) = con_leave_cs(f)
  BY <1>1, <1>3, <1>5 DEF Within
<1> QED
  BY <1>1, <1>2, <1>6, <1>7, <1>8

\* With the section left as often as entered, interrupts are on.
THEOREM InterruptsComeBack == ScreenSpec => []InterruptsRestored
<1>1. ScreenInit => SectionInv
  BY DEF ScreenInit, SectionInv, Section
<1>2. SectionInv /\ [ScreenNext]_scrvars => SectionInv'
  <2> SUFFICES ASSUME SectionInv, [ScreenNext]_scrvars PROVE SectionInv'
    OBVIOUS
  <2> USE DEF SectionInv
  <2>1. CASE cs' = Within(cs)
    BY <2>1, EntersAndLeaves
  <2>2. CASE cs' = con_leave_cs(con_enter_cs(cs))
    BY <2>2, EntersAndLeaves
  <2>3. CASE cs' = Within(con_enter_cs(cs))
    <3>1. /\ con_enter_cs(cs) \in Section
          /\ con_enter_cs(cs).reenter = cs.reenter + 1
      BY EntersAndLeaves
    <3>2. Within(con_enter_cs(cs)) \in Section
      BY <3>1, EntersAndLeaves
    <3>3. Within(con_enter_cs(cs)).reenter = cs.reenter + 1
      BY <3>1, EntersAndLeaves
    <3>4. cs.reenter \in Nat
      BY DEF Section
    <3> QED
      BY <2>3, <3>2, <3>3, <3>4
  <2>4. CASE Resumes
    BY <2>4 DEF Resumes, Section
  <2>5. CASE UNCHANGED cs
    BY <2>5
  <2> QED
    BY <2>1, <2>2, <2>3, <2>4, <2>5
    DEF ScreenNext, con_write, con_gotoxy, con_clrscr, con_clreol, con_stputc,
        con_setpage, scrvars
<1>3. SectionInv => InterruptsRestored
  BY DEF SectionInv, InterruptsRestored
<1> QED
  BY <1>1, <1>2, <1>3, PTL DEF ScreenSpec

-----------------------------------------------------------------------------
(* Where a cell is                                                         *)

LEMMA Below ==
  ASSUME NEW a \in Nat, NEW b \in Nat, NEW n \in Nat, a < b
  PROVE  a * n + n <= b * n
<1> PICK k \in Nat : b = a + 1 + k
  <2>1. b - a - 1 \in Nat /\ b = a + 1 + (b - a - 1)
    OBVIOUS
  <2> QED BY <2>1
<1>1. b * n = a * n + n + k * n
  BY SMT
<1>2. k * n \in Nat
  BY SMT
<1>3. a * n \in Nat
  BY SMT
<1> QED BY <1>1, <1>2, <1>3

\* Row r of page p begins at Row(p, r).
Line(p, r) == p * scr_y + r - 1
Cell(p, r, i) == Line(p, r) * scr_x + i - 1

LEMMA CellIs ==
  ASSUME NEW p \in Nat, NEW r \in 1 .. scr_y, NEW i \in 1 .. scr_x
  PROVE  /\ Line(p, r) \in Nat
         /\ Cell(p, r, i) \in Nat
         /\ Cell(p, r, i) = p * scr_cells + (r - 1) * scr_x + i - 1
<1> scr_x \in Nat /\ scr_y \in Nat
  BY ScreenSizes
<1>1. p * scr_y \in Nat
  BY SMT
<1>2. Line(p, r) \in Nat
  BY <1>1 DEF Line
<1>3. Line(p, r) * scr_x \in Nat
  BY <1>2, SMT
<1>4. p * scr_cells = (p * scr_y) * scr_x
  BY SMT DEF scr_cells
<1>5. Line(p, r) * scr_x = (p * scr_y) * scr_x + (r - 1) * scr_x
  BY <1>1, SMT DEF Line
<1> QED BY <1>2, <1>3, <1>4, <1>5 DEF Cell

LEMMA LinesInOrder ==
  ASSUME NEW p \in Nat, NEW q \in Nat, p < q,
         NEW r \in 1 .. scr_y, NEW s \in 1 .. scr_y
  PROVE  Line(p, r) < Line(q, s)
<1> scr_x \in Nat /\ scr_y \in Nat
  BY ScreenSizes
<1>1. p * scr_y + scr_y <= q * scr_y
  BY Below
<1>2. p * scr_y \in Nat /\ q * scr_y \in Nat
  BY SMT
<1> QED BY <1>1, <1>2 DEF Line

LEMMA CellsInOrder ==
  ASSUME NEW p \in Nat, NEW q \in Nat,
         NEW r \in 1 .. scr_y, NEW s \in 1 .. scr_y, Line(p, r) < Line(q, s),
         NEW i \in 1 .. scr_x, NEW j \in 1 .. scr_x
  PROVE  Cell(p, r, i) < Cell(q, s, j)
<1> scr_x \in Nat /\ scr_y \in Nat
  BY ScreenSizes
<1>0. Line(p, r) \in Nat /\ Line(q, s) \in Nat
  BY CellIs
<1>1. Line(p, r) * scr_x + scr_x <= Line(q, s) * scr_x
  BY <1>0, Below
<1>2. Line(p, r) * scr_x \in Nat /\ Line(q, s) * scr_x \in Nat
  BY <1>0, SMT
<1> QED BY <1>1, <1>2 DEF Cell

LEMMA CellsDiffer ==
  ASSUME NEW p \in Nat, NEW q \in Nat,
         NEW r \in 1 .. scr_y, NEW s \in 1 .. scr_y,
         NEW i \in 1 .. scr_x, NEW j \in 1 .. scr_x,
         Cell(p, r, i) = Cell(q, s, j)
  PROVE  p = q /\ r = s /\ i = j
<1> scr_x \in Nat /\ scr_y \in Nat
  BY ScreenSizes
<1>0. Line(p, r) \in Nat /\ Line(q, s) \in Nat /\ Cell(p, r, i) \in Nat
  BY CellIs
<1>1. ~ Line(p, r) < Line(q, s) /\ ~ Line(q, s) < Line(p, r)
  BY <1>0, CellsInOrder
<1>2. Line(p, r) = Line(q, s)
  BY <1>0, <1>1
<1>3. ~ p < q /\ ~ q < p
  BY <1>0, <1>2, LinesInOrder
<1>4. p = q
  BY <1>3
<1>5. p * scr_y \in Nat
  BY SMT
<1>6. r = s
  BY <1>2, <1>4, <1>5 DEF Line
<1>7. Line(p, r) * scr_x \in Nat
  BY <1>0, SMT
<1> QED BY <1>2, <1>4, <1>6, <1>7 DEF Cell

LEMMA CellInMemory ==
  ASSUME NEW p \in 0 .. PAGES - 1, NEW r \in 1 .. scr_y, NEW i \in 1 .. scr_x
  PROVE  Cell(p, r, i) \in Cells
<1> scr_x \in Nat \ {0} /\ scr_y \in Nat \ {0} /\ PAGES \in Nat
  BY ScreenSizes
<1>1. Cell(p, r, i) < Cell(PAGES, 1, 1)
  <2>1. Line(p, r) < Line(PAGES, 1)
    BY LinesInOrder
  <2> QED BY <2>1, CellsInOrder
<1>2. Cell(PAGES, 1, 1) = PAGES * scr_cells + (1 - 1) * scr_x + 1 - 1
  BY CellIs
<1>3. scr_cells \in Nat
  BY SMT DEF scr_cells
<1>4. PAGES * scr_cells \in Nat
  BY <1>3, SMT
<1>5. Cell(p, r, i) \in Nat
  BY CellIs
<1> QED BY <1>1, <1>2, <1>4, <1>5 DEF Cells
-----------------------------------------------------------------------------
(* The picture in the memory                                               *)

Pic(v) == [p \in 0 .. PAGES - 1 |-> [r \in 1 .. scr_y |->
                [i \in 1 .. scr_x |-> v[p * scr_cells + (r - 1) * scr_x + i - 1]]]]

LEMMA PicIs ==
  ASSUME NEW v, NEW p \in 0 .. PAGES - 1, NEW r \in 1 .. scr_y, NEW i \in 1 .. scr_x
  PROVE  Pic(v)[p][r][i] = v[Cell(p, r, i)]
<1> PAGES \in Nat
  BY ScreenSizes
<1>1. Pic(v)[p][r][i] = v[p * scr_cells + (r - 1) * scr_x + i - 1]
  BY DEF Pic
<1>2. Cell(p, r, i) = p * scr_cells + (r - 1) * scr_x + i - 1
  BY CellIs
<1> QED BY <1>1, <1>2

LEMMA PicType ==
  ASSUME NEW v \in [Cells -> Glyph]
  PROVE  Pic(v) \in Picture
<1>1. \A p \in 0 .. PAGES - 1, r \in 1 .. scr_y, i \in 1 .. scr_x :
        v[p * scr_cells + (r - 1) * scr_x + i - 1] \in Glyph
  <2> TAKE p \in 0 .. PAGES - 1, r \in 1 .. scr_y, i \in 1 .. scr_x
  <2>0. p \in Nat
    BY ScreenSizes
  <2>1. v[Cell(p, r, i)] \in Glyph
    BY CellInMemory
  <2>2. Cell(p, r, i) = p * scr_cells + (r - 1) * scr_x + i - 1
    BY <2>0, CellIs
  <2> QED BY <2>1, <2>2
<1> QED BY <1>1 DEF Pic, Picture

LEMMA PictureParts ==
  ASSUME NEW R \in Picture, NEW p \in 0 .. PAGES - 1
  PROVE  /\ R[p] \in [1 .. scr_y -> [1 .. scr_x -> Glyph]]
         /\ \A r \in 1 .. scr_y : R[p][r] \in [1 .. scr_x -> Glyph]
<1>1. R[p] \in [1 .. scr_y -> [1 .. scr_x -> Glyph]]
  BY DEF Picture
<1> QED BY <1>1

LEMMA SameRow ==
  ASSUME NEW n \in Nat, NEW T, NEW f \in [1 .. n -> T], NEW g \in [1 .. n -> T],
         \A i \in 1 .. n : f[i] = g[i]
  PROVE  f = g
OBVIOUS

\* Two tables that agree on every place are the same.
LEMMA SamePicture ==
  ASSUME NEW R \in Picture, NEW S \in Picture,
         \A p \in 0 .. PAGES - 1, r \in 1 .. scr_y, i \in 1 .. scr_x :
            R[p][r][i] = S[p][r][i]
  PROVE  R = S
<1> PAGES \in Nat /\ scr_x \in Nat /\ scr_y \in Nat
  BY ScreenSizes
<1>1. ASSUME NEW p \in 0 .. PAGES - 1, NEW r \in 1 .. scr_y
      PROVE  R[p][r] = S[p][r]
  <2> PICK f : f = R[p][r]
    OBVIOUS
  <2> PICK g : g = S[p][r]
    OBVIOUS
  <2>1. f \in [1 .. scr_x -> Glyph] /\ g \in [1 .. scr_x -> Glyph]
    BY PictureParts
  <2>2. \A i \in 1 .. scr_x : f[i] = g[i]
    OBVIOUS
  <2>3. f = g
    BY <2>1, <2>2, SameRow
  <2> QED BY <2>3
<1>2. ASSUME NEW p \in 0 .. PAGES - 1
      PROVE  R[p] = S[p]
  <2> PICK f : f = R[p]
    OBVIOUS
  <2> PICK g : g = S[p]
    OBVIOUS
  <2>1. /\ f \in [1 .. scr_y -> [1 .. scr_x -> Glyph]]
        /\ g \in [1 .. scr_y -> [1 .. scr_x -> Glyph]]
    BY PictureParts
  <2>2. \A r \in 1 .. scr_y : f[r] = g[r]
    BY <1>1
  <2> QED BY <2>1, <2>2
<1>3. R \in Picture /\ S \in Picture
  OBVIOUS
<1> QED BY <1>2, <1>3 DEF Picture

PutAt(v, w, p, r, i, c) == \A a \in Cells : w[a] = IF a = Cell(p, r, i) THEN c ELSE v[a]

LEMMA CharacterPut ==
  ASSUME NEW v \in [Cells -> Glyph], NEW p \in 0 .. PAGES - 1,
         NEW r \in 1 .. scr_y, NEW i \in 1 .. scr_x, NEW c \in Glyph,
         NEW w \in [Cells -> Glyph],
         PutAt(v, w, p, r, i, c)
  PROVE  Pic(w) = [Pic(v) EXCEPT ![p][r][i] = c]
<1>2. Pic(w) \in Picture /\ Pic(v) \in Picture
  BY PicType
<1>1. PICK T : T = [Pic(v) EXCEPT ![p][r][i] = c]
  OBVIOUS
<1>3. T \in Picture
  BY <1>1, <1>2 DEF Picture
<1>4. ASSUME NEW q \in 0 .. PAGES - 1, NEW s \in 1 .. scr_y, NEW j \in 1 .. scr_x
      PROVE  Pic(w)[q][s][j] = T[q][s][j]
  <2>0. p \in Nat /\ q \in Nat
    BY ScreenSizes
  <2>1. Pic(w)[q][s][j] = w[Cell(q, s, j)] /\ Pic(v)[q][s][j] = v[Cell(q, s, j)]
    BY PicIs
  <2>2. Cell(q, s, j) \in Cells
    BY CellInMemory
  <2>3. w[Cell(q, s, j)] = IF Cell(q, s, j) = Cell(p, r, i) THEN c
                           ELSE v[Cell(q, s, j)]
    BY <2>2 DEF PutAt
  <2>4. T[q][s][j] = IF p = q /\ r = s /\ i = j THEN c ELSE Pic(v)[q][s][j]
    <3>1. Pic(v)[p] \in [1 .. scr_y -> [1 .. scr_x -> Glyph]]
      BY <1>2, PictureParts
    <3>2. Pic(v)[p][r] \in [1 .. scr_x -> Glyph]
      BY <3>1
    <3>3. Pic(v) \in [0 .. PAGES - 1 -> [1 .. scr_y -> [1 .. scr_x -> Glyph]]]
      BY <1>2 DEF Picture
    <3> QED BY <1>1, <3>1, <3>2, <3>3
  <2>5. Cell(q, s, j) = Cell(p, r, i) <=> p = q /\ r = s /\ i = j
    BY <2>0, CellsDiffer
  <2> QED BY <2>1, <2>3, <2>4, <2>5
<1>5. Pic(w) = T
  BY <1>2, <1>3, <1>4, SamePicture
<1> QED BY <1>1, <1>5

-----------------------------------------------------------------------------
(* Rows                                                                    *)

LEMMA FunctionIsSeq ==
  ASSUME NEW n \in Nat, NEW T, NEW s \in [1 .. n -> T]
  PROVE  s \in Seq(T) /\ Len(s) = n
<1>1. s \in Seq(T)
  BY SeqDef
<1> QED BY <1>1, LenProperties

LEMMA ConcatParts ==
  ASSUME NEW T, NEW s \in Seq(T), NEW t \in Seq(T), NEW n \in Nat, NEW m \in Nat,
         Len(s) = n, Len(t) = m
  PROVE  /\ s \o t \in [1 .. n + m -> T]
         /\ \A k \in 1 .. n : (s \o t)[k] = s[k]
         /\ \A k \in 1 .. m : (s \o t)[n + k] = t[k]
<1>u. PICK u : u = s \o t
  OBVIOUS
<1>1. /\ u \in Seq(T) /\ Len(u) = n + m
      /\ \A k \in 1 .. n + m : u[k] = IF k <= n THEN s[k] ELSE t[k - n]
  BY <1>u, ConcatProperties
<1>2. u \in [1 .. n + m -> T]
  BY <1>1, LenProperties
<1>3. ASSUME NEW k \in 1 .. n PROVE u[k] = s[k]
  BY <1>1
<1>4. ASSUME NEW k \in 1 .. m PROVE u[n + k] = t[k]
  <2>1. PICK j : j = n + k
    OBVIOUS
  <2>2. j \in 1 .. n + m /\ ~ j <= n /\ j - n = k
    BY <2>1
  <2> QED BY <1>1, <2>1, <2>2
<1> QED BY <1>u, <1>2, <1>3, <1>4

\* A row that comes in at the bottom of the first n.
RowsUp(text, n) == Tail(SubSeq(text, 1, n)) \o <<Term!Blank>>
                   \o SubSeq(text, n + 1, scr_y)

LEMMA RowsUpIs ==
  ASSUME NEW text \in [1 .. scr_y -> [1 .. scr_x -> Glyph]], NEW n \in 1 .. scr_y
  PROVE  RowsUp(text, n) = [r \in 1 .. scr_y |-> IF r < n THEN text[r + 1]
                                ELSE IF r = n THEN Term!Blank ELSE text[r]]
<1> DEFINE T == [1 .. scr_x -> Glyph]
<1> scr_y \in Nat
  BY ScreenSizes
<1>T. text \in [1 .. scr_y -> T] /\ Term!Blank \in T
  BY ScreenSizes DEF Term!Blank
<1> HIDE DEF T
<1>0. text \in Seq(T) /\ Len(text) = scr_y
  BY <1>T, FunctionIsSeq
<1>a. PICK a : a = SubSeq(text, 1, n)
  OBVIOUS
<1>1. /\ a \in Seq(T) /\ Len(a) = n
      /\ \A k \in 1 .. n : a[k] = text[k]
  BY <1>0, <1>a, SubSeqProperties
<1>b. PICK b : b = Tail(a)
  OBVIOUS
<1>2. /\ b \in Seq(T) /\ Len(b) = n - 1
      /\ \A k \in 1 .. n - 1 : b[k] = text[k + 1]
  <2>1. a # <<>>
    BY <1>1
  <2> QED BY <1>1, <1>b, <2>1, HeadTailProperties
<1>c. PICK c : c = b \o <<Term!Blank>>
  OBVIOUS
<1>3. /\ c \in Seq(T) /\ Len(c) = n
      /\ \A k \in 1 .. n : c[k] = IF k < n THEN text[k + 1] ELSE Term!Blank
  <2>1. <<Term!Blank>> \in Seq(T) /\ Len(<<Term!Blank>>) = 1
    BY <1>T
  <2> QED BY <1>2, <1>c, <2>1, ConcatProperties
<1>d. PICK d : d = SubSeq(text, n + 1, scr_y)
  OBVIOUS
<1>4. /\ d \in Seq(T) /\ Len(d) = scr_y - n
      /\ \A k \in 1 .. scr_y - n : d[k] = text[n + k]
  <2>1. \A i \in n + 1 .. scr_y : text[i] \in T
    BY <1>T
  <2>2. /\ d \in Seq(T)
        /\ Len(d) = IF n + 1 <= scr_y THEN scr_y - (n + 1) + 1 ELSE 0
        /\ \A k \in 1 .. scr_y - (n + 1) + 1 : d[k] = text[n + 1 + k - 1]
    BY <1>d, <2>1, SubSeqProperties
  <2>3. \A k \in 1 .. scr_y - n : d[k] = text[n + k]
    BY <2>2
  <2> QED BY <2>2, <2>3
<1>e. PICK e : e = c \o d
  OBVIOUS
<1>5. /\ e \in [1 .. scr_y -> T]
      /\ \A k \in 1 .. n : e[k] = c[k]
      /\ \A k \in 1 .. scr_y - n : e[n + k] = d[k]
  <2>1. PICK m \in Nat : m = scr_y - n
    OBVIOUS
  <2>2. /\ e \in [1 .. n + m -> T]
        /\ \A k \in 1 .. n : e[k] = c[k]
        /\ \A k \in 1 .. m : e[n + k] = d[k]
    BY <1>3, <1>4, <1>e, <2>1, ConcatParts
  <2>3. n + m = scr_y
    BY <2>1
  <2> QED BY <2>1, <2>2, <2>3
<1>6. RowsUp(text, n) = e
  BY <1>a, <1>b, <1>c, <1>d, <1>e DEF RowsUp
<1>7. ASSUME NEW r \in 1 .. scr_y
      PROVE  e[r] = IF r < n THEN text[r + 1]
                    ELSE IF r = n THEN Term!Blank ELSE text[r]
  <2>1. CASE r <= n
    <3>1. r \in 1 .. n
      BY <2>1
    <3> QED BY <2>1, <3>1, <1>3, <1>5
  <2>2. CASE n < r
    <3>1. PICK k : k = r - n
      OBVIOUS
    <3>2. k \in 1 .. scr_y - n /\ n + k = r
      BY <3>1, <2>2
    <3>3. e[n + k] = d[k] /\ d[k] = text[n + k]
      BY <3>2, <1>4, <1>5
    <3> QED BY <3>2, <3>3, <2>2
  <2> QED BY <2>1, <2>2
<1> QED BY <1>5, <1>6, <1>7

LEMMA RowCleared ==
  ASSUME NEW text \in [1 .. scr_x -> Glyph], NEW k \in 0 .. scr_x - 1
  PROVE  SubSeq(text, 1, k) \o SubSeq(Term!Blank, k + 1, scr_x)
            = [i \in 1 .. scr_x |-> IF i <= k THEN text[i] ELSE "SP"]
<1> scr_x \in Nat /\ "SP" \in Glyph
  BY ScreenSizes
<1>0. /\ text \in Seq(Glyph) /\ Len(text) = scr_x
      /\ Term!Blank \in Seq(Glyph) /\ Len(Term!Blank) = scr_x
      /\ \A i \in 1 .. scr_x : Term!Blank[i] = "SP"
  <2>1. Term!Blank \in [1 .. scr_x -> Glyph]
    BY ScreenSizes DEF Term!Blank
  <2> QED BY <2>1, FunctionIsSeq DEF Term!Blank
<1>a. PICK a : a = SubSeq(text, 1, k)
  OBVIOUS
<1>1. /\ a \in Seq(Glyph) /\ Len(a) = k
      /\ \A i \in 1 .. k : a[i] = text[i]
  BY <1>0, <1>a, SubSeqProperties
<1>b. PICK b : b = SubSeq(Term!Blank, k + 1, scr_x)
  OBVIOUS
<1>2. /\ b \in Seq(Glyph) /\ Len(b) = scr_x - k
      /\ \A i \in 1 .. scr_x - k : b[i] = "SP"
  <2>1. \A i \in k + 1 .. scr_x : Term!Blank[i] \in Glyph
    BY <1>0
  <2>2. /\ b \in Seq(Glyph) /\ Len(b) = scr_x - (k + 1) + 1
        /\ \A i \in 1 .. scr_x - (k + 1) + 1 : b[i] = Term!Blank[k + 1 + i - 1]
    BY <1>b, <2>1, SubSeqProperties
  <2>3. \A i \in 1 .. scr_x - k : b[i] = Term!Blank[k + i]
    BY <2>2
  <2> QED BY <2>2, <2>3, <1>0
<1>c. PICK c : c = a \o b
  OBVIOUS
<1>3. /\ c \in [1 .. scr_x -> Glyph]
      /\ \A i \in 1 .. k : c[i] = a[i]
      /\ \A i \in 1 .. scr_x - k : c[k + i] = b[i]
  <2>1. PICK m \in Nat : m = scr_x - k
    OBVIOUS
  <2>2. /\ c \in [1 .. k + m -> Glyph]
        /\ \A i \in 1 .. k : c[i] = a[i]
        /\ \A i \in 1 .. m : c[k + i] = b[i]
    <3>1. a \in Seq(Glyph) /\ b \in Seq(Glyph) /\ Len(a) = k /\ Len(b) = m /\ k \in Nat
      BY <1>1, <1>2, <2>1
    <3> QED BY <1>c, <2>1, <3>1, ConcatParts
  <2>3. k + m = scr_x
    BY <2>1
  <2> QED BY <2>1, <2>2, <2>3
<1>4. ASSUME NEW i \in 1 .. scr_x
      PROVE  c[i] = IF i <= k THEN text[i] ELSE "SP"
  <2>1. CASE i <= k
    <3>1. i \in 1 .. k
      BY <2>1
    <3> QED BY <2>1, <3>1, <1>1, <1>3
  <2>2. CASE k < i
    <3>1. PICK j : j = i - k
      OBVIOUS
    <3>2. j \in 1 .. scr_x - k /\ k + j = i
      BY <3>1, <2>2
    <3>3. c[k + j] = b[j]
      BY <3>2, <1>3
    <3> QED BY <3>2, <3>3, <2>2, <1>2
  <2> QED BY <2>1, <2>2
<1> QED BY <1>a, <1>b, <1>c, <1>3, <1>4

-----------------------------------------------------------------------------
(* What the routines do to the picture                                     *)

\* Where row r of page p is, seen from another row.
LEMMA RowAt ==
  ASSUME NEW p \in 0 .. PAGES - 1, NEW r \in 1 .. scr_y,
         NEW row, row = p * scr_cells + (r - 1) * scr_x
  PROVE  /\ row \in Nat /\ \A j \in 1 .. scr_x : Cell(p, r, j) = row + j - 1
         /\ row + scr_x - 1 \in Cells
<1> PAGES \in Nat /\ scr_x \in Nat /\ scr_y \in Nat /\ scr_x > 1 /\ p \in Nat
  BY ScreenSizes
<1>1. \A j \in 1 .. scr_x : Cell(p, r, j) = row + j - 1
  BY CellIs
<1>2. Cell(p, r, 1) \in Nat /\ Cell(p, r, 1) = row + 1 - 1
  BY <1>1, CellIs
<1>3. row \in Nat
  <2>1. scr_cells \in Nat
    BY SMT DEF scr_cells
  <2>2. p * scr_cells \in Nat /\ (r - 1) * scr_x \in Nat
    BY <2>1, SMT
  <2> QED BY <2>2
<1>4. Cell(p, r, scr_x) \in Cells /\ Cell(p, r, scr_x) = row + scr_x - 1
  BY <1>1, CellInMemory
<1> QED BY <1>1, <1>3, <1>4

LEMMA RowsApart ==
  ASSUME NEW p \in 0 .. PAGES - 1, NEW r \in 1 .. scr_y,
         NEW q \in 0 .. PAGES - 1, NEW s \in 1 .. scr_y, NEW j \in 1 .. scr_x,
         NEW row, row = p * scr_cells + (r - 1) * scr_x
  PROVE  /\ p < q => row + scr_x - 1 < Cell(q, s, j)
         /\ q < p => Cell(q, s, j) < row
         /\ p = q /\ r < s => row + scr_x - 1 < Cell(q, s, j)
         /\ p = q /\ s < r => Cell(q, s, j) < row
<1> /\ PAGES \in Nat /\ scr_x \in Nat /\ scr_y \in Nat /\ scr_x > 1
    /\ p \in Nat /\ q \in Nat
  BY ScreenSizes
<1>1. Cell(p, r, scr_x) = row + scr_x - 1 /\ Cell(p, r, 1) = row
  BY RowAt
<1>2. Line(p, r) < Line(q, s) => Cell(p, r, scr_x) < Cell(q, s, j)
  BY CellsInOrder
<1>3. Line(q, s) < Line(p, r) => Cell(q, s, j) < Cell(p, r, 1)
  BY CellsInOrder
<1>4. p < q => Line(p, r) < Line(q, s)
  BY LinesInOrder
<1>5. q < p => Line(q, s) < Line(p, r)
  BY LinesInOrder
<1>6. p * scr_y \in Nat
  BY SMT
<1>7. p = q /\ r < s => Line(p, r) < Line(q, s)
  BY <1>6 DEF Line
<1>8. p = q /\ s < r => Line(q, s) < Line(p, r)
  BY <1>6 DEF Line
<1> QED BY <1>1, <1>2, <1>3, <1>4, <1>5, <1>7, <1>8

LEMMA FirstRow ==
  ASSUME NEW p \in Nat, NEW one, one = 1
  PROVE  p * scr_cells = p * scr_cells + (one - 1) * scr_x
<1>1. scr_cells \in Nat /\ scr_x \in Nat
  BY ScreenSizes, SMT DEF scr_cells
<1>2. p * scr_cells \in Nat
  BY <1>1, SMT
<1>3. (one - 1) * scr_x = 0
  BY <1>1, SMT
<1> QED BY <1>2, <1>3

LEMMA PageScrolled ==
  ASSUME NEW v \in [Cells -> Glyph], NEW p \in 0 .. PAGES - 1, NEW n \in 1 .. scr_y,
         NEW base, base = p * scr_cells, NEW last, last = base + (n - 1) * scr_x,
         NEW w, DOMAIN w = Cells, w = [a \in DOMAIN w |-> w[a]],
         \A a \in Cells : w[a] = IF a \in base .. last - 1 THEN v[a + scr_x]
                                 ELSE IF a \in last .. last + scr_x - 1 THEN "SP"
                                 ELSE v[a]
  PROVE  /\ w \in [Cells -> Glyph]
         /\ Pic(w) = [Pic(v) EXCEPT ![p] = RowsUp(Pic(v)[p], n)]
<1> /\ PAGES \in Nat /\ scr_x \in Nat /\ scr_y \in Nat /\ scr_x > 1
    /\ p \in Nat /\ "SP" \in Glyph
  BY ScreenSizes
<1>1. /\ last \in Nat /\ last + scr_x - 1 \in Cells
      /\ \A j \in 1 .. scr_x : Cell(p, n, j) = last + j - 1
  BY RowAt
<1>2. base \in Nat /\ \A j \in 1 .. scr_x : Cell(p, 1, j) = base + j - 1
  <2>1. PICK one \in 1 .. scr_y : one = 1
    BY ScreenSizes
  <2>2. base = p * scr_cells + (one - 1) * scr_x
    BY <2>1, FirstRow
  <2>3. base \in Nat /\ \A j \in 1 .. scr_x : Cell(p, one, j) = base + j - 1
    BY <2>2, RowAt
  <2> QED BY <2>1, <2>3
<1>3. w \in [Cells -> Glyph]
  <2>1. ASSUME NEW a \in Cells, a \in base .. last - 1
        PROVE  a + scr_x \in Cells
    <3>1. PAGES * scr_cells \in Int
      BY SMT DEF scr_cells
    <3>2. PICK N \in Int : N = PAGES * scr_cells
      BY <3>1
    <3>3. Cells = 0 .. N - 1
      BY <3>2 DEF Cells
    <3>4. a \in 0 .. N - 1 /\ last + scr_x - 1 \in 0 .. N - 1 /\ a \in base .. last - 1
      BY <1>1, <2>1, <3>3
    <3>5. a + scr_x \in 0 .. N - 1
      BY <1>1, <1>2, <3>4
    <3> QED BY <3>3, <3>5
  <2>2. \A a \in Cells : w[a] \in Glyph
    BY <2>1
  <2> QED BY <2>2
<1>t. PICK text : text = Pic(v)[p]
  OBVIOUS
<1>4. Pic(w) \in Picture /\ Pic(v) \in Picture
  BY <1>3, PicType
<1>5. /\ text \in [1 .. scr_y -> [1 .. scr_x -> Glyph]]
      /\ Term!Blank \in [1 .. scr_x -> Glyph]
  BY <1>4, <1>t, PictureParts DEF Term!Blank
<1>u. PICK up : up = RowsUp(text, n)
  OBVIOUS
<1>6. up = [r \in 1 .. scr_y |-> IF r < n THEN text[r + 1]
                                 ELSE IF r = n THEN Term!Blank ELSE text[r]]
  BY <1>5, <1>u, RowsUpIs
<1>7. up \in [1 .. scr_y -> [1 .. scr_x -> Glyph]]
  BY <1>5, <1>6
<1>T. PICK T : T = [Pic(v) EXCEPT ![p] = up]
  OBVIOUS
<1>8. T \in Picture
  BY <1>4, <1>7, <1>T DEF Picture
<1>9. ASSUME NEW q \in 0 .. PAGES - 1, NEW s \in 1 .. scr_y, NEW j \in 1 .. scr_x
      PROVE  Pic(w)[q][s][j] = T[q][s][j]
  <2>0. q \in Nat
    BY ScreenSizes
  <2>1. Pic(w)[q][s][j] = w[Cell(q, s, j)] /\ Pic(v)[q][s][j] = v[Cell(q, s, j)]
    BY PicIs
  <2>2. Cell(q, s, j) \in Cells /\ Cell(q, s, j) \in Nat
    BY <2>0, CellInMemory, CellIs
  <2>3. CASE q # p
    <3>1. T[q][s][j] = Pic(v)[q][s][j]
      BY <1>4, <1>T, <2>3 DEF Picture
    <3>2. Cell(q, s, j) < base \/ last + scr_x - 1 < Cell(q, s, j)
      <4>1. q < p \/ p < q
        BY <2>0, <2>3
      <4>2. PICK one \in 1 .. scr_y : one = 1
        BY ScreenSizes
      <4>3. base = p * scr_cells + (one - 1) * scr_x
        BY <4>2, FirstRow
      <4>4. q < p => Cell(q, s, j) < base
        BY <4>3, RowsApart
      <4>5. p < q => last + scr_x - 1 < Cell(q, s, j)
        BY RowsApart
      <4> QED BY <4>1, <4>4, <4>5
    <3> QED BY <1>1, <1>2, <2>1, <2>2, <3>1, <3>2
  <2>4. CASE q = p /\ s > n
    <3>1. T[q][s][j] = Pic(v)[q][s][j]
      BY <1>4, <1>T, <1>6, <1>t, <2>4 DEF Picture
    <3>2. last + scr_x - 1 < Cell(q, s, j)
      BY <2>4, RowsApart
    <3> QED BY <1>1, <1>2, <2>1, <2>2, <3>1, <3>2
  <2>5. CASE q = p /\ s = n
    <3>1. T[q][s][j] = "SP"
      BY <1>4, <1>T, <1>6, <2>5 DEF Picture, Term!Blank
    <3>2. Cell(q, s, j) = last + j - 1
      BY <1>1, <2>5
    <3> QED BY <1>1, <1>2, <2>1, <2>2, <3>1, <3>2
  <2>6. CASE q = p /\ s < n
    <3>1. PICK r \in 1 .. scr_y : r = s + 1
      BY <2>6
    <3>2. T[q][s][j] = text[r][j]
      BY <1>4, <1>T, <1>6, <2>6, <3>1 DEF Picture
    <3>3. text[r][j] = v[Cell(p, r, j)]
      BY <1>t, PicIs
    <3>4. Cell(p, r, j) = Cell(q, s, j) + scr_x
      <4>1. p * scr_y \in Nat
        BY SMT
      <4>2. Line(p, r) = Line(p, s) + 1 /\ Line(p, s) \in Nat
        BY <3>1, <4>1 DEF Line
      <4>3. Line(p, r) * scr_x = Line(p, s) * scr_x + scr_x
        BY <4>2, SMT
      <4>4. Line(p, s) * scr_x \in Nat
        BY <4>2, SMT
      <4> QED BY <2>6, <4>3, <4>4 DEF Cell
    <3>5. base <= Cell(q, s, j) /\ Cell(q, s, j) < last
      <4>1. Cell(q, s, j) < last
        BY <2>6, RowsApart
      <4>2. CASE s = 1
        BY <1>2, <2>6, <4>2
      <4>3. CASE 1 < s
        <5>1. PICK one \in 1 .. scr_y : one = 1
          OBVIOUS
        <5>2. base = p * scr_cells + (one - 1) * scr_x
          BY <5>1, FirstRow
        <5>3. base + scr_x - 1 < Cell(q, s, j)
          BY <2>6, <4>3, <5>1, <5>2, RowsApart
        <5> QED BY <1>2, <2>2, <4>1, <5>3
      <4> QED BY <4>1, <4>2, <4>3
    <3> QED BY <1>1, <1>2, <2>1, <2>2, <3>2, <3>3, <3>4, <3>5
  <2> QED BY <2>3, <2>4, <2>5, <2>6
<1>10. \A q \in 0 .. PAGES - 1, s \in 1 .. scr_y, j \in 1 .. scr_x :
          Pic(w)[q][s][j] = T[q][s][j]
  BY <1>9
<1>11. Pic(w) = T
  <2>1. PICK S \in Picture : S = Pic(w)
    BY <1>4
  <2>2. \A q \in 0 .. PAGES - 1, s \in 1 .. scr_y, j \in 1 .. scr_x : S[q][s][j] = T[q][s][j]
    BY <1>10, <2>1
  <2>3. S = T
    BY <1>8, <2>2, SamePicture
  <2> QED BY <2>1, <2>3
<1> QED BY <1>3, <1>11, <1>T, <1>t, <1>u

\* Row r of page p has been cleared after its first k cells.
ClearedAfter(v, w, p, r, k) ==
    Pic(w) = [Pic(v) EXCEPT ![p][r] = SubSeq(@, 1, k)
                                      \o SubSeq(Term!Blank, k + 1, scr_x)]

LEMMA LineCleared ==
  ASSUME NEW v \in [Cells -> Glyph], NEW p \in 0 .. PAGES - 1, NEW r \in 1 .. scr_y,
         NEW k \in 0 .. scr_x - 1,
         NEW row, row = p * scr_cells + (r - 1) * scr_x,
         NEW w \in [Cells -> Glyph],
         \A a \in Cells : w[a] = IF a \in row + k .. row + scr_x - 1 THEN "SP"
                                 ELSE v[a]
  PROVE  ClearedAfter(v, w, p, r, k)
<1> /\ PAGES \in Nat /\ scr_x \in Nat /\ scr_y \in Nat /\ scr_x > 1
    /\ p \in Nat /\ "SP" \in Glyph
  BY ScreenSizes
<1>1. row \in Nat /\ \A j \in 1 .. scr_x : Cell(p, r, j) = row + j - 1
  <2>1. row \in Nat
    BY RowAt
  <2>2. ASSUME NEW j \in 1 .. scr_x PROVE Cell(p, r, j) = row + j - 1
    BY RowAt
  <2> QED BY <2>1, <2>2
<1>2. Pic(w) \in Picture /\ Pic(v) \in Picture
  BY PicType
<1>t. PICK text : text = Pic(v)[p][r]
  OBVIOUS
<1>3. text \in [1 .. scr_x -> Glyph]
  BY <1>2, <1>t, PictureParts
<1>u. PICK new : new = SubSeq(text, 1, k) \o SubSeq(Term!Blank, k + 1, scr_x)
  OBVIOUS
<1>4. new = [i \in 1 .. scr_x |-> IF i <= k THEN text[i] ELSE "SP"]
  BY <1>3, <1>u, RowCleared
<1>5. new \in [1 .. scr_x -> Glyph]
  BY <1>3, <1>4
<1>T. PICK T : T = [Pic(v) EXCEPT ![p][r] = new]
  OBVIOUS
<1>6. T \in Picture
  BY <1>2, <1>5, <1>T DEF Picture
<1>7. ASSUME NEW q \in 0 .. PAGES - 1, NEW s \in 1 .. scr_y, NEW j \in 1 .. scr_x
      PROVE  Pic(w)[q][s][j] = T[q][s][j]
  <2>0. q \in Nat
    BY ScreenSizes
  <2>1. Pic(w)[q][s][j] = w[Cell(q, s, j)] /\ Pic(v)[q][s][j] = v[Cell(q, s, j)]
    BY PicIs
  <2>2. Cell(q, s, j) \in Cells /\ Cell(q, s, j) \in Nat
    BY <2>0, CellInMemory, CellIs
  <2>3. Pic(v)[q] \in [1 .. scr_y -> [1 .. scr_x -> Glyph]]
    BY <1>2, PictureParts
  <2>4. CASE q # p \/ s # r
    <3>1. T[q][s] = Pic(v)[q][s]
      BY <1>2, <1>T, <2>3, <2>4 DEF Picture
    <3>2. Cell(q, s, j) < row \/ row + scr_x - 1 < Cell(q, s, j)
      <4>1. q < p \/ p < q \/ (p = q /\ s < r) \/ (p = q /\ r < s)
        BY <2>0, <2>4
      <4> QED BY <4>1, RowsApart
    <3>3. ~ Cell(q, s, j) \in row + k .. row + scr_x - 1
      BY <1>1, <2>2, <3>2
    <3>4. w[Cell(q, s, j)] = v[Cell(q, s, j)]
      BY <2>2, <3>3
    <3> QED BY <2>1, <3>1, <3>4
  <2>5. CASE q = p /\ s = r
    <3>1. T[q][s][j] = IF j <= k THEN text[j] ELSE "SP"
      BY <1>2, <1>T, <1>4, <2>5 DEF Picture
    <3>2. Cell(q, s, j) = row + j - 1
      BY <1>1, <2>5
    <3>3. Cell(q, s, j) \in row + k .. row + scr_x - 1 <=> ~ j <= k
      BY <1>1, <3>2
    <3>4. text[j] = v[Cell(q, s, j)]
      BY <1>t, <2>1, <2>5
    <3> QED BY <2>1, <2>2, <3>1, <3>3, <3>4
  <2> QED BY <2>4, <2>5
<1>8. \A q \in 0 .. PAGES - 1, s \in 1 .. scr_y, j \in 1 .. scr_x :
         Pic(w)[q][s][j] = T[q][s][j]
  BY <1>7
<1>9. Pic(w) = T
  <2>1. PICK S \in Picture : S = Pic(w)
    BY <1>2
  <2>2. \A q \in 0 .. PAGES - 1, s \in 1 .. scr_y, j \in 1 .. scr_x : S[q][s][j] = T[q][s][j]
    BY <1>8, <2>1
  <2>3. S = T
    BY <1>6, <2>2, SamePicture
  <2> QED BY <2>1, <2>3
<1>10. T = [Pic(v) EXCEPT ![p][r] = SubSeq(@, 1, k)
                                    \o SubSeq(Term!Blank, k + 1, scr_x)]
  BY <1>t, <1>u, <1>T
<1> QED BY <1>9, <1>10 DEF ClearedAfter

LEMMA Quotient ==
  ASSUME NEW q \in Nat, NEW n \in Nat, NEW k \in Nat, k < n
  PROVE  (q * n + k) \div n = q
<1>0. q * n \in Nat
  BY SMT
<1>1. PICK a \in Nat : a = q * n + k
  BY <1>0
<1>2. PICK d \in Nat : d = a \div n
  BY SMT
<1>3. d * n <= a /\ a < d * n + n /\ d * n \in Nat
  BY <1>2, SMT
<1>4. ~ d < q
  <2> SUFFICES ASSUME d < q PROVE FALSE
    OBVIOUS
  <2>1. d * n + n <= q * n
    BY Below
  <2> QED BY <1>0, <1>1, <1>3, <2>1
<1>5. ~ q < d
  <2> SUFFICES ASSUME q < d PROVE FALSE
    OBVIOUS
  <2>1. q * n + n <= d * n
    BY Below
  <2> QED BY <1>0, <1>1, <1>3, <2>1
<1> QED BY <1>1, <1>2, <1>4, <1>5

LEMMA PageOf ==
  ASSUME NEW q \in 0 .. PAGES - 1, NEW s \in 1 .. scr_y, NEW j \in 1 .. scr_x
  PROVE  Cell(q, s, j) \div scr_cells = q
<1> PAGES \in Nat /\ scr_x \in Nat /\ scr_y \in Nat /\ q \in Nat /\ scr_x > 1
  BY ScreenSizes
<1>1. PICK m \in Nat : m = s - 1
  OBVIOUS
<1>2. m * scr_x + scr_x <= scr_y * scr_x
  BY <1>1, Below
<1>3. scr_cells = scr_y * scr_x /\ scr_cells \in Nat
  BY SMT DEF scr_cells
<1>4. m * scr_x \in Nat
  BY SMT
<1>5. PICK k \in Nat : k = m * scr_x + j - 1
  BY <1>4
<1>6. k < scr_cells
  BY <1>2, <1>3, <1>4, <1>5
<1>7. Cell(q, s, j) = q * scr_cells + m * scr_x + j - 1
  BY <1>1, CellIs
<1>8. q * scr_cells \in Nat
  BY <1>3, SMT
<1>9. Cell(q, s, j) = q * scr_cells + k
  BY <1>4, <1>5, <1>7, <1>8
<1> QED BY <1>3, <1>6, <1>9, Quotient

LEMMA PageCleared ==
  ASSUME NEW v \in [Cells -> Glyph], NEW p \in 0 .. PAGES - 1,
         NEW w \in [Cells -> Glyph],
         \A a \in Cells : w[a] = IF a \div scr_cells = p THEN "SP" ELSE v[a]
  PROVE  Pic(w) = [Pic(v) EXCEPT ![p] = [r \in 1 .. scr_y |-> Term!Blank]]
<1> /\ PAGES \in Nat /\ scr_x \in Nat /\ scr_y \in Nat /\ "SP" \in Glyph
  BY ScreenSizes
<1>2. Pic(w) \in Picture /\ Pic(v) \in Picture
  BY PicType
<1>u. PICK new : new = [r \in 1 .. scr_y |-> Term!Blank]
  OBVIOUS
<1>5. new \in [1 .. scr_y -> [1 .. scr_x -> Glyph]]
  BY <1>u DEF Term!Blank
<1>T. PICK T : T = [Pic(v) EXCEPT ![p] = new]
  OBVIOUS
<1>6. T \in Picture
  BY <1>2, <1>5, <1>T DEF Picture
<1>7. ASSUME NEW q \in 0 .. PAGES - 1, NEW s \in 1 .. scr_y, NEW j \in 1 .. scr_x
      PROVE  Pic(w)[q][s][j] = T[q][s][j]
  <2>1. Pic(w)[q][s][j] = w[Cell(q, s, j)] /\ Pic(v)[q][s][j] = v[Cell(q, s, j)]
    BY PicIs
  <2>2. Cell(q, s, j) \in Cells
    BY CellInMemory
  <2>3. Cell(q, s, j) \div scr_cells = q
    BY PageOf
  <2>4. T[q] = IF q = p THEN new ELSE Pic(v)[q]
    BY <1>2, <1>T DEF Picture
  <2>5. new[s][j] = "SP"
    BY <1>u DEF Term!Blank
  <2> QED BY <2>1, <2>2, <2>3, <2>4, <2>5
<1>8. Pic(w) = T
  BY <1>2, <1>6, <1>7, SamePicture
<1> QED BY <1>8, <1>T, <1>u

-----------------------------------------------------------------------------
(* The cursor                                                              *)

Xs == [q \in 0 .. PAGES - 1 |-> pages[q].curs_x]
Ys == [q \in 0 .. PAGES - 1 |-> pages[q].curs_y]

LEMMA CursorHere ==
  ASSUME ScreenTypeOK
  PROVE  /\ page \in 0 .. PAGES - 1 /\ MAXY = Term!TextRows(page)
         /\ MAXY \in 1 .. scr_y /\ This.vram = vram
         /\ This = [vram |-> vram, x |-> This.x, y |-> This.y]
         /\ This.x \in Nat /\ This.x < scr_x /\ This.x = Xs[page]
         /\ This.y \in Nat /\ This.y < MAXY /\ This.y = Ys[page]
         /\ This.y + 1 \in 1 .. scr_y /\ This.x + 1 \in 1 .. scr_x
<1> scr_x \in Nat /\ scr_y \in Nat /\ scr_y > 1 /\ PAGES \in Nat
  BY ScreenSizes
<1>1. page \in 0 .. PAGES - 1
  BY DEF ScreenTypeOK
<1>2. MAXY = Term!TextRows(page) /\ MAXY \in 1 .. scr_y
  BY DEF MAXY, Term!TextRows
<1>3. pages[page] \in [curs_x : Nat, curs_y : Nat]
  BY <1>1 DEF ScreenTypeOK
<1>4. pages[page].curs_x < scr_x /\ pages[page].curs_y < MAXY
  BY <1>1, <1>2 DEF ScreenTypeOK
<1>5. /\ This.vram = vram /\ This.x = pages[page].curs_x
      /\ This.y = pages[page].curs_y
      /\ This = [vram |-> vram, x |-> This.x, y |-> This.y]
  BY DEF This
<1>6. Xs[page] = pages[page].curs_x /\ Ys[page] = pages[page].curs_y
  BY <1>1 DEF Xs, Ys
<1> QED BY <1>1, <1>2, <1>3, <1>4, <1>5, <1>6

LEMMA CursorMoved ==
  ASSUME ScreenTypeOK, NEW w \in [Cells -> Glyph], NEW i \in Nat, NEW j \in Nat,
         i < scr_x, j < MAXY, Becomes([vram |-> w, x |-> i, y |-> j])
  PROVE  /\ ScreenTypeOK' /\ vram' = w /\ page' = page
         /\ Xs' = [Xs EXCEPT ![page] = i] /\ Ys' = [Ys EXCEPT ![page] = j]
<1>0. page \in 0 .. PAGES - 1 /\ MAXY = Term!TextRows(page)
  BY CursorHere
<1>1. /\ vram' = w /\ page' = page
      /\ pages' = [pages EXCEPT ![page] = [curs_x |-> i, curs_y |-> j]]
  BY DEF Becomes
<1>2. PICK r : r = [curs_x |-> i, curs_y |-> j]
  OBVIOUS
<1>3. r \in [curs_x : Nat, curs_y : Nat] /\ r.curs_x = i /\ r.curs_y = j
  BY <1>2
<1>4. pages \in [0 .. PAGES - 1 -> [curs_x : Nat, curs_y : Nat]]
  BY DEF ScreenTypeOK
<1>5. \A q \in 0 .. PAGES - 1 : pages'[q] = IF q = page THEN r ELSE pages[q]
  BY <1>1, <1>2, <1>4
<1>6. pages' \in [0 .. PAGES - 1 -> [curs_x : Nat, curs_y : Nat]]
  BY <1>1, <1>2, <1>3, <1>4
<1>7. \A q \in 0 .. PAGES - 1 : /\ pages'[q].curs_x < scr_x
                                /\ pages'[q].curs_y < Term!TextRows(q)
  BY <1>0, <1>3, <1>5 DEF ScreenTypeOK
<1>8. ScreenTypeOK'
  BY <1>0, <1>1, <1>6, <1>7 DEF ScreenTypeOK
<1>9. Xs' = [Xs EXCEPT ![page] = i]
  BY <1>3, <1>5 DEF Xs
<1>10. Ys' = [Ys EXCEPT ![page] = j]
  BY <1>3, <1>5 DEF Ys
<1> QED BY <1>1, <1>8, <1>9, <1>10

\* The text of the page has moved up by one row between v and w.
MovedUp(v, w) == Pic(w) = [Pic(v) EXCEPT ![page] = RowsUp(Pic(v)[page], MAXY)]

\* The next row: the cursor goes there, or the page moves up.
LEMMA LowerIs ==
  ASSUME ScreenTypeOK, NEW v \in [Cells -> Glyph], NEW i \in Nat, NEW j \in Nat,
         j < MAXY, NEW s, s = [vram |-> v, x |-> i, y |-> j]
  PROVE  \/ j + 1 < MAXY /\ Lower(s) = [vram |-> v, x |-> i, y |-> j + 1]
         \/ /\ j + 1 = MAXY
            /\ \E w \in [Cells -> Glyph] :
                /\ Lower(s) = [vram |-> w, x |-> i, y |-> j]
                /\ MovedUp(v, w)
<1> scr_x \in Nat /\ scr_y \in Nat /\ PAGES \in Nat
  BY ScreenSizes
<1>0. page \in 0 .. PAGES - 1 /\ MAXY \in 1 .. scr_y
  BY CursorHere
<1>1. CASE j + 1 # MAXY
  BY <1>0, <1>1 DEF Lower
<1>2. CASE j + 1 = MAXY
  <2>1. PICK d : d = [s EXCEPT !.y = @ + 1]
    OBVIOUS
  <2>2. d = [vram |-> v, x |-> i, y |-> j + 1] /\ Lower(s) = con_scroll(d)
    BY <1>2, <2>1 DEF Lower
  <2>3. PICK last : last = scrram + LastRow * scr_x
    OBVIOUS
  <2>4. PICK w : w = [a \in Cells |->
                        IF a \in scrram .. last - 1 THEN v[a + scr_x]
                        ELSE IF a \in last .. last + scr_x - 1 THEN "SP"
                        ELSE v[a]]
    OBVIOUS
  <2>5. Lower(s) = [vram |-> w, x |-> i, y |-> j + 1 - 1]
    <3>1. PICK u : u = [a \in Cells |->
                          IF a \in scrram .. last - 1 THEN d.vram[a + scr_x]
                          ELSE IF a \in last .. last + scr_x - 1 THEN "SP"
                          ELSE d.vram[a]]
      OBVIOUS
    <3>2. con_scroll(d) = [d EXCEPT !.y = @ - 1, !.vram = u]
      BY <2>3, <3>1, Zenon DEF con_scroll
    <3>3. d.vram = v
      BY <2>2
    <3>4. u = w
      BY <2>4, <3>1, <3>3
    <3>5. PICK e : e = [d EXCEPT !.y = @ - 1]
      OBVIOUS
    <3>6. e = [vram |-> v, x |-> i, y |-> j + 1 - 1]
      BY <2>2, <3>5
    <3>7. [e EXCEPT !.vram = w] = [vram |-> w, x |-> i, y |-> j + 1 - 1]
      BY <3>6
    <3>8. [d EXCEPT !.y = @ - 1, !.vram = w] = [e EXCEPT !.vram = w]
      BY <3>5
    <3> QED BY <2>2, <3>2, <3>4, <3>7, <3>8
  <2>6. /\ DOMAIN w = Cells /\ w = [a \in DOMAIN w |-> w[a]]
        /\ \A a \in Cells : w[a] = IF a \in scrram .. last - 1 THEN v[a + scr_x]
                                    ELSE IF a \in last .. last + scr_x - 1 THEN "SP"
                                    ELSE v[a]
    BY <2>4
  <2>7. scrram = page * scr_cells /\ last = scrram + (MAXY - 1) * scr_x
    BY <2>3 DEF scrram, LastRow
  <2>8. /\ w \in [Cells -> Glyph]
        /\ MovedUp(v, w)
    BY <1>0, <2>6, <2>7, PageScrolled DEF MovedUp
  <2>9. j + 1 - 1 = j
    OBVIOUS
  <2> QED BY <1>2, <2>5, <2>8, <2>9
<1> QED BY <1>1, <1>2

-----------------------------------------------------------------------------
(* The calls                                                               *)

TermStep == [Term!TermNext]_Term!termvars
Goes     == ScreenTypeOK' /\ TermStep

\* A call that moves the cursor and nothing else.
LEMMA CursorOnly ==
  ASSUME ScreenTypeOK, NEW i \in Nat, NEW j \in Nat, i < scr_x, j < MAXY,
         Becomes([vram |-> vram, x |-> i, y |-> j])
  PROVE  Goes
<1> scr_x \in Nat /\ scr_y \in Nat
  BY ScreenSizes
<1>0. MAXY \in Nat /\ MAXY = Term!TextRows(page)
  BY CursorHere
<1>1. vram \in [Cells -> Glyph]
  BY DEF ScreenTypeOK
<1>2. /\ ScreenTypeOK' /\ vram' = vram /\ page' = page
      /\ Xs' = [Xs EXCEPT ![page] = i] /\ Ys' = [Ys EXCEPT ![page] = j]
  BY <1>1, CursorMoved
<1>3. i \in 0 .. scr_x - 1 /\ j \in 0 .. Term!TextRows(page) - 1
  BY <1>0
<1>4. Pic(vram)' = Pic(vram)
  BY <1>2 DEF Pic
<1>5. Term!Moves
  BY <1>2, <1>3, <1>4 DEF Term!Moves, Pic, Xs, Ys
<1> QED BY <1>2, <1>5 DEF Goes, TermStep, Term!TermNext

\* The next row of a screen that has v in its memory: Down of the terminal.
LEMMA LowerGoes ==
  ASSUME ScreenTypeOK, NEW v \in [Cells -> Glyph], NEW i \in Nat, i < scr_x,
         NEW text, Pic(v) = [Pic(vram) EXCEPT ![page] = text],
         Becomes(Lower([vram |-> v, x |-> i, y |-> This.y]))
  PROVE  /\ ScreenTypeOK' /\ page' = page /\ Xs' = [Xs EXCEPT ![page] = i]
         /\ Term!Down(page, text)
<1> scr_x \in Nat /\ scr_y \in Nat
  BY ScreenSizes
<1>0. /\ page \in 0 .. PAGES - 1 /\ MAXY \in 1 .. scr_y /\ MAXY = Term!TextRows(page)
      /\ This.y \in Nat /\ This.y < MAXY /\ This.y = Ys[page]
  BY CursorHere
<1>1. Pic(vram) \in Picture
  BY PicType DEF ScreenTypeOK
<1>2. Pic(v)[page] = text
  BY <1>0, <1>1 DEF Picture
<1>3. PICK s : s = [vram |-> v, x |-> i, y |-> This.y]
  OBVIOUS
<1>4. CASE This.y + 1 < MAXY
  <2>1. Lower(s) = [vram |-> v, x |-> i, y |-> This.y + 1]
    BY <1>0, <1>3, <1>4, LowerIs
  <2>2. /\ ScreenTypeOK' /\ vram' = v /\ page' = page
        /\ Xs' = [Xs EXCEPT ![page] = i] /\ Ys' = [Ys EXCEPT ![page] = This.y + 1]
    BY <1>0, <1>3, <1>4, <2>1, CursorMoved
  <2>3. Pic(vram)' = [Pic(vram) EXCEPT ![page] = text]
    BY <2>2 DEF Pic
  <2>4. Ys[page] + 1 < Term!TextRows(page)
    BY <1>0, <1>4
  <2>5. Ys' = [Ys EXCEPT ![page] = @ + 1]
    BY <1>0, <2>2
  <2>6. Term!Down(page, text)
    BY <2>3, <2>4, <2>5 DEF Term!Down, Pic, Ys
  <2> QED BY <2>2, <2>6
<1>5. CASE This.y + 1 = MAXY
  <2>1. PICK w \in [Cells -> Glyph] :
            /\ Lower(s) = [vram |-> w, x |-> i, y |-> This.y]
            /\ MovedUp(v, w)
    <3>1. PICK j \in Nat : j = This.y
      BY <1>0
    <3>2. j < MAXY /\ s = [vram |-> v, x |-> i, y |-> j] /\ ~ j + 1 < MAXY
      BY <1>0, <1>3, <1>5, <3>1
    <3>3. \E w \in [Cells -> Glyph] :
            /\ Lower(s) = [vram |-> w, x |-> i, y |-> j]
            /\ MovedUp(v, w)
      BY <3>2, LowerIs
    <3> QED BY <3>1, <3>3
  <2>2. /\ ScreenTypeOK' /\ vram' = w /\ page' = page
        /\ Xs' = [Xs EXCEPT ![page] = i] /\ Ys' = [Ys EXCEPT ![page] = This.y]
    BY <1>0, <1>3, <2>1, CursorMoved
  <2>3. Pic(w) = [Pic(vram) EXCEPT ![page] = RowsUp(text, MAXY)]
    BY <1>0, <1>1, <1>2, <2>1 DEF Picture, MovedUp
  <2>4. Pic(vram)' = [Pic(vram) EXCEPT ![page] = RowsUp(text, MAXY)]
    BY <2>2, <2>3 DEF Pic
  <2>5. ~ Ys[page] + 1 < Term!TextRows(page)
    BY <1>0, <1>5
  <2>6. Ys' = Ys
    BY <1>0, <2>2 DEF Ys
  <2>7. Term!Down(page, text)
    BY <1>0, <2>4, <2>5, <2>6 DEF Term!Down, RowsUp, Pic, Ys
  <2> QED BY <2>2, <2>7
<1> QED BY <1>0, <1>4, <1>5

LEMMA CharacterShown ==
  ASSUME ScreenTypeOK, NEW c \in Glyph,
         Becomes(con_right([This EXCEPT !.vram[scrram + This.y * scr_x + This.x] = c]))
  PROVE  Goes
<1> scr_x \in Nat /\ scr_y \in Nat /\ scr_x > 1
  BY ScreenSizes
<1>0. /\ page \in 0 .. PAGES - 1 /\ page \in Nat
      /\ This = [vram |-> vram, x |-> This.x, y |-> This.y]
      /\ This.x \in Nat /\ This.x < scr_x /\ This.x = Xs[page]
      /\ This.y \in Nat /\ This.y < MAXY /\ This.y = Ys[page]
      /\ This.y + 1 \in 1 .. scr_y /\ This.x + 1 \in 1 .. scr_x
  BY CursorHere, ScreenSizes
<1>1. vram \in [Cells -> Glyph] /\ Pic(vram) \in Picture
  BY PicType DEF ScreenTypeOK
<1>2. PICK r \in 1 .. scr_y, k \in 1 .. scr_x : r = This.y + 1 /\ k = This.x + 1
  BY <1>0
<1>3. scrram + This.y * scr_x + This.x = Cell(page, r, k)
  <2>1. Cell(page, r, k) = page * scr_cells + (r - 1) * scr_x + k - 1
    BY <1>0, CellIs
  <2>2. r - 1 = This.y /\ k - 1 = This.x
    BY <1>0, <1>2
  <2>3. page * scr_cells \in Nat /\ This.y * scr_x \in Nat
    BY <1>0, SMT DEF scr_cells
  <2>4. page * scr_cells + This.y * scr_x + k - 1 = page * scr_cells + This.y * scr_x + This.x
    BY <1>0, <1>2, <2>3
  <2> QED BY <2>1, <2>2, <2>4 DEF scrram
<1>4. PICK v : v = [vram EXCEPT ![Cell(page, r, k)] = c]
  OBVIOUS
<1>5. v \in [Cells -> Glyph] /\ Pic(v) = [Pic(vram) EXCEPT ![page][r][k] = c]
  <2>1. v \in [Cells -> Glyph]
    BY <1>1, <1>4
  <2>2. \A a \in Cells : v[a] = IF a = Cell(page, r, k) THEN c ELSE vram[a]
    BY <1>1, <1>4
  <2>3. page \in 0 .. PAGES - 1 /\ vram \in [Cells -> Glyph]
    BY <1>0, <1>1
  <2>4. PutAt(vram, v, page, r, k, c)
    BY <2>2 DEF PutAt
  <2> QED BY <2>1, <2>3, <2>4, CharacterPut
<1>6. PICK s : s = [vram |-> v, x |-> This.x, y |-> This.y]
  OBVIOUS
<1>7. [This EXCEPT !.vram[scrram + This.y * scr_x + This.x] = c] = s
  <2>1. [This EXCEPT !.vram[Cell(page, r, k)] = c] = s
    BY <1>0, <1>4, <1>6
  <2> QED BY <1>3, <2>1
<1>8. Becomes(con_right(s))
  BY <1>7
<1>9. PICK text : text = [Pic(vram)[page] EXCEPT ![Ys[page] + 1][Xs[page] + 1] = c]
  OBVIOUS
<1>10. Pic(v) = [Pic(vram) EXCEPT ![page] = text]
  <2>1. text = [Pic(vram)[page] EXCEPT ![r][k] = c]
    BY <1>0, <1>2, <1>9
  <2> QED BY <1>5, <2>1
<1>11. CASE This.x + 1 < scr_x
  <2>1. con_right(s) = [vram |-> v, x |-> This.x + 1, y |-> This.y]
    BY <1>0, <1>6, <1>11 DEF con_right
  <2>2. /\ ScreenTypeOK' /\ vram' = v /\ page' = page
        /\ Xs' = [Xs EXCEPT ![page] = This.x + 1] /\ Ys' = [Ys EXCEPT ![page] = This.y]
    BY <1>0, <1>5, <1>8, <1>11, <2>1, CursorMoved
  <2>3. Pic(vram)' = [Pic(vram) EXCEPT ![page] = text]
    BY <1>10, <2>2 DEF Pic
  <2>4. Xs' = [Xs EXCEPT ![page] = @ + 1] /\ Xs[page] + 1 < scr_x
    BY <1>0, <1>11, <2>2
  <2>5. Ys' = Ys
    BY <1>0, <2>2 DEF Ys
  <2>6. Term!Shows(c)
    BY <1>9, <2>2, <2>3, <2>4, <2>5 DEF Term!Shows, Pic, Xs, Ys
  <2> QED BY <2>2, <2>6 DEF Goes, TermStep, Term!TermNext
<1>12. CASE This.x + 1 = scr_x
  <2>1. con_right(s) = Lower([vram |-> v, x |-> 0, y |-> This.y])
    BY <1>0, <1>6, <1>12 DEF con_right
  <2>2. /\ ScreenTypeOK' /\ page' = page /\ Xs' = [Xs EXCEPT ![page] = 0]
        /\ Term!Down(page, text)
    BY <1>5, <1>8, <1>10, <2>1, LowerGoes
  <2>3. ~ Xs[page] + 1 < scr_x
    BY <1>0, <1>12
  <2>4. Term!Shows(c)
    BY <1>9, <2>2, <2>3 DEF Term!Shows, Term!Down, Pic, Xs, Ys
  <2> QED BY <2>2, <2>4 DEF Goes, TermStep, Term!TermNext
<1> QED BY <1>0, <1>11, <1>12

LEMMA WriteGoes ==
  ASSUME ScreenTypeOK, NEW by \in Glyph \cup {"CR", "LF", "BS"}, con_write(by)
  PROVE  Goes
<1> scr_x \in Nat /\ scr_y \in Nat /\ scr_x > 1
  BY ScreenSizes
<1>0. /\ page \in 0 .. PAGES - 1
      /\ This = [vram |-> vram, x |-> This.x, y |-> This.y] /\ MAXY \in Nat
      /\ This.x \in Nat /\ This.x < scr_x /\ This.x = Xs[page]
      /\ This.y \in Nat /\ This.y < MAXY /\ This.y = Ys[page]
  BY CursorHere
<1>1. Becomes(con_char(This, by))
  BY DEF con_write
<1>2. CASE by = "CR"
  <2>1. con_char(This, by) = [vram |-> vram, x |-> 0, y |-> This.y]
    BY <1>0, <1>2 DEF con_char
  <2> QED BY <1>0, <1>1, <2>1, CursorOnly
<1>3. CASE by = "LF"
  <2>1. con_char(This, by) = Lower([vram |-> vram, x |-> This.x, y |-> This.y])
    BY <1>0, <1>3 DEF con_char
  <2>2. vram \in [Cells -> Glyph] /\ Pic(vram) \in Picture
    BY PicType DEF ScreenTypeOK
  <2>3. PICK text : text = Pic(vram)[page]
    OBVIOUS
  <2>4. Pic(vram) = [Pic(vram) EXCEPT ![page] = text]
    BY <1>0, <2>2, <2>3 DEF Picture
  <2>5. /\ ScreenTypeOK' /\ page' = page /\ Xs' = [Xs EXCEPT ![page] = This.x]
        /\ Term!Down(page, text)
    BY <1>0, <1>1, <2>1, <2>2, <2>4, LowerGoes
  <2>6. Xs' = Xs
    BY <1>0, <2>5 DEF Xs
  <2>7. Term!NewLine
    BY <2>3, <2>5, <2>6 DEF Term!NewLine, Term!Down, Pic, Xs, Ys
  <2> QED BY <2>5, <2>7 DEF Goes, TermStep, Term!TermNext
<1>4. CASE by = "BS"
  <2>1. con_char(This, by) = con_left(This)
    BY <1>4 DEF con_char
  <2>2. CASE This.x > 0
    <3>1. con_left(This) = [vram |-> vram, x |-> This.x - 1, y |-> This.y]
      BY <1>0, <2>2 DEF con_left
    <3>2. This.x - 1 \in Nat /\ This.x - 1 < scr_x
      BY <1>0, <2>2
    <3> QED BY <1>0, <1>1, <2>1, <3>1, <3>2, CursorOnly
  <2>3. CASE This.x = 0 /\ This.y = 0
    <3>1. con_left(This) = [vram |-> vram, x |-> This.x, y |-> This.y]
      BY <1>0, <2>3 DEF con_left
    <3> QED BY <1>0, <1>1, <2>1, <3>1, CursorOnly
  <2>4. CASE This.x = 0 /\ This.y > 0
    <3>1. con_left(This) = [vram |-> vram, x |-> scr_x - 1, y |-> This.y - 1]
      <4>1. con_left(This) = [This EXCEPT !.x = scr_x - 1, !.y = @ - 1]
        BY <1>0, <2>4 DEF con_left
      <4>2. PICK e : e = [This EXCEPT !.x = scr_x - 1]
        OBVIOUS
      <4>3. [This EXCEPT !.x = scr_x - 1, !.y = @ - 1] = [e EXCEPT !.y = @ - 1]
        BY <4>2
      <4>4. e = [vram |-> vram, x |-> scr_x - 1, y |-> This.y]
        BY <1>0, <4>2
      <4>5. [e EXCEPT !.y = @ - 1] = [vram |-> vram, x |-> scr_x - 1, y |-> This.y - 1]
        BY <4>4
      <4> QED BY <4>1, <4>3, <4>5
    <3>2. /\ This.y - 1 \in Nat /\ This.y - 1 < MAXY
          /\ scr_x - 1 \in Nat /\ scr_x - 1 < scr_x
      BY <1>0, <2>4
    <3> QED BY <1>0, <1>1, <2>1, <3>1, <3>2, CursorOnly
  <2> QED BY <1>0, <2>2, <2>3, <2>4
<1>5. CASE by \notin {"CR", "LF", "BS"}
  <2>1. con_char(This, by)
          = con_right([This EXCEPT !.vram[scrram + This.y * scr_x + This.x] = by])
    BY <1>5 DEF con_char
  <2>2. by \in Glyph
    BY <1>5
  <2> QED BY <1>1, <2>1, <2>2, CharacterShown
<1> QED BY <1>2, <1>3, <1>4, <1>5

LEMMA GotoGoes ==
  ASSUME ScreenTypeOK, NEW i \in 0 .. scr_x, NEW j \in 0 .. scr_y, con_gotoxy(i, j)
  PROVE  Goes
<1> scr_x \in Nat /\ scr_y \in Nat /\ scr_x > 1
  BY ScreenSizes
<1>0. MAXY \in 1 .. scr_y /\ This = [vram |-> vram, x |-> This.x, y |-> This.y]
  BY CursorHere
<1>1. PICK a \in Nat : a = Clamped(i, scr_x) /\ a < scr_x
  BY DEF Clamped
<1>2. PICK b \in Nat : b = Clamped(j, MAXY) /\ b < MAXY
  BY <1>0 DEF Clamped
<1>3. PICK e : e = [This EXCEPT !.x = a]
  OBVIOUS
<1>4. e = [vram |-> vram, x |-> a, y |-> This.y]
  BY <1>0, <1>3
<1>5. [e EXCEPT !.y = b] = [vram |-> vram, x |-> a, y |-> b]
  BY <1>4
<1>6. [This EXCEPT !.x = a, !.y = b] = [e EXCEPT !.y = b]
  BY <1>3
<1>7. Becomes([vram |-> vram, x |-> a, y |-> b])
  BY <1>1, <1>2, <1>5, <1>6 DEF con_gotoxy
<1> QED BY <1>1, <1>2, <1>7, CursorOnly

LEMMA ClrscrGoes ==
  ASSUME ScreenTypeOK, con_clrscr
  PROVE  Goes
<1> scr_x \in Nat /\ scr_y \in Nat /\ scr_x > 1 /\ "SP" \in Glyph
  BY ScreenSizes
<1>0. page \in 0 .. PAGES - 1 /\ MAXY \in 1 .. scr_y
  BY CursorHere
<1>1. PICK w : w = [a \in Cells |-> IF a \div scr_cells = page THEN "SP" ELSE vram[a]]
  OBVIOUS
<1>2. vram \in [Cells -> Glyph]
  BY DEF ScreenTypeOK
<1>3. w \in [Cells -> Glyph]
  BY <1>1, <1>2
<1>4. Pic(w) = [Pic(vram) EXCEPT ![page] = [r \in 1 .. scr_y |-> Term!Blank]]
  <2>1. \A a \in Cells : w[a] = IF a \div scr_cells = page THEN "SP" ELSE vram[a]
    BY <1>1
  <2> QED BY <1>0, <1>2, <1>3, <2>1, PageCleared
<1>5. Becomes([vram |-> w, x |-> 0, y |-> 0])
  BY <1>1 DEF con_clrscr
<1>6. /\ ScreenTypeOK' /\ vram' = w /\ page' = page
      /\ Xs' = [Xs EXCEPT ![page] = 0] /\ Ys' = [Ys EXCEPT ![page] = 0]
  BY <1>0, <1>3, <1>5, CursorMoved
<1>7. Pic(vram)' = [Pic(vram) EXCEPT ![page] = [r \in 1 .. scr_y |-> Term!Blank]]
  BY <1>4, <1>6 DEF Pic
<1>8. Term!Clears
  BY <1>6, <1>7 DEF Term!Clears, Pic, Xs, Ys
<1> QED BY <1>6, <1>8 DEF Goes, TermStep, Term!TermNext

LEMMA ClreolGoes ==
  ASSUME ScreenTypeOK, con_clreol
  PROVE  Goes
<1> scr_x \in Nat /\ scr_y \in Nat /\ scr_x > 1 /\ "SP" \in Glyph
  BY ScreenSizes
<1>0. /\ page \in 0 .. PAGES - 1
      /\ This = [vram |-> vram, x |-> This.x, y |-> This.y]
      /\ This.x \in Nat /\ This.x < scr_x /\ This.x = Xs[page]
      /\ This.y \in Nat /\ This.y < MAXY /\ This.y = Ys[page]
      /\ This.y + 1 \in 1 .. scr_y
  BY CursorHere
<1>1. PICK row : row = scrram + This.y * scr_x
  OBVIOUS
<1>2. PICK w : w = [a \in Cells |-> IF a \in row + This.x .. row + scr_x - 1 THEN "SP"
                                   ELSE vram[a]]
  OBVIOUS
<1>3. vram \in [Cells -> Glyph]
  BY DEF ScreenTypeOK
<1>4. w \in [Cells -> Glyph]
  BY <1>2, <1>3
<1>5. PICK r \in 1 .. scr_y, k \in 0 .. scr_x - 1 : r = This.y + 1 /\ k = This.x
  BY <1>0
<1>6. row = page * scr_cells + (r - 1) * scr_x
  <2>1. r - 1 = This.y
    BY <1>0, <1>5
  <2> QED BY <1>1, <2>1 DEF scrram
<1>7. Pic(w) = [Pic(vram) EXCEPT ![page][r] =
                    SubSeq(@, 1, k) \o SubSeq(Term!Blank, k + 1, scr_x)]
  <2>1. \A a \in Cells : w[a] = IF a \in row + k .. row + scr_x - 1 THEN "SP"
                                ELSE vram[a]
    BY <1>2, <1>5
  <2>2. page \in 0 .. PAGES - 1
    BY <1>0
  <2>3. ClearedAfter(vram, w, page, r, k)
    BY <1>3, <1>4, <1>6, <2>1, <2>2, LineCleared
  <2> QED BY <2>3 DEF ClearedAfter
<1>8. Becomes([vram |-> w, x |-> This.x, y |-> This.y])
  <2>1. [This EXCEPT !.vram = w] = [vram |-> w, x |-> This.x, y |-> This.y]
    BY <1>0
  <2> QED BY <1>1, <1>2, <2>1 DEF con_clreol
<1>9. /\ ScreenTypeOK' /\ vram' = w /\ page' = page
      /\ Xs' = [Xs EXCEPT ![page] = This.x] /\ Ys' = [Ys EXCEPT ![page] = This.y]
  BY <1>0, <1>4, <1>8, CursorMoved
<1>10. Xs' = Xs /\ Ys' = Ys
  BY <1>0, <1>9 DEF Xs, Ys
<1>11. Pic(vram)' = [Pic(vram) EXCEPT ![page][Ys[page] + 1] =
                SubSeq(@, 1, Xs[page]) \o SubSeq(Term!Blank, Xs[page] + 1, scr_x)]
  BY <1>0, <1>5, <1>7, <1>9 DEF Pic
<1>12. Term!ClearsLine
  BY <1>9, <1>10, <1>11 DEF Term!ClearsLine, Pic, Xs, Ys
<1> QED BY <1>9, <1>12 DEF Goes, TermStep, Term!TermNext

LEMMA StatusGoes ==
  ASSUME ScreenTypeOK, NEW i \in 0 .. scr_x, NEW ch \in Glyph, con_stputc(i, ch)
  PROVE  Goes
<1> /\ scr_x \in Nat /\ scr_y \in Nat /\ scr_x > 1 /\ scr_y > 1
    /\ PAGES \in Nat /\ PAGES > 1
  BY ScreenSizes
<1>0. UNCHANGED <<page, pages>> /\ Xs' = Xs /\ Ys' = Ys
  BY DEF con_stputc, Xs, Ys
<1>1. vram \in [Cells -> Glyph]
  BY DEF ScreenTypeOK
<1>2. CASE i < scr_x
  <2>1. PICK p \in 0 .. PAGES - 1, r \in 1 .. scr_y, k \in 1 .. scr_x :
            p = 0 /\ r = scr_y /\ k = i + 1
    BY <1>2
  <2>2. scr_cells - scr_x + i = Cell(p, r, k)
    <3>1. Cell(p, r, k) = p * scr_cells + (r - 1) * scr_x + k - 1
      BY CellIs, <2>1
    <3>2. p * scr_cells = 0
      BY <2>1, SMT DEF scr_cells
    <3>3. (r - 1) * scr_x = scr_cells - scr_x /\ scr_cells \in Nat
      BY <2>1, SMT DEF scr_cells
    <3> QED BY <2>1, <3>1, <3>2, <3>3
  <2>3. vram' = [vram EXCEPT ![Cell(p, r, k)] = ch]
    BY <1>2, <2>2 DEF con_stputc
  <2>4. PICK w : w = vram'
    OBVIOUS
  <2>5. w \in [Cells -> Glyph]
    BY <1>1, <2>3, <2>4
  <2>6. PutAt(vram, w, p, r, k, ch)
    BY <1>1, <2>3, <2>4 DEF PutAt
  <2>7. Pic(w) = [Pic(vram) EXCEPT ![p][r][k] = ch]
    BY <1>1, <2>5, <2>6, CharacterPut
  <2>8. Pic(vram)' = [Pic(vram) EXCEPT ![0][scr_y][k] = ch]
    BY <2>1, <2>4, <2>7 DEF Pic
  <2>9. ScreenTypeOK'
    BY <1>0, <2>4, <2>5 DEF ScreenTypeOK
  <2>10. Term!Status
    BY <1>0, <2>1, <2>8 DEF Term!Status, Pic, Xs, Ys
  <2> QED BY <2>9, <2>10 DEF Goes, TermStep, Term!TermNext
<1>3. CASE ~ i < scr_x
  <2>1. vram' = vram
    BY <1>3 DEF con_stputc
  <2>2. Pic(vram)' = Pic(vram)
    BY <2>1 DEF Pic
  <2>3. ScreenTypeOK'
    BY <1>0, <2>1 DEF ScreenTypeOK
  <2> QED BY <1>0, <2>2, <2>3 DEF Goes, TermStep, Term!termvars, Pic, Xs, Ys
<1> QED BY <1>2, <1>3

LEMMA SetpageGoes ==
  ASSUME ScreenTypeOK, NEW p \in 0 .. PAGES, con_setpage(p)
  PROVE  Goes
<1> PAGES \in Nat
  BY ScreenSizes
<1>1. vram' = vram /\ pages' = pages /\ page' \in 0 .. PAGES - 1
  BY DEF con_setpage, ScreenTypeOK
<1>2. Pic(vram)' = Pic(vram) /\ Xs' = Xs /\ Ys' = Ys
  BY <1>1 DEF Pic, Xs, Ys
<1>3. ScreenTypeOK'
  BY <1>1 DEF ScreenTypeOK
<1>4. Term!Turns
  BY <1>1, <1>2 DEF Term!Turns, Pic, Xs, Ys
<1> QED BY <1>3, <1>4 DEF Goes, TermStep, Term!TermNext

LEMMA NothingShown ==
  ASSUME ScreenTypeOK, UNCHANGED <<vram, page, pages>>
  PROVE  Goes
<1>1. Pic(vram)' = Pic(vram) /\ Xs' = Xs /\ Ys' = Ys
  BY DEF Pic, Xs, Ys
<1>2. ScreenTypeOK'
  BY DEF ScreenTypeOK
<1> QED BY <1>1, <1>2 DEF Goes, TermStep, Term!termvars, Pic, Xs, Ys

LEMMA ScreenStep ==
  ASSUME ScreenTypeOK, [ScreenNext]_scrvars
  PROVE  Goes
<1>1. ASSUME NEW by \in Glyph \cup {"CR", "LF", "BS"}, con_write(by) PROVE Goes
  BY <1>1, WriteGoes
<1>2. ASSUME NEW i \in 0 .. scr_x, NEW j \in 0 .. scr_y, con_gotoxy(i, j) PROVE Goes
  BY <1>2, GotoGoes
<1>3. CASE con_clrscr
  BY <1>3, ClrscrGoes
<1>4. CASE con_clreol
  BY <1>4, ClreolGoes
<1>5. CASE Resumes
  BY <1>5, NothingShown DEF Resumes
<1>6. ASSUME NEW i \in 0 .. scr_x, NEW ch \in Glyph, con_stputc(i, ch) PROVE Goes
  BY <1>6, StatusGoes
<1>7. ASSUME NEW p \in 0 .. PAGES, con_setpage(p) PROVE Goes
  BY <1>7, SetpageGoes
<1>8. CASE UNCHANGED scrvars
  BY <1>8, NothingShown DEF scrvars
<1> QED
  BY <1>1, <1>2, <1>3, <1>4, <1>5, <1>6, <1>7, <1>8 DEF ScreenNext

LEMMA ScreenStarts ==
  ASSUME ScreenInit
  PROVE  ScreenTypeOK /\ Term!TermInit
<1> /\ PAGES \in Nat /\ PAGES > 1 /\ scr_x \in Nat /\ scr_x > 1
    /\ scr_y \in Nat /\ scr_y > 1 /\ "SP" \in Glyph
  BY ScreenSizes
<1>1. vram \in [Cells -> Glyph]
  BY DEF ScreenInit
<1>2. ScreenTypeOK
  BY <1>1 DEF ScreenInit, ScreenTypeOK, Term!TextRows
<1>3. PICK T : T = [p \in 0 .. PAGES - 1 |-> [r \in 1 .. scr_y |-> Term!Blank]]
  OBVIOUS
<1>4. T \in Picture /\ Pic(vram) \in Picture
  BY <1>1, <1>3, PicType DEF Picture, Term!Blank
<1>5. ASSUME NEW q \in 0 .. PAGES - 1, NEW s \in 1 .. scr_y, NEW j \in 1 .. scr_x
      PROVE  Pic(vram)[q][s][j] = T[q][s][j]
  <2>1. Pic(vram)[q][s][j] = vram[Cell(q, s, j)] /\ Cell(q, s, j) \in Cells
    BY PicIs, CellInMemory
  <2>2. vram[Cell(q, s, j)] = "SP"
    BY <2>1 DEF ScreenInit
  <2> QED BY <1>3, <2>1, <2>2 DEF Term!Blank
<1>6. Pic(vram) = T
  BY <1>4, <1>5, SamePicture
<1>7. /\ Xs = [p \in 0 .. PAGES - 1 |-> 0] /\ Ys = [p \in 0 .. PAGES - 1 |-> 0]
      /\ page = 0
  BY DEF ScreenInit, Xs, Ys
<1>8. Term!TermInit
  BY <1>3, <1>6, <1>7 DEF Term!TermInit, Pic, Xs, Ys
<1> QED BY <1>2, <1>8

\* The flat video memory shows a terminal: every call does to the pages, read
\* off the memory cell by cell, what Terminal says.
THEOREM ScreenIsTerminal == ScreenSpec => ShowsTerminal
<1>1. ScreenInit => ScreenTypeOK /\ Term!TermInit
  BY ScreenStarts
<1>2. ScreenTypeOK /\ [ScreenNext]_scrvars => ScreenTypeOK'
  BY ScreenStep DEF Goes
<1>3. ScreenTypeOK /\ [ScreenNext]_scrvars => TermStep
  BY ScreenStep DEF Goes
<1> QED
  BY <1>1, <1>2, <1>3, PTL
  DEF ScreenSpec, ShowsTerminal, Term!TermSpec, TermStep
-----------------------------------------------------------------------------
(* Rings of M places.                                                      *)

\* The place after n steps from h, and how many steps lead from h to t.
Onward(M, h, n) == IF h + n < M THEN h + n ELSE h + n - M
Span(M, h, t) == IF h <= t THEN t - h ELSE t + M - h

LEMMA ModSmall ==
  ASSUME NEW M \in Nat, M > 0, NEW a \in 0 .. M - 1
  PROVE  a % M = a
BY SMT

LEMMA ModOver ==
  ASSUME NEW M \in Nat, M > 0, NEW a \in M .. 2 * M - 1
  PROVE  a % M = a - M
BY SMT

\* The remainders that the code takes are steps in a ring.
LEMMA OnwardIs ==
  ASSUME NEW M \in Nat, M > 0, NEW h \in 0 .. M - 1, NEW n \in 0 .. M
  PROVE  (h + n) % M = Onward(M, h, n) /\ Onward(M, h, n) \in 0 .. M - 1
<1>1. CASE h + n < M
  BY <1>1, ModSmall DEF Onward
<1>2. CASE ~ h + n < M
  <2>1. h + n \in M .. 2 * M - 1
    BY <1>2
  <2> QED BY <1>2, <2>1, ModOver DEF Onward
<1> QED BY <1>1, <1>2

LEMMA SpanIs ==
  ASSUME NEW M \in Nat, M > 0, NEW h \in 0 .. M - 1, NEW t \in 0 .. M - 1
  PROVE  (t + M - h) % M = Span(M, h, t) /\ Span(M, h, t) \in 0 .. M - 1
<1>1. CASE h <= t
  <2>1. t + M - h \in M .. 2 * M - 1
    BY <1>1
  <2> QED BY <1>1, <2>1, ModOver DEF Span
<1>2. CASE ~ h <= t
  <2>1. t + M - h \in 0 .. M - 1
    BY <1>2
  <2> QED BY <1>2, <2>1, ModSmall DEF Span
<1> QED BY <1>1, <1>2

\* The end of a span is where its steps lead, and none of the places before.
LEMMA SpanEnds ==
  ASSUME NEW M \in Nat, M > 0, NEW h \in 0 .. M - 1, NEW t \in 0 .. M - 1
  PROVE  /\ Onward(M, h, Span(M, h, t)) = t
         /\ \A n \in 0 .. M - 1 : Onward(M, h, n) = t => n = Span(M, h, t)
BY DEF Onward, Span

\* The head moves on by n: the places behind are the same.
LEMMA HeadOn ==
  ASSUME NEW M \in Nat, M > 0, NEW h \in 0 .. M - 1, NEW t \in 0 .. M - 1,
         NEW n \in 0 .. Span(M, h, t), NEW g, g = Onward(M, h, n)
  PROVE  /\ g \in 0 .. M - 1 /\ Span(M, g, t) = Span(M, h, t) - n
         /\ \A i \in 0 .. M - 1 : n + i < M => Onward(M, g, i) = Onward(M, h, n + i)
BY DEF Onward, Span

\* The tail moves by one.
LEMMA TailOn ==
  ASSUME NEW M \in Nat, M > 0, NEW h \in 0 .. M - 1, NEW t \in 0 .. M - 1,
         Span(M, h, t) < M - 1, NEW u, u = Onward(M, t, 1)
  PROVE  u \in 0 .. M - 1 /\ Span(M, h, u) = Span(M, h, t) + 1
BY DEF Onward, Span

LEMMA TailBack ==
  ASSUME NEW M \in Nat, M > 0, NEW h \in 0 .. M - 1, NEW t \in 0 .. M - 1, h # t,
         NEW u, u = Onward(M, t, M - 1)
  PROVE  u \in 0 .. M - 1 /\ Span(M, h, u) = Span(M, h, t) - 1
BY DEF Onward, Span

-----------------------------------------------------------------------------
(* The line in the ring of a serial port.                                  *)

RingPlace == 0 .. TTYC_LINE_SIZE - 1
CookRecord == [head : RingPlace, tail : RingPlace, crs : Nat, buf : [RingPlace -> Char]]

InRing(c) == Span(TTYC_LINE_SIZE, c.head, c.tail)

LEMMA RingSize ==
  TTYC_LINE_SIZE \in Nat /\ TTYC_LINE_SIZE > 2 /\ TTYC_LINE_SIZE > 0
BY CookAssumption

\* The i-th character of a line is i - 1 places behind the head.
LEMMA ContentsAre ==
  ASSUME NEW c \in CookRecord
  PROVE  /\ Contents(c) \in Seq(Char) /\ Len(Contents(c)) = InRing(c)
         /\ InRing(c) \in RingPlace
         /\ \A i \in 1 .. InRing(c) :
                Contents(c)[i] = c.buf[Onward(TTYC_LINE_SIZE, c.head, i - 1)]
<1> TTYC_LINE_SIZE \in Nat /\ TTYC_LINE_SIZE > 2 /\ TTYC_LINE_SIZE > 0
  BY RingSize
<1>1. c.head \in RingPlace /\ c.tail \in RingPlace /\ c.buf \in [RingPlace -> Char]
  BY DEF CookRecord
<1>2. PICK n : n = InRing(c)
  OBVIOUS
<1>3. n = (c.tail + TTYC_LINE_SIZE - c.head) % TTYC_LINE_SIZE /\ n \in RingPlace
  <2>1. c.head \in 0 .. TTYC_LINE_SIZE - 1 /\ c.tail \in 0 .. TTYC_LINE_SIZE - 1
    BY <1>1 DEF RingPlace
  <2>2. PICK h \in 0 .. TTYC_LINE_SIZE - 1, t \in 0 .. TTYC_LINE_SIZE - 1 :
            h = c.head /\ t = c.tail
    BY <2>1
  <2>3. (t + TTYC_LINE_SIZE - h) % TTYC_LINE_SIZE = Span(TTYC_LINE_SIZE, h, t)
        /\ Span(TTYC_LINE_SIZE, h, t) \in 0 .. TTYC_LINE_SIZE - 1
    BY <2>1, <2>2, SpanIs
  <2> QED BY <1>2, <2>2, <2>3 DEF InRing, RingPlace
<1>4. PICK h : h = c.head
  OBVIOUS
<1>5. Contents(c) = [i \in 1 .. n |-> c.buf[(h + i - 1) % TTYC_LINE_SIZE]]
  BY <1>3, <1>4 DEF Contents
<1>6. n \in Nat
  BY <1>3 DEF RingPlace
<1>7. ASSUME NEW i \in 1 .. n
      PROVE  /\ (h + i - 1) % TTYC_LINE_SIZE = Onward(TTYC_LINE_SIZE, h, i - 1)
             /\ Onward(TTYC_LINE_SIZE, h, i - 1) \in RingPlace
  <2>1. PICK k : k = i - 1
    OBVIOUS
  <2>2. k \in 0 .. TTYC_LINE_SIZE /\ h + i - 1 = h + k /\ h \in 0 .. TTYC_LINE_SIZE - 1
    BY <1>1, <1>3, <1>4, <2>1 DEF RingPlace
  <2>3. (h + k) % TTYC_LINE_SIZE = Onward(TTYC_LINE_SIZE, h, k)
        /\ Onward(TTYC_LINE_SIZE, h, k) \in 0 .. TTYC_LINE_SIZE - 1
    BY <2>2, OnwardIs
  <2> QED BY <2>1, <2>2, <2>3 DEF RingPlace
<1>8. PICK s : s = Contents(c)
  OBVIOUS
<1>9. \A i \in 1 .. n : s[i] = c.buf[Onward(TTYC_LINE_SIZE, h, i - 1)]
  BY <1>5, <1>7, <1>8
<1>10. s \in [1 .. n -> Char]
  <2>1. s = [i \in 1 .. n |-> s[i]]
    BY <1>5, <1>8
  <2>2. \A i \in 1 .. n : s[i] \in Char
    BY <1>1, <1>7, <1>9
  <2> QED BY <2>1, <2>2
<1>11. s \in Seq(Char)
  BY <1>6, <1>10, SeqDef
<1>12. Len(s) = n
  BY <1>6, <1>10, <1>11, LenProperties
<1> QED BY <1>2, <1>3, <1>4, <1>8, <1>9, <1>11, <1>12

-----------------------------------------------------------------------------
(* Newlines in a line.                                                     *)

LEMMA NewLinesFinite ==
  ASSUME NEW s \in Seq(Char)
  PROVE  /\ IsFiniteSet(NewLines(s)) /\ Cardinality(NewLines(s)) \in Nat
         /\ NewLines(s) = {i \in 1 .. Len(s) : s[i] = "nl"}
<1>1. Len(s) \in Nat /\ DOMAIN s = 1 .. Len(s)
  BY LenProperties
<1>2. IsFiniteSet(1 .. Len(s))
  BY <1>1, FS_Interval
<1>3. NewLines(s) = {i \in 1 .. Len(s) : s[i] = "nl"}
  BY <1>1 DEF NewLines
<1>4. NewLines(s) \in SUBSET (1 .. Len(s))
  BY <1>3
<1>5. IsFiniteSet(NewLines(s))
  BY <1>2, <1>4, FS_Subset
<1> QED BY <1>3, <1>5, FS_CardinalityType

\* One character more, and one less.
LEMMA NewLinesAppended ==
  ASSUME NEW s \in Seq(Char), NEW ch \in Char
  PROVE  /\ Cardinality(NewLines(Append(s, ch))) <= Cardinality(NewLines(s)) + 1
         /\ ch # "nl" => Cardinality(NewLines(Append(s, ch))) <= Cardinality(NewLines(s))
<1>1. PICK u : u = Append(s, ch)
  OBVIOUS
<1>2. Len(s) \in Nat
  BY LenProperties
<1>3. /\ u \in Seq(Char) /\ Len(u) = Len(s) + 1
      /\ \A i \in 1 .. Len(s) : u[i] = s[i]
      /\ u[Len(s) + 1] = ch
  BY <1>1, <1>2, AppendProperties
<1>4. NewLines(s) = {i \in 1 .. Len(s) : s[i] = "nl"} /\ IsFiniteSet(NewLines(s))
      /\ Cardinality(NewLines(s)) \in Nat
  BY NewLinesFinite
<1>5. NewLines(u) = {i \in 1 .. Len(u) : u[i] = "nl"} /\ IsFiniteSet(NewLines(u))
      /\ Cardinality(NewLines(u)) \in Nat
  BY <1>3, NewLinesFinite
<1>6. PICK k : k = Len(s) + 1
  OBVIOUS
<1>7. \A i \in 1 .. Len(u) : i # k => i \in 1 .. Len(s)
  BY <1>2, <1>3, <1>6
<1>8. PICK m \in Nat, n \in Nat : m = Cardinality(NewLines(s)) /\ n = Cardinality(NewLines(u))
  BY <1>4, <1>5
<1>9. ASSUME ch = "nl" PROVE n <= m + 1
  <2>1. NewLines(u) \in SUBSET (NewLines(s) \cup {k})
    BY <1>3, <1>4, <1>5, <1>7
  <2>2. /\ IsFiniteSet(NewLines(s) \cup {k})
        /\ Cardinality(NewLines(s) \cup {k}) = IF k \in NewLines(s) THEN m ELSE m + 1
    BY <1>4, <1>8, FS_AddElement
  <2>3. n <= Cardinality(NewLines(s) \cup {k})
    BY <1>8, <2>1, <2>2, FS_Subset
  <2> QED BY <2>2, <2>3
<1>10. ASSUME ch # "nl" PROVE n <= m
  <2>1. NewLines(u) \in SUBSET NewLines(s)
    BY <1>3, <1>4, <1>5, <1>6, <1>7, <1>10
  <2> QED BY <1>4, <1>8, <2>1, FS_Subset
<1> QED BY <1>1, <1>8, <1>9, <1>10

LEMMA NewLinesErased ==
  ASSUME NEW s \in Seq(Char), NEW n \in 0 .. Len(s)
  PROVE  Cardinality(NewLines(SubSeq(s, 1, n))) <= Cardinality(NewLines(s))
<1>1. PICK u : u = SubSeq(s, 1, n)
  OBVIOUS
<1>2. Len(s) \in Nat
  BY LenProperties
<1>3. \A i \in 1 .. n : s[i] \in Char
  BY <1>2, ElementOfSeq
<1>4. u \in Seq(Char) /\ Len(u) = n /\ \A i \in 1 .. n : u[i] = s[i]
  <2>1. /\ u \in Seq(Char) /\ Len(u) = IF 1 <= n THEN n - 1 + 1 ELSE 0
        /\ \A i \in 1 .. n - 1 + 1 : u[i] = s[1 + i - 1]
    BY <1>1, <1>2, <1>3, SubSeqProperties
  <2> QED BY <1>2, <2>1
<1>5. NewLines(u) \subseteq NewLines(s)
  <2>1. NewLines(u) = {i \in 1 .. Len(u) : u[i] = "nl"}
    BY <1>4, NewLinesFinite
  <2>2. NewLines(s) = {i \in 1 .. Len(s) : s[i] = "nl"}
    BY NewLinesFinite
  <2> QED BY <1>2, <1>4, <2>1, <2>2
<1> QED BY <1>1, <1>5, NewLinesFinite, FS_Subset

\* The first k characters are taken, and the last of them was a newline or
\* not.
LEMMA NewLinesTaken ==
  ASSUME NEW s \in Seq(Char), NEW k \in 0 .. Len(s)
  PROVE  LET u == SubSeq(s, k + 1, Len(s)) IN
         /\ u \in Seq(Char) /\ Len(u) = Len(s) - k
         /\ \A i \in 1 .. Len(s) - k : u[i] = s[k + i]
         /\ Cardinality(NewLines(u)) <= Cardinality(NewLines(s))
         /\ k > 0 /\ s[k] = "nl" => Cardinality(NewLines(u)) + 1 <= Cardinality(NewLines(s))
<1>1. PICK u : u = SubSeq(s, k + 1, Len(s))
  OBVIOUS
<1>2. Len(s) \in Nat
  BY LenProperties
<1>3. \A i \in k + 1 .. Len(s) : s[i] \in Char
  BY <1>2, ElementOfSeq
<1>4. u \in Seq(Char) /\ Len(u) = Len(s) - k /\ \A i \in 1 .. Len(s) - k : u[i] = s[k + i]
  <2>1. PICK m : m = k + 1
    OBVIOUS
  <2>2. m \in Int /\ Len(s) \in Int
    BY <1>2, <2>1
  <2>3. /\ u \in Seq(Char) /\ Len(u) = IF m <= Len(s) THEN Len(s) - m + 1 ELSE 0
        /\ \A i \in 1 .. Len(s) - m + 1 : u[i] = s[m + i - 1]
    BY <1>1, <1>3, <2>1, <2>2, SubSeqProperties
  <2>4. Len(u) = Len(s) - k
    BY <1>2, <2>1, <2>3
  <2>5. ASSUME NEW i \in 1 .. Len(s) - k PROVE u[i] = s[k + i]
    <3>1. i \in 1 .. Len(s) - m + 1 /\ m + i - 1 = k + i
      BY <1>2, <2>1
    <3> QED BY <2>3, <3>1
  <2> QED BY <2>3, <2>4, <2>5
<1>5. PICK A : A = {i \in NewLines(s) : i > k}
  OBVIOUS
<1>6. /\ NewLines(s) = {i \in 1 .. Len(s) : s[i] = "nl"} /\ IsFiniteSet(NewLines(s))
      /\ Cardinality(NewLines(s)) \in Nat
  BY NewLinesFinite
<1>7. /\ NewLines(u) = {i \in 1 .. Len(u) : u[i] = "nl"}
      /\ Cardinality(NewLines(u)) \in Nat
  BY <1>4, NewLinesFinite
<1>8. IsFiniteSet(A) /\ Cardinality(A) \in Nat
  <2>1. A \in SUBSET NewLines(s)
    BY <1>5
  <2> QED BY <1>6, <2>1, FS_Subset, FS_CardinalityType
<1>9. Cardinality(NewLines(u)) <= Cardinality(A)
  <2>1. PICK f : f = [j \in A |-> j - k]
    OBVIOUS
  <2>2. ASSUME NEW j \in A PROVE f[j] \in NewLines(u)
    <3>1. j \in 1 .. Len(s) /\ s[j] = "nl" /\ j > k
      BY <1>5, <1>6
    <3>2. PICK i : i = j - k
      OBVIOUS
    <3>3. i \in 1 .. Len(s) - k /\ k + i = j
      BY <1>2, <3>1, <3>2
    <3>4. u[i] = "nl" /\ i \in 1 .. Len(u)
      BY <1>4, <3>1, <3>3
    <3> QED BY <1>7, <2>1, <3>2, <3>4
  <2>3. ASSUME NEW i \in NewLines(u) PROVE \E j \in A : f[j] = i
    <3>1. i \in 1 .. Len(s) - k /\ u[i] = "nl"
      BY <1>4, <1>7
    <3>2. PICK j : j = k + i
      OBVIOUS
    <3>3. j \in 1 .. Len(s) /\ j > k /\ s[j] = "nl" /\ j - k = i
      BY <1>2, <1>4, <3>1, <3>2
    <3>4. j \in A
      BY <1>5, <1>6, <3>3
    <3> QED BY <2>1, <3>3, <3>4
  <2>4. f \in Surjection(A, NewLines(u))
    BY <2>1, <2>2, <2>3 DEF Surjection
  <2> QED BY <1>8, <2>4, FS_Surjection
<1>10. Cardinality(A) <= Cardinality(NewLines(s))
  <2>1. A \in SUBSET NewLines(s)
    BY <1>5
  <2> QED BY <1>6, <2>1, FS_Subset
<1>11. ASSUME k > 0, s[k] = "nl" PROVE Cardinality(A) + 1 <= Cardinality(NewLines(s))
  <2>1. k \in NewLines(s)
    BY <1>2, <1>6, <1>11
  <2>2. /\ IsFiniteSet(NewLines(s) \ {k})
        /\ Cardinality(NewLines(s) \ {k}) = Cardinality(NewLines(s)) - 1
    BY <1>6, <2>1, FS_RemoveElement
  <2>3. A \in SUBSET (NewLines(s) \ {k})
    BY <1>5
  <2>4. Cardinality(A) <= Cardinality(NewLines(s) \ {k})
    BY <2>2, <2>3, FS_Subset
  <2> QED BY <1>6, <1>8, <2>2, <2>4
<1>12. Cardinality(NewLines(u)) <= Cardinality(NewLines(s))
  BY <1>6, <1>7, <1>8, <1>9, <1>10
<1>13. k > 0 /\ s[k] = "nl" => Cardinality(NewLines(u)) + 1 <= Cardinality(NewLines(s))
  BY <1>6, <1>7, <1>8, <1>9, <1>11
<1> QED BY <1>1, <1>4, <1>12, <1>13
-----------------------------------------------------------------------------
(* What the functions of TtyCook do to the line.                           *)

Start(v, m) == /\ SubSeq(v, 1, m) \in Seq(Char) /\ Len(SubSeq(v, 1, m)) = m
               /\ \A i \in 1 .. m : SubSeq(v, 1, m)[i] = v[i]

LEMMA StartIs ==
  ASSUME NEW v, NEW m \in Nat, \A i \in 1 .. m : v[i] \in Char
  PROVE  Start(v, m)
<1>1. /\ SubSeq(v, 1, m) \in Seq(Char)
      /\ Len(SubSeq(v, 1, m)) = IF 1 <= m THEN m - 1 + 1 ELSE 0
      /\ \A i \in 1 .. m - 1 + 1 : SubSeq(v, 1, m)[i] = v[1 + i - 1]
  BY SubSeqProperties
<1> QED BY <1>1 DEF Start

LEMMA CookErases ==
  ASSUME NEW c \in CookRecord, c.head # c.tail,
         NEW d, d = [c EXCEPT !.tail = Q_PREV(@)]
  PROVE  /\ d \in CookRecord /\ d.crs = c.crs
         /\ Len(Contents(c)) > 0
         /\ Contents(d) = SubSeq(Contents(c), 1, Len(Contents(c)) - 1)
<1>1. PICK M \in Nat : M = TTYC_LINE_SIZE /\ M > 2 /\ M > 0
  BY RingSize
<1>2. PICK h \in 0 .. M - 1, t \in 0 .. M - 1 : h = c.head /\ t = c.tail
  BY <1>1 DEF CookRecord, RingPlace
<1>3. PICK u : u = Onward(M, t, M - 1)
  OBVIOUS
<1>4. Q_PREV(c.tail) = u
  <2>1. M - 1 \in 0 .. M
    BY <1>1
  <2>2. (t + (M - 1)) % M = u
    BY <1>1, <1>3, <2>1, OnwardIs
  <2>3. t + (M - 1) = t + M - 1
    BY <1>1
  <2> QED BY <1>1, <1>2, <2>2, <2>3 DEF Q_PREV
<1>5. u \in 0 .. M - 1 /\ Span(M, h, u) = Span(M, h, t) - 1
  BY <1>1, <1>2, <1>3, TailBack
<1>6. /\ d \in CookRecord /\ d.crs = c.crs /\ d.head = h /\ d.tail = u /\ d.buf = c.buf
  BY <1>1, <1>2, <1>4, <1>5 DEF CookRecord, RingPlace
<1>7. PICK n \in 0 .. M - 1 : n = Span(M, h, t) /\ InRing(c) = n
  BY <1>1, <1>2, SpanIs DEF InRing
<1>8. InRing(d) = n - 1
  BY <1>1, <1>5, <1>6, <1>7 DEF InRing
<1>9. PICK v : v = Contents(c)
  OBVIOUS
<1>10. v \in Seq(Char) /\ Len(v) = n
       /\ \A i \in 1 .. n : v[i] = c.buf[Onward(M, h, i - 1)]
  BY <1>1, <1>2, <1>7, <1>9, ContentsAre
<1>11. PICK w : w = Contents(d)
  OBVIOUS
<1>12. w \in Seq(Char) /\ Len(w) = n - 1 /\ n - 1 \in Nat
       /\ \A i \in 1 .. n - 1 : w[i] = c.buf[Onward(M, h, i - 1)]
  <2>1. /\ w \in Seq(Char) /\ Len(w) = InRing(d) /\ InRing(d) \in RingPlace
        /\ \A i \in 1 .. InRing(d) : w[i] = d.buf[Onward(TTYC_LINE_SIZE, d.head, i - 1)]
    BY <1>6, <1>11, ContentsAre
  <2>2. n - 1 \in Nat
    BY <1>1, <1>7, <1>8, <2>1 DEF RingPlace
  <2> QED BY <1>1, <1>6, <1>8, <2>1, <2>2
<1>13. PICK x : x = SubSeq(v, 1, n - 1)
  OBVIOUS
<1>14. \A i \in 1 .. n - 1 : v[i] \in Char
  BY <1>10, <1>12, ElementOfSeq
<1>15. x \in Seq(Char) /\ Len(x) = n - 1 /\ \A i \in 1 .. n - 1 : x[i] = v[i]
  <2>1. PICK m \in Nat : m = n - 1
    BY <1>12
  <2>2. \A i \in 1 .. m : v[i] \in Char
    BY <1>14, <2>1
  <2>3. Start(v, m)
    BY <2>2, StartIs
  <2>4. x = SubSeq(v, 1, m)
    BY <1>13, <2>1
  <2> QED BY <2>1, <2>3, <2>4 DEF Start
<1>16. \A i \in 1 .. n - 1 : w[i] = x[i]
  BY <1>10, <1>12, <1>15
<1>17. w = x
  BY <1>12, <1>15, <1>16, SeqEqual
<1>18. n > 0
  BY <1>12
<1>19. Len(v) - 1 = n - 1 /\ Len(v) > 0
  BY <1>10, <1>18
<1> QED BY <1>6, <1>9, <1>11, <1>13, <1>17, <1>19, Zenon

LEMMA CookAccepts ==
  ASSUME NEW c \in CookRecord, NEW ch \in Char, ch # "bs", Accepts(c, ch),
         NEW d, d = ttyc_putc(c, ch)
  PROVE  /\ d \in CookRecord /\ d.crs = IF ch = "nl" THEN c.crs + 1 ELSE c.crs
         /\ Contents(d) = Append(Contents(c), ch)
<1>1. PICK M \in Nat : M = TTYC_LINE_SIZE /\ M > 2 /\ M > 0
  BY RingSize
<1>2. PICK h \in 0 .. M - 1, t \in 0 .. M - 1 : h = c.head /\ t = c.tail
  BY <1>1 DEF CookRecord, RingPlace
<1>3. PICK n \in 0 .. M - 1 : n = Span(M, h, t) /\ InRing(c) = n
  BY <1>1, <1>2, SpanIs DEF InRing
<1>4. n < M - 1
  <2>1. PICK l \in Int : l = Left(c) /\ l = IF h <= t THEN M - t + h - 1 ELSE h - t
    BY <1>1, <1>2 DEF Left
  <2>2. l > 1
    BY <2>1 DEF Accepts
  <2>3. n = IF h <= t THEN t - h ELSE t + M - h
    BY <1>3 DEF Span
  <2> QED BY <1>1, <1>2, <2>1, <2>2, <2>3
<1>5. PICK u : u = Onward(M, t, 1)
  OBVIOUS
<1>6. u \in 0 .. M - 1 /\ Span(M, h, u) = n + 1
  BY <1>1, <1>2, <1>3, <1>4, <1>5, TailOn
<1>7. Q_NEXT(c.tail) = u
  <2>1. 1 \in 0 .. M
    BY <1>1
  <2> QED BY <1>1, <1>2, <1>5, <2>1, OnwardIs DEF Q_NEXT
<1>8. PICK r : r = IF ch = "nl" THEN c.crs + 1 ELSE c.crs
  OBVIOUS
<1>9. d = [c EXCEPT !.buf[c.tail] = ch, !.tail = Q_NEXT(@),
                    !.crs = IF ch = "nl" THEN @ + 1 ELSE @]
  BY Zenon DEF ttyc_putc, Erases
<1>10. d = [c EXCEPT !.buf[t] = ch, !.tail = u, !.crs = r]
  BY <1>2, <1>7, <1>8, <1>9, Zenon
<1>11. c.crs \in Nat /\ c.buf \in [RingPlace -> Char] /\ r \in Nat
  BY <1>8 DEF CookRecord
<1>12. PICK b : b = [c.buf EXCEPT ![t] = ch]
  OBVIOUS
<1>13. b \in [RingPlace -> Char] /\ b[t] = ch /\ \A i \in RingPlace : i # t => b[i] = c.buf[i]
  BY <1>1, <1>11, <1>12 DEF RingPlace
<1>14. d \in CookRecord /\ d.crs = r /\ d.head = h /\ d.tail = u /\ d.buf = b
  BY <1>1, <1>2, <1>6, <1>10, <1>11, <1>12, <1>13 DEF CookRecord, RingPlace
<1>15. InRing(d) = n + 1
  BY <1>1, <1>6, <1>14 DEF InRing
<1>16. PICK v : v = Contents(c)
  OBVIOUS
<1>17. v \in Seq(Char) /\ Len(v) = n
       /\ \A i \in 1 .. n : v[i] = c.buf[Onward(M, h, i - 1)]
  BY <1>1, <1>2, <1>3, <1>16, ContentsAre
<1>18. PICK w : w = Contents(d)
  OBVIOUS
<1>19. w \in Seq(Char) /\ Len(w) = n + 1
       /\ \A i \in 1 .. n + 1 : w[i] = b[Onward(M, h, i - 1)]
  BY <1>1, <1>14, <1>15, <1>18, ContentsAre
<1>20. PICK x : x = Append(v, ch)
  OBVIOUS
<1>21. x \in Seq(Char) /\ Len(x) = n + 1 /\ x[n + 1] = ch
       /\ \A i \in 1 .. n : x[i] = v[i]
  BY <1>17, <1>20, AppendProperties
<1>22. ASSUME NEW i \in 1 .. n PROVE w[i] = x[i]
  <2>1. PICK k : k = i - 1
    OBVIOUS
  <2>2. k \in 0 .. M - 1 /\ k \in 0 .. M /\ k # n
    BY <1>1, <1>3, <2>1
  <2>3. Onward(M, h, k) # t /\ Onward(M, h, k) \in RingPlace
    BY <1>1, <1>3, <2>2, SpanEnds, OnwardIs DEF RingPlace
  <2>4. i \in 1 .. n + 1
    BY <1>3
  <2>5. w[i] = b[Onward(M, h, k)]
    BY <1>19, <2>1, <2>4
  <2>6. v[i] = c.buf[Onward(M, h, k)]
    BY <1>17, <2>1
  <2> QED BY <1>13, <1>21, <2>3, <2>5, <2>6
<1>23. w[n + 1] = x[n + 1]
  <2>1. Onward(M, h, n) = t /\ n + 1 - 1 = n /\ n + 1 \in 1 .. n + 1
    BY <1>1, <1>3, SpanEnds
  <2> QED BY <1>13, <1>19, <1>21, <2>1
<1>24. \A i \in 1 .. n + 1 : w[i] = x[i]
  BY <1>3, <1>22, <1>23
<1>25. w = x
  BY <1>3, <1>19, <1>21, <1>24, SeqEqual
<1> QED BY <1>8, <1>14, <1>16, <1>18, <1>20, <1>25

\* What is taken is a piece of the line, not empty only if lines are counted.
LEMMA TakenIs ==
  ASSUME NEW c \in CookRecord, NEW m \in Nat
  PROVE  /\ Taken(c, m) \in 0 .. Len(Contents(c))
         /\ Taken(c, m) > 0 => c.crs > 0
<1>1. PICK v : v = Contents(c)
  OBVIOUS
<1>2. v \in Seq(Char) /\ Len(v) \in Nat
  BY <1>1, ContentsAre, LenProperties
<1>3. PICK E : E = NewLines(v) \cup {Len(v), m}
  OBVIOUS
<1>4. E \subseteq Nat /\ Len(v) \in E
  <2>1. NewLines(v) = {i \in 1 .. Len(v) : v[i] = "nl"}
    BY <1>2, NewLinesFinite
  <2> QED BY <1>2, <1>3, <2>1
<1>5. c.crs \in Nat
  BY DEF CookRecord
<1>6. CASE c.crs = 0 \/ v = <<>>
  <2>1. Taken(c, m) = 0
    BY <1>1, <1>6 DEF Taken
  <2> QED BY <1>1, <1>2, <2>1
<1>7. CASE ~ (c.crs = 0 \/ v = <<>>)
  <2>1. Taken(c, m) = CHOOSE n \in E : \A j \in E : n <= j
    BY <1>1, <1>3, <1>7 DEF Taken
  <2>2. \E n \in E : \A j \in E : n <= j
    <3> DEFINE R == OpToRel(<, Nat)
    <3>1. IsWellFoundedOn(R, Nat)
      BY NatLessThanWellFounded
    <3>2. \A i, j \in Nat : i < j => <<i, j>> \in R
      BY DEF OpToRel
    <3> HIDE DEF R
    <3>3. PICK n \in E : \A j \in E : ~ (<<j, n>> \in R)
      BY <1>4, <3>1, WFMin
    <3>4. \A j \in E : j \in Nat
      BY <1>4
    <3>5. ASSUME NEW j \in E PROVE n <= j
      <4>1. n \in Nat /\ j \in Nat /\ ~ (j < n)
        BY <3>2, <3>3, <3>4
      <4> QED BY <4>1
    <3> QED BY <3>5
  <2>3. Taken(c, m) \in E /\ Taken(c, m) <= Len(v)
    <3>1. PICK q : q = CHOOSE n \in E : \A j \in E : n <= j
      OBVIOUS
    <3>2. q \in E /\ \A j \in E : q <= j
      BY <2>2, <3>1
    <3>3. q <= Len(v)
      BY <1>4, <3>2
    <3>4. Taken(c, m) = q
      BY <2>1, <3>1, Zenon
    <3> QED BY <3>2, <3>3, <3>4
  <2>4. Taken(c, m) \in 0 .. Len(v)
    <3>1. PICK q : q = Taken(c, m)
      OBVIOUS
    <3>2. q \in Nat
      BY <1>4, <2>3, <3>1, Zenon
    <3> QED BY <1>2, <2>3, <3>1, <3>2
  <2>5. c.crs > 0
    BY <1>5, <1>7
  <2> QED BY <1>1, <2>4, <2>5
<1> QED BY <1>6, <1>7

\* The count of lines after the first k characters of a line s are taken.
LinesLeft(n, s, k) == IF k > 0 /\ s[k] = "nl" THEN n - 1 ELSE n

LEMMA CookReads ==
  ASSUME NEW c \in CookRecord, NEW m \in Nat,
         NEW d, d = ttyc_read(c, m), NEW k, k = Taken(c, m)
  PROVE  /\ d \in CookRecord
         /\ d.crs = LinesLeft(c.crs, Contents(c), k)
         /\ Contents(d) = SubSeq(Contents(c), k + 1, Len(Contents(c)))
<1>1. PICK M \in Nat : M = TTYC_LINE_SIZE /\ M > 2 /\ M > 0
  BY RingSize
<1>2. PICK h \in 0 .. M - 1, t \in 0 .. M - 1 : h = c.head /\ t = c.tail
  BY <1>1 DEF CookRecord, RingPlace
<1>3. PICK n \in 0 .. M - 1 : n = Span(M, h, t) /\ InRing(c) = n
  BY <1>1, <1>2, SpanIs DEF InRing
<1>4. PICK v : v = Contents(c)
  OBVIOUS
<1>5. v \in Seq(Char) /\ Len(v) = n
      /\ \A i \in 1 .. n : v[i] = c.buf[Onward(M, h, i - 1)]
  BY <1>1, <1>2, <1>3, <1>4, ContentsAre
<1>6. k \in 0 .. n /\ k \in 0 .. M /\ (k > 0 => c.crs > 0)
  <2>1. k \in 0 .. Len(v) /\ (k > 0 => c.crs > 0)
    BY <1>4, TakenIs
  <2> QED BY <1>1, <1>3, <1>5, <2>1
<1>7. PICK g : g = Onward(M, h, k)
  OBVIOUS
<1>8. (h + k) % M = g /\ g \in 0 .. M - 1
  BY <1>1, <1>6, <1>7, OnwardIs
<1>9. /\ Span(M, g, t) = n - k
      /\ \A i \in 0 .. M - 1 : k + i < M => Onward(M, g, i) = Onward(M, h, k + i)
  BY <1>1, <1>3, <1>6, <1>7, HeadOn
<1>10. PICK r : r = IF k > 0 /\ v[k] = "nl" THEN c.crs - 1 ELSE c.crs
  OBVIOUS
<1>11. c.crs \in Nat /\ c.buf \in [RingPlace -> Char] /\ r \in Nat
  <2>1. c.crs \in Nat /\ c.buf \in [RingPlace -> Char]
    BY DEF CookRecord
  <2> QED BY <1>6, <1>10, <2>1
<1>12. d = [c EXCEPT !.head = g, !.crs = r]
  <2>1. d = [c EXCEPT !.head = (@ + k) % TTYC_LINE_SIZE,
                      !.crs = IF k > 0 /\ v[k] = "nl" THEN @ - 1 ELSE @]
    BY <1>4, Zenon DEF ttyc_read
  <2> QED BY <1>1, <1>2, <1>8, <1>10, <2>1, Zenon
<1>13. d \in CookRecord /\ d.crs = r /\ d.head = g /\ d.tail = t /\ d.buf = c.buf
  BY <1>1, <1>2, <1>8, <1>11, <1>12 DEF CookRecord, RingPlace
<1>14. InRing(d) = n - k
  BY <1>1, <1>9, <1>13 DEF InRing
<1>15. PICK w : w = Contents(d)
  OBVIOUS
<1>16. w \in Seq(Char) /\ Len(w) = n - k
       /\ \A i \in 1 .. n - k : w[i] = c.buf[Onward(M, g, i - 1)]
  BY <1>1, <1>13, <1>14, <1>15, ContentsAre
<1>17. PICK x : x = SubSeq(v, k + 1, n)
  OBVIOUS
<1>18. x \in Seq(Char) /\ Len(x) = n - k /\ \A i \in 1 .. n - k : x[i] = v[k + i]
  BY <1>5, <1>6, <1>17, NewLinesTaken
<1>19. ASSUME NEW i \in 1 .. n - k PROVE w[i] = x[i]
  <2>1. PICK j : j = i - 1
    OBVIOUS
  <2>2. j \in 0 .. M - 1 /\ k + j < M /\ k + i \in 1 .. n /\ k + i - 1 = k + j
    BY <1>1, <1>3, <1>6, <2>1
  <2>3. Onward(M, g, j) = Onward(M, h, k + j)
    BY <1>9, <2>2
  <2>4. v[k + i] = c.buf[Onward(M, h, k + j)]
    <3>1. PICK p : p = k + i
      OBVIOUS
    <3>2. p \in 1 .. n /\ p - 1 = k + j
      BY <1>6, <2>1, <2>2, <3>1
    <3>3. v[p] = c.buf[Onward(M, h, p - 1)]
      BY <1>5, <3>2
    <3> QED BY <3>1, <3>2, <3>3, Zenon
  <2> QED BY <1>16, <1>18, <2>1, <2>3, <2>4
<1>20. w = x
  <2>1. \A i \in 1 .. Len(w) : w[i] = x[i]
    BY <1>16, <1>19
  <2> QED BY <1>16, <1>18, <2>1, SeqEqual
<1>21. r = LinesLeft(c.crs, v, k)
  BY <1>10 DEF LinesLeft
<1> QED BY <1>4, <1>5, <1>13, <1>15, <1>17, <1>20, <1>21
\* A ring whose head is its tail holds nothing.
LEMMA CookIsEmpty ==
  ASSUME NEW c \in CookRecord, c.head = 0, c.tail = 0
  PROVE  Contents(c) = <<>>
<1>1. InRing(c) = 0
  BY RingSize DEF InRing, Span
<1> QED BY <1>1, ContentsAre, EmptySeq

LEMMA NoNewLines == Cardinality(NewLines(<<>>)) = 0
<1>1. NewLines(<<>>) = {}
  BY DEF NewLines
<1> QED BY <1>1, FS_EmptySet

-----------------------------------------------------------------------------
(* The steps of the port.                                                  *)

TtyInv == cooker \in CookRecord /\ size \in [Task -> Nat] /\ RingHoldsLine

LEMMA TtyStarts == TtyInit => TtyInv
<1> SUFFICES ASSUME TtyInit PROVE TtyInv
  OBVIOUS
<1>1. cooker = NewCook /\ size = [t \in Task |-> 0] /\ line = <<>>
  BY DEF TtyInit
<1>2. cooker \in CookRecord /\ cooker.head = 0 /\ cooker.tail = 0 /\ cooker.crs = 0
  BY <1>1, RingSize DEF NewCook, CookRecord, RingPlace, Char
<1>3. Contents(cooker) = <<>>
  BY <1>2, CookIsEmpty
<1>4. size \in [Task -> Nat]
  BY <1>1
<1> QED BY <1>1, <1>2, <1>3, <1>4, NoNewLines DEF TtyInv, RingHoldsLine

LEMMA TtySteps == TtyInv /\ [TtyNext]_ttyvars => TtyInv'
<1> SUFFICES ASSUME TtyInv, [TtyNext]_ttyvars PROVE TtyInv'
  OBVIOUS
<1>1. /\ cooker \in CookRecord /\ size \in [Task -> Nat]
      /\ Contents(cooker) = line /\ Cardinality(NewLines(line)) <= cooker.crs
  BY DEF TtyInv, RingHoldsLine
<1>2. /\ line \in Seq(Char) /\ Len(line) \in Nat /\ cooker.crs \in Nat
      /\ Cardinality(NewLines(line)) \in Nat
  BY <1>1, ContentsAre, LenProperties, NewLinesFinite DEF CookRecord
<1>3. ASSUME UNCHANGED <<cooker, line>>, size' \in [Task -> Nat] PROVE TtyInv'
  BY <1>1, <1>3 DEF TtyInv, RingHoldsLine
<1>4. CASE UNCHANGED ttyvars
  BY <1>1, <1>3, <1>4 DEF ttyvars
<1>5. ASSUME NEW t \in Task, tty_opened(t) PROVE TtyInv'
  <2>1. CASE UNCHANGED <<cooker, line>>
    BY <1>1, <1>3, <1>5, <2>1 DEF tty_opened
  <2>2. CASE cooker' = ttyc_init(cooker) /\ line' = <<>>
    <3>1. PICK d : d = ttyc_init(cooker)
      OBVIOUS
    <3>2. d \in CookRecord /\ d.head = 0 /\ d.tail = 0 /\ d.crs = 0
      <4>1. 0 \in RingPlace /\ 0 \in Nat
        BY RingSize DEF RingPlace
      <4>2. d = [cooker EXCEPT !.head = 0, !.tail = 0, !.crs = 0]
        BY <3>1 DEF ttyc_init
      <4> QED BY <1>1, <4>1, <4>2 DEF CookRecord
    <3>3. Contents(d) = <<>>
      BY <3>2, CookIsEmpty
    <3>4. size' \in [Task -> Nat]
      BY <1>1, <1>5 DEF tty_opened
    <3> QED BY <2>2, <3>1, <3>2, <3>3, <3>4, NoNewLines DEF TtyInv, RingHoldsLine
  <2> QED BY <1>5, <2>1, <2>2 DEF tty_opened
<1>6. ASSUME NEW t \in Task, tty_read(t) PROVE TtyInv'
  <2>1. PICK n \in Nat : size' = [size EXCEPT ![t] = n]
    BY <1>6, TtyAssumption DEF tty_read
  <2> QED BY <1>1, <1>3, <1>6, <2>1 DEF tty_read
<1>7. ASSUME NEW t \in Task, tty_read_tries(t) PROVE TtyInv'
  <2>1. PICK m \in Nat : m = size[t]
    BY <1>1
  <2>2. PICK k : k = Taken(cooker, m)
    OBVIOUS
  <2>3. cooker' = ttyc_read(cooker, m) /\ line' = SubSeq(line, k + 1, Len(line))
    BY <1>7, <2>1, <2>2 DEF tty_read_tries
  <2>4. size' \in [Task -> Nat]
    BY <1>1, <1>7 DEF tty_read_tries, Return
  <2>5. k \in 0 .. Len(line) /\ (k > 0 => cooker.crs > 0)
    BY <1>1, <2>2, TakenIs
  <2>6. PICK d : d = ttyc_read(cooker, m)
    OBVIOUS
  <2>7. /\ d \in CookRecord
        /\ d.crs = LinesLeft(cooker.crs, line, k)
        /\ Contents(d) = SubSeq(line, k + 1, Len(line))
    <3>1. PICK c \in CookRecord : c = cooker
      BY <1>1
    <3>2. d = ttyc_read(c, m) /\ k = Taken(c, m)
      BY <2>2, <2>6, <3>1
    <3>3. /\ d \in CookRecord /\ d.crs = LinesLeft(c.crs, Contents(c), k)
          /\ Contents(d) = SubSeq(Contents(c), k + 1, Len(Contents(c)))
      BY <3>2, CookReads
    <3> QED BY <1>1, <3>1, <3>3
  <2>8. PICK u : u = SubSeq(line, k + 1, Len(line))
    OBVIOUS
  <2>9. /\ u \in Seq(Char) /\ Cardinality(NewLines(u)) <= Cardinality(NewLines(line))
        /\ k > 0 /\ line[k] = "nl" =>
               Cardinality(NewLines(u)) + 1 <= Cardinality(NewLines(line))
    BY <1>2, <2>5, <2>8, NewLinesTaken
  <2>10. Cardinality(NewLines(u)) \in Nat
    BY <2>9, NewLinesFinite
  <2>11. Cardinality(NewLines(u)) <= d.crs
    <3>1. CASE k > 0 /\ line[k] = "nl"
      <4>1. d.crs = cooker.crs - 1
        BY <2>7, <3>1 DEF LinesLeft
      <4> QED BY <1>1, <1>2, <2>9, <2>10, <3>1, <4>1
    <3>2. CASE ~ (k > 0 /\ line[k] = "nl")
      <4>1. d.crs = cooker.crs
        BY <2>7, <3>2 DEF LinesLeft
      <4> QED BY <1>1, <1>2, <2>9, <2>10, <4>1
    <3> QED BY <3>1, <3>2
  <2> QED BY <2>3, <2>4, <2>6, <2>7, <2>8, <2>11 DEF TtyInv, RingHoldsLine
<1>8. ASSUME NEW ch \in Char, tty_recv_intr(ch) PROVE TtyInv'
  <2>1. /\ cooker' = ttyc_putc(cooker, ch) /\ size' = size
        /\ line' = IF Erases(cooker, ch) THEN SubSeq(line, 1, Len(line) - 1)
                   ELSE IF Accepts(cooker, ch) THEN Append(line, ch) ELSE line
    BY <1>8 DEF tty_recv_intr
  <2>2. PICK d : d = ttyc_putc(cooker, ch)
    OBVIOUS
  <2>3. CASE Erases(cooker, ch)
    <3>1. line' = SubSeq(line, 1, Len(line) - 1)
      BY <2>1, <2>3
    <3>2. d = [cooker EXCEPT !.tail = Q_PREV(@)] /\ cooker.head # cooker.tail
      BY <2>2, <2>3 DEF ttyc_putc, Erases
    <3>3. /\ d \in CookRecord /\ d.crs = cooker.crs /\ Len(line) > 0
          /\ Contents(d) = SubSeq(line, 1, Len(line) - 1)
      BY <1>1, <3>2, CookErases
    <3>4. PICK n : n = Len(line) - 1
      OBVIOUS
    <3>5. n \in 0 .. Len(line)
      BY <1>2, <3>3, <3>4
    <3>6. PICK u : u = SubSeq(line, 1, n)
      OBVIOUS
    <3>7. Cardinality(NewLines(u)) <= Cardinality(NewLines(line))
      BY <1>2, <3>5, <3>6, NewLinesErased
    <3>8. u \in Seq(Char)
      BY <3>3, <3>4, <3>6, ContentsAre
    <3>9. Cardinality(NewLines(u)) \in Nat
      BY <3>8, NewLinesFinite
    <3>10. Cardinality(NewLines(u)) <= d.crs
      BY <1>1, <1>2, <3>3, <3>7, <3>9
    <3> QED BY <1>1, <2>1, <2>2, <3>1, <3>3, <3>4, <3>6, <3>10 DEF TtyInv, RingHoldsLine
  <2>4. CASE ~ Erases(cooker, ch) /\ Accepts(cooker, ch)
    <3>1. line' = Append(line, ch)
      BY <2>1, <2>4
    <3>2. ch # "bs"
      BY <2>4 DEF Accepts
    <3>3. /\ d \in CookRecord /\ d.crs = IF ch = "nl" THEN cooker.crs + 1 ELSE cooker.crs
          /\ Contents(d) = Append(line, ch)
      BY <1>1, <2>2, <2>4, <3>2, CookAccepts
    <3>4. PICK u : u = Append(line, ch)
      OBVIOUS
    <3>5. /\ Cardinality(NewLines(u)) <= Cardinality(NewLines(line)) + 1
          /\ ch # "nl" => Cardinality(NewLines(u)) <= Cardinality(NewLines(line))
      BY <1>2, <3>4, NewLinesAppended
    <3>6. Cardinality(NewLines(u)) \in Nat
      BY <1>2, <3>4, AppendProperties, NewLinesFinite
    <3>7. Cardinality(NewLines(u)) <= d.crs
      <4>1. CASE ch = "nl"
        <5>1. d.crs = cooker.crs + 1
          BY <3>3, <4>1
        <5> QED BY <1>1, <1>2, <3>5, <3>6, <5>1
      <4>2. CASE ch # "nl"
        <5>1. d.crs = cooker.crs
          BY <3>3, <4>2
        <5> QED BY <1>1, <1>2, <3>5, <3>6, <4>2, <5>1
      <4> QED BY <4>1, <4>2
    <3> QED BY <1>1, <2>1, <2>2, <3>1, <3>3, <3>4, <3>7 DEF TtyInv, RingHoldsLine
  <2>5. CASE ~ Erases(cooker, ch) /\ ~ Accepts(cooker, ch)
    <3>1. cooker' = cooker /\ line' = line
      BY <2>1, <2>5 DEF ttyc_putc
    <3> QED BY <1>1, <1>3, <2>1, <3>1
  <2> QED BY <2>3, <2>4, <2>5
<1>9. ASSUME NEW t \in Task,
             \/ tty_open(t) \/ tty_close(t) \/ tty_closed(t)
             \/ tty_read_blocks(t) \/ tty_read_woken(t)
      PROVE  TtyInv'
  <2>1. UNCHANGED <<cooker, line>>
    BY <1>9 DEF tty_open, tty_close, tty_closed, tty_read_blocks, tty_read_woken
  <2>2. size' \in [Task -> Nat]
    BY <1>1, <1>9 DEF tty_open, tty_close, tty_closed, tty_read_blocks,
          tty_read_woken, Return
  <2> QED BY <1>3, <2>1, <2>2
<1> QED
  BY <1>4, <1>5, <1>6, <1>7, <1>8, <1>9 DEF TtyNext, Reads, Receives

\* However the interrupt comes between the steps of the readers, and wherever
\* in the ring of ttycook the line lies, the ring holds what was typed and not
\* erased or read, and no complete line in it is without its count (ttyc_putc,
\* ttyc_read).
THEOREM RingKeepsLine == TtySpec => []RingHoldsLine
<1>1. TtyInit => TtyInv
  BY TtyStarts
<1>2. TtyInv /\ [TtyNext]_ttyvars => TtyInv'
  BY TtySteps
<1>3. TtyInv => RingHoldsLine
  BY DEF TtyInv
<1> QED BY <1>1, <1>2, <1>3, PTL DEF TtySpec
-----------------------------------------------------------------------------
(* What the decoder makes of scancodes.                                    *)

MetaKey == {"shift", "num"}
AnyKey == {"a", "A", "8", "UP", NoKey}
CodeKey == {"a", "kp8", "up", "shift", "num", "f1", "E0", NoKey}
Code == [key : CodeKey, up : BOOLEAN]

\* The decoder with its state given: its flags, and how many characters it
\* has made.
Decoder == [ext : BOOLEAN, meta : SUBSET MetaKey, n : Nat]

KeyIn(c, x) ==
    IF c.up THEN NoKey
    ELSE CASE c.key = "a" -> IF x.ext THEN NoKey
                             ELSE IF "shift" \in x.meta THEN "A" ELSE "a"
           [] c.key = "kp8" -> IF ~ x.ext /\ "num" \in x.meta THEN "8" ELSE "UP"
           [] OTHER -> NoKey

MetaAfter(c, x) ==
    IF c.key \in MetaKey /\ ~ x.ext
    THEN IF c.key = "num"
         THEN IF c.up THEN x.meta ELSE (x.meta \ {"num"}) \cup ({"num"} \ x.meta)
         ELSE IF c.up THEN x.meta \ {c.key} ELSE x.meta \cup {c.key}
    ELSE x.meta

Made(c, x) == IF KeyIn(c, x) = NoKey THEN 0 ELSE 1

After(x, c) == [ext |-> c.key = "E0", meta |-> MetaAfter(c, x), n |-> x.n + Made(c, x)]

\* The character made is the next one of those typed.
Yields(x, c, s) ==
    Made(c, x) = 1 => x.n + 1 \in 1 .. Len(s) /\ s[x.n + 1] = KeyIn(c, x)

NoMeta(W, i, j) == \A k \in i + 1 .. j : W[k].key \notin MetaKey

\* The states st that lead from a to z through the codes W.
Leads(st, W, a, z, s) ==
    /\ st \in [0 .. Len(W) -> Decoder] /\ st[0] = a /\ st[Len(W)] = z
    /\ \A i \in 1 .. Len(W) : st[i] = After(st[i - 1], W[i]) /\ Yields(st[i - 1], W[i], s)
    /\ \A i, j \in 0 .. Len(W) : i <= j =>
           /\ st[i].n <= st[j].n
           /\ NoMeta(W, i, j) => st[i].meta = st[j].meta

Decoded(W, a, z, s) == \E st : Leads(st, W, a, z, s)

LEMMA AfterIs ==
  ASSUME NEW x \in Decoder, NEW c \in Code, NEW y, y = After(x, c)
  PROVE  /\ y \in Decoder /\ x.n <= y.n /\ Made(c, x) \in {0, 1}
         /\ y.n = x.n + Made(c, x)
         /\ c.key \notin MetaKey => y.meta = x.meta
<1>1. x.n \in Nat /\ x.meta \in SUBSET MetaKey
  BY DEF Decoder
<1>2. PICK e \in BOOLEAN : e = (c.key = "E0")
  OBVIOUS
<1>3. PICK m : m = MetaAfter(c, x)
  OBVIOUS
<1>4. PICK k : k = Made(c, x)
  OBVIOUS
<1>5. k \in {0, 1}
  BY <1>4 DEF Made
<1>6. m \in SUBSET MetaKey /\ (c.key \notin MetaKey => m = x.meta)
  BY <1>1, <1>3 DEF MetaAfter, MetaKey
<1>7. y = [ext |-> e, meta |-> m, n |-> x.n + k]
  BY <1>2, <1>3, <1>4 DEF After
<1> QED BY <1>1, <1>2, <1>4, <1>5, <1>6, <1>7 DEF Decoder

LEMMA DecodedNothing ==
  ASSUME NEW a \in Decoder, NEW s
  PROVE  Decoded(<<>>, a, a, s)
<1>1. PICK st : st = [i \in 0 .. 0 |-> a]
  OBVIOUS
<1>2. Len(<<>>) = 0
  OBVIOUS
<1>3. a.n \in Nat
  BY DEF Decoder
<1>4. st \in [0 .. 0 -> Decoder] /\ st[0] = a
  BY <1>1
<1>5. \A i, j \in 0 .. 0 : st[i].n <= st[j].n /\ st[i].meta = st[j].meta
  BY <1>3, <1>4
<1> QED BY <1>2, <1>4, <1>5 DEF Decoded, Leads

\* One code more.
LEMMA DecodedMore ==
  ASSUME NEW W \in Seq(Code), NEW a, NEW z, NEW s, Decoded(W, a, z, s),
         NEW c \in Code, Yields(z, c, s), NEW y, y = After(z, c)
  PROVE  Decoded(Append(W, c), a, y, s)
<1>1. PICK st : Leads(st, W, a, z, s)
  BY DEF Decoded
<1>2. PICK n \in Nat : n = Len(W)
  BY LenProperties
<1>3. PICK V : V = Append(W, c)
  OBVIOUS
<1>4. V \in Seq(Code) /\ Len(V) = n + 1 /\ V[n + 1] = c /\ \A i \in 1 .. n : V[i] = W[i]
  BY <1>2, <1>3, AppendProperties
<1>5. /\ st \in [0 .. n -> Decoder] /\ st[0] = a /\ st[n] = z
      /\ \A i \in 1 .. n : st[i] = After(st[i - 1], W[i]) /\ Yields(st[i - 1], W[i], s)
      /\ \A i, j \in 0 .. n : i <= j =>
             /\ st[i].n <= st[j].n
             /\ NoMeta(W, i, j) => st[i].meta = st[j].meta
  BY <1>1, <1>2, Zenon DEF Leads
<1>6. PICK u : u = [i \in 0 .. n + 1 |-> IF i <= n THEN st[i] ELSE y]
  OBVIOUS
<1>7. z \in Decoder
  BY <1>2, <1>5
<1>8. /\ y \in Decoder /\ z.n <= y.n /\ z.n \in Nat /\ y.n \in Nat
      /\ c.key \notin MetaKey => y.meta = z.meta
  BY <1>7, AfterIs DEF Decoder
<1>9. /\ \A i \in 0 .. n : u[i] = st[i]
      /\ u[n + 1] = y /\ u \in [0 .. n + 1 -> Decoder]
  BY <1>2, <1>5, <1>6, <1>8
<1>10. u[0] = a /\ u[n] = z
  BY <1>2, <1>5, <1>9
<1>11. ASSUME NEW i \in 1 .. n + 1
       PROVE  u[i] = After(u[i - 1], V[i]) /\ Yields(u[i - 1], V[i], s)
  <2>1. CASE i = n + 1
    <3>1. i - 1 = n
      BY <1>2, <2>1
    <3> QED BY <1>4, <1>9, <1>10, <2>1, <3>1
  <2>2. CASE i # n + 1
    <3>1. PICK j : j = i - 1
      OBVIOUS
    <3>2. i \in 1 .. n /\ i \in 0 .. n /\ j \in 0 .. n
      BY <1>2, <2>2, <3>1
    <3>3. u[i] = st[i] /\ u[j] = st[j] /\ V[i] = W[i]
      BY <1>4, <1>9, <3>2
    <3> QED BY <1>5, <3>1, <3>2, <3>3
  <2> QED BY <2>1, <2>2
<1>12. ASSUME NEW i \in 0 .. n + 1, NEW j \in 0 .. n + 1, i <= j
       PROVE  u[i].n <= u[j].n /\ (NoMeta(V, i, j) => u[i].meta = u[j].meta)
  <2>1. CASE j \in 0 .. n
    <3>1. i \in 0 .. n /\ u[i] = st[i] /\ u[j] = st[j]
      BY <1>2, <1>9, <1>12, <2>1
    <3>2. NoMeta(V, i, j) => NoMeta(W, i, j)
      <4>1. \A k \in i + 1 .. j : V[k] = W[k]
        BY <1>2, <1>4, <2>1, <3>1
      <4> QED BY <4>1 DEF NoMeta
    <3> QED BY <1>5, <1>12, <2>1, <3>1, <3>2
  <2>2. CASE i = n + 1 /\ j = n + 1
    <3>1. u[i] = y /\ u[j] = y
      BY <1>9, <2>2
    <3> QED BY <1>8, <3>1
  <2>3. CASE i \in 0 .. n /\ j = n + 1
    <3>1. u[i] = st[i] /\ u[j] = y
      BY <1>9, <2>3
    <3>2. n \in 0 .. n /\ i <= n
      BY <1>2, <2>3
    <3>3. st[i].n <= z.n /\ (NoMeta(W, i, n) => st[i].meta = z.meta) /\ st[i].n \in Nat
      BY <1>5, <2>3, <3>2 DEF Decoder
    <3>4. ASSUME NoMeta(V, i, j) PROVE NoMeta(W, i, n) /\ c.key \notin MetaKey
      <4>1. n + 1 \in i + 1 .. j
        BY <1>2, <2>3
      <4>2. \A k \in i + 1 .. n : k \in i + 1 .. j /\ V[k] = W[k]
        BY <1>2, <1>4, <2>3
      <4> QED BY <1>4, <3>4, <4>1, <4>2 DEF NoMeta
    <3> QED BY <1>8, <3>1, <3>3, <3>4
  <2> QED BY <1>2, <1>12, <2>1, <2>2, <2>3
<1>13. Leads(u, V, a, y, s)
  BY <1>4, <1>9, <1>10, <1>11, <1>12, Zenon DEF Leads
<1> QED BY <1>3, <1>13 DEF Decoded

\* One code fewer: the decoder takes it.
LEMMA DecodedFirst ==
  ASSUME NEW W \in Seq(Code), W # <<>>, NEW a, NEW z, NEW s, Decoded(W, a, z, s)
  PROVE  /\ a \in Decoder /\ Yields(a, W[1], s)
         /\ Decoded(Tail(W), After(a, W[1]), z, s)
<1>1. PICK st : Leads(st, W, a, z, s)
  BY DEF Decoded
<1>2. PICK n \in Nat : n + 1 = Len(W)
  <2>1. Len(W) \in Nat /\ Len(W) # 0
    BY LenProperties, EmptySeq
  <2>2. PICK n : n = Len(W) - 1
    OBVIOUS
  <2>3. n \in Nat /\ n + 1 = Len(W)
    BY <2>1, <2>2
  <2> QED BY <2>3
<1>3. PICK V : V = Tail(W)
  OBVIOUS
<1>4. V \in Seq(Code) /\ Len(V) = n /\ \A i \in 1 .. n : V[i] = W[i + 1]
  <2>1. /\ V \in Seq(Code) /\ Len(V) = Len(W) - 1
        /\ \A i \in 1 .. Len(V) : V[i] = W[i + 1]
    BY <1>3, HeadTailProperties
  <2>2. Len(V) = n
    BY <1>2, <2>1
  <2> QED BY <2>1, <2>2
<1>5. /\ st \in [0 .. n + 1 -> Decoder] /\ st[0] = a /\ st[n + 1] = z
      /\ \A i \in 1 .. n + 1 : st[i] = After(st[i - 1], W[i]) /\ Yields(st[i - 1], W[i], s)
      /\ \A i, j \in 0 .. n + 1 : i <= j =>
             /\ st[i].n <= st[j].n
             /\ NoMeta(W, i, j) => st[i].meta = st[j].meta
  BY <1>1, <1>2, Zenon DEF Leads
<1>6. a \in Decoder
  BY <1>2, <1>5
<1>7. st[1] = After(a, W[1]) /\ Yields(a, W[1], s)
  <2>1. 1 \in 1 .. n + 1 /\ 1 - 1 = 0
    BY <1>2
  <2> QED BY <1>5, <2>1
<1>8. PICK u : u = [i \in 0 .. n |-> st[i + 1]]
  OBVIOUS
<1>9. \A i \in 0 .. n : i + 1 \in 0 .. n + 1 /\ u[i] = st[i + 1]
  BY <1>2, <1>8
<1>10. u \in [0 .. n -> Decoder] /\ u[0] = After(a, W[1]) /\ u[n] = z
  BY <1>2, <1>5, <1>7, <1>8, <1>9
<1>11. ASSUME NEW i \in 1 .. n
       PROVE  u[i] = After(u[i - 1], V[i]) /\ Yields(u[i - 1], V[i], s)
  <2>1. PICK j : j = i - 1
    OBVIOUS
  <2>2. PICK k : k = i + 1
    OBVIOUS
  <2>3. i \in 0 .. n /\ j \in 0 .. n /\ j + 1 = i /\ k \in 1 .. n + 1 /\ k - 1 = i
    BY <1>2, <2>1, <2>2
  <2>4. u[i] = st[k] /\ u[j] = st[i] /\ V[i] = W[k]
    BY <1>4, <1>9, <2>2, <2>3
  <2>5. st[k] = After(st[k - 1], W[k]) /\ Yields(st[k - 1], W[k], s)
    BY <1>5, <2>3
  <2> QED BY <2>1, <2>3, <2>4, <2>5
<1>12. ASSUME NEW i \in 0 .. n, NEW j \in 0 .. n, i <= j
       PROVE  u[i].n <= u[j].n /\ (NoMeta(V, i, j) => u[i].meta = u[j].meta)
  <2>1. PICK p, q : p = i + 1 /\ q = j + 1
    OBVIOUS
  <2>2. p \in 0 .. n + 1 /\ q \in 0 .. n + 1 /\ p <= q
    BY <1>2, <1>12, <2>1
  <2>3. u[i] = st[p] /\ u[j] = st[q]
    BY <1>9, <2>1
  <2>4. ASSUME NoMeta(V, i, j) PROVE NoMeta(W, p, q)
    <3>1. ASSUME NEW k \in p + 1 .. q PROVE W[k].key \notin MetaKey
      <4>1. PICK m : m = k - 1
        OBVIOUS
      <4>2. m \in i + 1 .. j /\ m \in 1 .. n /\ m + 1 = k
        BY <1>2, <2>1, <4>1
      <4>3. V[m].key \notin MetaKey
        BY <2>4, <4>2 DEF NoMeta
      <4> QED BY <1>4, <4>2, <4>3
    <3> QED BY <3>1 DEF NoMeta
  <2> QED BY <1>5, <2>2, <2>3, <2>4
<1>13. Leads(u, V, After(a, W[1]), z, s)
  BY <1>4, <1>10, <1>11, <1>12, Zenon DEF Leads
<1> QED BY <1>3, <1>6, <1>7, <1>13 DEF Decoded

\* What Leads needs of the characters is what Yields does.
LEMMA LeadsAlso ==
  ASSUME NEW W, NEW st, NEW a, NEW z, NEW s, NEW t, Leads(st, W, a, z, s),
         \A i \in 1 .. Len(W) : Yields(st[i - 1], W[i], t)
  PROVE  Leads(st, W, a, z, t)
BY Zenon DEF Leads

LEMMA DecodedLonger ==
  ASSUME NEW W, NEW a, NEW z, NEW s \in Seq(AnyKey), NEW ch \in AnyKey,
         Decoded(W, a, z, s)
  PROVE  Decoded(W, a, z, Append(s, ch))
<1>1. PICK st : Leads(st, W, a, z, s)
  BY DEF Decoded
<1>2. PICK t : t = Append(s, ch)
  OBVIOUS
<1>3. PICK n \in Nat : n = Len(s)
  BY LenProperties
<1>4. Len(t) = n + 1 /\ \A i \in 1 .. n : t[i] = s[i]
  BY <1>2, <1>3, AppendProperties
<1>5. ASSUME NEW i \in 1 .. Len(W) PROVE Yields(st[i - 1], W[i], t)
  <2>1. PICK x, c : x = st[i - 1] /\ c = W[i]
    OBVIOUS
  <2>2. Yields(x, c, s)
    BY <1>1, <2>1, Zenon DEF Leads
  <2>3. ASSUME Made(c, x) = 1 PROVE x.n + 1 \in 1 .. Len(t) /\ t[x.n + 1] = KeyIn(c, x)
    <3>1. x.n + 1 \in 1 .. n /\ s[x.n + 1] = KeyIn(c, x)
      BY <1>3, <2>2, <2>3 DEF Yields
    <3> QED BY <1>4, <3>1
  <2> QED BY <2>1, <2>3 DEF Yields
<1> QED BY <1>1, <1>2, <1>5, LeadsAlso DEF Decoded

\* The decoder with one character fewer behind it.
Less(x) == [x EXCEPT !.n = @ - 1]

LEMMA LessIs ==
  ASSUME NEW x \in Decoder, x.n > 0, NEW c \in Code
  PROVE  /\ Less(x) \in Decoder /\ Less(x).n = x.n - 1 /\ Less(x).meta = x.meta
         /\ Less(x).ext = x.ext
         /\ Made(c, Less(x)) = Made(c, x) /\ KeyIn(c, Less(x)) = KeyIn(c, x)
         /\ After(Less(x), c) = Less(After(x, c))
<1>1. PICK y : y = Less(x)
  OBVIOUS
<1>2. y \in Decoder /\ y.n = x.n - 1 /\ y.meta = x.meta /\ y.ext = x.ext
  BY <1>1 DEF Less, Decoder
<1>3. KeyIn(c, y) = KeyIn(c, x) /\ MetaAfter(c, y) = MetaAfter(c, x)
  BY <1>2, Zenon DEF KeyIn, MetaAfter
<1>4. Made(c, y) = Made(c, x)
  BY <1>3, Zenon DEF Made
<1>5. PICK k \in {0, 1} : k = Made(c, x)
  BY AfterIs
<1>6. After(y, c) = Less(After(x, c))
  <2>1. PICK e \in BOOLEAN : e = (c.key = "E0")
    OBVIOUS
  <2>2. PICK m : m = MetaAfter(c, x)
    OBVIOUS
  <2>3. After(y, c) = [ext |-> e, meta |-> m, n |-> y.n + k]
    BY <1>3, <1>4, <1>5, <2>1, <2>2 DEF After
  <2>4. PICK v : v = After(x, c)
    OBVIOUS
  <2>5. v = [ext |-> e, meta |-> m, n |-> x.n + k]
    BY <1>5, <2>1, <2>2, <2>4 DEF After
  <2>6. PICK p \in Nat, q \in Int : p = x.n + k /\ q = p - 1
    BY <1>5 DEF Decoder
  <2>7. y.n + k = q
    BY <1>2, <1>5, <2>6 DEF Decoder
  <2>8. v = [ext |-> e, meta |-> m, n |-> p]
    BY <2>5, <2>6
  <2>9. [v EXCEPT !.n = q] = [ext |-> e, meta |-> m, n |-> q] /\ v.n = p
    BY <2>8
  <2>10. Less(v) = [v EXCEPT !.n = q]
    BY <2>6, <2>9 DEF Less
  <2>11. After(y, c) = [ext |-> e, meta |-> m, n |-> q]
    BY <2>3, <2>7
  <2> QED BY <2>4, <2>9, <2>10, <2>11
<1> QED BY <1>1, <1>2, <1>3, <1>4, <1>6

LEMMA DecodedTail ==
  ASSUME NEW W \in Seq(Code), NEW a, NEW z, NEW s \in Seq(AnyKey), s # <<>>,
         Decoded(W, a, z, s), a.n > 0
  PROVE  Decoded(W, Less(a), Less(z), Tail(s))
<1>1. PICK st : Leads(st, W, a, z, s)
  BY DEF Decoded
<1>2. PICK n \in Nat : n = Len(W)
  BY LenProperties
<1>3. /\ st \in [0 .. n -> Decoder] /\ st[0] = a /\ st[n] = z
      /\ \A i \in 1 .. n : st[i] = After(st[i - 1], W[i]) /\ Yields(st[i - 1], W[i], s)
      /\ \A i, j \in 0 .. n : i <= j =>
             /\ st[i].n <= st[j].n
             /\ NoMeta(W, i, j) => st[i].meta = st[j].meta
  BY <1>1, <1>2, Zenon DEF Leads
<1>4. PICK t : t = Tail(s)
  OBVIOUS
<1>5. PICK l \in Nat : l = Len(t) /\ Len(s) = l + 1 /\ \A i \in 1 .. l : t[i] = s[i + 1]
  <2>1. /\ t \in Seq(AnyKey) /\ Len(t) = Len(s) - 1
        /\ \A i \in 1 .. Len(t) : t[i] = s[i + 1]
    BY <1>4, HeadTailProperties
  <2>2. Len(t) \in Nat /\ Len(s) \in Nat
    BY <2>1, LenProperties
  <2> QED BY <2>1, <2>2
<1>6. \A i \in 1 .. n : W[i] \in Code
  BY <1>2, ElementOfSeq
<1>7. \A i \in 0 .. n : st[i] \in Decoder /\ st[i].n > 0
  <2>1. a.n \in Nat
    BY <1>2, <1>3 DEF Decoder
  <2>2. ASSUME NEW i \in 0 .. n PROVE st[i].n > 0
    <3>1. 0 \in 0 .. n /\ 0 <= i
      BY <1>2
    <3>2. a.n <= st[i].n
      BY <1>3, <3>1
    <3>3. st[i].n \in Nat
      BY <1>3 DEF Decoder
    <3> QED BY <2>1, <3>2, <3>3
  <2> QED BY <1>3, <2>2
<1>8. PICK u : u = [i \in 0 .. n |-> Less(st[i])]
  OBVIOUS
<1>9. PICK c0 \in Code : TRUE
  <2>1. [key |-> NoKey, up |-> FALSE] \in Code
    BY DEF Code, CodeKey
  <2> QED BY <2>1
<1>10. \A i \in 0 .. n : /\ u[i] = Less(st[i]) /\ u[i] \in Decoder
                         /\ u[i].n = st[i].n - 1 /\ u[i].meta = st[i].meta
  BY <1>7, <1>8, <1>9, LessIs
<1>11. u \in [0 .. n -> Decoder] /\ u[0] = Less(a) /\ u[n] = Less(z)
  <2>1. \A i \in 0 .. n : u[i] \in Decoder
    BY <1>10
  <2>2. 0 \in 0 .. n /\ n \in 0 .. n
    BY <1>2
  <2> QED BY <1>3, <1>8, <2>1, <2>2
<1>12. ASSUME NEW i \in 1 .. n
       PROVE  u[i] = After(u[i - 1], W[i]) /\ Yields(u[i - 1], W[i], t)
  <2>1. PICK j \in 0 .. n : j = i - 1
    BY <1>2
  <2>2. i \in 0 .. n /\ W[i] \in Code
    BY <1>2, <1>6
  <2>3. PICK x \in Decoder : x = st[j] /\ x.n > 0
    BY <1>7, <2>1
  <2>4. PICK c \in Code : c = W[i]
    BY <2>2
  <2>5. st[i] = After(x, c) /\ Yields(x, c, s)
    BY <1>3, <2>1, <2>3, <2>4
  <2>6. u[i] = Less(After(x, c)) /\ u[j] = Less(x)
    BY <1>10, <2>1, <2>2, <2>3, <2>5
  <2>7. /\ After(Less(x), c) = Less(After(x, c)) /\ Less(x).n = x.n - 1
        /\ Made(c, Less(x)) = Made(c, x) /\ KeyIn(c, Less(x)) = KeyIn(c, x)
    BY <2>3, LessIs
  <2>8. PICK y : y = Less(x)
    OBVIOUS
  <2>9. ASSUME Made(c, y) = 1 PROVE y.n + 1 \in 1 .. Len(t) /\ t[y.n + 1] = KeyIn(c, y)
    <3>1. x.n + 1 \in 1 .. Len(s) /\ s[x.n + 1] = KeyIn(c, x) /\ x.n \in Nat
      BY <2>5, <2>7, <2>8, <2>9 DEF Yields, Decoder
    <3>2. PICK m : m = x.n
      OBVIOUS
    <3>3. y.n + 1 = m /\ m \in 1 .. l
      BY <1>5, <2>3, <2>7, <2>8, <3>1, <3>2
    <3>4. t[m] = s[m + 1]
      BY <1>5, <3>3
    <3> QED BY <1>5, <2>7, <2>8, <3>1, <3>2, <3>3, <3>4
  <2>10. Yields(y, c, t)
    BY <2>9 DEF Yields
  <2> QED BY <2>1, <2>4, <2>6, <2>7, <2>8, <2>10
<1>13. ASSUME NEW i \in 0 .. n, NEW j \in 0 .. n, i <= j
       PROVE  u[i].n <= u[j].n /\ (NoMeta(W, i, j) => u[i].meta = u[j].meta)
  <2>1. st[i].n <= st[j].n /\ (NoMeta(W, i, j) => st[i].meta = st[j].meta)
    BY <1>3, <1>13
  <2>2. st[i].n \in Nat /\ st[j].n \in Nat
    BY <1>7 DEF Decoder
  <2>3. u[i].n = st[i].n - 1 /\ u[j].n = st[j].n - 1
    BY <1>10
  <2>4. u[i].meta = st[i].meta /\ u[j].meta = st[j].meta
    BY <1>10
  <2>6. PICK p \in Nat, q \in Nat : p = st[i].n /\ q = st[j].n
    BY <2>2
  <2>7. p <= q
    BY <2>1, <2>6
  <2>5. u[i].n <= u[j].n
    BY <2>3, <2>6, <2>7
  <2> QED BY <2>1, <2>4, <2>5
<1>14. Leads(u, W, Less(a), Less(z), t)
  BY <1>2, <1>11, <1>12, <1>13, Zenon DEF Leads
<1> QED BY <1>4, <1>14 DEF Decoded

\* The first state and the last.
LEMMA DecodedEnds ==
  ASSUME NEW W \in Seq(Code), NEW a, NEW z, NEW s, Decoded(W, a, z, s)
  PROVE  /\ a \in Decoder /\ z \in Decoder /\ a.n <= z.n
         /\ W = <<>> => a = z
         /\ (\A i \in 1 .. Len(W) : W[i].key \notin MetaKey) => a.meta = z.meta
<1>1. PICK st : Leads(st, W, a, z, s)
  BY DEF Decoded
<1>2. PICK n \in Nat : n = Len(W) /\ (W = <<>> => n = 0)
  BY LenProperties, EmptySeq
<1>3. /\ st \in [0 .. n -> Decoder] /\ st[0] = a /\ st[n] = z
      /\ \A i, j \in 0 .. n : i <= j =>
             /\ st[i].n <= st[j].n
             /\ NoMeta(W, i, j) => st[i].meta = st[j].meta
  BY <1>1, <1>2, Zenon DEF Leads
<1>4. 0 \in 0 .. n /\ n \in 0 .. n /\ 0 <= n
  BY <1>2
<1>5. a \in Decoder /\ z \in Decoder /\ a.n <= z.n
  BY <1>3, <1>4
<1>6. ASSUME \A i \in 1 .. Len(W) : W[i].key \notin MetaKey PROVE NoMeta(W, 0, n)
  <2>1. \A i \in 0 + 1 .. n : i \in 1 .. n
    BY <1>2
  <2> QED BY <1>2, <1>6, <2>1 DEF NoMeta
<1> QED BY <1>2, <1>3, <1>4, <1>5, <1>6

-----------------------------------------------------------------------------
(* The invariant, for a console that r alone reads.                        *)

Spot == 0 .. MAXQ - 1
Where == {"out", "scan", "descan", "store", "stored", "check", "take", "taken",
          "empty", "blocked"}
ReaderState == [at : Where, size : Nat, i : Spot, by : AnyKey, sc : Code]
KeyRing == [head : Spot, tail : Spot, buf : [Spot -> AnyKey]]

ConTypes ==
    /\ scqueue \in Seq(Code) /\ sending \in Seq(Code) /\ typed \in Seq(AnyKey)
    /\ kq \in KeyRing /\ rd \in [Reader -> ReaderState]
    /\ prefix \in BOOLEAN /\ meta \in SUBSET MetaKey
    /\ con_readers \in Seq(Reader) /\ locked \in BOOLEAN

\* Only those that sleep are woken.
Sleeping == \A i \in 1 .. Len(con_readers) : rd[con_readers[i]].at = "blocked"

\* F1 is one code.
Single == /\ Len(sending) <= 2
          /\ sending # <<>> /\ IsDebug(Head(sending)) => Len(sending) = 1

Full(q) == Span(MAXQ, q.head, q.tail)

\* The ring holds the first characters typed, and the one that x is about to
\* put behind them is the next.
Keeps(q, x, s) ==
    /\ Full(q) <= Len(s)
    /\ \A i \in 1 .. Full(q) : q.buf[Onward(MAXQ, q.head, i - 1)] = s[i]
    /\ x.at \in {"store", "stored"} => Full(q) + 1 < MAXQ /\ Full(q) + 1 <= Len(s)
    /\ x.at = "store" => x.by = s[Full(q) + 1]
    /\ x.at = "stored" => x.i = q.tail /\ q.buf[q.tail] = s[Full(q) + 1]
    /\ x.at = "taken" => Full(q) > 0 /\ x.i = q.head /\ x.by = q.buf[q.head]

Coming(q, x) == Full(q) + IF x.at \in {"store", "stored"} THEN 1 ELSE 0

\* The codes that are not decoded, wherever they are.
Held(x) == IF x.at = "descan" THEN <<x.sc>> ELSE <<>>
Undecoded(x, queue, keyboard) == (Held(x) \o queue) \o keyboard

\* The flags when all is decoded.
KeyMeta == (down \cap {"shift"}) \cup (IF locked THEN {"num"} ELSE {})

At0(p, m, n) == [ext |-> p, meta |-> m, n |-> n]

KeyInv(r) ==
    /\ ConTypes /\ Sleeping /\ Single
    /\ Keeps(kq, rd[r], typed)
    /\ Decoded(Undecoded(rd[r], scqueue, sending),
               At0(prefix, meta, Coming(kq, rd[r])),
               At0(FALSE, KeyMeta, Len(typed)), typed)

LEMMA ConSizesAre == MAXQ \in Nat /\ MAXQ > 1 /\ MAXQ > 0
BY ConsoleAssumption

LEMMA FullIs ==
  ASSUME NEW q \in KeyRing
  PROVE  Full(q) \in 0 .. MAXQ - 1 /\ q.head \in 0 .. MAXQ - 1 /\ q.tail \in 0 .. MAXQ - 1
<1>1. PICK M \in Nat : M = MAXQ /\ M > 1 /\ M > 0
  BY ConSizesAre
<1>2. PICK h \in 0 .. M - 1, t \in 0 .. M - 1 : h = q.head /\ t = q.tail
  BY <1>1 DEF KeyRing, Spot
<1>3. Span(M, h, t) \in 0 .. M - 1
  BY <1>1, SpanIs
<1> QED BY <1>1, <1>2, <1>3 DEF Full

LEMMA HeldIs ==
  ASSUME NEW x \in ReaderState, NEW p \in Seq(Code), NEW q \in Seq(Code)
  PROVE  /\ Undecoded(x, p, q) \in Seq(Code) /\ Held(x) \in Seq(Code)
         /\ Held(x) \o p \in Seq(Code)
<1>1. Held(x) \in Seq(Code)
  BY DEF Held, ReaderState
<1>2. Held(x) \o p \in Seq(Code)
  BY <1>1, ConcatProperties
<1>3. Undecoded(x, p, q) \in Seq(Code)
  BY <1>2, ConcatProperties DEF Undecoded
<1> QED BY <1>1, <1>2, <1>3

Associate(u, v, w) == (u \o v) \o w = u \o (v \o w)

LEMMA CodesAssociate ==
  ASSUME NEW u \in Seq(Code), NEW v \in Seq(Code), NEW w \in Seq(Code)
  PROVE  Associate(u, v, w)
BY ConcatAssociative DEF Associate

\* What the keyboard and the queue hand on, all codes being kept.
LEMMA HandedOn ==
  ASSUME NEW p \in Seq(Code), NEW q \in Seq(Code), NEW n \in 0 .. Len(q),
         NEW x \in ReaderState
  PROVE  Undecoded(x, p \o SubSeq(q, 1, n), SubSeq(q, n + 1, Len(q))) = Undecoded(x, p, q)
<1>1. PICK h \in Seq(Code) : h = Held(x)
  BY HeldIs
<1>2. Len(q) \in Nat
  BY LenProperties
<1>3. PICK a \in Seq(Code), b \in Seq(Code) : a = SubSeq(q, 1, n) /\ b = SubSeq(q, n + 1, Len(q))
  <2>1. \A i \in 1 .. n : q[i] \in Code
    BY <1>2, ElementOfSeq
  <2>2. \A i \in n + 1 .. Len(q) : q[i] \in Code
    BY <1>2, ElementOfSeq
  <2>3. PICK m \in Int : m = n + 1
    OBVIOUS
  <2>4. SubSeq(q, 1, n) \in Seq(Code)
    BY <2>1, SubSeqProperties
  <2>5. SubSeq(q, m, Len(q)) \in Seq(Code)
    BY <1>2, <2>2, <2>3, SubSeqProperties
  <2> QED BY <2>3, <2>4, <2>5
<1>4. a \o b = q
  <2>1. 1 \in 1 .. Len(q) + 1 /\ n \in 1 - 1 .. Len(q) /\ Len(q) \in n .. Len(q)
    BY <1>2
  <2>2. SubSeq(q, 1, n) \o SubSeq(q, n + 1, Len(q)) = SubSeq(q, 1, Len(q))
    BY <2>1, ConcatAdjacentSubSeq
  <2>3. SubSeq(q, 1, Len(q)) = q
    BY SubSeqFull
  <2> QED BY <1>3, <2>2, <2>3
<1>5. (h \o (p \o a)) \o b = (h \o p) \o q
  <2>1. PICK v \in Seq(Code) : v = h \o p
    BY ConcatProperties
  <2>2. Associate(h, p, a) /\ Associate(v, a, b)
    BY CodesAssociate
  <2>3. (h \o p) \o a = h \o (p \o a) /\ (v \o a) \o b = v \o (a \o b)
    BY <2>2 DEF Associate
  <2> QED BY <1>4, <2>1, <2>3
<1> QED BY <1>1, <1>3, <1>5 DEF Undecoded

LEMMA OneElement ==
  ASSUME NEW S, NEW c \in S
  PROVE  <<c>> \in Seq(S) /\ Len(<<c>>) = 1 /\ <<c>>[1] = c
OBVIOUS

LEMMA HeadAndTail ==
  ASSUME NEW S, NEW p \in Seq(S), p # <<>>
  PROVE  /\ Head(p) = p[1] /\ p[1] \in S /\ Len(p) > 0 /\ Len(p) \in Nat
         /\ <<Head(p)>> \o Tail(p) = p
<1>1. Len(p) \in Nat /\ Len(p) > 0
  BY LenProperties, EmptySeq
<1>2. Head(p) = p[1] /\ p[1] \in S
  <2>1. 1 \in 1 .. Len(p) /\ Len(p) \in 1 .. Len(p)
    BY <1>1
  <2>2. Head(SubSeq(p, 1, Len(p))) = p[1]
    BY <2>1, HeadTailOfSubSeq
  <2> QED BY <2>1, <2>2, SubSeqFull, ElementOfSeq
<1>3. PICK h \in Seq(S) : h = <<Head(p)>> /\ Len(h) = 1 /\ h[1] = p[1]
  BY <1>2, OneElement
<1>4. PICK t \in Seq(S) : t = Tail(p) /\ Len(t) = Len(p) - 1
                         /\ \A i \in 1 .. Len(t) : t[i] = p[i + 1]
  BY HeadTailProperties
<1>5. PICK w \in Seq(S) : w = h \o t /\ Len(w) = Len(p)
            /\ \A i \in 1 .. Len(p) : w[i] = IF i <= 1 THEN h[i] ELSE t[i - 1]
  <2>1. /\ h \o t \in Seq(S) /\ Len(h \o t) = Len(h) + Len(t)
        /\ \A i \in 1 .. Len(h) + Len(t) :
               (h \o t)[i] = IF i <= Len(h) THEN h[i] ELSE t[i - Len(h)]
    BY ConcatProperties
  <2>2. Len(h) + Len(t) = Len(p)
    BY <1>1, <1>3, <1>4
  <2> QED BY <1>3, <2>1, <2>2
<1>6. ASSUME NEW i \in 1 .. Len(p) PROVE w[i] = p[i]
  <2>1. CASE i = 1
    BY <1>3, <1>5, <2>1
  <2>2. CASE i # 1
    <3>1. PICK j : j = i - 1
      OBVIOUS
    <3>2. j \in 1 .. Len(t) /\ j + 1 = i /\ ~ i <= 1
      BY <1>1, <1>4, <2>2, <3>1
    <3> QED BY <1>4, <1>5, <3>1, <3>2
  <2> QED BY <2>1, <2>2
<1>7. w = p
  BY <1>5, <1>6, SeqEqual
<1> QED BY <1>1, <1>2, <1>3, <1>4, <1>5, <1>7

\* The reader takes the first code from the queue.
LEMMA TakenCode ==
  ASSUME NEW p \in Seq(Code), NEW q \in Seq(Code), p # <<>>,
         NEW x \in ReaderState, NEW y \in ReaderState,
         x.at # "descan", y.at = "descan", y.sc = Head(p)
  PROVE  Undecoded(y, Tail(p), q) = Undecoded(x, p, q)
<1>1. Held(x) = <<>> /\ Held(y) = <<Head(p)>>
  BY DEF Held
<1>2. <<Head(p)>> \o Tail(p) = p
  BY HeadAndTail
<1>3. <<>> \o p = p
  BY ConcatEmptySeq
<1> QED BY <1>1, <1>2, <1>3 DEF Undecoded

\* The code that the reader holds is the first.
LEMMA HeldFirst ==
  ASSUME NEW p \in Seq(Code), NEW q \in Seq(Code),
         NEW x \in ReaderState, NEW y \in ReaderState,
         x.at = "descan", y.at # "descan"
  PROVE  LET W == Undecoded(x, p, q) IN
         W # <<>> /\ W[1] = x.sc /\ Tail(W) = Undecoded(y, p, q)
<1>1. Held(x) = <<x.sc>> /\ Held(y) = <<>> /\ x.sc \in Code
  BY DEF Held, ReaderState
<1>2. PICK h \in Seq(Code) : h = <<x.sc>> /\ Len(h) = 1 /\ h[1] = x.sc
  BY <1>1, OneElement
<1>3. PICK v \in Seq(Code) : v = p \o q
  BY ConcatProperties
<1>4. PICK W \in Seq(Code) : W = h \o v
  BY <1>2, <1>3, ConcatProperties
<1>5. /\ Len(v) \in Nat /\ Len(W) = 1 + Len(v)
      /\ \A i \in 1 .. 1 + Len(v) : W[i] = IF i <= 1 THEN h[i] ELSE v[i - 1]
  BY <1>2, <1>3, <1>4, ConcatProperties, LenProperties
<1>6. W # <<>> /\ W[1] = x.sc
  <2>1. Len(W) # 0
    BY <1>5
  <2>2. 1 \in 1 .. 1 + Len(v)
    BY <1>5
  <2> QED BY <1>2, <1>5, <2>1, <2>2, EmptySeq
<1>7. Tail(W) = v
  <2>1. PICK t \in Seq(Code) : t = Tail(W) /\ Len(t) = Len(v)
        /\ \A i \in 1 .. Len(t) : t[i] = W[i + 1]
    <3>1. /\ Tail(W) \in Seq(Code) /\ Len(Tail(W)) = Len(W) - 1
          /\ \A i \in 1 .. Len(Tail(W)) : Tail(W)[i] = W[i + 1]
      BY <1>4, <1>6, HeadTailProperties
    <3>2. Len(Tail(W)) = Len(v)
      BY <1>5, <3>1
    <3> QED BY <3>1, <3>2
  <2>2. ASSUME NEW i \in 1 .. Len(t) PROVE t[i] = v[i]
    <3>1. PICK j : j = i + 1
      OBVIOUS
    <3>2. j \in 1 .. 1 + Len(v) /\ ~ j <= 1 /\ j - 1 = i
      BY <1>5, <2>1, <3>1
    <3> QED BY <1>5, <2>1, <3>1, <3>2
  <2> QED BY <1>3, <2>1, <2>2, SeqEqual
<1>8. W = Undecoded(x, p, q)
  <2>1. Associate(h, p, q)
    BY <1>2, CodesAssociate
  <2>2. (h \o p) \o q = h \o v
    BY <1>3, <2>1 DEF Associate
  <2> QED BY <1>1, <1>2, <1>4, <2>2 DEF Undecoded
<1>9. v = Undecoded(y, p, q)
  BY <1>1, <1>3, ConcatEmptySeq DEF Undecoded
<1> QED BY <1>6, <1>7, <1>8, <1>9

-----------------------------------------------------------------------------
(* What a step changes of a reader.                                        *)

SetAt(f, t, p) == [f EXCEPT ![t].at = p]
SetSize(f, t, p) == [f EXCEPT ![t].size = p]
SetSpot(f, t, p) == [f EXCEPT ![t].i = p]
SetKey(f, t, p) == [f EXCEPT ![t].by = p]
SetCode(f, t, p) == [f EXCEPT ![t].sc = p]

LEMMA AtSet ==
  ASSUME NEW f \in [Reader -> ReaderState], NEW t \in Reader, NEW p \in Where
  PROVE  LET g == SetAt(f, t, p) IN
         /\ g \in [Reader -> ReaderState]
         /\ g[t].at = p /\ g[t].size = f[t].size /\ g[t].i = f[t].i
         /\ g[t].by = f[t].by /\ g[t].sc = f[t].sc
BY DEF ReaderState, SetAt

LEMMA SizeSet ==
  ASSUME NEW f \in [Reader -> ReaderState], NEW t \in Reader, NEW p \in Nat
  PROVE  LET g == SetSize(f, t, p) IN
         /\ g \in [Reader -> ReaderState]
         /\ g[t].at = f[t].at /\ g[t].size = p /\ g[t].i = f[t].i
         /\ g[t].by = f[t].by /\ g[t].sc = f[t].sc
BY DEF ReaderState, SetSize

LEMMA SpotSet ==
  ASSUME NEW f \in [Reader -> ReaderState], NEW t \in Reader, NEW p \in Spot
  PROVE  LET g == SetSpot(f, t, p) IN
         /\ g \in [Reader -> ReaderState]
         /\ g[t].at = f[t].at /\ g[t].size = f[t].size /\ g[t].i = p
         /\ g[t].by = f[t].by /\ g[t].sc = f[t].sc
BY DEF ReaderState, SetSpot

LEMMA KeySet ==
  ASSUME NEW f \in [Reader -> ReaderState], NEW t \in Reader, NEW p \in AnyKey
  PROVE  LET g == SetKey(f, t, p) IN
         /\ g \in [Reader -> ReaderState]
         /\ g[t].at = f[t].at /\ g[t].size = f[t].size /\ g[t].i = f[t].i
         /\ g[t].by = p /\ g[t].sc = f[t].sc
BY DEF ReaderState, SetKey

LEMMA CodeSet ==
  ASSUME NEW f \in [Reader -> ReaderState], NEW t \in Reader, NEW p \in Code
  PROVE  LET g == SetCode(f, t, p) IN
         /\ g \in [Reader -> ReaderState]
         /\ g[t].at = f[t].at /\ g[t].size = f[t].size /\ g[t].i = f[t].i
         /\ g[t].by = f[t].by /\ g[t].sc = p
BY DEF ReaderState, SetCode

\* A reader that is between no two steps of the decoder or of a read.
Idle == {"out", "scan", "check", "take", "empty", "blocked"}

LEMMA IdleSame ==
  ASSUME NEW q, NEW s, NEW p, NEW k, NEW x \in ReaderState, NEW y \in ReaderState,
         x.at \in Idle, y.at \in Idle, Keeps(q, x, s)
  PROVE  /\ Keeps(q, y, s) /\ Coming(q, y) = Coming(q, x)
         /\ Undecoded(y, p, k) = Undecoded(x, p, k)
<1>1. Held(x) = Held(y)
  BY DEF Held, Idle
<1>2. Keeps(q, y, s) /\ Coming(q, y) = Coming(q, x)
  BY DEF Keeps, Coming, Idle
<1> QED BY <1>1, <1>2 DEF Undecoded

\* One more character is typed.
LEMMA KeepsLonger ==
  ASSUME NEW q \in KeyRing, NEW x \in ReaderState, NEW s \in Seq(AnyKey),
         NEW ch \in AnyKey, Keeps(q, x, s)
  PROVE  Keeps(q, x, Append(s, ch))
<1>1. PICK n \in Nat : n = Len(s)
  BY LenProperties
<1>2. PICK t : t = Append(s, ch)
  OBVIOUS
<1>3. Len(t) = n + 1 /\ \A i \in 1 .. n : t[i] = s[i]
  BY <1>1, <1>2, AppendProperties
<1>4. PICK m \in Nat : m = Full(q)
  BY FullIs, ConSizesAre
<1>5. /\ m <= n
      /\ \A i \in 1 .. m : q.buf[Onward(MAXQ, q.head, i - 1)] = s[i]
      /\ x.at \in {"store", "stored"} => m + 1 < MAXQ /\ m + 1 <= n
      /\ x.at = "store" => x.by = s[m + 1]
      /\ x.at = "stored" => x.i = q.tail /\ q.buf[q.tail] = s[m + 1]
      /\ x.at = "taken" => m > 0 /\ x.i = q.head /\ x.by = q.buf[q.head]
  BY <1>1, <1>4 DEF Keeps
<1>6. m <= n + 1 /\ \A i \in 1 .. m : t[i] = s[i]
  BY <1>3, <1>5
<1>7. x.at \in {"store", "stored"} => m + 1 <= n + 1 /\ t[m + 1] = s[m + 1]
  BY <1>3, <1>5
<1> QED BY <1>2, <1>3, <1>4, <1>5, <1>6, <1>7 DEF Keeps

\* The free place that the tail names is not one of the full ones.
LEMMA RoomIs ==
  ASSUME NEW q \in KeyRing
  PROVE  /\ (q.tail + 1) % MAXQ # q.head => Full(q) + 1 < MAXQ
         /\ Onward(MAXQ, q.head, Full(q)) = q.tail
         /\ \A i \in 1 .. Full(q) : /\ Onward(MAXQ, q.head, i - 1) \in Spot
                                    /\ Onward(MAXQ, q.head, i - 1) # q.tail
         /\ Full(q) > 0 <=> q.head # q.tail
<1>1. PICK M \in Nat : M = MAXQ /\ M > 1 /\ M > 0
  BY ConSizesAre
<1>2. PICK h \in 0 .. M - 1, t \in 0 .. M - 1 : h = q.head /\ t = q.tail
  BY <1>1 DEF KeyRing, Spot
<1>3. PICK n \in 0 .. M - 1 : n = Span(M, h, t) /\ n = Full(q)
  BY <1>1, <1>2, SpanIs DEF Full
<1>4. 1 \in 0 .. M
  BY <1>1
<1>5. (t + 1) % M = Onward(M, t, 1)
  BY <1>1, <1>4, OnwardIs
<1>6. Onward(M, t, 1) # h => n + 1 < M
  BY <1>1, <1>3 DEF Onward, Span
<1>7. Onward(M, h, n) = t /\ \A k \in 0 .. M - 1 : Onward(M, h, k) = t => k = n
  <2>1. /\ Onward(M, h, Span(M, h, t)) = t
        /\ \A k \in 0 .. M - 1 : Onward(M, h, k) = t => k = Span(M, h, t)
    BY <1>1, SpanEnds
  <2> QED BY <1>3, <2>1
<1>8. ASSUME NEW i \in 1 .. n
      PROVE  Onward(M, h, i - 1) \in Spot /\ Onward(M, h, i - 1) # t
  <2>1. PICK k : k = i - 1
    OBVIOUS
  <2>2. k \in 0 .. M - 1 /\ k \in 0 .. M /\ k # n
    BY <1>1, <1>3, <2>1
  <2>3. Onward(M, h, k) \in 0 .. M - 1
    BY <1>1, <2>2, OnwardIs
  <2> QED BY <1>1, <1>7, <2>1, <2>2, <2>3 DEF Spot
<1>9. n > 0 <=> h # t
  BY <1>1, <1>3 DEF Span
<1> QED BY <1>1, <1>2, <1>3, <1>5, <1>6, <1>7, <1>8, <1>9

-----------------------------------------------------------------------------
(* The keyboard.                                                           *)

LEMMA At0Is ==
  ASSUME NEW p \in BOOLEAN, NEW m \in SUBSET MetaKey, NEW n \in Nat
  PROVE  /\ At0(p, m, n) \in Decoder /\ At0(p, m, n).ext = p
         /\ At0(p, m, n).meta = m /\ At0(p, m, n).n = n
BY DEF At0, Decoder

\* A code comes behind those that are not decoded yet.
LEMMA CodeComes ==
  ASSUME NEW V \in Seq(Code), NEW a, NEW s \in Seq(AnyKey),
         NEW b \in BOOLEAN, NEW m \in SUBSET MetaKey,
         NEW z, z = At0(b, m, Len(s)), Decoded(V, a, z, s),
         NEW c \in Code, NEW e \in BOOLEAN, e <=> c.key = "E0",
         NEW ch, ch = KeyIn(c, z)
  PROVE  /\ ch = NoKey => Decoded(Append(V, c), a, At0(e, MetaAfter(c, z), Len(s)), s)
         /\ ch # NoKey => /\ ch \in AnyKey
                          /\ Decoded(Append(V, c), a,
                               At0(e, MetaAfter(c, z), Len(Append(s, ch))), Append(s, ch))
<1>1. PICK n \in Nat : n = Len(s)
  BY LenProperties
<1>2. z \in Decoder /\ z.n = n
  BY <1>1, At0Is
<1>3. PICK w : w = MetaAfter(c, z)
  OBVIOUS
<1>4. ASSUME ch = NoKey PROVE Decoded(Append(V, c), a, At0(e, w, n), s)
  <2>1. Made(c, z) = 0
    BY <1>4 DEF Made
  <2>2. After(z, c) = [ext |-> e, meta |-> w, n |-> n]
    BY <1>2, <1>3, <2>1 DEF After
  <2>3. Yields(z, c, s)
    BY <2>1 DEF Yields
  <2> QED BY <2>2, <2>3, DecodedMore DEF At0
<1>5. ASSUME ch # NoKey
      PROVE  ch \in AnyKey /\ Decoded(Append(V, c), a, At0(e, w, Len(Append(s, ch))), Append(s, ch))
  <2>1. Made(c, z) = 1
    BY <1>5 DEF Made
  <2>2. ch \in AnyKey
    BY <1>5 DEF KeyIn, AnyKey
  <2>3. PICK t : t = Append(s, ch)
    OBVIOUS
  <2>4. Len(t) = n + 1 /\ t[n + 1] = ch
    BY <1>1, <2>2, <2>3, AppendProperties
  <2>5. Decoded(V, a, z, t)
    BY <2>2, <2>3, DecodedLonger
  <2>6. Yields(z, c, t)
    BY <1>2, <2>4 DEF Yields
  <2>7. After(z, c) = [ext |-> e, meta |-> w, n |-> n + 1]
    BY <1>2, <1>3, <2>1 DEF After
  <2>8. Decoded(Append(V, c), a, At0(e, w, n + 1), t)
    BY <2>5, <2>6, <2>7, DecodedMore DEF At0
  <2> QED BY <2>2, <2>3, <2>4, <2>8
<1> QED BY <1>1, <1>3, <1>4, <1>5

LEMMA TwoElements ==
  ASSUME NEW S, NEW v \in Seq(S), NEW c \in S, NEW d \in S
  PROVE  /\ v \o <<c>> = Append(v, c)
         /\ v \o <<c, d>> = Append(Append(v, c), d)
OBVIOUS

\* The code of a key that tells what it is.
KeyCode(k, up) == [key |-> IF k = "up" THEN "kp8" ELSE k, up |-> up]

\* The codes of a key, and what the decoder makes of them.
KeyComing(k, up, V, a, s, m, b, x, c, ch) ==
    /\ Decoded(V, a, At0(FALSE, m, Len(s)), s)
    /\ b <=> k = "up"
    /\ x = At0(b, m, Len(s)) /\ c = KeyCode(k, up) /\ ch = KeyIn(c, x)

KeyCame(k, up, V, a, s, x, c, ch) ==
    /\ ch = NoKey => Decoded(V \o Codes(k, up), a, At0(FALSE, MetaAfter(c, x), Len(s)), s)
    /\ ch # NoKey =>
          /\ ch \in AnyKey
          /\ Decoded(V \o Codes(k, up), a,
                     At0(FALSE, MetaAfter(c, x), Len(Append(s, ch))), Append(s, ch))

LEMMA KeyComes ==
  ASSUME NEW k \in Keys, NEW up \in BOOLEAN, NEW V \in Seq(Code), NEW a,
         NEW s \in Seq(AnyKey), NEW m \in SUBSET MetaKey, NEW b \in BOOLEAN,
         NEW x \in Decoder, NEW c \in Code, NEW ch,
         KeyComing(k, up, V, a, s, m, b, x, c, ch)
  PROVE  KeyCame(k, up, V, a, s, x, c, ch)
<1> USE DEF KeyCame
<1> /\ Decoded(V, a, At0(FALSE, m, Len(s)), s) /\ (b <=> k = "up")
    /\ x = At0(b, m, Len(s)) /\ c = KeyCode(k, up) /\ ch = KeyIn(c, x)
  BY DEF KeyComing
<1>1. k \in {"a", "kp8", "up", "shift", "num", "f1"}
  BY ConsoleAssumption
<1>2. PICK e \in BOOLEAN : e = FALSE /\ (e <=> c.key = "E0")
  BY <1>1 DEF KeyCode
<1>3. CASE k # "up"
  <2>1. Codes(k, up) = <<c>>
    BY <1>3 DEF Codes, KeyCode
  <2>2. x = At0(FALSE, m, Len(s))
    <3>1. b = FALSE
      BY <1>3
    <3> QED BY <3>1
  <2>3. V \o Codes(k, up) = Append(V, c)
    BY <2>1, TwoElements
  <2>4. Decoded(V, a, x, s)
    BY <2>2
  <2>5. /\ ch = NoKey => Decoded(Append(V, c), a, At0(e, MetaAfter(c, x), Len(s)), s)
        /\ ch # NoKey => /\ ch \in AnyKey
                         /\ Decoded(Append(V, c), a,
                              At0(e, MetaAfter(c, x), Len(Append(s, ch))), Append(s, ch))
    BY <1>2, <2>4, CodeComes
  <2> QED BY <1>2, <2>3, <2>5
<1>4. CASE k = "up"
  <2>1. PICK d \in Code : d = [key |-> "E0", up |-> FALSE]
    <3>1. [key |-> "E0", up |-> FALSE] \in Code
      BY DEF Code, CodeKey
    <3> QED BY <3>1
  <2>2. Codes(k, up) = <<d, c>>
    BY <1>4, <2>1 DEF Codes, KeyCode
  <2>3. V \o Codes(k, up) = Append(Append(V, d), c)
    BY <2>2, TwoElements
  <2>4. b = TRUE
    BY <1>4
  <2>5. Append(V, d) \in Seq(Code)
    BY AppendProperties
  <2>6. PICK z : z = At0(FALSE, m, Len(s))
    OBVIOUS
  <2>7. KeyIn(d, z) = NoKey /\ MetaAfter(d, z) = m /\ (b <=> d.key = "E0")
    <3>1. d.key = "E0" /\ d.up = FALSE
      BY <2>1
    <3>2. z.meta = m
      BY <2>6 DEF At0
    <3>3. KeyIn(d, z) = NoKey
      BY <3>1 DEF KeyIn
    <3>4. MetaAfter(d, z) = m
      BY <3>1, <3>2 DEF MetaAfter, MetaKey
    <3> QED BY <1>4, <3>1, <3>3, <3>4
  <2>8. Decoded(Append(V, d), a, x, s)
    <3>1. Decoded(V, a, z, s)
      BY <2>6
    <3>2. PICK k0 : k0 = KeyIn(d, z)
      OBVIOUS
    <3>3. k0 = NoKey => Decoded(Append(V, d), a, At0(b, MetaAfter(d, z), Len(s)), s)
      BY <2>6, <2>7, <3>1, <3>2, CodeComes
    <3> QED BY <2>7, <3>2, <3>3
  <2>9. PICK U \in Seq(Code) : U = Append(V, d)
    BY <2>5
  <2>10. Decoded(U, a, x, s)
    BY <2>8, <2>9
  <2>11. /\ ch = NoKey => Decoded(Append(U, c), a, At0(e, MetaAfter(c, x), Len(s)), s)
         /\ ch # NoKey => /\ ch \in AnyKey
                          /\ Decoded(Append(U, c), a,
                               At0(e, MetaAfter(c, x), Len(Append(s, ch))), Append(s, ch))
    BY <1>2, <2>10, CodeComes
  <2> QED BY <1>2, <2>3, <2>9, <2>11
<1> QED BY <1>3, <1>4

\* The flags that the decoder will have are those of the keyboard.
LEMMA PressMeans ==
  ASSUME NEW k \in Keys, Press(k), locked \in BOOLEAN,
         NEW b \in BOOLEAN, b <=> k = "up",
         NEW n \in Nat, NEW x, x = At0(b, KeyMeta, n),
         NEW c, c = KeyCode(k, FALSE)
  PROVE  /\ c \in Code
         /\ MetaAfter(c, x) = KeyMeta' /\ locked' \in BOOLEAN
         /\ KeyIn(c, x) = NoKey => Means(k) = <<>>
         /\ KeyIn(c, x) # NoKey => Means(k) = <<KeyIn(c, x)>>
<1>1. k \in {"a", "kp8", "up", "shift", "num", "f1"}
  BY ConsoleAssumption
<1>2. x.ext = b /\ x.meta = KeyMeta
  BY DEF At0
<1>3. ("shift" \in KeyMeta <=> "shift" \in down) /\ ("num" \in KeyMeta <=> locked)
  BY DEF KeyMeta
<1>4. c \in Code
  BY <1>1 DEF Code, CodeKey, KeyCode
<1>5. /\ down' = down \cup {k}
      /\ locked' = IF k = "num" THEN ~ locked ELSE locked
  BY DEF Press
<1>6. MetaAfter(c, x) = KeyMeta'
  <2>1. CASE k = "num"
    <3>1. KeyMeta' = (KeyMeta \ {"num"}) \cup ({"num"} \ KeyMeta)
      BY <1>5, <2>1 DEF KeyMeta
    <3>2. c.key = "num" /\ ~ x.ext /\ ~ c.up
      BY <1>2, <2>1 DEF KeyCode
    <3>3. MetaAfter(c, x) = (KeyMeta \ {"num"}) \cup ({"num"} \ KeyMeta)
      BY <1>2, <3>2 DEF MetaAfter, MetaKey
    <3> QED BY <3>1, <3>3
  <2>2. CASE k = "shift"
    <3>1. KeyMeta' = KeyMeta \cup {"shift"}
      BY <1>5, <2>2 DEF KeyMeta
    <3>2. c.key = "shift" /\ ~ x.ext /\ ~ c.up
      BY <1>2, <2>2 DEF KeyCode
    <3>3. MetaAfter(c, x) = KeyMeta \cup {"shift"}
      BY <1>2, <3>2 DEF MetaAfter, MetaKey
    <3> QED BY <3>1, <3>3
  <2>3. CASE k \notin {"num", "shift"}
    <3>1. KeyMeta' = KeyMeta
      BY <1>5, <2>3 DEF KeyMeta
    <3>2. c.key \notin MetaKey
      BY <1>1, <2>3 DEF MetaKey, KeyCode
    <3> QED BY <1>2, <3>1, <3>2 DEF MetaAfter
  <2> QED BY <2>1, <2>2, <2>3
<1>7. /\ KeyIn(c, x) = NoKey => Means(k) = <<>>
      /\ KeyIn(c, x) # NoKey => Means(k) = <<KeyIn(c, x)>>
  <2>1. CASE k = "a"
    <3>1. c.key = "a" /\ ~ x.ext /\ ~ c.up
      BY <1>2, <2>1 DEF KeyCode
    <3>2. KeyIn(c, x) = IF "shift" \in down THEN "A" ELSE "a"
      BY <1>2, <1>3, <3>1 DEF KeyIn
    <3> QED BY <2>1, <3>2 DEF Means, NoKey
  <2>2. CASE k = "kp8"
    <3>1. c.key = "kp8" /\ ~ x.ext /\ ~ c.up
      BY <1>2, <2>2 DEF KeyCode
    <3>2. KeyIn(c, x) = IF locked THEN "8" ELSE "UP"
      BY <1>2, <1>3, <3>1 DEF KeyIn
    <3> QED BY <2>2, <3>2 DEF Means, NoKey
  <2>3. CASE k = "up"
    <3>1. c.key = "kp8" /\ x.ext /\ ~ c.up
      BY <1>2, <2>3 DEF KeyCode
    <3>2. KeyIn(c, x) = "UP"
      BY <3>1 DEF KeyIn
    <3> QED BY <2>3, <3>2 DEF Means, NoKey
  <2>4. CASE k \in {"shift", "num", "f1"}
    <3>1. c.key = k /\ ~ c.up
      BY <2>4 DEF KeyCode
    <3>2. KeyIn(c, x) = NoKey
      BY <2>4, <3>1 DEF KeyIn
    <3> QED BY <2>4, <3>2 DEF Means
  <2> QED BY <1>1, <2>1, <2>2, <2>3, <2>4
<1>8. locked' \in BOOLEAN
  BY <1>5
<1> QED BY <1>4, <1>6, <1>7, <1>8

LEMMA ReleaseMeans ==
  ASSUME NEW k \in Keys, Release(k), locked \in BOOLEAN,
         NEW b \in BOOLEAN, b <=> k = "up",
         NEW n \in Nat, NEW x, x = At0(b, KeyMeta, n),
         NEW c, c = KeyCode(k, TRUE)
  PROVE  /\ c \in Code
         /\ MetaAfter(c, x) = KeyMeta' /\ KeyIn(c, x) = NoKey
<1>1. k \in {"a", "kp8", "up", "shift", "num", "f1"}
  BY ConsoleAssumption
<1>2. x.ext = b /\ x.meta = KeyMeta
  BY DEF At0
<1>3. c \in Code /\ c.up = TRUE
  BY <1>1 DEF Code, CodeKey, KeyCode
<1>4. down' = down \ {k} /\ locked' = locked
  BY DEF Release
<1>5. KeyIn(c, x) = NoKey
  BY <1>3 DEF KeyIn
<1>6. CASE k = "shift"
  <2>1. KeyMeta' = KeyMeta \ {"shift"}
    BY <1>4, <1>6 DEF KeyMeta
  <2>2. c.key = "shift" /\ ~ x.ext
    BY <1>2, <1>6 DEF KeyCode
  <2>3. MetaAfter(c, x) = KeyMeta \ {"shift"}
    BY <1>2, <1>3, <2>2 DEF MetaAfter, MetaKey
  <2> QED BY <1>3, <1>5, <2>1, <2>3
<1>7. CASE k # "shift"
  <2>1. KeyMeta' = KeyMeta
    BY <1>4, <1>7 DEF KeyMeta
  <2>2. c.key \notin MetaKey \/ c.key = "num"
    BY <1>1, <1>7 DEF MetaKey, KeyCode
  <2>3. MetaAfter(c, x) = KeyMeta
    BY <1>2, <1>3, <2>2 DEF MetaAfter
  <2> QED BY <1>3, <1>5, <2>1, <2>3
<1> QED BY <1>6, <1>7

\* What KeyInv says, and what shows it.
LEMMA KeyboardSteps ==
  ASSUME NEW r, Reader = {r}, KeyInv(r), NEW k \in Keys, Press(k) \/ Release(k)
  PROVE  KeyInv(r)'
<1>1. PICK x \in ReaderState : x = rd[r]
  BY DEF KeyInv, ConTypes
<1>2. /\ scqueue \in Seq(Code) /\ typed \in Seq(AnyKey) /\ kq \in KeyRing
      /\ prefix \in BOOLEAN /\ meta \in SUBSET MetaKey /\ locked \in BOOLEAN
      /\ Keeps(kq, x, typed) /\ Sleeping
  BY <1>1 DEF KeyInv, ConTypes
<1>3. sending = <<>> /\ UNCHANGED <<scqueue, kq, prefix, meta, con_readers, rd>>
  BY DEF Press, Release
<1>4. PICK a : a = At0(prefix, meta, Coming(kq, x))
  OBVIOUS
<1>5. PICK V \in Seq(Code) : V = Held(x) \o scqueue
  BY <1>2, HeldIs
<1>6. Undecoded(x, scqueue, sending) = V
  <2>1. V \o <<>> = V
    BY ConcatEmptySeq
  <2> QED BY <1>3, <1>5, <2>1 DEF Undecoded
<1>7. PICK n \in Nat : n = Len(typed)
  BY <1>2, LenProperties
<1>8. PICK m \in SUBSET MetaKey : m = KeyMeta
  BY DEF KeyMeta, MetaKey
<1>9. Decoded(V, a, At0(FALSE, m, Len(typed)), typed)
  BY <1>1, <1>4, <1>6, <1>8 DEF KeyInv
<1>10. PICK b \in BOOLEAN : b <=> k = "up"
  OBVIOUS
<1>11. PICK z \in Decoder : z = At0(b, m, Len(typed))
  BY <1>7, At0Is
<1>12. PICK f \in BOOLEAN : (f = FALSE /\ Press(k)) \/ (f = TRUE /\ Release(k))
  OBVIOUS
<1>13. PICK c : c = KeyCode(k, f)
  OBVIOUS
<1>14. /\ c \in Code /\ MetaAfter(c, z) = KeyMeta'
       /\ sending' = Codes(k, f) /\ locked' \in BOOLEAN
       /\ KeyIn(c, z) = NoKey => typed' = typed
       /\ KeyIn(c, z) # NoKey => typed' = Append(typed, KeyIn(c, z))
  <2>1. CASE f = FALSE /\ Press(k)
    <3>1. Press(k)
      BY <2>1
    <3>2. c = KeyCode(k, FALSE)
      BY <1>13, <2>1
    <3>3. z = At0(b, KeyMeta, n)
      BY <1>7, <1>8, <1>11
    <3> DEFINE w == At0(b, KeyMeta, n)
    <3>9. locked \in BOOLEAN /\ (b <=> k = "up")
      BY <1>2, <1>10
    <3>8. /\ c \in Code
          /\ MetaAfter(c, w) = KeyMeta' /\ locked' \in BOOLEAN
          /\ KeyIn(c, w) = NoKey => Means(k) = <<>>
          /\ KeyIn(c, w) # NoKey => Means(k) = <<KeyIn(c, w)>>
      BY <3>1, <3>2, <3>9, PressMeans, Zenon
    <3>4. /\ c \in Code
          /\ MetaAfter(c, z) = KeyMeta' /\ locked' \in BOOLEAN
          /\ KeyIn(c, z) = NoKey => Means(k) = <<>>
          /\ KeyIn(c, z) # NoKey => Means(k) = <<KeyIn(c, z)>>
      BY <3>3, <3>8, Zenon
    <3>5. typed' = typed \o Means(k) /\ sending' = Codes(k, FALSE)
      BY <3>1 DEF Press
    <3>6. PICK ch : ch = KeyIn(c, z)
      OBVIOUS
    <3>7. typed \o <<>> = typed /\ typed \o <<ch>> = Append(typed, ch)
      BY <1>2, ConcatEmptySeq
    <3> QED BY <2>1, <3>4, <3>5, <3>6, <3>7
  <2>2. CASE f = TRUE /\ Release(k)
    <3>1. Release(k)
      BY <2>2
    <3>2. c = KeyCode(k, TRUE)
      BY <1>13, <2>2
    <3>3. z = At0(b, KeyMeta, n)
      BY <1>7, <1>8, <1>11
    <3>4. c \in Code /\ MetaAfter(c, z) = KeyMeta' /\ KeyIn(c, z) = NoKey
      <4>1. locked \in BOOLEAN /\ (b <=> k = "up")
        BY <1>2, <1>10
      <4>2. c \in Code /\ MetaAfter(c, z) = KeyMeta' /\ KeyIn(c, z) = NoKey
        BY <3>1, <3>2, <3>3, <4>1, ReleaseMeans, Zenon
      <4> QED BY <4>2
    <3>5. typed' = typed /\ sending' = Codes(k, TRUE) /\ locked' = locked
      BY <3>1 DEF Release
    <3> QED BY <1>2, <2>2, <3>4, <3>5
  <2> QED BY <1>12, <2>1, <2>2
<1>15. PICK ch : ch = KeyIn(c, z)
  OBVIOUS
<1>16. /\ ch = NoKey => Decoded(V \o Codes(k, f), a,
                                At0(FALSE, MetaAfter(c, z), Len(typed)), typed)
       /\ ch # NoKey =>
             /\ ch \in AnyKey
             /\ Decoded(V \o Codes(k, f), a,
                  At0(FALSE, MetaAfter(c, z), Len(Append(typed, ch))), Append(typed, ch))
  <2>1. PICK s \in Seq(AnyKey) : s = typed
    BY <1>2
  <2>2. Decoded(V, a, At0(FALSE, m, Len(s)), s) /\ z = At0(b, m, Len(s)) /\ c \in Code
    BY <1>9, <1>11, <1>14, <2>1
  <2>3. /\ ch = NoKey => Decoded(V \o Codes(k, f), a,
                                 At0(FALSE, MetaAfter(c, z), Len(s)), s)
        /\ ch # NoKey =>
              /\ ch \in AnyKey
              /\ Decoded(V \o Codes(k, f), a,
                   At0(FALSE, MetaAfter(c, z), Len(Append(s, ch))), Append(s, ch))
    <3>1. KeyComing(k, f, V, a, s, m, b, z, c, ch) /\ c \in Code
      BY <1>10, <1>13, <1>15, <2>2 DEF KeyComing
    <3>2. KeyCame(k, f, V, a, s, z, c, ch)
      BY <3>1, KeyComes
    <3> QED BY <3>2 DEF KeyCame
  <2> QED BY <2>1, <2>3
<1>17. typed' \in Seq(AnyKey) /\ Keeps(kq, x, typed')
       /\ Decoded(V \o sending', a, At0(FALSE, KeyMeta', Len(typed')), typed')
  <2>1. CASE ch = NoKey
    BY <1>2, <1>14, <1>15, <1>16, <2>1
  <2>2. CASE ch # NoKey
    <3>1. ch \in AnyKey /\ typed' = Append(typed, ch)
      BY <1>14, <1>15, <1>16, <2>2
    <3>2. Keeps(kq, x, Append(typed, ch)) /\ Append(typed, ch) \in Seq(AnyKey)
      BY <1>2, <3>1, KeepsLonger, AppendProperties
    <3> QED BY <1>14, <1>16, <2>2, <3>1, <3>2
  <2> QED BY <2>1, <2>2
<1>18. /\ sending' \in Seq(Code) /\ Len(sending') <= 2
       /\ IsDebug(Head(sending')) => Len(sending') = 1
  <2>1. CASE k # "up"
    <3>1. sending' = <<c>>
      BY <1>13, <1>14, <2>1 DEF Codes, KeyCode
    <3> QED BY <1>14, <3>1, OneElement
  <2>2. CASE k = "up"
    <3>1. PICK d \in Code : d = [key |-> "E0", up |-> FALSE]
      <4>1. [key |-> "E0", up |-> FALSE] \in Code
        BY DEF Code, CodeKey
      <4> QED BY <4>1
    <3>2. sending' = <<d, c>>
      BY <1>13, <1>14, <2>2, <3>1 DEF Codes, KeyCode
    <3>3. sending' \in Seq(Code) /\ Head(sending') = d /\ Len(sending') = 2
      BY <1>14, <3>2
    <3>4. ~ IsDebug(d)
      BY <3>1 DEF IsDebug
    <3> QED BY <3>3, <3>4
  <2> QED BY <2>1, <2>2
<1>19. ConTypes' /\ Sleeping' /\ Single'
  BY <1>3, <1>14, <1>17, <1>18 DEF KeyInv, ConTypes, Sleeping, Single
<1>20. Undecoded(x, scqueue', sending') = V \o sending'
  BY <1>3, <1>5 DEF Undecoded
<1>21. rd'[r] = x /\ kq' = kq /\ prefix' = prefix /\ meta' = meta
  BY <1>1, <1>3
<1> QED BY <1>4, <1>17, <1>19, <1>20, <1>21 DEF KeyInv

-----------------------------------------------------------------------------
(* The interrupt.                                                          *)

\* Nobody but r is woken, and only if it sleeps.
LEMMA Awakes ==
  ASSUME NEW r, Reader = {r}, rd \in [Reader -> ReaderState], Sleeping,
         con_readers \in Seq(Reader)
  PROVE  /\ ConAwakened \in [Reader -> ReaderState]
         /\ \/ ConAwakened[r] = rd[r]
            \/ rd[r].at \in Idle /\ ConAwakened[r].at \in Idle
<1>1. PICK x \in ReaderState : x = rd[r]
  OBVIOUS
<1>2. PICK y : y = ConAwakened[r]
  OBVIOUS
<1>3. r \in Range(con_readers) => x.at = "blocked"
  <2>1. DOMAIN con_readers = 1 .. Len(con_readers)
    BY LenProperties
  <2>2. ASSUME NEW i \in DOMAIN con_readers, con_readers[i] = r PROVE x.at = "blocked"
    BY <1>1, <2>1, <2>2 DEF Sleeping
  <2> QED BY <2>2 DEF Range
<1>4. y = IF r \in Range(con_readers) THEN [x EXCEPT !.at = "scan"] ELSE x
  BY <1>1, <1>2 DEF ConAwakened
<1>5. CASE r \in Range(con_readers)
  <2>1. y = [x EXCEPT !.at = "scan"]
    BY <1>4, <1>5
  <2>2. y \in ReaderState /\ y.at = "scan"
    BY <2>1 DEF ReaderState, Where
  <2>3. ConAwakened = [t \in Reader |-> y]
    BY <1>2 DEF ConAwakened
  <2> QED BY <1>1, <1>2, <1>3, <1>5, <2>2, <2>3 DEF Idle
<1>6. CASE r \notin Range(con_readers)
  <2>1. y = x
    BY <1>4, <1>6
  <2>2. ConAwakened = [t \in Reader |-> y]
    BY <1>2 DEF ConAwakened
  <2> QED BY <1>1, <1>2, <2>1, <2>2
<1> QED BY <1>5, <1>6

LEMMA QueuesSteps ==
  ASSUME NEW r, Reader = {r}, KeyInv(r), NEW n \in 1 .. Len(sending), kbd_intr_queues(n)
  PROVE  KeyInv(r)'
<1>1. PICK x \in ReaderState : x = rd[r]
  BY DEF KeyInv, ConTypes
<1>2. /\ scqueue \in Seq(Code) /\ sending \in Seq(Code) /\ typed \in Seq(AnyKey)
      /\ rd \in [Reader -> ReaderState] /\ con_readers \in Seq(Reader)
      /\ Keeps(kq, x, typed) /\ Sleeping /\ Len(sending) <= 2 /\ Len(sending) \in Nat
  BY <1>1, LenProperties DEF KeyInv, ConTypes, Single
<1>3. PICK codes : codes = SubSeq(sending, 1, n)
  OBVIOUS
<1>4. codes \in Seq(Code)
  <2>1. \A i \in 1 .. n : sending[i] \in Code
    BY <1>2, ElementOfSeq
  <2> QED BY <1>2, <1>3, <2>1, SubSeqProperties
<1>5. /\ scqueue' = scqueue \o codes
      /\ sending' = SubSeq(sending, n + 1, Len(sending))
      /\ UNCHANGED <<kq, prefix, meta, down, locked, typed>>
      /\ \/ con_readers' = <<>> /\ rd' = ConAwakened
         \/ UNCHANGED <<con_readers, rd>>
  BY <1>3 DEF kbd_intr_queues
<1>6. sending' \in Seq(Code) /\ Len(sending') <= 1
  <2>1. \A i \in n + 1 .. Len(sending) : sending[i] \in Code
    BY <1>2, ElementOfSeq
  <2>2. PICK m \in Int : m = n + 1
    BY <1>2
  <2>3. /\ SubSeq(sending, m, Len(sending)) \in Seq(Code)
        /\ Len(SubSeq(sending, m, Len(sending))) =
                IF m <= Len(sending) THEN Len(sending) - m + 1 ELSE 0
    BY <1>2, <2>1, <2>2, SubSeqProperties
  <2> QED BY <1>2, <1>5, <2>2, <2>3
<1>7. Single'
  <2>1. sending' # <<>> => Len(sending') = 1
    <3>1. Len(sending') \in Nat /\ (sending' # <<>> => Len(sending') # 0)
      BY <1>6, LenProperties, EmptySeq
    <3> QED BY <1>6, <3>1
  <2> QED BY <1>6, <2>1 DEF Single
<1>8. scqueue' \in Seq(Code)
  BY <1>2, <1>4, <1>5, ConcatProperties
<1>9. Undecoded(x, scqueue', sending') = Undecoded(x, scqueue, sending)
  <2>1. n \in 0 .. Len(sending)
    BY <1>2
  <2> QED BY <1>2, <1>3, <1>5, <2>1, HandedOn
<1>10. PICK y \in ReaderState : /\ y = rd'[r] /\ rd' \in [Reader -> ReaderState]
                                /\ y = x \/ (x.at \in Idle /\ y.at \in Idle)
  BY <1>1, <1>2, <1>5, Awakes
<1>11. /\ Keeps(kq, y, typed) /\ Coming(kq, y) = Coming(kq, x)
       /\ Undecoded(y, scqueue', sending') = Undecoded(x, scqueue', sending')
  <2>1. CASE y = x
    BY <1>2, <2>1
  <2>2. CASE x.at \in Idle /\ y.at \in Idle
    BY <1>2, <2>2, IdleSame
  <2> QED BY <1>10, <2>1, <2>2
<1>12. ConTypes'
  <2>1. con_readers' \in Seq(Reader)
    <3>1. con_readers' = <<>> \/ con_readers' = con_readers
      BY <1>5
    <3> QED BY <1>2, <3>1, EmptySeq
  <2>2. kq \in KeyRing /\ prefix \in BOOLEAN /\ meta \in SUBSET MetaKey /\ locked \in BOOLEAN
    BY DEF KeyInv, ConTypes
  <2>3. kq' = kq /\ prefix' = prefix /\ meta' = meta /\ locked' = locked /\ typed' = typed
    BY <1>5
  <2>4. rd' \in [Reader -> ReaderState]
    BY <1>10
  <2> QED BY <1>2, <1>6, <1>8, <2>1, <2>2, <2>3, <2>4 DEF ConTypes
<1>13. Sleeping'
  <2>1. CASE con_readers' = <<>>
    BY <2>1, EmptySeq DEF Sleeping
  <2>2. CASE UNCHANGED <<con_readers, rd>>
    BY <1>2, <2>2 DEF Sleeping
  <2> QED BY <1>5, <2>1, <2>2
<1>14. KeyMeta' = KeyMeta
  BY <1>5 DEF KeyMeta
<1>15. Decoded(Undecoded(x, scqueue, sending), At0(prefix, meta, Coming(kq, x)),
               At0(FALSE, KeyMeta, Len(typed)), typed)
  BY <1>1 DEF KeyInv
<1>16. rd'[r] = y /\ kq' = kq /\ prefix' = prefix /\ meta' = meta /\ typed' = typed
  BY <1>5, <1>10
<1>17. Decoded(Undecoded(y, scqueue', sending'), At0(prefix, meta, Coming(kq, y)),
               At0(FALSE, KeyMeta', Len(typed)), typed)
  BY <1>9, <1>11, <1>14, <1>15
<1> QED BY <1>7, <1>11, <1>12, <1>13, <1>16, <1>17 DEF KeyInv

LEMMA DebugSteps ==
  ASSUME NEW r, Reader = {r}, KeyInv(r), sending # <<>>, kbd_intr_debug, ~ spoiled'
  PROVE  KeyInv(r)'
<1>1. PICK x \in ReaderState : x = rd[r]
  BY DEF KeyInv, ConTypes
<1>2. /\ scqueue \in Seq(Code) /\ sending \in Seq(Code) /\ typed \in Seq(AnyKey)
      /\ kq \in KeyRing /\ prefix \in BOOLEAN /\ meta \in SUBSET MetaKey
      /\ rd \in [Reader -> ReaderState] /\ con_readers \in Seq(Reader)
      /\ Sleeping /\ Len(sending) = 1
  BY <1>1 DEF KeyInv, ConTypes, Single, kbd_intr_debug
<1>3. /\ sending' = Tail(sending) /\ scqueue' = <<>> /\ typed' = <<>>
      /\ kq' = [kq EXCEPT !.head = 0, !.tail = 0]
      /\ UNCHANGED <<prefix, meta, con_readers, rd, down, locked>>
  BY DEF kbd_intr_debug
<1>4. /\ ~ prefix /\ \A c \in Range(scqueue) : c.key \notin {"shift", "num"}
      /\ x.at \notin {"descan", "store", "stored", "taken"}
  BY <1>1 DEF kbd_intr_debug
<1>5. prefix = FALSE
  BY <1>2, <1>4
<1>6. sending' = <<>>
  <2>1. Tail(sending) \in Seq(Code) /\ Len(Tail(sending)) = Len(sending) - 1
    BY <1>2, HeadTailProperties
  <2> QED BY <1>2, <1>3, <2>1, EmptySeq
<1>7. PICK q \in KeyRing : q = kq' /\ Full(q) = 0
  <2>1. 0 \in Spot
    BY ConSizesAre DEF Spot
  <2>2. kq' \in KeyRing /\ kq'.head = 0 /\ kq'.tail = 0
    BY <1>2, <1>3, <2>1 DEF KeyRing
  <2> QED BY <2>2 DEF Full, Span
<1>8. Keeps(q, x, typed')
  BY <1>3, <1>4, <1>7, EmptySeq DEF Keeps
<1>9. Coming(q, x) = 0 /\ Len(typed') = 0
  BY <1>3, <1>4, <1>7, EmptySeq DEF Coming
<1>10. Held(x) = <<>>
  BY <1>4 DEF Held
<1>11. Undecoded(x, scqueue', sending') = <<>>
  BY <1>3, <1>6, <1>10 DEF Undecoded
<1>12. PICK W \in Seq(Code) : W = Undecoded(x, scqueue, sending) /\ W = scqueue \o sending
  <2>1. <<>> \o scqueue = scqueue
    BY <1>2, ConcatEmptySeq
  <2>2. Undecoded(x, scqueue, sending) = scqueue \o sending
    BY <1>10, <2>1 DEF Undecoded
  <2> QED BY <1>2, <2>2, ConcatProperties
<1>13. ASSUME NEW i \in 1 .. Len(W) PROVE W[i].key \notin MetaKey
  <2>1. PICK l \in Nat : l = Len(scqueue)
    BY <1>2, LenProperties
  <2>2. Len(W) = l + 1 /\ W[i] = IF i <= l THEN scqueue[i] ELSE sending[i - l]
    <3>1. /\ Len(scqueue \o sending) = Len(scqueue) + Len(sending)
          /\ \A j \in 1 .. Len(scqueue) + Len(sending) :
                (scqueue \o sending)[j] =
                    IF j <= Len(scqueue) THEN scqueue[j] ELSE sending[j - Len(scqueue)]
      BY <1>2, ConcatProperties
    <3> QED BY <1>2, <1>12, <2>1, <3>1
  <2>3. CASE i <= l
    <3>1. i \in DOMAIN scqueue
      BY <1>2, <2>1, <2>3, LenProperties
    <3>2. scqueue[i] \in Range(scqueue)
      BY <3>1 DEF Range
    <3> QED BY <1>4, <2>2, <2>3, <3>2 DEF MetaKey
  <2>4. CASE ~ i <= l
    <3>1. i - l = 1
      BY <2>1, <2>2, <2>4
    <3>2. W[i] = sending[1]
      BY <2>2, <2>4, <3>1
    <3>3. Head(sending) = sending[1]
      BY <1>2, HeadAndTail
    <3>4. IsDebug(sending[1])
      BY <3>3 DEF kbd_intr_debug
    <3> QED BY <3>2, <3>4 DEF IsDebug, MetaKey
  <2> QED BY <2>3, <2>4
<1>14. meta = KeyMeta
  <2>1. Decoded(W, At0(prefix, meta, Coming(kq, x)), At0(FALSE, KeyMeta, Len(typed)), typed)
    BY <1>1, <1>12 DEF KeyInv
  <2>2. PICK a, z : /\ a = At0(prefix, meta, Coming(kq, x))
                    /\ z = At0(FALSE, KeyMeta, Len(typed))
    OBVIOUS
  <2>3. Decoded(W, a, z, typed)
    BY <2>1, <2>2
  <2>4. a.meta = z.meta
    BY <1>13, <2>3, DecodedEnds
  <2> QED BY <2>2, <2>4 DEF At0
<1>15. Decoded(<<>>, At0(FALSE, meta, 0), At0(FALSE, meta, 0), typed')
  <2>1. At0(FALSE, meta, 0) \in Decoder
    BY <1>2, At0Is
  <2> QED BY <2>1, DecodedNothing
<1>16. KeyMeta' = meta
  BY <1>3, <1>14 DEF KeyMeta
<1>17. ConTypes' /\ Sleeping' /\ Single'
  <2>1. ConTypes'
    BY <1>3, <1>6, <1>7 DEF KeyInv, ConTypes
  <2>2. Sleeping'
    BY <1>2, <1>3 DEF Sleeping
  <2>3. Single'
    BY <1>6, EmptySeq DEF Single
  <2> QED BY <2>1, <2>2, <2>3
<1> QED
  BY <1>1, <1>3, <1>5, <1>7, <1>8, <1>9, <1>11, <1>15, <1>16, <1>17 DEF KeyInv

-----------------------------------------------------------------------------
(* The reader.                                                             *)

\* A task that does not sleep is not in the queue.
LEMMA NobodySleeps ==
  ASSUME NEW r, Reader = {r}, KeyInv(r), rd[r].at # "blocked"
  PROVE  con_readers = <<>>
<1>1. con_readers \in Seq(Reader) /\ Len(con_readers) \in Nat
  BY LenProperties DEF KeyInv, ConTypes
<1>2. ASSUME Len(con_readers) # 0 PROVE FALSE
  <2>1. 1 \in 1 .. Len(con_readers)
    BY <1>1, <1>2
  <2>2. con_readers[1] = r
    BY <1>1, <2>1, ElementOfSeq
  <2> QED BY <2>1, <2>2 DEF KeyInv, Sleeping
<1> QED BY <1>1, <1>2, EmptySeq

LEMMA NoneSleeping ==
  ASSUME con_readers' = <<>>
  PROVE  Sleeping'
BY EmptySeq DEF Sleeping

\* A step of the reader that only moves it on.
LEMMA IdleSteps ==
  ASSUME NEW r, Reader = {r}, KeyInv(r), rd[r].at \in Idle,
         rd' \in [Reader -> ReaderState], rd'[r].at \in Idle,
         UNCHANGED <<scqueue, kq, prefix, meta, kbdvars, typed>>,
         con_readers' \in Seq(Reader), Sleeping'
  PROVE  KeyInv(r)'
<1>1. PICK x \in ReaderState, y \in ReaderState : x = rd[r] /\ y = rd'[r]
  BY DEF KeyInv, ConTypes
<1>2. /\ scqueue' = scqueue /\ kq' = kq /\ prefix' = prefix /\ meta' = meta
      /\ down' = down /\ locked' = locked /\ sending' = sending /\ typed' = typed
  BY DEF kbdvars
<1>3. Keeps(kq, x, typed)
  BY <1>1 DEF KeyInv
<1>4. /\ Keeps(kq, y, typed) /\ Coming(kq, y) = Coming(kq, x)
      /\ Undecoded(y, scqueue, sending) = Undecoded(x, scqueue, sending)
  BY <1>1, <1>3, IdleSame
<1>5. /\ scqueue \in Seq(Code) /\ sending \in Seq(Code) /\ typed \in Seq(AnyKey)
      /\ kq \in KeyRing /\ prefix \in BOOLEAN /\ meta \in SUBSET MetaKey
      /\ locked \in BOOLEAN
  BY DEF KeyInv, ConTypes
<1>6. ConTypes'
  BY <1>2, <1>5 DEF ConTypes
<1>7. Single'
  BY <1>2 DEF KeyInv, Single
<1>8. KeyMeta' = KeyMeta
  BY <1>2 DEF KeyMeta
<1>9. Decoded(Undecoded(y, scqueue, sending), At0(prefix, meta, Coming(kq, y)),
              At0(FALSE, KeyMeta, Len(typed)), typed)
  BY <1>1, <1>4 DEF KeyInv
<1> QED BY <1>1, <1>2, <1>4, <1>6, <1>7, <1>8, <1>9 DEF KeyInv

\* Every other step: what is left to show of it.
LEMMA ReaderSteps ==
  ASSUME NEW r, Reader = {r}, KeyInv(r), rd[r].at # "blocked",
         rd' \in [Reader -> ReaderState],
         scqueue' \in Seq(Code), kq' \in KeyRing, typed' \in Seq(AnyKey),
         prefix' \in BOOLEAN, meta' \in SUBSET MetaKey,
         UNCHANGED <<con_readers, kbdvars>>,
         Keeps(kq', rd'[r], typed'),
         Decoded(Undecoded(rd'[r], scqueue', sending),
                 At0(prefix', meta', Coming(kq', rd'[r])),
                 At0(FALSE, KeyMeta, Len(typed')), typed')
  PROVE  KeyInv(r)'
<1>1. /\ con_readers' = con_readers /\ down' = down /\ locked' = locked
      /\ sending' = sending
  BY DEF kbdvars
<1>2. con_readers' = <<>>
  BY <1>1, NobodySleeps
<1>3. sending \in Seq(Code) /\ locked \in BOOLEAN /\ con_readers \in Seq(Reader)
  BY DEF KeyInv, ConTypes
<1>4. ConTypes'
  BY <1>1, <1>3 DEF ConTypes
<1>5. Single'
  BY <1>1 DEF KeyInv, Single
<1>6. KeyMeta' = KeyMeta
  BY <1>1 DEF KeyMeta
<1> QED BY <1>1, <1>2, <1>4, <1>5, <1>6, NoneSleeping DEF KeyInv

LEMMA CodeSteps ==
  ASSUME NEW r, Reader = {r}, KeyInv(r), con_descan_all(r)
  PROVE  KeyInv(r)'
<1> r \in Reader
  OBVIOUS
<1>1. PICK x \in ReaderState : x = rd[r]
  BY DEF KeyInv, ConTypes
<1>2. /\ scqueue \in Seq(Code) /\ sending \in Seq(Code) /\ typed \in Seq(AnyKey)
      /\ kq \in KeyRing /\ prefix \in BOOLEAN /\ meta \in SUBSET MetaKey
      /\ rd \in [Reader -> ReaderState] /\ con_readers \in Seq(Reader)
      /\ Keeps(kq, x, typed) /\ x.at = "scan"
  BY <1>1 DEF KeyInv, ConTypes, con_descan_all
<1>3. con_readers = <<>>
  BY <1>1, <1>2, NobodySleeps
<1>4. CASE scqueue = <<>>
  <2>1. rd' = SetAt(rd, r, "check") /\ scqueue' = scqueue
    BY <1>4 DEF con_descan_all, At, SetAt
  <2>2. rd' \in [Reader -> ReaderState] /\ rd'[r].at = "check"
    <3>1. "check" \in Where
      BY DEF Where
    <3> QED BY <1>2, <2>1, <3>1, AtSet
  <2>3. UNCHANGED <<scqueue, kq, prefix, meta, kbdvars, typed>> /\ con_readers' = con_readers
    BY <2>1 DEF con_descan_all
  <2>4. Sleeping'
    BY <1>3, <2>3, NoneSleeping
  <2> QED BY <1>1, <1>2, <2>2, <2>3, <2>4, IdleSteps DEF Idle
<1>5. CASE scqueue # <<>>
  <2>1. PICK c \in Code : c = Head(scqueue)
    BY <1>2, <1>5, HeadTailProperties
  <2>2. PICK f : f = SetAt(rd, r, "descan")
    OBVIOUS
  <2>3. f \in [Reader -> ReaderState] /\ f[r].at = "descan"
    <3>1. "descan" \in Where
      BY DEF Where
    <3> QED BY <1>2, <2>2, <3>1, AtSet
  <2>4. rd' = SetCode(f, r, c)
    BY <1>5, <2>1, <2>2 DEF con_descan_all, SetAt, SetCode
  <2>5. PICK y \in ReaderState : y = rd'[r] /\ rd' \in [Reader -> ReaderState]
                                 /\ y.at = "descan" /\ y.sc = c
    BY <2>3, <2>4, CodeSet
  <2>6. scqueue' = Tail(scqueue) /\ scqueue' \in Seq(Code)
    <3>1. scqueue' = Tail(scqueue)
      BY <1>5 DEF con_descan_all
    <3> QED BY <1>2, <1>5, <3>1, HeadTailProperties
  <2>7. Undecoded(y, scqueue', sending) = Undecoded(x, scqueue, sending)
    BY <1>2, <1>5, <2>1, <2>5, <2>6, TakenCode
  <2>8. UNCHANGED <<kq, prefix, meta, con_readers, kbdvars, typed>>
    BY DEF con_descan_all
  <2>9. Coming(kq, y) = Coming(kq, x) /\ Keeps(kq, y, typed)
    BY <1>2, <2>5 DEF Coming, Keeps
  <2>10. Decoded(Undecoded(x, scqueue, sending), At0(prefix, meta, Coming(kq, x)),
                 At0(FALSE, KeyMeta, Len(typed)), typed)
    BY <1>1 DEF KeyInv
  <2>11. /\ kq' = kq /\ prefix' = prefix /\ meta' = meta /\ typed' = typed
         /\ x.at # "blocked"
    BY <1>2, <2>8
  <2>12. Decoded(Undecoded(y, scqueue', sending), At0(prefix, meta, Coming(kq, y)),
                 At0(FALSE, KeyMeta, Len(typed)), typed)
    BY <2>7, <2>9, <2>10
  <2> QED
    BY <1>1, <1>2, <2>5, <2>6, <2>8, <2>9, <2>11, <2>12, ReaderSteps
<1> QED BY <1>4, <1>5

LEMMA DescanSteps ==
  ASSUME NEW r, Reader = {r}, KeyInv(r), con_descan(r), ~ spoiled'
  PROVE  KeyInv(r)'
<1> r \in Reader
  OBVIOUS
<1>1. PICK x \in ReaderState : x = rd[r]
  BY DEF KeyInv, ConTypes
<1>2. /\ scqueue \in Seq(Code) /\ sending \in Seq(Code) /\ typed \in Seq(AnyKey)
      /\ kq \in KeyRing /\ prefix \in BOOLEAN /\ meta \in SUBSET MetaKey
      /\ rd \in [Reader -> ReaderState]
      /\ Keeps(kq, x, typed) /\ x.at = "descan"
  BY <1>1 DEF KeyInv, ConTypes, con_descan
<1>3. ~ KeyQueueFull
  BY DEF con_descan
<1>4. Full(kq) + 1 < MAXQ
  BY <1>2, <1>3, RoomIs DEF KeyQueueFull
<1>5. PICK c \in Code : c = x.sc
  BY DEF ReaderState
<1>6. PICK n \in Nat : n = Full(kq) /\ n = Coming(kq, x)
  <2>1. Full(kq) \in Nat
    BY <1>2, FullIs, ConSizesAre
  <2> QED BY <1>2, <2>1 DEF Coming
<1>7. PICK a \in Decoder : /\ a = At0(prefix, meta, n) /\ a.ext = prefix
                           /\ a.meta = meta /\ a.n = n
  BY <1>2, At0Is
<1>8. PICK z : z = At0(FALSE, KeyMeta, Len(typed))
  OBVIOUS
<1>9. PICK W \in Seq(Code) : W = Undecoded(x, scqueue, sending)
  BY <1>2, HeldIs
<1>10. Decoded(W, a, z, typed)
  BY <1>1, <1>6, <1>7, <1>8, <1>9 DEF KeyInv
<1>11. PICK key : key = Key(c, prefix)
  OBVIOUS
<1>12. key = KeyIn(c, a) /\ key \in AnyKey
  <2>1. key = KeyIn(c, a)
    BY <1>7, <1>11, Zenon DEF Key, KeyIn
  <2> QED BY <2>1 DEF KeyIn, AnyKey
<1>13. /\ prefix' = IF c.key = "E0" THEN TRUE ELSE FALSE
       /\ meta' = IF c.key \in {"shift", "num"} /\ ~ prefix THEN NewMeta(c) ELSE meta
       /\ rd' = [rd EXCEPT ![r].at = IF key = NoKey THEN "scan" ELSE "store", ![r].by = key]
       /\ UNCHANGED <<scqueue, kq, con_readers, kbdvars, typed>>
  BY <1>1, <1>3, <1>5, <1>11 DEF con_descan, PrefixAfter
<1>14. meta' = MetaAfter(c, a)
  BY <1>7, <1>13, Zenon DEF MetaAfter, NewMeta, MetaKey
<1>15. PICK w \in Where : w = IF key = NoKey THEN "scan" ELSE "store"
  BY DEF Where
<1>16. PICK y \in ReaderState : /\ y = rd'[r] /\ rd' \in [Reader -> ReaderState]
                                /\ y.at = w /\ y.by = key
  <2>1. PICK f : f = SetAt(rd, r, w)
    OBVIOUS
  <2>2. f \in [Reader -> ReaderState] /\ f[r].at = w
    BY <1>2, <2>1, AtSet
  <2>3. rd' = SetKey(f, r, key)
    BY <1>13, <1>15, <2>1 DEF SetAt, SetKey
  <2>4. rd' \in [Reader -> ReaderState] /\ rd'[r].at = w /\ rd'[r].by = key
    <3>1. key \in AnyKey /\ f \in [Reader -> ReaderState] /\ f[r].at = w
      BY <1>12, <2>2
    <3>2. PICK g : g = SetKey(f, r, key)
      OBVIOUS
    <3>3. g \in [Reader -> ReaderState] /\ g[r].at = f[r].at /\ g[r].by = key
      BY <3>1, <3>2, KeySet
    <3> QED BY <2>3, <3>1, <3>2, <3>3
  <2> QED BY <2>4
<1>17. /\ W # <<>> /\ W[1] = c /\ Tail(W) = Undecoded(y, scqueue, sending)
  <2>1. y.at # "descan"
    BY <1>15, <1>16
  <2>2. PICK V : V = Undecoded(x, scqueue, sending)
    OBVIOUS
  <2>3. V # <<>> /\ V[1] = x.sc /\ Tail(V) = Undecoded(y, scqueue, sending)
    <3>1. scqueue \in Seq(Code) /\ sending \in Seq(Code) /\ x.at = "descan"
      BY <1>2
    <3>2. LET U == Undecoded(x, scqueue, sending) IN
          U # <<>> /\ U[1] = x.sc /\ Tail(U) = Undecoded(y, scqueue, sending)
      BY <2>1, <3>1, HeldFirst
    <3> QED BY <2>2, <3>2
  <2> QED BY <1>5, <1>9, <2>2, <2>3
<1>18. Yields(a, c, typed) /\ Decoded(Tail(W), After(a, c), z, typed)
  BY <1>10, <1>17, DecodedFirst
<1>19. PICK b : b = After(a, c)
  OBVIOUS
<1>20. b \in Decoder /\ b.n = n + Made(c, a)
  BY <1>7, <1>19, AfterIs
<1>21. Coming(kq, y) = n + Made(c, a)
  <2>1. CASE key = NoKey
    <3>1. y.at = "scan" /\ Made(c, a) = 0
      BY <1>12, <1>15, <1>16, <2>1 DEF Made
    <3> QED BY <1>6, <3>1 DEF Coming
  <2>2. CASE key # NoKey
    <3>1. y.at = "store" /\ Made(c, a) = 1
      BY <1>12, <1>15, <1>16, <2>2 DEF Made
    <3> QED BY <1>6, <3>1 DEF Coming
  <2> QED BY <2>1, <2>2
<1>22. b = At0(prefix', meta', Coming(kq, y))
  <2>1. PICK e \in BOOLEAN : e = (c.key = "E0")
    OBVIOUS
  <2>2. prefix' = e
    BY <1>13, <2>1
  <2>3. b = [ext |-> e, meta |-> MetaAfter(c, a), n |-> a.n + Made(c, a)]
    BY <1>19, <2>1 DEF After
  <2> QED BY <1>7, <1>14, <1>21, <2>2, <2>3 DEF At0
<1>23. Keeps(kq, y, typed)
  <2>1. CASE key = NoKey
    <3>1. y.at = "scan"
      BY <1>15, <1>16, <2>1
    <3> QED BY <1>2, <3>1 DEF Keeps
  <2>2. CASE key # NoKey
    <3>1. y.at = "store" /\ Made(c, a) = 1
      BY <1>12, <1>15, <1>16, <2>2 DEF Made
    <3>2. n + 1 \in 1 .. Len(typed) /\ typed[n + 1] = key
      BY <1>7, <1>12, <1>18, <3>1 DEF Yields
    <3>3. Len(typed) \in Nat
      BY <1>2, LenProperties
    <3>4. /\ Full(kq) <= Len(typed)
          /\ \A i \in 1 .. Full(kq) : kq.buf[Onward(MAXQ, kq.head, i - 1)] = typed[i]
      BY <1>2 DEF Keeps
    <3> QED BY <1>4, <1>6, <1>16, <3>1, <3>2, <3>3, <3>4 DEF Keeps
  <2> QED BY <2>1, <2>2
<1>24. prefix' \in BOOLEAN /\ meta' \in SUBSET MetaKey
  <2>1. b.ext = prefix' /\ b.meta = meta'
    BY <1>22 DEF At0
  <2> QED BY <1>20, <2>1 DEF Decoder
<1>25. /\ kq' = kq /\ scqueue' = scqueue /\ typed' = typed
       /\ UNCHANGED <<con_readers, kbdvars>>
  BY <1>13
<1>26. Decoded(Undecoded(y, scqueue, sending), At0(prefix', meta', Coming(kq, y)),
               At0(FALSE, KeyMeta, Len(typed)), typed)
  BY <1>8, <1>17, <1>18, <1>19, <1>22
<1>27. rd[r].at # "blocked"
  BY <1>1, <1>2
<1> QED
  BY <1>2, <1>16, <1>23, <1>24, <1>25, <1>26, <1>27, ReaderSteps

\* Codes held by readers that are not in the decoder, and rings.
LEMMA HoldsNone ==
  ASSUME NEW p, NEW k, NEW x \in ReaderState, NEW y \in ReaderState,
         x.at # "descan", y.at # "descan"
  PROVE  Undecoded(y, p, k) = Undecoded(x, p, k)
<1>1. Held(x) = Held(y)
  BY DEF Held
<1> QED BY <1>1 DEF Undecoded

PutIn(q, ch) == [q EXCEPT !.buf[q.tail] = ch]
TailTo(q, p) == [q EXCEPT !.tail = p]
HeadTo(q, p) == [q EXCEPT !.head = p]

LEMMA RingIs ==
  ASSUME NEW q \in KeyRing
  PROVE  /\ \A ch \in AnyKey :
               /\ PutIn(q, ch) \in KeyRing /\ PutIn(q, ch).head = q.head
               /\ PutIn(q, ch).tail = q.tail /\ PutIn(q, ch).buf[q.tail] = ch
               /\ \A i \in Spot : i # q.tail => PutIn(q, ch).buf[i] = q.buf[i]
         /\ \A p \in Spot :
               /\ TailTo(q, p) \in KeyRing /\ TailTo(q, p).head = q.head
               /\ TailTo(q, p).tail = p /\ TailTo(q, p).buf = q.buf
               /\ HeadTo(q, p) \in KeyRing /\ HeadTo(q, p).head = p
               /\ HeadTo(q, p).tail = q.tail /\ HeadTo(q, p).buf = q.buf
<1>1. ASSUME NEW ch \in AnyKey
      PROVE  /\ PutIn(q, ch) \in KeyRing /\ PutIn(q, ch).head = q.head
             /\ PutIn(q, ch).tail = q.tail /\ PutIn(q, ch).buf[q.tail] = ch
             /\ \A i \in Spot : i # q.tail => PutIn(q, ch).buf[i] = q.buf[i]
  BY DEF PutIn, KeyRing
<1>2. ASSUME NEW p \in Spot
      PROVE  /\ TailTo(q, p) \in KeyRing /\ TailTo(q, p).head = q.head
             /\ TailTo(q, p).tail = p /\ TailTo(q, p).buf = q.buf
             /\ HeadTo(q, p) \in KeyRing /\ HeadTo(q, p).head = p
             /\ HeadTo(q, p).tail = q.tail /\ HeadTo(q, p).buf = q.buf
  BY DEF TailTo, HeadTo, KeyRing
<1> QED BY <1>1, <1>2

LEMMA StoresSteps ==
  ASSUME NEW r, Reader = {r}, KeyInv(r), con_descan_stores(r)
  PROVE  KeyInv(r)'
<1> r \in Reader
  OBVIOUS
<1>1. PICK x \in ReaderState : x = rd[r]
  BY DEF KeyInv, ConTypes
<1>2. /\ scqueue \in Seq(Code) /\ sending \in Seq(Code) /\ typed \in Seq(AnyKey)
      /\ kq \in KeyRing /\ prefix \in BOOLEAN /\ meta \in SUBSET MetaKey
      /\ rd \in [Reader -> ReaderState]
      /\ Keeps(kq, x, typed) /\ x.at = "store"
  BY <1>1 DEF KeyInv, ConTypes, con_descan_stores
<1>3. PICK ch \in AnyKey : ch = x.by
  BY DEF ReaderState
<1>4. kq' = PutIn(kq, ch) /\ UNCHANGED <<scqueue, prefix, meta, con_readers, kbdvars, typed>>
  BY <1>1, <1>3 DEF con_descan_stores, PutIn
<1>5. PICK q \in KeyRing : /\ q = kq' /\ q.head = kq.head /\ q.tail = kq.tail
                           /\ q.buf[kq.tail] = ch
                           /\ \A i \in Spot : i # kq.tail => q.buf[i] = kq.buf[i]
  <2>1. /\ PutIn(kq, ch) \in KeyRing /\ PutIn(kq, ch).head = kq.head
        /\ PutIn(kq, ch).tail = kq.tail /\ PutIn(kq, ch).buf[kq.tail] = ch
        /\ \A i \in Spot : i # kq.tail => PutIn(kq, ch).buf[i] = kq.buf[i]
    BY <1>2, RingIs
  <2> QED BY <1>4, <2>1
<1>6. PICK p \in Spot : p = kq.tail
  BY <1>2 DEF KeyRing
<1>7. PICK y \in ReaderState : /\ y = rd'[r] /\ rd' \in [Reader -> ReaderState]
                               /\ y.at = "stored" /\ y.i = p
  <2>1. PICK f : f = SetAt(rd, r, "stored")
    OBVIOUS
  <2>2. "stored" \in Where /\ NoKey \in AnyKey
    BY DEF Where, AnyKey
  <2>3. f \in [Reader -> ReaderState] /\ f[r].at = "stored"
    BY <1>2, <2>1, <2>2, AtSet
  <2>4. PICK g : g = SetKey(f, r, NoKey)
    OBVIOUS
  <2>5. g \in [Reader -> ReaderState] /\ g[r].at = "stored"
    BY <2>2, <2>3, <2>4, KeySet
  <2>6. rd' = SetSpot(g, r, p)
    BY <1>6, <2>1, <2>4 DEF con_descan_stores, SetAt, SetKey, SetSpot
  <2>7. rd' \in [Reader -> ReaderState] /\ rd'[r].at = "stored" /\ rd'[r].i = p
    BY <2>5, <2>6, SpotSet
  <2> QED BY <2>7
<1>8. PICK n \in Nat : n = Full(kq)
  BY <1>2, FullIs, ConSizesAre
<1>9. Full(q) = n
  BY <1>5, <1>8 DEF Full
<1>10. Keeps(q, y, typed)
  <2>1. /\ n <= Len(typed) /\ n + 1 < MAXQ /\ n + 1 <= Len(typed) /\ ch = typed[n + 1]
        /\ \A i \in 1 .. n : kq.buf[Onward(MAXQ, kq.head, i - 1)] = typed[i]
    BY <1>2, <1>3, <1>8 DEF Keeps
  <2>2. \A i \in 1 .. n : q.buf[Onward(MAXQ, kq.head, i - 1)] = typed[i]
    <3>1. \A i \in 1 .. n : /\ Onward(MAXQ, kq.head, i - 1) \in Spot
                            /\ Onward(MAXQ, kq.head, i - 1) # kq.tail
      BY <1>2, <1>8, RoomIs
    <3> QED BY <1>5, <2>1, <3>1
  <2> QED BY <1>5, <1>6, <1>7, <1>9, <2>1, <2>2 DEF Keeps
<1>11. Coming(q, y) = Coming(kq, x)
  BY <1>2, <1>7, <1>8, <1>9 DEF Coming
<1>12. Undecoded(y, scqueue, sending) = Undecoded(x, scqueue, sending)
  BY <1>2, <1>7, HoldsNone
<1>13. Decoded(Undecoded(x, scqueue, sending), At0(prefix, meta, Coming(kq, x)),
               At0(FALSE, KeyMeta, Len(typed)), typed)
  BY <1>1 DEF KeyInv
<1>14. /\ scqueue' = scqueue /\ prefix' = prefix /\ meta' = meta /\ typed' = typed
       /\ UNCHANGED <<con_readers, kbdvars>> /\ rd[r].at # "blocked"
  BY <1>1, <1>2, <1>4
<1>15. Decoded(Undecoded(y, scqueue, sending), At0(prefix, meta, Coming(q, y)),
               At0(FALSE, KeyMeta, Len(typed)), typed)
  BY <1>11, <1>12, <1>13
<1> QED BY <1>2, <1>5, <1>7, <1>10, <1>14, <1>15, ReaderSteps

LEMMA StoredSteps ==
  ASSUME NEW r, Reader = {r}, KeyInv(r), con_descan_stored(r)
  PROVE  KeyInv(r)'
<1> r \in Reader
  OBVIOUS
<1>1. PICK x \in ReaderState : x = rd[r]
  BY DEF KeyInv, ConTypes
<1>2. /\ scqueue \in Seq(Code) /\ sending \in Seq(Code) /\ typed \in Seq(AnyKey)
      /\ kq \in KeyRing /\ prefix \in BOOLEAN /\ meta \in SUBSET MetaKey
      /\ rd \in [Reader -> ReaderState]
      /\ Keeps(kq, x, typed) /\ x.at = "stored"
  BY <1>1 DEF KeyInv, ConTypes, con_descan_stored
<1>3. PICK M \in Nat : M = MAXQ /\ M > 1 /\ M > 0
  BY ConSizesAre
<1>4. PICK h \in 0 .. M - 1, t \in 0 .. M - 1 : h = kq.head /\ t = kq.tail
  BY <1>2, <1>3 DEF KeyRing, Spot
<1>5. PICK n \in 0 .. M - 1 : n = Span(M, h, t) /\ n = Full(kq)
  BY <1>3, <1>4, SpanIs DEF Full
<1>6. /\ n <= Len(typed) /\ n + 1 < M /\ n + 1 <= Len(typed)
      /\ x.i = t /\ kq.buf[t] = typed[n + 1]
      /\ \A i \in 1 .. n : kq.buf[Onward(M, h, i - 1)] = typed[i]
  BY <1>2, <1>3, <1>4, <1>5 DEF Keeps
<1>7. PICK u : u = Onward(M, t, 1)
  OBVIOUS
<1>8. u \in 0 .. M - 1 /\ Span(M, h, u) = n + 1
  <2>1. Span(M, h, t) < M - 1
    BY <1>3, <1>5, <1>6
  <2>2. u \in 0 .. M - 1 /\ Span(M, h, u) = Span(M, h, t) + 1
    BY <1>3, <1>7, <2>1, TailOn
  <2> QED BY <1>5, <2>2
<1>9. (t + 1) % M = u
  <2>1. 1 \in 0 .. M
    BY <1>3
  <2> QED BY <1>3, <1>7, <2>1, OnwardIs
<1>10. kq' = TailTo(kq, u) /\ UNCHANGED <<scqueue, prefix, meta, con_readers, kbdvars, typed>>
  BY <1>1, <1>3, <1>6, <1>9 DEF con_descan_stored, TailTo
<1>11. PICK q \in KeyRing : q = kq' /\ q.head = h /\ q.tail = u /\ q.buf = kq.buf
  <2>1. u \in Spot
    BY <1>3, <1>8 DEF Spot
  <2>2. /\ TailTo(kq, u) \in KeyRing /\ TailTo(kq, u).head = kq.head
        /\ TailTo(kq, u).tail = u /\ TailTo(kq, u).buf = kq.buf
    BY <1>2, <2>1, RingIs
  <2> QED BY <1>4, <1>10, <2>2
<1>12. Full(q) = n + 1
  BY <1>3, <1>8, <1>11 DEF Full
<1>13. PICK y \in ReaderState : y = rd'[r] /\ rd' \in [Reader -> ReaderState] /\ y.at = "scan"
  <2>1. PICK f : f = SetAt(rd, r, "scan")
    OBVIOUS
  <2>2. "scan" \in Where /\ 0 \in Spot
    BY <1>3 DEF Where, Spot
  <2>3. f \in [Reader -> ReaderState] /\ f[r].at = "scan"
    BY <1>2, <2>1, <2>2, AtSet
  <2>4. rd' = SetSpot(f, r, 0)
    BY <2>1 DEF con_descan_stored, SetAt, SetSpot
  <2>5. rd' \in [Reader -> ReaderState] /\ rd'[r].at = "scan"
    BY <2>2, <2>3, <2>4, SpotSet
  <2> QED BY <2>5
<1>14. Onward(M, h, n) = t
  <2>1. Onward(M, h, Span(M, h, t)) = t
    BY <1>3, SpanEnds
  <2> QED BY <1>5, <2>1
<1>15. ASSUME NEW i \in 1 .. n + 1 PROVE kq.buf[Onward(M, h, i - 1)] = typed[i]
  <2>1. CASE i = n + 1
    <3>1. i - 1 = n
      BY <1>3, <2>1
    <3> QED BY <1>6, <1>14, <2>1, <3>1
  <2>2. CASE i # n + 1
    <3>1. i \in 1 .. n
      BY <1>3, <2>2
    <3> QED BY <1>6, <3>1
  <2> QED BY <2>1, <2>2
<1>16. Keeps(q, y, typed)
  BY <1>3, <1>6, <1>11, <1>12, <1>13, <1>15 DEF Keeps
<1>17. Coming(q, y) = Coming(kq, x)
  <2>1. Coming(q, y) = n + 1
    BY <1>3, <1>12, <1>13 DEF Coming
  <2>2. Coming(kq, x) = n + 1
    BY <1>2, <1>5 DEF Coming
  <2> QED BY <2>1, <2>2
<1>18. Undecoded(y, scqueue, sending) = Undecoded(x, scqueue, sending)
  BY <1>2, <1>13, HoldsNone
<1>19. Decoded(Undecoded(x, scqueue, sending), At0(prefix, meta, Coming(kq, x)),
               At0(FALSE, KeyMeta, Len(typed)), typed)
  BY <1>1 DEF KeyInv
<1>20. /\ scqueue' = scqueue /\ prefix' = prefix /\ meta' = meta /\ typed' = typed
       /\ UNCHANGED <<con_readers, kbdvars>> /\ rd[r].at # "blocked"
  BY <1>1, <1>2, <1>10
<1>21. Decoded(Undecoded(y, scqueue, sending), At0(prefix, meta, Coming(q, y)),
               At0(FALSE, KeyMeta, Len(typed)), typed)
  BY <1>17, <1>18, <1>19
<1> QED BY <1>2, <1>11, <1>13, <1>16, <1>20, <1>21, ReaderSteps

LEMMA TakesSteps ==
  ASSUME NEW r, Reader = {r}, KeyInv(r), con_read_takes(r)
  PROVE  KeyInv(r)'
<1> r \in Reader
  OBVIOUS
<1>1. PICK x \in ReaderState : x = rd[r]
  BY DEF KeyInv, ConTypes
<1>2. /\ scqueue \in Seq(Code) /\ sending \in Seq(Code) /\ typed \in Seq(AnyKey)
      /\ kq \in KeyRing /\ prefix \in BOOLEAN /\ meta \in SUBSET MetaKey
      /\ rd \in [Reader -> ReaderState] /\ con_readers \in Seq(Reader)
      /\ Keeps(kq, x, typed) /\ x.at = "take"
  BY <1>1 DEF KeyInv, ConTypes, con_read_takes
<1>3. UNCHANGED <<scqueue, kq, prefix, meta, con_readers, kbdvars, typed>>
  BY DEF con_read_takes
<1>4. CASE kq.head = kq.tail \/ x.size = 0
  <2>1. PICK f : f = SetAt(rd, r, "out")
    OBVIOUS
  <2>2. "out" \in Where
    BY DEF Where
  <2>3. f \in [Reader -> ReaderState] /\ f[r].at = "out"
    BY <1>2, <2>1, <2>2, AtSet
  <2>4. rd' = SetSize(f, r, 0)
    BY <1>1, <1>4, <2>1 DEF con_read_takes, SetAt, SetSize
  <2>5. rd' \in [Reader -> ReaderState] /\ rd'[r].at = "out"
    BY <2>3, <2>4, SizeSet
  <2>6. con_readers' = con_readers /\ con_readers' = <<>>
    BY <1>1, <1>2, <1>3, NobodySleeps
  <2>7. Sleeping'
    BY <2>6, NoneSleeping
  <2> QED BY <1>1, <1>2, <1>3, <2>5, <2>6, <2>7, IdleSteps DEF Idle
<1>5. CASE ~ (kq.head = kq.tail \/ x.size = 0)
  <2>1. PICK n \in Nat : n + 1 = x.size
    <3>1. x.size \in Nat /\ x.size # 0
      BY <1>5 DEF ReaderState
    <3>2. PICK n : n = x.size - 1
      OBVIOUS
    <3>3. n \in Nat /\ n + 1 = x.size
      BY <3>1, <3>2
    <3> QED BY <3>3
  <2>2. PICK p \in Spot, ch \in AnyKey : p = kq.head /\ ch = kq.buf[p]
    BY <1>2 DEF KeyRing
  <2>3. PICK f : f = SetAt(rd, r, "taken")
    OBVIOUS
  <2>4. f \in [Reader -> ReaderState] /\ f[r].at = "taken"
    <3>1. "taken" \in Where
      BY DEF Where
    <3> QED BY <1>2, <2>3, <3>1, AtSet
  <2>5. PICK g : g = SetSize(f, r, n)
    OBVIOUS
  <2>6. g \in [Reader -> ReaderState] /\ g[r].at = "taken"
    BY <2>4, <2>5, SizeSet
  <2>7. PICK e : e = SetKey(g, r, ch)
    OBVIOUS
  <2>8. e \in [Reader -> ReaderState] /\ e[r].at = "taken" /\ e[r].by = ch
    BY <2>6, <2>7, KeySet
  <2>9. rd' = SetSpot(e, r, p)
    <3>1. rd[r].size - 1 = n
      BY <1>1, <2>1
    <3>2. rd' = [rd EXCEPT ![r].at = "taken", ![r].size = rd[r].size - 1,
                           ![r].by = kq.buf[kq.head], ![r].i = kq.head]
      BY <1>1, <1>5 DEF con_read_takes
    <3>3. rd' = [rd EXCEPT ![r].at = "taken", ![r].size = n, ![r].by = ch, ![r].i = p]
      BY <2>2, <3>1, <3>2
    <3> QED BY <2>3, <2>5, <2>7, <3>3 DEF SetAt, SetSize, SetKey, SetSpot
  <2>10. PICK y \in ReaderState : /\ y = rd'[r] /\ rd' \in [Reader -> ReaderState]
                                  /\ y.at = "taken" /\ y.i = p /\ y.by = ch
    <3>1. /\ rd' \in [Reader -> ReaderState] /\ rd'[r].at = "taken"
          /\ rd'[r].i = p /\ rd'[r].by = ch
      BY <2>8, <2>9, SpotSet
    <3> QED BY <3>1
  <2>11. Full(kq) > 0
    BY <1>2, <1>5, RoomIs
  <2>12. Keeps(kq, y, typed) /\ Coming(kq, y) = Coming(kq, x)
    BY <1>2, <2>2, <2>10, <2>11 DEF Keeps, Coming
  <2>13. Undecoded(y, scqueue, sending) = Undecoded(x, scqueue, sending)
    BY <1>2, <2>10, HoldsNone
  <2>14. Decoded(Undecoded(x, scqueue, sending), At0(prefix, meta, Coming(kq, x)),
                 At0(FALSE, KeyMeta, Len(typed)), typed)
    BY <1>1 DEF KeyInv
  <2>15. /\ scqueue' = scqueue /\ prefix' = prefix /\ meta' = meta /\ typed' = typed
         /\ kq' = kq /\ UNCHANGED <<con_readers, kbdvars>> /\ rd[r].at # "blocked"
    BY <1>1, <1>2, <1>3
  <2>16. Decoded(Undecoded(y, scqueue, sending), At0(prefix, meta, Coming(kq, y)),
                 At0(FALSE, KeyMeta, Len(typed)), typed)
    BY <2>12, <2>13, <2>14
  <2> QED BY <1>2, <2>10, <2>12, <2>15, <2>16, ReaderSteps
<1> QED BY <1>4, <1>5

LEMMA TakenSteps ==
  ASSUME NEW r, Reader = {r}, KeyInv(r), con_read_taken(r)
  PROVE  KeyInv(r)'
<1> r \in Reader
  OBVIOUS
<1>1. PICK x \in ReaderState : x = rd[r]
  BY DEF KeyInv, ConTypes
<1>2. /\ scqueue \in Seq(Code) /\ sending \in Seq(Code) /\ typed \in Seq(AnyKey)
      /\ kq \in KeyRing /\ prefix \in BOOLEAN /\ meta \in SUBSET MetaKey
      /\ rd \in [Reader -> ReaderState]
      /\ Keeps(kq, x, typed) /\ x.at = "taken"
  BY <1>1 DEF KeyInv, ConTypes, con_read_taken
<1>3. PICK M \in Nat : M = MAXQ /\ M > 1 /\ M > 0
  BY ConSizesAre
<1>4. PICK h \in 0 .. M - 1, t \in 0 .. M - 1 : h = kq.head /\ t = kq.tail
  BY <1>2, <1>3 DEF KeyRing, Spot
<1>5. PICK n \in 0 .. M - 1 : n = Span(M, h, t) /\ n = Full(kq)
  BY <1>3, <1>4, SpanIs DEF Full
<1>6. /\ n <= Len(typed) /\ n > 0 /\ x.i = h
      /\ \A i \in 1 .. n : kq.buf[Onward(M, h, i - 1)] = typed[i]
  BY <1>2, <1>3, <1>4, <1>5 DEF Keeps
<1>7. PICK l \in Nat : l = Len(typed) /\ l > 0
  <2>1. Len(typed) \in Nat
    BY <1>2, LenProperties
  <2> QED BY <1>3, <1>5, <1>6, <2>1
<1>8. typed # <<>>
  BY <1>7, EmptySeq
<1>9. PICK s \in Seq(AnyKey) : /\ s = Tail(typed) /\ Len(s) = l - 1
                               /\ \A i \in 1 .. l - 1 : s[i] = typed[i + 1]
  <2>1. /\ Tail(typed) \in Seq(AnyKey) /\ Len(Tail(typed)) = Len(typed) - 1
        /\ \A i \in 1 .. Len(Tail(typed)) : Tail(typed)[i] = typed[i + 1]
    BY <1>2, <1>8, HeadTailProperties
  <2>2. Len(Tail(typed)) = l - 1
    BY <1>7, <2>1
  <2> QED BY <2>1, <2>2
<1>10. PICK g : g = Onward(M, h, 1)
  OBVIOUS
<1>11. /\ g \in 0 .. M - 1 /\ Span(M, g, t) = n - 1
       /\ \A i \in 0 .. M - 1 : 1 + i < M => Onward(M, g, i) = Onward(M, h, 1 + i)
  <2>1. 1 \in 0 .. Span(M, h, t)
    BY <1>3, <1>5, <1>6
  <2>2. /\ g \in 0 .. M - 1 /\ Span(M, g, t) = Span(M, h, t) - 1
        /\ \A i \in 0 .. M - 1 : 1 + i < M => Onward(M, g, i) = Onward(M, h, 1 + i)
    BY <1>3, <1>10, <2>1, HeadOn
  <2> QED BY <1>5, <2>2
<1>12. (h + 1) % M = g
  <2>1. 1 \in 0 .. M
    BY <1>3
  <2> QED BY <1>3, <1>10, <2>1, OnwardIs
<1>13. kq' = HeadTo(kq, g) /\ typed' = s
       /\ UNCHANGED <<scqueue, prefix, meta, con_readers, kbdvars>>
  BY <1>1, <1>3, <1>6, <1>8, <1>9, <1>12 DEF con_read_taken, HeadTo
<1>14. PICK q \in KeyRing : q = kq' /\ q.head = g /\ q.tail = t /\ q.buf = kq.buf
  <2>1. g \in Spot
    BY <1>3, <1>11 DEF Spot
  <2>2. /\ HeadTo(kq, g) \in KeyRing /\ HeadTo(kq, g).head = g
        /\ HeadTo(kq, g).tail = kq.tail /\ HeadTo(kq, g).buf = kq.buf
    BY <1>2, <2>1, RingIs
  <2> QED BY <1>4, <1>13, <2>2
<1>15. Full(q) = n - 1
  BY <1>3, <1>11, <1>14 DEF Full
<1>16. PICK y \in ReaderState : y = rd'[r] /\ rd' \in [Reader -> ReaderState] /\ y.at = "take"
  <2>1. PICK f : f = SetAt(rd, r, "take")
    OBVIOUS
  <2>2. "take" \in Where /\ 0 \in Spot /\ NoKey \in AnyKey
    BY <1>3 DEF Where, Spot, AnyKey
  <2>3. f \in [Reader -> ReaderState] /\ f[r].at = "take"
    BY <1>2, <2>1, <2>2, AtSet
  <2>4. PICK e : e = SetKey(f, r, NoKey)
    OBVIOUS
  <2>5. e \in [Reader -> ReaderState] /\ e[r].at = "take"
    BY <2>2, <2>3, <2>4, KeySet
  <2>6. rd' = SetSpot(e, r, 0)
    BY <2>1, <2>4 DEF con_read_taken, SetAt, SetKey, SetSpot
  <2>7. rd' \in [Reader -> ReaderState] /\ rd'[r].at = "take"
    BY <2>2, <2>5, <2>6, SpotSet
  <2> QED BY <2>7
<1>17. ASSUME NEW i \in 1 .. n - 1 PROVE kq.buf[Onward(M, g, i - 1)] = s[i]
  <2>1. PICK j \in 0 .. M - 1 : j = i - 1
    BY <1>3, <1>5
  <2>2. PICK k \in 1 .. n : k = i + 1
    BY <1>3, <1>5
  <2>3. 1 + j < M /\ 1 + j = k - 1 /\ i \in 1 .. l - 1
    BY <1>3, <1>5, <1>6, <1>7, <2>1, <2>2
  <2>4. Onward(M, g, j) = Onward(M, h, k - 1)
    BY <1>11, <2>3
  <2>5. kq.buf[Onward(M, h, k - 1)] = typed[k]
    BY <1>6
  <2> QED BY <1>9, <2>1, <2>2, <2>3, <2>4, <2>5
<1>18. Keeps(q, y, s)
  <2>1. n - 1 <= l - 1
    BY <1>3, <1>5, <1>6, <1>7
  <2> QED BY <1>3, <1>9, <1>14, <1>15, <1>16, <1>17, <2>1 DEF Keeps
<1>19. PICK m \in Nat : m = n - 1 /\ Coming(q, y) = m
  <2>1. PICK m : m = n - 1
    OBVIOUS
  <2>2. m \in Nat
    BY <1>3, <1>6, <2>1
  <2>3. Coming(q, y) = m
    BY <1>15, <1>16, <2>1, <2>2 DEF Coming
  <2> QED BY <2>1, <2>2, <2>3
<1>20. Coming(kq, x) = n
  BY <1>2, <1>5 DEF Coming
<1>21. PICK w \in SUBSET MetaKey : w = KeyMeta
  BY DEF KeyMeta, MetaKey
<1>22. PICK a \in Decoder : a = At0(prefix, meta, n) /\ a.n = n
  BY <1>2, <1>3, <1>5, At0Is
<1>23. PICK z \in Decoder : z = At0(FALSE, w, l)
  BY <1>7, <1>21, At0Is
<1>24. PICK W \in Seq(Code) : W = Undecoded(x, scqueue, sending)
  BY <1>2, HeldIs
<1>25. Decoded(W, a, z, typed)
  <2>1. Decoded(Undecoded(x, scqueue, sending), At0(prefix, meta, Coming(kq, x)),
                At0(FALSE, KeyMeta, Len(typed)), typed)
    BY <1>1 DEF KeyInv
  <2> QED BY <1>7, <1>20, <1>21, <1>22, <1>23, <1>24, <2>1
<1>26. Decoded(W, Less(a), Less(z), s)
  <2>1. a.n > 0
    BY <1>6, <1>22
  <2> QED BY <1>2, <1>8, <1>9, <1>25, <2>1, DecodedTail
<1>27. Less(a) = At0(prefix, meta, m) /\ Less(z) = At0(FALSE, w, Len(s))
  <2>1. n - 1 = m /\ l - 1 = Len(s)
    BY <1>9, <1>19
  <2>2. Less(a) = At0(prefix, meta, n - 1)
    BY <1>22 DEF Less, At0
  <2>3. Less(z) = At0(FALSE, w, l - 1)
    <3>1. PICK f \in BOOLEAN : f = FALSE
      OBVIOUS
    <3>2. z = At0(f, w, l)
      BY <1>23, <3>1
    <3>3. Less(z) = At0(f, w, l - 1)
      BY <3>2 DEF Less, At0
    <3> QED BY <3>1, <3>3
  <2> QED BY <2>1, <2>2, <2>3
<1>28. Undecoded(y, scqueue, sending) = W
  BY <1>2, <1>16, <1>24, HoldsNone
<1>29. /\ scqueue' = scqueue /\ prefix' = prefix /\ meta' = meta
       /\ UNCHANGED <<con_readers, kbdvars>> /\ rd[r].at # "blocked"
  BY <1>1, <1>2, <1>13
<1>30. Decoded(Undecoded(y, scqueue, sending), At0(prefix, meta, Coming(q, y)),
               At0(FALSE, KeyMeta, Len(s)), s)
  BY <1>19, <1>21, <1>26, <1>27, <1>28
<1> QED BY <1>2, <1>9, <1>13, <1>14, <1>16, <1>18, <1>29, <1>30, ReaderSteps

\* Where a read begins, looks for a character, and sleeps.
LEMMA ReadSteps ==
  ASSUME NEW r, Reader = {r}, KeyInv(r),
         con_read(r) \/ con_read_checks(r) \/ con_read_blocks(r)
  PROVE  KeyInv(r)'
<1> r \in Reader
  OBVIOUS
<1>1. PICK x \in ReaderState : x = rd[r]
  BY DEF KeyInv, ConTypes
<1>2. rd \in [Reader -> ReaderState] /\ con_readers \in Seq(Reader)
  BY DEF KeyInv, ConTypes
<1>3. x.at \in {"out", "check", "empty"}
  BY <1>1 DEF con_read, con_read_checks, con_read_blocks
<1>4. con_readers = <<>>
  BY <1>1, <1>3, NobodySleeps
<1>5. UNCHANGED <<scqueue, kq, prefix, meta, kbdvars, typed>>
  BY DEF con_read, con_read_checks, con_read_blocks
<1>6. PICK y \in ReaderState : /\ y = rd'[r] /\ rd' \in [Reader -> ReaderState]
                               /\ y.at \in Idle
                               /\ con_read_blocks(r) => y.at = "blocked"
  <2>1. CASE con_read(r)
    <3>1. PICK n \in ConSizes : rd' = [rd EXCEPT ![r].at = "scan", ![r].size = n]
      BY <2>1 DEF con_read
    <3>2. n \in Nat
      BY <3>1, ConsoleAssumption
    <3>3. PICK f : f = SetAt(rd, r, "scan")
      OBVIOUS
    <3>4. "scan" \in Where
      BY DEF Where
    <3>5. f \in [Reader -> ReaderState] /\ f[r].at = "scan"
      BY <1>2, <3>3, <3>4, AtSet
    <3>6. rd' = SetSize(f, r, n)
      BY <3>1, <3>3 DEF SetAt, SetSize
    <3>7. rd' \in [Reader -> ReaderState] /\ rd'[r].at = "scan"
      BY <3>2, <3>5, <3>6, SizeSet
    <3>8. ~ con_read_blocks(r)
      BY <2>1 DEF con_read, con_read_blocks
    <3> QED BY <3>7, <3>8 DEF Idle
  <2>2. CASE con_read_checks(r)
    <3>1. PICK w \in Where : w \in {"take", "empty"} /\ rd' = SetAt(rd, r, w)
      <4>1. "take" \in Where /\ "empty" \in Where
        BY DEF Where
      <4> QED BY <2>2, <4>1 DEF con_read_checks, At, SetAt
    <3>2. rd' \in [Reader -> ReaderState] /\ rd'[r].at = w
      BY <1>2, <3>1, AtSet
    <3>3. ~ con_read_blocks(r)
      BY <2>2 DEF con_read_checks, con_read_blocks
    <3> QED BY <3>1, <3>2, <3>3 DEF Idle
  <2>3. CASE con_read_blocks(r)
    <3>1. "blocked" \in Where
      BY DEF Where
    <3>2. rd' = SetAt(rd, r, "blocked")
      BY <2>3 DEF con_read_blocks, At, SetAt
    <3>3. rd' \in [Reader -> ReaderState] /\ rd'[r].at = "blocked"
      BY <1>2, <3>1, <3>2, AtSet
    <3> QED BY <3>3 DEF Idle
  <2> QED BY <2>1, <2>2, <2>3
<1>7. con_readers' \in Seq(Reader) /\ Sleeping'
  <2>1. CASE con_read(r) \/ con_read_checks(r)
    <3>1. con_readers' = con_readers
      BY <2>1 DEF con_read, con_read_checks
    <3> QED BY <1>2, <1>4, <3>1, NoneSleeping
  <2>2. CASE con_read_blocks(r)
    <3>1. con_readers' = <<r>>
      BY <1>4, <2>2 DEF con_read_blocks
    <3>2. Len(con_readers') = 1 /\ con_readers'[1] = r /\ con_readers' \in Seq(Reader)
      BY <3>1, OneElement
    <3>3. rd'[r].at = "blocked"
      BY <1>6, <2>2
    <3> QED BY <3>2, <3>3 DEF Sleeping
  <2> QED BY <2>1, <2>2
<1>8. rd[r].at \in Idle
  BY <1>1, <1>3 DEF Idle
<1> QED BY <1>5, <1>6, <1>7, <1>8, IdleSteps

-----------------------------------------------------------------------------
(* The theorem.                                                            *)

LEMMA KeysStart ==
  ASSUME NEW r, Reader = {r}, con_init
  PROVE  KeyInv(r)
<1> r \in Reader
  OBVIOUS
<1>1. PICK M \in Nat : M = MAXQ /\ M > 1 /\ M > 0
  BY ConSizesAre
<1>2. PICK c \in Code : c = [key |-> NoKey, up |-> FALSE]
  <2>1. [key |-> NoKey, up |-> FALSE] \in Code
    BY DEF Code, CodeKey
  <2> QED BY <2>1
<1>3. PICK x \in ReaderState : x = [at |-> "out", size |-> 0, i |-> 0, by |-> NoKey, sc |-> c]
  <2>1. "out" \in Where /\ 0 \in Spot /\ NoKey \in AnyKey
    BY <1>1 DEF Where, Spot, AnyKey
  <2> QED BY <2>1 DEF ReaderState
<1>4. rd = [t \in Reader |-> x] /\ x.at = "out"
  BY <1>2, <1>3 DEF con_init
<1>5. rd \in [Reader -> ReaderState] /\ rd[r] = x
  BY <1>4
<1>6. /\ scqueue = <<>> /\ prefix = FALSE /\ meta = {} /\ con_readers = <<>>
      /\ sending = <<>> /\ typed = <<>> /\ down = {} /\ locked = FALSE
      /\ kq = [head |-> 0, tail |-> 0, buf |-> [i \in Spot |-> NoKey]]
  BY DEF con_init, Spot
<1>7. kq \in KeyRing /\ Full(kq) = 0
  <2>1. 0 \in Spot /\ NoKey \in AnyKey
    BY <1>1 DEF Spot, AnyKey
  <2>2. [i \in Spot |-> NoKey] \in [Spot -> AnyKey]
    BY <2>1
  <2>3. kq \in KeyRing
    BY <1>6, <2>1, <2>2 DEF KeyRing
  <2>4. kq.head = 0 /\ kq.tail = 0
    BY <1>6
  <2> QED BY <2>3, <2>4 DEF Full, Span
<1>8. ConTypes
  <2>1. <<>> \in Seq(Code) /\ <<>> \in Seq(AnyKey) /\ <<>> \in Seq(Reader)
    BY EmptySeq
  <2> QED BY <1>5, <1>6, <1>7, <2>1 DEF ConTypes
<1>9. Sleeping /\ Single
  BY <1>6, EmptySeq DEF Sleeping, Single
<1>10. Keeps(kq, x, typed) /\ Coming(kq, x) = 0 /\ Len(typed) = 0
  BY <1>4, <1>6, <1>7, EmptySeq DEF Keeps, Coming
<1>11. Undecoded(x, scqueue, sending) = <<>>
  <2>1. Held(x) = <<>>
    BY <1>4 DEF Held
  <2> QED BY <1>6, <2>1 DEF Undecoded
<1>12. KeyMeta = {}
  BY <1>6 DEF KeyMeta
<1>13. Decoded(<<>>, At0(FALSE, {}, 0), At0(FALSE, {}, 0), typed)
  <2>1. At0(FALSE, {}, 0) \in Decoder
    BY At0Is
  <2> QED BY <2>1, DecodedNothing
<1> QED BY <1>5, <1>6, <1>8, <1>9, <1>10, <1>11, <1>12, <1>13 DEF KeyInv

\* What is in the ring.
LEMMA BufferedIs ==
  ASSUME kq \in KeyRing
  PROVE  /\ Buffered \in Seq(AnyKey) /\ Len(Buffered) = Full(kq)
         /\ \A i \in 1 .. Full(kq) : Buffered[i] = kq.buf[Onward(MAXQ, kq.head, i - 1)]
<1>1. PICK M \in Nat : M = MAXQ /\ M > 1 /\ M > 0
  BY ConSizesAre
<1>2. PICK h \in 0 .. M - 1, t \in 0 .. M - 1 : h = kq.head /\ t = kq.tail
  BY <1>1 DEF KeyRing, Spot
<1>3. PICK n \in 0 .. M - 1 : n = Span(M, h, t) /\ n = Full(kq) /\ (t + M - h) % M = n
  BY <1>1, <1>2, SpanIs DEF Full
<1>4. PICK b : b = [i \in 1 .. n |-> kq.buf[(h + i - 1) % M]]
  OBVIOUS
<1>5. Buffered = b
  BY <1>1, <1>2, <1>3, <1>4 DEF Buffered
<1>6. ASSUME NEW i \in 1 .. n
      PROVE  b[i] = kq.buf[Onward(M, h, i - 1)] /\ b[i] \in AnyKey
  <2>1. PICK k \in 0 .. M : k = i - 1 /\ h + i - 1 = h + k
    BY <1>1, <1>2, <1>3
  <2>2. (h + k) % M = Onward(M, h, k) /\ Onward(M, h, k) \in 0 .. M - 1
    BY <1>1, OnwardIs
  <2>3. b[i] = kq.buf[Onward(M, h, k)]
    BY <1>4, <2>1, <2>2
  <2> QED BY <1>1, <2>1, <2>2, <2>3 DEF KeyRing, Spot
<1>7. b \in [1 .. n -> AnyKey] /\ n \in Nat
  <2>1. n \in Nat
    BY <1>1
  <2>2. b = [i \in 1 .. n |-> b[i]]
    BY <1>4
  <2>3. \A i \in 1 .. n : b[i] \in AnyKey
    BY <1>6
  <2> QED BY <2>1, <2>2, <2>3
<1>8. b \in Seq(AnyKey) /\ Len(b) = n
  BY <1>7, SeqDef
<1> QED BY <1>1, <1>2, <1>3, <1>5, <1>6, <1>8

LEMMA KeysAreInOrder ==
  ASSUME NEW r, Reader = {r}, KeyInv(r)
  PROVE  KeysInOrder
<1> r \in Reader
  OBVIOUS
<1>1. PICK x \in ReaderState : x = rd[r]
  BY DEF KeyInv, ConTypes
<1>2. /\ scqueue \in Seq(Code) /\ sending \in Seq(Code) /\ typed \in Seq(AnyKey)
      /\ kq \in KeyRing /\ Keeps(kq, x, typed)
  BY <1>1 DEF KeyInv, ConTypes
<1>3. PICK n \in Nat : n = Full(kq)
  BY <1>2, FullIs, ConSizesAre
<1>4. PICK l \in Nat : l = Len(typed)
  BY <1>2, LenProperties
<1>5. PICK b \in Seq(AnyKey) : /\ b = Buffered /\ Len(b) = n
                               /\ \A i \in 1 .. n : b[i] = kq.buf[Onward(MAXQ, kq.head, i - 1)]
  BY <1>2, <1>3, BufferedIs
<1>6. n <= l /\ \A i \in 1 .. n : b[i] = typed[i]
  BY <1>2, <1>3, <1>4, <1>5 DEF Keeps
<1>7. SubSeq(typed, 1, n) = b
  <2>1. \A i \in 1 .. n : typed[i] \in AnyKey
    BY <1>2, <1>4, <1>6, ElementOfSeq
  <2>2. PICK v : v = SubSeq(typed, 1, n)
    OBVIOUS
  <2>3. /\ v \in Seq(AnyKey)
        /\ Len(v) = IF 1 <= n THEN n - 1 + 1 ELSE 0
        /\ \A i \in 1 .. n - 1 + 1 : v[i] = typed[1 + i - 1]
    BY <1>3, <2>1, <2>2, SubSeqProperties
  <2>4. Len(v) = n
    BY <1>3, <2>3
  <2>5. ASSUME NEW i \in 1 .. n PROVE v[i] = b[i]
    <3>1. i \in 1 .. n - 1 + 1 /\ 1 + i - 1 = i
      BY <1>3
    <3> QED BY <1>6, <2>3, <3>1
  <2> QED BY <1>5, <2>2, <2>3, <2>4, <2>5, SeqEqual
<1>8. SubSeq(b, 1, n) = b
  BY <1>5, SubSeqFull
<1>9. IsPrefix(Buffered, typed)
  BY <1>4, <1>5, <1>6, <1>7, <1>8 DEF IsPrefix
<1>10. ASSUME AllDecoded PROVE Buffered = typed
  <2>1. scqueue = <<>> /\ sending = <<>> /\ x.at \notin {"descan", "store", "stored"}
    BY <1>1, <1>10 DEF AllDecoded
  <2>2. Held(x) = <<>>
    BY <2>1 DEF Held
  <2>3. Undecoded(x, scqueue, sending) = <<>>
    BY <2>1, <2>2 DEF Undecoded
  <2>4. PICK a, z : a = At0(prefix, meta, Coming(kq, x)) /\ z = At0(FALSE, KeyMeta, Len(typed))
    OBVIOUS
  <2>5. Decoded(<<>>, a, z, typed)
    BY <1>1, <2>3, <2>4 DEF KeyInv
  <2>6. a = z
    <3>1. <<>> \in Seq(Code)
      BY EmptySeq
    <3> QED BY <2>5, <3>1, DecodedEnds
  <2>7. a.n = n /\ z.n = l
    <3>1. Coming(kq, x) = n
      BY <1>3, <2>1 DEF Coming
    <3> QED BY <1>4, <2>4, <3>1 DEF At0
  <2>8. SubSeq(typed, 1, Len(typed)) = typed
    BY <1>2, SubSeqFull
  <2> QED BY <1>4, <1>5, <1>7, <2>6, <2>7, <2>8
<1>11. ASSUME x.at = "taken" PROVE <<x.by>> = SubSeq(typed, 1, 1)
  <2>1. n > 0 /\ x.by = kq.buf[kq.head]
    BY <1>2, <1>3, <1>11 DEF Keeps
  <2>2. 1 \in 1 .. n /\ 1 \in 1 .. l
    BY <1>3, <1>4, <1>6, <2>1
  <2>3. PICK M \in Nat : M = MAXQ /\ M > 1
    BY ConSizesAre
  <2>4. PICK h \in 0 .. M - 1 : h = kq.head
    BY <1>2, <2>3 DEF KeyRing, Spot
  <2>5. Onward(M, h, 1 - 1) = h
    BY <2>3, <2>4 DEF Onward
  <2>6. typed[1] = x.by
    BY <1>5, <1>6, <2>1, <2>2, <2>3, <2>4, <2>5
  <2>7. \A i \in 1 .. 1 : typed[i] \in AnyKey
    BY <1>2, <1>4, <2>2, ElementOfSeq
  <2>8. PICK v : v = SubSeq(typed, 1, 1)
    OBVIOUS
  <2>9. /\ v \in Seq(AnyKey)
        /\ Len(v) = IF 1 <= 1 THEN 1 - 1 + 1 ELSE 0
        /\ \A i \in 1 .. 1 - 1 + 1 : v[i] = typed[1 + i - 1]
    BY <2>7, <2>8, SubSeqProperties
  <2>10. Len(v) = 1 /\ v[1] = x.by
    BY <2>6, <2>9
  <2>11. x.by \in AnyKey
    BY DEF ReaderState
  <2>12. <<x.by>> \in Seq(AnyKey) /\ Len(<<x.by>>) = 1 /\ <<x.by>>[1] = x.by
    BY <2>11, OneElement
  <2>13. \A i \in 1 .. 1 : v[i] = <<x.by>>[i]
    BY <2>10, <2>12
  <2> QED BY <2>8, <2>9, <2>10, <2>12, <2>13, SeqEqual
<1> QED BY <1>1, <1>9, <1>10, <1>11 DEF KeysInOrder

LEMMA KeysStep ==
  ASSUME NEW r, Reader = {r}, KeyInv(r), ConNext, ~ spoiled'
  PROVE  KeyInv(r)'
<1>1. CASE Strikes
  BY <1>1, KeyboardSteps DEF Strikes
<1>2. CASE kbd_intr
  <2>1. sending # <<>>
    BY <1>2 DEF kbd_intr
  <2>2. ASSUME NEW n \in 1 .. Len(sending), kbd_intr_queues(n) PROVE KeyInv(r)'
    BY <2>2, QueuesSteps
  <2>3. ASSUME NEW n \in 1 .. Len(sending), kbd_intr_full(n) PROVE FALSE
    BY <2>3 DEF kbd_intr_full
  <2>4. CASE kbd_intr_debug
    BY <2>1, <2>4, DebugSteps
  <2> QED BY <1>2, <2>2, <2>3, <2>4 DEF kbd_intr
<1>3. CASE con_read(r) \/ ConReads(r)
  BY <1>3, CodeSteps, DescanSteps, StoresSteps, StoredSteps, TakesSteps, TakenSteps,
     ReadSteps DEF ConReads
<1> QED BY <1>1, <1>2, <1>3 DEF ConNext

\* One task reads the console: the shell, or the program it waits for.
OneReader == \E r : Reader = {r}

\* Every character typed is read once and in order, with the flags of its
\* moment, although the interrupt queues codes between any two steps of the
\* decoder and of con_read: for one reader, since two may decode at once and
\* take the same place of keyqueue, which nothing locks.
THEOREM KeysStayInOrder == OneReader /\ ConSpec => []KeysInOrder
<1> SUFFICES ASSUME OneReader PROVE ConSpec => []KeysInOrder
  OBVIOUS
<1>1. PICK r : Reader = {r}
  BY DEF OneReader
<1> DEFINE Safe == spoiled \/ KeyInv(r)
<1>2. con_init => Safe
  BY <1>1, KeysStart
<1>3. Safe /\ [ConNext]_convars => Safe'
  <2> SUFFICES ASSUME Safe, [ConNext]_convars, ~ spoiled' PROVE KeyInv(r)'
    OBVIOUS
  <2>1. CASE ConNext
    <3>1. ~ spoiled
      BY <2>1 DEF ConNext
    <3> QED BY <1>1, <2>1, <3>1, KeysStep
  <2>2. CASE UNCHANGED convars
    <3>1. /\ scqueue' = scqueue /\ kq' = kq /\ prefix' = prefix /\ meta' = meta
          /\ con_readers' = con_readers /\ rd' = rd /\ down' = down /\ locked' = locked
          /\ sending' = sending /\ typed' = typed /\ spoiled' = spoiled
      BY <2>2 DEF convars
    <3>2. KeyInv(r)
      BY <3>1
    <3> QED BY <3>1, <3>2 DEF KeyInv, ConTypes, Sleeping, Single, KeyMeta
  <2> QED BY <2>1, <2>2
<1>4. Safe => KeysInOrder
  <2>1. KeyInv(r) => KeysInOrder
    BY <1>1, KeysAreInOrder
  <2>2. spoiled => KeysInOrder
    BY DEF KeysInOrder
  <2> QED BY <2>1, <2>2
<1> HIDE DEF Safe
<1> QED BY <1>2, <1>3, <1>4, PTL DEF ConSpec
-----------------------------------------------------------------------------
(***************************************************************************)
(* The sending side of a serial port                                       *)
(***************************************************************************)

\* A set of naturals that is not empty has a least element.
LEMMA LeastElement ==
    ASSUME NEW D, D \subseteq Nat, D # {}
    PROVE  \E m \in D : \A k \in D : m <= k
<1> DEFINE R == OpToRel(<, Nat)
<1>1. IsWellFoundedOn(R, Nat)
  BY NatLessThanWellFounded
<1>2. \A i, j \in Nat : i < j => <<i, j>> \in R
  BY DEF OpToRel
<1> HIDE DEF R
<1>3. PICK m \in D : \A k \in D : ~ (<<k, m>> \in R)
  BY <1>1, WFMin
<1>4. \A k \in D : ~ (k < m)
  BY <1>2, <1>3
<1> QED
  BY <1>4

(***************************************************************************)
(* Walks: a function of the naturals that is given by its first value and  *)
(* by each from the one before.                                            *)
(***************************************************************************)

\* f is the walk along g from a, as far as n.
Walks(f, g, a, n) == f[0] = a /\ \A i \in 1 .. n : f[i] = g[f[i - 1]]

\* Two walks from the same place are the same as far as both go.
LEMMA OneWalk ==
    ASSUME NEW f, NEW g, NEW h, NEW a, NEW n \in Nat, NEW m \in Nat, n <= m,
           Walks(f, g, a, n), Walks(h, g, a, m)
    PROVE  \A i \in 0 .. n : f[i] = h[i]
<1> DEFINE D == {i \in 0 .. n : f[i] # h[i]}
<1> SUFFICES ASSUME D # {} PROVE FALSE
  OBVIOUS
<1>1. D \subseteq Nat
  OBVIOUS
<1>2. PICK k \in D : \A j \in D : k <= j
  BY <1>1, LeastElement
<1>3. k \in 0 .. n /\ f[k] # h[k]
  BY <1>2
<1>4. k # 0
  BY <1>3 DEF Walks
<1>5. k - 1 \in 0 .. n /\ k \in 1 .. n /\ k \in 1 .. m
  BY <1>3, <1>4
<1>6. f[k - 1] = h[k - 1]
  BY <1>2, <1>5
<1> QED
  BY <1>3, <1>5, <1>6 DEF Walks

\* A walk in S without end.
Endless(f, g, a, S) == f \in [Nat -> S] /\ \A n \in Nat : Walks(f, g, a, n)

\* There is a walk of any length, and so one without end.
LEMMA WalkOfLength ==
    ASSUME NEW S, NEW g \in [S -> S], NEW a \in S, NEW n \in Nat
    PROVE  \E f \in [0 .. n -> S] : Walks(f, g, a, n)
<1> DEFINE Can(k) == \E f \in [0 .. k -> S] : Walks(f, g, a, k)
           D == {k \in Nat : ~ Can(k)}
<1> SUFFICES ASSUME ~ Can(n) PROVE FALSE
  OBVIOUS
<1>1. D \subseteq Nat /\ D # {}
  OBVIOUS
<1>2. PICK k \in D : \A j \in D : k <= j
  BY <1>1, LeastElement
<1>3. k \in Nat /\ ~ Can(k)
  BY <1>2
<1>4. CASE k = 0
  <2>1. PICK f : f = [i \in 0 .. 0 |-> a]
    OBVIOUS
  <2>2. f \in [0 .. k -> S] /\ Walks(f, g, a, k)
    BY <1>4, <2>1 DEF Walks
  <2> QED
    BY <1>3, <2>2
<1>5. CASE k # 0
  <2>1. k - 1 \in Nat /\ k - 1 \notin D
    BY <1>2, <1>3, <1>5
  <2>2. PICK f \in [0 .. (k - 1) -> S] : Walks(f, g, a, k - 1)
    BY <2>1
  <2>3. PICK h : h = [i \in 0 .. k |-> IF i = k THEN g[f[k - 1]] ELSE f[i]]
    OBVIOUS
  <2>4. h \in [0 .. k -> S]
    BY <1>3, <2>1, <2>3
  <2>5. \A i \in 1 .. k : h[i] = g[h[i - 1]]
    BY <1>3, <1>5, <2>1, <2>2, <2>3 DEF Walks
  <2>6. h[0] = a
    BY <1>3, <1>5, <2>2, <2>3 DEF Walks
  <2> QED
    BY <1>3, <2>4, <2>5, <2>6 DEF Walks
<1> QED
  BY <1>4, <1>5

LEMMA EndlessWalk ==
    ASSUME NEW S, NEW g \in [S -> S], NEW a \in S
    PROVE  \E f : Endless(f, g, a, S)
<1> DEFINE W(n) == CHOOSE f \in [0 .. n -> S] : Walks(f, g, a, n)
<1>1. \A n \in Nat : W(n) \in [0 .. n -> S] /\ Walks(W(n), g, a, n)
  BY WalkOfLength
<1> HIDE DEF W
<1>2. PICK f : f = [n \in Nat |-> W(n)[n]]
  OBVIOUS
<1>3. f \in [Nat -> S]
  <2>1. \A n \in Nat : W(n)[n] \in S
    BY <1>1
  <2> QED
    BY <1>2, <2>1
<1>4. ASSUME NEW n \in Nat, NEW i \in 1 .. n PROVE f[i] = g[f[i - 1]]
  <2>1. i \in Nat /\ i - 1 \in Nat /\ i - 1 <= i /\ i \in 1 .. i /\ i - 1 \in 0 .. (i - 1)
    OBVIOUS
  <2>2. W(i)[i] = g[W(i)[i - 1]]
    BY <1>1, <2>1 DEF Walks
  <2>3. W(i - 1)[i - 1] = W(i)[i - 1]
    BY <1>1, <2>1, OneWalk
  <2> QED
    BY <1>2, <2>1, <2>2, <2>3
<1>5. f[0] = a
  BY <1>1, <1>2 DEF Walks
<1> QED
  BY <1>3, <1>4, <1>5 DEF Walks, Endless

\* What holds of 0, and of each number if of the one before, holds of all.
LEMMA AllNaturals ==
    ASSUME NEW G, 0 \in G, \A n \in Nat : n \in G => n + 1 \in G
    PROVE  \A n \in Nat : n \in G
<1> DEFINE D == {n \in Nat : n \notin G}
<1> SUFFICES ASSUME D # {} PROVE FALSE
  OBVIOUS
<1>1. D \subseteq Nat
  OBVIOUS
<1>2. PICK k \in D : \A j \in D : k <= j
  BY <1>1, LeastElement
<1>3. k \in Nat /\ k \notin G /\ k # 0
  BY <1>2
<1>4. k - 1 \in Nat /\ k - 1 \notin D /\ (k - 1) + 1 = k
  BY <1>2, <1>3
<1> QED
  BY <1>3, <1>4

\* A value goes from turn to turn.
LEMMA TurnsGo ==
    ASSUME NEW S, NEW g, NEW a \in S, \A x \in S : g[x] \in S
    PROVE  /\ Turns(g, a)[0] = a
           /\ \A k \in Nat : /\ Turns(g, a)[k] \in S
                             /\ Turns(g, a)[k + 1] = g[Turns(g, a)[k]]
<1> DEFINE To(w) == [k \in Nat |-> IF k = 0 THEN a ELSE g[w[k - 1]]]
<1>0. PICK h \in [S -> S] : \A x \in S : h[x] = g[x]
  <2>1. [x \in S |-> g[x]] \in [S -> S]
    OBVIOUS
  <2> QED
    BY <2>1
<1>1. PICK f : Endless(f, h, a, S)
  BY EndlessWalk
<1>2. f = To(f)
  <2>1. f \in [Nat -> S] /\ f[0] = a
    BY <1>1 DEF Endless, Walks
  <2>2. ASSUME NEW k \in Nat, k # 0 PROVE f[k] = g[f[k - 1]]
    <3>1. k \in 1 .. k /\ k - 1 \in Nat
      BY <2>2
    <3>2. f[k] = h[f[k - 1]] /\ f[k - 1] \in S
      BY <1>1, <3>1 DEF Endless, Walks
    <3> QED
      BY <1>0, <3>2
  <2>3. \A k \in Nat : f[k] = IF k = 0 THEN a ELSE g[f[k - 1]]
    BY <2>1, <2>2
  <2> QED
    BY <2>1, <2>3
<1>3. Turns(g, a) = CHOOSE w : w = To(w)
  BY DEF Turns
<1>4. Turns(g, a) = To(Turns(g, a))
  BY <1>2, <1>3
<1>5. PICK w : w = Turns(g, a) /\ w = To(w)
  BY <1>4
<1>6. w[0] = a
  BY <1>5
<1>7. ASSUME NEW k \in Nat PROVE w[k + 1] = g[w[k]]
  <2>1. k + 1 \in Nat /\ k + 1 # 0 /\ (k + 1) - 1 = k
    OBVIOUS
  <2>2. w[k + 1] = IF k + 1 = 0 THEN a ELSE g[w[(k + 1) - 1]]
    BY <1>5, <2>1
  <2> QED
    BY <2>1, <2>2
<1>8. \A k \in Nat : w[k] \in S
  <2> DEFINE G == {k \in Nat : w[k] \in S}
  <2>1. 0 \in G
    BY <1>6
  <2>2. \A k \in Nat : k \in G => k + 1 \in G
    BY <1>7
  <2> QED
    BY <2>1, <2>2, AllNaturals
<1> QED
  BY <1>5, <1>6, <1>7, <1>8

-----------------------------------------------------------------------------
Link == Iob \cup {NULL}

\* T is the list of blocks to be sent, n of them.
Queued(L, T, n) ==
    /\ T[0] = L.txhead
    /\ L.txtail = IF n = 0 THEN NULL ELSE T[n - 1]
    /\ \A i \in Nat : i < n <=> T[i] # NULL
    /\ \A i \in Nat : T[i] # NULL => T[i + 1] = L.next[T[i]]

\* F is the list of those that were sent.
Unqueued(L, F) ==
    /\ F[0] = L.freeiob
    /\ \A i \in Nat : F[i + 1] = IF F[i] = NULL THEN NULL ELSE L.next[F[i]]

\* No block is twice on a list, or on both.
Once(T) == \A i, j \in Nat : T[i] = T[j] /\ T[i] # NULL => i = j
Disjoint(T, F) == \A i, j \in Nat : T[i] = F[j] => T[i] = NULL

\* All are allocated.
AllIn(u, T) == \A i \in Nat : T[i] # NULL => T[i] \in u

\* What is to be sent is on the list, in the order of the calls.
InOrder(L, B, T) ==
    /\ \A b \in Iob : L.left[b] > 0 => \E i \in Nat : T[i] = b
    /\ \A i, j \in Nat :
        T[i] # NULL /\ T[j] # NULL /\ L.left[T[i]] > 0 /\ L.left[T[j]] > 0
            => (i < j <=> <<T[i], T[j]>> \in B)

SoundAs(L, u, B, T, F, n) ==
    /\ Queued(L, T, n) /\ Unqueued(L, F)
    /\ Once(T) /\ Once(F) /\ Disjoint(T, F) /\ AllIn(u, T) /\ AllIn(u, F)
    /\ InOrder(L, B, T)

Sound(L, u, B) ==
    \E T, F \in [Nat -> Link], n \in Nat : SoundAs(L, u, B, T, F, n)

\* The head of the list, if any, has something to be sent.
Finished(L) == L.txhead = NULL \/ L.left[L.txhead] > 0

LEMMA NullNoBlock == NULL \notin Iob /\ IsFiniteSet(Iob) /\ Cardinality(Iob) \in Nat
BY XmitAssumption, FS_CardinalityType

\* A finished block goes from the head of the one list to that of the other.
HeadMoves(L, u, B, F, n) ==
    \E U, G \in [Nat -> Link] :
        /\ SoundAs(FinishOne[L], u, B, U, G, n - 1)
        /\ \A i \in Nat : G[i + 1] = F[i]

LEMMA OneFinished ==
    ASSUME NEW L \in Lists, NEW u, NEW B, NEW T \in [Nat -> Link],
           NEW F \in [Nat -> Link], NEW n \in Nat,
           SoundAs(L, u, B, T, F, n), ~ Finished(L)
    PROVE  /\ FinishOne[L] \in Lists /\ FinishOne[L].left = L.left /\ n > 0
           /\ HeadMoves(L, u, B, F, n)
<1>1. PICK b : b = L.txhead
  OBVIOUS
<1>2. b \in Iob /\ ~ (L.left[b] > 0) /\ b # NULL
  BY <1>1, NullNoBlock DEF Finished, Lists
<1>3. T[0] = b /\ n > 0 /\ T[1] = L.next[b] /\ T[1] \in Link
  BY <1>1, <1>2 DEF SoundAs, Queued
<1>4. PICK tl \in Link : tl = IF L.next[b] = NULL THEN NULL ELSE L.txtail
  BY <1>2 DEF Lists, Link
<1>5. PICK M : M = [L EXCEPT !.txhead = L.next[b], !.txtail = tl,
                             !.next[b] = L.freeiob, !.freeiob = b]
  OBVIOUS
<1>6. FinishOne[L] = M
  BY <1>1, <1>2, <1>4, <1>5 DEF FinishOne
<1>7. /\ M \in Lists /\ M.left = L.left /\ M.txhead = T[1] /\ M.txtail = tl
      /\ M.next = [L.next EXCEPT ![b] = L.freeiob] /\ M.freeiob = b
  BY <1>2, <1>3, <1>4, <1>5 DEF Lists, Link
<1>8. PICK N : N = M.next
  OBVIOUS
<1>9. \A c \in Iob : N[c] = IF c = b THEN L.freeiob ELSE L.next[c]
  BY <1>7, <1>8 DEF Lists
<1>10. PICK U \in [Nat -> Link] : \A i \in Nat : U[i] = T[i + 1]
  <2>1. [i \in Nat |-> T[i + 1]] \in [Nat -> Link]
    OBVIOUS
  <2> QED
    BY <2>1
<1>11. PICK G \in [Nat -> Link] : G[0] = b /\ \A i \in Nat : G[i + 1] = F[i]
  <2>1. [i \in Nat |-> IF i = 0 THEN b ELSE F[i - 1]] \in [Nat -> Link]
    BY <1>2 DEF Link
  <2>2. \A i \in Nat : i + 1 \in Nat /\ i + 1 # 0 /\ (i + 1) - 1 = i
    OBVIOUS
  <2> QED
    BY <2>1, <2>2
<1>12. Once(T) /\ Once(F) /\ Disjoint(T, F) /\ AllIn(u, T) /\ AllIn(u, F)
  BY DEF SoundAs
<1>13. \A i \in Nat : U[i] # b
  <2>1. \A i \in Nat : i + 1 \in Nat /\ i + 1 # 0
    OBVIOUS
  <2> QED
    BY <1>2, <1>3, <1>10, <1>12, <2>1 DEF Once
<1>14. \A i \in Nat : F[i] # b
  BY <1>2, <1>3, <1>12 DEF Disjoint
<1>15. Queued(M, U, n - 1)
  <2>1. \A i \in Nat : i < n - 1 <=> U[i] # NULL
    BY <1>3, <1>10 DEF SoundAs, Queued
  <2>2. ASSUME NEW i \in Nat, U[i] # NULL PROVE U[i + 1] = M.next[U[i]]
    <3>1. U[i] \in Iob /\ U[i] # b /\ U[i] = T[i + 1] /\ U[i + 1] = T[(i + 1) + 1]
      BY <1>10, <1>13, <2>2 DEF Link
    <3>2. T[(i + 1) + 1] = L.next[T[i + 1]]
      BY <2>2, <3>1 DEF SoundAs, Queued
    <3> QED
      BY <1>8, <1>9, <3>1, <3>2
  <2>3. U[0] = M.txhead
    BY <1>7, <1>10
  <2>4. M.txtail = IF n - 1 = 0 THEN NULL ELSE U[(n - 1) - 1]
    <3>1. T[1] = NULL <=> n - 1 = 0
      BY <1>3 DEF SoundAs, Queued
    <3>2. L.txtail = T[n - 1]
      BY <1>3 DEF SoundAs, Queued
    <3>3. n - 1 # 0 => (n - 1) - 1 \in Nat /\ ((n - 1) - 1) + 1 = n - 1
      BY <1>3
    <3> QED
      BY <1>3, <1>4, <1>7, <1>10, <3>1, <3>2, <3>3
  <2> QED
    BY <2>1, <2>2, <2>3, <2>4 DEF Queued
<1>16. Unqueued(M, G)
  <2>1. ASSUME NEW i \in Nat
        PROVE  G[i + 1] = IF G[i] = NULL THEN NULL ELSE M.next[G[i]]
    <3>1. CASE i = 0
      <4>1. G[1] = F[0] /\ F[0] = L.freeiob /\ G[0] = b
        BY <1>11 DEF SoundAs, Unqueued
      <4> QED
        BY <1>2, <1>8, <1>9, <3>1, <4>1
    <3>2. CASE i # 0
      <4>1. PICK k \in Nat : i = k + 1
        BY <3>2
      <4>2. G[i] = F[k] /\ G[i + 1] = F[i]
        BY <1>11, <4>1
      <4>3. F[i] = IF F[k] = NULL THEN NULL ELSE L.next[F[k]]
        BY <4>1 DEF SoundAs, Unqueued
      <4>4. F[k] # NULL => F[k] \in Iob /\ F[k] # b
        BY <1>14 DEF Link
      <4> QED
        BY <1>8, <1>9, <4>2, <4>3, <4>4
    <3> QED
      BY <3>1, <3>2
  <2> QED
    BY <1>7, <1>11, <2>1 DEF Unqueued
<1>17. Once(U)
  <2> SUFFICES ASSUME NEW i \in Nat, NEW j \in Nat, U[i] = U[j], U[i] # NULL
               PROVE  i = j
    BY DEF Once
  <2>1. i + 1 \in Nat /\ j + 1 \in Nat /\ T[i + 1] = T[j + 1] /\ T[i + 1] # NULL
    BY <1>10
  <2>2. i + 1 = j + 1
    BY <1>12, <2>1 DEF Once
  <2> QED
    BY <2>2
<1>18. \A i \in Nat : i = 0 \/ \E k \in Nat : i = k + 1 /\ G[i] = F[k]
  <2> SUFFICES ASSUME NEW i \in Nat, i # 0
  PROVE \E k \in Nat : i = k + 1 /\ G[i] = F[k]
    OBVIOUS
  <2>1. i - 1 \in Nat /\ i = (i - 1) + 1
    OBVIOUS
  <2> QED
    BY <1>11, <2>1
<1>19. Once(G)
  <2> SUFFICES ASSUME NEW i \in Nat, NEW j \in Nat, G[i] = G[j], G[i] # NULL
               PROVE  i = j
    BY DEF Once
  <2> QED
    BY <1>11, <1>12, <1>14, <1>18 DEF Once
<1>20. Disjoint(U, G)
  <2> SUFFICES ASSUME NEW i \in Nat, NEW j \in Nat, U[i] = G[j] PROVE U[i] = NULL
    BY DEF Disjoint
  <2>1. U[i] # b /\ U[i] = T[i + 1] /\ i + 1 \in Nat
    BY <1>10, <1>13
  <2>2. PICK k \in Nat : G[j] = F[k]
    BY <1>11, <1>18, <2>1
  <2> QED
    BY <1>12, <2>1, <2>2 DEF Disjoint
<1>21. AllIn(u, U) /\ AllIn(u, G)
  <2>1. AllIn(u, U)
    <3>1. \A i \in Nat : i + 1 \in Nat
      OBVIOUS
    <3> QED
      BY <1>10, <1>12, <3>1 DEF AllIn
  <2>2. b \in u
    BY <1>2, <1>3, <1>12 DEF AllIn
  <2> QED
    BY <1>11, <1>12, <1>18, <2>1, <2>2 DEF AllIn
<1>22. InOrder(M, B, U)
  <2>1. ASSUME NEW c \in Iob, M.left[c] > 0 PROVE \E i \in Nat : U[i] = c
    <3>1. PICK i \in Nat : T[i] = c
      BY <1>7, <2>1 DEF SoundAs, InOrder
    <3>2. i # 0
      BY <1>2, <1>3, <1>7, <2>1, <3>1
    <3>3. i - 1 \in Nat /\ (i - 1) + 1 = i
      BY <3>2
    <3> QED
      BY <1>10, <3>1, <3>3
  <2>2. ASSUME NEW i \in Nat, NEW j \in Nat, U[i] # NULL, U[j] # NULL,
               M.left[U[i]] > 0, M.left[U[j]] > 0
        PROVE  i < j <=> <<U[i], U[j]>> \in B
    <3>1. /\ i + 1 \in Nat /\ j + 1 \in Nat /\ U[i] = T[i + 1] /\ U[j] = T[j + 1]
          /\ M.left = L.left
      BY <1>7, <1>10
    <3>2. i + 1 < j + 1 <=> <<T[i + 1], T[j + 1]>> \in B
      BY <2>2, <3>1 DEF SoundAs, InOrder
    <3>3. i < j <=> i + 1 < j + 1
      OBVIOUS
    <3> QED
      BY <3>1, <3>2, <3>3
  <2> QED
    BY <2>1, <2>2 DEF InOrder
<1>23. SoundAs(M, u, B, U, G, n - 1)
  BY <1>15, <1>16, <1>17, <1>19, <1>20, <1>21, <1>22 DEF SoundAs
<1> QED
  BY <1>3, <1>6, <1>7, <1>11, <1>23 DEF HeadMoves
\* A list is no longer than there are blocks.
LEMMA ListFits ==
    ASSUME NEW L, NEW T \in [Nat -> Link], NEW n \in Nat, Queued(L, T, n), Once(T)
    PROVE  n <= Cardinality(Iob)
<1>1. PICK f : f = [i \in 0 .. n - 1 |-> T[i]]
  OBVIOUS
<1>2. \A i \in 0 .. n - 1 : i \in Nat /\ T[i] # NULL /\ T[i] \in Iob
  BY DEF Queued, Link
<1>3. f \in Injection(0 .. n - 1, Iob)
  BY <1>1, <1>2 DEF Injection, IsInjective, Once
<1>4. Cardinality(0 .. n - 1) <= Cardinality(Iob)
  BY <1>3, NullNoBlock, FS_Injection
<1>5. Cardinality(0 .. n - 1) = n
  BY FS_Interval
<1> QED
  BY <1>4, <1>5

\* After k turns of the loop that takes finished blocks off the list.
TakenOff(L, M, u, B, k) ==
    /\ M \in Lists /\ M.left = L.left
    /\ \E T, F \in [Nat -> Link], n \in Nat :
        SoundAs(M, u, B, T, F, n) /\ (Finished(M) \/ n + k <= Cardinality(Iob))

LEMMA FinishOneType == \A L \in Lists : FinishOne[L] \in Lists
<1> SUFFICES ASSUME NEW L \in Lists PROVE FinishOne[L] \in Lists
  OBVIOUS
<1>1. PICK b : b = L.txhead
  OBVIOUS
<1>2. CASE b = NULL \/ L.left[b] > 0
  BY <1>1, <1>2 DEF FinishOne
<1>3. CASE ~ (b = NULL \/ L.left[b] > 0)
  <2>1. b \in Iob /\ L.next[b] \in Link
    BY <1>1, <1>3 DEF Lists, Link
  <2>2. PICK tl \in Link : tl = IF L.next[b] = NULL THEN NULL ELSE L.txtail
    BY DEF Lists, Link
  <2>3. FinishOne[L] = [L EXCEPT !.txhead = L.next[b], !.txtail = tl,
                                 !.next[b] = L.freeiob, !.freeiob = b]
    BY <1>1, <1>3, <2>2 DEF FinishOne
  <2>4. PICK M : M = [L EXCEPT !.txhead = L.next[b], !.txtail = tl,
                               !.next[b] = L.freeiob, !.freeiob = b]
    OBVIOUS
  <2>5. M \in Lists
    BY <2>1, <2>2, <2>4 DEF Lists, Link
  <2> QED
    BY <2>3, <2>4, <2>5
<1> QED
  BY <1>2, <1>3

\* So all that is finished is taken off: there are turns enough.
LEMMA AllFinished ==
    ASSUME NEW L \in Lists, NEW u, NEW B, Sound(L, u, B)
    PROVE  /\ Finish[L] \in Lists /\ Finish[L].left = L.left
           /\ Sound(Finish[L], u, B) /\ Finished(Finish[L])
<1>1. PICK t : t = Turns(FinishOne, L)
  OBVIOUS
<1>2. t[0] = L /\ \A k \in Nat : t[k + 1] = FinishOne[t[k]]
  <2>1. PICK g : g = FinishOne /\ \A M \in Lists : g[M] \in Lists
    BY FinishOneType
  <2>2. Turns(g, L)[0] = L /\ \A k \in Nat : Turns(g, L)[k + 1] = g[Turns(g, L)[k]]
    BY <2>1, TurnsGo
  <2> QED
    BY <1>1, <2>1, <2>2
<1> DEFINE G == {k \in Nat : TakenOff(L, t[k], u, B, k)}
<1>3. 0 \in G
  <2>1. PICK T \in [Nat -> Link], F \in [Nat -> Link], n \in Nat :
                SoundAs(L, u, B, T, F, n)
    BY DEF Sound
  <2>2. n + 0 <= Cardinality(Iob)
    BY <2>1, ListFits DEF SoundAs
  <2> QED
    BY <1>2, <2>1, <2>2 DEF TakenOff
<1>4. ASSUME NEW k \in Nat, TakenOff(L, t[k], u, B, k)
      PROVE TakenOff(L, t[k + 1], u, B, k + 1)
  <2>1. PICK M : M = t[k]
    OBVIOUS
  <2>2. PICK T \in [Nat -> Link], F \in [Nat -> Link], n \in Nat :
            SoundAs(M, u, B, T, F, n) /\ (Finished(M) \/ n + k <= Cardinality(Iob))
    BY <1>4, <2>1 DEF TakenOff
  <2>3. M \in Lists /\ M.left = L.left /\ t[k + 1] = FinishOne[M]
    BY <1>2, <1>4, <2>1 DEF TakenOff
  <2>4. CASE Finished(M)
    <3>1. FinishOne[M] = M
      BY <2>3, <2>4 DEF FinishOne, Finished
    <3> QED
      BY <2>2, <2>3, <2>4, <3>1 DEF TakenOff
  <2>5. CASE ~ Finished(M)
    <3>0. HeadMoves(M, u, B, F, n)
      BY <2>2, <2>3, <2>5, OneFinished
    <3>1. PICK U \in [Nat -> Link], H \in [Nat -> Link] :
            SoundAs(FinishOne[M], u, B, U, H, n - 1)
      BY <3>0 DEF HeadMoves
    <3>2. FinishOne[M] \in Lists /\ FinishOne[M].left = M.left /\ n > 0
      BY <2>2, <2>3, <2>5, OneFinished
    <3>3. n - 1 \in Nat /\ (n - 1) + (k + 1) <= Cardinality(Iob)
      BY <2>2, <2>5, <3>2, NullNoBlock
    <3> QED
      BY <2>3, <3>1, <3>2, <3>3 DEF TakenOff
  <2> QED
    BY <2>4, <2>5
<1>5. \A k \in Nat : k \in G
  <2>1. \A k \in Nat : k \in G => k + 1 \in G
    BY <1>4
  <2>2. ASSUME NEW H, H = G PROVE \A k \in Nat : k \in H
    BY <1>3, <2>1, <2>2, AllNaturals
  <2> QED
    BY <2>2
<1>6. PICK N \in Nat : N = Cardinality(Iob)
  BY NullNoBlock
<1>7. PICK M : M = t[N]
  OBVIOUS
<1>8. Finish[L] = M
  BY <1>1, <1>6, <1>7 DEF Finish
<1>9. TakenOff(L, M, u, B, N)
  BY <1>5, <1>7
<1>10. PICK T \in [Nat -> Link], F \in [Nat -> Link], n \in Nat :
            SoundAs(M, u, B, T, F, n) /\ (Finished(M) \/ n + N <= N)
  BY <1>6, <1>9 DEF TakenOff
<1>11. Finished(M)
  <2>1. n = 0 => M.txhead = NULL
    BY <1>10 DEF SoundAs, Queued
  <2> QED
    BY <1>10, <2>1 DEF Finished
<1> QED
  BY <1>8, <1>9, <1>10, <1>11 DEF TakenOff, Sound

\* Less is to be sent, in the same order.
LEMMA LessToSend ==
    ASSUME NEW L \in Lists, NEW u, NEW B, NEW M \in Lists, Sound(L, u, B),
           M.txhead = L.txhead, M.txtail = L.txtail, M.freeiob = L.freeiob,
           M.next = L.next, \A b \in Iob : M.left[b] > 0 => L.left[b] > 0
    PROVE  Sound(M, u, B)
<1>1. PICK T \in [Nat -> Link], F \in [Nat -> Link], n \in Nat :
              SoundAs(L, u, B, T, F, n)
  BY DEF Sound
<1>2. Queued(M, T, n) /\ Unqueued(M, F)
  BY <1>1 DEF SoundAs, Queued, Unqueued
<1>3. InOrder(M, B, T)
  <2>1. \A i \in Nat : T[i] # NULL => T[i] \in Iob
    BY DEF Link
  <2> QED
    BY <1>1, <2>1 DEF SoundAs, InOrder
<1>4. SoundAs(M, u, B, T, F, n)
  BY <1>1, <1>2, <1>3 DEF SoundAs
<1> QED
  BY <1>4 DEF Sound

\* A turn puts one character at most.
LEMMA OnePut ==
    ASSUME NEW S \in Filling, NEW u, NEW B, Sound(S.lists, u, B)
    PROVE  /\ PutOne[S] \in Filling /\ PutOne[S].out <= S.out + 1
           /\ Sound(PutOne[S].lists, u, B)
<1>2. S \in Filling /\ S.lists \in Lists /\ S.out \in Nat
  BY DEF Filling
<1>1. PICK F \in Lists : F = Finish[S.lists]
  BY <1>2, AllFinished
<1>3. Sound(F, u, B) /\ Finished(F)
  BY <1>1, <1>2, AllFinished
<1>4. CASE F.txhead = NULL
  <2>1. PutOne[S] = [S EXCEPT !.lists = F]
    BY <1>1, <1>2, <1>4 DEF PutOne
  <2> QED
    BY <1>2, <1>3, <2>1 DEF Filling
<1>5. CASE F.txhead # NULL
  <2>1. PICK h : h = F.txhead /\ h \in Iob /\ F.left[h] > 0 /\ F.left[h] \in Nat
    BY <1>3, <1>5 DEF Finished, Lists
  <2>2. PICK M : M = [F EXCEPT !.left[h] = @ - 1]
    OBVIOUS
  <2>3. PutOne[S] = [lists |-> M, out |-> S.out + 1]
    BY <1>1, <1>2, <1>5, <2>1, <2>2 DEF PutOne
  <2>4. /\ M \in Lists /\ M.txhead = F.txhead /\ M.txtail = F.txtail
        /\ M.freeiob = F.freeiob /\ M.next = F.next
        /\ M.left = [F.left EXCEPT ![h] = @ - 1]
    BY <2>1, <2>2 DEF Lists
  <2>5. \A b \in Iob : M.left[b] > 0 => F.left[b] > 0
    BY <2>1, <2>4 DEF Lists
  <2>6. Sound(M, u, B)
    BY <1>3, <2>4, <2>5, LessToSend
  <2> QED
    BY <1>2, <1>3, <2>3, <2>4, <2>6 DEF Filling
<1> QED
  BY <1>4, <1>5
\* Filling the transmitter puts no more than the driver means to.
LEMMA Fills ==
    ASSUME NEW L \in Lists, NEW u, NEW B, Sound(L, u, B)
    PROVE  /\ Fill(L) \in Filling /\ Fill(L).out <= FIFO_SIZE
           /\ Sound(Fill(L).lists, u, B)
<1> DEFINE Whole == {S \in Filling : Sound(S.lists, u, B)}
<1>1. PICK S0 : S0 = [lists |-> L, out |-> 0]
  OBVIOUS
<1>2. S0 \in Whole /\ S0.out = 0
  BY <1>1 DEF Filling
<1>3. \A S \in Whole : PutOne[S] \in Whole /\ PutOne[S].out <= S.out + 1
  BY OnePut
<1>4. \A S \in Whole : S \in Filling /\ Sound(S.lists, u, B) /\ S.out \in Nat
  BY DEF Filling
<1> HIDE DEF Whole
<1>5. PICK g : g = PutOne
  OBVIOUS
<1>6. PICK t : t = Turns(g, S0)
  OBVIOUS
<1>7. t[0] = S0 /\ \A k \in Nat : t[k] \in Whole /\ t[k + 1] = g[t[k]]
  <2>1. \A S \in Whole : g[S] \in Whole
    BY <1>3, <1>5
  <2> QED
    BY <1>2, <1>6, <2>1, TurnsGo
<1>8. \A k \in Nat : t[k].out <= k
  <2>0. PICK G : \A k \in Nat : k \in G <=> t[k].out <= k
    <3>1. \A k \in Nat : k \in {j \in Nat : t[j].out <= j} <=> t[k].out <= k
      OBVIOUS
    <3> QED
      BY <3>1
  <2>1. 0 \in G
    BY <1>2, <1>7, <2>0
  <2>2. ASSUME NEW k \in Nat, k \in G PROVE k + 1 \in G
    <3>1. t[k] \in Whole /\ t[k + 1] = PutOne[t[k]] /\ t[k + 1] \in Whole
      BY <1>5, <1>7
    <3>2. t[k + 1].out <= t[k].out + 1 /\ t[k].out \in Nat /\ t[k + 1].out \in Nat
      BY <1>3, <1>4, <3>1
    <3> QED
      BY <2>0, <2>2, <3>2
  <2>3. \A k \in Nat : k \in G
    BY <2>1, <2>2, AllNaturals
  <2> QED
    BY <2>0, <2>3
<1>9. FIFO_SIZE \in Nat
  BY XmitAssumption
<1>10. Fill(L) = t[FIFO_SIZE]
  BY <1>1, <1>5, <1>6 DEF Fill
<1> QED
  BY <1>4, <1>7, <1>8, <1>9, <1>10

\* The interrupt's routine: a transmitter that is empty takes what is put.
LEMMA Transmits ==
    ASSUME NEW L \in Lists, NEW u, NEW B, Sound(L, u, B), xmit \in Nat, ~ overrun,
           FIFO_SIZE <= Depth, tty_xmit_intr(L)
    PROVE  lists' \in Lists /\ xmit' \in Nat /\ ~ overrun' /\ Sound(lists', u, B)
<1>1. CASE L.txhead = NULL \/ ~ TxReady
  BY <1>1 DEF tty_xmit_intr
<1>2. CASE ~ (L.txhead = NULL \/ ~ TxReady)
  <2>1. PICK S : S = Fill(L)
    OBVIOUS
  <2>2. /\ S.lists \in Lists /\ S.out \in Nat /\ S.out <= FIFO_SIZE
        /\ Sound(S.lists, u, B)
    BY <2>1, Fills DEF Filling
  <2>3. Depth \in Nat /\ FIFO_SIZE \in Nat
    BY XmitAssumption
  <2>4. PICK n \in Nat : n = xmit + S.out
    BY <2>2
  <2>5. n <= Depth
    BY <1>2, <2>2, <2>3, <2>4 DEF TxReady
  <2>6. /\ lists' = S.lists /\ overrun' = (overrun \/ n > Depth)
        /\ xmit' = IF n > Depth THEN Depth ELSE n
    BY <1>2, <2>1, <2>4 DEF tty_xmit_intr
  <2>7. ~ (n > Depth)
    BY <2>3, <2>5
  <2>8. ~ overrun' /\ xmit' = n
    BY <2>6, <2>7, Zenon
  <2> QED
    BY <2>2, <2>4, <2>6, <2>8
<1> QED
  BY <1>1, <1>2

\* A first block, on an empty list.
LEMMA FirstSound ==
    ASSUME NEW L \in Lists, NEW u, NEW B, NEW C, Sound(L, u, B), L.txhead = NULL,
           NEW b \in Iob, b \notin u, NEW m \in Nat, NEW N, \A d : <<d, b>> \notin C,
           N = [L EXCEPT !.left[b] = m, !.next[b] = NULL, !.txhead = b, !.txtail = b]
    PROVE  N \in Lists /\ Sound(N, u \cup {b}, C)
<1>1. /\ N \in Lists /\ N.txhead = b /\ N.txtail = b /\ N.freeiob = L.freeiob
      /\ N.left = [L.left EXCEPT ![b] = m] /\ N.next = [L.next EXCEPT ![b] = NULL]
  BY DEF Lists
<1>2. PICK T \in [Nat -> Link], F \in [Nat -> Link], n \in Nat :
              SoundAs(L, u, B, T, F, n)
  BY DEF Sound
<1>3. PICK U \in [Nat -> Link] : U[0] = b /\ \A i \in Nat : i # 0 => U[i] = NULL
  <2>1. [i \in Nat |-> IF i = 0 THEN b ELSE NULL] \in [Nat -> Link]
    BY DEF Link
  <2> QED
    BY <2>1
<1>4. \A i \in Nat : T[i] = NULL
  <2>1. T[0] = NULL
    BY <1>2 DEF SoundAs, Queued
  <2>2. n = 0
    BY <1>2, <2>1 DEF SoundAs, Queued
  <2> QED
    BY <1>2, <2>2 DEF SoundAs, Queued
<1>5. \A i \in Nat : F[i] # b
  BY <1>2, NullNoBlock DEF SoundAs, AllIn
<1>6. Queued(N, U, 1)
  <2>1. \A i \in Nat : i < 1 <=> i = 0
    OBVIOUS
  <2>2. \A i \in Nat : U[i] # NULL <=> i = 0
    BY <1>3, NullNoBlock
  <2>3. N.next[b] = NULL /\ U[1] = NULL
    BY <1>1, <1>3 DEF Lists
  <2> QED
    BY <1>1, <1>3, <2>1, <2>2, <2>3 DEF Queued
<1>7. Unqueued(N, F)
  <2>1. ASSUME NEW i \in Nat
        PROVE F[i + 1] = IF F[i] = NULL THEN NULL ELSE N.next[F[i]]
    <3>1. F[i] # NULL => F[i] \in Iob /\ F[i] # b
      BY <1>5 DEF Link
    <3>2. F[i] # NULL => N.next[F[i]] = L.next[F[i]]
      BY <1>1, <3>1 DEF Lists
    <3> QED
      BY <1>2, <3>2 DEF SoundAs, Unqueued
  <2> QED
    BY <1>1, <1>2, <2>1 DEF SoundAs, Unqueued
<1>8. Once(U) /\ Once(F) /\ Disjoint(U, F)
  <2>1. Once(U)
    BY <1>3 DEF Once
  <2>2. Disjoint(U, F)
    BY <1>3, <1>5 DEF Disjoint
  <2> QED
    BY <1>2, <2>1, <2>2 DEF SoundAs
<1>9. AllIn(u \cup {b}, U) /\ AllIn(u \cup {b}, F)
  BY <1>2, <1>3 DEF SoundAs, AllIn
<1>10. InOrder(N, C, U)
  <2>1. \A c \in Iob : L.left[c] > 0 => FALSE
    BY <1>2, <1>4, NullNoBlock DEF SoundAs, InOrder
  <2>2. \A c \in Iob : N.left[c] > 0 => c = b
    BY <1>1, <2>1 DEF Lists
  <2>3. \A i \in Nat : U[i] # NULL => i = 0
    BY <1>3
  <2> QED
    BY <1>3, <2>2, <2>3 DEF InOrder
<1>11. SoundAs(N, u \cup {b}, C, U, F, 1)
  BY <1>6, <1>7, <1>8, <1>9, <1>10 DEF SoundAs
<1> QED
  BY <1>1, <1>11 DEF Sound

\* The calls that came before that which queues b.
Earlier(L, B, b) ==
    LET W == {c \in Iob : L.left[c] > 0} IN (B \cap (W \X W)) \cup (W \X {b})

\* A block that is got for m characters.
WithBlock(L, b, m) == [L EXCEPT !.left[b] = m, !.next[b] = NULL]

\* One more block, behind the last.
LEMMA NextSound ==
    ASSUME NEW L \in Lists, NEW u, NEW B, Sound(L, u, B), L.txhead # NULL,
           NEW b \in Iob, b \notin u, NEW m \in Nat
    PROVE  /\ Linked(WithBlock(L, b, m), b) \in Lists
           /\ Sound(Linked(WithBlock(L, b, m), b), u \cup {b}, Earlier(L, B, b))
<1> DEFINE N == WithBlock(L, b, m)
<1>0. PICK M : M = Linked(N, b)
  OBVIOUS
<1>1. PICK T \in [Nat -> Link], F \in [Nat -> Link], n \in Nat :
              SoundAs(L, u, B, T, F, n)
  BY DEF Sound
<1>2. n > 0 /\ L.txtail = T[n - 1] /\ T[n - 1] # NULL /\ n - 1 \in Nat
  <2>1. T[0] # NULL
    BY <1>1 DEF SoundAs, Queued
  <2>2. n > 0
    BY <1>1, <2>1 DEF SoundAs, Queued
  <2> QED
    BY <1>1, <2>2 DEF SoundAs, Queued
<1>3. PICK l \in Iob : l = T[n - 1]
  BY <1>2 DEF Link
<1>4. \A i \in Nat : T[i] # b /\ F[i] # b
  BY <1>1, NullNoBlock DEF SoundAs, AllIn
<1>5. /\ N \in Lists /\ N.txtail = l /\ N.txhead = L.txhead /\ N.freeiob = L.freeiob
      /\ N.left = [L.left EXCEPT ![b] = m] /\ N.next = [L.next EXCEPT ![b] = NULL]
  BY <1>2, <1>3 DEF Lists, WithBlock
<1> HIDE DEF N
<1>6. /\ M \in Lists /\ M.txhead = L.txhead /\ M.txtail = b
      /\ M.freeiob = L.freeiob /\ M.left = [L.left EXCEPT ![b] = m]
      /\ M.next = [[L.next EXCEPT ![b] = NULL] EXCEPT ![l] = b]
  BY <1>0, <1>5 DEF Linked, Lists
<1>7. PICK P : P = M.next
  OBVIOUS
<1>8. l # b /\ \A c \in Iob : P[c] = IF c = l THEN b ELSE IF c = b THEN NULL ELSE L.next[c]
  BY <1>3, <1>4, <1>6, <1>7, <1>2 DEF Lists
<1>9. PICK U \in [Nat -> Link] : \A i \in Nat : U[i] = IF i = n THEN b ELSE T[i]
  <2>1. [i \in Nat |-> IF i = n THEN b ELSE T[i]] \in [Nat -> Link]
    BY DEF Link
  <2> QED
    BY <2>1
<1>10. T[n] = NULL /\ \A i \in Nat : i < n <=> T[i] # NULL
  BY <1>1 DEF SoundAs, Queued
<1>11. Queued(M, U, n + 1)
  <2>1. \A i \in Nat : i < n + 1 <=> U[i] # NULL
    BY <1>9, <1>10, NullNoBlock
  <2>2. ASSUME NEW i \in Nat, U[i] # NULL PROVE U[i + 1] = P[U[i]]
    <3>1. CASE i = n
      <4>1. U[i] = b /\ U[i + 1] = T[n + 1] /\ T[n + 1] = NULL
        BY <1>9, <1>10, <3>1
      <4> QED
        BY <1>8, <4>1
    <3>2. CASE i = n - 1
      BY <1>2, <1>3, <1>8, <1>9, <3>2
    <3>3. CASE i # n /\ i # n - 1
      <4>1. i + 1 # n /\ U[i] = T[i] /\ U[i + 1] = T[i + 1]
        BY <1>9, <3>3
      <4>2. T[i] \in Iob /\ T[i] # b /\ T[i + 1] = L.next[T[i]]
        BY <1>1, <1>4, <2>2, <4>1 DEF SoundAs, Queued, Link
      <4>3. T[i] # l
        BY <1>1, <1>2, <1>3, <2>2, <3>3, <4>1 DEF SoundAs, Once
      <4> QED
        BY <1>8, <4>1, <4>2, <4>3
    <3> QED
      BY <3>1, <3>2, <3>3
  <2>3. U[0] = M.txhead
    BY <1>1, <1>2, <1>6, <1>9 DEF SoundAs, Queued
  <2>4. M.txtail = U[(n + 1) - 1] /\ n + 1 # 0
    BY <1>6, <1>9
  <2> QED
    BY <1>7, <2>1, <2>2, <2>3, <2>4 DEF Queued
<1>12. Unqueued(M, F)
  <2>1. ASSUME NEW i \in Nat
        PROVE F[i + 1] = IF F[i] = NULL THEN NULL ELSE P[F[i]]
    <3>1. F[i] # NULL => F[i] \in Iob /\ F[i] # b /\ F[i] # l
      BY <1>1, <1>2, <1>3, <1>4 DEF SoundAs, Disjoint, Link
    <3>2. F[i] # NULL => P[F[i]] = L.next[F[i]]
      BY <1>8, <3>1
    <3> QED
      BY <1>1, <3>2 DEF SoundAs, Unqueued
  <2> QED
    BY <1>1, <1>6, <1>7, <2>1 DEF SoundAs, Unqueued
<1>13. Once(U)
  BY <1>1, <1>4, <1>9, <1>10 DEF SoundAs, Once
<1>14. Disjoint(U, F)
  BY <1>1, <1>4, <1>9 DEF SoundAs, Disjoint
<1>15. AllIn(u \cup {b}, U) /\ AllIn(u \cup {b}, F)
  BY <1>1, <1>9 DEF SoundAs, AllIn
<1>16. InOrder(M, Earlier(L, B, b), U)
  <2>1. \A c \in Iob : M.left[c] = IF c = b THEN m ELSE L.left[c]
    BY <1>6 DEF Lists
  <2>2. ~ (L.left[b] > 0)
    BY <1>1, <1>4 DEF SoundAs, InOrder
  <2>3. ASSUME NEW c \in Iob, M.left[c] > 0 PROVE \E i \in Nat : U[i] = c
    <3>1. CASE c = b
      BY <1>9, <3>1
    <3>2. CASE c # b
      <4>1. PICK i \in Nat : T[i] = c
        BY <1>1, <2>1, <2>3, <3>2 DEF SoundAs, InOrder
      <4>2. i # n
        BY <1>10, <4>1, NullNoBlock
      <4> QED
        BY <1>9, <4>1, <4>2
    <3> QED
      BY <3>1, <3>2
  <2>4. ASSUME NEW i \in Nat, NEW j \in Nat, U[i] # NULL, U[j] # NULL,
               M.left[U[i]] > 0, M.left[U[j]] > 0
        PROVE  i < j <=> <<U[i], U[j]>> \in Earlier(L, B, b)
    <3>1. U[i] \in Iob /\ U[j] \in Iob
      BY <2>4 DEF Link
    <3>2. /\ U[i] # b => L.left[U[i]] > 0 /\ U[i] = T[i]
          /\ U[j] # b => L.left[U[j]] > 0 /\ U[j] = T[j]
          /\ i = n <=> U[i] = b
          /\ j = n <=> U[j] = b
      BY <1>4, <1>9, <2>1, <2>4, <3>1
    <3>3. \A x, y : <<x, y>> \in Earlier(L, B, b) <=>
                \/ /\ <<x, y>> \in B /\ x \in Iob /\ y \in Iob
                   /\ L.left[x] > 0 /\ L.left[y] > 0
                \/ x \in Iob /\ L.left[x] > 0 /\ y = b
      BY Zenon DEF Earlier
    <3>4. i <= n /\ j <= n
      BY <1>9, <1>10, <2>4
    <3>5. CASE U[i] = b
      <4>1. ~ (i < j)
        BY <3>2, <3>4, <3>5
      <4>2. <<U[i], U[j]>> \notin Earlier(L, B, b)
        BY <2>2, <3>3, <3>5
      <4> QED
        BY <4>1, <4>2
    <3>6. CASE U[i] # b /\ U[j] = b
      <4>1. i < j
        BY <3>2, <3>4, <3>6
      <4>2. <<U[i], U[j]>> \in Earlier(L, B, b)
        BY <3>1, <3>2, <3>3, <3>6
      <4> QED
        BY <4>1, <4>2
    <3>7. CASE U[i] # b /\ U[j] # b
      <4>1. i < j <=> <<T[i], T[j]>> \in B
        BY <1>1, <2>4, <3>2, <3>7 DEF SoundAs, InOrder
      <4>2. <<U[i], U[j]>> \in Earlier(L, B, b) <=> <<T[i], T[j]>> \in B
        BY <3>1, <3>2, <3>3, <3>7
      <4> QED
        BY <4>1, <4>2
    <3> QED
      BY <3>5, <3>6, <3>7
  <2> QED
    BY <2>3, <2>4 DEF InOrder
<1>17. SoundAs(M, u \cup {b}, Earlier(L, B, b), U, F, n + 1)
  BY <1>1, <1>11, <1>12, <1>13, <1>14, <1>15, <1>16 DEF SoundAs
<1>18. M \in Lists /\ Sound(M, u \cup {b}, Earlier(L, B, b))
  BY <1>6, <1>17 DEF Sound
<1> QED
  BY <1>0, <1>18 DEF N
-----------------------------------------------------------------------------
XmitPlace == {"out", "check", "empty", "blocked", "freeing", "unlink", "queue", "intruder"}
TaskRecord == [at : XmitPlace, len : Nat, iob : Link, nxt : Link]

XmitTypeOK ==
    /\ lists \in Lists /\ used \subseteq Iob
    /\ xmit \in Nat /\ echo \in Nat
    /\ task \in [XTask -> TaskRecord]
    /\ \A t \in XTask : task[t].at = "unlink" => task[t].iob \in Iob

XmitInv == XmitTypeOK /\ ~ overrun /\ (~ raced => Sound(lists, used, before))

LEMMA XmitStarts == XmitInit => XmitInv
<1> SUFFICES ASSUME XmitInit PROVE XmitInv
  OBVIOUS
<1>1. lists \in Lists
  BY DEF XmitInit, Lists
<1>2. task \in [XTask -> TaskRecord]
  <2>1. ASSUME NEW t \in XTask PROVE task[t] \in TaskRecord
    <3>1. \/ task[t] = [at |-> "check", len |-> 0, iob |-> NULL, nxt |-> NULL]
          \/ task[t] = [at |-> "out", len |-> 0, iob |-> NULL, nxt |-> NULL]
      BY DEF XmitInit
    <3> QED
      BY <3>1 DEF TaskRecord, XmitPlace, Link
  <2>2. task = [t \in XTask |-> task[t]]
    BY DEF XmitInit
  <2> QED
    BY <2>1, <2>2
<1>3. \A t \in XTask : task[t].at # "unlink"
  BY DEF XmitInit
<1>4. XmitTypeOK
  BY <1>1, <1>2, <1>3 DEF XmitInit, XmitTypeOK
<1>5. PICK T \in [Nat -> Link] : \A i \in Nat : T[i] = NULL
  <2>1. [i \in Nat |-> NULL] \in [Nat -> Link]
    BY DEF Link
  <2> QED
    BY <2>1
<1>6. /\ lists.txhead = NULL /\ lists.txtail = NULL /\ lists.freeiob = NULL
      /\ \A b \in Iob : lists.left[b] = 0
  BY DEF XmitInit
<1>7. Queued(lists, T, 0) /\ Unqueued(lists, T) /\ InOrder(lists, before, T)
  BY <1>5, <1>6 DEF Queued, Unqueued, InOrder
<1>8. Once(T) /\ Disjoint(T, T) /\ AllIn(used, T)
  BY <1>5 DEF Once, Disjoint, AllIn
<1>9. SoundAs(lists, used, before, T, T, 0)
  BY <1>7, <1>8 DEF SoundAs
<1>10. Sound(lists, used, before)
  BY <1>9 DEF Sound
<1> QED
  BY <1>4, <1>10 DEF XmitInv, XmitInit

\* The walk along the links of a well formed list is the list.
LEMMA AlongList ==
    ASSUME lists \in Lists, NEW T \in [Nat -> Link], NEW b \in Link, T[0] = b,
           \A i \in Nat : T[i + 1] = IF T[i] = NULL THEN NULL ELSE lists.next[T[i]]
    PROVE  \A k \in 0 .. Cardinality(Iob) : Along(b)[k] = T[k]
<1>1. PICK g : g = Follower
  OBVIOUS
<1>2. \A x \in Link : g[x] = IF x = NULL THEN NULL ELSE lists.next[x]
  BY <1>1 DEF Follower, Link
<1>3. \A x \in Link : g[x] \in Link
  BY <1>2 DEF Link, Lists
<1>4. PICK w : w = Turns(g, b)
  OBVIOUS
<1>5. w[0] = b /\ \A k \in Nat : w[k] \in Link /\ w[k + 1] = g[w[k]]
  BY <1>3, <1>4, TurnsGo
<1>6. PICK G : \A k \in Nat : k \in G <=> w[k] = T[k]
  <2>1. \A k \in Nat : k \in {j \in Nat : w[j] = T[j]} <=> w[k] = T[k]
    OBVIOUS
  <2> QED
    BY <2>1
<1>7. 0 \in G
  BY <1>5, <1>6
<1>8. ASSUME NEW k \in Nat, k \in G PROVE k + 1 \in G
  <2>1. w[k] = T[k] /\ w[k] \in Link /\ w[k + 1] = g[w[k]]
    BY <1>5, <1>6, <1>8
  <2>2. g[w[k]] = IF T[k] = NULL THEN NULL ELSE lists.next[T[k]]
    BY <1>2, <2>1
  <2>3. w[k + 1] = T[k + 1]
    BY <2>1, <2>2
  <2> QED
    BY <1>6, <2>3
<1>9. \A k \in Nat : w[k] = T[k]
  <2>1. \A k \in Nat : k \in G
    BY <1>7, <1>8, AllNaturals
  <2> QED
    BY <1>6, <2>1
<1> QED
  BY <1>1, <1>4, <1>9, NullNoBlock DEF Along

LEMMA QueuedWalks ==
    ASSUME NEW L, NEW T \in [Nat -> Link], NEW n \in Nat, Queued(L, T, n)
    PROVE  \A i \in Nat : T[i + 1] = IF T[i] = NULL THEN NULL ELSE L.next[T[i]]
<1> SUFFICES ASSUME NEW i \in Nat, T[i] = NULL PROVE T[i + 1] = NULL
  BY DEF Queued
<1> QED
  BY DEF Queued

\* The invariant says what is promised.
LEMMA XmitInvOrder == XmitInv => SentInOrder
<1> SUFFICES ASSUME XmitInv PROVE SentInOrder
  OBVIOUS
<1> SUFFICES ASSUME ~ raced
             PROVE  LET tx == Along(lists.txhead) IN
                    /\ Waiting \subseteq Chained(lists.txhead) \cap used
                    /\ \A i, j \in DOMAIN tx : {tx[i], tx[j]} \subseteq Waiting =>
                            (i < j <=> <<tx[i], tx[j]>> \in before)
  BY DEF SentInOrder, XmitInv
<1>1. PICK T \in [Nat -> Link], F \in [Nat -> Link], n \in Nat :
            SoundAs(lists, used, before, T, F, n)
  BY DEF XmitInv, Sound
<1>2. lists \in Lists /\ lists.txhead \in Link /\ T[0] = lists.txhead
  BY <1>1 DEF XmitInv, XmitTypeOK, Lists, Link, SoundAs, Queued
<1>3. PICK tx : tx = Along(lists.txhead)
  OBVIOUS
<1>4. PICK N \in Nat : N = Cardinality(Iob)
  BY NullNoBlock
<1>5. \A k \in 0 .. N : tx[k] = T[k]
  <2>1. \A i \in Nat : T[i + 1] = IF T[i] = NULL THEN NULL ELSE lists.next[T[i]]
    BY <1>1, QueuedWalks DEF SoundAs
  <2> QED
    BY <1>2, <1>3, <1>4, <2>1, AlongList
<1>6. DOMAIN tx = 0 .. N
  BY <1>3, <1>4 DEF Along
<1>7. n <= N
  BY <1>1, <1>4, ListFits DEF SoundAs
<1>8. \A c \in Iob : c \in Waiting <=> lists.left[c] > 0
  BY DEF Waiting
<1>9. ASSUME NEW c \in Waiting PROVE c \in Chained(lists.txhead) /\ c \in used
  <2>1. c \in Iob /\ c # NULL /\ lists.left[c] > 0
    BY <1>9, NullNoBlock DEF Waiting
  <2>2. PICK i \in Nat : T[i] = c
    BY <1>1, <2>1 DEF SoundAs, InOrder
  <2>3. i < n /\ c \in used
    BY <1>1, <2>1, <2>2 DEF SoundAs, Queued, AllIn
  <2>4. i \in 0 .. N /\ tx[i] = c
    BY <1>5, <1>7, <2>2, <2>3
  <2> QED
    BY <1>3, <1>4, <2>1, <2>3, <2>4 DEF Chained
<1>10. ASSUME NEW i \in DOMAIN tx, NEW j \in DOMAIN tx, {tx[i], tx[j]} \subseteq Waiting
       PROVE  i < j <=> <<tx[i], tx[j]>> \in before
  <2>1. i \in Nat /\ j \in Nat /\ tx[i] = T[i] /\ tx[j] = T[j]
    BY <1>5, <1>6
  <2>2. /\ T[i] # NULL /\ T[j] # NULL
        /\ lists.left[T[i]] > 0 /\ lists.left[T[j]] > 0
    BY <1>10, <2>1, NullNoBlock DEF Waiting
  <2> QED
    BY <1>1, <2>1, <2>2 DEF SoundAs, InOrder
<1> QED
  BY <1>3, <1>9, <1>10

\* tty_freeiob unlinks a block that is still free.
LEMMA FreeSound ==
    ASSUME lists \in Lists, Sound(lists, used, before), NEW b \in Iob, NEW x \in Link,
           StillFree(b, x), NEW M, M = [lists EXCEPT !.freeiob = x]
    PROVE  M \in Lists /\ Sound(M, used \ {b}, before)
<1>1. PICK T \in [Nat -> Link], F \in [Nat -> Link], n \in Nat :
            SoundAs(lists, used, before, T, F, n)
  BY DEF Sound
<1>2. PICK N \in Nat : N = Cardinality(Iob)
  BY NullNoBlock
<1>3. PICK k \in 0 .. N : Along(lists.freeiob)[k] = b
  BY <1>2 DEF StillFree, Chained
<1>4. lists.freeiob \in Link /\ F[0] = lists.freeiob
  BY <1>1 DEF Lists, Link, SoundAs, Unqueued
<1>5. \A i \in 0 .. N : Along(lists.freeiob)[i] = F[i]
  <2>1. \A i \in Nat : F[i + 1] = IF F[i] = NULL THEN NULL ELSE lists.next[F[i]]
    BY <1>1 DEF SoundAs, Unqueued
  <2> QED
    BY <1>2, <1>4, <2>1, AlongList
<1>6. k \in Nat /\ F[k] = b /\ b # NULL
  BY <1>3, <1>5, NullNoBlock
<1>7. F[k + 1] = x
  BY <1>1, <1>6 DEF SoundAs, Unqueued, StillFree
<1>8. /\ M \in Lists /\ M.txhead = lists.txhead /\ M.txtail = lists.txtail
      /\ M.next = lists.next /\ M.left = lists.left /\ M.freeiob = x
  BY DEF Lists, Link
<1>9. PICK G \in [Nat -> Link] : \A i \in Nat : G[i] = F[i + (k + 1)]
  <2>1. [i \in Nat |-> F[i + (k + 1)]] \in [Nat -> Link]
    BY <1>6
  <2> QED
    BY <2>1
<1>10. Queued(M, T, n) /\ InOrder(M, before, T)
  BY <1>1, <1>8 DEF SoundAs, Queued, InOrder
<1>11. Unqueued(M, G)
  <2>1. G[0] = x
    BY <1>6, <1>7, <1>9
  <2>2. ASSUME NEW i \in Nat
        PROVE G[i + 1] = IF G[i] = NULL THEN NULL ELSE M.next[G[i]]
    <3>1. /\ i + (k + 1) \in Nat /\ (i + 1) + (k + 1) = (i + (k + 1)) + 1
          /\ G[i] = F[i + (k + 1)] /\ G[i + 1] = F[(i + 1) + (k + 1)]
      BY <1>6, <1>9
    <3> QED
      BY <1>1, <1>8, <3>1 DEF SoundAs, Unqueued
  <2> QED
    BY <1>8, <2>1, <2>2 DEF Unqueued
<1>12. Once(G) /\ Disjoint(T, G)
  <2>1. \A i \in Nat : i + (k + 1) \in Nat
    BY <1>6
  <2>2. ASSUME NEW i \in Nat, NEW j \in Nat, G[i] = G[j], G[i] # NULL PROVE i = j
    <3>1. i + (k + 1) = j + (k + 1)
      BY <1>1, <1>9, <2>1, <2>2 DEF SoundAs, Once
    <3> QED
      BY <1>6, <3>1
  <2>3. Disjoint(T, G)
    BY <1>1, <1>9, <2>1 DEF SoundAs, Disjoint
  <2> QED
    BY <2>2, <2>3 DEF Once
<1>13. AllIn(used \ {b}, T)
  BY <1>1, <1>6 DEF SoundAs, AllIn, Disjoint
<1>14. AllIn(used \ {b}, G)
  <2> SUFFICES ASSUME NEW i \in Nat, G[i] # NULL PROVE G[i] \in used \ {b}
    BY DEF AllIn
  <2>1. i + (k + 1) \in Nat /\ i + (k + 1) # k /\ G[i] = F[i + (k + 1)]
    BY <1>6, <1>9
  <2> QED
    BY <1>1, <1>6, <2>1 DEF SoundAs, AllIn, Once
<1>15. SoundAs(M, used \ {b}, before, T, G, n)
  BY <1>1, <1>10, <1>11, <1>12, <1>13, <1>14 DEF SoundAs
<1> QED
  BY <1>8, <1>15 DEF Sound
-----------------------------------------------------------------------------
\* A task's step leaves the other tasks as they are.
TaskMay(r) == r \in TaskRecord /\ (r.at = "unlink" => r.iob \in Iob)
TasksOK == task \in [XTask -> TaskRecord] /\ \A t \in XTask : TaskMay(task[t])

LEMMA OneTask ==
    ASSUME TasksOK, NEW t \in XTask, NEW r, TaskMay(r), task' = [task EXCEPT ![t] = r]
    PROVE  TasksOK'
BY DEF TasksOK, TaskMay

LEMMA TasksTyped ==
    ASSUME XmitInv
    PROVE  TasksOK /\ \A t \in XTask : /\ task[t] \in TaskRecord
                                       /\ task[t].at = "unlink" => task[t].iob \in Iob
BY DEF TasksOK, TaskMay, XmitInv, XmitTypeOK

LEMMA WriteStep ==
    ASSUME XmitInv, NEW t \in Writer, tty_write(t)
    PROVE  XmitInv'
<1>1. PICK m \in Lens : task' = [task EXCEPT ![t].at = "freeing", ![t].len = m]
  BY DEF tty_write
<1>2. t \in XTask /\ m \in Nat /\ task[t] \in TaskRecord
  BY XmitAssumption, TasksTyped DEF XTask
<1>3. PICK r : r = [task[t] EXCEPT !.at = "freeing", !.len = m]
  OBVIOUS
<1>4. TaskMay(r)
  BY <1>2, <1>3 DEF TaskRecord, XmitPlace, TaskMay
<1>5. task' = [task EXCEPT ![t] = r]
  BY <1>1, <1>2, <1>3, TasksTyped DEF TasksOK
<1>6. TasksOK'
  BY <1>2, <1>4, <1>5, TasksTyped, OneTask
<1> QED
  BY <1>6 DEF tty_write, XmitInv, XmitTypeOK, TasksOK, TaskMay

LEMMA ReadsStep ==
    ASSUME XmitInv, NEW t \in XTask, tty_freeiob_reads(t)
    PROVE  XmitInv'
<1>1. task[t] \in TaskRecord /\ lists \in Lists
  BY DEF XmitInv, XmitTypeOK
<1>2. PICK r : r = IF lists.freeiob = NULL THEN [task[t] EXCEPT !.at = "queue"]
                   ELSE [task[t] EXCEPT !.at = "unlink", !.iob = lists.freeiob,
                                        !.nxt = lists.next[lists.freeiob]]
  OBVIOUS
<1>3. TaskMay(r)
  <2>1. CASE lists.freeiob = NULL
    BY <1>1, <1>2, <2>1 DEF TaskRecord, XmitPlace, TaskMay
  <2>2. CASE lists.freeiob # NULL
    <3>1. lists.freeiob \in Iob /\ lists.next[lists.freeiob] \in Link
      BY <1>1, <2>2 DEF Lists, Link
    <3> QED
      BY <1>1, <1>2, <2>2, <3>1 DEF TaskRecord, XmitPlace, TaskMay, Link
  <2> QED
    BY <2>1, <2>2
<1>4. task' = [task EXCEPT ![t] = r]
  <2>1. CASE lists.freeiob = NULL
    BY <1>2, <2>1, TasksTyped DEF tty_freeiob_reads, TasksOK
  <2>2. CASE lists.freeiob # NULL
    BY <1>2, <2>2, TasksTyped DEF tty_freeiob_reads, TasksOK
  <2> QED
    BY <2>1, <2>2
<1>5. TasksOK'
  BY <1>3, <1>4, TasksTyped, OneTask
<1> QED
  BY <1>5 DEF tty_freeiob_reads, XmitInv, XmitTypeOK, TasksOK, TaskMay

LEMMA FreesStep ==
    ASSUME XmitInv, ~ raced, NEW t \in XTask, tty_freeiob_frees(t)
    PROVE  XmitInv'
<1>1. task[t] \in TaskRecord /\ lists \in Lists /\ task[t].iob \in Iob
  BY DEF XmitInv, XmitTypeOK, tty_freeiob_frees
<1>2. PICK b \in Iob : b = task[t].iob
  BY <1>1
<1>3. PICK x \in Link : x = task[t].nxt
  BY <1>1 DEF TaskRecord
<1>4. /\ lists' = [lists EXCEPT !.freeiob = x] /\ used' = used \ {b}
      /\ raced' = ~ StillFree(b, x) /\ xmit' = xmit /\ echo' = echo
      /\ overrun' = overrun /\ before' = before
  BY <1>2, <1>3 DEF tty_freeiob_frees
<1>5. PICK r : r = [task[t] EXCEPT !.at = "freeing", !.iob = NULL, !.nxt = NULL]
  OBVIOUS
<1>6. TaskMay(r)
  BY <1>1, <1>5 DEF TaskRecord, XmitPlace, TaskMay, Link
<1>7. task' = [task EXCEPT ![t] = r]
  BY <1>5, TasksTyped DEF tty_freeiob_frees, TasksOK
<1>8. TasksOK'
  BY <1>6, <1>7, TasksTyped, OneTask
<1>9. lists' \in Lists
  BY <1>1, <1>4 DEF Lists, Link
<1>10. ~ raced' => Sound(lists', used', before')
  <2> SUFFICES ASSUME ~ raced' PROVE Sound(lists', used', before')
    OBVIOUS
  <2>1. StillFree(b, x)
    BY <1>4
  <2>2. PICK M : M = [lists EXCEPT !.freeiob = x]
    OBVIOUS
  <2>3. Sound(M, used \ {b}, before)
    BY <1>1, <2>1, <2>2, FreeSound DEF XmitInv
  <2> QED
    BY <1>4, <2>2, <2>3
<1> QED
  BY <1>4, <1>8, <1>9, <1>10 DEF XmitInv, XmitTypeOK, TasksOK, TaskMay

\* What is not on the list, or was not allocated, has nothing to be sent.
LEMMA NothingLeft ==
    ASSUME NEW L, NEW u, NEW B, Sound(L, u, B)
    PROVE  /\ \A b \in Iob : b \notin u => ~ (L.left[b] > 0)
           /\ L.txhead = NULL => \A b \in Iob : ~ (L.left[b] > 0)
<1>1. PICK T \in [Nat -> Link], F \in [Nat -> Link], n \in Nat :
              SoundAs(L, u, B, T, F, n)
  BY DEF Sound
<1>2. ASSUME NEW b \in Iob, L.left[b] > 0 PROVE b \in u /\ L.txhead # NULL
  <2>1. PICK i \in Nat : T[i] = b
    BY <1>1, <1>2 DEF SoundAs, InOrder
  <2>2. b \in u /\ i < n
    BY <1>1, <2>1, NullNoBlock DEF SoundAs, AllIn, Queued
  <2>3. 0 < n /\ 0 \in Nat
    BY <2>2
  <2> QED
    BY <1>1, <2>2, <2>3 DEF SoundAs, Queued
<1> QED
  BY <1>2

LEMMA BlockQueued ==
    ASSUME XmitInv, ~ raced, FIFO_SIZE <= Depth, NEW b \in Iob, b \notin used,
           NEW m \in Nat, NEW N, N = WithBlock(lists, b, m),
           before' = Earlier(lists, before, b),
           IF lists.txhead = NULL
           THEN tty_xmit_intr([N EXCEPT !.txhead = b, !.txtail = b])
           ELSE lists' = Linked(N, b) /\ UNCHANGED <<xmit, overrun>>
    PROVE  /\ lists' \in Lists /\ xmit' \in Nat /\ ~ overrun'
           /\ Sound(lists', used \cup {b}, before')
<1>1. /\ Sound(lists, used, before) /\ lists \in Lists /\ xmit \in Nat
      /\ ~ overrun /\ used \subseteq Iob
  BY DEF XmitInv, XmitTypeOK
<1>2. PICK C : C = Earlier(lists, before, b)
  OBVIOUS
<1>3. CASE lists.txhead = NULL
  <2>1. PICK M : M = [N EXCEPT !.txhead = b, !.txtail = b]
    OBVIOUS
  <2>2. M = [lists EXCEPT !.left[b] = m, !.next[b] = NULL, !.txhead = b, !.txtail = b]
    BY <2>1 DEF WithBlock
  <2>3. \A d : <<d, b>> \notin C
    <3>1. \A c \in Iob : ~ (lists.left[c] > 0)
      BY <1>1, <1>3, NothingLeft
    <3>2. PICK W : W = {c \in Iob : lists.left[c] > 0}
      OBVIOUS
    <3>3. \A c : c \notin W
      BY <3>1, <3>2
    <3>4. C = (before \cap (W \X W)) \cup (W \X {b})
      BY <1>2, <3>2 DEF Earlier
    <3> QED
      BY <3>3, <3>4
  <2>4. M \in Lists /\ Sound(M, used \cup {b}, C)
    BY <1>1, <1>3, <2>2, <2>3, FirstSound
  <2>5. tty_xmit_intr(M)
    BY <1>3, <2>1
  <2> QED
    BY <1>1, <1>2, <2>4, <2>5, Transmits
<1>4. CASE lists.txhead # NULL
  <2>1. PICK M : M = Linked(N, b)
    OBVIOUS
  <2>2. M \in Lists /\ Sound(M, used \cup {b}, Earlier(lists, before, b))
    BY <1>1, <1>4, <2>1, NextSound
  <2> QED
    BY <1>1, <1>4, <2>1, <2>2
<1> QED
  BY <1>3, <1>4

LEMMA QueuesStep ==
    ASSUME XmitInv, ~ raced, FIFO_SIZE <= Depth, NEW t \in XTask, tty_write_queues(t)
    PROVE  XmitInv'
<1>1. task[t] \in TaskRecord /\ task[t].len \in Nat
  BY DEF XmitInv, XmitTypeOK, TaskRecord
<1>2. PICK a \in {"check", "out"} : a = IF t = Echo THEN "check" ELSE "out"
  OBVIOUS
<1>3. PICK r : r = [task[t] EXCEPT !.at = a, !.len = 0]
  OBVIOUS
<1>4. TaskMay(r)
  BY <1>1, <1>2, <1>3 DEF TaskRecord, XmitPlace, TaskMay
<1>5. task' = [task EXCEPT ![t] = r]
  BY <1>2, <1>3, TasksTyped DEF tty_write_queues, TasksOK
<1>6. TasksOK'
  BY <1>4, <1>5, TasksTyped, OneTask
<1>7. UNCHANGED <<txrdy, echo, writes, raced>>
  BY DEF tty_write_queues
<1>8. CASE UNCHANGED <<lists, used, before, xmit, overrun>>
  BY <1>6, <1>7, <1>8 DEF XmitInv, XmitTypeOK, TasksOK, TaskMay
<1>9. CASE \E b \in Iob \ used :
            LET N == [lists EXCEPT !.left[b] = task[t].len, !.next[b] = NULL]
            IN /\ used' = used \cup {b}
               /\ before' = (before \cap (Waiting \X Waiting))
                                \cup (Waiting \X {b})
               /\ IF lists.txhead = NULL
                  THEN tty_xmit_intr([N EXCEPT !.txhead = b, !.txtail = b])
                  ELSE lists' = Linked(N, b) /\ UNCHANGED <<xmit, overrun>>
  <2>0. PICK b \in Iob \ used :
            \E N :
            /\ N = [lists EXCEPT !.left[b] = task[t].len, !.next[b] = NULL]
            /\ used' = used \cup {b}
            /\ before' = (before \cap (Waiting \X Waiting)) \cup (Waiting \X {b})
            /\ IF lists.txhead = NULL
               THEN tty_xmit_intr([N EXCEPT !.txhead = b, !.txtail = b])
               ELSE lists' = Linked(N, b) /\ UNCHANGED <<xmit, overrun>>
    BY <1>9, Zenon
  <2>1. PICK N :
            /\ N = [lists EXCEPT !.left[b] = task[t].len, !.next[b] = NULL]
            /\ used' = used \cup {b}
            /\ before' = (before \cap (Waiting \X Waiting)) \cup (Waiting \X {b})
            /\ IF lists.txhead = NULL
               THEN tty_xmit_intr([N EXCEPT !.txhead = b, !.txtail = b])
               ELSE lists' = Linked(N, b) /\ UNCHANGED <<xmit, overrun>>
    BY <2>0, Zenon
  <2>2. PICK m \in Nat : m = task[t].len
    BY <1>1
  <2>5. N = WithBlock(lists, b, m)
    BY <2>1, <2>2 DEF WithBlock
  <2>3. before' = Earlier(lists, before, b)
    BY <2>1, Zenon DEF Earlier, Waiting
  <2>4. /\ lists' \in Lists /\ xmit' \in Nat /\ ~ overrun'
        /\ Sound(lists', used \cup {b}, before')
    BY <2>1, <2>3, <2>5, BlockQueued
  <2> QED
    BY <1>6, <1>7, <2>1, <2>4 DEF XmitInv, XmitTypeOK, TasksOK, TaskMay
<1> QED
  BY <1>8, <1>9, Zenon DEF tty_write_queues

LEMMA EchoStep ==
    ASSUME XmitInv, ttyc_echotask \/ ttyc_echotask_blocks \/ Types
    PROVE  XmitInv'
<1>1. task[Echo] \in TaskRecord /\ Echo \in XTask /\ echo \in Nat
  BY DEF XmitInv, XmitTypeOK, XTask
<1>2. CASE ttyc_echotask
  <2>1. PICK n \in Nat : n = IF echo < 16 THEN echo ELSE 16
    BY <1>1
  <2>2. /\ echo' = echo - n
        /\ task' = IF n = 0 THEN [task EXCEPT ![Echo].at = "empty"]
                   ELSE [task EXCEPT ![Echo].at = "freeing", ![Echo].len = n]
        /\ UNCHANGED <<lists, used, xmit, txrdy, overrun, before, writes, raced>>
    BY <1>2, <2>1 DEF ttyc_echotask
  <2>3. echo' \in Nat
    BY <1>1, <2>1, <2>2
  <2>4. \E r \in TaskRecord : TaskMay(r) /\ task' = [task EXCEPT ![Echo] = r]
    <3>1. CASE n = 0
      <4>1. PICK r : r = [task[Echo] EXCEPT !.at = "empty"]
        OBVIOUS
      <4>2. TaskMay(r)
        BY <1>1, <4>1 DEF TaskRecord, XmitPlace, TaskMay
      <4>3. task' = [task EXCEPT ![Echo] = r]
        BY <1>1, <2>2, <3>1, <4>1, TasksTyped DEF TasksOK
      <4> QED
        BY <4>2, <4>3 DEF TaskMay
    <3>2. CASE n # 0
      <4>1. PICK r : r = [task[Echo] EXCEPT !.at = "freeing", !.len = n]
        OBVIOUS
      <4>2. TaskMay(r)
        BY <1>1, <4>1 DEF TaskRecord, XmitPlace, TaskMay
      <4>3. task' = [task EXCEPT ![Echo] = r]
        BY <1>1, <2>2, <3>2, <4>1, TasksTyped DEF TasksOK
      <4> QED
        BY <4>2, <4>3 DEF TaskMay
    <3> QED
      BY <3>1, <3>2
  <2>5. TasksOK'
    BY <1>1, <2>4, TasksTyped, OneTask
  <2> QED
    BY <2>2, <2>3, <2>5 DEF XmitInv, XmitTypeOK, TasksOK, TaskMay
<1>3. CASE ttyc_echotask_blocks
  <2>1. PICK r : r = [task[Echo] EXCEPT !.at = "blocked"]
    OBVIOUS
  <2>2. TaskMay(r)
    BY <1>1, <2>1 DEF TaskRecord, XmitPlace, TaskMay
  <2>3. task' = [task EXCEPT ![Echo] = r]
    BY <1>1, <1>3, <2>1, TasksTyped DEF ttyc_echotask_blocks, TasksOK
  <2>4. TasksOK'
    BY <1>1, <2>2, <2>3, TasksTyped, OneTask
  <2> QED
    BY <1>3, <2>4 DEF ttyc_echotask_blocks, XmitInv, XmitTypeOK, TasksOK, TaskMay
<1>4. CASE Types
  <2>1. PICK n \in Echoed : TTYC_ECHO(n)
    BY <1>4 DEF Types
  <2>2. n \in Nat /\ TTYC_ECHO_QUEUE \in Nat \ {0}
    BY XmitAssumption
  <2>3. echo' \in Nat
    BY <1>1, <2>1, <2>2 DEF TTYC_ECHO
  <2>4. PICK a \in XmitPlace :
            /\ task' = [task EXCEPT ![Echo].at = a]
            /\ a = "unlink" => task[Echo].at = "unlink"
    <3>1. CASE task' = [task EXCEPT ![Echo].at = Unblocked(task[Echo].at)]
      <4>1. /\ Unblocked(task[Echo].at) \in XmitPlace
            /\ Unblocked(task[Echo].at) = "unlink" => task[Echo].at = "unlink"
        BY <1>1 DEF Unblocked, TaskRecord, XmitPlace
      <4> QED
        BY <3>1, <4>1
    <3>2. CASE task' = [task EXCEPT ![Echo].at = "intruder"]
      BY <3>2 DEF XmitPlace
    <3> QED
      BY <2>1, <3>1, <3>2 DEF TTYC_ECHO
  <2>5. PICK r : r = [task[Echo] EXCEPT !.at = a]
    OBVIOUS
  <2>6. TaskMay(r)
    <3>1. task[Echo].at = "unlink" => task[Echo].iob \in Iob
      BY <1>1, TasksTyped
    <3>2. r \in TaskRecord /\ r.at = a /\ r.iob = task[Echo].iob
      BY <1>1, <2>5 DEF TaskRecord
    <3> QED
      BY <2>4, <3>1, <3>2 DEF TaskMay
  <2>7. task' = [task EXCEPT ![Echo] = r]
    BY <1>1, <2>4, <2>5
  <2>8. TasksOK'
    BY <1>1, <2>6, <2>7, TasksTyped, OneTask
  <2> QED
    BY <2>1, <2>3, <2>8 DEF TTYC_ECHO, XmitInv, XmitTypeOK, TasksOK, TaskMay
<1> QED
  BY <1>2, <1>3, <1>4

LEMMA LineStep ==
    ASSUME XmitInv, ~ raced, FIFO_SIZE <= Depth, tty_intr \/ Sends
    PROVE  XmitInv'
<1>1. CASE tty_intr
  <2>1. /\ tty_xmit_intr(lists)
        /\ UNCHANGED <<used, echo, task, before, writes, raced>>
    BY <1>1 DEF tty_intr
  <2>2. /\ Sound(lists, used, before) /\ lists \in Lists /\ xmit \in Nat /\ ~ overrun
    BY DEF XmitInv, XmitTypeOK
  <2>3. lists' \in Lists /\ xmit' \in Nat /\ ~ overrun' /\ Sound(lists', used, before)
    BY <2>1, <2>2, Transmits
  <2> QED
    BY <2>1, <2>3 DEF XmitInv, XmitTypeOK
<1>2. CASE Sends
  BY <1>2 DEF Sends, XmitInv, XmitTypeOK
<1> QED
  BY <1>1, <1>2

LEMMA XmitStep ==
    ASSUME XmitInv, FIFO_SIZE <= Depth, [XmitNext]_xmitvars
    PROVE  XmitInv'
<1>1. CASE UNCHANGED xmitvars
  BY <1>1 DEF xmitvars, XmitInv, XmitTypeOK
<1>2. CASE XmitNext
  <2>1. ~ raced
    BY <1>2 DEF XmitNext, Followed
  <2>2. ASSUME NEW t \in XTask, Runs(t) PROVE XmitInv'
    BY <2>1, <2>2, ReadsStep, FreesStep, QueuesStep DEF Runs
  <2>3. ASSUME NEW t \in Writer, tty_write(t) \/ Runs(t) PROVE XmitInv'
    BY <2>2, <2>3, WriteStep DEF XTask
  <2>4. CASE EchoRuns
    BY <2>2, <2>4, EchoStep DEF EchoRuns, XTask
  <2>5. CASE tty_intr \/ Sends
    BY <2>1, <2>5, LineStep
  <2>6. CASE Types
    BY <2>6, EchoStep
  <2> QED
    BY <1>2, <2>3, <2>4, <2>5, <2>6 DEF XmitNext
<1> QED
  BY <1>1, <1>2

\* Whatever the number of writers, blocks and characters, and whatever comes
\* between the steps of tty_freeiob: as long as no block is freed that was
\* not free, what is to be sent is on the list, in the order of the calls of
\* tty_write.  And tty_xmit_intr never overruns the transmitter, if that
\* holds the 16 characters that the driver puts at once.
THEOREM BlocksAreSentInOrder ==
    ASSUME FIFO_SIZE <= Depth
    PROVE  XmitSpec => []SentInOrder
<1>1. XmitInit => XmitInv
  BY XmitStarts
<1>2. XmitInv /\ [XmitNext]_xmitvars => XmitInv'
  BY XmitStep
<1>3. XmitInv => SentInOrder
  BY XmitInvOrder
<1> QED
  BY <1>1, <1>2, <1>3, PTL DEF XmitSpec
-----------------------------------------------------------------------------
\* b is on the list of those that were sent, and x comes behind it.
FreeBefore(F, b, x) == \E k \in Nat : F[k] = b /\ F[k + 1] = x
Frees(L, b, x) ==
    \E F \in [Nat -> Link] : Unqueued(L, F) /\ FreeBefore(F, b, x)

\* There is one such list.
LEMMA OneFreeList ==
    ASSUME NEW L, NEW F, NEW G, Unqueued(L, F), Unqueued(L, G)
    PROVE  \A i \in Nat : F[i] = G[i]
<1>1. PICK H : \A k \in Nat : k \in H <=> F[k] = G[k]
  <2>1. \A k \in Nat : k \in {j \in Nat : F[j] = G[j]} <=> F[k] = G[k]
    OBVIOUS
  <2> QED
    BY <2>1
<1>2. 0 \in H
  BY <1>1 DEF Unqueued
<1>3. \A k \in Nat : k \in H => k + 1 \in H
  <2> SUFFICES ASSUME NEW k \in Nat, F[k] = G[k] PROVE F[k + 1] = G[k + 1]
    BY <1>1
  <2> QED
    BY DEF Unqueued
<1>4. \A k \in Nat : k \in H
  BY <1>2, <1>3, AllNaturals
<1> QED
  BY <1>1, <1>4

LEMMA FreesOn ==
    ASSUME NEW L, NEW b, NEW x, Frees(L, b, x), NEW F, Unqueued(L, F)
    PROVE  FreeBefore(F, b, x)
<1>1. PICK G \in [Nat -> Link] : Unqueued(L, G) /\ FreeBefore(G, b, x)
  BY DEF Frees
<1>2. \A i \in Nat : G[i] = F[i]
  BY <1>1, OneFreeList
<1>3. PICK k \in Nat : G[k] = b /\ G[k + 1] = x
  BY <1>1 DEF FreeBefore
<1> QED
  BY <1>2, <1>3 DEF FreeBefore

\* Finished blocks go before it.
KeepsFree(L, u, B, b, x) == L \in Lists /\ Sound(L, u, B) /\ Frees(L, b, x)

LEMMA FinishOneKeepsFree ==
    ASSUME NEW L, NEW u, NEW B, NEW b, NEW x, KeepsFree(L, u, B, b, x)
    PROVE  KeepsFree(FinishOne[L], u, B, b, x)
<1>1. PICK T \in [Nat -> Link], F \in [Nat -> Link], n \in Nat : SoundAs(L, u, B, T, F, n)
  BY DEF Sound, KeepsFree
<1>2. L \in Lists /\ Frees(L, b, x)
  BY DEF KeepsFree
<1>3. CASE Finished(L)
  <2>1. FinishOne[L] = L
    BY <1>2, <1>3 DEF FinishOne, Finished
  <2> QED
    BY <2>1
<1>4. CASE ~ Finished(L)
  <2>1. FinishOne[L] \in Lists /\ n > 0
    BY <1>1, <1>2, <1>4, OneFinished
  <2>2. PICK U, G \in [Nat -> Link] :
                /\ SoundAs(FinishOne[L], u, B, U, G, n - 1)
                /\ \A i \in Nat : G[i + 1] = F[i]
    <3>1. HeadMoves(L, u, B, F, n)
      BY <1>1, <1>2, <1>4, OneFinished
    <3> QED
      BY <3>1 DEF HeadMoves
  <2>3. FreeBefore(F, b, x)
    BY <1>1, <1>2, FreesOn DEF SoundAs
  <2>4. PICK k \in Nat : F[k] = b /\ F[k + 1] = x
    BY <2>3 DEF FreeBefore
  <2>5. k + 1 \in Nat /\ G[k + 1] = b /\ G[(k + 1) + 1] = x
    <3>1. \A i \in Nat : G[i + 1] = F[i]
      BY <2>2
    <3>2. k + 1 \in Nat /\ G[k + 1] = F[k] /\ G[(k + 1) + 1] = F[k + 1]
      BY <3>1
    <3> QED
      BY <2>4, <3>2
  <2>6. Frees(FinishOne[L], b, x)
    <3>1. FreeBefore(G, b, x)
      BY <2>5 DEF FreeBefore
    <3>2. Unqueued(FinishOne[L], G)
      BY <2>2 DEF SoundAs
    <3> QED
      BY <3>1, <3>2 DEF Frees
  <2>7. n - 1 \in Nat
    BY <2>1
  <2> QED
    BY <2>1, <2>2, <2>6, <2>7 DEF KeepsFree, Sound
<1> QED
  BY <1>3, <1>4

\* What each turn keeps, all keep.
LEMMA TurnsKeep ==
    ASSUME NEW S, NEW g, NEW a \in S, \A y \in S : g[y] \in S, NEW n \in Nat
    PROVE  Turns(g, a)[n] \in S
BY TurnsGo

LEMMA FillKeepsFree ==
    ASSUME NEW L, NEW u, NEW B, NEW b, NEW x, KeepsFree(L, u, B, b, x)
    PROVE  KeepsFree(Fill(L).lists, u, B, b, x)
<1>1. ASSUME NEW K \in Lists, KeepsFree(K, u, B, b, x)
      PROVE  KeepsFree(Finish[K], u, B, b, x)
  <2>1. PICK S : \A M : M \in S <=> M \in Lists /\ KeepsFree(M, u, B, b, x)
    <3>1. \A M : M \in {R \in Lists : KeepsFree(R, u, B, b, x)}
                    <=> M \in Lists /\ KeepsFree(M, u, B, b, x)
      OBVIOUS
    <3> QED
      BY <3>1
  <2>2. PICK g : g = FinishOne
    OBVIOUS
  <2>3. \A M \in S : g[M] \in S
    <3> SUFFICES ASSUME NEW M \in S PROVE FinishOne[M] \in S
      BY <2>2
    <3>1. KeepsFree(FinishOne[M], u, B, b, x)
      BY <2>1, FinishOneKeepsFree
    <3>2. FinishOne[M] \in Lists
      BY <3>1 DEF KeepsFree
    <3> QED
      BY <2>1, <3>1, <3>2
  <2>4. Turns(g, K)[Cardinality(Iob)] \in S
    BY <1>1, <2>1, <2>3, NullNoBlock, TurnsKeep
  <2> QED
    BY <2>1, <2>2, <2>4 DEF Finish
<1>2. PICK W : \A S : S \in W <=> S \in Filling /\ KeepsFree(S.lists, u, B, b, x)
  <2>1. \A S : S \in {R \in Filling : KeepsFree(R.lists, u, B, b, x)}
                    <=> S \in Filling /\ KeepsFree(S.lists, u, B, b, x)
    OBVIOUS
  <2> QED
    BY <2>1
<1>3. ASSUME NEW S \in W PROVE PutOne[S] \in W
  <2>1. /\ S \in Filling /\ S.lists \in Lists /\ KeepsFree(S.lists, u, B, b, x)
        /\ Sound(S.lists, u, B)
    BY <1>2, <1>3 DEF KeepsFree
  <2>2. PICK F : F = Finish[S.lists]
    OBVIOUS
  <2>3. F \in Lists /\ Frees(F, b, x) /\ Sound(F, u, B)
    BY <1>1, <2>1, <2>2 DEF KeepsFree
  <2>4. /\ PutOne[S] \in Filling /\ PutOne[S].lists \in Lists
        /\ Sound(PutOne[S].lists, u, B)
    BY <2>1, OnePut DEF Filling
  <2>5. PutOne[S].lists.next = F.next /\ PutOne[S].lists.freeiob = F.freeiob
    <3>1. CASE F.txhead = NULL
      <4>1. PutOne[S] = [S EXCEPT !.lists = F]
        BY <2>1, <2>2, <3>1 DEF PutOne
      <4> QED
        BY <2>1, <4>1 DEF Filling
    <3>2. CASE F.txhead # NULL
      <4>1. PICK M : M = [F EXCEPT !.left[F.txhead] = @ - 1]
        OBVIOUS
      <4>2. PutOne[S] = [lists |-> M, out |-> S.out + 1]
        BY <2>1, <2>2, <3>2, <4>1 DEF PutOne
      <4> QED
        BY <2>3, <4>1, <4>2 DEF Lists
    <3> QED
      BY <3>1, <3>2
  <2>6. Frees(PutOne[S].lists, b, x)
    BY <2>3, <2>5 DEF Frees, Unqueued
  <2> QED
    BY <1>2, <2>4, <2>6 DEF KeepsFree
<1>4. PICK S0 : S0 = [lists |-> L, out |-> 0]
  OBVIOUS
<1>5. S0 \in W
  BY <1>2, <1>4 DEF Filling, KeepsFree
<1>6. PICK g : g = PutOne
  OBVIOUS
<1>7. FIFO_SIZE \in Nat
  BY XmitAssumption
<1>8. Turns(g, S0)[FIFO_SIZE] \in W
  BY <1>3, <1>5, <1>6, <1>7, TurnsKeep
<1>9. Fill(L) \in W
  BY <1>4, <1>6, <1>8 DEF Fill
<1> QED
  BY <1>2, <1>9

LEMMA TransmitsKeepFree ==
    ASSUME NEW L \in Lists, NEW u, NEW B, Sound(L, u, B), NEW b, NEW x,
           Frees(L, b, x), tty_xmit_intr(L)
    PROVE  Frees(lists', b, x)
<1>1. CASE L.txhead = NULL \/ ~ TxReady
  BY <1>1 DEF tty_xmit_intr
<1>2. CASE ~ (L.txhead = NULL \/ ~ TxReady)
  <2>1. PICK M : M = Fill(L).lists
    OBVIOUS
  <2>2. Frees(M, b, x)
    BY <2>1, FillKeepsFree DEF KeepsFree
  <2>3. lists' = M
    BY <1>2, <2>1 DEF tty_xmit_intr
  <2> QED
    BY <2>2, <2>3
<1> QED
  BY <1>1, <1>2

\* Another list in which those blocks have the links that they had.
LEMMA SameLinksFree ==
    ASSUME NEW L, NEW u, NEW B, Sound(L, u, B), NEW b, NEW x, Frees(L, b, x), NEW M,
           M.freeiob = L.freeiob,
           \A c \in Iob : M.next[c] = L.next[c] \/ c \notin u \/ c = L.txtail
    PROVE  Frees(M, b, x)
<1>1. PICK T \in [Nat -> Link], F \in [Nat -> Link], n \in Nat : SoundAs(L, u, B, T, F, n)
  BY DEF Sound
<1>2. FreeBefore(F, b, x)
  BY <1>1, FreesOn DEF SoundAs
<1>3. ASSUME NEW i \in Nat, F[i] # NULL PROVE M.next[F[i]] = L.next[F[i]]
  <2>1. F[i] \in Iob /\ F[i] \in u
    BY <1>1, <1>3 DEF Link, SoundAs, AllIn
  <2>2. F[i] # L.txtail
    <3>1. CASE n = 0
      BY <1>1, <1>3, <3>1 DEF SoundAs, Queued
    <3>2. CASE n # 0
      <4>1. n - 1 \in Nat /\ n - 1 < n
        BY <3>2
      <4>2. L.txtail = T[n - 1] /\ T[n - 1] # NULL
        BY <1>1, <3>2, <4>1 DEF SoundAs, Queued
      <4> QED
        BY <1>1, <4>1, <4>2 DEF SoundAs, Disjoint
    <3> QED
      BY <3>1, <3>2
  <2> QED
    BY <2>1, <2>2
<1>4. Unqueued(M, F)
  <2>1. ASSUME NEW i \in Nat
        PROVE  F[i + 1] = IF F[i] = NULL THEN NULL ELSE M.next[F[i]]
    BY <1>1, <1>3 DEF SoundAs, Unqueued
  <2> QED
    BY <1>1, <2>1 DEF SoundAs, Unqueued
<1> QED
  BY <1>2, <1>4 DEF Frees

\* A block on the free list is found there.
LEMMA FoundFree ==
    ASSUME lists \in Lists, Sound(lists, used, before), NEW b \in Iob, NEW x,
           Frees(lists, b, x)
    PROVE  StillFree(b, x)
<1>1. PICK T \in [Nat -> Link], F \in [Nat -> Link], n \in Nat :
            SoundAs(lists, used, before, T, F, n)
  BY DEF Sound
<1>2. PICK k \in Nat : F[k] = b /\ F[k + 1] = x
  <2>1. FreeBefore(F, b, x)
    BY <1>1, FreesOn DEF SoundAs
  <2> QED
    BY <2>1 DEF FreeBefore
<1>3. b # NULL
  BY NullNoBlock
<1>4. \A i \in 0 .. k : F[i] # NULL
  <2>1. PICK H : \A j \in Nat : j \in H <=> (j <= k => F[k - j] # NULL)
    <3>1. \A j \in Nat : j \in {i \in Nat : i <= k => F[k - i] # NULL}
                            <=> (j <= k => F[k - j] # NULL)
      OBVIOUS
    <3> QED
      BY <3>1
  <2>2. 0 \in H
    BY <1>2, <1>3, <2>1
  <2>3. ASSUME NEW j \in Nat, j \in H PROVE j + 1 \in H
    <3> SUFFICES ASSUME j + 1 <= k PROVE F[k - (j + 1)] # NULL
      BY <2>1
    <3>1. PICK i \in Nat : i = k - (j + 1)
      OBVIOUS
    <3>2. i + 1 = k - j /\ F[i + 1] # NULL
      BY <2>1, <2>3, <3>1
    <3>3. F[i + 1] = IF F[i] = NULL THEN NULL ELSE lists.next[F[i]]
      BY <1>1 DEF SoundAs, Unqueued
    <3> QED
      BY <3>1, <3>2, <3>3
  <2>4. \A j \in Nat : j \in H
    BY <2>2, <2>3, AllNaturals
  <2> SUFFICES ASSUME NEW i \in 0 .. k PROVE F[i] # NULL
    OBVIOUS
  <2>5. k - i \in Nat /\ k - i <= k /\ k - (k - i) = i
    OBVIOUS
  <2> QED
    BY <2>1, <2>4, <2>5
<1>5. PICK N \in Nat : N = Cardinality(Iob)
  BY NullNoBlock
<1>6. k <= N
  <2>1. PICK f : f = [i \in 0 .. k |-> F[i]]
    OBVIOUS
  <2>2. \A i \in 0 .. k : i \in Nat /\ F[i] \in Iob
    BY <1>4 DEF Link
  <2>3. Once(F)
    BY <1>1 DEF SoundAs
  <2>4. f \in Injection(0 .. k, Iob)
    BY <1>4, <2>1, <2>2, <2>3 DEF Injection, IsInjective, Once
  <2>5. Cardinality(0 .. k) <= Cardinality(Iob)
    BY <2>4, NullNoBlock, FS_Injection
  <2>6. Cardinality(0 .. k) = k + 1
    BY FS_Interval
  <2> QED
    BY <1>5, <2>5, <2>6
<1>7. Along(lists.freeiob)[k] = b
  <2>1. lists.freeiob \in Link /\ F[0] = lists.freeiob
    BY <1>1 DEF Lists, Link, SoundAs, Unqueued
  <2>2. \A i \in Nat : F[i + 1] = IF F[i] = NULL THEN NULL ELSE lists.next[F[i]]
    BY <1>1 DEF SoundAs, Unqueued
  <2>3. \A i \in 0 .. Cardinality(Iob) : Along(lists.freeiob)[i] = F[i]
    BY <2>1, <2>2, AlongList
  <2> QED
    BY <1>2, <1>5, <1>6, <2>3
<1>8. b \in Chained(lists.freeiob)
  BY <1>3, <1>5, <1>6, <1>7 DEF Chained
<1>9. lists.next[b] = x
  BY <1>1, <1>2, <1>3 DEF SoundAs, Unqueued
<1> QED
  BY <1>8, <1>9 DEF StillFree
\* Nothing was freed that was not free, and what a task is about to free is
\* on the list, before the block that the task read there.
TurnInv ==
    /\ XmitInv /\ ~ raced
    /\ \A t \in XTask :
        task[t].at = "unlink" => Frees(lists, task[t].iob, task[t].nxt)

\* No two tasks are about to free a block.
OneUnlinks ==
    \A s, t \in XTask : task[s].at = "unlink" /\ task[t].at = "unlink" => s = t

\* Who is about to free a block was so before.
NoneReads ==
    \A t \in XTask : task'[t].at = "unlink" =>
        /\ task[t].at = "unlink"
        /\ task'[t].iob = task[t].iob /\ task'[t].nxt = task[t].nxt

LEMMA OthersWait ==
    ASSUME TurnInv, XmitInv', ~ raced', NoneReads,
           \A b \in Iob : \A x : Frees(lists, b, x) => Frees(lists', b, x)
    PROVE  TurnInv'
<1> SUFFICES ASSUME NEW t \in XTask, task'[t].at = "unlink"
             PROVE  Frees(lists', task'[t].iob, task'[t].nxt)
  BY DEF TurnInv
<1>1. /\ task[t].at = "unlink" /\ task'[t].iob = task[t].iob
      /\ task'[t].nxt = task[t].nxt
  BY DEF NoneReads
<1>2. task[t].iob \in Iob /\ Frees(lists, task[t].iob, task[t].nxt)
  BY <1>1, TasksTyped DEF TurnInv
<1> QED
  BY <1>1, <1>2

LEMMA TurnReads ==
    ASSUME TurnInv, XmitInv', NEW t \in XTask, tty_freeiob_reads(t)
    PROVE  TurnInv'
<1>1. /\ XmitInv /\ ~ raced /\ lists \in Lists /\ Sound(lists, used, before)
      /\ task \in [XTask -> TaskRecord] /\ lists' = lists /\ ~ raced'
  BY DEF TurnInv, XmitInv, XmitTypeOK, tty_freeiob_reads
<1>2. CASE lists.freeiob = NULL
  <2>1. task' = [task EXCEPT ![t].at = "queue"]
    BY <1>2 DEF tty_freeiob_reads
  <2>2. NoneReads
    BY <1>1, <2>1 DEF NoneReads, TaskRecord
  <2> QED
    BY <1>1, <2>2, OthersWait
<1>3. CASE lists.freeiob # NULL
  <2>1. PICK b : b = lists.freeiob
    OBVIOUS
  <2>2. PICK x : x = lists.next[b]
    OBVIOUS
  <2>3. task' = [task EXCEPT ![t].at = "unlink", ![t].iob = b, ![t].nxt = x]
    BY <1>3, <2>1, <2>2 DEF tty_freeiob_reads
  <2>4. Frees(lists, b, x)
    <3>1. PICK T \in [Nat -> Link], F \in [Nat -> Link], n \in Nat :
                SoundAs(lists, used, before, T, F, n)
      BY <1>1 DEF Sound
    <3>2. Unqueued(lists, F)
      BY <3>1 DEF SoundAs
    <3>3. F[0] = b /\ F[0 + 1] = x
      BY <1>3, <2>1, <2>2, <3>2 DEF Unqueued
    <3>4. FreeBefore(F, b, x)
      BY <3>3 DEF FreeBefore
    <3> QED
      BY <3>2, <3>4 DEF Frees
  <2>5. ASSUME NEW s \in XTask, task'[s].at = "unlink"
        PROVE  Frees(lists, task'[s].iob, task'[s].nxt)
    <3>1. CASE s = t
      <4>1. task'[t].iob = b /\ task'[t].nxt = x
        BY <1>1, <2>3 DEF TaskRecord
      <4> QED
        BY <2>4, <3>1, <4>1
    <3>2. CASE s # t
      <4>1. task'[s] = task[s]
        BY <1>1, <2>3, <3>2
      <4> QED
        BY <2>5, <4>1 DEF TurnInv
    <3> QED
      BY <3>1, <3>2
  <2> QED
    BY <1>1, <2>5 DEF TurnInv
<1> QED
  BY <1>2, <1>3

LEMMA TurnFrees ==
    ASSUME TurnInv, OneUnlinks, XmitInv', NEW t \in XTask, tty_freeiob_frees(t)
    PROVE  TurnInv'
<1>1. /\ XmitInv /\ ~ raced /\ lists \in Lists /\ Sound(lists, used, before)
      /\ task \in [XTask -> TaskRecord] /\ task[t].at = "unlink"
  BY DEF TurnInv, XmitInv, XmitTypeOK, tty_freeiob_frees
<1>2. PICK b, x : b = task[t].iob /\ x = task[t].nxt
  OBVIOUS
<1>3. Frees(lists, b, x) /\ b \in Iob
  BY <1>1, <1>2, TasksTyped DEF TurnInv
<1>4. StillFree(b, x)
  BY <1>1, <1>3, FoundFree
<1>5. ~ raced'
  BY <1>2, <1>4 DEF tty_freeiob_frees
<1>6. task' = [task EXCEPT ![t].at = "freeing", ![t].iob = NULL, ![t].nxt = NULL]
  BY DEF tty_freeiob_frees
<1>7. \A s \in XTask : task'[s].at # "unlink"
  <2> SUFFICES ASSUME NEW s \in XTask PROVE task'[s].at # "unlink"
    OBVIOUS
  <2>1. CASE s = t
    BY <1>1, <1>6, <2>1 DEF TaskRecord
  <2>2. CASE s # t
    BY <1>1, <1>6, <2>2 DEF OneUnlinks
  <2> QED
    BY <2>1, <2>2
<1> QED
  BY <1>5, <1>7 DEF TurnInv

\* The blocks that are free are not touched when one is queued.
LEMMA QueueKeepsFree ==
    ASSUME XmitInv, ~ raced, NEW b \in Iob, b \notin used,
           NEW m \in Nat, NEW N, N = WithBlock(lists, b, m),
           before' = Earlier(lists, before, b),
           IF lists.txhead = NULL
           THEN tty_xmit_intr([N EXCEPT !.txhead = b, !.txtail = b])
           ELSE lists' = Linked(N, b) /\ UNCHANGED <<xmit, overrun>>,
           NEW c, NEW x, Frees(lists, c, x)
    PROVE  Frees(lists', c, x)
<1>1. Sound(lists, used, before) /\ lists \in Lists
  BY DEF XmitInv, XmitTypeOK
<1>2. CASE lists.txhead = NULL
  <2>1. PICK M : M = [N EXCEPT !.txhead = b, !.txtail = b]
    OBVIOUS
  <2>2. M = [lists EXCEPT !.left[b] = m, !.next[b] = NULL, !.txhead = b, !.txtail = b]
    BY <2>1 DEF WithBlock
  <2>4. PICK C : C = Earlier(lists, before, b)
    OBVIOUS
  <2>5. \A d : <<d, b>> \notin C
    <3>1. \A d \in Iob : ~ (lists.left[d] > 0)
      BY <1>1, <1>2, NothingLeft
    <3>2. PICK W : W = {d \in Iob : lists.left[d] > 0}
      OBVIOUS
    <3>3. \A d : d \notin W
      BY <3>1, <3>2
    <3>4. C = (before \cap (W \X W)) \cup (W \X {b})
      BY <2>4, <3>2 DEF Earlier
    <3> QED
      BY <3>3, <3>4
  <2>6. M \in Lists /\ Sound(M, used \cup {b}, C)
    BY <1>1, <1>2, <2>2, <2>5, FirstSound
  <2>7. tty_xmit_intr(M)
    BY <1>2, <2>1
  <2>8. M.freeiob = lists.freeiob /\ \A d \in Iob : d # b => M.next[d] = lists.next[d]
    BY <1>1, <2>2 DEF Lists
  <2>9. \A d \in Iob : M.next[d] = lists.next[d] \/ d \notin used \/ d = lists.txtail
    BY <2>8
  <2>10. Frees(M, c, x)
    BY <1>1, <2>8, <2>9, SameLinksFree
  <2> QED
    BY <2>6, <2>7, <2>10, TransmitsKeepFree
<1>3. CASE lists.txhead # NULL
  <2>1. PICK l : l = lists.txtail
    OBVIOUS
  <2>2. N = [lists EXCEPT !.left[b] = m, !.next[b] = NULL]
    BY DEF WithBlock
  <2>3. N.freeiob = lists.freeiob /\ N.txtail = l
        /\ N.next = [lists.next EXCEPT ![b] = NULL]
    BY <1>1, <2>1, <2>2 DEF Lists
  <2>4. lists' = [N EXCEPT !.next[l] = b, !.txtail = b]
    BY <1>3, <2>3 DEF Linked
  <2>5. lists'.freeiob = lists.freeiob /\ lists'.next = [N.next EXCEPT ![l] = b]
    BY <1>1, <2>2, <2>3, <2>4 DEF Lists
  <2>6. \A d \in Iob : lists'.next[d] = lists.next[d] \/ d \notin used \/ d = lists.txtail
    BY <1>1, <2>1, <2>3, <2>5 DEF Lists
  <2>7. PICK M : M = lists'
    OBVIOUS
  <2>8. Frees(M, c, x)
    BY <1>1, <2>5, <2>6, <2>7, SameLinksFree
  <2> QED
    BY <2>7, <2>8
<1> QED
  BY <1>2, <1>3
LEMMA TurnQueues ==
    ASSUME TurnInv, XmitInv', NEW t \in XTask, tty_write_queues(t)
    PROVE  TurnInv'
<1>1. /\ XmitInv /\ ~ raced /\ task \in [XTask -> TaskRecord]
      /\ task[t] \in TaskRecord /\ task[t].len \in Nat
  BY DEF TurnInv, XmitInv, XmitTypeOK, TaskRecord
<1>2. PICK a \in {"check", "out"} : a = IF t = Echo THEN "check" ELSE "out"
  OBVIOUS
<1>3. task' = [task EXCEPT ![t].at = a, ![t].len = 0] /\ ~ raced'
  BY <1>1, <1>2 DEF tty_write_queues
<1>4. NoneReads
  BY <1>1, <1>2, <1>3 DEF NoneReads, TaskRecord
<1>5. CASE UNCHANGED <<lists, used, before, xmit, overrun>>
  BY <1>3, <1>4, <1>5, OthersWait
<1>6. CASE \E b \in Iob \ used :
            LET N == [lists EXCEPT !.left[b] = task[t].len, !.next[b] = NULL]
            IN /\ used' = used \cup {b}
               /\ before' = (before \cap (Waiting \X Waiting))
                                \cup (Waiting \X {b})
               /\ IF lists.txhead = NULL
                  THEN tty_xmit_intr([N EXCEPT !.txhead = b, !.txtail = b])
                  ELSE lists' = Linked(N, b) /\ UNCHANGED <<xmit, overrun>>
  <2>1. PICK b \in Iob \ used :
            \E N :
            /\ N = [lists EXCEPT !.left[b] = task[t].len, !.next[b] = NULL]
            /\ before' = (before \cap (Waiting \X Waiting)) \cup (Waiting \X {b})
            /\ IF lists.txhead = NULL
               THEN tty_xmit_intr([N EXCEPT !.txhead = b, !.txtail = b])
               ELSE lists' = Linked(N, b) /\ UNCHANGED <<xmit, overrun>>
    BY <1>6, Zenon
  <2>2. PICK N :
            /\ N = [lists EXCEPT !.left[b] = task[t].len, !.next[b] = NULL]
            /\ before' = (before \cap (Waiting \X Waiting)) \cup (Waiting \X {b})
            /\ IF lists.txhead = NULL
               THEN tty_xmit_intr([N EXCEPT !.txhead = b, !.txtail = b])
               ELSE lists' = Linked(N, b) /\ UNCHANGED <<xmit, overrun>>
    BY <2>1, Zenon
  <2>3. PICK m \in Nat : m = task[t].len
    BY <1>1
  <2>4. N = WithBlock(lists, b, m)
    BY <2>2, <2>3 DEF WithBlock
  <2>5. before' = Earlier(lists, before, b)
    BY <2>2, Zenon DEF Earlier, Waiting
  <2>6. ASSUME NEW c \in Iob, NEW x, Frees(lists, c, x) PROVE Frees(lists', c, x)
    BY <1>1, <2>2, <2>4, <2>5, <2>6, QueueKeepsFree
  <2> QED
    BY <1>3, <1>4, <2>6, OthersWait
<1> QED
  BY <1>5, <1>6, Zenon DEF tty_write_queues

\* What neither frees nor queues.
LEMMA TurnOther ==
    ASSUME TurnInv, XmitInv',
           \/ \E t \in Writer : tty_write(t)
           \/ ttyc_echotask \/ ttyc_echotask_blocks \/ Types
           \/ tty_intr \/ Sends
    PROVE  TurnInv'
<1>1. /\ XmitInv /\ ~ raced /\ lists \in Lists /\ Sound(lists, used, before)
      /\ task \in [XTask -> TaskRecord] /\ Echo \in XTask
  BY DEF TurnInv, XmitInv, XmitTypeOK, XTask
<1>2. CASE \E t \in Writer : tty_write(t)
  <2>1. PICK t \in Writer : tty_write(t)
    BY <1>2
  <2>2. PICK m \in Lens : task' = [task EXCEPT ![t].at = "freeing", ![t].len = m]
    BY <2>1 DEF tty_write
  <2>3. NoneReads
    BY <1>1, <2>2 DEF NoneReads, TaskRecord
  <2>4. lists' = lists /\ ~ raced'
    BY <1>1, <2>1 DEF tty_write
  <2> QED
    BY <2>3, <2>4, OthersWait
<1>3. CASE ttyc_echotask
  <2>1. PICK n : n = IF echo < 16 THEN echo ELSE 16
    OBVIOUS
  <2>2. task' = IF n = 0 THEN [task EXCEPT ![Echo].at = "empty"]
                ELSE [task EXCEPT ![Echo].at = "freeing", ![Echo].len = n]
    BY <1>3, <2>1 DEF ttyc_echotask
  <2>3. NoneReads
    <3>1. CASE n = 0
      BY <1>1, <2>2, <3>1 DEF NoneReads, TaskRecord
    <3>2. CASE n # 0
      BY <1>1, <2>2, <3>2 DEF NoneReads, TaskRecord
    <3> QED
      BY <3>1, <3>2
  <2>4. lists' = lists /\ ~ raced'
    BY <1>1, <1>3 DEF ttyc_echotask
  <2> QED
    BY <2>3, <2>4, OthersWait
<1>4. CASE ttyc_echotask_blocks
  <2>1. NoneReads
    BY <1>1, <1>4 DEF NoneReads, TaskRecord, ttyc_echotask_blocks
  <2>2. lists' = lists /\ ~ raced'
    BY <1>1, <1>4 DEF ttyc_echotask_blocks
  <2> QED
    BY <2>1, <2>2, OthersWait
<1>5. CASE Types
  <2>1. PICK n \in Echoed : TTYC_ECHO(n)
    BY <1>5 DEF Types
  <2>2. PICK a : /\ task' = [task EXCEPT ![Echo].at = a]
                 /\ a = "unlink" => task[Echo].at = "unlink"
    <3>1. CASE task' = [task EXCEPT ![Echo].at = Unblocked(task[Echo].at)]
      <4>1. Unblocked(task[Echo].at) = "unlink" => task[Echo].at = "unlink"
        BY DEF Unblocked
      <4> QED
        BY <3>1, <4>1
    <3>2. CASE task' = [task EXCEPT ![Echo].at = "intruder"]
      <4>1. "intruder" = "unlink" => task[Echo].at = "unlink"
        OBVIOUS
      <4> QED
        BY <3>2, <4>1
    <3> QED
      BY <2>1, <3>1, <3>2 DEF TTYC_ECHO
  <2>5. NoneReads
    BY <1>1, <2>2 DEF NoneReads, TaskRecord
  <2>6. lists' = lists /\ ~ raced'
    BY <1>1, <2>1 DEF TTYC_ECHO
  <2> QED
    BY <2>5, <2>6, OthersWait
<1>6. CASE tty_intr
  <2>1. tty_xmit_intr(lists) /\ task' = task /\ ~ raced'
    BY <1>1, <1>6 DEF tty_intr
  <2>2. NoneReads
    BY <2>1 DEF NoneReads
  <2>3. \A b \in Iob : \A x : Frees(lists, b, x) => Frees(lists', b, x)
    BY <1>1, <2>1, TransmitsKeepFree
  <2> QED
    BY <2>1, <2>2, <2>3, OthersWait
<1>7. CASE Sends
  BY <1>1, <1>7, OthersWait DEF Sends, NoneReads
<1> QED
  BY <1>2, <1>3, <1>4, <1>5, <1>6, <1>7

LEMMA TurnStep ==
    ASSUME FIFO_SIZE <= Depth, TurnInv, OneUnlinks, [XmitNext]_xmitvars
    PROVE  TurnInv'
<1>1. XmitInv'
  BY XmitStep DEF TurnInv
<1>2. CASE UNCHANGED xmitvars
  BY <1>1, <1>2, OthersWait DEF xmitvars, NoneReads, TurnInv
<1>3. CASE XmitNext
  <2>1. ASSUME NEW t \in XTask, Runs(t) PROVE TurnInv'
    BY <1>1, <2>1, TurnReads, TurnFrees, TurnQueues DEF Runs
  <2>2. CASE \E t \in Writer : Runs(t)
    BY <2>1, <2>2 DEF XTask
  <2>3. CASE Runs(Echo)
    BY <2>1, <2>3 DEF XTask
  <2>4. CASE ~ Runs(Echo) /\ ~ \E t \in Writer : Runs(t)
    BY <1>1, <1>3, <2>4, TurnOther DEF XmitNext, EchoRuns
  <2> QED
    BY <2>2, <2>3, <2>4
<1> QED
  BY <1>2, <1>3

\* tty_freeiob has no lock.  As long as no two tasks are between its steps at
\* once, no block is freed twice or in use: whatever tty_xmit_intr puts on
\* the free list meanwhile, the block that is freed was sent and is still
\* there.  The interrupt can make blocks be lost, but only another task can
\* make tty_freeiob free what is not free.
THEOREM OneAtATimeFreesWhatIsFree ==
    ASSUME FIFO_SIZE <= Depth
    PROVE  XmitSpec /\ []OneUnlinks => []~raced
<1>1. XmitInit => TurnInv
  BY XmitStarts DEF XmitInit, TurnInv
<1>2. TurnInv /\ OneUnlinks /\ [XmitNext]_xmitvars => TurnInv'
  BY TurnStep
<1>3. TurnInv => ~ raced
  BY DEF TurnInv
<1> QED
  BY <1>1, <1>2, <1>3, PTL DEF XmitSpec
=============================================================================
