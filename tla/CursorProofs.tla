----------------------------- MODULE CursorProofs -----------------------------
(***************************************************************************)
(* JsonlCursor returns the records of the log in order, for every limit    *)
(* and however the log is extended, truncated and replaced.  The argument: *)
(* a log is rows of records whose identifiers grow, so that its first cell *)
(* tells it from every other log; the cursor stands at a place up to which *)
(* the records are taken (TakenUpTo), and keeps the cells after it; a line *)
(* that ends in the new part of the log starts at that place, so that it   *)
(* is whole unless the cursor is discarding.                               *)
(***************************************************************************)
EXTENDS EvidenceProofs, Cursor

\* A cell of a record is no newline.
LEMMA CellIs ==
    ASSUME NEW a \in Nat, NEW b \in Nat, NEW c \in Nat
    PROVE  /\ Cell(a, b, c) \in Cells /\ Cell(a, b, c).id = a
           /\ Cell(a, b, c).place = b /\ Cell(a, b, c).size = c
           /\ b > 0 => Cell(a, b, c) # Newline
BY DEF Cell, Cells, Newline

\* A newline is the cell of no record.
LEMMA NewlineIs == Newline \in Cells /\ Newline.id = 0 /\ Newline.place = 0 /\ Newline.size = 0
BY DEF Cell, Cells, Newline

\* The line that ends at the newline e: where it starts, and what is in it.
LEMMA LineBefore ==
    ASSUME NEW C \in Seq(Cells), RowsOfRecords(C), NEW e \in 1..Len(C), C[e] = Newline
    PROVE  /\ e - 1 \in 1..Len(C) /\ C[e - 1] # Newline /\ C[e - 1] \in Cells /\ C[e - 1].size >= 1
           /\ PrevEnd(C, e) \in 0..(e - 2)
           /\ PrevEnd(C, e) > 0 => PrevEnd(C, e) \in 1..Len(C) /\ C[PrevEnd(C, e)] = Newline
           /\ \A j \in 1..C[e - 1].size : C[PrevEnd(C, e) + j] = Cell(C[e - 1].id, j, C[e - 1].size)
<1>1. DOMAIN C = 1..Len(C) /\ Len(C) \in Nat /\ \A i \in 1..Len(C) : C[i] \in Cells
  OBVIOUS
<1>2. e > 1 /\ C[e - 1] # Newline /\ C[e - 1].place = C[e - 1].size
  BY <1>1 DEF RowsOfRecords
<1>3. e - 1 \in 1..Len(C) /\ C[e - 1] \in Cells
  BY <1>1, <1>2
<1> DEFINE c == C[e - 1]
<1>4. c \in Cells /\ c.size \in Nat /\ c.place = c.size /\ c # Newline
  BY <1>2, <1>3 DEF Cells
<1>5. /\ c.place \in 1..c.size /\ c.place <= e - 1
      /\ e - 1 = c.place \/ C[(e - 1) - c.place] = Newline
      /\ \A j \in 1..c.place : C[(e - 1) - c.place + j] = Cell(c.id, j, c.size)
  BY <1>1, <1>2, <1>3 DEF RowsOfRecords
<1> HIDE DEF c
<1>6. PrevEnd(C, e) = (e - 1) - c.size
  BY DEF PrevEnd, c
<1>7. PrevEnd(C, e) \in 0..(e - 2) /\ (PrevEnd(C, e) > 0 => PrevEnd(C, e) \in 1..Len(C))
  BY <1>1, <1>4, <1>5, <1>6
<1>8. PrevEnd(C, e) > 0 => C[PrevEnd(C, e)] = Newline
  BY <1>4, <1>5, <1>6, <1>7
<1>9. \A j \in 1..c.size : C[PrevEnd(C, e) + j] = Cell(c.id, j, c.size)
  BY <1>4, <1>5, <1>6
<1> QED BY <1>3, <1>4, <1>5, <1>7, <1>8, <1>9 DEF c

\* All cells of a line are of its record, and none is a newline.
LEMMA LineCells ==
    ASSUME NEW C \in Seq(Cells), RowsOfRecords(C), NEW e \in 1..Len(C), C[e] = Newline,
           NEW i \in (PrevEnd(C, e) + 1)..(e - 1)
    PROVE  i \in 1..Len(C) /\ C[i] # Newline /\ C[i] = Cell(C[e - 1].id, i - PrevEnd(C, e), C[e - 1].size)
           /\ C[i].id = C[e - 1].id /\ C[i].size = C[e - 1].size
<1> DEFINE b == PrevEnd(C, e)
           c == C[e - 1]
<1>1. /\ e - 1 \in 1..Len(C) /\ c \in Cells /\ c.size >= 1 /\ b \in 0..(e - 2)
      /\ \A j \in 1..c.size : C[b + j] = Cell(c.id, j, c.size)
  BY LineBefore
<1>2. c.size \in Nat /\ c.id \in Nat /\ Len(C) \in Nat
  <2>1. Len(C) \in Nat
    OBVIOUS
  <2> HIDE DEF c
  <2>2. c.size \in Nat /\ c.id \in Nat
    BY <1>1 DEF Cells
  <2> QED BY <2>1, <2>2
<1>3. b = (e - 1) - c.size
  BY DEF PrevEnd
<1> HIDE DEF b, c
<1>4. i \in (b + 1)..(e - 1)
  BY DEF b
<1>5. i \in 1..Len(C) /\ i - b \in 1..c.size /\ b + (i - b) = i
  <2>1. e \in Int /\ b \in Int /\ e - 1 <= Len(C) /\ b >= 0
    BY <1>1, <1>2
  <2> DEFINE s == c.size
             n == Len(C)
  <2>2. s \in Nat /\ n \in Nat /\ b = (e - 1) - s /\ e - 1 <= n
    BY <1>2, <1>3, <2>1
  <2> HIDE DEF s, n
  <2>3. i \in Int /\ b + 1 <= i /\ i <= e - 1
    BY <1>4, <2>1
  <2>4. i \in 1..n /\ i - b \in 1..s /\ b + (i - b) = i
    BY <2>1, <2>2, <2>3
  <2> QED BY <2>4 DEF s, n
<1>6. C[i] = Cell(c.id, i - b, c.size)
  BY <1>1, <1>5
<1>7. i - b \in Nat /\ i - b > 0
  BY <1>2, <1>5
<1>8. C[i] # Newline /\ C[i].id = c.id /\ C[i].size = c.size
  BY <1>2, <1>6, <1>7, CellIs, SMTT(30)
<1> QED BY <1>5, <1>6, <1>8 DEF b, c

\* The newline before the newline e, when none is between.
LEMMA AfterNewline ==
    ASSUME NEW C \in Seq(Cells), RowsOfRecords(C), NEW e \in 1..Len(C), C[e] = Newline,
           NEW z \in 0..(e - 1), z = 0 \/ C[z] = Newline, \A i \in (z + 1)..(e - 1) : C[i] # Newline
    PROVE  PrevEnd(C, e) = z
<1> DEFINE b == PrevEnd(C, e)
<1>1. b \in 0..(e - 2) /\ (b > 0 => b \in 1..Len(C) /\ C[b] = Newline)
  BY LineBefore
<1>2. ~(b > z)
  <2>1. SUFFICES ASSUME b > z PROVE FALSE
    OBVIOUS
  <2>2. b \in (z + 1)..(e - 1) /\ C[b] = Newline
    BY <1>1, <2>1
  <2> QED BY <2>2
<1>3. ~(b < z)
  <2>1. SUFFICES ASSUME b < z PROVE FALSE
    OBVIOUS
  <2>2. z \in (b + 1)..(e - 1) /\ C[z] = Newline
    BY <1>1, <2>1
  <2>3. C[z] # Newline
    BY <2>2, LineCells
  <2> QED BY <2>2, <2>3
<1> QED BY <1>1, <1>2, <1>3

\* A cell that no newline separates from the newline e is of the line that e ends.
LEMMA InsideLine ==
    ASSUME NEW C \in Seq(Cells), RowsOfRecords(C), NEW e \in 1..Len(C), C[e] = Newline,
           NEW z \in 1..(e - 1), C[z] # Newline, \A i \in (z + 1)..(e - 1) : C[i] # Newline
    PROVE  PrevEnd(C, e) < z /\ C[z].size = C[e - 1].size
<1> DEFINE b == PrevEnd(C, e)
<1>1. b \in 0..(e - 2) /\ (b > 0 => b \in 1..Len(C) /\ C[b] = Newline)
  BY LineBefore
<1>2. ~(b >= z)
  <2>1. SUFFICES ASSUME b >= z PROVE FALSE
    OBVIOUS
  <2>2. C[b] = Newline
    BY <1>1, <2>1
  <2>3. b # z
    BY <2>2
  <2>4. b \in (z + 1)..(e - 1)
    BY <1>1, <2>1, <2>3
  <2> QED BY <2>2, <2>4
<1>3. z \in (b + 1)..(e - 1)
  BY <1>1, <1>2
<1> QED BY <1>1, <1>2, <1>3, LineCells

Cursors == [inode : Nat, offset : Nat, partial : Seq(Cells), pending : Seq(Nat), discarding : BOOLEAN,
            guard : SUBSET [at : Nat, cell : Cells], given : Seq(Nat), read : Seq(Cells)]

\* One more line, from which nothing is taken.
LEMMA DroppedLine ==
    ASSUME NEW C \in Seq(Cells), NEW e \in 1..Len(C), C[e] = Newline, NEW z \in 0..(e - 1),
           \A i \in (z + 1)..(e - 1) : C[i] # Newline, NEW got \in Seq(Nat), NEW d, NEW d2 \in BOOLEAN,
           TakenUpTo(C, z, got, d),
           TooLong(C, e) \/ (PrevEnd(C, e) > 0 /\ TooLong(C, PrevEnd(C, e))),
           d2 => TooLong(C, e)
    PROVE  TakenUpTo(C, e, got, d2)
<1>1. /\ \A i, j \in DOMAIN got : i < j => got[i] < got[j]
      /\ \A i \in DOMAIN got : \E f \in 1..z : C[f] = Newline /\ C[f - 1].id = got[i]
  BY DEF TakenUpTo
<1>2. \A f \in 1..z : C[f] = Newline =>
         \/ \E i \in DOMAIN got : got[i] = C[f - 1].id
         \/ TooLong(C, f)
         \/ PrevEnd(C, f) > 0 /\ TooLong(C, PrevEnd(C, f))
  BY DEF TakenUpTo
<1>3. \A f \in 1..e : f \in 1..z \/ f \in (z + 1)..(e - 1) \/ f = e
  OBVIOUS
<1>4. \A f \in 1..z : f \in 1..e
  OBVIOUS
<1>5. \A f \in 1..e : C[f] = Newline =>
         \/ \E i \in DOMAIN got : got[i] = C[f - 1].id
         \/ TooLong(C, f)
         \/ PrevEnd(C, f) > 0 /\ TooLong(C, PrevEnd(C, f))
  BY <1>2, <1>3
<1>6. \A i \in DOMAIN got : \E f \in 1..e : C[f] = Newline /\ C[f - 1].id = got[i]
  BY <1>1, <1>4
<1>7. IF d2 THEN e > 0 /\ TooLong(C, IF C[e] = Newline THEN e ELSE e + 1) ELSE e = 0 \/ C[e] = Newline
  OBVIOUS
<1> QED BY <1>1, <1>5, <1>6, <1>7 DEF TakenUpTo

\* One more line, whose record is taken.
LEMMA TakenLine ==
    ASSUME NEW C \in Seq(Cells), RowsOfRecords(C), IdsGrow(C), NEW e \in 1..Len(C), C[e] = Newline,
           NEW z \in 0..(e - 1), \A i \in (z + 1)..(e - 1) : C[i] # Newline,
           NEW got \in Seq(Nat), NEW d, TakenUpTo(C, z, got, d), PrevEnd(C, e) = z,
           NEW q \in Seq(Nat), Len(q) = Len(got) + 1, \A i \in 1..Len(got) : q[i] = got[i],
           q[Len(got) + 1] = C[e - 1].id
    PROVE  TakenUpTo(C, e, q, FALSE)
<1> DEFINE id == C[e - 1].id
           m == Len(got)
<1>1. e - 1 \in 1..Len(C) /\ C[e - 1] # Newline /\ C[e - 1] \in Cells /\ DOMAIN C = 1..Len(C) /\ Len(C) \in Nat
  <2>1. e - 1 \in 1..Len(C) /\ C[e - 1] # Newline /\ C[e - 1] \in Cells
    BY ONLY C \in Seq(Cells), RowsOfRecords(C), e \in 1..Len(C), C[e] = Newline, LineBefore
  <2> QED BY <2>1
<1>2. id \in Nat /\ C[e - 1].size \in Nat
  <2> DEFINE c == C[e - 1]
  <2> HIDE DEF c
  <2>1. c \in Cells
    BY <1>1 DEF c
  <2>2. c.id \in Nat /\ c.size \in Nat
    BY <2>1 DEF Cells
  <2> QED BY <2>2 DEF c
<1>3. /\ q \in Seq(Nat) /\ DOMAIN q = 1..(m + 1) /\ DOMAIN got = 1..m /\ m \in Nat
      /\ \A i \in 1..m : q[i] = got[i]
      /\ q[m + 1] = id
  OBVIOUS
<1> HIDE DEF m, id
<1>4. /\ \A i, j \in 1..m : i < j => got[i] < got[j]
      /\ \A i \in 1..m : \E f \in 1..z : C[f] = Newline /\ C[f - 1].id = got[i]
  BY <1>3 DEF TakenUpTo
<1>5. \A f \in 1..z : C[f] = Newline =>
         \/ \E i \in 1..m : got[i] = C[f - 1].id
         \/ TooLong(C, f)
         \/ PrevEnd(C, f) > 0 /\ TooLong(C, PrevEnd(C, f))
  BY <1>3 DEF TakenUpTo
<1>6. \A i \in 1..(m + 1) : i \in 1..m \/ i = m + 1
  BY <1>3
<1>7. m + 1 \in 1..(m + 1) /\ \A i \in 1..m : i \in 1..(m + 1)
  BY <1>3
<1>8. ASSUME NEW i \in 1..m PROVE got[i] < id
  <2>1. PICK f \in 1..z : C[f] = Newline /\ C[f - 1].id = got[i]
    BY <1>4
  <2>2. f \in 1..Len(C) /\ f - 1 \in 1..Len(C) /\ C[f - 1] # Newline
    <3>1. f \in 1..Len(C)
      BY <1>1, <2>1
    <3> QED BY <2>1, <3>1, LineBefore
  <2>3. C[e - 1].place = C[e - 1].size
    BY <1>1 DEF RowsOfRecords
  <2>4. (e - 1) - C[e - 1].size = z
    BY DEF PrevEnd
  <2>5. f - 1 <= (e - 1) - C[e - 1].place
    BY <2>1, <2>3, <2>4
  <2>6. C[f - 1].id < C[e - 1].id
    BY <1>1, <2>2, <2>5 DEF IdsGrow
  <2> QED BY <2>1, <2>6 DEF id
<1>9. \A i, j \in 1..(m + 1) : i < j => q[i] < q[j]
  <2>1. ASSUME NEW i \in 1..(m + 1), NEW j \in 1..(m + 1), i < j PROVE q[i] < q[j]
    <3>1. i \in 1..m
      BY <1>3, <2>1
    <3>2. CASE j \in 1..m
      BY <1>3, <1>4, <2>1, <3>1, <3>2
    <3>3. CASE j = m + 1
      BY <1>3, <1>8, <3>1, <3>3
    <3> QED BY <1>6, <3>2, <3>3
  <2> QED BY <2>1
<1>10. \A f \in 1..z : f \in 1..e
  OBVIOUS
<1>11. \A i \in 1..(m + 1) : \E f \in 1..e : C[f] = Newline /\ C[f - 1].id = q[i]
  <2>1. ASSUME NEW i \in 1..m PROVE \E f \in 1..e : C[f] = Newline /\ C[f - 1].id = q[i]
    BY <1>3, <1>4, <1>10
  <2>2. e \in 1..e /\ C[e] = Newline /\ C[e - 1].id = q[m + 1]
    BY <1>3 DEF id
  <2> QED BY <1>6, <2>1, <2>2
<1>12. \A f \in 1..e : f \in 1..z \/ f \in (z + 1)..(e - 1) \/ f = e
  OBVIOUS
<1>13. \A f \in 1..e : C[f] = Newline =>
         \/ \E i \in 1..(m + 1) : q[i] = C[f - 1].id
         \/ TooLong(C, f)
         \/ PrevEnd(C, f) > 0 /\ TooLong(C, PrevEnd(C, f))
  <2>1. ASSUME NEW f \in 1..e, C[f] = Newline
        PROVE  \/ \E i \in 1..(m + 1) : q[i] = C[f - 1].id
               \/ TooLong(C, f)
               \/ PrevEnd(C, f) > 0 /\ TooLong(C, PrevEnd(C, f))
    <3>1. CASE f \in 1..z
      BY <1>3, <1>5, <1>7, <2>1, <3>1
    <3>2. CASE f = e
      BY <1>3, <1>7, <3>2 DEF id
    <3>3. f \notin (z + 1)..(e - 1)
      BY <2>1
    <3> QED BY <1>12, <3>1, <3>2, <3>3
  <2> QED BY <2>1
<1> QED BY <1>3, <1>9, <1>11, <1>13 DEF TakenUpTo

\* TakeLine changes two fields, and leaves the cursor well-typed.
LEMMA TakeLineType ==
    ASSUME NEW a \in Cursors, NEW line \in Seq(Cells)
    PROVE  /\ TakeLine(a, line) \in Cursors
           /\ TakeLine(a, line).given = a.given
<1>1. CASE line = <<>> \/ (~a.discarding /\ (Len(line) > MaxRecord \/ ~Whole(line)))
  <2>1. TakeLine(a, line) = a
    BY <1>1 DEF TakeLine
  <2> QED BY <2>1
<1>2. CASE line # <<>> /\ a.discarding
  <2>1. TakeLine(a, line) = [a EXCEPT !.discarding = FALSE]
    BY <1>2 DEF TakeLine
  <2> QED BY <2>1 DEF Cursors
<1>3. CASE line # <<>> /\ ~a.discarding /\ ~(Len(line) > MaxRecord \/ ~Whole(line))
  <2>1. TakeLine(a, line) = [a EXCEPT !.pending = Append(a.pending, line[1].id)]
    BY <1>3 DEF TakeLine
  <2>2. line[1] \in Cells
    BY <1>3
  <2>3. line[1].id \in Nat /\ a.pending \in Seq(Nat)
    BY <2>2 DEF Cells, Cursors
  <2>4. Append(a.pending, line[1].id) \in Seq(Nat)
    BY <2>3
  <2> QED BY <2>1, <2>4 DEF Cursors
<1> QED BY <1>1, <1>2, <1>3

\* A line that starts right after a newline is a whole record.
LEMMA WholeLine ==
    ASSUME NEW C \in Seq(Cells), RowsOfRecords(C), NEW e \in 1..Len(C), C[e] = Newline
    PROVE  LET line == SubSeq(C, PrevEnd(C, e) + 1, e - 1) IN
           /\ line \in Seq(Cells) /\ line # <<>> /\ Whole(line)
           /\ Len(line) = C[e - 1].size /\ line[1].id = C[e - 1].id /\ line[1].size = C[e - 1].size
<1> DEFINE b == PrevEnd(C, e)
           id == C[e - 1].id
           s == C[e - 1].size
           line == SubSeq(C, b + 1, e - 1)
<1>1. /\ e - 1 \in 1..Len(C) /\ C[e - 1] \in Cells /\ s >= 1 /\ b \in 0..(e - 2)
      /\ \A j \in 1..s : C[b + j] = Cell(id, j, s)
  BY LineBefore
<1>2. id \in Nat /\ s \in Nat
  <2> DEFINE c == C[e - 1]
  <2> HIDE DEF c
  <2>1. c \in Cells
    BY <1>1 DEF c
  <2>2. c.id \in Nat /\ c.size \in Nat
    BY <2>1 DEF Cells
  <2> QED BY <2>2 DEF c
<1>3. b = (e - 1) - s /\ Len(C) \in Nat
  BY DEF PrevEnd
<1> HIDE DEF b, id, s
<1>4. line \in Seq(Cells) /\ Len(line) = s /\ DOMAIN line = 1..s
  BY <1>1, <1>2, <1>3
<1>5. \A j \in 1..s : line[j] = C[b + j]
  BY <1>1, <1>2, <1>3
<1> HIDE DEF line
<1>6. \A j \in 1..s : line[j] = Cell(id, j, s)
  BY <1>1, <1>5
<1>7. line[1].id = id /\ line[1].size = s
  <2>1. 1 \in 1..s
    BY <1>1, <1>2
  <2> QED BY <1>2, <1>6, <2>1, CellIs
<1>8. line # <<>>
  BY <1>1, <1>2, <1>4
<1>9. Whole(line)
  <2>1. line = [j \in 1..s |-> line[j]]
    BY <1>4
  <2>2. line = [j \in 1..s |-> Cell(id, j, s)]
    BY <1>6, <2>1
  <2> QED BY <1>7, <2>2 DEF Whole
<1> QED BY <1>4, <1>7, <1>8, <1>9 DEF line, b, id, s

\* A line more is taken, whatever becomes of it.
LEMMA TakeLineSteps ==
    ASSUME NEW C \in Seq(Cells), RowsOfRecords(C), IdsGrow(C), NEW a \in Cursors,
           NEW e \in 1..Len(C), C[e] = Newline,
           NEW z \in 0..(e - 1), \A i \in (z + 1)..(e - 1) : C[i] # Newline,
           TakenUpTo(C, z, a.given \o a.pending, a.discarding)
    PROVE  LET t == TakeLine(a, SubSeq(C, z + 1, e - 1)) IN
           TakenUpTo(C, e, t.given \o t.pending, t.discarding)
<1> DEFINE line == SubSeq(C, z + 1, e - 1)
           got == a.given \o a.pending
<1>1. a.given \in Seq(Nat) /\ a.pending \in Seq(Nat) /\ a.discarding \in BOOLEAN /\ got \in Seq(Nat)
  BY DEF Cursors
<1>2. e - 1 \in 1..Len(C) /\ C[e - 1] # Newline /\ Len(C) \in Nat
  BY LineBefore
<1>3. line \in Seq(Cells) /\ Len(line) = e - 1 - z
  BY <1>2
<1>4. IF a.discarding THEN z > 0 /\ TooLong(C, IF C[z] = Newline THEN z ELSE z + 1)
      ELSE z = 0 \/ C[z] = Newline
  BY DEF TakenUpTo
<1> HIDE DEF line
<1>5. CASE line = <<>>
  <2>1. z = e - 1
    BY <1>2, <1>3, <1>5
  <2>2. a.discarding /\ z + 1 = e /\ TooLong(C, e)
    BY <1>2, <1>4, <2>1
  <2>3. TakeLine(a, line) = a
    BY <1>5 DEF TakeLine
  <2>4. TakenUpTo(C, e, got, TRUE)
    BY <1>1, <2>2, DroppedLine
  <2> QED BY <2>2, <2>3, <2>4 DEF line
<1>6. CASE line # <<>> /\ a.discarding
  <2>1. TakeLine(a, line) = [a EXCEPT !.discarding = FALSE]
    BY <1>6 DEF TakeLine
  <2>2. TooLong(C, e) \/ (PrevEnd(C, e) > 0 /\ TooLong(C, PrevEnd(C, e)))
    <3>1. CASE C[z] = Newline
      <4>1. PrevEnd(C, e) = z
        BY <3>1, AfterNewline
      <4> QED BY <1>4, <1>6, <3>1, <4>1
    <3>2. CASE C[z] # Newline
      <4>1. z \in 1..(e - 1)
        BY <1>4, <1>6
      <4>2. C[z].size = C[e - 1].size
        BY <3>2, <4>1, InsideLine
      <4>3. (z + 1) - 1 = z /\ TooLong(C, z + 1)
        BY <1>4, <1>6, <3>2
      <4> QED BY <4>2, <4>3 DEF TooLong
    <3> QED BY <3>1, <3>2
  <2>3. TakenUpTo(C, e, got, FALSE)
    BY <1>1, <2>2, DroppedLine
  <2>4. TakeLine(a, line).given \o TakeLine(a, line).pending = got /\ TakeLine(a, line).discarding = FALSE
    BY <2>1 DEF Cursors
  <2> HIDE DEF got
  <2> QED BY <2>3, <2>4 DEF line
<1>7. CASE line # <<>> /\ ~a.discarding
  <2>1. PrevEnd(C, e) = z
    BY <1>4, <1>7, AfterNewline
  <2>2. Whole(line) /\ Len(line) = C[e - 1].size /\ line[1].id = C[e - 1].id
    BY <2>1, WholeLine DEF line
  <2>3. CASE Len(line) > MaxRecord
    <3>1. TakeLine(a, line) = a
      BY <1>7, <2>3 DEF TakeLine
    <3>2. TooLong(C, e)
      BY <2>2, <2>3 DEF TooLong
    <3>3. TakenUpTo(C, e, got, FALSE)
      BY <1>1, <3>2, DroppedLine
    <3> QED BY <1>1, <1>7, <3>1, <3>3 DEF line
  <2>4. CASE ~(Len(line) > MaxRecord)
    <3> DEFINE id == C[e - 1].id
    <3>1. TakeLine(a, line) = [a EXCEPT !.pending = Append(a.pending, id)]
      BY <1>7, <2>2, <2>4 DEF TakeLine
    <3>2. id \in Nat
      <4>1. C[e - 1] \in Cells
        BY <1>2
      <4> QED BY <4>1 DEF Cells
    <3> DEFINE q == a.given \o Append(a.pending, id)
    <3>3. /\ q \in Seq(Nat) /\ Len(q) = Len(got) + 1 /\ q[Len(got) + 1] = id
          /\ \A i \in 1..Len(got) : q[i] = got[i]
      <4> DEFINE g == a.given
                 p == a.pending
      <4>1. g \in Seq(Nat) /\ p \in Seq(Nat)
        BY <1>1
      <4> HIDE DEF g, p, id
      <4>2. /\ g \o Append(p, id) \in Seq(Nat) /\ Len(g \o Append(p, id)) = Len(g \o p) + 1
            /\ (g \o Append(p, id))[Len(g \o p) + 1] = id
            /\ \A i \in 1..Len(g \o p) : (g \o Append(p, id))[i] = (g \o p)[i]
        BY <3>2, <4>1
      <4> QED BY <4>2 DEF g, p
    <3> HIDE DEF q, got
    <3>4. TakenUpTo(C, e, q, FALSE)
      BY <1>1, <2>1, <3>3, TakenLine DEF got
    <3>5. /\ TakeLine(a, line).given = a.given /\ TakeLine(a, line).pending = Append(a.pending, id)
          /\ TakeLine(a, line).discarding = FALSE
      BY <1>1, <1>7, <3>1 DEF Cursors
    <3> QED BY <3>4, <3>5 DEF line, q
  <2> QED BY <2>3, <2>4
<1> QED BY <1>1, <1>5, <1>6, <1>7

\* The cursor after each of the lines, step by step.
LEMMA TakenSteps ==
    ASSUME NEW c \in Cursors, NEW lines \in Seq(Seq(Cells))
    PROVE  /\ Taken(c, lines)[0] = c
           /\ \A n \in 1..Len(lines) : Taken(c, lines)[n] = TakeLine(Taken(c, lines)[n - 1], lines[n])
<1> DEFINE L == Len(lines)
           F == [n \in 1..L |-> [s \in Cursors |-> TakeLine(s, lines[n])]]
           e(f) == [n \in 0..L |-> IF n = 0 THEN c ELSE TakeLine(f[n - 1], lines[n])]
<1>0. L \in Nat /\ \A n \in 1..L : lines[n] \in Seq(Cells)
  OBVIOUS
<1>1. F \in [1..L -> [Cursors -> Cursors]]
  BY <1>0, TakeLineType
<1>2. PICK g \in [0..L -> Cursors] : g[0] = c /\ \A n \in 1..L : g[n] = F[n][g[n - 1]]
  <2>1. \E g \in [0..L -> Cursors] : IsRun(g, F, L, c)
    <3>1. L \in Nat
      BY <1>0
    <3> HIDE DEF F, L
    <3> QED BY <1>1, <3>1, RunExists
  <2> HIDE DEF F, L
  <2> QED BY <2>1 DEF IsRun
<1>3. g = e(g)
  <2>1. ASSUME NEW n \in 0..L PROVE g[n] = IF n = 0 THEN c ELSE TakeLine(g[n - 1], lines[n])
    <3>1. CASE n = 0
      BY <3>1, <1>2
    <3>2. CASE n # 0
      <4>1. n \in 1..L /\ n - 1 \in 0..L
        BY <3>2, <1>0
      <4>2. g[n - 1] \in Cursors /\ g[n] = F[n][g[n - 1]]
        BY <4>1, <1>2
      <4> QED BY <4>1, <4>2, <3>2
    <3> QED BY <3>1, <3>2
  <2> HIDE DEF L
  <2> QED BY <2>1
<1>4. Taken(c, lines) = CHOOSE f : f = e(f)
  BY DEF Taken
<1>5. Taken(c, lines) = e(Taken(c, lines))
  BY <1>3, <1>4
<1>6. 0 \in 0..L /\ \A n \in 1..L : n \in 0..L /\ n # 0
  BY <1>0
<1> DEFINE t == Taken(c, lines)
<1> HIDE DEF L, t
<1>7. t = [n \in 0..L |-> IF n = 0 THEN c ELSE TakeLine(t[n - 1], lines[n])]
  BY <1>5 DEF t
<1>8. t[0] = c /\ \A n \in 1..L : t[n] = TakeLine(t[n - 1], lines[n])
  BY <1>6, <1>7
<1> QED BY <1>8 DEF t, L

\* No place is between one and the next.
LEMMA KthGap ==
    ASSUME NEW S \in SUBSET Int, IsFiniteSet(S)
    PROVE  /\ \A k \in 1..Cardinality(S), i \in S : i < Kth(S, k) => k > 1 /\ i <= Kth(S, k - 1)
           /\ \A i \in S : Cardinality(S) \in 1..Cardinality(S) /\ i <= Kth(S, Cardinality(S))
<1> DEFINE n == Cardinality(S)
<1>1. /\ n \in Nat
      /\ \A k \in 1..n : Kth(S, k) \in S /\ Kth(S, k) \in Int
      /\ \A i \in S : Rank(S, i) \in 1..n /\ Kth(S, Rank(S, i)) = i
      /\ \A k, l \in 1..n : k < l <=> Kth(S, k) < Kth(S, l)
  BY KthPlace
<1> HIDE DEF n
<1>2. ASSUME NEW k \in 1..n, NEW i \in S, i < Kth(S, k) PROVE k > 1 /\ i <= Kth(S, k - 1)
  <2> DEFINE r == Rank(S, i)
  <2>1. r \in 1..n /\ Kth(S, r) = i /\ i \in Int
    BY <1>1
  <2> HIDE DEF r
  <2>2. r < k
    BY <1>1, <1>2, <2>1
  <2>3. k - 1 \in 1..n /\ k > 1 /\ r <= k - 1
    BY <1>1, <2>1, <2>2
  <2>4. CASE r = k - 1
    BY <2>1, <2>3, <2>4
  <2>5. CASE r < k - 1
    <3>1. Kth(S, r) < Kth(S, k - 1) /\ Kth(S, k - 1) \in Int
      BY <1>1, <2>1, <2>3, <2>5
    <3> QED BY <2>1, <2>3, <3>1
  <2> QED BY <1>1, <2>1, <2>3, <2>4, <2>5
<1>3. ASSUME NEW i \in S PROVE n \in 1..n /\ i <= Kth(S, n)
  <2> DEFINE r == Rank(S, i)
  <2>1. r \in 1..n /\ Kth(S, r) = i /\ i \in Int
    BY <1>1
  <2> HIDE DEF r
  <2>2. n \in 1..n /\ r <= n
    BY <1>1, <2>1
  <2>3. ~(Kth(S, n) < i) /\ Kth(S, n) \in Int
    BY <1>1, <2>1, <2>2
  <2> QED BY <2>1, <2>2, <2>3
<1> QED BY <1>2, <1>3 DEF n

\* A part of a part of a sequence.
LEMMA PartOfPart ==
    ASSUME NEW A, NEW C \in Seq(A), NEW o \in 0..Len(C), NEW x \in 0..o,
           NEW a \in Nat, a >= 1, NEW b \in Nat, b <= o - x
    PROVE  SubSeq(SubSeq(C, x + 1, o), a, b) = SubSeq(C, x + a, x + b)
<1> DEFINE B == SubSeq(C, x + 1, o)
           s == SubSeq(B, a, b)
           t == SubSeq(C, x + a, x + b)
<1>1. B \in Seq(A) /\ Len(B) = o - x /\ \A i \in 1..(o - x) : B[i] = C[x + i]
  OBVIOUS
<1> HIDE DEF B
<1>2. \A i \in a..b : B[i] \in A
  BY <1>1
<1>3. \A i \in (x + a)..(x + b) : C[i] \in A
  OBVIOUS
<1>4. s \in Seq(A) /\ Len(s) = (IF a <= b THEN b - a + 1 ELSE 0)
      /\ \A i \in 1..(b - a + 1) : s[i] = B[a + i - 1]
  BY <1>2, SubSeqProperties
<1>5. t \in Seq(A) /\ Len(t) = (IF x + a <= x + b THEN (x + b) - (x + a) + 1 ELSE 0)
      /\ \A i \in 1..((x + b) - (x + a) + 1) : t[i] = C[(x + a) + i - 1]
  BY <1>3, SubSeqProperties
<1> HIDE DEF s, t
<1>6. Len(s) = Len(t) /\ (Len(s) > 0 => Len(s) = b - a + 1 /\ a <= b)
  BY <1>4, <1>5
<1>7. ASSUME NEW i \in 1..Len(s) PROVE s[i] = t[i]
  <2>1. i \in 1..(b - a + 1) /\ i \in 1..((x + b) - (x + a) + 1) /\ a <= b
    BY <1>4
  <2>2. a + i - 1 \in 1..(o - x) /\ x + (a + i - 1) = (x + a) + i - 1
    BY <2>1
  <2>3. s[i] = B[a + i - 1] /\ t[i] = C[(x + a) + i - 1]
    BY <1>4, <1>5, <2>1
  <2> QED BY <1>1, <2>2, <2>3
<1>8. s = t
  BY <1>4, <1>5, <1>6, <1>7, SeqEqual
<1> QED BY <1>8 DEF s, t, B

\* Where the k-th line after x ends, in the cells up to o.
EndOf(C, x, o, k) == IF k = 0 THEN x ELSE x + Kth(Newlines(SubSeq(C, x + 1, o)), k)
LineCount(C, x, o) == Cardinality(Newlines(SubSeq(C, x + 1, o)))

\* The lines and the rest of a part of a log, by their places in the log.
LEMMA LinesOfPart ==
    ASSUME NEW C \in Seq(Cells), NEW o \in 0..Len(C), NEW x \in 0..o
    PROVE  /\ LineCount(C, x, o) \in Nat
           /\ \A k \in 0..LineCount(C, x, o) : EndOf(C, x, o, k) \in x..o
           /\ \A k \in 1..LineCount(C, x, o) :
                /\ C[EndOf(C, x, o, k)] = Newline /\ EndOf(C, x, o, k - 1) < EndOf(C, x, o, k)
                /\ \A i \in (EndOf(C, x, o, k - 1) + 1)..(EndOf(C, x, o, k) - 1) : C[i] # Newline
                /\ LinesOf(SubSeq(C, x + 1, o))[k] = SubSeq(C, EndOf(C, x, o, k - 1) + 1, EndOf(C, x, o, k) - 1)
           /\ DOMAIN LinesOf(SubSeq(C, x + 1, o)) = 1..LineCount(C, x, o)
           /\ \A i \in (EndOf(C, x, o, LineCount(C, x, o)) + 1)..o : C[i] # Newline
           /\ RestOf(SubSeq(C, x + 1, o)) = SubSeq(C, EndOf(C, x, o, LineCount(C, x, o)) + 1, o)
<1> DEFINE B == SubSeq(C, x + 1, o)
           S == Newlines(B)
           n == Cardinality(S)
           P(k) == IF k = 0 THEN x ELSE x + Kth(S, k)
<1>1. B \in Seq(Cells) /\ Len(B) = o - x /\ DOMAIN B = 1..(o - x) /\ \A i \in 1..(o - x) : B[i] = C[x + i]
  OBVIOUS
<1>2. x \in Nat /\ o \in Nat /\ o - x \in Nat /\ Len(C) \in Nat
  OBVIOUS
<1> HIDE DEF B
<1>3. \A i \in 1..(o - x) : i \in S <=> C[x + i] = Newline
  BY <1>1 DEF Newlines
<1>4. S \in SUBSET (1..(o - x)) /\ S \in SUBSET Int /\ IsFiniteSet(S)
  <2>1. S \in SUBSET (1..(o - x))
    BY <1>1 DEF Newlines
  <2>2. IsFiniteSet(1..(o - x))
    BY <1>2, FS_Interval
  <2>3. IsFiniteSet(S)
    BY <2>1, <2>2, FS_Subset
  <2>4. S \in SUBSET Int
    BY <1>2, <2>1
  <2> QED BY <2>1, <2>3, <2>4
<1> HIDE DEF S
<1>5. /\ n \in Nat /\ \A k \in 1..n : Kth(S, k) \in S
      /\ \A k, l \in 1..n : k < l <=> Kth(S, k) < Kth(S, l)
      /\ \A k \in 1..n, i \in S : i < Kth(S, k) => k > 1 /\ i <= Kth(S, k - 1)
      /\ \A i \in S : n \in 1..n /\ i <= Kth(S, n)
  <2>1. /\ n \in Nat /\ \A k \in 1..n : Kth(S, k) \in S
        /\ \A k, l \in 1..n : k < l <=> Kth(S, k) < Kth(S, l)
    BY <1>4, KthPlace
  <2>2. \A k \in 1..n, i \in S : i < Kth(S, k) => k > 1 /\ i <= Kth(S, k - 1)
    BY <1>4, KthGap
  <2>3. \A i \in S : n \in 1..n /\ i <= Kth(S, n)
    BY <1>4, KthGap
  <2> QED BY <2>1, <2>2, <2>3
<1> HIDE DEF n
<1>6. \A k \in 1..n : Kth(S, k) \in 1..(o - x) /\ P(k) = x + Kth(S, k) /\ P(k) \in (x + 1)..o
  <2>1. ASSUME NEW k \in 1..n
        PROVE  Kth(S, k) \in 1..(o - x) /\ P(k) = x + Kth(S, k) /\ P(k) \in (x + 1)..o
    <3>1. Kth(S, k) \in 1..(o - x)
      BY <1>4, <1>5
    <3>2. P(k) = x + Kth(S, k)
      BY <1>5
    <3> HIDE DEF P
    <3> QED BY <1>2, <3>1, <3>2
  <2> HIDE DEF P
  <2> QED BY <2>1
<1>7. P(0) = x
  OBVIOUS
<1>8. \A k \in 1..n : (k = 1 /\ P(k - 1) = x) \/ (k > 1 /\ k - 1 \in 1..n /\ P(k - 1) = x + Kth(S, k - 1))
  BY <1>5
<1> HIDE DEF P
<1>9. ASSUME NEW k \in 1..n
      PROVE  /\ C[P(k)] = Newline /\ P(k - 1) < P(k)
             /\ \A i \in (P(k - 1) + 1)..(P(k) - 1) : C[i] # Newline
             /\ LinesOf(B)[k] = SubSeq(C, P(k - 1) + 1, P(k) - 1)
  <2>1. Kth(S, k) \in 1..(o - x) /\ P(k) = x + Kth(S, k) /\ Kth(S, k) \in S
    BY <1>5, <1>6
  <2>2. C[P(k)] = Newline
    BY <1>3, <2>1
  <2>3. P(k - 1) < P(k) /\ P(k - 1) \in Int /\ P(k - 1) >= x
    <3>1. CASE k = 1
      BY <1>2, <1>7, <2>1, <3>1
    <3>2. CASE k > 1
      <4>1. k - 1 \in 1..n /\ P(k - 1) = x + Kth(S, k - 1) /\ Kth(S, k - 1) \in 1..(o - x) /\ k - 1 < k
        BY <1>5, <1>6, <1>8, <3>2
      <4>2. Kth(S, k - 1) < Kth(S, k)
        BY <1>5, <4>1
      <4> QED BY <1>2, <2>1, <4>1, <4>2
    <3> QED BY <1>5, <3>1, <3>2
  <2>4. ASSUME NEW i \in (P(k - 1) + 1)..(P(k) - 1) PROVE C[i] # Newline
    <3>1. SUFFICES ASSUME C[i] = Newline PROVE FALSE
      OBVIOUS
    <3> DEFINE j == i - x
    <3>2. j \in 1..(o - x) /\ x + j = i /\ j < Kth(S, k) /\ i > P(k - 1)
      BY <1>2, <2>1, <2>3
    <3> HIDE DEF j
    <3>3. j \in S
      BY <1>3, <3>1, <3>2
    <3>4. k > 1 /\ j <= Kth(S, k - 1)
      BY <1>5, <3>2, <3>3
    <3>5. P(k - 1) = x + Kth(S, k - 1) /\ Kth(S, k - 1) \in 1..(o - x)
      BY <1>5, <1>6, <1>8, <3>4
    <3> QED BY <1>2, <3>2, <3>4, <3>5
  <2>5. LinesOf(B)[k] = SubSeq(C, P(k - 1) + 1, P(k) - 1)
    <3> DEFINE a == LineStart(B, k)
               b == Kth(S, k) - 1
    <3>1. LinesOf(B)[k] = SubSeq(B, a, b)
      BY DEF LinesOf, n, S
    <3>2. a \in Nat /\ a >= 1 /\ x + a = P(k - 1) + 1
      <4>1. CASE k = 1
        <5>1. a = 1
          BY <4>1 DEF LineStart
        <5> QED BY <1>2, <1>7, <4>1, <5>1
      <4>2. CASE k > 1
        <5>1. k - 1 \in 1..n /\ P(k - 1) = x + Kth(S, k - 1) /\ Kth(S, k - 1) \in 1..(o - x)
          BY <1>5, <1>6, <1>8, <4>2
        <5>2. a = Kth(S, k - 1) + 1
          BY <4>2 DEF LineStart, S
        <5> HIDE DEF a
        <5> QED BY <1>2, <5>1, <5>2
      <4> QED BY <1>5, <4>1, <4>2
    <3>3. b \in Nat /\ b <= o - x /\ x + b = P(k) - 1
      BY <1>2, <2>1
    <3> HIDE DEF a, b
    <3>4. SubSeq(B, a, b) = SubSeq(C, x + a, x + b)
      BY <1>2, <3>2, <3>3, PartOfPart DEF B
    <3> QED BY <3>1, <3>2, <3>3, <3>4
  <2> QED BY <2>2, <2>3, <2>4, <2>5
<1>10. DOMAIN LinesOf(B) = 1..n
  BY DEF LinesOf, n, S
<1>11. P(n) \in x..o /\ P(n) = (IF n = 0 THEN x ELSE x + Kth(S, n))
  <2>1. CASE n = 0
    BY <1>2, <1>7, <2>1
  <2>2. CASE n # 0
    <3>1. n \in 1..n
      BY <1>5, <2>2
    <3> QED BY <1>2, <1>6, <2>2, <3>1
  <2> QED BY <2>1, <2>2
<1>12. ASSUME NEW i \in (P(n) + 1)..o PROVE C[i] # Newline
  <2>1. SUFFICES ASSUME C[i] = Newline PROVE FALSE
    OBVIOUS
  <2> DEFINE j == i - x
  <2>2. j \in 1..(o - x) /\ x + j = i /\ i > P(n)
    BY <1>2, <1>11
  <2> HIDE DEF j
  <2>3. j \in S
    BY <1>3, <2>1, <2>2
  <2>4. n \in 1..n /\ j <= Kth(S, n)
    BY <1>5, <2>3
  <2>5. Kth(S, n) \in 1..(o - x) /\ P(n) = x + Kth(S, n)
    BY <1>6, <2>4
  <2> QED BY <1>2, <2>2, <2>4, <2>5
<1>13. RestOf(B) = SubSeq(C, P(n) + 1, o)
  <2> DEFINE a == LineStart(B, n + 1)
             b == Len(B)
  <2>1. RestOf(B) = SubSeq(B, a, b)
    BY DEF RestOf, n, S
  <2>2. a \in Nat /\ a >= 1 /\ x + a = P(n) + 1
    <3>1. CASE n = 0
      <4>1. a = 1
        BY <3>1 DEF LineStart
      <4> QED BY <1>2, <1>7, <3>1, <4>1
    <3>2. CASE n # 0
      <4>1. n \in 1..n /\ n + 1 # 1 /\ (n + 1) - 1 = n
        BY <1>5, <3>2
      <4>2. a = Kth(S, n) + 1
        BY <4>1 DEF LineStart, S
      <4>3. P(n) = x + Kth(S, n) /\ Kth(S, n) \in 1..(o - x)
        BY <1>6, <4>1
      <4> HIDE DEF a
      <4> QED BY <1>2, <4>2, <4>3
    <3> QED BY <3>1, <3>2
  <2>3. b \in Nat /\ b <= o - x /\ x + b = o
    BY <1>1, <1>2
  <2> HIDE DEF a, b
  <2>4. SubSeq(B, a, b) = SubSeq(C, x + a, x + b)
    BY <1>2, <2>2, <2>3, PartOfPart DEF B
  <2> QED BY <2>1, <2>2, <2>3, <2>4
<1>14. \A k \in 0..n : P(k) \in x..o
  <2>1. \A k \in 0..n : k = 0 \/ k \in 1..n
    BY <1>5
  <2>2. \A k \in 1..n : P(k) \in x..o
    BY <1>2, <1>6
  <2>3. P(0) \in x..o
    BY <1>2, <1>7
  <2> QED BY <2>1, <2>2, <2>3
<1>15. LineCount(C, x, o) = n /\ \A k : EndOf(C, x, o, k) = P(k)
  BY DEF LineCount, EndOf, P, n, S, B
<1> DEFINE N == LineCount(C, x, o)
           E(k) == EndOf(C, x, o, k)
<1>16. N = n /\ \A k : E(k) = P(k)
  BY <1>15
<1> HIDE DEF N, E
<1>17. N \in Nat /\ DOMAIN LinesOf(B) = 1..N /\ \A k \in 0..N : E(k) \in x..o
  BY <1>5, <1>10, <1>14, <1>16
<1>18. ASSUME NEW k \in 1..N
       PROVE  /\ C[E(k)] = Newline /\ E(k - 1) < E(k)
              /\ \A i \in (E(k - 1) + 1)..(E(k) - 1) : C[i] # Newline
              /\ LinesOf(B)[k] = SubSeq(C, E(k - 1) + 1, E(k) - 1)
  <2>1. k \in 1..n /\ E(k) = P(k) /\ E(k - 1) = P(k - 1)
    BY <1>16
  <2> QED BY <1>9, <2>1
<1>19. (\A i \in (E(N) + 1)..o : C[i] # Newline) /\ RestOf(B) = SubSeq(C, E(N) + 1, o)
  <2>1. E(N) = P(n)
    BY <1>16
  <2> QED BY <1>12, <1>13, <2>1
<1> QED BY <1>17, <1>18, <1>19 DEF B, N, E

\* The cells after the last newline are of one record.
LEMMA OpenLine ==
    ASSUME NEW C \in Seq(Cells), RowsOfRecords(C), NEW o \in 1..Len(C), NEW z \in 0..(o - 1),
           \A i \in (z + 1)..o : C[i] # Newline
    PROVE  /\ C[o] \in Cells /\ C[o].size \in Nat
           /\ z = 0 \/ C[z] = Newline => C[o].size >= o - z
           /\ z > 0 /\ C[z] # Newline => C[z].size = C[o].size
<1> DEFINE c == C[o]
           b == o - c.place
<1>1. DOMAIN C = 1..Len(C) /\ Len(C) \in Nat /\ c \in Cells /\ c # Newline
  OBVIOUS
<1>2. c.id \in Nat /\ c.place \in Nat /\ c.size \in Nat
  <2> HIDE DEF c
  <2> QED BY <1>1 DEF Cells
<1>3. /\ c.place \in 1..c.size /\ c.place <= o
      /\ o = c.place \/ C[o - c.place] = Newline
      /\ \A j \in 1..c.place : C[o - c.place + j] = Cell(c.id, j, c.size)
  BY <1>1 DEF RowsOfRecords
<1> HIDE DEF c
<1>4. b \in 0..(o - 1) /\ (b > 0 => C[b] = Newline)
  BY <1>2, <1>3
<1>5. ASSUME NEW i \in (b + 1)..o PROVE C[i] # Newline /\ C[i].size = c.size
  <2> DEFINE j == i - b
  <2>1. j \in 1..c.place /\ o - c.place + j = i
    BY <1>2, <1>4, SMTT(30)
  <2>3. C[o - c.place + j] = Cell(c.id, j, c.size)
    BY <1>3, <2>1
  <2>2. C[i] = Cell(c.id, j, c.size) /\ j \in Nat /\ j > 0
    <3> HIDE DEF j
    <3>1. C[i] = Cell(c.id, j, c.size)
      BY <2>1, <2>3, Zenon
    <3>2. j \in Nat /\ j > 0
      BY <2>1, <1>2
    <3> QED BY <3>1, <3>2
  <2> HIDE DEF j
  <2>4. Cell(c.id, j, c.size) # Newline /\ Cell(c.id, j, c.size).size = c.size
    BY <1>2, <2>2, CellIs, SMTT(30)
  <2> QED BY <2>2, <2>4, Zenon
<1>6. b = o - c.place
  OBVIOUS
<1> HIDE DEF b
<1>7. b <= z
  <2>1. SUFFICES ASSUME b > z PROVE FALSE
    BY <1>4
  <2>2. b \in (z + 1)..o /\ C[b] = Newline
    BY <1>4, <2>1
  <2> QED BY <2>2
<1>8. ASSUME z = 0 \/ C[z] = Newline PROVE c.size >= o - z
  <2>1. b = z
    <3>1. SUFFICES ASSUME b < z PROVE FALSE
      BY <1>4, <1>7
    <3>2. z \in (b + 1)..o /\ C[z] = Newline
      BY <1>4, <1>8, <3>1
    <3> QED BY <1>5, <3>2
  <2> QED BY <1>2, <1>3, <1>6, <2>1
<1>9. ASSUME z > 0, C[z] # Newline PROVE C[z].size = c.size
  <2>1. b # z
    BY <1>4, <1>9
  <2>2. z \in (b + 1)..o
    BY <1>4, <1>7, <2>1
  <2> QED BY <1>5, <2>2
<1> QED BY <1>1, <1>2, <1>8, <1>9 DEF c

\* A rest that is too long is given up, and its line with it.
LEMMA RestDropped ==
    ASSUME NEW C \in Seq(Cells), RowsOfRecords(C), NEW o \in 1..Len(C), NEW z \in 0..(o - 1),
           \A i \in (z + 1)..o : C[i] # Newline, o - z > MaxRecord,
           NEW got \in Seq(Nat), NEW d \in BOOLEAN, TakenUpTo(C, z, got, d)
    PROVE  TakenUpTo(C, o, got, TRUE)
<1>0. MaxRecord \in Nat
  BY LimitsAssumption
<1>1. /\ \A i, j \in DOMAIN got : i < j => got[i] < got[j]
      /\ \A i \in DOMAIN got : \E f \in 1..z : C[f] = Newline /\ C[f - 1].id = got[i]
  BY DEF TakenUpTo
<1>2. \A f \in 1..z : C[f] = Newline =>
         \/ \E i \in DOMAIN got : got[i] = C[f - 1].id
         \/ TooLong(C, f)
         \/ PrevEnd(C, f) > 0 /\ TooLong(C, PrevEnd(C, f))
  BY DEF TakenUpTo
<1>3. IF d THEN z > 0 /\ TooLong(C, IF C[z] = Newline THEN z ELSE z + 1) ELSE z = 0 \/ C[z] = Newline
  BY DEF TakenUpTo
<1>4. \A f \in 1..o : f \in 1..z \/ f \in (z + 1)..o
  OBVIOUS
<1>5. \A f \in 1..z : f \in 1..o
  OBVIOUS
<1>6. \A f \in 1..o : C[f] = Newline =>
         \/ \E i \in DOMAIN got : got[i] = C[f - 1].id
         \/ TooLong(C, f)
         \/ PrevEnd(C, f) > 0 /\ TooLong(C, PrevEnd(C, f))
  BY <1>2, <1>4
<1>7. \A i \in DOMAIN got : \E f \in 1..o : C[f] = Newline /\ C[f - 1].id = got[i]
  BY <1>1, <1>5
<1>8. C[o] # Newline
  OBVIOUS
<1>9. C[o].size > MaxRecord
  <2>1. /\ C[o].size \in Nat
        /\ z = 0 \/ C[z] = Newline => C[o].size >= o - z
        /\ z > 0 /\ C[z] # Newline => C[z].size = C[o].size
    BY OpenLine
  <2>2. CASE z = 0 \/ C[z] = Newline
    <3> DEFINE s == C[o].size
    <3>1. s \in Nat /\ s >= o - z
      BY <2>1, <2>2
    <3> HIDE DEF s
    <3>2. s > MaxRecord
      BY <1>0, <3>1
    <3> QED BY <3>2 DEF s
  <2>3. CASE z > 0 /\ C[z] # Newline
    <3>1. TooLong(C, z + 1) /\ (z + 1) - 1 = z
      BY <1>3, <2>3
    <3> QED BY <2>1, <2>3, <3>1 DEF TooLong
  <2> QED BY <2>2, <2>3
<1>10. o > 0 /\ TooLong(C, IF C[o] = Newline THEN o ELSE o + 1)
  <2>1. (o + 1) - 1 = o
    OBVIOUS
  <2> QED BY <1>8, <1>9, <2>1 DEF TooLong
<1> QED BY <1>1, <1>6, <1>7, <1>10 DEF TakenUpTo

\* What the cursor stands for: its rest is the cells after z, up to the offset.
Stands(c, C) ==
    LET z == c.offset - Len(c.partial) IN
    /\ Len(c.partial) <= c.offset /\ c.offset <= Len(C)
    /\ c.partial = SubSeq(C, z + 1, c.offset)
    /\ \A i \in (z + 1)..c.offset : C[i] # Newline
    /\ TakenUpTo(C, z, c.given \o c.pending, c.discarding)

\* All whole lines of what was read are taken.
LEMMA LinesTaken ==
    ASSUME NEW C \in Seq(Cells), RowsOfRecords(C), IdsGrow(C), NEW c \in Cursors,
           NEW o \in 0..Len(C), NEW x \in 0..o, TakenUpTo(C, x, c.given \o c.pending, c.discarding)
    PROVE  LET n == LineCount(C, x, o)
               t == Taken(c, LinesOf(SubSeq(C, x + 1, o)))[n]
           IN  /\ LinesOf(SubSeq(C, x + 1, o)) \in Seq(Seq(Cells))
               /\ Len(LinesOf(SubSeq(C, x + 1, o))) = n
               /\ t \in Cursors /\ t.given = c.given
               /\ TakenUpTo(C, EndOf(C, x, o, n), t.given \o t.pending, t.discarding)
<1> DEFINE n == LineCount(C, x, o)
           E(k) == EndOf(C, x, o, k)
           ls == LinesOf(SubSeq(C, x + 1, o))
           t == Taken(c, ls)
           Good(k) == /\ t[k] \in Cursors /\ t[k].given = c.given
                      /\ TakenUpTo(C, E(k), t[k].given \o t[k].pending, t[k].discarding)
           T == {k \in Nat : k <= n => Good(k)}
<1>1. n \in Nat /\ \A k \in 0..n : E(k) \in x..o
  BY LinesOfPart
<1>11. \A k \in 1..n : C[E(k)] = Newline /\ E(k - 1) < E(k)
  BY LinesOfPart
<1>13. \A k \in 1..n : ls[k] = SubSeq(C, E(k - 1) + 1, E(k) - 1)
  BY LinesOfPart
<1>14. \A k \in 1..n : \A i \in (E(k - 1) + 1)..(E(k) - 1) : C[i] # Newline
  BY LinesOfPart
<1>12. DOMAIN ls = 1..n
  BY LinesOfPart
<1>2. E(0) = x
  BY DEF EndOf
<1>3. Len(C) \in Nat /\ x \in Nat /\ o \in Nat
  OBVIOUS
<1> HIDE DEF n, E
<1>4. \A k \in 1..n : ls[k] \in Seq(Cells)
  <2>1. ASSUME NEW k \in 1..n PROVE ls[k] \in Seq(Cells)
    <3>1. k \in 0..n /\ k - 1 \in 0..n
      BY <1>1, <1>11, <1>12
    <3> DEFINE a == E(k - 1)
               b == E(k)
    <3>2. a \in x..o /\ b \in x..o /\ ls[k] = SubSeq(C, a + 1, b - 1)
      <4>1. a \in x..o /\ b \in x..o
        BY <1>1, <3>1
      <4>2. ls[k] = SubSeq(C, a + 1, b - 1)
        <5> HIDE DEF ls
        <5> QED BY <1>13, Zenon
      <4> QED BY <4>1, <4>2
    <3> HIDE DEF a, b, ls
    <3>3. \A i \in (a + 1)..(b - 1) : C[i] \in Cells
      BY <1>3, <3>2
    <3>4. SubSeq(C, a + 1, b - 1) \in Seq(Cells)
      BY <1>3, <3>2, <3>3, SubSeqProperties
    <3> QED BY <3>2, <3>4
  <2> QED BY <2>1
<1>5. ls \in Seq(Seq(Cells)) /\ Len(ls) = n
  <2>1. ls = [k \in 1..n |-> ls[k]]
    BY <1>1, <1>12 DEF LinesOf
  <2> HIDE DEF ls
  <2>2. ls \in [1..n -> Seq(Cells)]
    BY <1>4, <2>1
  <2> QED BY <1>1, <1>11, <1>12, <2>2
<1>6. t[0] = c /\ \A k \in 1..n : t[k] = TakeLine(t[k - 1], ls[k])
  <2> HIDE DEF ls
  <2> QED BY <1>5, TakenSteps
<1> HIDE DEF t, ls
<1>7. Good(0)
  BY <1>2, <1>6
<1>8. ASSUME NEW k \in Nat, k + 1 <= n, Good(k) PROVE Good(k + 1)
  <2> DEFINE e == E(k + 1)
             z == E(k)
  <2>1. k + 1 \in 1..n /\ k \in 0..n /\ k + 1 \in 0..n /\ (k + 1) - 1 = k
    BY <1>1, <1>11, <1>12, <1>8
  <2>2. e \in x..o /\ z \in x..o /\ C[e] = Newline /\ z < e
        /\ (\A i \in (z + 1)..(e - 1) : C[i] # Newline) /\ ls[k + 1] = SubSeq(C, z + 1, e - 1)
    <3>1. e \in x..o /\ z \in x..o
      BY <1>1, <2>1
    <3>2. E((k + 1) - 1) = z
      BY <2>1
    <3>3. /\ C[e] = Newline /\ E((k + 1) - 1) < e
          /\ \A i \in (E((k + 1) - 1) + 1)..(e - 1) : C[i] # Newline
          /\ ls[k + 1] = SubSeq(C, E((k + 1) - 1) + 1, e - 1)
      BY <1>11, <1>13, <1>14, <2>1, Zenon
    <3> HIDE DEF e, z
    <3> QED BY <3>1, <3>2, <3>3
  <2>3. t[k + 1] = TakeLine(t[k], SubSeq(C, z + 1, e - 1))
    BY <1>6, <2>1, <2>2
  <2>4. t[k] \in Cursors /\ t[k].given = c.given /\ TakenUpTo(C, z, t[k].given \o t[k].pending, t[k].discarding)
    BY <1>8
  <2>5. ls[k + 1] \in Seq(Cells)
    BY <1>4, <2>1
  <2> HIDE DEF e, z
  <2>6. e \in 1..Len(C) /\ z \in 0..(e - 1)
    BY <1>3, <2>2
  <2> DEFINE a == t[k]
             line == SubSeq(C, z + 1, e - 1)
  <2>7. a \in Cursors /\ TakenUpTo(C, z, a.given \o a.pending, a.discarding) /\ line \in Seq(Cells)
    BY <2>2, <2>4, <2>5
  <2> HIDE DEF a
  <2>8. TakenUpTo(C, e, TakeLine(a, line).given \o TakeLine(a, line).pending, TakeLine(a, line).discarding)
    BY <2>2, <2>6, <2>7, TakeLineSteps
  <2>9. TakeLine(a, line) \in Cursors /\ TakeLine(a, line).given = a.given
    <3> HIDE DEF line
    <3> QED BY <2>7, TakeLineType
  <2> QED BY <2>3, <2>4, <2>8, <2>9 DEF a, e
<1>9. T = Nat
  <2>1. 0 \in T
    BY <1>7
  <2>2. ASSUME NEW k \in T PROVE k + 1 \in T
    <3>1. k \in Nat /\ (k <= n => Good(k))
      OBVIOUS
    <3> HIDE DEF Good
    <3>2. k + 1 <= n => Good(k + 1)
      BY <1>1, <1>11, <1>12, <1>8, <3>1
    <3> QED BY <3>1, <3>2
  <2>3. T \in SUBSET Nat
    OBVIOUS
  <2> HIDE DEF T
  <2> QED BY <2>1, <2>2, <2>3, SetInduction
<1>10. Good(n)
  <2>1. n \in Nat /\ n <= n
    BY <1>1, <1>11, <1>12
  <2>2. n \in T
    <3> HIDE DEF T
    <3> QED BY <2>1, <1>9
  <2> HIDE DEF Good
  <2> QED BY <2>1, <2>2
<1> QED BY <1>5, <1>10 DEF t, ls, n, E

\* The samples are places of the log, the first one with them.
LEMMA SamplesType ==
    ASSUME NEW C \in Seq(Cells), NEW o \in 0..Len(C)
    PROVE  /\ Samples(C, o) \in SUBSET [at : Nat, cell : Cells]
           /\ o > 0 => [at |-> 1, cell |-> C[1]] \in Samples(C, o)
<1>1. Len(C) \in Nat /\ o \in Nat /\ \A p \in 1..o : C[p] \in Cells /\ p \in Nat
  OBVIOUS
<1> DEFINE S == {1, (o + 1) \div 2, o} \cap 1..o
<1>2. S \subseteq 1..o /\ (o > 0 => 1 \in S)
  BY <1>1
<1> HIDE DEF S
<1>3. \A p \in S : [at |-> p, cell |-> C[p]] \in [at : Nat, cell : Cells]
  BY <1>1, <1>2
<1>4. Samples(C, o) = {[at |-> p, cell |-> C[p]] : p \in S}
  BY DEF Samples, S
<1> QED BY <1>2, <1>3, <1>4

\* What a call reads is what was kept and what comes after it.
LEMMA Buffer ==
    ASSUME NEW C \in Seq(Cells), NEW c \in Cursors, Stands(c, C), NEW o \in c.offset..Len(C)
    PROVE  /\ c.offset \in Nat /\ Len(c.partial) \in Nat /\ c.offset - Len(c.partial) \in 0..o
           /\ c.partial \o SubSeq(C, c.offset + 1, o) = SubSeq(C, c.offset - Len(c.partial) + 1, o)
<1> DEFINE f == c.offset
           p == c.partial
           l == Len(p)
           x == f - l
<1>1. f \in Nat /\ p \in Seq(Cells)
  BY DEF Cursors
<1>2. l <= f /\ f <= Len(C) /\ p = SubSeq(C, x + 1, f)
  BY DEF Stands
<1>3. l \in Nat
  <2> HIDE DEF p
  <2> QED BY <1>1
<1>4. o \in f..Len(C)
  OBVIOUS
<1> HIDE DEF f, p
<1> HIDE DEF l
<1>5. Len(C) \in Nat /\ o \in Nat
  BY <1>1, <1>4
<1>6. x \in 0..o /\ x + 1 \in 1..(Len(C) + 1) /\ f \in ((x + 1) - 1)..Len(C)
  BY <1>1, <1>2, <1>3, <1>4, <1>5
<1> HIDE DEF x
<1> DEFINE m == x + 1
<1>7. m \in 1..(Len(C) + 1) /\ f \in (m - 1)..Len(C)
  BY <1>6
<1> HIDE DEF m
<1>8. SubSeq(C, m, f) \o SubSeq(C, f + 1, o) = SubSeq(C, m, o)
  BY <1>4, <1>7, ConcatAdjacentSubSeq
<1>9. p \o SubSeq(C, f + 1, o) = SubSeq(C, x + 1, o)
  BY <1>2, <1>8, Zenon DEF m
<1> QED BY <1>1, <1>3, <1>6, <1>9 DEF f, p, l, x

\* A call that reads leaves a cursor that stands further on in the same log.
LEMMA ReadOnSteps ==
    ASSUME log.cells \in Seq(Cells), RowsOfRecords(log.cells), IdsGrow(log.cells),
           NEW c \in Cursors, Stands(c, log.cells)
    PROVE  /\ ReadOn(c) \in Cursors
           /\ ReadOn(c).read = log.cells
           /\ ReadOn(c).offset > 0 => [at |-> 1, cell |-> log.cells[1]] \in ReadOn(c).guard
           /\ Len(ReadOn(c).partial) <= MaxRecord
           /\ Stands(ReadOn(c), log.cells)
<1> DEFINE C == log.cells
           o == IF c.offset + MaxRead < Len(C) THEN c.offset + MaxRead ELSE Len(C)
           x == c.offset - Len(c.partial)
           B == c.partial \o SubSeq(C, c.offset + 1, o)
           ls == LinesOf(B)
           rest == RestOf(B)
           t == Taken(c, ls)[Len(ls)]
           d == ReadOn(c)
<1>0. /\ MaxRead \in Nat /\ MaxRecord \in Nat
      /\ C \in Seq(Cells) /\ RowsOfRecords(C) /\ IdsGrow(C) /\ Stands(c, C)
  BY LimitsAssumption
<1>1. d = [t EXCEPT !.offset = o, !.read = C, !.guard = Samples(C, o), !.partial = KeptRest(rest),
                    !.discarding = t.discarding \/ Len(rest) > MaxRecord]
  BY DEF ReadOn
<1> HIDE DEF C, d
<1>2. c.offset \in Nat /\ Len(C) \in Nat /\ c.offset <= Len(C)
  BY <1>0 DEF Stands, Cursors
<1>3. o \in c.offset..Len(C) /\ o \in 0..Len(C)
  BY <1>0, <1>2
<1> HIDE DEF o
<1>4. x \in 0..o /\ B = SubSeq(C, x + 1, o)
  BY <1>0, <1>3, Buffer
<1>5. TakenUpTo(C, x, c.given \o c.pending, c.discarding)
  BY <1>0 DEF Stands
<1> HIDE DEF x, B
<1> DEFINE n == LineCount(C, x, o)
           z == EndOf(C, x, o, n)
           P == SubSeq(C, x + 1, o)
<1>6. /\ LinesOf(P) \in Seq(Seq(Cells)) /\ Len(LinesOf(P)) = n
      /\ Taken(c, LinesOf(P))[n] \in Cursors
      /\ TakenUpTo(C, z, Taken(c, LinesOf(P))[n].given \o Taken(c, LinesOf(P))[n].pending,
                   Taken(c, LinesOf(P))[n].discarding)
  BY <1>0, <1>3, <1>4, <1>5, LinesTaken
<1>7. ls = LinesOf(P) /\ rest = RestOf(P) /\ t = Taken(c, LinesOf(P))[n]
  <2>1. B = P
    BY <1>4
  <2> HIDE DEF P, n
  <2> QED BY <1>6, <2>1
<1>8. t \in Cursors /\ TakenUpTo(C, z, t.given \o t.pending, t.discarding)
  <2> HIDE DEF t, P, n, z
  <2> QED BY <1>6, <1>7
<1>9. n \in Nat /\ z \in x..o
  <2>1. n \in Nat
    BY <1>0, <1>3, <1>4, LinesOfPart
  <2>2. n \in 0..n
    BY <2>1
  <2> QED BY <1>0, <1>3, <1>4, <2>1, <2>2, LinesOfPart
<1>10. \A i \in (z + 1)..o : C[i] # Newline
  BY <1>0, <1>3, <1>4, LinesOfPart
<1>11. rest = SubSeq(C, z + 1, o)
  BY <1>0, <1>3, <1>4, <1>7, LinesOfPart
<1> HIDE DEF t, n, z, P, rest, ls
<1>12. x \in Nat /\ z \in Nat /\ o \in Nat /\ z <= o
  BY <1>2, <1>3, <1>4, <1>9
<1>13. rest \in Seq(Cells) /\ Len(rest) = o - z
  <2>1. \A i \in (z + 1)..o : C[i] \in Cells
    BY <1>0, <1>3, <1>12
  <2> QED BY <1>11, <1>12, <2>1, SubSeqProperties
<1>14. Samples(C, o) \in SUBSET [at : Nat, cell : Cells] /\ (o > 0 => [at |-> 1, cell |-> C[1]] \in Samples(C, o))
  BY <1>0, <1>3, SamplesType
<1>15. KeptRest(rest) \in Seq(Cells) /\ Len(KeptRest(rest)) <= MaxRecord
  BY <1>0, <1>12, <1>13 DEF KeptRest
<1> DEFINE s == Samples(C, o)
           k == KeptRest(rest)
           b == (t.discarding \/ Len(rest) > MaxRecord)
<1>16. t.discarding \in BOOLEAN /\ t.given \in Seq(Nat) /\ t.pending \in Seq(Nat) /\ b \in BOOLEAN
  BY <1>8 DEF Cursors
<1>17. s \in SUBSET [at : Nat, cell : Cells] /\ k \in Seq(Cells) /\ b \in BOOLEAN
  BY <1>14, <1>15, <1>16
<1>18. d = [t EXCEPT !.offset = o, !.read = C, !.guard = s, !.partial = k, !.discarding = b]
  BY <1>1
<1> HIDE DEF s, k, b
<1>19. /\ d \in Cursors /\ d.offset = o /\ d.read = C /\ d.guard = s /\ d.partial = k /\ d.discarding = b
       /\ d.given = t.given /\ d.pending = t.pending
  BY <1>0, <1>8, <1>12, <1>17, <1>18 DEF Cursors
<1>20. Stands(d, C)
  <2> DEFINE got == t.given \o t.pending
  <2>1. got \in Seq(Nat)
    BY <1>16
  <2>2. TakenUpTo(C, z, got, t.discarding)
    BY <1>8
  <2> HIDE DEF got
  <2>3. CASE o - z > MaxRecord
    <3>1. k = <<>> /\ b = TRUE
      BY <1>13, <2>3 DEF k, b, KeptRest
    <3>2. o \in 1..Len(C) /\ z \in 0..(o - 1)
      BY <1>0, <1>2, <1>3, <1>12, <2>3
    <3>3. TakenUpTo(C, o, got, TRUE)
      BY <1>0, <1>10, <1>16, <2>1, <2>2, <2>3, <3>2, RestDropped
    <3>4. Len(k) = 0 /\ o - Len(k) = o /\ Len(k) <= o /\ o <= Len(C)
      BY <1>3, <1>12, <3>1
    <3>5. k = SubSeq(C, o + 1, o)
      BY <3>1, <1>12, SubSeqEmpty
    <3>6. \A i \in (o + 1)..o : C[i] # Newline
      BY <1>12
    <3> QED BY <1>19, <3>1, <3>3, <3>4, <3>5, <3>6 DEF Stands, got
  <2>4. CASE ~(o - z > MaxRecord)
    <3>1. k = rest /\ b = t.discarding
      BY <1>13, <1>16, <2>4 DEF k, b, KeptRest
    <3>2. Len(k) = o - z /\ o - Len(k) = z /\ Len(k) <= o /\ o <= Len(C)
      BY <1>3, <1>12, <1>13, <3>1
    <3>3. k = SubSeq(C, z + 1, o)
      BY <1>11, <3>1
    <3> QED BY <1>10, <1>19, <2>2, <3>1, <3>2, <3>3 DEF Stands, got
  <2> QED BY <2>3, <2>4
<1> QED BY <1>14, <1>15, <1>19, <1>20 DEF C, d, s, k

\* u is g, of length x, and then a, of length y.
IsJoined(u, g, x, a, y) ==
    /\ u \in Seq(Nat) /\ Len(u) = x + y
    /\ \A i \in 1..(x + y) : u[i] = IF i <= x THEN g[i] ELSE a[i - x]

\* What a concatenation is.
LEMMA Joined ==
    ASSUME NEW g \in Seq(Nat), NEW a \in Seq(Nat)
    PROVE  IsJoined(g \o a, g, Len(g), a, Len(a))
BY ConcatProperties DEF IsJoined

\* It does not matter which of three parts are joined first.
LEMMA JoinedTwice ==
    ASSUME NEW x \in Nat, NEW y \in Nat, NEW z \in Nat, NEW g, NEW a, NEW b, NEW u, NEW v, NEW l, NEW r,
           IsJoined(u, g, x, a, y), IsJoined(v, a, y, b, z), IsJoined(l, u, x + y, b, z),
           IsJoined(r, g, x, v, y + z)
    PROVE  l = r
<1>1. l \in Seq(Nat) /\ r \in Seq(Nat) /\ Len(l) = x + y + z /\ Len(r) = x + y + z
  BY DEF IsJoined
<1>2. /\ \A i \in 1..(x + y) : u[i] = IF i <= x THEN g[i] ELSE a[i - x]
      /\ \A i \in 1..(y + z) : v[i] = IF i <= y THEN a[i] ELSE b[i - y]
      /\ \A i \in 1..((x + y) + z) : l[i] = IF i <= x + y THEN u[i] ELSE b[i - (x + y)]
      /\ \A i \in 1..(x + (y + z)) : r[i] = IF i <= x THEN g[i] ELSE v[i - x]
  BY DEF IsJoined
<1>3. ASSUME NEW i \in 1..(x + y + z) PROVE l[i] = r[i]
  <2>1. CASE i <= x
    BY <1>2, <2>1
  <2>2. CASE i > x /\ i <= x + y
    <3>1. l[i] = a[i - x] /\ r[i] = v[i - x] /\ i - x \in 1..(y + z) /\ i - x <= y
      BY <1>2, <2>2
    <3> QED BY <1>2, <3>1
  <2>3. CASE i > x + y
    <3>1. l[i] = b[i - (x + y)] /\ r[i] = v[i - x]
      BY <1>2, <2>3
    <3>2. i - x \in 1..(y + z) /\ ~(i - x <= y) /\ (i - x) - y = i - (x + y)
      BY <2>3
    <3>3. v[i - x] = b[(i - x) - y]
      BY <1>2, <3>2
    <3> QED BY <3>1, <3>2, <3>3
  <2> QED BY <2>1, <2>2, <2>3
<1> QED BY <1>1, <1>3, SeqEqual

\* The first part of a sequence is moved to the end of the one before it.
IsSplit(p, a, b) == a \o b = p
IsMoved(g, a, b, p) == g \o a \in Seq(Nat) /\ (g \o a) \o b = g \o p

\* What they hold together stays the same.
LEMMA Moved ==
    ASSUME NEW g \in Seq(Nat), NEW a \in Seq(Nat), NEW b \in Seq(Nat), NEW p \in Seq(Nat), IsSplit(p, a, b)
    PROVE  IsMoved(g, a, b, p)
<1> DEFINE u == g \o a
           l == u \o b
           r == g \o p
           x == Len(g)
           y == Len(a)
           z == Len(b)
<1>1. x \in Nat /\ y \in Nat /\ z \in Nat
  OBVIOUS
<1>2. IsJoined(u, g, x, a, y) /\ u \in Seq(Nat) /\ Len(u) = x + y
  BY Joined DEF IsJoined
<1>3. IsJoined(p, a, y, b, z) /\ Len(p) = y + z
  <2>1. IsJoined(a \o b, a, y, b, z)
    BY Joined
  <2>2. IsJoined(p, a, y, b, z)
    BY <2>1, Zenon DEF IsSplit
  <2> QED BY <2>2 DEF IsJoined
<1> HIDE DEF u
<1>4. IsJoined(l, u, Len(u), b, z)
  BY <1>2, Joined
<1>5. IsJoined(r, g, x, p, Len(p))
  BY Joined
<1> HIDE DEF l, r, x, y, z
<1>6. l = r
  BY ONLY <1>1, <1>2, <1>3, <1>4, <1>5, JoinedTwice
<1> QED BY <1>2, <1>6 DEF l, r, u, IsMoved

\* Records that are returned are no longer pending, and nothing else changes.
LEMMA DeliverSteps ==
    ASSUME NEW c \in Cursors, Deliver(c)
    PROVE  /\ cur' \in Cursors /\ cur'.inode = c.inode /\ cur'.offset = c.offset /\ cur'.partial = c.partial
           /\ cur'.discarding = c.discarding /\ cur'.guard = c.guard /\ cur'.read = c.read
           /\ cur'.given \o cur'.pending = c.given \o c.pending
<1> DEFINE p == c.pending
           g == c.given
           l == Len(p)
           n == IF l < MaxBatch THEN l ELSE MaxBatch
           a == SubSeq(p, 1, n)
           b == SubSeq(p, n + 1, l)
<1>1. cur' = [c EXCEPT !.given = g \o a, !.pending = b]
  BY DEF Deliver
<1>2. p \in Seq(Nat) /\ g \in Seq(Nat) /\ MaxBatch \in Nat
  BY LimitsAssumption DEF Cursors
<1> HIDE DEF p, g
<1>3. l \in Nat
  BY <1>2
<1>4. n \in 0..l /\ n \in Nat
  BY <1>2, <1>3
<1> HIDE DEF n
<1>5. a \in Seq(Nat) /\ b \in Seq(Nat) /\ a \o b = p
  <2>1. (\A i \in 1..n : p[i] \in Nat) /\ (\A i \in (n + 1)..l : p[i] \in Nat)
    BY <1>2, <1>4
  <2>2. a \in Seq(Nat)
    BY <1>4, <2>1, SubSeqProperties
  <2>3. b \in Seq(Nat)
    BY <1>3, <1>4, <2>1, SubSeqProperties
  <2>4. SubSeq(p, 1, n) \o SubSeq(p, n + 1, l) = SubSeq(p, 1, l)
    <3>1. 1 \in 1..(Len(p) + 1) /\ n \in (1 - 1)..Len(p) /\ l \in n..Len(p)
      BY <1>3, <1>4
    <3> HIDE DEF l
    <3> QED BY <1>2, <3>1, ConcatAdjacentSubSeq
  <2>5. SubSeq(p, 1, l) = p
    BY <1>2, SubSeqFull
  <2> QED BY <2>2, <2>3, <2>4, <2>5
<1> HIDE DEF a, b
<1>6. g \o a \in Seq(Nat) /\ (g \o a) \o b = g \o p
  <2> HIDE DEF l
  <2>1. g \in Seq(Nat) /\ a \in Seq(Nat) /\ b \in Seq(Nat) /\ p \in Seq(Nat) /\ IsSplit(p, a, b)
    BY <1>2, <1>5 DEF IsSplit
  <2>2. IsMoved(g, a, b, p)
    BY <2>1, Moved
  <2> QED BY <2>2 DEF IsMoved
<1> DEFINE h == g \o a
<1>7. h \in Seq(Nat) /\ h \o b = g \o p /\ cur' = [c EXCEPT !.given = h, !.pending = b]
  BY <1>1, <1>6
<1> HIDE DEF h
<1>8. /\ cur' \in Cursors /\ cur'.inode = c.inode /\ cur'.offset = c.offset /\ cur'.partial = c.partial
      /\ cur'.discarding = c.discarding /\ cur'.guard = c.guard /\ cur'.read = c.read
      /\ cur'.given = h /\ cur'.pending = b
  BY <1>5, <1>7 DEF Cursors
<1>9. cur'.given \o cur'.pending = c.given \o c.pending
  BY <1>7, <1>8 DEF g, p
<1> QED BY <1>8, <1>9

\* What is taken of a log is as much taken of one that starts with the same cells.
LEMMA StandsAlso ==
    ASSUME NEW C \in Seq(Cells), RowsOfRecords(C), NEW c \in Cursors, Stands(c, C),
           NEW D \in Seq(Cells), c.offset <= Len(D), \A i \in 1..c.offset : D[i] = C[i]
    PROVE  Stands(c, D)
<1> DEFINE f == c.offset
           p == c.partial
           l == Len(p)
           z == f - l
           got == c.given \o c.pending
           w == c.discarding
<1>1. /\ l <= f /\ f <= Len(C) /\ p = SubSeq(C, z + 1, f) /\ (\A i \in (z + 1)..f : C[i] # Newline)
      /\ TakenUpTo(C, z, got, w)
  BY DEF Stands
<1>2. f \in Nat /\ p \in Seq(Cells) /\ w \in BOOLEAN
  BY DEF Cursors
<1>3. l \in Nat
  <2> HIDE DEF p
  <2> QED BY <1>2
<1>4. f <= Len(D) /\ \A i \in 1..f : D[i] = C[i]
  OBVIOUS
<1>5. Len(C) \in Nat /\ Len(D) \in Nat
  OBVIOUS
<1> HIDE DEF f, p, l, got, w
<1>6. z \in Nat /\ z <= f
  BY <1>1, <1>2, <1>3
<1>7. SubSeq(C, z + 1, f) = SubSeq(D, z + 1, f)
  <2> DEFINE a == SubSeq(C, z + 1, f)
             b == SubSeq(D, z + 1, f)
  <2>1. \A i \in (z + 1)..f : C[i] \in Cells /\ D[i] \in Cells /\ D[i] = C[i]
    BY <1>1, <1>2, <1>4, <1>5, <1>6
  <2>2. a \in Seq(Cells) /\ Len(a) = (IF z + 1 <= f THEN f - (z + 1) + 1 ELSE 0)
        /\ \A i \in 1..(f - (z + 1) + 1) : a[i] = C[(z + 1) + i - 1]
    BY <1>2, <1>6, <2>1, SubSeqProperties
  <2>3. b \in Seq(Cells) /\ Len(b) = (IF z + 1 <= f THEN f - (z + 1) + 1 ELSE 0)
        /\ \A i \in 1..(f - (z + 1) + 1) : b[i] = D[(z + 1) + i - 1]
    <3>1. z + 1 \in Int /\ f \in Int /\ \A i \in (z + 1)..f : D[i] \in Cells
      BY <1>2, <1>6, <2>1
    <3> DEFINE m == z + 1
    <3> HIDE DEF m
    <3>2. m \in Int /\ \A i \in m..f : D[i] \in Cells
      BY <3>1 DEF m
    <3>3. SubSeq(D, m, f) \in Seq(Cells) /\ Len(SubSeq(D, m, f)) = (IF m <= f THEN f - m + 1 ELSE 0)
      BY <3>1, <3>2, SubSeqProperties
    <3>4. \A i \in 1..(f - m + 1) : SubSeq(D, m, f)[i] = D[m + i - 1]
      BY <3>1, <3>2, SubSeqProperties
    <3> QED BY <3>3, <3>4 DEF m
  <2> HIDE DEF a, b
  <2>4. Len(a) = f - z /\ Len(b) = f - z
    BY <1>2, <1>6, <2>2, <2>3
  <2>5. ASSUME NEW i \in 1..Len(a) PROVE a[i] = b[i]
    <3>1. i \in 1..(f - (z + 1) + 1) /\ (z + 1) + i - 1 \in (z + 1)..f
      BY <1>2, <1>6, <2>4
    <3> QED BY <2>1, <2>2, <2>3, <3>1
  <2>6. a = b
    BY <2>2, <2>3, <2>4, <2>5, SeqEqual
  <2> QED BY <2>6 DEF a, b
<1> HIDE DEF z
<1>8. \A i \in 1..z : i \in 1..Len(C) /\ D[i] = C[i]
  BY <1>1, <1>2, <1>4, <1>5, <1>6
<1>9. ASSUME NEW e \in 1..z, C[e] = Newline
      PROVE  /\ D[e - 1] = C[e - 1] /\ PrevEnd(D, e) = PrevEnd(C, e)
             /\ TooLong(D, e) <=> TooLong(C, e)
             /\ PrevEnd(C, e) > 0 => (TooLong(D, PrevEnd(C, e)) <=> TooLong(C, PrevEnd(C, e)))
  <2>1. e \in 1..Len(C) /\ e - 1 \in 1..Len(C) /\ e - 1 \in 1..z
    <3>1. e \in 1..Len(C)
      BY <1>8
    <3>2. e - 1 \in 1..Len(C)
      BY <1>9, <3>1, LineBefore
    <3> QED BY <3>1, <3>2, <1>6
  <2>2. D[e - 1] = C[e - 1] /\ PrevEnd(D, e) = PrevEnd(C, e)
    BY <1>8, <2>1 DEF PrevEnd
  <2>3. ASSUME PrevEnd(C, e) > 0 PROVE D[PrevEnd(C, e) - 1] = C[PrevEnd(C, e) - 1]
    <3> DEFINE b == PrevEnd(C, e)
    <3>1. b \in 0..(e - 2) /\ b \in 1..Len(C) /\ C[b] = Newline
      BY <1>9, <2>1, <2>3, LineBefore
    <3> HIDE DEF b
    <3>2. b - 1 \in 1..Len(C)
      BY <3>1, LineBefore
    <3>3. b - 1 \in 1..z
      BY <1>6, <3>1, <3>2
    <3> QED BY <1>8, <3>3 DEF b
  <2> QED BY <2>2, <2>3 DEF TooLong
<1>10. TakenUpTo(D, z, got, w)
  <2>1. \A i, j \in DOMAIN got : i < j => got[i] < got[j]
    BY <1>1 DEF TakenUpTo
  <2>2. ASSUME NEW i \in DOMAIN got PROVE \E e \in 1..z : D[e] = Newline /\ D[e - 1].id = got[i]
    <3>1. PICK e \in 1..z : C[e] = Newline /\ C[e - 1].id = got[i]
      BY <1>1 DEF TakenUpTo
    <3> QED BY <1>8, <1>9, <3>1
  <2>3. ASSUME NEW e \in 1..z, D[e] = Newline
        PROVE  \/ \E i \in DOMAIN got : got[i] = D[e - 1].id
               \/ TooLong(D, e)
               \/ PrevEnd(D, e) > 0 /\ TooLong(D, PrevEnd(D, e))
    <3>1. C[e] = Newline
      BY <1>8, <2>3
    <3>2. \/ \E i \in DOMAIN got : got[i] = C[e - 1].id
          \/ TooLong(C, e)
          \/ PrevEnd(C, e) > 0 /\ TooLong(C, PrevEnd(C, e))
      BY <1>1, <3>1 DEF TakenUpTo
    <3>3. /\ D[e - 1] = C[e - 1] /\ PrevEnd(D, e) = PrevEnd(C, e) /\ (TooLong(D, e) <=> TooLong(C, e))
          /\ PrevEnd(C, e) > 0 => (TooLong(D, PrevEnd(C, e)) <=> TooLong(C, PrevEnd(C, e)))
      BY <1>9, <3>1
    <3> QED BY <3>2, <3>3
  <2>4. IF w THEN z > 0 /\ TooLong(D, IF D[z] = Newline THEN z ELSE z + 1) ELSE z = 0 \/ D[z] = Newline
    <3>1. IF w THEN z > 0 /\ TooLong(C, IF C[z] = Newline THEN z ELSE z + 1) ELSE z = 0 \/ C[z] = Newline
      BY <1>1 DEF TakenUpTo
    <3>2. CASE z = 0
      BY <1>6, <3>1, <3>2
    <3>3. CASE z > 0
      <4>1. z \in 1..z /\ D[z] = C[z] /\ (z + 1) - 1 = z
        BY <1>6, <1>8, <3>3
      <4>2. TooLong(D, z + 1) <=> TooLong(C, z + 1)
        BY <4>1 DEF TooLong
      <4> QED BY <1>9, <3>1, <4>1, <4>2
    <3> QED BY <1>6, <3>2, <3>3
  <2> QED BY <2>1, <2>2, <2>3, <2>4 DEF TakenUpTo
<1>11. \A i \in (z + 1)..f : D[i] # Newline
  BY <1>1, <1>2, <1>4, <1>6, SMTT(30)
<1> QED BY <1>1, <1>4, <1>7, <1>10, <1>11 DEF Stands, f, p, l, z, got, w

\* A new cursor stands at the start of every log.
LEMMA FreshStands ==
    ASSUME NEW C \in Seq(Cells), NEW inode \in Nat
    PROVE  Fresh(inode) \in Cursors /\ Stands(Fresh(inode), C)
<1> DEFINE e == << >>
<1>1. Fresh(inode) \in Cursors
  BY DEF Fresh, Cursors
<1>2. /\ Fresh(inode).offset = 0 /\ Fresh(inode).partial = <<>> /\ Fresh(inode).given = <<>>
      /\ Fresh(inode).pending = <<>> /\ Fresh(inode).discarding = FALSE
  BY DEF Fresh
<1>3. <<>> \o <<>> = <<>> /\ Len(<<>>) = 0 /\ DOMAIN <<>> = {} /\ Len(C) \in Nat
  OBVIOUS
<1>4. TakenUpTo(C, 0, <<>>, FALSE)
  <2>1. \A e1 \in 1..0 : FALSE
    OBVIOUS
  <2> QED BY <1>3, <2>1 DEF TakenUpTo
<1>5. <<>> = SubSeq(C, 0 + 1, 0)
  BY SubSeqEmpty
<1>6. \A i \in (0 + 1)..0 : C[i] # Newline
  OBVIOUS
<1>7. Fresh(inode).offset - Len(Fresh(inode).partial) = 0 /\ 0 <= Len(C) /\ Len(Fresh(inode).partial) = 0
  <2>1. Len(Fresh(inode).partial) = 0
    BY <1>2, <1>3, Zenon
  <2> DEFINE f == Fresh(inode).offset
             l == Len(Fresh(inode).partial)
  <2>2. f - l = 0
    <3>1. f = 0 /\ l = 0
      BY <1>2, <2>1
    <3> HIDE DEF f, l
    <3> QED BY <3>1
  <2> QED BY <1>3, <2>1, <2>2
<1> QED BY <1>1, <1>2, <1>3, <1>4, <1>5, <1>6, <1>7 DEF Stands

\* The invariant says that the cursor stands in the log that it read.
LEMMA InvStands ==
    ASSUME CursorTypeOK
    PROVE  ProgressInv <=> Stands(cur, cur.read)
BY DEF CursorTypeOK, ProgressInv, Stands

\* One more cell that fits to those before it.
LEMMA AppendRows ==
    ASSUME NEW C \in Seq(Cells), RowsOfRecords(C), NEW D \in Seq(Cells), Len(D) = Len(C) + 1,
           \A i \in 1..Len(C) : D[i] = C[i],
           LET n == Len(D) IN
           IF D[n] = Newline
           THEN n > 1 /\ D[n - 1] # Newline /\ D[n - 1].place = D[n - 1].size
           ELSE /\ D[n].place \in 1..D[n].size /\ D[n].place <= n
                /\ n = D[n].place \/ D[n - D[n].place] = Newline
                /\ \A j \in 1..D[n].place : D[n - D[n].place + j] = Cell(D[n].id, j, D[n].size)
    PROVE  RowsOfRecords(D)
<1> DEFINE m == Len(C)
<1>1. m \in Nat /\ DOMAIN C = 1..m /\ DOMAIN D = 1..(m + 1) /\ Len(D) = m + 1
  OBVIOUS
<1>2. \A i \in 1..m : D[i] = C[i] /\ D[i] \in Cells
  OBVIOUS
<1>3. ASSUME NEW i \in 1..(m + 1)
      PROVE  IF D[i] = Newline
             THEN i > 1 /\ D[i - 1] # Newline /\ D[i - 1].place = D[i - 1].size
             ELSE /\ D[i].place \in 1..D[i].size /\ D[i].place <= i
                  /\ i = D[i].place \/ D[i - D[i].place] = Newline
                  /\ \A j \in 1..D[i].place : D[i - D[i].place + j] = Cell(D[i].id, j, D[i].size)
  <2>1. CASE i = m + 1
    BY <2>1, <1>1
  <2>2. CASE i \in 1..m
    <3> DEFINE c == C[i]
    <3>1. D[i] = c /\ c \in Cells
      BY <1>2, <2>2
    <3>2. CASE c = Newline
      <4>1. i > 1 /\ C[i - 1] # Newline /\ C[i - 1].place = C[i - 1].size
        BY <1>1, <2>2, <3>2 DEF RowsOfRecords
      <4>2. i - 1 \in 1..m
        BY <1>1, <2>2, <4>1
      <4>3. D[i - 1] = C[i - 1]
        BY <1>2, <4>2
      <4> QED BY <3>1, <3>2, <4>1, <4>3
    <3>3. CASE c # Newline
      <4> DEFINE p == c.place
                 s == c.size
                 d == c.id
      <4>1. /\ p \in 1..s /\ p <= i
            /\ i = p \/ C[i - p] = Newline
            /\ \A j \in 1..p : C[i - p + j] = Cell(d, j, s)
        BY <1>1, <2>2, <3>3 DEF RowsOfRecords
      <4>2. p \in Nat /\ s \in Nat
        <5> HIDE DEF c
        <5> QED BY <3>1 DEF Cells
      <4>3. D[i].place = p /\ D[i].size = s /\ D[i].id = d /\ D[i] # Newline
        BY <3>1, <3>3
      <4> HIDE DEF p, s, d, m
      <4>4. i = p \/ D[i - p] = Newline
        <5>1. CASE i = p
          BY <5>1
        <5>2. CASE i # p
          <6>1. i - p \in 1..m
            BY <1>1, <2>2, <4>1, <4>2, <5>2
          <6> QED BY <1>2, <4>1, <5>2, <6>1
        <5> QED BY <5>1, <5>2
      <4>5. ASSUME NEW j \in 1..p PROVE D[i - p + j] = Cell(d, j, s)
        <5>1. i - p + j \in 1..m
          BY <1>1, <2>2, <4>1, <4>2
        <5> QED BY <1>2, <4>1, <5>1
      <4> QED BY <4>1, <4>3, <4>4, <4>5
    <3> QED BY <3>2, <3>3
  <2> QED BY <1>1, <2>1, <2>2
<1> HIDE DEF m
<1> QED BY <1>1, <1>3 DEF RowsOfRecords

\* The new cell's record is the last one, or is new.
LEMMA AppendGrows ==
    ASSUME NEW C \in Seq(Cells), IdsGrow(C), NEW D \in Seq(Cells), RowsOfRecords(D), Len(D) = Len(C) + 1,
           \A i \in 1..Len(C) : D[i] = C[i],
           \A i \in 1..Len(C) : C[i] # Newline /\ D[Len(D)] # Newline /\ i <= Len(D) - D[Len(D)].place =>
             C[i].id < D[Len(D)].id
    PROVE  IdsGrow(D)
<1> DEFINE m == Len(C)
<1>1. m \in Nat /\ DOMAIN C = 1..m /\ DOMAIN D = 1..(m + 1) /\ Len(D) = m + 1
  OBVIOUS
<1>2. ASSUME NEW i \in 1..(m + 1), NEW j \in 1..(m + 1), D[i] # Newline, D[j] # Newline, i <= j - D[j].place
      PROVE  D[i].id < D[j].id
  <2> DEFINE p == D[j].place
  <2>1. p \in Nat
    <3> DEFINE c == D[j]
    <3>1. c \in Cells
      BY <1>1
    <3> HIDE DEF c
    <3>2. c.place \in Nat
      BY <3>1 DEF Cells
    <3> QED BY <3>2 DEF c
  <2>2. i <= j - p
    BY <1>2
  <2>3. p >= 1
    BY <1>1, <1>2 DEF RowsOfRecords
  <2> HIDE DEF p, m
  <2>4. i \in 1..m
    BY <1>1, <2>1, <2>2, <2>3
  <2>5. D[i] = C[i]
    BY <2>4 DEF m
  <2>6. CASE j = m + 1
    <3>1. C[i] # Newline /\ D[Len(D)] # Newline /\ i <= Len(D) - D[Len(D)].place
      BY <1>1, <1>2, <2>2, <2>5, <2>6 DEF p
    <3>2. C[i].id < D[Len(D)].id
      BY <2>4, <3>1 DEF m
    <3> QED BY <1>1, <2>5, <2>6, <3>2
  <2>7. CASE j \in 1..m
    <3>1. D[j] = C[j]
      BY <2>7 DEF m
    <3>2. C[i].id < C[j].id
      <4>1. C[i] # Newline /\ C[j] # Newline /\ i <= j - C[j].place
        BY <1>2, <2>2, <2>5, <3>1 DEF p
      <4>2. i \in DOMAIN C /\ j \in DOMAIN C
        BY <1>1, <2>4, <2>7
      <4> QED BY <4>1, <4>2 DEF IdsGrow
    <3> QED BY <2>5, <3>1, <3>2
  <2> QED BY <1>1, <2>6, <2>7
<1> HIDE DEF m
<1> QED BY <1>1, <1>2 DEF IdsGrow

\* The owner writes a cell: the log stays rows of records, whose identifiers grow.
LEMMA WrittenLog ==
    ASSUME NEW C \in Seq(Cells), RowsOfRecords(C), IdsGrow(C), NEW ids \in Nat,
           \A i \in 1..Len(C) : C[i].id <= ids,
           NEW v \in Cells, NEW ids2 \in Nat, ids <= ids2, v.id <= ids2,
           \/ /\ C = <<>> \/ C[Len(C)] = Newline
              /\ v # Newline /\ v.place = 1 /\ v.size >= 1 /\ v.id > ids
           \/ /\ C # <<>> /\ C[Len(C)] # Newline
              /\ IF C[Len(C)].place < C[Len(C)].size
                 THEN v # Newline /\ v.id = C[Len(C)].id /\ v.place = C[Len(C)].place + 1 /\ v.size = C[Len(C)].size
                 ELSE v = Newline,
           NEW D \in Seq(Cells), Len(D) = Len(C) + 1, \A i \in 1..Len(C) : D[i] = C[i], D[Len(C) + 1] = v
    PROVE  /\ RowsOfRecords(D) /\ IdsGrow(D) /\ \A i \in 1..Len(D) : D[i].id <= ids2
<1> DEFINE m == Len(C)
           w == C[m]
<1>1. m \in Nat /\ DOMAIN C = 1..m /\ Len(D) = m + 1 /\ DOMAIN D = 1..(m + 1)
  OBVIOUS
<1>2. \A i \in 1..m : D[i] = C[i] /\ C[i] \in Cells
  OBVIOUS
<1>3. v.id \in Nat /\ v.place \in Nat /\ v.size \in Nat /\ D[m + 1] = v
  BY DEF Cells
<1>4. v # Newline => v = Cell(v.id, v.place, v.size)
  BY DEF Cells, Cell
<1>5. ASSUME C # <<>>, w # Newline PROVE RowsOfRecords(D) /\ IdsGrow(D)
  <2>1. m \in 1..m /\ m > 0
    BY <1>1, <1>5
  <2>2. w \in Cells /\ D[m] = w
    BY <1>2, <2>1
  <2> DEFINE p == w.place
             s == w.size
             d == w.id
  <2>3. p \in Nat /\ s \in Nat /\ d \in Nat
    <3> HIDE DEF w
    <3> QED BY <2>2 DEF Cells
  <2>4. /\ p \in 1..s /\ p <= m
        /\ m = p \/ C[m - p] = Newline
        /\ \A j \in 1..p : C[m - p + j] = Cell(d, j, s)
    BY <1>1, <1>5, <2>1 DEF RowsOfRecords
  <2>5. IF p < s THEN v # Newline /\ v.id = d /\ v.place = p + 1 /\ v.size = s ELSE v = Newline
    BY <1>5
  <2>6. CASE p < s
    <3>1. v # Newline /\ v.id = d /\ v.place = p + 1 /\ v.size = s
      BY <2>5, <2>6
    <3>2. (m + 1) = v.place \/ D[(m + 1) - v.place] = Newline
      <4>1. CASE m = p
        BY <3>1, <4>1
      <4>2. CASE m # p
        <5>1. m - p \in 1..m /\ (m + 1) - v.place = m - p
          BY <1>1, <2>3, <2>4, <3>1, <4>2
        <5> HIDE DEF p, m
        <5>2. D[m - p] = Newline
          BY <1>2, <2>4, <4>2, <5>1
        <5> QED BY <5>1, <5>2
      <4> QED BY <4>1, <4>2
    <3>3. ASSUME NEW j \in 1..v.place PROVE D[(m + 1) - v.place + j] = Cell(v.id, j, v.size)
      <4>1. CASE j = v.place
        <5>1. (m + 1) - v.place + j = m + 1
          BY <1>1, <1>3, <4>1
        <5> QED BY <1>3, <1>4, <3>1, <4>1, <5>1
      <4>2. CASE j # v.place
        <5>1. j \in 1..p /\ (m + 1) - v.place + j = m - p + j /\ m - p + j \in 1..m
          BY <1>1, <1>3, <2>3, <2>4, <3>1, <4>2, SMTT(30)
        <5> HIDE DEF p, m, d, s
        <5>2. D[m - p + j] = Cell(d, j, s)
          BY <1>2, <2>4, <5>1
        <5> QED BY <3>1, <5>1, <5>2
      <4> QED BY <4>1, <4>2
    <3>4. v.place \in 1..v.size /\ v.place <= m + 1
      BY <1>1, <2>3, <2>4, <2>6, <3>1
    <3>5. RowsOfRecords(D)
      BY <1>1, <1>2, <1>3, <3>1, <3>2, <3>3, <3>4, AppendRows
    <3>6. ASSUME NEW i \in 1..m, C[i] # Newline, i <= (m + 1) - v.place PROVE C[i].id < v.id
      <4>1. i <= m - p
        BY <1>1, <2>3, <3>1, <3>6
      <4>2. C[i].id < C[m].id
        BY <1>1, <1>5, <2>1, <3>6, <4>1 DEF IdsGrow
      <4> QED BY <3>1, <4>2
    <3>7. IdsGrow(D)
      BY <1>1, <1>2, <1>3, <3>5, <3>6, AppendGrows
    <3> QED BY <3>5, <3>7
  <2>7. CASE ~(p < s)
    <3>1. v = Newline /\ p = s
      BY <2>3, <2>4, <2>5, <2>7
    <3>2. (m + 1) - 1 = m /\ m + 1 > 1
      BY <1>1, <2>1
    <3>3. RowsOfRecords(D)
      BY <1>1, <1>2, <1>3, <1>5, <2>2, <3>1, <3>2, AppendRows
    <3>4. IdsGrow(D)
      BY <1>1, <1>2, <1>3, <3>1, <3>3, AppendGrows
    <3> QED BY <3>3, <3>4
  <2> QED BY <2>6, <2>7
<1>6. ASSUME C = <<>> \/ w = Newline PROVE RowsOfRecords(D) /\ IdsGrow(D)
  <2>1. v # Newline /\ v.place = 1 /\ v.size >= 1 /\ v.id > ids
    BY <1>6
  <2>2. (m + 1) = v.place \/ D[(m + 1) - v.place] = Newline
    <3>1. CASE m = 0
      BY <2>1, <3>1
    <3>2. CASE m # 0
      <4>1. m \in 1..m /\ (m + 1) - v.place = m /\ C # <<>>
        BY <1>1, <2>1, <3>2
      <4> QED BY <1>2, <1>6, <4>1
    <3> QED BY <3>1, <3>2
  <2>3. ASSUME NEW j \in 1..v.place PROVE D[(m + 1) - v.place + j] = Cell(v.id, j, v.size)
    <3>1. j = 1 /\ (m + 1) - v.place + j = m + 1
      BY <1>1, <2>1
    <3> QED BY <1>3, <1>4, <2>1, <3>1
  <2>4. v.place \in 1..v.size /\ v.place <= m + 1
    BY <1>1, <1>3, <2>1
  <2>5. RowsOfRecords(D)
    BY <1>1, <1>2, <1>3, <2>1, <2>2, <2>3, <2>4, AppendRows
  <2>6. \A i \in 1..m : C[i].id < v.id
    <3>1. ASSUME NEW i \in 1..m PROVE C[i].id < v.id
      <4> DEFINE c == C[i]
      <4>1. c \in Cells /\ c.id <= ids
        BY <1>2
      <4> HIDE DEF c
      <4>2. c.id \in Nat
        BY <4>1 DEF Cells
      <4>3. c.id < v.id
        BY <1>3, <2>1, <4>1, <4>2
      <4> QED BY <4>3 DEF c
    <3> QED BY <3>1
  <2>7. IdsGrow(D)
    BY <1>1, <1>2, <1>3, <2>5, <2>6, AppendGrows
  <2> QED BY <2>5, <2>7
<1>7. ASSUME NEW i \in 1..(m + 1) PROVE D[i].id <= ids2
  <2>1. CASE i = m + 1
    BY <1>3, <2>1
  <2>2. CASE i \in 1..m
    <3> DEFINE c == C[i]
    <3>1. c \in Cells /\ c.id <= ids /\ D[i] = c
      BY <1>2, <2>2
    <3> HIDE DEF c
    <3>2. c.id \in Nat
      BY <3>1 DEF Cells
    <3> QED BY <3>1, <3>2
  <2> QED BY <1>1, <2>1, <2>2
<1> QED BY <1>1, <1>5, <1>6, <1>7

\* What CursorInv says of the state, with the cursor as one that stands in a log.
LEMMA CursorParts ==
    ASSUME CursorInv
    PROVE  /\ log.cells \in Seq(Cells) /\ log.inode \in Nat /\ log.ids \in Nat
           /\ log \in [cells : Seq(Cells), inode : Nat, ids : Nat]
           /\ RowsOfRecords(log.cells) /\ IdsGrow(log.cells)
           /\ \A i \in 1..Len(log.cells) : log.cells[i].id <= log.ids
           /\ cur \in Cursors /\ cur.read \in Seq(Cells) /\ cur.offset \in Nat
           /\ RowsOfRecords(cur.read) /\ IdsGrow(cur.read)
           /\ \A i \in 1..Len(cur.read) : cur.read[i].id <= log.ids
           /\ Len(cur.partial) <= MaxRecord
           /\ Stands(cur, cur.read)
<1>1. CursorTypeOK /\ LogInv /\ ProgressInv
  BY DEF CursorInv
<1>2. /\ log.cells \in Seq(Cells) /\ log.inode \in Nat /\ log.ids \in Nat
      /\ log \in [cells : Seq(Cells), inode : Nat, ids : Nat]
      /\ cur \in Cursors /\ Len(cur.partial) <= MaxRecord
  BY <1>1 DEF CursorTypeOK, Cursors
<1>3. cur.read \in Seq(Cells) /\ cur.offset \in Nat
  BY <1>2 DEF Cursors
<1>4. DOMAIN log.cells = 1..Len(log.cells)
  BY <1>2
<1>5. DOMAIN cur.read = 1..Len(cur.read)
  BY <1>3
<1>6. RowsOfRecords(log.cells) /\ IdsGrow(log.cells) /\ RowsOfRecords(cur.read) /\ IdsGrow(cur.read)
  BY <1>1 DEF LogInv
<1>7. \A i \in 1..Len(log.cells) : log.cells[i].id <= log.ids
  BY <1>1, <1>4 DEF LogInv
<1>8. \A i \in 1..Len(cur.read) : cur.read[i].id <= log.ids
  BY <1>1, <1>5 DEF LogInv
<1>9. Stands(cur, cur.read)
  BY <1>1, InvStands
<1> QED BY <1>2, <1>3, <1>6, <1>7, <1>8, <1>9

\* The same, the other way.
LEMMA PartsCursor ==
    ASSUME log \in [cells : Seq(Cells), inode : Nat, ids : Nat],
           RowsOfRecords(log.cells), IdsGrow(log.cells),
           \A i \in 1..Len(log.cells) : log.cells[i].id <= log.ids,
           cur \in Cursors, RowsOfRecords(cur.read), IdsGrow(cur.read),
           \A i \in 1..Len(cur.read) : cur.read[i].id <= log.ids,
           Len(cur.partial) <= MaxRecord, Stands(cur, cur.read), GuardInv
    PROVE  CursorInv
<1>1. log.cells \in Seq(Cells) /\ cur.read \in Seq(Cells) /\ cur.offset <= Len(cur.read)
  BY DEF Cursors, Stands
<1>2. CursorTypeOK
  BY <1>1 DEF CursorTypeOK, Cursors
<1>3. DOMAIN log.cells = 1..Len(log.cells)
  BY <1>1
<1>4. DOMAIN cur.read = 1..Len(cur.read)
  BY <1>1
<1>5. LogInv
  BY <1>3, <1>4 DEF LogInv
<1>6. ProgressInv
  BY <1>2, InvStands
<1> QED BY <1>2, <1>5, <1>6 DEF CursorInv

\* And after a step.
LEMMA PartsCursorNext ==
    ASSUME log' \in [cells : Seq(Cells), inode : Nat, ids : Nat],
           RowsOfRecords(log'.cells), IdsGrow(log'.cells),
           \A i \in 1..Len(log'.cells) : log'.cells[i].id <= log'.ids,
           cur' \in Cursors, RowsOfRecords(cur'.read), IdsGrow(cur'.read),
           \A i \in 1..Len(cur'.read) : cur'.read[i].id <= log'.ids,
           Len(cur'.partial) <= MaxRecord, Stands(cur', cur'.read), GuardInv'
    PROVE  CursorInv'
<1>1. log'.cells \in Seq(Cells) /\ cur'.read \in Seq(Cells) /\ cur'.offset <= Len(cur'.read)
  BY DEF Cursors, Stands
<1>2. CursorTypeOK'
  BY <1>1 DEF CursorTypeOK, Cursors
<1>3. DOMAIN log'.cells = 1..Len(log'.cells)
  BY <1>1
<1>4. DOMAIN cur'.read = 1..Len(cur'.read)
  BY <1>1
<1>5. LogInv'
  BY <1>3, <1>4 DEF LogInv
<1>6. ProgressInv'
  BY <1>2 DEF CursorTypeOK, ProgressInv, Stands
<1> QED BY <1>2, <1>5, <1>6 DEF CursorInv

\* An empty log and a new cursor.
LEMMA CursorInitInv ==
    ASSUME CursorInit
    PROVE  CursorInv
<1>1. log = [cells |-> <<>>, inode |-> 1, ids |-> 0] /\ cur = Fresh(0)
  BY DEF CursorInit
<1>2. /\ log \in [cells : Seq(Cells), inode : Nat, ids : Nat] /\ log.cells = <<>>
      /\ cur.read = <<>> /\ cur.partial = <<>> /\ cur.offset = 0
  BY <1>1 DEF Fresh
<1>3. <<>> \in Seq(Cells) /\ Len(<<>>) = 0 /\ DOMAIN <<>> = {} /\ \A i \in 1..Len(<<>>) : FALSE
  OBVIOUS
<1>4. RowsOfRecords(<<>>) /\ IdsGrow(<<>>)
  BY <1>3 DEF RowsOfRecords, IdsGrow
<1>5. cur \in Cursors /\ Stands(cur, <<>>)
  BY <1>1, <1>3, FreshStands
<1>6. GuardInv
  BY <1>2 DEF GuardInv
<1>7. Len(cur.partial) <= MaxRecord
  <2>1. Len(cur.partial) = 0
    BY <1>2, <1>3, Zenon
  <2>2. MaxRecord \in Nat
    BY LimitsAssumption
  <2> QED BY <2>1, <2>2
<1> QED BY <1>2, <1>3, <1>4, <1>5, <1>6, <1>7, PartsCursor

\* The owner writes a cell.
LEMMA WriteSteps ==
    ASSUME CursorInv, NEW size \in 1..MaxSize, Write(size)
    PROVE  CursorInv'
<1> DEFINE C == log.cells
           D == log'.cells
           ids == log.ids
           R == cur.read
           w == LastCell
<1>1. /\ C \in Seq(Cells) /\ log.inode \in Nat /\ ids \in Nat
      /\ log \in [cells : Seq(Cells), inode : Nat, ids : Nat]
      /\ RowsOfRecords(C) /\ IdsGrow(C) /\ (\A i \in 1..Len(C) : C[i].id <= ids)
      /\ cur \in Cursors /\ R \in Seq(Cells) /\ cur.offset \in Nat
      /\ RowsOfRecords(R) /\ IdsGrow(R) /\ (\A i \in 1..Len(R) : R[i].id <= ids)
      /\ Len(cur.partial) <= MaxRecord /\ Stands(cur, R)
  BY CursorParts
<1>2. cur' = cur
  BY DEF Write
<1>3. size \in Nat /\ size >= 1
  OBVIOUS
<1>4. \E v \in Cells, ids2 \in Nat :
        /\ log' = [log EXCEPT !.cells = Append(C, v), !.ids = ids2]
        /\ ids <= ids2 /\ v.id <= ids2
        /\ \/ /\ C = <<>> \/ C[Len(C)] = Newline
              /\ v # Newline /\ v.place = 1 /\ v.size >= 1 /\ v.id > ids
           \/ /\ C # <<>> /\ C[Len(C)] # Newline
              /\ IF C[Len(C)].place < C[Len(C)].size
                 THEN v # Newline /\ v.id = C[Len(C)].id /\ v.place = C[Len(C)].place + 1 /\ v.size = C[Len(C)].size
                 ELSE v = Newline
  <2>1. CASE w = Newline
    <3> DEFINE v == Cell(ids + 1, 1, size)
    <3>1. log' = [log EXCEPT !.cells = Append(C, v), !.ids = ids + 1]
      BY <2>1 DEF Write
    <3>2. v \in Cells /\ v.id = ids + 1 /\ v.place = 1 /\ v.size = size /\ v # Newline
      <4> DEFINE a == ids + 1
      <4>1. a \in Nat /\ 1 \in Nat /\ 1 > 0
        BY <1>1
      <4> HIDE DEF a
      <4>2. Cell(a, 1, size) \in Cells /\ Cell(a, 1, size).id = a /\ Cell(a, 1, size).place = 1
            /\ Cell(a, 1, size).size = size /\ Cell(a, 1, size) # Newline
        BY <1>3, <4>1, CellIs
      <4> QED BY <4>2 DEF a
    <3>3. C = <<>> \/ C[Len(C)] = Newline
      BY <2>1 DEF LastCell, Last
    <3> HIDE DEF v, C
    <3>4. ids + 1 \in Nat /\ ids <= ids + 1 /\ ids + 1 > ids
      BY <1>1
    <3> DEFINE b == ids + 1
    <3> HIDE DEF b, ids
    <3>5. b \in Nat /\ ids <= b /\ b > ids /\ v.id = b /\ log' = [log EXCEPT !.cells = Append(C, v), !.ids = b]
      BY <3>1, <3>2, <3>4 DEF b
    <3>6. b <= b
      BY <3>5
    <3> QED BY <1>3, <3>2, <3>3, <3>5, <3>6
  <2>2. CASE w # Newline
    <3>1. C # <<>> /\ w = C[Len(C)]
      BY <2>2 DEF LastCell, Last
    <3>2. Len(C) \in 1..Len(C)
      BY <1>1, <3>1
    <3>3. w \in Cells /\ w.id <= ids
      BY <1>1, <3>1, <3>2
    <3> DEFINE v == IF w.place < w.size THEN Cell(w.id, w.place + 1, w.size) ELSE Newline
    <3>4. log' = [log EXCEPT !.cells = Append(C, v)]
      BY <2>2 DEF Write
    <3>5. log' = [log EXCEPT !.cells = Append(C, v), !.ids = ids]
      BY <1>1, <3>4
    <3> HIDE DEF w, C
    <3>6. w.id \in Nat /\ w.place \in Nat /\ w.size \in Nat
      BY <3>3 DEF Cells
    <3>7. v \in Cells /\ v.id <= ids
          /\ IF w.place < w.size THEN v # Newline /\ v.id = w.id /\ v.place = w.place + 1 /\ v.size = w.size
             ELSE v = Newline
      <4>1. CASE w.place < w.size
        <5>1. w.place + 1 \in Nat /\ w.place + 1 > 0 /\ v = Cell(w.id, w.place + 1, w.size)
          BY <3>6, <4>1
        <5>2. v \in Cells /\ v.id = w.id /\ v.place = w.place + 1 /\ v.size = w.size /\ v # Newline
          <6> DEFINE a == w.id
                     b == w.place + 1
                     d == w.size
          <6>1. a \in Nat /\ b \in Nat /\ d \in Nat /\ b > 0 /\ v = Cell(a, b, d)
            BY <3>6, <5>1
          <6> HIDE DEF a, b, d
          <6>2. /\ Cell(a, b, d) \in Cells /\ Cell(a, b, d).id = a /\ Cell(a, b, d).place = b
                /\ Cell(a, b, d).size = d /\ Cell(a, b, d) # Newline
            BY <6>1, CellIs
          <6> QED BY <6>1, <6>2 DEF a, b, d
        <5> QED BY <3>3, <4>1, <5>2
      <4>2. CASE ~(w.place < w.size)
        <5>1. v = Newline
          BY <4>2
        <5> QED BY <1>1, <4>2, <5>1, NewlineIs
      <4> QED BY <4>1, <4>2
    <3> HIDE DEF v
    <3>8. ids <= ids /\ ids \in Nat
      BY <1>1
    <3> QED BY <2>2, <3>1, <3>5, <3>7, <3>8
  <2> QED BY <2>1, <2>2
<1>5. PICK v \in Cells, ids2 \in Nat :
        /\ log' = [log EXCEPT !.cells = Append(C, v), !.ids = ids2]
        /\ ids <= ids2 /\ v.id <= ids2
        /\ \/ /\ C = <<>> \/ C[Len(C)] = Newline
              /\ v # Newline /\ v.place = 1 /\ v.size >= 1 /\ v.id > ids
           \/ /\ C # <<>> /\ C[Len(C)] # Newline
              /\ IF C[Len(C)].place < C[Len(C)].size
                 THEN v # Newline /\ v.id = C[Len(C)].id /\ v.place = C[Len(C)].place + 1 /\ v.size = C[Len(C)].size
                 ELSE v = Newline
  BY <1>4
<1> HIDE DEF C
<1>6. log' \in [cells : Seq(Cells), inode : Nat, ids : Nat] /\ D = Append(C, v) /\ log'.ids = ids2
  <2> DEFINE A == Append(C, v)
  <2>1. A \in Seq(Cells) /\ log' = [log EXCEPT !.cells = A, !.ids = ids2]
    BY <1>1, <1>5
  <2> HIDE DEF A
  <2>2. log' \in [cells : Seq(Cells), inode : Nat, ids : Nat] /\ D = A /\ log'.ids = ids2
    BY <1>1, <2>1
  <2> QED BY <2>2 DEF A
<1>7. D \in Seq(Cells) /\ Len(D) = Len(C) + 1 /\ (\A i \in 1..Len(C) : D[i] = C[i]) /\ D[Len(C) + 1] = v
  BY <1>1, <1>6
<1> HIDE DEF D, ids, R
<1>8. RowsOfRecords(D) /\ IdsGrow(D) /\ \A i \in 1..Len(D) : D[i].id <= ids2
  BY <1>1, <1>5, <1>7, WrittenLog
<1>9. ASSUME NEW i \in 1..Len(R) PROVE R[i].id <= ids2
  <2> DEFINE c == R[i]
  <2>1. c \in Cells /\ c.id <= ids
    BY <1>1
  <2> HIDE DEF c
  <2>2. c.id \in Nat
    BY <2>1 DEF Cells
  <2>3. c.id <= ids2
    BY <1>1, <1>5, <2>1, <2>2
  <2> QED BY <2>3 DEF c
<1>10. GuardInv'
  <2>1. cur'.offset > 0 => [at |-> 1, cell |-> cur'.read[1]] \in cur'.guard
    BY <1>2 DEF CursorInv, GuardInv
  <2>2. ASSUME R # <<>>, D[1] = R[1]
        PROVE  Len(R) <= Len(D) /\ \A i \in DOMAIN R : D[i] = R[i]
    <3>1. 1 \in 1..Len(R) /\ Len(R) \in Nat /\ Len(C) \in Nat /\ DOMAIN R = 1..Len(R)
      BY <1>1, <2>2
    <3>2. C # <<>>
      <4>1. SUFFICES ASSUME C = <<>> PROVE FALSE
        OBVIOUS
      <4>2. Len(C) = 0
        BY <4>1
      <4>3. D[1] = v /\ v.id > ids
        BY <1>5, <1>7, <4>1, <4>2
      <4>4. R[1] = v /\ R[1].id <= ids
        BY <1>1, <2>2, <3>1, <4>3
      <4>5. v.id \in Nat
        BY <1>5 DEF Cells
      <4>6. v.id <= ids
        BY <4>4, Zenon
      <4> QED BY <1>1, <4>3, <4>5, <4>6
    <3>3. 1 \in 1..Len(C)
      BY <1>1, <3>2
    <3>4. C[1] = R[1]
      BY <1>7, <2>2, <3>3
    <3>5. Len(R) <= Len(C) /\ \A i \in DOMAIN R : C[i] = R[i]
      BY <2>2, <3>2, <3>4 DEF CursorInv, GuardInv, C, R
    <3>6. ASSUME NEW i \in DOMAIN R PROVE D[i] = R[i]
      <4>1. i \in 1..Len(C)
        BY <3>1, <3>5
      <4> QED BY <1>7, <3>5, <4>1
    <3> QED BY <1>7, <3>1, <3>5, <3>6
  <2> QED BY <1>2, <2>1, <2>2 DEF GuardInv, D, R
<1>11. /\ RowsOfRecords(log'.cells) /\ IdsGrow(log'.cells)
       /\ \A i \in 1..Len(log'.cells) : log'.cells[i].id <= log'.ids
  BY <1>6, <1>8 DEF D
<1>12. \A i \in 1..Len(cur'.read) : cur'.read[i].id <= log'.ids
  BY <1>2, <1>6, <1>9 DEF R
<1>13. /\ cur' \in Cursors /\ RowsOfRecords(cur'.read) /\ IdsGrow(cur'.read)
       /\ Len(cur'.partial) <= MaxRecord /\ Stands(cur', cur'.read)
  BY <1>1, <1>2 DEF R
<1> QED BY <1>6, <1>10, <1>11, <1>12, <1>13, PartsCursorNext

\* The log is truncated, or another file takes its name.
LEMMA RotateSteps ==
    ASSUME CursorInv, NEW inode \in {log.inode, log.inode + 1}, Rotate(inode)
    PROVE  CursorInv'
<1>1. /\ log.inode \in Nat /\ log.ids \in Nat
      /\ log \in [cells : Seq(Cells), inode : Nat, ids : Nat]
      /\ cur \in Cursors /\ RowsOfRecords(cur.read) /\ IdsGrow(cur.read)
      /\ (\A i \in 1..Len(cur.read) : cur.read[i].id <= log.ids)
      /\ Len(cur.partial) <= MaxRecord /\ Stands(cur, cur.read)
  BY CursorParts
<1>2. cur' = cur /\ log' = [log EXCEPT !.cells = <<>>, !.inode = inode]
  BY DEF Rotate
<1>3. log' \in [cells : Seq(Cells), inode : Nat, ids : Nat] /\ log'.cells = <<>> /\ log'.ids = log.ids
  <2>1. inode \in Nat
    BY <1>1
  <2> DEFINE A == <<>>
  <2>2. A \in Seq(Cells) /\ log' = [log EXCEPT !.cells = A, !.inode = inode]
    BY <1>2
  <2> HIDE DEF A
  <2>3. log' \in [cells : Seq(Cells), inode : Nat, ids : Nat] /\ log'.cells = A /\ log'.ids = log.ids
    BY <1>1, <2>1, <2>2
  <2> QED BY <2>3 DEF A
<1>4. <<>> \in Seq(Cells) /\ Len(<<>>) = 0 /\ DOMAIN <<>> = {} /\ \A i \in 1..Len(<<>>) : FALSE
  OBVIOUS
<1>5. RowsOfRecords(<<>>) /\ IdsGrow(<<>>)
  BY <1>4 DEF RowsOfRecords, IdsGrow
<1>6. GuardInv'
  BY <1>2, <1>3 DEF CursorInv, GuardInv
<1> QED BY <1>1, <1>2, <1>3, <1>4, <1>5, <1>6, PartsCursorNext

\* The guard holds only when the log still starts with what was read.
LEMMA ResetSteps ==
    ASSUME CursorInv
    PROVE  Reset \in Cursors /\ Stands(Reset, log.cells) /\ (Reset = cur \/ Reset = Fresh(log.inode))
<1> DEFINE C == log.cells
           R == cur.read
           f == cur.offset
<1>1. /\ C \in Seq(Cells) /\ log.inode \in Nat /\ cur \in Cursors /\ R \in Seq(Cells) /\ f \in Nat
      /\ RowsOfRecords(R) /\ Stands(cur, R)
  BY CursorParts
<1>2. CASE Reset = Fresh(log.inode)
  BY <1>1, <1>2, FreshStands
<1>3. CASE Reset # Fresh(log.inode)
  <2>1. Reset = cur /\ ~(Len(C) < f) /\ matches(cur.guard)
    BY <1>3 DEF Reset
  <2>2. f <= Len(R) /\ f <= Len(C) /\ Len(R) \in Nat /\ Len(C) \in Nat
    BY <1>1, <2>1 DEF Stands
  <2>3. \A i \in 1..f : C[i] = R[i]
    <3>1. CASE f = 0
      BY <3>1
    <3>2. CASE f > 0
      <4>1. [at |-> 1, cell |-> R[1]] \in cur.guard
        BY <3>2 DEF CursorInv, GuardInv
      <4>2. C[1] = R[1]
        BY <2>1, <4>1 DEF matches
      <4>3. R # <<>> /\ C # <<>>
        BY <1>1, <2>2, <3>2
      <4>4. \A i \in DOMAIN R : C[i] = R[i]
        BY <4>2, <4>3 DEF CursorInv, GuardInv
      <4>5. DOMAIN R = 1..Len(R)
        BY <1>1
      <4> HIDE DEF R, C, f
      <4> QED BY <1>1, <2>2, <4>4, <4>5
    <3> QED BY <1>1, <3>1, <3>2
  <2>4. Stands(cur, C)
    BY <1>1, <2>2, <2>3, StandsAlso
  <2> QED BY <1>1, <2>1, <2>4
<1> QED BY <1>2, <1>3

\* A call of read_new, from where the cursor stands or from the start.
LEMMA ReadNewSteps ==
    ASSUME CursorInv, read_new
    PROVE  CursorInv'
<1> DEFINE C == log.cells
           R == cur.read
           r == Reset
<1>1. /\ C \in Seq(Cells) /\ log \in [cells : Seq(Cells), inode : Nat, ids : Nat]
      /\ RowsOfRecords(C) /\ IdsGrow(C) /\ (\A i \in 1..Len(C) : C[i].id <= log.ids)
      /\ cur \in Cursors /\ R \in Seq(Cells)
      /\ RowsOfRecords(R) /\ IdsGrow(R) /\ (\A i \in 1..Len(R) : R[i].id <= log.ids)
      /\ Len(cur.partial) <= MaxRecord /\ Stands(cur, R)
  BY CursorParts
<1>2. r \in Cursors /\ Stands(r, C) /\ (r = cur \/ r = Fresh(log.inode))
  BY ResetSteps
<1>3. log' = log /\ Deliver(IF r.pending # <<>> THEN r ELSE ReadOn(r))
  BY DEF read_new
<1>4. ASSUME NEW d \in Cursors, Deliver(d), Stands(d, d.read), Len(d.partial) <= MaxRecord,
             d.offset > 0 => [at |-> 1, cell |-> d.read[1]] \in d.guard,
             d.read # <<>> /\ C # <<>> /\ C[1] = d.read[1] =>
               Len(d.read) <= Len(C) /\ \A i \in DOMAIN d.read : C[i] = d.read[i],
             RowsOfRecords(d.read), IdsGrow(d.read), \A i \in 1..Len(d.read) : d.read[i].id <= log.ids
      PROVE  CursorInv'
  <2>1. /\ cur' \in Cursors /\ cur'.offset = d.offset /\ cur'.partial = d.partial
        /\ cur'.discarding = d.discarding /\ cur'.guard = d.guard /\ cur'.read = d.read
        /\ cur'.given \o cur'.pending = d.given \o d.pending
    BY <1>4, DeliverSteps
  <2>2. Stands(cur', cur'.read)
    BY <1>4, <2>1 DEF Stands
  <2>3. GuardInv'
    BY <1>3, <1>4, <2>1 DEF GuardInv
  <2>4. /\ log' \in [cells : Seq(Cells), inode : Nat, ids : Nat] /\ RowsOfRecords(log'.cells)
        /\ IdsGrow(log'.cells) /\ \A i \in 1..Len(log'.cells) : log'.cells[i].id <= log'.ids
    BY <1>1, <1>3
  <2>5. /\ RowsOfRecords(cur'.read) /\ IdsGrow(cur'.read) /\ Len(cur'.partial) <= MaxRecord
        /\ \A i \in 1..Len(cur'.read) : cur'.read[i].id <= log'.ids
    BY <1>3, <1>4, <2>1
  <2> QED BY <2>1, <2>2, <2>3, <2>4, <2>5, PartsCursorNext
<1>5. CASE r.pending # <<>>
  <2>1. r = cur
    BY <1>2, <1>5 DEF Fresh
  <2>2. Deliver(cur)
    BY <1>3, <1>5, <2>1
  <2>3. /\ cur.offset > 0 => [at |-> 1, cell |-> R[1]] \in cur.guard
        /\ R # <<>> /\ C # <<>> /\ C[1] = R[1] => Len(R) <= Len(C) /\ \A i \in DOMAIN R : C[i] = R[i]
    BY DEF CursorInv, GuardInv
  <2> QED BY <1>1, <1>4, <2>2, <2>3
<1>6. CASE ~(r.pending # <<>>)
  <2> DEFINE d == ReadOn(r)
  <2>1. Deliver(d)
    BY <1>3, <1>6
  <2>2. /\ d \in Cursors /\ d.read = C /\ Len(d.partial) <= MaxRecord /\ Stands(d, C)
        /\ d.offset > 0 => [at |-> 1, cell |-> C[1]] \in d.guard
    BY <1>1, <1>2, ReadOnSteps
  <2> HIDE DEF d
  <2>3. Len(C) <= Len(C) /\ \A i \in DOMAIN C : C[i] = C[i]
    BY <1>1
  <2> QED BY <1>1, <1>4, <2>1, <2>2, <2>3
<1> QED BY <1>5, <1>6

\* JsonlCursor::read_new, in a log that its owner extends piece by piece,
\* truncates and replaces, for every limit on a read, a record and a batch: the
\* cursor stands where CursorInv says.
THEOREM CursorSafe == CursorSpec => []CursorInv
<1>1. CursorInit => CursorInv
  BY CursorInitInv
<1>2. CursorInv /\ [CursorNext]_cursorVars => CursorInv'
  <2>1. SUFFICES ASSUME CursorInv, [CursorNext]_cursorVars PROVE CursorInv'
    OBVIOUS
  <2>2. CASE \E size \in 1..MaxSize : Write(size)
    BY <2>1, <2>2, WriteSteps
  <2>3. CASE \E inode \in {log.inode, log.inode + 1} : Rotate(inode)
    BY <2>1, <2>3, RotateSteps
  <2>4. CASE read_new
    BY <2>1, <2>4, ReadNewSteps
  <2>5. CASE UNCHANGED cursorVars
    <3>1. log' = log /\ cur' = cur
      BY <2>5 DEF cursorVars
    <3> QED BY <2>1, <3>1
            DEF CursorInv, CursorTypeOK, LogInv, GuardInv, ProgressInv
  <2> QED BY <2>1, <2>2, <2>3, <2>4, <2>5 DEF CursorNext
<1> QED BY <1>1, <1>2, PTL DEF CursorSpec

\* Growing sequences of numbers, and one whose numbers are all in another.
IsGrowing(p, a) == p \in [1..a -> Nat] /\ \A i, j \in 1..a : i < j => p[i] < p[j]
IsWithin(p, a, q, b) == \A i \in 1..a : \E j \in 1..b : q[j] = p[i]

\* Two growing sequences of the same numbers are the same.
LEMMA SameGrowing ==
    ASSUME NEW a \in Nat, NEW b \in Nat, NEW p, NEW q, IsGrowing(p, a), IsGrowing(q, b),
           IsWithin(p, a, q, b), IsWithin(q, b, p, a)
    PROVE  a = b /\ p = q
<1>0. /\ p \in [1..a -> Nat] /\ q \in [1..b -> Nat]
      /\ (\A i, j \in 1..a : i < j => p[i] < p[j]) /\ (\A i, j \in 1..b : i < j => q[i] < q[j])
      /\ (\A i \in 1..a : \E j \in 1..b : q[j] = p[i]) /\ (\A i \in 1..b : \E j \in 1..a : p[j] = q[i])
  BY DEF IsGrowing, IsWithin
<1> USE <1>0
<1> DEFINE T == {n \in Nat : n <= a => n <= b /\ \A i \in 1..n : p[i] = q[i]}
<1>1. 0 \in T
  OBVIOUS
<1>2. ASSUME NEW n \in T PROVE n + 1 \in T
  <2>1. n \in Nat /\ (n <= a => n <= b /\ \A i \in 1..n : p[i] = q[i])
    OBVIOUS
  <2> HIDE DEF T
  <2>2. ASSUME n + 1 <= a PROVE n + 1 <= b /\ \A i \in 1..(n + 1) : p[i] = q[i]
    <3>1. n + 1 \in 1..a /\ n <= b /\ \A i \in 1..n : p[i] = q[i]
      BY <2>1, <2>2
    <3>2. PICK m \in 1..b : q[m] = p[n + 1]
      BY <3>1
    <3>3. ~(m <= n)
      <4>1. SUFFICES ASSUME m <= n PROVE FALSE
        OBVIOUS
      <4>2. m \in 1..n /\ m \in 1..a /\ m < n + 1
        BY <2>1, <2>2, <4>1
      <4>3. p[m] = q[m] /\ p[m] < p[n + 1] /\ p[m] \in Nat
        BY <3>1, <4>2
      <4> QED BY <3>2, <4>3
    <3>4. n + 1 <= m /\ n + 1 \in 1..b
      BY <2>1, <3>3
    <3>5. PICK l \in 1..a : p[l] = q[n + 1]
      BY <3>4
    <3>6. ~(l <= n)
      <4>1. SUFFICES ASSUME l <= n PROVE FALSE
        OBVIOUS
      <4>2. l \in 1..n /\ l \in 1..b /\ l < n + 1
        BY <2>1, <3>1, <4>1
      <4>3. p[l] = q[l] /\ q[l] < q[n + 1] /\ q[l] \in Nat
        BY <3>1, <3>4, <4>2
      <4> QED BY <3>5, <4>3
    <3>7. p[n + 1] <= p[l]
      <4>1. l = n + 1 \/ n + 1 < l
        BY <2>1, <3>6
      <4>2. p[n + 1] \in Nat /\ p[l] \in Nat /\ (n + 1 < l => p[n + 1] < p[l])
        BY <3>1
      <4> DEFINE u == p[n + 1]
                 v == p[l]
      <4>3. l = n + 1 => u = v
        OBVIOUS
      <4>4. u \in Nat /\ v \in Nat /\ (n + 1 < l => u < v)
        BY <4>2
      <4> HIDE DEF u, v
      <4>5. u <= v
        BY <4>1, <4>3, <4>4
      <4> QED BY <4>5 DEF u, v
    <3>8. q[n + 1] <= q[m]
      <4>1. m = n + 1 \/ n + 1 < m
        BY <2>1, <3>4
      <4>2. q[n + 1] \in Nat /\ q[m] \in Nat /\ (n + 1 < m => q[n + 1] < q[m])
        BY <3>4
      <4> DEFINE u == q[n + 1]
                 v == q[m]
      <4>3. m = n + 1 => u = v
        OBVIOUS
      <4>4. u \in Nat /\ v \in Nat /\ (n + 1 < m => u < v)
        BY <4>2
      <4> HIDE DEF u, v
      <4>5. u <= v
        BY <4>1, <4>3, <4>4
      <4> QED BY <4>5 DEF u, v
    <3>9. p[n + 1] = q[n + 1]
      <4>1. p[n + 1] \in Nat /\ q[n + 1] \in Nat
        BY <3>1, <3>4
      <4> DEFINE u == p[n + 1]
                 v == q[n + 1]
      <4>2. u \in Nat /\ v \in Nat /\ u <= v /\ v <= u
        BY <3>2, <3>5, <3>7, <3>8, <4>1
      <4> HIDE DEF u, v
      <4>3. u = v
        BY <4>2
      <4> QED BY <4>3 DEF u, v
    <3>10. ASSUME NEW i \in 1..(n + 1) PROVE p[i] = q[i]
      <4>1. i \in 1..n \/ i = n + 1
        BY <2>1
      <4> QED BY <3>1, <3>9, <4>1
    <3> QED BY <3>4, <3>10
  <2> QED BY <2>1, <2>2 DEF T
<1>3. T = Nat
  <2>1. T \in SUBSET Nat
    OBVIOUS
  <2> HIDE DEF T
  <2> QED BY <1>1, <1>2, <2>1, SetInduction
<1>4. a <= b /\ \A i \in 1..a : p[i] = q[i]
  <2>1. a \in T
    <3> HIDE DEF T
    <3> QED BY <1>3
  <2> QED BY <2>1
<1>5. b <= a
  <2>1. SUFFICES ASSUME a < b PROVE FALSE
    OBVIOUS
  <2>2. a + 1 \in 1..b
    BY <2>1
  <2>3. PICK l \in 1..a : p[l] = q[a + 1]
    BY <2>2
  <2>4. l \in 1..b /\ l < a + 1
    BY <1>4
  <2>5. q[l] < q[a + 1] /\ q[l] = p[l] /\ q[l] \in Nat
    BY <1>4, <2>2, <2>4
  <2> QED BY <2>3, <2>5
<1>6. a = b
  BY <1>4, <1>5
<1> QED BY <1>4, <1>6

\* Every newline of a part is the end of one of its lines.
LEMMA EveryEnd ==
    ASSUME NEW C \in Seq(Cells), NEW o \in 0..Len(C), NEW e \in 1..o, C[e] = Newline
    PROVE  \E k \in 1..LineCount(C, 0, o) : EndOf(C, 0, o, k) = e
<1> DEFINE B == SubSeq(C, 0 + 1, o)
           S == Newlines(B)
<1>1. B \in Seq(Cells) /\ Len(B) = o /\ \A i \in 1..o : B[i] = C[i]
  OBVIOUS
<1> HIDE DEF B
<1>2. o \in Nat /\ DOMAIN B = 1..o
  BY <1>1
<1>3. e \in S /\ S \subseteq 1..o
  BY <1>1, <1>2 DEF Newlines
<1>4. IsFiniteSet(S) /\ S \in SUBSET Int
  <2>1. IsFiniteSet(1..o)
    BY <1>2, FS_Interval
  <2> HIDE DEF S
  <2>2. IsFiniteSet(S)
    BY <1>3, <2>1, FS_Subset
  <2> QED BY <1>3, <2>2
<1> HIDE DEF S
<1>5. Cardinality(S) \in Nat /\ Rank(S, e) \in 1..Cardinality(S) /\ Kth(S, Rank(S, e)) = e
  BY <1>3, <1>4, KthPlace
<1> DEFINE k == Rank(S, e)
<1>6. k \in 1..Cardinality(S) /\ Kth(S, k) = e /\ k # 0
  BY <1>5
<1> HIDE DEF k
<1>7. EndOf(C, 0, o, k) = 0 + Kth(S, k) /\ LineCount(C, 0, o) = Cardinality(S)
  BY <1>6 DEF EndOf, LineCount, S, B
<1>8. 0 + e = e
  OBVIOUS
<1>9. EndOf(C, 0, o, k) = e
  BY <1>6, <1>7, <1>8
<1> QED BY <1>6, <1>7, <1>9

\* A later line ends further on.
LEMMA EndsGrow ==
    ASSUME NEW C \in Seq(Cells), NEW o \in 0..Len(C), NEW k \in 1..LineCount(C, 0, o),
           NEW l \in 1..LineCount(C, 0, o), k < l
    PROVE  EndOf(C, 0, o, k) < EndOf(C, 0, o, l)
<1> DEFINE B == SubSeq(C, 0 + 1, o)
           S == Newlines(B)
<1>1. B \in Seq(Cells) /\ Len(B) = o /\ o \in Nat
  OBVIOUS
<1> HIDE DEF B
<1>2. S \subseteq 1..o
  BY <1>1 DEF Newlines
<1>3. IsFiniteSet(S) /\ S \in SUBSET Int
  <2>1. IsFiniteSet(1..o)
    BY <1>1, FS_Interval
  <2> HIDE DEF S
  <2>2. IsFiniteSet(S)
    BY <1>2, <2>1, FS_Subset
  <2> QED BY <1>2, <2>2
<1>4. LineCount(C, 0, o) = Cardinality(S)
  BY DEF LineCount, S, B
<1>5. EndOf(C, 0, o, k) = 0 + Kth(S, k) /\ EndOf(C, 0, o, l) = 0 + Kth(S, l)
  BY <1>4 DEF EndOf, S, B
<1> HIDE DEF S
<1>6. k \in 1..Cardinality(S) /\ l \in 1..Cardinality(S)
  BY <1>4
<1>7. Kth(S, k) < Kth(S, l) /\ Kth(S, k) \in S /\ Kth(S, l) \in S
  BY <1>3, <1>6, KthPlace
<1>8. Kth(S, k) \in Int /\ Kth(S, l) \in Int
  BY <1>3, <1>7
<1> DEFINE a == Kth(S, k)
           b == Kth(S, l)
<1>9. a \in Int /\ b \in Int /\ a < b /\ EndOf(C, 0, o, k) = 0 + a /\ EndOf(C, 0, o, l) = 0 + b
  BY <1>5, <1>7, <1>8
<1> HIDE DEF a, b
<1> QED BY <1>9

\* The lines of what was read are the records of the log, in order.
LEMMA RecordsOfLines ==
    ASSUME NEW C \in Seq(Cells), RowsOfRecords(C), NEW o \in 0..Len(C), NEW k \in 1..LineCount(C, 0, o)
    PROVE  /\ k \in DOMAIN LinesOf(SubSeq(C, 1, o))
           /\ EndOf(C, 0, o, k) \in 1..o /\ C[EndOf(C, 0, o, k)] = Newline
           /\ PrevEnd(C, EndOf(C, 0, o, k)) = EndOf(C, 0, o, k - 1)
           /\ LinesOf(SubSeq(C, 1, o))[k][1].id = C[EndOf(C, 0, o, k) - 1].id
           /\ LinesOf(SubSeq(C, 1, o))[k][1].size = C[EndOf(C, 0, o, k) - 1].size
<1> DEFINE n == LineCount(C, 0, o)
           E(i) == EndOf(C, 0, o, i)
           ls == LinesOf(SubSeq(C, 0 + 1, o))
           e == E(k)
           z == E(k - 1)
<1>0. 0 \in 0..o /\ o \in Nat /\ Len(C) \in Nat /\ ls = LinesOf(SubSeq(C, 1, o))
  OBVIOUS
<1>1. n \in Nat /\ \A i \in 0..n : E(i) \in 0..o
  BY <1>0, LinesOfPart
<1>2. C[e] = Newline /\ z < e
  BY <1>0, LinesOfPart
<1>3. \A i \in (z + 1)..(e - 1) : C[i] # Newline
  BY <1>0, LinesOfPart
<1>4. ls[k] = SubSeq(C, z + 1, e - 1) /\ DOMAIN ls = 1..n
  BY <1>0, LinesOfPart
<1>5. z = 0 \/ C[z] = Newline
  <2>1. CASE k = 1
    <3>1. z = EndOf(C, 0, o, 0)
      BY <2>1
    <3> QED BY <3>1 DEF EndOf
  <2>2. CASE k # 1
    <3>1. k - 1 \in 1..n
      BY <1>1, <2>2
    <3> DEFINE m == k - 1
    <3> HIDE DEF m
    <3>2. m \in 1..LineCount(C, 0, o)
      BY <3>1 DEF m
    <3>3. C[EndOf(C, 0, o, m)] = Newline
      BY <1>0, <3>2, LinesOfPart
    <3> QED BY <3>3 DEF m
  <2> QED BY <2>1, <2>2
<1>6. k \in 0..n /\ k - 1 \in 0..n /\ k \in 1..n
  BY <1>1
<1>7. e \in 0..o /\ z \in 0..o
  BY <1>1, <1>6
<1> HIDE DEF e, z, n, ls
<1>8. e \in 1..o /\ e \in 1..Len(C) /\ z \in 0..(e - 1)
  BY <1>0, <1>2, <1>7
<1>9. PrevEnd(C, e) = z
  BY <1>2, <1>3, <1>5, <1>8, AfterNewline
<1>10. /\ SubSeq(C, PrevEnd(C, e) + 1, e - 1)[1].id = C[e - 1].id
       /\ SubSeq(C, PrevEnd(C, e) + 1, e - 1)[1].size = C[e - 1].size
  BY <1>2, <1>8, WholeLine
<1>11. ls[k] = SubSeq(C, PrevEnd(C, e) + 1, e - 1)
  BY <1>4, <1>9
<1>12. ls[k][1].id = C[e - 1].id /\ ls[k][1].size = C[e - 1].size
  BY <1>10, <1>11, Zenon
<1>13. k \in DOMAIN ls
  BY <1>4, <1>6
<1>14. /\ e \in 1..o /\ C[e] = Newline /\ PrevEnd(C, e) = z
  BY <1>2, <1>8, <1>9
<1> QED BY <1>0, <1>12, <1>13, <1>14 DEF e, z

\* The records of later lines have higher identifiers.
LEMMA IdsOfLines ==
    ASSUME NEW C \in Seq(Cells), RowsOfRecords(C), IdsGrow(C), NEW o \in 0..Len(C),
           NEW k \in 1..LineCount(C, 0, o), NEW l \in 1..LineCount(C, 0, o), k < l
    PROVE  C[EndOf(C, 0, o, k) - 1].id < C[EndOf(C, 0, o, l) - 1].id
<1> DEFINE a == EndOf(C, 0, o, k)
           b == EndOf(C, 0, o, l)
           y == EndOf(C, 0, o, l - 1)
           j == b - 1
           i == a - 1
<1>0. LineCount(C, 0, o) \in Nat /\ o \in Nat /\ Len(C) \in Nat
  <2>1. 0 \in 0..o
    OBVIOUS
  <2> QED BY <2>1, LinesOfPart
<1>1. a \in 1..o /\ C[a] = Newline
  BY RecordsOfLines
<1>2. b \in 1..o /\ C[b] = Newline /\ PrevEnd(C, b) = y
  BY RecordsOfLines
<1>3. y >= a
  <2>1. CASE l - 1 = k
    BY <1>0, <1>1, <2>1
  <2>2. CASE l - 1 # k
    <3>1. l - 1 \in 1..LineCount(C, 0, o) /\ k < l - 1
      BY <1>0, <2>2
    <3>2. a < y
      BY <3>1, EndsGrow
    <3>3. y \in 1..o
      BY <3>1, RecordsOfLines
    <3> QED BY <1>0, <1>1, <3>2, <3>3
  <2> QED BY <2>1, <2>2
<1> HIDE DEF a, b, y
<1>4. a \in 1..Len(C) /\ b \in 1..Len(C)
  BY <1>0, <1>1, <1>2
<1>5. i \in 1..Len(C) /\ C[i] # Newline
  BY <1>1, <1>4, LineBefore
<1>6. j \in 1..Len(C) /\ C[j] # Newline /\ C[j] \in Cells
  BY <1>2, <1>4, LineBefore
<1>7. C[j].place = C[j].size
  BY <1>2, <1>4 DEF RowsOfRecords
<1>8. y = b - 1 - C[b - 1].size
  BY <1>2 DEF PrevEnd
<1> DEFINE s == C[j].size
<1>9. s \in Nat
  <2> DEFINE c == C[j]
  <2>1. c \in Cells
    BY <1>6
  <2> HIDE DEF c
  <2>2. c.size \in Nat
    BY <2>1 DEF Cells
  <2> QED BY <2>2 DEF c
<1>10. y = j - s /\ C[j].place = s
  BY <1>7, <1>8
<1> HIDE DEF s
<1>11. i <= j - s
  BY <1>0, <1>1, <1>2, <1>3, <1>9, <1>10
<1>12. i \in DOMAIN C /\ j \in DOMAIN C /\ i <= j - C[j].place
  BY <1>5, <1>6, <1>10, <1>11
<1> HIDE DEF i, j
<1>13. C[i].id < C[j].id
  BY <1>5, <1>6, <1>12 DEF IdsGrow
<1> QED BY <1>13 DEF i, j, a, b

\* The records that were read, as a sequence, and what is missing of them.
LEMMA RecordsHeld ==
    ASSUME CursorInv
    PROVE  RecordsInOrder
<1> DEFINE C == cur.read
           o == cur.offset
           got == cur.given \o cur.pending
           z == o - Len(cur.partial)
           n == LineCount(C, 0, o)
           E(k) == EndOf(C, 0, o, k)
           ls == LinesOf(SubSeq(C, 1, o))
           rs == RecordsRead
           K == {i \in DOMAIN rs : rs[i].id \in ToSet(got)}
           kept == Pick(rs, K)
           h == [i \in DOMAIN kept |-> kept[i].id]
           R == [id : Nat, size : Nat]
<1>1. /\ C \in Seq(Cells) /\ o \in Nat /\ RowsOfRecords(C) /\ IdsGrow(C) /\ cur \in Cursors /\ Stands(cur, C)
  BY CursorParts
<1>2. /\ o <= Len(C) /\ Len(cur.partial) <= o /\ (\A i \in (z + 1)..o : C[i] # Newline)
      /\ TakenUpTo(C, z, got, cur.discarding)
  BY <1>1 DEF Stands
<1>3. cur.partial \in Seq(Cells) /\ got \in Seq(Nat)
  BY <1>1 DEF Cursors
<1>4. Len(cur.partial) \in Nat /\ Len(C) \in Nat
  BY <1>1, <1>3
<1>5. o \in 0..Len(C) /\ z \in 0..o /\ 0 \in 0..o
  BY <1>1, <1>2, <1>4
<1>6. \A e \in 1..o : C[e] = Newline => e \in 1..z
  BY <1>1, <1>2, <1>5
<1>7. rs = [i \in DOMAIN ls |-> [id |-> ls[i][1].id, size |-> ls[i][1].size]]
  BY DEF RecordsRead
<1> HIDE DEF C, o, got, z, rs
<1>8. n \in Nat /\ DOMAIN ls = 1..n
  <2>1. n \in Nat /\ DOMAIN LinesOf(SubSeq(C, 0 + 1, o)) = 1..n
    BY <1>1, <1>5, LinesOfPart
  <2>2. 0 + 1 = 1
    OBVIOUS
  <2> QED BY <2>1, <2>2
<1>9. ASSUME NEW k \in 1..n
      PROVE  /\ E(k) \in 1..o /\ C[E(k)] = Newline /\ PrevEnd(C, E(k)) = E(k - 1)
             /\ ls[k][1].id = C[E(k) - 1].id /\ ls[k][1].size = C[E(k) - 1].size
  BY <1>1, <1>5, RecordsOfLines
<1>10. ASSUME NEW k \in 1..n
       PROVE  /\ C[E(k) - 1].id \in Nat /\ C[E(k) - 1].size \in Nat
              /\ rs[k] \in R /\ rs[k].id = C[E(k) - 1].id /\ rs[k].size = C[E(k) - 1].size
  <2> DEFINE e == E(k)
             c == C[e - 1]
  <2>1. e \in 1..o /\ C[e] = Newline
    BY <1>9
  <2> HIDE DEF e
  <2>2. e \in 1..Len(C)
    BY <1>1, <1>4, <1>5, <2>1
  <2>3. c \in Cells
    BY <1>1, <2>1, <2>2, LineBefore
  <2> HIDE DEF c
  <2>4. c.id \in Nat /\ c.size \in Nat
    BY <2>3 DEF Cells
  <2>5. ls[k][1].id = c.id /\ ls[k][1].size = c.size
    BY <1>9 DEF e, c
  <2> HIDE DEF ls
  <2>6. rs[k] = [id |-> c.id, size |-> c.size]
    BY <1>7, <1>8, <2>5
  <2>7. rs[k] \in R /\ rs[k].id = c.id /\ rs[k].size = c.size
    BY <2>4, <2>6
  <2> QED BY <2>4, <2>7 DEF c, e
<1>11. ASSUME NEW k \in 1..n, NEW l \in 1..n, k < l PROVE rs[k].id < rs[l].id
  <2>1. C[E(k) - 1].id < C[E(l) - 1].id
    BY <1>1, <1>5, <1>11, IdsOfLines
  <2> QED BY <1>10, <2>1
<1>12. ASSUME NEW e \in 1..o, C[e] = Newline PROVE \E k \in 1..n : E(k) = e
  BY <1>1, <1>5, <1>12, EveryEnd
<1> HIDE DEF ls
<1>13. rs \in Seq(R) /\ DOMAIN rs = 1..n
  <2>1. rs = [i \in 1..n |-> rs[i]]
    BY <1>7, <1>8
  <2>2. rs \in [1..n -> R]
    BY <1>10, <2>1
  <2> HIDE DEF R, n
  <2> QED BY <1>8, <2>2
<1> HIDE DEF n, E
<1>14. \A id : id \in ToSet(got) <=> \E i \in DOMAIN got : got[i] = id
  BY DEF ToSet
<1>15. ASSUME NEW k \in DOMAIN rs
       PROVE  rs[k].id \in ToSet(got) \/ rs[k].size > MaxRecord \/ (k > 1 /\ rs[k - 1].size > MaxRecord)
  <2> DEFINE e == E(k)
  <2>1. k \in 1..n /\ e \in 1..z /\ C[e] = Newline /\ PrevEnd(C, e) = E(k - 1)
    BY <1>6, <1>9, <1>13
  <2>2. rs[k].id = C[e - 1].id /\ rs[k].size = C[e - 1].size
    BY <1>10, <2>1
  <2> HIDE DEF e
  <2>3. \/ \E i \in DOMAIN got : got[i] = C[e - 1].id
        \/ TooLong(C, e)
        \/ PrevEnd(C, e) > 0 /\ TooLong(C, PrevEnd(C, e))
    BY <1>2, <2>1 DEF TakenUpTo
  <2>4. CASE \E i \in DOMAIN got : got[i] = C[e - 1].id
    BY <1>14, <2>2, <2>4
  <2>5. CASE TooLong(C, e)
    BY <2>2, <2>5 DEF TooLong
  <2>6. CASE PrevEnd(C, e) > 0 /\ TooLong(C, PrevEnd(C, e))
    <3> DEFINE m == k - 1
    <3>1. E(m) > 0 /\ TooLong(C, E(m))
      BY <2>1, <2>6
    <3>2. m # 0
      <4>1. SUFFICES ASSUME m = 0 PROVE FALSE
        OBVIOUS
      <4>2. E(m) = 0
        BY <4>1 DEF E, EndOf
      <4> QED BY <3>1, <4>2
    <3>3. k > 1 /\ m \in 1..n
      BY <1>8, <2>1, <3>2
    <3>4. rs[m].size = C[E(m) - 1].size
      BY <1>10, <3>3
    <3>5. rs[m].size > MaxRecord
      BY <3>1, <3>4 DEF TooLong
    <3> QED BY <3>3, <3>5
  <2> QED BY <2>3, <2>4, <2>5, <2>6
<1>16. K \subseteq DOMAIN rs /\ \A k \in DOMAIN rs : k \in K <=> rs[k].id \in ToSet(got)
  OBVIOUS
<1> HIDE DEF K
<1>17. /\ K \in SUBSET Int /\ IsFiniteSet(K) /\ Cardinality(K) \in Nat
       /\ DOMAIN kept = 1..Cardinality(K)
       /\ \A q \in 1..Cardinality(K) : Kth(K, q) \in K /\ kept[q] = rs[Kth(K, q)]
  BY <1>13, <1>16, PickIs, ZenonT(40)
<1> DEFINE a == Cardinality(K)
           b == Len(got)
<1>18. b \in Nat /\ DOMAIN got = 1..b /\ got \in [1..b -> Nat]
  BY <1>3
<1> HIDE DEF kept
<1>19. h \in [1..a -> Nat] /\ \A q \in 1..a : h[q] = rs[Kth(K, q)].id /\ Kth(K, q) \in 1..n
  <2>1. ASSUME NEW q \in 1..a PROVE Kth(K, q) \in 1..n /\ kept[q] = rs[Kth(K, q)] /\ rs[Kth(K, q)].id \in Nat
    <3>1. Kth(K, q) \in 1..n /\ kept[q] = rs[Kth(K, q)]
      BY <1>13, <1>16, <1>17
    <3> DEFINE k == Kth(K, q)
    <3> HIDE DEF k
    <3>2. k \in 1..n
      BY <3>1 DEF k
    <3>3. rs[k].id \in Nat
      BY <1>10, <3>2
    <3> QED BY <3>1, <3>3 DEF k
  <2>2. DOMAIN kept = 1..a
    BY <1>17
  <2> HIDE DEF a
  <2> QED BY <2>1, <2>2
<1> HIDE DEF h, a, b
<1>20. \A i, j \in 1..a : i < j => h[i] < h[j]
  <2>1. ASSUME NEW i \in 1..a, NEW j \in 1..a, i < j PROVE h[i] < h[j]
    <3> DEFINE k == Kth(K, i)
               l == Kth(K, j)
    <3>1. k < l
      BY <1>17, <2>1, KthPlace DEF a
    <3>2. k \in 1..n /\ l \in 1..n /\ h[i] = rs[k].id /\ h[j] = rs[l].id
      BY <1>19
    <3> HIDE DEF k, l
    <3> QED BY <1>11, <3>1, <3>2
  <2> QED BY <2>1
<1>21. \A i, j \in 1..b : i < j => got[i] < got[j]
  BY <1>2, <1>18 DEF TakenUpTo
<1>22. ASSUME NEW i \in 1..a PROVE \E j \in 1..b : got[j] = h[i]
  <2> DEFINE k == Kth(K, i)
  <2>1. k \in K /\ k \in DOMAIN rs /\ h[i] = rs[k].id
    BY <1>16, <1>17, <1>19 DEF a
  <2> HIDE DEF k
  <2>2. rs[k].id \in ToSet(got)
    BY <1>16, <2>1
  <2> QED BY <1>14, <1>18, <2>1, <2>2
<1>23. ASSUME NEW i \in 1..b PROVE \E j \in 1..a : h[j] = got[i]
  <2>1. PICK e \in 1..z : C[e] = Newline /\ C[e - 1].id = got[i]
    BY <1>2, <1>18 DEF TakenUpTo
  <2>2. e \in 1..o
    BY <1>1, <1>5
  <2>3. PICK k \in 1..n : E(k) = e
    BY <1>12, <2>1, <2>2
  <2>4. rs[k].id = got[i] /\ k \in DOMAIN rs
    BY <1>10, <1>13, <2>1, <2>3
  <2>5. k \in K
    BY <1>14, <1>16, <1>18, <2>4
  <2>6. Rank(K, k) \in 1..a /\ Kth(K, Rank(K, k)) = k
    BY <1>17, <2>5, KthPlace DEF a
  <2>7. h[Rank(K, k)] = rs[k].id
    BY <1>19, <2>6
  <2> QED BY <2>4, <2>6, <2>7
<1>24. h = got
  <2>1. a \in Nat
    BY <1>17 DEF a
  <2>2. IsGrowing(h, a)
    BY <1>19, <1>20 DEF IsGrowing
  <2>3. b \in Nat /\ IsGrowing(got, b)
    BY <1>18, <1>21 DEF IsGrowing
  <2>4. IsWithin(h, a, got, b)
    BY <1>22 DEF IsWithin
  <2>5. IsWithin(got, b, h, a)
    BY <1>23 DEF IsWithin
  <2> QED BY <2>1, <2>2, <2>3, <2>4, <2>5, SameGrowing
<1> QED BY <1>15, <1>24 DEF RecordsInOrder, h, kept, K, rs, got

\* JsonlCursor::read_new: whatever is truncated, replaced or half written between
\* two calls, the records returned are records of the log, in order and each
\* once, and only a record that is too long, or the one right after it, is missing.
THEOREM RecordsOrdered == CursorSpec => []RecordsInOrder
<1>1. CursorInv => RecordsInOrder
  BY RecordsHeld
<1> QED BY <1>1, CursorSafe, PTL
=============================================================================
