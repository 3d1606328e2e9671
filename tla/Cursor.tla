-------------------------------- MODULE Cursor --------------------------------
(***************************************************************************)
(* JsonlCursor (observe/jsonl.rs): reads the new records of a log that its   *)
(* owner extends piece by piece, truncates and replaces.  A record is a row  *)
(* of cells and a newline.                                                   *)
(***************************************************************************)
EXTENDS Places, SequencesExt

CONSTANTS MaxRead,     \* cells one call reads, 256 KiB in the code
          MaxRecord,   \* cells of the longest record that is taken, 64 KiB
          MaxBatch,    \* records one call returns, 256
          MaxIds, MaxSize, MaxCells, MaxLogs \* bounds of the model

ASSUME LimitsAssumption == {MaxRead, MaxRecord, MaxBatch} \subseteq Nat \ {0}

VARIABLES log, \* the log and its inode
          cur  \* the cursor, what it has returned, and the log it read

cursorVars == <<log, cur>>

\* A piece of a record: whose, which one, and of how many.
Cells == [id : Nat, place : Nat, size : Nat]
Cell(id, place, size) == [id |-> id, place |-> place, size |-> size]
Newline == Cell(0, 0, 0)
Fresh(inode) ==
    [inode |-> inode, offset |-> 0, partial |-> <<>>, pending |-> <<>>, discarding |-> FALSE,
     guard |-> {}, given |-> <<>>, read |-> <<>>]

CursorTypeOK ==
    /\ log \in [cells : Seq(Cells), inode : Nat, ids : Nat]
    /\ cur \in [inode : Nat, offset : Nat, partial : Seq(Cells), pending : Seq(Nat), discarding : BOOLEAN,
                guard : SUBSET [at : Nat, cell : Cells], given : Seq(Nat), read : Seq(Cells)]
    /\ cur.offset <= Len(cur.read) /\ Len(cur.partial) <= MaxRecord

CursorInit ==
    /\ log = [cells |-> <<>>, inode |-> 1, ids |-> 0]
    /\ cur = Fresh(0)

-----------------------------------------------------------------------------
(* The owner of the log.                                                    *)
LastCell == IF log.cells = <<>> THEN Newline ELSE Last(log.cells)
\* The next cell: of the record that is being written, its newline, or the first
\* of a new one.
Write(size) ==
    LET c == LastCell IN
    /\ Len(log.cells) < MaxCells
    /\ \/ /\ c = Newline /\ log.ids < MaxIds
          /\ log' = [log EXCEPT !.cells = Append(@, Cell(log.ids + 1, 1, size)), !.ids = @ + 1]
       \/ /\ c # Newline /\ size = c.size
          /\ log' = [log EXCEPT !.cells = Append(@, IF c.place < c.size THEN Cell(c.id, c.place + 1, c.size)
                                                    ELSE Newline)]
    /\ UNCHANGED cur
\* It is truncated in place, or another file takes its name.
Rotate(inode) ==
    /\ log.cells # <<>> /\ inode <= MaxLogs
    /\ log' = [log EXCEPT !.cells = <<>>, !.inode = inode]
    /\ UNCHANGED cur

-----------------------------------------------------------------------------
(* The cursor.                                                              *)
\* Where the guard samples what was read: the first, the middle, the last.
Samples(cells, offset) ==
    {[at |-> p, cell |-> cells[p]] : p \in {1, (offset + 1) \div 2, offset} \cap 1..offset}
matches(guard) == \A s \in guard : s.at <= Len(log.cells) /\ log.cells[s.at] = s.cell

\* What a call starts from: nothing, when the log is another one.
ResetPartly == IF cur.inode # log.inode \/ Len(log.cells) < cur.offset \/ ~matches(cur.guard)
               THEN [Fresh(log.inode) EXCEPT !.partial = cur.partial] ELSE cur
Reset == IF cur.inode # log.inode \/ Len(log.cells) < cur.offset \/ ~matches(cur.guard)
         THEN Fresh(log.inode) ELSE cur

\* The places of the newlines, the cells as the lines that they end, and the rest.
Newlines(cells) == {i \in DOMAIN cells : cells[i] = Newline}
LineStart(cells, k) == IF k = 1 THEN 1 ELSE Kth(Newlines(cells), k - 1) + 1
LinesOf(cells) ==
    [k \in 1..Cardinality(Newlines(cells)) |->
       SubSeq(cells, LineStart(cells, k), Kth(Newlines(cells), k) - 1)]
RestOf(cells) == SubSeq(cells, LineStart(cells, Cardinality(Newlines(cells)) + 1), Len(cells))

Whole(line) == line = [i \in 1..line[1].size |-> Cell(line[1].id, i, line[1].size)]
\* One line: dropped as the end of a long one, as too long, as malformed, or taken.
TakeLine(a, line) ==
    IF line = <<>> THEN a
    ELSE IF a.discarding THEN [a EXCEPT !.discarding = FALSE]
    ELSE IF Len(line) > MaxRecord \/ ~Whole(line) THEN a
    ELSE [a EXCEPT !.pending = Append(@, line[1].id)]
\* The cursor after each of the lines.
Taken(c, lines) ==
    LET t[n \in 0..Len(lines)] == IF n = 0 THEN c ELSE TakeLine(t[n - 1], lines[n]) IN t

\* The rest of the last line, if it can still become a record.
KeptRestAny(rest) == rest
KeptRest(rest) == IF Len(rest) > MaxRecord THEN <<>> ELSE rest

Deliver(c) ==
    LET n == IF Len(c.pending) < MaxBatch THEN Len(c.pending) ELSE MaxBatch IN
    cur' = [c EXCEPT !.given = @ \o SubSeq(c.pending, 1, n),
                     !.pending = SubSeq(@, n + 1, Len(@))]

\* What has come since the last call, up to the limit, is taken line by line.
ReadOn(c) ==
    LET offset == IF c.offset + MaxRead < Len(log.cells) THEN c.offset + MaxRead ELSE Len(log.cells)
        cells == c.partial \o SubSeq(log.cells, c.offset + 1, offset)
        rest == RestOf(cells)
        taken == Taken(c, LinesOf(cells))[Len(LinesOf(cells))]
    IN  [taken EXCEPT !.offset = offset, !.read = log.cells,
                      !.guard = Samples(log.cells, offset),
                      !.partial = KeptRest(rest),
                      !.discarding = @ \/ Len(rest) > MaxRecord]

read_new ==
    LET c == Reset IN
    /\ Deliver(IF c.pending # <<>> THEN c ELSE ReadOn(c))
    /\ UNCHANGED log

CursorNext ==
    \/ \E size \in 1..MaxSize : Write(size)
    \/ \E inode \in {log.inode, log.inode + 1} : Rotate(inode)
    \/ read_new

CursorSpec == CursorInit /\ [][CursorNext]_cursorVars

-----------------------------------------------------------------------------
\* The records of the log that was read, as far as the cursor has come, in order.
RecordsRead ==
    LET lines == LinesOf(SubSeq(cur.read, 1, cur.offset)) IN
    [i \in DOMAIN lines |-> [id |-> lines[i][1].id, size |-> lines[i][1].size]]

\* Whatever is truncated, replaced or half written between two calls, the records
\* returned are records of the log, in order and each once; one is missing only
\* when it is too long, or comes right after one that is.
RecordsInOrder ==
    LET rs == RecordsRead
        got == cur.given \o cur.pending
        kept == Pick(rs, {i \in DOMAIN rs : rs[i].id \in ToSet(got)})
    IN  /\ got = [i \in DOMAIN kept |-> kept[i].id]
        /\ \A i \in DOMAIN rs :
             rs[i].id \in ToSet(got) \/ rs[i].size > MaxRecord \/ (i > 1 /\ rs[i - 1].size > MaxRecord)

-----------------------------------------------------------------------------
(* What it rests on.                                                        *)
\* The cells are records with their newlines, the last one perhaps in part.
RowsOfRecords(cells) ==
    \A i \in DOMAIN cells :
      IF cells[i] = Newline
      THEN i > 1 /\ cells[i - 1] # Newline /\ cells[i - 1].place = cells[i - 1].size
      ELSE LET c == cells[i] IN
           /\ c.place \in 1..c.size /\ c.place <= i
           /\ i = c.place \/ cells[i - c.place] = Newline
           /\ \A j \in 1..c.place : cells[i - c.place + j] = Cell(c.id, j, c.size)
\* A record's identifier is above those of all records before it.
IdsGrow(cells) ==
    \A i, j \in DOMAIN cells :
      cells[i] # Newline /\ cells[j] # Newline /\ i <= j - cells[j].place => cells[i].id < cells[j].id
LogInv ==
    /\ RowsOfRecords(log.cells) /\ IdsGrow(log.cells) /\ RowsOfRecords(cur.read) /\ IdsGrow(cur.read)
    /\ \A i \in DOMAIN log.cells : log.cells[i].id <= log.ids
    /\ \A i \in DOMAIN cur.read : cur.read[i].id <= log.ids
\* The first cell tells one log from another: with it comes all that was read.
GuardInv ==
    /\ cur.offset > 0 => [at |-> 1, cell |-> cur.read[1]] \in cur.guard
    /\ cur.read # <<>> /\ log.cells # <<>> /\ log.cells[1] = cur.read[1] =>
         Len(cur.read) <= Len(log.cells) /\ \A i \in DOMAIN cur.read : log.cells[i] = cur.read[i]

\* The line that ends at the newline e is too long; the line before it ends at
\* the newline PrevEnd, or there is none.
TooLong(cells, e) == cells[e - 1].size > MaxRecord
PrevEnd(cells, e) == e - 1 - cells[e - 1].size
\* The cells up to z are taken: the identifiers got are of lines in them, in
\* their order, and a line is missing only as RecordsInOrder says.  While the end
\* of a long line is discarded, z is in that line or at its newline.
TakenUpTo(cells, z, got, discarding) ==
    /\ \A i, j \in DOMAIN got : i < j => got[i] < got[j]
    /\ \A i \in DOMAIN got : \E e \in 1..z : cells[e] = Newline /\ cells[e - 1].id = got[i]
    /\ \A e \in 1..z : cells[e] = Newline =>
         \/ \E i \in DOMAIN got : got[i] = cells[e - 1].id
         \/ TooLong(cells, e)
         \/ PrevEnd(cells, e) > 0 /\ TooLong(cells, PrevEnd(cells, e))
    /\ IF discarding THEN z > 0 /\ TooLong(cells, IF cells[z] = Newline THEN z ELSE z + 1)
       ELSE z = 0 \/ cells[z] = Newline
\* What is kept of the last line is what is not yet taken.
ProgressInv ==
    LET z == cur.offset - Len(cur.partial) IN
    /\ Len(cur.partial) <= cur.offset
    /\ cur.partial = SubSeq(cur.read, z + 1, cur.offset)
    /\ \A i \in (z + 1)..cur.offset : cur.read[i] # Newline
    /\ TakenUpTo(cur.read, z, cur.given \o cur.pending, cur.discarding)
CursorInv == CursorTypeOK /\ LogInv /\ GuardInv /\ ProgressInv
=============================================================================
