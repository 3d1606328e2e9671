-------------------------------- MODULE Files --------------------------------
(***************************************************************************)
(* Files that WatchMe shares with others: the markers of Claude's hook,      *)
(* which hook processes append and the daemon reads, Claude's settings,      *)
(* which watchme hooks rewrites (hooks/claude.rs), and the audit log, which  *)
(* the daemon appends to and watchme logs cuts (audit.rs).  Nobody locks.    *)
(* A line is the records that were written up to a newline.                  *)
(***************************************************************************)
EXTENDS Places, SequencesExt

CONSTANTS MaxPens,    \* programs that add a record each
          MaxKept,    \* records that are kept in memory, 256 in the code
          MaxLines,   \* lines of a marker file that is still read, 1 MiB in the code
          MaxJobs     \* rewrites of a file

ASSUME KeptAssumption == {MaxKept, MaxLines} \subseteq Nat \ {0}
ASSUME PensAssumption == MaxPens \in Nat

VARIABLES disk, \* which file, and its lines
          pens, \* the programs that add to it, one record each
          job   \* the command that rewrites it

filesVars == <<disk, pens, job>>

Pens == 1..MaxPens
Hook == MaxPens + 1 \* WatchMe's own entry of the settings
Cut == 0            \* a record that was written in part
Line(items, closed) == [items |-> items, closed |-> closed]

FilesTypeOK ==
    /\ disk \in [kind : {"markers", "settings", "audit"},
                 lines : Seq([items : Seq(0..(MaxPens + 1)), closed : BOOLEAN])]
    /\ pens \in [Pens -> [pc : {"idle", "half", "done", "dead"}, session : 1..2, alone : BOOLEAN]]
    /\ job \in [pc : {"idle", "read", "temp", "rewrite"}, base : Seq(1..(MaxPens + 1)), at : Nat,
                lost : SUBSET (1..(MaxPens + 1)), jobs : Nat]

FilesInit ==
    /\ disk \in [kind : {"markers", "settings", "audit"}, lines : {<<>>}]
    /\ pens \in [Pens -> [pc : {"idle"}, session : IF disk.kind = "markers" THEN 1..2 ELSE {1},
                          alone : {TRUE}]]
    /\ job = [pc |-> "idle", base |-> <<>>, at |-> 0, lost |-> {}, jobs |-> 0]

-----------------------------------------------------------------------------
(* Lines.                                                                   *)
\* What is appended goes to the end of a line that is still open.
Open == disk.lines # <<>> /\ ~Last(disk.lines).closed
Put(r, closed) ==
    IF Open THEN [disk.lines EXCEPT ![Len(disk.lines)] = Line(Append(@.items, r), closed)]
    ELSE Append(disk.lines, Line(<<r>>, closed))
CloseLine == IF Open THEN [disk.lines EXCEPT ![Len(disk.lines)].closed = TRUE]
           ELSE Append(disk.lines, Line(<<>>, TRUE))
\* A line that is one whole record is understood, with or without its newline.
Understood(line) == Len(line.items) = 1 /\ line.items[1] # Cut
Readable == {i \in DOMAIN disk.lines : Understood(disk.lines[i])}
read_all == LET ls == Pick(disk.lines, Readable) IN [i \in DOMAIN ls |-> ls[i].items[1]]

Newest(rs, n) == IF Len(rs) > n THEN SubSeq(rs, Len(rs) - n + 1, Len(rs)) ELSE rs
Oldest(rs, n) == IF Len(rs) > n THEN SubSeq(rs, 1, n) ELSE rs
\* read_markers: the newest ones of a file that is not too long.
read_markers_prefix == IF Len(disk.lines) > MaxLines THEN <<>> ELSE Oldest(read_all, MaxKept)
read_markers == IF Len(disk.lines) > MaxLines THEN <<>> ELSE Newest(read_all, MaxKept)
\* correlate_marker: the last one of the session, or 0.
correlate_marker(session) ==
    LET rs == read_markers
        of == {i \in DOMAIN rs : pens[rs[i]].session = session}
    IN  IF of = {} THEN 0 ELSE rs[Max(of)]

-----------------------------------------------------------------------------
(* Those who add.                                                           *)
Rewriting == job.pc # "idle"
\* A record that is added during a rewrite may be lost in it.
Risks(p) == job' = [job EXCEPT !.lost = IF Rewriting THEN @ \cup {p} ELSE @]

\* write_marker, in two writes: the record, then its newline.
WriteRecord(p) ==
    /\ disk.kind = "markers" /\ pens[p].pc = "idle"
    /\ disk' = [disk EXCEPT !.lines = Put(p, FALSE)]
    /\ pens' = [q \in Pens |->
                  IF q = p THEN [pens[q] EXCEPT !.pc = "half", !.alone = ~Open]
                  ELSE IF pens[q].pc \in {"half", "dead"} THEN [pens[q] EXCEPT !.alone = FALSE]
                  ELSE pens[q]]
    /\ UNCHANGED job
WriteNewline(p) ==
    /\ pens[p].pc = "half"
    /\ disk' = [disk EXCEPT !.lines = CloseLine]
    /\ pens' = [pens EXCEPT ![p].pc = "done"]
    /\ UNCHANGED job
\* The hook is killed between them.
KillPen(p) == /\ pens[p].pc = "half" /\ pens' = [pens EXCEPT ![p].pc = "dead"]
              /\ UNCHANGED <<disk, job>>

\* Claude writes its settings: one more entry.
EditSettings(p) ==
    /\ disk.kind = "settings" /\ pens[p].pc = "idle"
    /\ disk' = [disk EXCEPT !.lines = Put(p, TRUE)]
    /\ pens' = [pens EXCEPT ![p].pc = "done"]
    /\ Risks(p)

\* append: the daemon's event and its newline in one write; a crash may cut it,
\* and what comes next goes to the same line.
append(p, cut) ==
    /\ disk.kind = "audit" /\ pens[p].pc = "idle"
    /\ disk' = [disk EXCEPT !.lines = IF cut THEN Put(Cut, FALSE) ELSE Put(p, TRUE)]
    /\ pens' = [pens EXCEPT ![p] = [@ EXCEPT !.pc = IF cut THEN "dead" ELSE "done", !.alone = ~Open]]
    /\ Risks(p)

-----------------------------------------------------------------------------
(* Those who rewrite.                                                       *)
JobEnds == job' = [job EXCEPT !.pc = "idle", !.base = <<>>]
StartJob(base, pc) ==
    /\ job.pc = "idle" /\ job.jobs < MaxJobs
    /\ job' = [job EXCEPT !.pc = pc, !.base = base, !.at = 1, !.jobs = @ + 1]
    /\ UNCHANGED <<disk, pens>>

\* The settings are read; nothing is written when the hook is as asked for.
install_stop_failure_hook ==
    /\ disk.kind = "settings" /\ Hook \notin ToSet(read_all)
    /\ StartJob(Append(read_all, Hook), "read")
remove_stop_failure_hook ==
    /\ disk.kind = "settings" /\ Hook \in ToSet(read_all)
    /\ StartJob(Pick(read_all, {i \in DOMAIN read_all : read_all[i] # Hook}), "read")
\* atomic_json: another file is written and synced, and takes the name.
WriteTemp ==
    /\ disk.kind = "settings" /\ job.pc = "read"
    /\ job' = [job EXCEPT !.pc = "temp"]
    /\ UNCHANGED <<disk, pens>>
RenameInPlace ==
    /\ job.pc = "temp"
    /\ disk' = [disk EXCEPT !.lines = <<>>]
    /\ job' = [job EXCEPT !.pc = "rewrite"]
    /\ UNCHANGED pens
Rename ==
    /\ job.pc = "temp"
    /\ disk' = [disk EXCEPT !.lines = [i \in DOMAIN job.base |-> Line(<<job.base[i]>>, TRUE)]]
    /\ JobEnds
    /\ UNCHANGED pens

\* apply_retention: all that is understood is read, the oldest are dropped, the
\* file is emptied and written line by line, each where the last one ended.
apply_retention(n) ==
    /\ disk.kind = "audit" /\ n \in 0..Len(read_all)
    /\ job.pc = "idle" /\ job.jobs < MaxJobs
    /\ job' = [job EXCEPT !.pc = "read", !.base = Newest(read_all, n), !.at = 1, !.jobs = @ + 1,
                          !.lost = @ \cup (ToSet(read_all) \ ToSet(Newest(read_all, n)))]
    /\ UNCHANGED <<disk, pens>>
Truncate ==
    /\ disk.kind = "audit" /\ job.pc = "read"
    /\ disk' = [disk EXCEPT !.lines = <<>>]
    /\ job' = [job EXCEPT !.pc = "rewrite"]
    /\ UNCHANGED pens
WriteLine ==
    /\ job.pc = "rewrite"
    /\ IF job.at > Len(job.base) THEN JobEnds /\ UNCHANGED disk
       ELSE /\ disk' = [disk EXCEPT !.lines =
                          IF job.at > Len(@) THEN Append(@, Line(<<job.base[job.at]>>, TRUE))
                          ELSE [@ EXCEPT ![job.at] = Line(<<job.base[job.at]>>, TRUE)]]
            /\ job' = [job EXCEPT !.at = @ + 1]
    /\ UNCHANGED pens
\* The command is killed: only what is not yet in the audit log again is lost.
KillJob ==
    /\ Rewriting
    /\ job' = [job EXCEPT !.pc = "idle", !.base = <<>>,
                          !.lost = IF disk.kind = "audit" /\ job.pc = "rewrite"
                                   THEN @ \cup (Pens \cap ToSet(SubSeq(job.base, job.at, Len(job.base))))
                                   ELSE @]
    /\ UNCHANGED <<disk, pens>>

FilesNext ==
    \/ \E p \in Pens : \/ WriteRecord(p) \/ WriteNewline(p) \/ KillPen(p)
                       \/ EditSettings(p)
                       \/ \E cut \in BOOLEAN : append(p, cut)
    \/ install_stop_failure_hook \/ remove_stop_failure_hook
    \/ WriteTemp \/ Rename
    \/ \E n \in 0..MaxPens : apply_retention(n)
    \/ Truncate \/ WriteLine
    \/ KillJob

FilesSpec == FilesInit /\ [][FilesNext]_filesVars

-----------------------------------------------------------------------------
\* A failure that the hook wrote is the one the daemon finds for its session, or
\* one that was written after it: unless the file is too long, newer markers of
\* others crowd it out, or another hook wrote between its record and its newline
\* or left the line before it open.
MarkerIsFound ==
    \A p \in Pens :
      LET rs == read_all
          later == {i \in DOMAIN rs : \E j \in DOMAIN rs : j < i /\ rs[j] = p}
          found == correlate_marker(pens[p].session)
      IN  disk.kind = "markers" /\ pens[p].pc = "done" /\ pens[p].alone
          /\ Len(disk.lines) <= MaxLines /\ Cardinality(later) < MaxKept
            => found = p \/ \E i \in later : rs[i] = found

\* No rewrite loses or repeats what others wrote: a record is missing only when
\* it was added between the rewrite's read and its end, when retention dropped
\* it, when it was glued to one that a crash had cut, or when watchme logs was
\* killed while the log was empty.  The settings survive a kill at any point.
RewriteKeeps ==
    /\ IsInjective(read_all)
    /\ disk.kind # "markers" /\ job.pc # "rewrite" =>
         \A p \in Pens : pens[p].pc = "done" /\ pens[p].alone => p \in ToSet(read_all) \cup job.lost

-----------------------------------------------------------------------------
(* What the two rest on.                                                    *)
RecordAt(i) == disk.lines[i].items[1]
\* Only the last line may be open, and it has something in it.
OnlyLastIsOpen ==
    \A i \in DOMAIN disk.lines :
      ~disk.lines[i].closed => i = Len(disk.lines) /\ disk.lines[i].items # <<>>
\* A record is on one line, and its program has written it.
EachOnce ==
    /\ \A i, j \in Readable : RecordAt(i) = RecordAt(j) => i = j
    /\ \A i \in Readable : RecordAt(i) \in Pens => pens[RecordAt(i)].pc # "idle"
\* A marker that nobody wrote into has a line of its own.
MarkersInv ==
    disk.kind = "markers" =>
      /\ job.pc = "idle"
      /\ \A p \in Pens : pens[p].alone /\ pens[p].pc \in {"half", "done"} =>
           \E i \in DOMAIN disk.lines :
             disk.lines[i].items = <<p>> /\ (disk.lines[i].closed \/ pens[p].pc = "half")
\* The lines of the settings and of the log, and who writes and rewrites them how.
LinesInv ==
    /\ \A p \in Pens : pens[p].pc = "half" => disk.kind = "markers"
    /\ disk.kind = "settings" =>
         job.pc # "rewrite" /\ \A i \in DOMAIN disk.lines : i \in Readable /\ disk.lines[i].closed
    /\ disk.kind = "audit" => job.pc # "temp" /\ \A i \in Readable : disk.lines[i].closed
\* What a rewrite will write: each record once, and all that it must keep.
BaseInv ==
    /\ IsInjective(job.base)
    /\ \A k \in DOMAIN job.base : job.base[k] \in Pens => pens[job.base[k]].pc # "idle"
    /\ job.pc # "idle" =>
         \A p \in Pens : pens[p].pc = "done" /\ pens[p].alone => p \in ToSet(job.base) \cup job.lost
    /\ job.pc = "read" => job.at = 1
\* How far it has come, and that what others added meanwhile is not its own.
RewriteInv ==
    job.pc = "rewrite" =>
      /\ job.at \in 1..(Len(job.base) + 1) /\ job.at - 1 <= Len(disk.lines)
      /\ \A k \in 1..(job.at - 1) : disk.lines[k] = Line(<<job.base[k]>>, TRUE)
      /\ \A i \in Readable : i >= job.at => RecordAt(i) \notin ToSet(job.base)
\* Outside the rewriting itself everything that must be there is there.
KeptInv ==
    disk.kind # "markers" /\ job.pc # "rewrite" =>
      \A p \in Pens : pens[p].pc = "done" /\ pens[p].alone =>
        p \in job.lost \/ \E i \in Readable : RecordAt(i) = p
FilesInv == /\ FilesTypeOK /\ OnlyLastIsOpen /\ EachOnce /\ MarkersInv
            /\ LinesInv /\ BaseInv /\ RewriteInv /\ KeptInv
=============================================================================
