------------------------------- MODULE NippyJar -------------------------------
(***************************************************************************)
(* The files of one static file (storage/nippy-jar): a data file, the      *)
(* offsets of its cells and a configuration that is replaced atomically.   *)
(* The machine may stop between any two steps of a commit or of a pruning; *)
(* what was not synced is then lost in part.  Opening the jar again heals  *)
(* it.  Offsets count bytes; the first byte of the offsets file, which     *)
(* holds the size of an offset, is left out.                               *)
(***************************************************************************)
EXTENDS Integers, Sequences, SequencesExt

CONSTANTS Columns, Sizes,   \* columns of a row, sizes of a cell in bytes
          MaxAppends, MaxCrashes  \* bounds

VARIABLES data, offsets,    \* the files as the system sees them
          dataSync, offsetsSync, \* what is certain to survive a crash
          config,           \* the configuration on disk: rows, and rows of the user header
          buffer,           \* bytes of the data file still in the BufWriter
          jar,              \* rows and user header in memory
          pending,          \* self.offsets
          pc, cut,          \* the step the writer is at, rows being pruned
          rows, safe,       \* every row of the jar, the rows that must survive
          overcut,          \* history: rows on disk were pruned with offsets in memory
          appends, crashes

files == <<data, offsets, dataSync, offsetsSync, config>>
memory == <<buffer, jar, pending>>
ghosts == <<rows, safe, overcut, appends, crashes>>
vars == <<data, offsets, dataSync, offsetsSync, config, buffer, jar, pending, pc, cut,
          rows, safe, overcut, appends, crashes>>

LastOr0(s) == IF s = <<>> THEN 0 ELSE Last(s)
Smaller(a, b) == IF a < b THEN a ELSE b
Prefix(s, n) == SubSeq(s, 1, Smaller(n, Len(s)))
Sub(a, b) == IF a < b THEN 0 ELSE a - b

\* A cell is the sequence of its bytes, a byte is the row and column it is of; a
\* cell that is not within the data reads as no cell does.
Rows(d, o, n) ==
  [r \in 1..n |-> [c \in 1..Columns |->
     LET i == (r - 1) * Columns + c
     IN  IF i < Len(o) /\ o[i + 1] <= Len(d) THEN SubSeq(d, o[i] + 1, o[i + 1]) ELSE <<<<-1, c>>>>]]

\* The rows whose offsets are on disk.
OnDisk == Len(rows) - (Sub(Len(pending), 1) \div Columns)
-----------------------------------------------------------------------------
\* Fault: the reader's offsets are compared with the row count only.
HealNot(d, o, n) ==
  LET expected == n * Columns + 1
  IN  IF Len(o) > expected THEN [data |-> d, offsets |-> Prefix(o, expected), rows |-> n]
      ELSE [data |-> d, offsets |-> o, rows |-> Smaller(n, Sub(Len(o), 1) \div Columns)]

\* ensure_file_consistency up to its recursive call: the offsets are made to agree
\* with the row count, and data the offsets do not reach is cut.
HealOffsets(d, o, n) ==
  LET expected == n * Columns + 1
      kept == IF Len(o) > expected THEN Prefix(o, expected) ELSE o
  IN  [data |-> IF LastOr0(kept) < Len(d) THEN Prefix(d, LastOr0(kept)) ELSE d,
       offsets |-> kept,
       rows |-> IF Len(o) < expected THEN Sub(Len(o), 1) \div Columns ELSE n]

\* ensure_file_consistency: offsets past the end of the data are dropped back to
\* the first one that is not, and the check is repeated.
Heal(d, o, n) ==
  LET once == HealOffsets(d, o, n)
      within == {i \in 1..Len(once.offsets) - 1 : once.offsets[i] <= Len(once.data)}
  IN  IF LastOr0(once.offsets) > Len(once.data) /\ within # {}
      THEN HealOffsets(once.data, Prefix(once.offsets, CHOOSE i \in within : \A j \in within : j <= i), once.rows)
      ELSE once

\* What the files may hold after a crash: an unsynced write survives up to some
\* byte, an unsynced truncation happened or did not.
Survivors(file, sync) ==
  {sync, file} \cup (IF IsPrefix(sync, file) THEN {Prefix(file, n) : n \in Len(sync)..Len(file)} ELSE {})
-----------------------------------------------------------------------------
\* create_or_open_files on files that do not exist, and the first freeze_config.
Init ==
  /\ data = <<>> /\ dataSync = <<>> /\ offsets = <<0>> /\ offsetsSync = <<0>>
  /\ config = [rows |-> 0, header |-> 0] /\ jar = [rows |-> 0, header |-> 0]
  /\ buffer = <<>> /\ pending = <<>> /\ pc = "ready" /\ cut = 0
  /\ rows = <<>> /\ safe = {<<>>} /\ overcut = FALSE /\ appends = 0 /\ crashes = 0

\* append_column and write_column for every column of a row, finalize_row.  A cell
\* may be empty (a total difficulty of zero), a row is not.
AppendRow ==
  /\ pc = "ready" /\ appends < MaxAppends /\ appends' = appends + 1
  /\ \E sizes \in {f \in [1..Columns -> Sizes] : \E c \in 1..Columns : f[c] > 0} :
       LET row == [c \in 1..Columns |-> [k \in 1..sizes[c] |-> <<appends, c>>]]
           first == IF pending = <<>> THEN <<Len(data) + Len(buffer)>> ELSE pending
           Next1(list, cell) == Append(list, Last(list) + Len(cell))
       IN  /\ pending' = FoldLeft(Next1, first, row)
           /\ buffer' = buffer \o FlattenSeq(row)
           /\ rows' = Append(rows, row)
  /\ jar' = [rows |-> jar.rows + 1, header |-> jar.header + 1]
  /\ UNCHANGED <<files, pc, cut, safe, overcut, crashes>>

\* The BufWriter spills part of its contents.
Spill ==
  /\ pc = "ready" /\ buffer # <<>>
  /\ \E n \in 1..Len(buffer) :
       data' = data \o Prefix(buffer, n) /\ buffer' = SubSeq(buffer, n + 1, Len(buffer))
  /\ UNCHANGED <<offsets, dataSync, offsetsSync, config, jar, pending, pc, cut, ghosts>>
-----------------------------------------------------------------------------
\* commit: the data is flushed and synced; from here the new rows may survive.
CommitData ==
  /\ pc = "ready" /\ (rows # <<>> \/ pending # <<>>)
  /\ data' = data \o buffer /\ dataSync' = data' /\ buffer' = <<>>
  /\ safe' = safe \cup {Prefix(rows, n) : n \in OnDisk..Len(rows)} /\ pc' = "offsets"
  /\ UNCHANGED <<offsets, offsetsSync, config, jar, pending, cut, rows, overcut, appends, crashes>>

\* commit_offsets_inner
WriteOffsets ==
  /\ pc = "offsets" /\ pc' = "sync"
  /\ offsets' = offsets \o (IF offsets # <<>> /\ pending # <<>> /\ Head(pending) = Last(offsets)
                            THEN Tail(pending) ELSE pending)
  /\ pending' = <<>>
  /\ UNCHANGED <<data, dataSync, offsetsSync, config, buffer, jar, cut, ghosts>>

\* commit_offsets: sync_all
SyncOffsets ==
  /\ pc = "sync" /\ pc' = "config" /\ offsetsSync' = offsets
  /\ UNCHANGED <<data, offsets, dataSync, config, memory, cut, ghosts>>

\* freeze_config: written aside, synced and renamed, the last step of a commit and
\* of a pruning; from here the rows that are on disk survive.
FreezeConfig ==
  /\ pc = "config" /\ pc' = "ready" /\ config' = jar /\ safe' = {Prefix(rows, OnDisk)}
  /\ UNCHANGED <<data, offsets, dataSync, offsetsSync, memory, cut, rows, overcut, appends, crashes>>
-----------------------------------------------------------------------------
\* prune_rows, of the rows whose offsets are in memory; one offset stays there,
\* also when rows on disk go too.
PruneMemory ==
  /\ pc = "ready"
  /\ \E n \in 1..jar.rows :
       LET held == Sub(Len(pending), 1)
           taken == Smaller(n * Columns, held)
       IN  /\ cut' = n * Columns - taken
           /\ overcut' = (overcut \/ (cut' > 0 /\ pending # <<>>))
           /\ pending' = Prefix(pending, Len(pending) - taken)
           /\ data' = IF taken > 0 THEN Prefix(data \o buffer, pending[Len(pending) - taken]) ELSE data \o buffer
           /\ jar' = [rows |-> jar.rows - n, header |-> jar.header - n]
           /\ rows' = Prefix(rows, Len(rows) - n)
  /\ safe' = safe \cup {rows', Prefix(rows', OnDisk)} /\ buffer' = <<>> /\ pc' = "pruneOffsets"
  /\ UNCHANGED <<offsets, dataSync, offsetsSync, config, appends, crashes>>

\* Of the rows on disk: the offsets are cut, then the data.
PruneOffsets ==
  /\ pc = "pruneOffsets" /\ pc' = "pruneData"
  /\ LET left == Len(offsets) - cut
     IN  offsets' = IF cut = 0 THEN offsets ELSE IF left <= 1 THEN <<>> ELSE Prefix(offsets, left)
  /\ UNCHANGED <<data, dataSync, offsetsSync, config, memory, cut, ghosts>>

PruneData ==
  /\ pc = "pruneData" /\ pc' = "pruneSync" /\ cut' = 0
  /\ data' = IF cut = 0 THEN data ELSE Prefix(data, LastOr0(offsets))
  /\ UNCHANGED <<offsets, dataSync, offsetsSync, config, memory, ghosts>>

\* prune_rows: both files are synced; freeze_config follows.
PruneSync ==
  /\ pc = "pruneSync" /\ pc' = "config" /\ dataSync' = data /\ offsetsSync' = offsets
  /\ UNCHANGED <<data, offsets, config, memory, cut, ghosts>>
-----------------------------------------------------------------------------
\* The machine stops.
Crash ==
  /\ pc # "down" /\ crashes < MaxCrashes /\ crashes' = crashes + 1 /\ pc' = "down"
  /\ data' \in Survivors(data, dataSync) /\ offsets' \in Survivors(offsets, offsetsSync)
  /\ dataSync' = data' /\ offsetsSync' = offsets'
  /\ buffer' = <<>> /\ pending' = <<>> /\ jar' = config /\ cut' = 0
  /\ UNCHANGED <<config, rows, safe, overcut, appends>>

\* NippyJarWriter::new: the jar is loaded and healed; its row count is frozen.
Open ==
  /\ pc = "down" /\ pc' = "header"
  /\ LET healed == Heal(data, offsets, config.rows)
     IN  /\ data' = healed.data /\ offsets' = healed.offsets
         /\ dataSync' = data' /\ offsetsSync' = offsets'
         /\ config' = [config EXCEPT !.rows = healed.rows] /\ jar' = config'
  /\ UNCHANGED <<buffer, pending, cut, ghosts>>

\* The segment's ensure_file_consistency: healed once more, the user header loses the
\* rows that were lost, and the writer commits.
EnsureHeader ==
  /\ pc = "header" /\ pc' = "ready"
  /\ LET healed == Heal(data, offsets, jar.rows)
     IN  /\ data' = healed.data /\ offsets' = healed.offsets
         /\ config' = [rows |-> healed.rows, header |-> jar.header - (jar.header - healed.rows)]
         /\ rows' = Rows(data', offsets', healed.rows)
  /\ dataSync' = data' /\ offsetsSync' = offsets' /\ jar' = config' /\ safe' = {rows'}
  /\ UNCHANGED <<buffer, pending, cut, overcut, appends, crashes>>

Next ==
  \/ AppendRow \/ Spill \/ CommitData \/ WriteOffsets \/ SyncOffsets \/ FreezeConfig
  \/ PruneMemory \/ PruneOffsets \/ PruneData \/ PruneSync \/ Crash \/ Open \/ EnsureHeader

Spec == Init /\ [][Next]_vars
-----------------------------------------------------------------------------
\* Whatever a crash leaves of the files, opening them gives back the rows of the
\* last commit or pruning, with the first few of the rows being committed, or
\* without the rows being pruned (ensure_file_consistency after commit and
\* prune_rows).  Not claimed once a pruning of uncommitted rows reached rows on disk:
\* the offset that stays in memory is then past the end of the data.
CrashSafe == ~overcut =>
  \A d \in Survivors(data, dataSync), o \in Survivors(offsets, offsetsSync) :
    LET once == Heal(d, o, config.rows)
        twice == Heal(once.data, once.offsets, once.rows)
    IN  Rows(twice.data, twice.offsets, twice.rows) \in safe

\* A jar that is at rest and has nothing uncommitted reads back exactly its rows:
\* the offsets are those of its rows, and end where the data ends (with the same
\* exception).
ReadsBack ==
  ~overcut /\ pc = "ready" /\ pending = <<>> =>
    /\ Len(offsets) \in {jar.rows * Columns + 1, IF jar.rows = 0 THEN 0 ELSE jar.rows * Columns + 1}
    /\ LastOr0(offsets) = Len(data)
    /\ Rows(data, offsets, jar.rows) = rows

\* The user header never counts fewer rows than the jar, which the subtraction of
\* the two in the segment's ensure_file_consistency relies on, and counts as many
\* whenever the jar is in use.
HeaderCounts == jar.header >= jar.rows /\ (pc = "ready" => jar.header = jar.rows /\ config.header = config.rows)
=============================================================================
