----------------------------- MODULE MessageStore -----------------------------
(***************************************************************************)
(* The SQLite archive of messages: one file per session in databases/,     *)
(* opened and closed by the frame loop as "Log messages to database" is    *)
(* ticked, written by the decode workers, cleaned up at start, listed and  *)
(* chosen from in the Session combo of the message panels.                 *)
(*                                                                         *)
(* Time is counted in quarters of a day.  A message is the sequence of     *)
(* its packed fields, each a sequence of letters; "|" separates fields in  *)
(* the data column, which is cut to the size of the buffer.                *)
(***************************************************************************)
EXTENDS Naturals, Sequences, FiniteSets, SequencesExt

CONSTANTS
    Workers,     \* decode worker threads
    Messages,    \* the messages they store, sequences of fields
    BufferSize,  \* room in extra[] without the end of string
    MaxAge,      \* maxDbAgeDays
    OldFiles,    \* when the files of earlier sessions were made
    Start, End,  \* bound: the time at start and the last one
    MaxRows      \* bound: rows of a file

VARIABLES
    now,
    logToDb,     \* the check box
    enabled,     \* enabled_
    db,          \* the file that is open, or NoDb
    files,       \* path |-> rows; a path is a directory and the time in the name
    busy,        \* what a worker is about to store, past the test of enabled_
    paths,       \* archiveDbPaths
    combo,       \* archiveComboMsg: what the user sees chosen
    archive,     \* what the log shows instead of its messages, or Live
    removed      \* history: the files cleanup has removed

vars == <<now, logToDb, enabled, db, files, busy, paths, combo, archive, removed>>

Day  == 4
NoDb == <<"none", 0>>
Live == <<>>
Databases(t) == <<"databases", t>>
Here(t) == <<"", t>>     \* a bare file name: relative to the working directory

\* cleanup: the name's date, at midnight, is before the cutoff.
Expired(t) == (t \div Day) * Day < Start - MaxAge * Day

\* main: what is too old goes before anything else; logging is off.
Init ==
    /\ now = Start
    /\ logToDb = FALSE /\ enabled = FALSE /\ db = NoDb
    /\ removed = {t \in OldFiles : Expired(t)}
    /\ files = [p \in {Databases(t) : t \in OldFiles \ removed} |-> <<>>]
    /\ busy = [w \in Workers |-> <<>>]
    /\ paths = <<>> /\ combo = 0 /\ archive = Live

-----------------------------------------------------------------------------
(* The data column                                                         *)

\* The fields up to each of them, with bars between.
Joined(fields) ==
    LET joined[i \in DOMAIN fields] ==
            IF i = 1 THEN fields[1] ELSE joined[i - 1] \o <<"|">> \o fields[i]
    IN joined

Packed(fields) ==
    LET all == Joined(fields)[Len(fields)]
    IN SubSeq(all, 1, IF Len(all) > BufferSize THEN BufferSize ELSE Len(all))

\* The bars of the data, with one before its first letter.
Bars(data) == {0} \cup {p \in DOMAIN data : data[p] = "|"}
Starts(data, i) == {p \in Bars(data) : Cardinality({q \in Bars(data) : q < p}) = i - 1}

\* field(): what is between the bars i - 1 and i; nothing if there are fewer.
Field(data, i) ==
    LET from == CHOOSE p \in Starts(data, i) : TRUE
        ends == {p \in Bars(data) : p > from} \cup {Len(data) + 1}
        to == CHOOSE p \in ends : \A q \in ends : p <= q
    IN IF Starts(data, i) = {} THEN <<>> ELSE SubSeq(data, from + 1, to - 1)

-----------------------------------------------------------------------------
(* The frame loop                                                          *)

Tick == now < End /\ now' = now + 1 /\ UNCHANGED <<logToDb, enabled, db, files, busy, paths, combo, archive, removed>>

Toggle ==
    /\ logToDb' = ~logToDb
    /\ UNCHANGED <<now, enabled, db, files, busy, paths, combo, archive, removed>>

\* openSession: a file of this second is opened again; a failure leaves logging off, and
\* the next frame tries again.
OpenSession ==
    /\ logToDb /\ ~enabled
    /\ db' = Databases(now) /\ enabled' = TRUE
    /\ files' = [p \in DOMAIN files \cup {db'} |-> IF p \in DOMAIN files THEN files[p] ELSE <<>>]
    /\ UNCHANGED <<now, logToDb, busy, paths, combo, archive, removed>>

\* setEnabled(false) with closeCurrent.
CloseCurrent ==
    /\ ~logToDb /\ enabled
    /\ enabled' = FALSE /\ db' = NoDb
    /\ UNCHANGED <<now, logToDb, files, busy, paths, combo, archive, removed>>

-----------------------------------------------------------------------------
(* The decode workers: storeAcars and the others                           *)

\* enabled_ is read before the mutex is taken.
StoreCheck(w, m) ==
    /\ enabled /\ busy[w] = <<>>
    /\ busy' = [busy EXCEPT ![w] = m]
    /\ UNCHANGED <<now, logToDb, enabled, db, files, paths, combo, archive, removed>>

\* Mutant of Writable: enabled_ said so.
TrustsEnabled(d) == TRUE

Writable(d) == d # NoDb

StoreInsert(w) ==
    /\ busy[w] # <<>>
    /\ db \in DOMAIN files => Len(files[db]) < MaxRows
    /\ IF Writable(db)
       THEN LET rows == IF db \in DOMAIN files THEN files[db] ELSE <<>>
                row == [fields |-> busy[w], data |-> Packed(busy[w])]
            IN files' = [p \in DOMAIN files \cup {db} |-> IF p = db THEN Append(rows, row) ELSE files[p]]
       ELSE UNCHANGED files
    /\ busy' = [busy EXCEPT ![w] = <<>>]
    /\ UNCHANGED <<now, logToDb, enabled, db, paths, combo, archive, removed>>

-----------------------------------------------------------------------------
(* The message panel                                                       *)

\* scanArchives every three seconds: the names in databases/, the newest first.
ScanArchives ==
    /\ paths' = SetToSortSeq({p[2] : p \in {q \in DOMAIN files : q[1] = "databases"}},
                             LAMBDA a, b : a > b)
    /\ UNCHANGED <<now, logToDb, enabled, db, files, busy, combo, archive, removed>>

\* loadAcarsOrSu, loadEgc and loadLes: the path is the name; if it does not open the log
\* shows what it showed before.
Choose(i) ==
    /\ i \in 0..Len(paths) /\ i # combo
    /\ combo' = i
    /\ archive' =
         IF i = 0 THEN Live
         ELSE LET path == Here(paths[i]) IN
              IF path \notin DOMAIN files THEN archive
              ELSE [r \in DOMAIN files[path] |->
                      [f \in DOMAIN files[path][r].fields |-> Field(files[path][r].data, f)]]
    /\ UNCHANGED <<now, logToDb, enabled, db, files, busy, paths, removed>>

Next ==
    \/ Tick
    \/ Toggle
    \/ OpenSession
    \/ CloseCurrent
    \/ \E w \in Workers, m \in Messages : StoreCheck(w, m)
    \/ \E w \in Workers : StoreInsert(w)
    \/ ScanArchives
    \/ \E i \in 0..2 : Choose(i)

Spec == Init /\ [][Next]_vars

-----------------------------------------------------------------------------
(* Properties                                                              *)

\* A worker that found logging on writes to no archive but the open one, also when the
\* session is closed, or another one opened, before it gets the mutex.
WritesOnlyToOpenSession == NoDb \notin DOMAIN files

\* What was packed is read back, field by field, if it fits the buffer and no field has a
\* bar in it.
PackedReadsBack ==
    \A p \in DOMAIN files : \A r \in DOMAIN files[p] :
        LET row == files[p][r] IN
        (Len(row.data) < BufferSize /\ \A f \in DOMAIN row.fields : ~Contains(row.fields[f], "|"))
            => \A f \in DOMAIN row.fields : Field(row.data, f) = row.fields[f]

\* After the start no archive is older than maxDbAgeDays, and none was removed more than
\* a day before its time.
CleanupKeepsTheAge ==
    /\ \A p \in DOMAIN files : p[1] = "databases" => p[2] >= Start - MaxAge * Day
    /\ \A t \in removed : t < Start - (MaxAge - 1) * Day

\* The archives: what is written, how it reads back and how long it is kept.
ArchiveIsKept == WritesOnlyToOpenSession /\ PackedReadsBack /\ CleanupKeepsTheAge
=============================================================================
