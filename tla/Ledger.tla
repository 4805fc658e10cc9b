------------------------------- MODULE Ledger -------------------------------
(***************************************************************************)
(* What the gateway writes down about itself: the usage ledger             *)
(* (coreai/usage.py), the audit log (coreai/audit.py) and the archives of  *)
(* coreai/backup.py.  They share nothing; each has its own next-state      *)
(* relation.  Knowledge is extended to state at the end what all these     *)
(* stores promise.                                                         *)
(*                                                                         *)
(*   usageClock  the wall clock, which may also be set back                *)
(*   rows        _rows, oldest first: [hour, key, requests]                *)
(*   recorded    how many requests were recorded, per key                  *)
(*   pruned      how many left with rows pruned, per key                   *)
(*   cutoff      the cutoff of the last _prune()                           *)
(*                                                                         *)
(*   ring        _events                                                   *)
(*   auditSeq    _seq                                                      *)
(*   logFile, logBackup   <path> and <path>.1                              *)
(*   written     every event written to <path>, over all processes         *)
(*   process     how many times the gateway was started                    *)
(*   writeErrors write_errors                                              *)
(*                                                                         *)
(* A key stands for (subject, provider, model); tokens and cost add up as  *)
(* requests do.  An event is [process, id]; the file holds LogRoom events  *)
(* before it rotates.                                                      *)
(***************************************************************************)
EXTENDS Knowledge

CONSTANTS
    UsageKeys,        \* subject, provider and model
    HOUR, DAY,        \* the buckets, in ticks of the clock
    USAGE_RETENTION, USAGE_MAX_ROWS,
    MaxUsageClock, MaxRecorded,             \* bounds
    RingSize, LogRoom, MaxAudited, MaxProcess   \* the last two are bounds

ASSUME LedgerAssumption ==
    /\ HOUR \in Nat \ {0} /\ DAY % HOUR = 0 /\ USAGE_RETENTION \in Nat \ {0}
    /\ USAGE_MAX_ROWS \in Nat \ {0} /\ MaxUsageClock \in Nat
    /\ RingSize \in Nat \ {0} /\ LogRoom \in Nat \ {0}

VARIABLES usageClock, rows, recorded, pruned, cutoff,
          ring, auditSeq, logFile, logBackup, written, process, writeErrors

usageVars == <<usageClock, rows, recorded, pruned, cutoff>>
auditVars == <<ring, auditSeq, logFile, logBackup, written, process, writeErrors>>

UsageInit ==
    /\ usageClock \in 0..MaxUsageClock
    /\ rows = << >>
    /\ recorded = [k \in UsageKeys |-> 0] /\ pruned = [k \in UsageKeys |-> 0]
    /\ cutoff = usageClock - USAGE_RETENTION

\* Mutant: a new row goes to the end wherever its hour belongs.
PlacedLast(rs, row) == Append(rs, row)

\* A new row goes behind the rows of its hour and of the hours before it: they are
\* in order, and sorting them keeps the order of the others.
Placed(rs, row) ==
    LET older == Cardinality({i \in DOMAIN rs : rs[i].hour <= row.hour})
    IN  IF rs # << >> /\ row.hour < Last(rs).hour THEN InsertAt(rs, older + 1, row)
        ELSE Append(rs, row)

\* _prune(): from the oldest end, until a row is young enough and they fit.
Outdated(rs, cut) ==
    LET kept(n) == n = Len(rs) \/ (rs[n + 1].hour >= cut /\ Len(rs) - n <= USAGE_MAX_ROWS)
    IN  CHOOSE n \in 0..Len(rs) : kept(n) /\ \A j \in 0..(n - 1) : ~kept(j)

\* The requests of the rows at the places I, counted one by one; those of a key.
RequestsAt(rs, I) == Cardinality(UNION {{i} \X (1..rs[i].requests) : i \in I})
RequestsOf(rs, k) == RequestsAt(rs, {i \in DOMAIN rs : rs[i].key = k})

\* record()
UsageRecord(k) ==
    LET hour == usageClock - (usageClock % HOUR)
        at == {i \in DOMAIN rows : rows[i].hour = hour /\ rows[i].key = k}
        added == IF at = {} THEN Placed(rows, [hour |-> hour, key |-> k, requests |-> 1])
                 ELSE [i \in DOMAIN rows |->
                          IF i \in at THEN [rows[i] EXCEPT !.requests = @ + 1] ELSE rows[i]]
        cut == usageClock - USAGE_RETENTION
        n == Outdated(added, cut)
    IN  /\ recorded' = [recorded EXCEPT ![k] = @ + 1]
        /\ rows' = SubSeq(added, n + 1, Len(added))
        /\ pruned' = [j \in UsageKeys |-> pruned[j] + RequestsOf(SubSeq(added, 1, n), j)]
        /\ cutoff' = cut
        /\ UNCHANGED usageClock

\* The clock moves on, or is set back.
ClockMoves(t) ==
    /\ t # usageClock
    /\ usageClock' = t
    /\ UNCHANGED <<rows, recorded, pruned, cutoff>>

UsageNext ==
    \/ \E k \in UsageKeys :
          FoldFunction(LAMBDA v, s : v + s, 0, recorded) < MaxRecorded /\ UsageRecord(k)
    \/ \E t \in 0..MaxUsageClock : ClockMoves(t)

UsageSpec == UsageInit /\ [][UsageNext]_usageVars

\* report(): since and until lie on hours; size is HOUR or DAY.
Refuses(since, until) == since >= until \/ since % HOUR # 0 \/ until % HOUR # 0
Taken(rs, keys, since, until) ==
    {i \in DOMAIN rs : rs[i].key \in keys /\ since <= rs[i].hour /\ rs[i].hour < until}
Period(row, size) == row.hour - (row.hour % size)

Report(rs, keys, since, until, size) ==
    LET taken == Taken(rs, keys, since, until)
    IN  [p \in {Period(rs[i], size) : i \in taken} |->
            RequestsAt(rs, {i \in taken : Period(rs[i], size) = p})]

-----------------------------------------------------------------------------
AuditInit ==
    /\ ring = << >> /\ auditSeq = 0 /\ writeErrors = 0
    /\ logFile = << >> /\ logBackup = << >> /\ written = << >>
    /\ process = 1

AuditEvent(id) == [process |-> process, id |-> id]

\* record(): the event joins the ring, which drops its oldest.
Ringed(e) == LET r == Append(ring, e)
             IN  IF Len(r) > RingSize THEN Tail(r) ELSE r

\* _append_to_file(): a full file is rotated first.
AuditRecord ==
    LET e == AuditEvent(auditSeq + 1)
        full == Len(logFile) >= LogRoom
    IN  /\ auditSeq' = auditSeq + 1
        /\ ring' = Ringed(e)
        /\ logBackup' = IF full THEN logFile ELSE logBackup
        /\ logFile' = IF full THEN <<e>> ELSE Append(logFile, e)
        /\ written' = Append(written, e)
        /\ UNCHANGED <<process, writeErrors>>

\* The rotation fails, or the write after it.
AuditWriteFails ==
    /\ auditSeq' = auditSeq + 1
    /\ ring' = Ringed(AuditEvent(auditSeq + 1))
    /\ \/ UNCHANGED <<logFile, logBackup>>
       \/ Len(logFile) >= LogRoom /\ logBackup' = logFile /\ logFile' = << >>
    /\ writeErrors' = writeErrors + 1
    /\ UNCHANGED <<written, process>>

\* The gateway is started again: the ring and the numbers are new.
AuditRestart ==
    /\ ring' = << >> /\ auditSeq' = 0 /\ writeErrors' = 0
    /\ process' = process + 1
    /\ UNCHANGED <<logFile, logBackup, written>>

AuditNext ==
    \/ auditSeq < MaxAudited /\ (AuditRecord \/ AuditWriteFails)
    \/ process < MaxProcess /\ AuditRestart

AuditSpec == AuditInit /\ [][AuditNext]_auditVars

\* events(limit): newest first
Events(limit) == SubSeq(Reverse(ring), 1, IF limit < Len(ring) THEN limit ELSE Len(ring))

-----------------------------------------------------------------------------
\* However the clock moves, the rows stay in the order of their hours, one
\* for each key and hour and no more than USAGE_MAX_ROWS, none of them older
\* than the last record allows, and every request recorded is in a row or
\* left with one that was pruned (record(), _prune()).
RowsSound ==
    /\ \A i, j \in DOMAIN rows : i < j =>
          /\ rows[i].hour <= rows[j].hour
          /\ rows[i].hour = rows[j].hour => rows[i].key # rows[j].key
    /\ Len(rows) <= USAGE_MAX_ROWS
    /\ \A i \in DOMAIN rows : rows[i].hour >= cutoff
    /\ \A k \in UsageKeys : recorded[k] = RequestsOf(rows, k) + pruned[k]

\* A report by the day and one by the hour add up to the same, and two reports
\* that meet at an hour add up to the one over both (report()).
ReportsAddUp ==
    LET sum(keys, a, b, size) ==
            LET report == Report(rows, keys, a, b, size)
            IN  Cardinality(UNION {{p} \X (1..report[p]) : p \in DOMAIN report})
        hours == {t \in 0..(MaxUsageClock + HOUR) : t % HOUR = 0}
    IN  /\ \A k \in UsageKeys : sum({k}, 0, MaxUsageClock + 1, DAY) = RequestsOf(rows, k)
        /\ \A a, b, c \in hours : ~Refuses(a, b) /\ ~Refuses(b, c) =>
              sum(UsageKeys, a, b, HOUR) + sum(UsageKeys, b, c, HOUR) = sum(UsageKeys, a, c, DAY)

\* The audit log on disk, the backup before the file, is always an unbroken
\* end of what was written, across restarts and failed writes; the file holds
\* no more than it may, and the ring the last events of this process, with
\* every one the file has missed counted (record(), _append_to_file()).
AuditSound ==
    /\ IsSuffix(logBackup \o logFile, written)
    /\ Len(logFile) <= LogRoom /\ Len(logBackup) <= LogRoom
    /\ ring = [i \in 1..Len(ring) |-> AuditEvent(auditSeq - Len(ring) + i)]
    /\ Len(ring) = IF auditSeq < RingSize THEN auditSeq ELSE RingSize
    /\ auditSeq = writeErrors + Cardinality({i \in DOMAIN written : written[i].process = process})
    /\ \A n \in 1..Len(ring) : Events(n)[1] = AuditEvent(auditSeq)

\* The ledger of usage adds up however the clock moves, and the audit log has no
\* gap that is not counted.
LedgerSound == RowsSound /\ ReportsAddUp /\ AuditSound

-----------------------------------------------------------------------------
(***************************************************************************)
(* coreai/backup.py: create, verify and restore.  Databases are written    *)
(* by the running gateway all the while; SQLite's online backup and        *)
(* pg_dump give a consistent snapshot of each (external).  An archive is   *)
(* written in place, so that a create() that dies leaves a torn file where *)
(* a good one may have been; a restore() that dies leaves the files it has *)
(* written.  The disk may damage an entry at any time.                     *)
(***************************************************************************)

CONSTANTS
    Stores,        \* the databases and configuration files to be saved
    SecretFiles,   \* those of them that _is_secret() recognises
    MaxVersionB,   \* bound: versions of a database
    NoFile         \* nothing there

ASSUME BackupAssumption == MaxVersionB \in Nat \ {0}

VARIABLES
    source,    \* the version each database is at
    archive,   \* the file: its entries with their checksums, and its end
    maker,     \* create(): what it has copied
    restorer,  \* restore(): where it is
    target,    \* the files in the target directory
    stale,     \* history: the archive changed since restore() verified it
    before     \* history: the target when restore() began

backVars == <<source, archive, maker, restorer, target, stale, before>>

Damaged == -1

NoMaker == [at |-> "idle", copies |-> [f \in {} |-> 0]]

NoArchive == [there |-> FALSE, files |-> [f \in {} |-> 0], sums |-> [f \in {} |-> 0], whole |-> FALSE]

NoRestore == [at |-> "idle", left |-> {}, force |-> FALSE, names |-> {}]

BackupInit ==
    /\ source = [f \in Stores |-> 1]
    /\ archive = NoArchive
    /\ maker = NoMaker
    /\ restorer = NoRestore
    /\ target \in {t \in [Stores -> {NoFile, 0}] : \A f \in SecretFiles : t[f] = NoFile}
    /\ stale = FALSE
    /\ before = target

\* create(): discover_dbs, discover_pg and the configuration, without secrets.
Discovered == Stores \ SecretFiles

\* The gateway writes (external to this module).
Write(f) ==
    /\ f \in Discovered /\ source[f] < MaxVersionB
    /\ source' = [source EXCEPT ![f] = @ + 1]
    /\ UNCHANGED <<archive, maker, restorer, target, stale, before>>

-----------------------------------------------------------------------------
BeginBackup ==
    /\ maker.at = "idle"
    /\ maker' = [NoMaker EXCEPT !.at = "copying"]
    /\ UNCHANGED <<source, archive, restorer, target, stale, before>>

\* _snapshot, _pg_dump or a plain copy, into the temporary directory.
CopyStore(f) ==
    /\ maker.at = "copying" /\ f \in Discovered \ DOMAIN maker.copies
    /\ maker' = [maker EXCEPT !.copies =
          [g \in DOMAIN @ \union {f} |-> IF g = f THEN source[f] ELSE @[g]]]
    /\ UNCHANGED <<source, archive, restorer, target, stale, before>>

\* tarfile.open(out, "w:gz") empties the file; manifest.json is written first.
OpenArchive ==
    /\ maker.at = "copying" /\ DOMAIN maker.copies = Discovered
    /\ maker' = [maker EXCEPT !.at = "writing"]
    /\ archive' = [there |-> TRUE, files |-> [f \in {} |-> 0],
                   sums |-> maker.copies, whole |-> FALSE]
    /\ stale' = TRUE
    /\ UNCHANGED <<source, restorer, target, before>>

CloseArchive ==
    /\ maker.at = "writing"
    /\ archive' = [archive EXCEPT !.files = maker.copies, !.whole = TRUE]
    /\ maker' = NoMaker
    /\ stale' = TRUE
    /\ UNCHANGED <<source, restorer, target, before>>

\* create() is killed, or a copy or a dump fails.
BackupDies ==
    /\ maker.at # "idle"
    /\ maker' = NoMaker
    /\ UNCHANGED <<source, archive, restorer, target, stale, before>>

Damage(f) ==
    /\ f \in DOMAIN archive.files
    /\ archive' = [archive EXCEPT !.files[f] = Damaged]
    /\ stale' = TRUE
    /\ UNCHANGED <<source, maker, restorer, target, before>>

-----------------------------------------------------------------------------
\* Mutant: an entry need only be there.
VerifiedNames ==
    archive.there /\ archive.whole /\ DOMAIN archive.sums \subseteq DOMAIN archive.files

\* verify(): the archive can be read to its end, and every entry of the
\* manifest is there with its checksum.
Verified ==
    /\ archive.there /\ archive.whole
    /\ \A f \in DOMAIN archive.sums :
          f \in DOMAIN archive.files /\ archive.files[f] = archive.sums[f]

\* restore(): the files that it would overwrite.
Clashes == {f \in DOMAIN archive.sums : target[f] # NoFile}

\* restore(), until it begins to write; otherwise it raises.
BeginRestore(force) ==
    /\ restorer.at \in {"idle", "done"}
    /\ Verified
    /\ force \/ Clashes = {}
    /\ restorer' = [at |-> "writing", left |-> DOMAIN archive.sums, force |-> force,
                    names |-> DOMAIN archive.sums]
    /\ before' = target
    /\ stale' = FALSE
    /\ UNCHANGED <<source, archive, maker, target>>

\* The archive is opened again: the entry is written as it is found now.
RestoreFile(f) ==
    /\ restorer.at = "writing" /\ f \in restorer.left
    /\ archive.whole /\ f \in DOMAIN archive.files
    /\ target' = [target EXCEPT ![f] = archive.files[f]]
    /\ restorer' = [restorer EXCEPT !.left = @ \ {f}]
    /\ UNCHANGED <<source, archive, maker, stale, before>>

RestoreEnds ==
    /\ restorer.at = "writing" /\ restorer.left = {}
    /\ restorer' = [restorer EXCEPT !.at = "done"]
    /\ UNCHANGED <<source, archive, maker, target, stale, before>>

\* It is killed, or cannot read the entry or write the file.
RestoreDies ==
    /\ restorer.at = "writing"
    /\ restorer' = [restorer EXCEPT !.at = "idle"]
    /\ UNCHANGED <<source, archive, maker, target, stale, before>>

BackupNext ==
    \/ BeginBackup \/ OpenArchive \/ CloseArchive \/ BackupDies
    \/ RestoreEnds \/ RestoreDies
    \/ \E force \in BOOLEAN : BeginRestore(force)
    \/ \E f \in Stores : Write(f) \/ CopyStore(f) \/ Damage(f) \/ RestoreFile(f)

BackupSpec == BackupInit /\ [][BackupNext]_backVars

-----------------------------------------------------------------------------
\* A restore() that reports success has put back a whole snapshot of every file
\* that the manifest names, whatever died or was damaged before, provided that
\* the archive was left alone since it was verified; without --force no
\* restore(), finished or not, changes a file that was there; and no secret
\* reaches an archive.
BackupSound ==
    /\ (restorer.at = "done" /\ ~stale) =>
          \A f \in restorer.names : target[f] \in 1..MaxVersionB
    /\ ~restorer.force => \A f \in Stores : before[f] # NoFile => target[f] = before[f]
    /\ DOMAIN archive.files \intersect SecretFiles = {}

\* What users and the gateway leave behind: memories, indexed documents and
\* ratings stay within their limits and whole; the ledger of usage adds up in
\* every window; the audit trail is complete but for lines it counted as lost; and
\* a restore() that reports success has put back a whole snapshot of the stores.
StoresSound == KnowledgeSound /\ LedgerSound /\ BackupSound
=============================================================================
